SPECIFICATION FairSpec
CONSTANTS
  Clients = {c1}
  Nonces = {n1, n2, n3}
  NoNonce = NoNonce
  Configs <- MCConfigs
  NcLimit = 1
  MaxLeaks = 1
INVARIANTS TypeOK NoStaleExpiry AnnouncedExpires
PROPERTIES AuthorisesOnce RefusedForCause ImplementsAdmission ConnectReported NonceLapses
