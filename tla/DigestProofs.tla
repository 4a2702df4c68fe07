---------------------------- MODULE DigestProofs ----------------------------
(***************************************************************************)
(* Proofs about Digest, for any number of clients and nonces, any set of   *)
(* configurations and any limit of the nonce count: a nonce authorises     *)
(* once, is never announced without a timer, and a client that knows the   *)
(* password is refused only for the reasons listed in RefusedForCause.     *)
(* DigestInv is the inductive invariant.                                   *)
(***************************************************************************)
EXTENDS Digest, TLAPS

\* The copies a client has of nonces.
NoncesOf(c) == {authenticate[c].nonce, header[c].nonce, answer[c].nonce}

\* header has a value for each client, with the fields of NoHeader.
HeaderInv ==
    /\ header = [c \in Clients |-> header[c]]
    /\ \A c \in Clients : DOMAIN header[c] = DOMAIN NoHeader

\* A nonce of the pool has its context, and on one event loop no authorization runs while a
\* nonce expires.
PoolInv ==
    /\ pool \subseteq live
    /\ sameLoop => pc = "idle" \/ expiring = NoNonce
    /\ sameLoop /\ alive /\ expiring # NoNonce => expiring \in live
    /\ auth_type # "DIGEST" => pool = {}
    /\ NoStaleExpiry /\ AnnouncedExpires

\* A client has no answer before the server has given one, only a refusal is a challenge, and
\* the server deals with a client that waits for its answer.
Unanswered(c) ==
    /\ answer[c].type # "UNUSED" => answer[c].code = 401
    /\ phase[c] = "sent" => answer[c] = NoAnswer
    /\ phase[c] = "connected" => authenticate[c] = Unused

PhaseInv ==
    /\ \A c \in Clients : Unanswered(c)
    /\ cur # "nobody" => phase[cur] = "sent"
    /\ ~alive => pc = "idle"

\* No two clients are told the same nonce.
UniqueInv ==
    \A c, d \in Clients : c # d => NoncesOf(c) \cap NoncesOf(d) \subseteq {NoNonce}

\* A nonce that has authorised is not in the pool, and the nonce that is going to has not
\* authorised yet: it was in the pool when OnAccept began.
SpentInv ==
    /\ spent \subseteq Held /\ spent \cap pool = {}
    /\ auth_type = "DIGEST" /\ pc \in {"remove", "handler"} =>
        /\ header[cur].type = "DIGEST"
        /\ valid_nonce => header[cur].nonce \notin spent
    /\ auth_type = "DIGEST" /\ pc = "handler" => header[cur].nonce \notin pool

\* A client that can answer a digest challenge.
CanDigest(c) ==
    /\ KnownUser(c)
    /\ config[c].kind = "WS" => config[c].type = "DIGEST"
    /\ Parse(config[c].username) = config[c].username /\ Parse(DigestUri(c)) = DigestUri(c)

\* Its answer to the last challenge.
DigestHeader(c) ==
    [type |-> "DIGEST", username |-> config[c].username, nonce |-> authenticate[c].nonce,
     nc |-> authenticate[c].nc, uri |-> DigestUri(c),
     response |-> CalcDigest(CalcA1(config[c].username, Realm, config[c].password),
                             DigestUri(c), authenticate[c].nonce, authenticate[c].nc)]

Usable(n) == n \in pool \cup lapsed

\* The last challenge of such a client: it was given a nonce that is good until it expires or
\* comes back, it sends the nonce back in its next header, and a header that comes back in
\* vain has a nonce that has expired.
Challenged(c) ==
    /\ authenticate[c].nc >= 1 =>
        /\ authenticate[c].type = "DIGEST" /\ authenticate[c].nonce \in Nonces
        /\ phase[c] \in {"idle", "closing"} /\ alive => Usable(authenticate[c].nonce)
        /\ phase[c] = "sent" =>
            /\ header[c] = DigestHeader(c)
            /\ cur # c /\ alive => Usable(authenticate[c].nonce)
            /\ cur = c /\ pc \in {"remove", "handler"} =>
                  valid_nonce \/ authenticate[c].nonce \in lapsed
            /\ cur = c /\ pc = "challenge" => authenticate[c].nonce \in lapsed
    /\ phase[c] = "answered" /\ answer[c].code = 401 =>
        /\ answer[c].type = "DIGEST" /\ answer[c].nonce \in Nonces
        /\ alive => Usable(answer[c].nonce)
        /\ authenticate[c].nc >= 1 => header[c].nonce \in lapsed
    /\ phase[c] = "closing" /\ answer[c].code = 401 =>
        /\ authenticate[c].nc >= 1
        /\ authenticate[c].nc >= 2 => header[c].nonce \in lapsed

ChallengedInv ==
    auth_type = "DIGEST" => \A c \in Clients : CanDigest(c) => Challenged(c)

\* A client that a basic server must admit once it has sent its password.
OwnBasicHeader(c) == BasicHeader(config[c].username, config[c].password)

CanBasic(c) == KnownUser(c) /\ config[c].type = "BASIC" /\ ReadExactly(c)

\* A WSS client that has not sent it yet.
Unsent(c) == config[c].kind = "WSS" /\ header[c] = NoHeader

\* A server without digest refuses such a client only then.
Asked(c) ==
    /\ authenticate[c].type \in {"UNUSED", "BASIC"}
    /\ header[c] \in {NoHeader, OwnBasicHeader(c)}
    /\ config[c].kind = "WS" /\ phase[c] = "sent" => header[c] = OwnBasicHeader(c)
    /\ cur = c =>
        /\ pc = "handler" /\ auth_type = "BASIC" => header[c] = OwnBasicHeader(c)
        /\ pc = "challenge" => auth_type = "BASIC" /\ Unsent(c)
        /\ pc # "remove"
    /\ phase[c] = "answered" => answer[c].type \in {"UNUSED", "BASIC"}
    /\ phase[c] \in {"answered", "closing"} /\ answer[c].code = 401 => Unsent(c)

BasicInv ==
    auth_type # "DIGEST" => \A c \in Clients : CanBasic(c) => Asked(c)

DigestInv ==
    /\ TypeOK /\ HeaderInv /\ PoolInv /\ PhaseInv /\ UniqueInv
    /\ SpentInv /\ ChallengedInv /\ BasicInv

----------------------------------------------------------------------------
(* What the steps have in common.                                          *)

\* The parts of a configuration.
LEMMA ConfigParts ==
  ASSUME TypeOK, NEW c \in Clients
  PROVE  /\ config[c].kind \in {"WS", "WSS"} /\ config[c].type \in AuthTypes
         /\ config[c].username \in Users /\ config[c].password \in Passwords
         /\ config[c].url \in Urls
<1>1. auth_type \in AuthTypes /\ config[c] \in Configs[auth_type]
  BY DEF TypeOK
<1> QED
  BY <1>1, ConfigsAssumption

\* Held is what the clients have copies of.
LEMMA HeldByClient == Held = UNION {NoncesOf(c) : c \in Clients}
BY DEF Held, NoncesOf

\* A client that forgets nonces forgets none that another client has, nor one that it keeps.
LEMMA ForgetKeeps ==
  ASSUME Forget
  PROVE  /\ spent' \subseteq spent /\ spent' \subseteq Held' /\ lapsed' \subseteq lapsed
         /\ \A d \in Clients : \A x \in NoncesOf(d)' : x \in lapsed => x \in lapsed'
BY HeldByClient DEF Forget, Held, NoncesOf

\* What AuthenticateAtConnect changes is the type.
LEMMA AuthenticateParts ==
  ASSUME TypeOK, NEW c \in Clients
  PROVE  /\ AuthenticateAtConnect(c) \in [type : AuthTypes, nonce : Nonces \cup {NoNonce},
                                          nc : 0 .. NcLimit + 1]
         /\ AuthenticateAtConnect(c).nonce = authenticate[c].nonce
         /\ AuthenticateAtConnect(c).nc = authenticate[c].nc
         /\ AuthenticateAtConnect(c).type =
              IF config[c].kind = "WS" THEN config[c].type ELSE authenticate[c].type
<1>1. authenticate[c] \in [type : AuthTypes, nonce : Nonces \cup {NoNonce},
                           nc : 0 .. NcLimit + 1]
  BY DEF TypeOK
<1>2. config[c].type \in AuthTypes
  BY ConfigParts
<1>3. CASE config[c].kind = "WS"
  BY <1>1, <1>2, <1>3 DEF AuthenticateAtConnect
<1>4. CASE config[c].kind # "WS"
  BY <1>1, <1>4 DEF AuthenticateAtConnect
<1> QED
  BY <1>3, <1>4

\* The header of a connection repeats the nonce of the last challenge, an older one, or none.
LEMMA HeaderNonce ==
  ASSUME TypeOK, NEW c \in Clients
  PROVE  HeaderAtConnect(c).nonce \in {NoNonce, authenticate[c].nonce, header[c].nonce}
<1> DEFINE a == AuthenticateAtConnect(c)
           h == CreateAuthorizationHeader(a, DigestUri(c), config[c].username,
                                          config[c].password)
<1>1. h.nonce \in {NoNonce, authenticate[c].nonce}
  BY AuthenticateParts DEF CreateAuthorizationHeader, BasicHeader, NoHeader
<1>2. HeaderAtConnect(c) \in {h, NoHeader, header[c]}
  BY DEF HeaderAtConnect
<1>3. NoHeader.nonce = NoNonce
  BY DEF NoHeader
<1> QED
  BY <1>1, <1>2, <1>3

\* A client that was challenged, and can answer, answers.
LEMMA DigestHeaderMade ==
  ASSUME TypeOK, NEW c \in Clients, CanDigest(c), authenticate[c].type = "DIGEST",
         authenticate[c].nonce \in Nonces
  PROVE  /\ HeaderAtConnect(c) = DigestHeader(c)
         /\ AuthenticateAtConnect(c).type = "DIGEST"
<1> DEFINE a == AuthenticateAtConnect(c)
           h == CreateAuthorizationHeader(a, DigestUri(c), config[c].username,
                                          config[c].password)
<1>1. a.type = "DIGEST" /\ a.nonce # NoNonce /\ config[c].username # ""
  BY AuthenticateParts, ConfigParts, NoncesAssumption DEF CanDigest, KnownUser, Password
<1>2. h = DigestHeader(c)
  BY <1>1, AuthenticateParts DEF CreateAuthorizationHeader, BasicHeader, DigestHeader
<1>3. h.type = "DIGEST" /\ NoHeader.type = "none"
  BY <1>2 DEF DigestHeader, NoHeader
<1>4. h # NoHeader
  BY <1>3
<1>5. config[c].kind \in {"WS", "WSS"}
  BY ConfigParts
<1> HIDE DEF h
<1>6. HeaderAtConnect(c) = h
  BY <1>1, <1>4, <1>5 DEF HeaderAtConnect, h
<1> QED
  BY <1>1, <1>2, <1>6

\* The server admits a client whose answer carries a nonce that was valid.
LEMMA DigestAdmits ==
  ASSUME TypeOK, NEW c \in Clients, CanDigest(c), header[c] = DigestHeader(c),
         authenticate[c].nonce \in Nonces, valid_nonce
  PROVE  HandlerAdmits(AuthorizationContext(header[c]))
<1> DEFINE h == AuthorizationContext(header[c])
           uri == DigestUri(c)
<1>1. /\ Parse(uri) = uri /\ Parse(config[c].username) = config[c].username
      /\ uri # "" /\ config[c].username # ""
  BY ConfigParts DEF CanDigest, KnownUser, Password, DigestUri, Urls
<1> DEFINE g == DigestHeader(c)
<1>2. g = [type |-> "DIGEST", username |-> config[c].username,
           nonce |-> authenticate[c].nonce, nc |-> authenticate[c].nc, uri |-> uri,
           response |-> CalcDigest(CalcA1(config[c].username, Realm, config[c].password),
                                   uri, authenticate[c].nonce, authenticate[c].nc)]
  BY DEF DigestHeader
<1> HIDE DEF uri, g
<1>3. /\ h.type = "DIGEST" /\ h.username = config[c].username
      /\ h.nonce = authenticate[c].nonce /\ h.nc = authenticate[c].nc /\ h.uri = uri
      /\ h.response = CalcDigest(CalcA1(h.username, Realm, config[c].password),
                                 h.uri, h.nonce, h.nc)
  <2>1. header[c] = g
    BY DEF g
  <2>2. h = [g EXCEPT !.username = Parse(g.username), !.uri = Parse(g.uri)]
    BY <2>1, <1>2 DEF AuthorizationContext
  <2>3. h = [g EXCEPT !.username = config[c].username, !.uri = uri]
    BY <2>2, <1>1, <1>2
  <2> QED
    BY <2>3, <1>2
<1> HIDE DEF h
<1>4. Validate(h, config[c].password, valid_nonce) = "VALID"
  BY <1>1, <1>3, NoncesAssumption DEF Validate, ValidateWithHash
<1> QED
  BY <1>3, <1>4 DEF HandlerAdmits, CanDigest, KnownUser, h

\* The header of a client with a password for a basic server.
LEMMA BasicHeaderMade ==
  ASSUME TypeOK, NEW c \in Clients, CanBasic(c), authenticate[c].type \in {"UNUSED", "BASIC"}
  PROVE  /\ AuthenticateAtConnect(c).type \in {"UNUSED", "BASIC"}
         /\ HeaderAtConnect(c) \in {OwnBasicHeader(c), header[c]}
         /\ config[c].kind = "WS" => HeaderAtConnect(c) = OwnBasicHeader(c)
<1> DEFINE a == AuthenticateAtConnect(c)
           h == CreateAuthorizationHeader(a, DigestUri(c), config[c].username,
                                          config[c].password)
<1>1. /\ config[c].username # "" /\ config[c].type = "BASIC"
      /\ config[c].kind \in {"WS", "WSS"} /\ a.type \in {"UNUSED", "BASIC"}
      /\ config[c].kind = "WS" => a.type = "BASIC"
  BY AuthenticateParts, ConfigParts DEF CanBasic, KnownUser, Password
<1>2. a.type = "BASIC" => h = OwnBasicHeader(c)
  BY <1>1 DEF CreateAuthorizationHeader, OwnBasicHeader, BasicHeader
<1>3. a.type = "UNUSED" => h = NoHeader
  BY <1>1 DEF CreateAuthorizationHeader, BasicHeader
<1>4. OwnBasicHeader(c).type = "BASIC" /\ NoHeader.type = "none"
  BY DEF OwnBasicHeader, BasicHeader, NoHeader
<1> HIDE DEF h, a
<1>5. a.type = "BASIC" => HeaderAtConnect(c) = h
  BY <1>1, <1>2, <1>4 DEF HeaderAtConnect, h, a
<1>6. a.type = "UNUSED" => HeaderAtConnect(c) = header[c]
  BY <1>1, <1>3 DEF HeaderAtConnect, h, a
<1> QED
  BY <1>1, <1>2, <1>5, <1>6 DEF a

\* The server admits it.
LEMMA BasicAdmits ==
  ASSUME TypeOK, NEW c \in Clients, CanBasic(c), header[c] = OwnBasicHeader(c)
  PROVE  HandlerAdmits(AuthorizationContext(header[c]))
<1>1. /\ header[c].type = "BASIC" /\ header[c].response = <<config[c].password>>
      /\ header[c].username = config[c].username
  BY DEF OwnBasicHeader, BasicHeader, NoHeader
<1>2. ReadBack(header[c].username, header[c].response[1])
        = [username |-> config[c].username, password |-> config[c].password]
  BY <1>1 DEF CanBasic, ReadExactly
<1> DEFINE h == AuthorizationContext(header[c])
<1>3. /\ h.type = "BASIC" /\ h.username = config[c].username
      /\ h.response = <<config[c].password>>
  <2> DEFINE read == ReadBack(header[c].username, header[c].response[1])
  <2>1. h = [header[c] EXCEPT !.username = read.username, !.response = <<read.password>>]
    BY <1>1 DEF AuthorizationContext
  <2>2. read.username = config[c].username /\ read.password = config[c].password
    BY <1>2
  <2> HIDE DEF h, read
  <2> QED
    BY <1>1, <2>1, <2>2 DEF OwnBasicHeader, BasicHeader, NoHeader
<1> HIDE DEF h
<1> QED
  BY <1>1, <1>3 DEF HandlerAdmits, Validate, CanBasic, KnownUser, h

\* A step that is not about a client keeps what Challenged and Asked say of it.
LEMMA OtherClient ==
  ASSUME NEW d \in Clients, UNCHANGED <<config, auth_type>>,
         UNCHANGED <<authenticate[d], header[d], answer[d], phase[d]>>,
         alive' => alive, cur' = d <=> cur = d,
         cur = d => UNCHANGED <<pc, valid_nonce>>,
         \A x \in NoncesOf(d) : Usable(x) /\ x # NoNonce /\ alive' => Usable(x)',
         \A x \in NoncesOf(d) : x \in lapsed => x \in lapsed'
  PROVE  /\ CanDigest(d)' <=> CanDigest(d)
         /\ CanBasic(d)' <=> CanBasic(d)
         /\ Challenged(d) => Challenged(d)'
         /\ Asked(d) => Asked(d)'
<1>1. (CanDigest(d)' <=> CanDigest(d)) /\ (CanBasic(d)' <=> CanBasic(d))
  BY DEF CanDigest, CanBasic, KnownUser, ReadExactly, DigestUri
<1>2. /\ authenticate[d].nonce \in NoncesOf(d) /\ header[d].nonce \in NoncesOf(d)
      /\ answer[d].nonce \in NoncesOf(d)
  BY DEF NoncesOf
<1>3. DigestHeader(d)' = DigestHeader(d) /\ OwnBasicHeader(d)' = OwnBasicHeader(d)
  BY DEF DigestHeader, OwnBasicHeader, BasicHeader, DigestUri
<1>4. Challenged(d) => Challenged(d)'
  BY <1>2, <1>3, NoncesAssumption DEF Challenged
<1>5. Asked(d) => Asked(d)'
  BY <1>3 DEF Asked, Unsent
<1> QED
  BY <1>1, <1>4, <1>5

\* The handler admits a digest only if OnAccept found its nonce in the pool.
LEMMA DigestVerdict ==
  ASSUME HeaderInv, NEW c \in Clients, header[c].type = "DIGEST",
         HandlerAdmits(AuthorizationContext(header[c]))
  PROVE  valid_nonce
<1> DEFINE h == AuthorizationContext(header[c])
<1>1. h.type = "DIGEST"
  BY DEF HeaderInv, NoHeader, AuthorizationContext
<1> HIDE DEF h
<1>2. Validate(h, Password[h.username], valid_nonce) = "VALID"
  BY DEF HandlerAdmits, h
<1> QED
  BY <1>1, <1>2, Zenon DEF Validate, ValidateWithHash

\* What OnAccept reads in a header.
LEMMA ContextParts ==
  ASSUME HeaderInv, NEW c \in Clients
  PROVE  /\ AuthorizationContext(header[c]).type = header[c].type
         /\ AuthorizationContext(header[c]).nonce = header[c].nonce
BY DEF HeaderInv, NoHeader, AuthorizationContext

\* A step of a client the server does not deal with, which learns no new nonce.
LEMMA ClientKeeps ==
  ASSUME DigestInv, NEW c \in Clients, UNCHANGED <<poolVars, serverVars, config>>,
         Forget \/ (UNCHANGED historyVars /\ Held' = Held),
         \A d \in Clients \ {c} :
            UNCHANGED <<authenticate[d], header[d], answer[d], phase[d]>>,
         NoncesOf(c)' \subseteq NoncesOf(c) \cup {NoNonce}, cur # c
  PROVE  /\ PoolInv' /\ UniqueInv' /\ SpentInv'
         /\ lapsed' \subseteq lapsed /\ spent' \subseteq spent
         /\ \A x \in NoncesOf(c)' : Usable(x) => Usable(x)'
         /\ \A x \in NoncesOf(c)' : x \in lapsed => x \in lapsed'
         /\ Unanswered(c)' => PhaseInv'
         /\ (auth_type = "DIGEST" /\ CanDigest(c) => Challenged(c)') => ChallengedInv'
         /\ (auth_type # "DIGEST" /\ CanBasic(c) => Asked(c)') => BasicInv'
<1>1. /\ spent' \subseteq spent /\ spent' \subseteq Held' /\ lapsed' \subseteq lapsed
      /\ \A d \in Clients : \A x \in NoncesOf(d)' : x \in lapsed => x \in lapsed'
  <2>1. CASE Forget
    BY <2>1, ForgetKeeps
  <2>2. CASE UNCHANGED historyVars /\ Held' = Held
    BY <2>2 DEF historyVars, DigestInv, SpentInv
  <2> QED
    BY <2>1, <2>2
<1>2. \A d \in Clients \ {c} : NoncesOf(d)' = NoncesOf(d)
  BY DEF NoncesOf
<1>3. Held' \subseteq Held \cup {NoNonce}
  <2>1. Held' = UNION {NoncesOf(d)' : d \in Clients}
    BY DEF Held, NoncesOf
  <2> QED
    BY <1>2, <2>1, HeldByClient
<1>4. PoolInv'
  <2>1. pool' = pool /\ running' = running /\ live' = live /\ expiring' = expiring
    BY DEF poolVars
  <2>2. NoStaleExpiry'
    BY Zenon DEF DigestInv, PoolInv, NoStaleExpiry, poolVars, serverVars
  <2>3. AnnouncedExpires'
    BY <1>3, <2>1, NoncesAssumption DEF DigestInv, TypeOK, PoolTypeOK, PoolInv, AnnouncedExpires
  <2> QED
    BY <2>1, <2>2, <2>3 DEF DigestInv, PoolInv, serverVars
<1>5. UniqueInv'
  BY <1>2 DEF DigestInv, UniqueInv
<1>6. SpentInv'
  <2>1. pc # "idle" => cur \in Clients /\ header'[cur] = header[cur]
    BY DEF DigestInv, TypeOK
  <2> QED
    BY <1>1, <2>1 DEF DigestInv, SpentInv, serverVars, poolVars
<1>7. \A d \in Clients : \A x \in NoncesOf(d)' : Usable(x) => Usable(x)'
  BY <1>1 DEF Usable, poolVars
<1>8. ASSUME NEW d \in Clients \ {c}
      PROVE  /\ CanDigest(d)' <=> CanDigest(d)
             /\ CanBasic(d)' <=> CanBasic(d)
             /\ Challenged(d) => Challenged(d)'
             /\ Asked(d) => Asked(d)'
  <2>1. UNCHANGED <<config, auth_type, cur, pc, valid_nonce, alive>>
    BY DEF serverVars
  <2> QED
    BY <1>1, <1>2, <1>7, <2>1, OtherClient, Zenon
<1>9. Unanswered(c)' => PhaseInv'
  <2>1. UNCHANGED <<cur, pc, alive>>
    BY DEF serverVars
  <2>2. cur # "nobody" => cur \in Clients /\ phase'[cur] = phase[cur]
    BY DEF DigestInv, TypeOK
  <2>3. \A d \in Clients \ {c} : Unanswered(d)'
    BY DEF Unanswered, DigestInv, PhaseInv
  <2> QED
    BY <2>1, <2>2, <2>3 DEF DigestInv, PhaseInv
<1>10. (CanDigest(c)' <=> CanDigest(c)) /\ (CanBasic(c)' <=> CanBasic(c))
  BY DEF CanDigest, CanBasic, KnownUser, ReadExactly, DigestUri
<1>11. (auth_type = "DIGEST" /\ CanDigest(c) => Challenged(c)') => ChallengedInv'
  BY <1>8, <1>10 DEF DigestInv, ChallengedInv, serverVars
<1>12. (auth_type # "DIGEST" /\ CanBasic(c) => Asked(c)') => BasicInv'
  BY <1>8, <1>10 DEF DigestInv, BasicInv, serverVars
<1> QED
  BY <1>1, <1>4, <1>5, <1>6, <1>7, <1>9, <1>11, <1>12

----------------------------------------------------------------------------
(* The steps of a client.                                                  *)

\* The client connects, or connects again: it sends its answer to the last challenge.
LEMMA ConnectInv ==
  ASSUME DigestInv, NEW c \in Clients, phase[c] \in {"idle", "closing"}, Connect(c)
  PROVE  DigestInv'
<1>1. cur # c
  BY ClientsAssumption DEF DigestInv, PhaseInv
<1>2. /\ authenticate'[c] = AuthenticateAtConnect(c) /\ header'[c] = HeaderAtConnect(c)
      /\ answer'[c] = NoAnswer /\ phase'[c] = "sent"
      /\ \A d \in Clients \ {c} :
            UNCHANGED <<authenticate[d], header[d], answer[d], phase[d]>>
      /\ UNCHANGED <<poolVars, serverVars, config>> /\ Forget
  BY DEF Connect, DigestInv, TypeOK, HeaderInv
<1>3. NoncesOf(c)' \subseteq NoncesOf(c) \cup {NoNonce}
  BY <1>2, AuthenticateParts, HeaderNonce DEF DigestInv, NoncesOf, NoAnswer
<1>4. /\ PoolInv' /\ UniqueInv' /\ SpentInv'
      /\ lapsed' \subseteq lapsed /\ spent' \subseteq spent
      /\ \A x \in NoncesOf(c)' : Usable(x) => Usable(x)'
      /\ Unanswered(c)' => PhaseInv'
      /\ (auth_type = "DIGEST" /\ CanDigest(c) => Challenged(c)') => ChallengedInv'
      /\ (auth_type # "DIGEST" /\ CanBasic(c) => Asked(c)') => BasicInv'
  BY <1>1, <1>2, <1>3, ClientKeeps
<1>5. TypeOK'
  <2>1. authenticate' \in [Clients -> [type : AuthTypes, nonce : Nonces \cup {NoNonce},
                                      nc : 0 .. NcLimit + 1]]
    BY AuthenticateParts DEF Connect, DigestInv, TypeOK
  <2>2. \A d \in Clients : header'[d].nonce \in Nonces \cup {NoNonce}
    BY <1>2, HeaderNonce DEF DigestInv, TypeOK
  <2>3. /\ phase' \in [Clients -> {"idle", "sent", "answered", "closing", "connected"}]
        /\ answer' \in [Clients -> [code : {0, 101, 401, 500, 503}, type : AuthTypes,
                                    nonce : Nonces \cup {NoNonce}]]
    BY DEF Connect, DigestInv, TypeOK, NoAnswer, AuthTypes
  <2>4. /\ UNCHANGED <<pool, running, live, expiring, stale, config>>
        /\ UNCHANGED <<sameLoop, auth_type, alive, pc, cur, valid_nonce>>
    BY DEF Connect, poolVars, serverVars
  <2> QED
    BY <1>4, <2>1, <2>2, <2>3, <2>4 DEF DigestInv, TypeOK, PoolTypeOK
<1>6. HeaderInv'
  <2>1. DOMAIN HeaderAtConnect(c) = DOMAIN NoHeader
    BY DEF HeaderAtConnect, CreateAuthorizationHeader, BasicHeader, NoHeader, DigestInv, HeaderInv
  <2> QED
    BY <1>2, <2>1 DEF Connect, DigestInv, HeaderInv
<1>7. PhaseInv'
  BY <1>2, <1>4 DEF Unanswered, NoAnswer
<1>8. auth_type = "DIGEST" /\ CanDigest(c) => Challenged(c)'
  <2> SUFFICES ASSUME auth_type = "DIGEST", CanDigest(c), authenticate'[c].nc >= 1
               PROVE  Challenged(c)'
    BY <1>2 DEF Challenged
  <2>1. authenticate'[c].nonce = authenticate[c].nonce /\ authenticate'[c].nc = authenticate[c].nc
    BY <1>2, AuthenticateParts DEF DigestInv
  <2>2. /\ authenticate[c].type = "DIGEST" /\ authenticate[c].nonce \in Nonces
        /\ alive => Usable(authenticate[c].nonce)
    BY <2>1 DEF DigestInv, ChallengedInv, Challenged
  <2>3. authenticate'[c].type = "DIGEST" /\ header'[c] = DigestHeader(c)
    BY <1>2, <2>2, DigestHeaderMade DEF DigestInv
  <2>4. DigestHeader(c)' = DigestHeader(c)
    BY <1>2, <2>1 DEF DigestHeader, DigestUri
  <2>5. alive' => Usable(authenticate[c].nonce)'
    BY <1>2, <1>4, <2>1, <2>2 DEF serverVars, NoncesOf
  <2> QED
    BY <1>1, <1>2, <2>1, <2>2, <2>3, <2>4, <2>5 DEF Challenged, serverVars
<1>9. auth_type # "DIGEST" /\ CanBasic(c) => Asked(c)'
  <2> SUFFICES ASSUME auth_type # "DIGEST", CanBasic(c)
               PROVE  Asked(c)'
    OBVIOUS
  <2>1. authenticate[c].type \in {"UNUSED", "BASIC"} /\ header[c] \in {NoHeader, OwnBasicHeader(c)}
    BY DEF DigestInv, BasicInv, Asked
  <2>2. /\ authenticate'[c].type \in {"UNUSED", "BASIC"}
        /\ header'[c] \in {OwnBasicHeader(c), header[c]}
        /\ config[c].kind = "WS" => header'[c] = OwnBasicHeader(c)
    BY <1>2, <2>1, BasicHeaderMade DEF DigestInv
  <2>3. OwnBasicHeader(c)' = OwnBasicHeader(c) /\ cur' # c /\ config' = config
    BY <1>1, <1>2 DEF OwnBasicHeader, BasicHeader, serverVars
  <2> QED
    BY <1>2, <2>1, <2>2, <2>3 DEF Asked
<1> QED
  BY <1>4, <1>5, <1>6, <1>7, <1>8, <1>9 DEF DigestInv

\* The client learns the verdict, and the new nonce with it.
LEMMA OnConnectInv ==
  ASSUME DigestInv, NEW c \in Clients, OnConnect(c)
  PROVE  DigestInv'
<1>1. cur # c /\ phase[c] = "answered"
  BY ClientsAssumption DEF OnConnect, DigestInv, PhaseInv
<1>2. /\ authenticate'[c] = IF answer[c].type = "UNUSED" THEN Unused
                           ELSE [type |-> answer[c].type, nonce |-> answer[c].nonce,
                                 nc |-> NextNc(authenticate[c].nc)]
      /\ phase'[c] = (IF answer[c].code = 101 THEN "connected" ELSE "closing")
      /\ header' = header /\ answer' = answer
      /\ \A d \in Clients \ {c} :
            UNCHANGED <<authenticate[d], header[d], answer[d], phase[d]>>
      /\ UNCHANGED <<poolVars, serverVars, config>> /\ Forget
  BY DEF OnConnect, DigestInv, TypeOK
<1>3. NoncesOf(c)' \subseteq NoncesOf(c) \cup {NoNonce}
  BY <1>2 DEF NoncesOf, Unused
<1>4. /\ PoolInv' /\ UniqueInv' /\ SpentInv'
      /\ lapsed' \subseteq lapsed /\ spent' \subseteq spent
      /\ \A x \in NoncesOf(c)' : Usable(x) => Usable(x)'
      /\ \A x \in NoncesOf(c)' : x \in lapsed => x \in lapsed'
      /\ Unanswered(c)' => PhaseInv'
      /\ (auth_type = "DIGEST" /\ CanDigest(c) => Challenged(c)') => ChallengedInv'
      /\ (auth_type # "DIGEST" /\ CanBasic(c) => Asked(c)') => BasicInv'
  BY <1>1, <1>2, <1>3, ClientKeeps
<1>5. /\ NextNc(authenticate[c].nc) \in 1 .. NcLimit + 1
      /\ NextNc(authenticate[c].nc) >= 2 => authenticate[c].nc >= 1
  <2>1. authenticate[c].nc \in 0 .. NcLimit + 1
    BY DEF DigestInv, TypeOK
  <2> QED
    BY <2>1, NcLimitAssumption DEF NextNc
<1>6. TypeOK'
  <2>1. UNCHANGED <<pool, running, live, expiring, stale, config>>
    BY <1>2 DEF poolVars
  <2>2. UNCHANGED <<sameLoop, auth_type, alive, pc, cur, valid_nonce>>
    BY <1>2 DEF serverVars
  <2>3. authenticate'[c] \in [type : AuthTypes, nonce : Nonces \cup {NoNonce},
                             nc : 0 .. NcLimit + 1]
    BY <1>2, <1>5, NcLimitAssumption DEF DigestInv, TypeOK, Unused, AuthTypes
  <2>4. authenticate' \in [Clients -> [type : AuthTypes, nonce : Nonces \cup {NoNonce},
                                      nc : 0 .. NcLimit + 1]]
    BY <1>2, <2>3 DEF OnConnect, DigestInv, TypeOK
  <2>5. phase' \in [Clients -> {"idle", "sent", "answered", "closing", "connected"}]
    BY DEF OnConnect, DigestInv, TypeOK
  <2> QED
    BY <1>2, <1>4, <2>1, <2>2, <2>4, <2>5 DEF DigestInv, TypeOK, PoolTypeOK
<1>7. HeaderInv'
  BY <1>2 DEF DigestInv, HeaderInv
<1>8. PhaseInv'
  BY <1>1, <1>2, <1>4 DEF DigestInv, PhaseInv, Unanswered
<1>9. auth_type = "DIGEST" /\ CanDigest(c) => Challenged(c)'
  <2> SUFFICES ASSUME auth_type = "DIGEST", CanDigest(c)
               PROVE  Challenged(c)'
    OBVIOUS
  <2>1. Challenged(c)
    BY DEF DigestInv, ChallengedInv
  <2>2. CASE answer[c].type = "UNUSED"
    <3>1. authenticate'[c].nc = 0 /\ answer[c].code # 401
      BY <1>1, <1>2, <2>1, <2>2 DEF Challenged, Unused
    <3> QED
      BY <1>2, <3>1 DEF Challenged
  <2>3. CASE answer[c].type # "UNUSED"
    <3>1. answer[c].code = 401
      BY <2>3 DEF DigestInv, PhaseInv, Unanswered
    <3>2. /\ answer[c].type = "DIGEST" /\ answer[c].nonce \in Nonces
          /\ alive => Usable(answer[c].nonce)
          /\ authenticate[c].nc >= 1 => header[c].nonce \in lapsed
      BY <1>1, <2>1, <3>1 DEF Challenged
    <3>3. /\ authenticate'[c].type = "DIGEST" /\ authenticate'[c].nonce = answer[c].nonce
          /\ authenticate'[c].nc = NextNc(authenticate[c].nc) /\ phase'[c] = "closing"
      BY <1>2, <3>1, <3>2
    <3>4. alive' => Usable(authenticate[c].nonce)'
      BY <1>2, <1>4, <3>2, <3>3 DEF NoncesOf, serverVars
    <3>5. authenticate'[c].nc >= 2 => header'[c].nonce \in lapsed'
      BY <1>2, <1>4, <1>5, <3>2, <3>3 DEF NoncesOf
    <3> QED
      BY <1>2, <1>5, <3>2, <3>3, <3>4, <3>5 DEF Challenged
  <2> QED
    BY <2>2, <2>3
<1>10. auth_type # "DIGEST" /\ CanBasic(c) => Asked(c)'
  <2> SUFFICES ASSUME auth_type # "DIGEST", CanBasic(c)
               PROVE  Asked(c)'
    OBVIOUS
  <2>1. Asked(c) /\ cur' # c
    BY <1>1, <1>2 DEF DigestInv, BasicInv, serverVars
  <2>2. OwnBasicHeader(c)' = OwnBasicHeader(c) /\ Unsent(c)' = Unsent(c)
    BY <1>2 DEF OwnBasicHeader, BasicHeader, Unsent
  <2>3. authenticate'[c].type \in {"UNUSED", "BASIC"}
    BY <1>1, <1>2, <2>1 DEF Asked, Unused
  <2> QED
    BY <1>1, <1>2, <2>1, <2>2, <2>3 DEF Asked
<1> QED
  BY <1>4, <1>6, <1>7, <1>8, <1>9, <1>10 DEF DigestInv

\* The connection breaks before the verdict.
LEMMA ConnectFailsInv ==
  ASSUME DigestInv, NEW c \in Clients, ConnectFails(c)
  PROVE  DigestInv'
<1>1. cur # c /\ phase[c] \in {"sent", "answered"}
  BY DEF ConnectFails
<1>2. /\ authenticate'[c] = Unused /\ phase'[c] = "idle" /\ answer'[c] = NoAnswer
      /\ header' = header
      /\ \A d \in Clients \ {c} :
            UNCHANGED <<authenticate[d], header[d], answer[d], phase[d]>>
      /\ UNCHANGED <<poolVars, serverVars, config>> /\ Forget
  BY DEF ConnectFails, DigestInv, TypeOK
<1>3. NoncesOf(c)' \subseteq NoncesOf(c) \cup {NoNonce}
  BY <1>2 DEF NoncesOf, Unused, NoAnswer
<1>4. /\ PoolInv' /\ UniqueInv' /\ SpentInv'
      /\ lapsed' \subseteq lapsed /\ spent' \subseteq spent
      /\ \A x \in NoncesOf(c)' : Usable(x) => Usable(x)'
      /\ \A x \in NoncesOf(c)' : x \in lapsed => x \in lapsed'
      /\ Unanswered(c)' => PhaseInv'
      /\ (auth_type = "DIGEST" /\ CanDigest(c) => Challenged(c)') => ChallengedInv'
      /\ (auth_type # "DIGEST" /\ CanBasic(c) => Asked(c)') => BasicInv'
  BY <1>1, <1>2, <1>3, ClientKeeps
<1>5. TypeOK'
  <2>1. UNCHANGED <<pool, running, live, expiring, stale, config>>
    BY <1>2 DEF poolVars
  <2>2. UNCHANGED <<sameLoop, auth_type, alive, pc, cur, valid_nonce>>
    BY <1>2 DEF serverVars
  <2>3. authenticate' \in [Clients -> [type : AuthTypes, nonce : Nonces \cup {NoNonce},
                                      nc : 0 .. NcLimit + 1]]
    BY NcLimitAssumption DEF ConnectFails, DigestInv, TypeOK, Unused, AuthTypes
  <2>4. /\ phase' \in [Clients -> {"idle", "sent", "answered", "closing", "connected"}]
        /\ answer' \in [Clients -> [code : {0, 101, 401, 500, 503}, type : AuthTypes,
                                    nonce : Nonces \cup {NoNonce}]]
    BY DEF ConnectFails, DigestInv, TypeOK, NoAnswer, AuthTypes
  <2> QED
    BY <1>2, <1>4, <2>1, <2>2, <2>3, <2>4 DEF DigestInv, TypeOK, PoolTypeOK
<1>6. HeaderInv'
  BY <1>2 DEF DigestInv, HeaderInv
<1>7. PhaseInv'
  BY <1>2, <1>4 DEF Unanswered, NoAnswer
<1>8. auth_type = "DIGEST" /\ CanDigest(c) => Challenged(c)'
  BY <1>2 DEF Challenged, Unused
<1>9. auth_type # "DIGEST" /\ CanBasic(c) => Asked(c)'
  <2>1. OwnBasicHeader(c)' = OwnBasicHeader(c) /\ cur' # c
    BY <1>1, <1>2 DEF OwnBasicHeader, BasicHeader, serverVars
  <2> QED
    BY <1>2, <2>1 DEF DigestInv, BasicInv, Asked, Unused
<1> QED
  BY <1>4, <1>5, <1>6, <1>7, <1>8, <1>9 DEF DigestInv

\* The handler of the client is told, of a refusal or of the end of a connection.
LEMMA OnDisconnectInv ==
  ASSUME DigestInv, NEW c \in Clients, OnDisconnect(c) \/ Disconnect(c)
  PROVE  DigestInv'
<1>1. cur # c /\ phase[c] \in {"closing", "connected"}
  BY ClientsAssumption DEF OnDisconnect, Disconnect, DigestInv, PhaseInv
<1>2. /\ phase'[c] = "idle"
      /\ authenticate' = authenticate /\ header' = header /\ answer' = answer
      /\ \A d \in Clients \ {c} :
            UNCHANGED <<authenticate[d], header[d], answer[d], phase[d]>>
      /\ UNCHANGED <<poolVars, serverVars, config>>
      /\ UNCHANGED historyVars /\ Held' = Held
  BY DEF OnDisconnect, Disconnect, DigestInv, TypeOK, Held
<1>3. NoncesOf(c)' \subseteq NoncesOf(c) \cup {NoNonce}
  BY <1>2 DEF NoncesOf
<1>4. /\ PoolInv' /\ UniqueInv' /\ SpentInv'
      /\ lapsed' \subseteq lapsed /\ spent' \subseteq spent
      /\ \A x \in NoncesOf(c)' : Usable(x) => Usable(x)'
      /\ \A x \in NoncesOf(c)' : x \in lapsed => x \in lapsed'
      /\ Unanswered(c)' => PhaseInv'
      /\ (auth_type = "DIGEST" /\ CanDigest(c) => Challenged(c)') => ChallengedInv'
      /\ (auth_type # "DIGEST" /\ CanBasic(c) => Asked(c)') => BasicInv'
  BY <1>1, <1>2, <1>3, ClientKeeps
<1>5. TypeOK'
  <2>1. UNCHANGED <<pool, running, live, expiring, stale, config>>
    BY <1>2 DEF poolVars
  <2>2. UNCHANGED <<sameLoop, auth_type, alive, pc, cur, valid_nonce>>
    BY <1>2 DEF serverVars
  <2>3. phase' \in [Clients -> {"idle", "sent", "answered", "closing", "connected"}]
    BY DEF OnDisconnect, Disconnect, DigestInv, TypeOK
  <2> QED
    BY <1>2, <1>4, <2>1, <2>2, <2>3 DEF DigestInv, TypeOK, PoolTypeOK
<1>6. HeaderInv'
  BY <1>2 DEF DigestInv, HeaderInv
<1>7. PhaseInv'
  BY <1>2, <1>4 DEF DigestInv, PhaseInv, Unanswered
<1>8. auth_type = "DIGEST" /\ CanDigest(c) => Challenged(c)'
  <2> SUFFICES ASSUME auth_type = "DIGEST", CanDigest(c), authenticate[c].nc >= 1
               PROVE  Challenged(c)'
    BY <1>2 DEF Challenged
  <2>1. phase[c] = "closing"
    BY <1>1 DEF DigestInv, PhaseInv, Unanswered, Unused
  <2>2. /\ authenticate[c].type = "DIGEST" /\ authenticate[c].nonce \in Nonces
        /\ alive => Usable(authenticate[c].nonce)
    BY <2>1 DEF DigestInv, ChallengedInv, Challenged
  <2>3. alive' => Usable(authenticate[c].nonce)'
    BY <1>2, <1>4, <2>2 DEF NoncesOf, serverVars
  <2> QED
    BY <1>2, <2>2, <2>3 DEF Challenged
<1>9. auth_type # "DIGEST" /\ CanBasic(c) => Asked(c)'
  <2>1. OwnBasicHeader(c)' = OwnBasicHeader(c) /\ cur' # c
    BY <1>1, <1>2 DEF OwnBasicHeader, BasicHeader, serverVars
  <2> QED
    BY <1>2, <2>1 DEF DigestInv, BasicInv, Asked
<1> QED
  BY <1>4, <1>5, <1>6, <1>7, <1>8, <1>9 DEF DigestInv

\* A client is answered without being asked for an authorization.
LEMMA AcceptRefusedInv ==
  ASSUME DigestInv, NEW c \in Clients, NEW code \in {500, 503}, AcceptRefused(c, code)
  PROVE  DigestInv'
<1>1. cur = "nobody" /\ pc = "idle" /\ cur # c /\ phase[c] = "sent"
  BY ClientsAssumption DEF AcceptRefused, DigestInv, TypeOK
<1>2. /\ phase'[c] = "answered"
      /\ answer'[c] = [code |-> code, type |-> "UNUSED", nonce |-> NoNonce]
      /\ authenticate' = authenticate /\ header' = header
      /\ \A d \in Clients \ {c} :
            UNCHANGED <<authenticate[d], header[d], answer[d], phase[d]>>
      /\ UNCHANGED <<poolVars, serverVars, config>>
      /\ UNCHANGED historyVars
  BY <1>1 DEF AcceptRefused, Answer, DigestInv, TypeOK, serverVars
<1>3. answer[c].nonce = NoNonce /\ answer'[c].nonce = NoNonce
  BY <1>1, <1>2 DEF DigestInv, PhaseInv, Unanswered, NoAnswer
<1>4. NoncesOf(c)' = NoncesOf(c) /\ Held' = Held
  <2>1. \A d \in Clients : answer'[d].nonce = answer[d].nonce
    BY <1>2, <1>3
  <2> QED
    BY <1>2, <2>1 DEF NoncesOf, Held
<1>5. /\ PoolInv' /\ UniqueInv' /\ SpentInv'
      /\ lapsed' \subseteq lapsed /\ spent' \subseteq spent
      /\ \A x \in NoncesOf(c)' : Usable(x) => Usable(x)'
      /\ \A x \in NoncesOf(c)' : x \in lapsed => x \in lapsed'
      /\ Unanswered(c)' => PhaseInv'
      /\ (auth_type = "DIGEST" /\ CanDigest(c) => Challenged(c)') => ChallengedInv'
      /\ (auth_type # "DIGEST" /\ CanBasic(c) => Asked(c)') => BasicInv'
  BY <1>1, <1>2, <1>4, ClientKeeps
<1>6. TypeOK'
  <2>1. UNCHANGED <<pool, running, live, expiring, stale, config>>
    BY <1>2 DEF poolVars
  <2>2. UNCHANGED <<sameLoop, auth_type, alive, pc, cur, valid_nonce>>
    BY <1>2 DEF serverVars
  <2>3. /\ phase' \in [Clients -> {"idle", "sent", "answered", "closing", "connected"}]
        /\ answer' \in [Clients -> [code : {0, 101, 401, 500, 503}, type : AuthTypes,
                                    nonce : Nonces \cup {NoNonce}]]
    BY DEF AcceptRefused, Answer, DigestInv, TypeOK, AuthTypes
  <2> QED
    BY <1>2, <1>5, <2>1, <2>2, <2>3 DEF DigestInv, TypeOK, PoolTypeOK
<1>7. HeaderInv'
  BY <1>2 DEF DigestInv, HeaderInv
<1>8. PhaseInv'
  BY <1>2, <1>5 DEF Unanswered
<1>9. auth_type = "DIGEST" /\ CanDigest(c) => Challenged(c)'
  BY <1>2 DEF DigestInv, ChallengedInv, Challenged
<1>10. auth_type # "DIGEST" /\ CanBasic(c) => Asked(c)'
  <2>1. OwnBasicHeader(c)' = OwnBasicHeader(c) /\ cur' # c
    BY <1>1, <1>2 DEF OwnBasicHeader, BasicHeader, serverVars
  <2> QED
    BY <1>2, <2>1 DEF DigestInv, BasicInv, Asked
<1> QED
  BY <1>5, <1>6, <1>7, <1>8, <1>9, <1>10 DEF DigestInv

----------------------------------------------------------------------------
(* The steps of the server.                                                *)

\* What a step of the server for a client keeps: it takes no nonce from another client and
\* gives none away that another client has.
LEMMA ServerKeeps ==
  ASSUME DigestInv, NEW c \in Clients, cur \in {c, "nobody"}, cur' \in {c, "nobody"},
         UNCHANGED <<config, auth_type, alive, authenticate, header, lapsed>>,
         \A d \in Clients \ {c} : UNCHANGED <<answer[d], phase[d]>>,
         pool \ pool' \subseteq NoncesOf(c),
         \A x \in NoncesOf(c)' : x \in NoncesOf(c) \cup {NoNonce} \/ x \notin Held
  PROVE  /\ HeaderInv' /\ UniqueInv'
         /\ Unanswered(c)' /\ (cur' = c => phase'[c] = "sent") /\ (~alive' => pc' = "idle")
              => PhaseInv'
         /\ (auth_type = "DIGEST" /\ CanDigest(c) => Challenged(c)') => ChallengedInv'
         /\ (auth_type # "DIGEST" /\ CanBasic(c) => Asked(c)') => BasicInv'
<1>1. \A d \in Clients \ {c} : NoncesOf(d)' = NoncesOf(d) /\ NoncesOf(d) \subseteq Held
  BY HeldByClient DEF NoncesOf
<1>2. HeaderInv'
  BY DEF DigestInv, HeaderInv
<1>3. UniqueInv'
  BY <1>1 DEF DigestInv, UniqueInv
<1>4. ASSUME Unanswered(c)', cur' = c => phase'[c] = "sent", ~alive' => pc' = "idle"
      PROVE  PhaseInv'
  <2>1. \A d \in Clients \ {c} : Unanswered(d)'
    BY DEF Unanswered, DigestInv, PhaseInv
  <2> QED
    BY <1>4, <2>1 DEF PhaseInv
<1>5. ASSUME NEW d \in Clients \ {c}
      PROVE  /\ CanDigest(d)' <=> CanDigest(d)
             /\ CanBasic(d)' <=> CanBasic(d)
             /\ Challenged(d) => Challenged(d)'
             /\ Asked(d) => Asked(d)'
  <2>1. \A x \in NoncesOf(d) : Usable(x) /\ x # NoNonce => Usable(x)'
    BY DEF DigestInv, UniqueInv, Usable
  <2>2. cur # d /\ cur' # d
    BY ClientsAssumption
  <2> QED
    BY <1>1, <2>1, <2>2, OtherClient, Zenon
<1>6. (CanDigest(c)' <=> CanDigest(c)) /\ (CanBasic(c)' <=> CanBasic(c))
  BY DEF CanDigest, CanBasic, KnownUser, ReadExactly, DigestUri
<1>7. (auth_type = "DIGEST" /\ CanDigest(c) => Challenged(c)') => ChallengedInv'
  BY <1>5, <1>6 DEF DigestInv, ChallengedInv
<1>8. (auth_type # "DIGEST" /\ CanBasic(c) => Asked(c)') => BasicInv'
  BY <1>5, <1>6 DEF DigestInv, BasicInv
<1> QED
  BY <1>2, <1>3, <1>4, <1>7, <1>8

\* What an answer changes: the client is given at most one nonce, which is new.
LEMMA AnswerKeeps ==
  ASSUME DigestInv, NEW c \in Clients, cur = c, NEW code \in {101, 401, 500},
         NEW type \in AuthTypes, NEW n \in Nonces \cup {NoNonce},
         type # "UNUSED" => code = 401, n = NoNonce \/ n \notin Held,
         Answer(c, code, type, n), lapsed' = lapsed, pool \subseteq pool'
  PROVE  /\ phase[c] = "sent" /\ phase'[c] = "answered"
         /\ answer'[c] = [code |-> code, type |-> type, nonce |-> n]
         /\ UNCHANGED <<sameLoop, auth_type, alive, valid_nonce, config, authenticate, header>>
         /\ pc' = "idle" /\ cur' = "nobody"
         /\ phase' \in [Clients -> {"idle", "sent", "answered", "closing", "connected"}]
         /\ answer' \in [Clients -> [code : {0, 101, 401, 500, 503}, type : AuthTypes,
                                    nonce : Nonces \cup {NoNonce}]]
         /\ \A x \in Nonces : x \in Held' <=> x \in Held \/ x = n
         /\ HeaderInv' /\ UniqueInv' /\ PhaseInv'
         /\ (auth_type = "DIGEST" /\ CanDigest(c) => Challenged(c)') => ChallengedInv'
         /\ (auth_type # "DIGEST" /\ CanBasic(c) => Asked(c)') => BasicInv'
<1>1. /\ phase'[c] = "answered" /\ answer'[c] = [code |-> code, type |-> type, nonce |-> n]
      /\ UNCHANGED <<sameLoop, auth_type, alive, valid_nonce, config, authenticate, header>>
      /\ pc' = "idle" /\ cur' = "nobody"
      /\ \A d \in Clients \ {c} : UNCHANGED <<answer[d], phase[d]>>
  BY DEF Answer, DigestInv, TypeOK
<1>2. /\ phase' \in [Clients -> {"idle", "sent", "answered", "closing", "connected"}]
      /\ answer' \in [Clients -> [code : {0, 101, 401, 500, 503}, type : AuthTypes,
                                    nonce : Nonces \cup {NoNonce}]]
  BY DEF Answer, DigestInv, TypeOK
<1>3. phase[c] = "sent" /\ answer[c].nonce = NoNonce
  BY ClientsAssumption DEF DigestInv, PhaseInv, Unanswered, NoAnswer
<1>4. NoncesOf(c)' = {authenticate[c].nonce, header[c].nonce, n}
  BY <1>1 DEF NoncesOf
<1>5. \A x \in Nonces : x \in Held' <=> x \in Held \/ x = n
  <2>1. \A d \in Clients \ {c} : NoncesOf(d)' = NoncesOf(d)
    BY <1>1 DEF NoncesOf
  <2>2. \A x \in Nonces : x \in NoncesOf(c)' <=> x \in NoncesOf(c) \/ x = n
    BY <1>3, <1>4, NoncesAssumption DEF NoncesOf
  <2>3. Held' = UNION {NoncesOf(d)' : d \in Clients}
    BY DEF Held, NoncesOf
  <2> QED
    BY <2>1, <2>2, <2>3, HeldByClient
<1>6. \A x \in NoncesOf(c)' : x \in NoncesOf(c) \cup {NoNonce} \/ x \notin Held
  BY <1>4 DEF NoncesOf
<1>7. /\ HeaderInv' /\ UniqueInv'
      /\ Unanswered(c)' /\ (cur' = c => phase'[c] = "sent") /\ (~alive' => pc' = "idle")
           => PhaseInv'
      /\ (auth_type = "DIGEST" /\ CanDigest(c) => Challenged(c)') => ChallengedInv'
      /\ (auth_type # "DIGEST" /\ CanBasic(c) => Asked(c)') => BasicInv'
  BY <1>1, <1>6, ServerKeeps
<1>8. PhaseInv'
  BY <1>1, <1>7, ClientsAssumption DEF Unanswered
<1> QED
  BY <1>1, <1>2, <1>3, <1>5, <1>7, <1>8

\* A step that leaves the pool alone and reveals none of its nonces.
LEMMA PoolKept ==
  ASSUME DigestInv, UNCHANGED <<poolVars, sameLoop, auth_type, alive>>,
         \A x \in Nonces : x \in Held' => x \in Held,
         sameLoop => pc' = "idle" \/ expiring = NoNonce
  PROVE  PoolInv'
<1>1. pool' = pool /\ running' = running /\ live' = live /\ expiring' = expiring
  BY DEF poolVars
<1>2. NoStaleExpiry'
  BY Zenon DEF DigestInv, PoolInv, NoStaleExpiry, poolVars
<1>3. AnnouncedExpires'
  BY <1>1 DEF DigestInv, TypeOK, PoolTypeOK, PoolInv, AnnouncedExpires
<1> QED
  BY <1>1, <1>2, <1>3 DEF DigestInv, PoolInv

\* OnAccept begins.
LEMMA AcceptInv ==
  ASSUME DigestInv, NEW c \in Clients, Accept(c)
  PROVE  DigestInv'
<1> DEFINE h == AuthorizationContext(header[c])
<1>1. /\ alive /\ pc = "idle" /\ cur = "nobody" /\ phase[c] = "sent" /\ cur' = c
      /\ sameLoop => expiring = NoNonce
      /\ UNCHANGED <<poolVars, sameLoop, auth_type, alive, clientVars, historyVars>>
  BY DEF Accept, LoopFree, DigestInv, TypeOK
<1>2. h.type = header[c].type /\ h.nonce = header[c].nonce
  BY ContextParts DEF DigestInv
<1>3. /\ pc' = CASE auth_type = "UNUSED" -> "handler"
                 [] auth_type # "UNUSED" /\ h.type # auth_type -> "challenge"
                 [] auth_type = "BASIC" /\ h.type = "BASIC" -> "handler"
                 [] OTHER -> "remove"
      /\ valid_nonce' = (auth_type = "DIGEST" /\ h.type = "DIGEST" /\ IsValid(h.nonce))
  BY DEF Accept
<1> HIDE DEF h
<1>4. /\ UNCHANGED <<pool, running, live, expiring, stale, config, authenticate, header>>
      /\ UNCHANGED <<phase, answer, lapsed, spent>>
      /\ UNCHANGED <<sameLoop, auth_type, alive>>
      /\ Held' = Held /\ NoncesOf(c)' = NoncesOf(c)
  BY <1>1 DEF poolVars, clientVars, historyVars, Held, NoncesOf
<1>5. pc' \in {"remove", "handler", "challenge"}
  BY <1>3
<1>6. valid_nonce' \in BOOLEAN
  BY <1>3
<1>7. TypeOK'
  BY <1>1, <1>4, <1>5, <1>6, ClientsAssumption DEF DigestInv, TypeOK, PoolTypeOK
<1>8. PoolInv'
  BY <1>1, <1>4, PoolKept
<1>9. /\ HeaderInv' /\ UniqueInv'
      /\ Unanswered(c)' /\ (cur' = c => phase'[c] = "sent") /\ (~alive' => pc' = "idle")
           => PhaseInv'
      /\ (auth_type = "DIGEST" /\ CanDigest(c) => Challenged(c)') => ChallengedInv'
      /\ (auth_type # "DIGEST" /\ CanBasic(c) => Asked(c)') => BasicInv'
  BY <1>1, <1>4, ServerKeeps
<1>10. PhaseInv'
  BY <1>1, <1>4, <1>9 DEF Unanswered, DigestInv, PhaseInv
<1>11. SpentInv'
  <2>1. auth_type = "DIGEST" => pc' # "handler"
    BY <1>3
  <2>2. auth_type = "DIGEST" /\ pc' = "remove" =>
          /\ header[c].type = "DIGEST"
          /\ valid_nonce' => header[c].nonce \in pool
    BY <1>2, <1>3, Zenon DEF IsValid
  <2> QED
    BY <1>1, <1>4, <2>1, <2>2 DEF DigestInv, SpentInv
<1>12. auth_type = "DIGEST" /\ CanDigest(c) => Challenged(c)'
  <2> SUFFICES ASSUME auth_type = "DIGEST", CanDigest(c)
               PROVE  Challenged(c)'
    OBVIOUS
  <2>1. Challenged(c) /\ cur # c
    BY <1>1, ClientsAssumption DEF DigestInv, ChallengedInv
  <2>2. CASE authenticate[c].nc >= 1
    <3>1. /\ header[c] = DigestHeader(c) /\ Usable(authenticate[c].nonce)
          /\ authenticate[c].type = "DIGEST" /\ authenticate[c].nonce \in Nonces
      BY <1>1, <2>1, <2>2 DEF Challenged
    <3>2. h.type = "DIGEST" /\ h.nonce = authenticate[c].nonce
      BY <1>2, <3>1 DEF DigestHeader
    <3>3. pc' = "remove"
      BY <1>3, <3>2
    <3>4. valid_nonce' \/ authenticate[c].nonce \in lapsed
      BY <1>3, <3>1, <3>2, Zenon DEF IsValid, Usable
    <3>5. DigestHeader(c)' = DigestHeader(c)
      BY <1>4 DEF DigestHeader, DigestUri
    <3> QED
      BY <1>1, <1>4, <3>1, <3>3, <3>4, <3>5 DEF Challenged
  <2>3. CASE ~(authenticate[c].nc >= 1)
    BY <1>1, <1>4, <2>3 DEF Challenged
  <2> QED
    BY <2>2, <2>3
<1>13. auth_type # "DIGEST" /\ CanBasic(c) => Asked(c)'
  <2> SUFFICES ASSUME auth_type # "DIGEST", CanBasic(c)
               PROVE  Asked(c)'
    OBVIOUS
  <2>1. Asked(c) /\ auth_type \in {"UNUSED", "BASIC"}
    BY DEF DigestInv, TypeOK, AuthTypes, BasicInv
  <2>2. OwnBasicHeader(c)' = OwnBasicHeader(c) /\ OwnBasicHeader(c).type = "BASIC"
        /\ NoHeader.type = "none" /\ Unsent(c)' = Unsent(c)
    BY <1>4 DEF OwnBasicHeader, BasicHeader, NoHeader, Unsent
  <2>3. config[c].kind \in {"WS", "WSS"}
    BY ConfigParts DEF DigestInv
  <2>4. pc' = "handler" /\ auth_type = "BASIC" => header[c] = OwnBasicHeader(c)
    BY <1>2, <1>3, <2>1, <2>2 DEF Asked
  <2>5. pc' = "challenge" => auth_type = "BASIC" /\ Unsent(c)
    BY <1>1, <1>2, <1>3, <2>1, <2>2, <2>3 DEF Asked, Unsent
  <2>6. pc' # "remove"
    BY <1>3, <2>1
  <2> QED
    BY <1>1, <1>4, <2>1, <2>2, <2>4, <2>5, <2>6 DEF Asked
<1> QED
  BY <1>7, <1>8, <1>9, <1>10, <1>11, <1>12, <1>13 DEF DigestInv

\* The nonce of the authorization comes back to the server.
LEMMA RemoveNonceInv ==
  ASSUME DigestInv, RemoveNonce
  PROVE  DigestInv'
<1> DEFINE m == header[cur].nonce
<1>1. /\ cur \in Clients /\ pc = "remove" /\ pc' = "handler"
      /\ pool' = pool \ {m} /\ running' = running \ {m} /\ live' = live \ ({m} \cap pool)
      /\ UNCHANGED <<expiring, stale, sameLoop, auth_type, alive, cur, valid_nonce>>
      /\ UNCHANGED <<config, authenticate, header, phase, answer, lapsed, spent>>
  BY DEF RemoveNonce, Remove, TakeOut, clientVars, historyVars, DigestInv, TypeOK
<1> PICK c \in Clients : c = cur
  BY <1>1
<1>2. Held' = Held /\ NoncesOf(c)' = NoncesOf(c) /\ m \in NoncesOf(c)
  BY <1>1 DEF Held, NoncesOf
<1>3. TypeOK'
  BY <1>1 DEF DigestInv, TypeOK, PoolTypeOK
<1>4. PoolInv'
  <2>1. NoStaleExpiry'
    BY <1>1, Zenon DEF DigestInv, PoolInv, NoStaleExpiry
  <2>2. AnnouncedExpires'
    BY <1>1, <1>2 DEF DigestInv, PoolInv, AnnouncedExpires
  <2> QED
    BY <1>1, <2>1, <2>2 DEF DigestInv, PoolInv
<1>5. /\ HeaderInv' /\ UniqueInv'
      /\ Unanswered(c)' /\ (cur' = c => phase'[c] = "sent") /\ (~alive' => pc' = "idle")
           => PhaseInv'
      /\ (auth_type = "DIGEST" /\ CanDigest(c) => Challenged(c)') => ChallengedInv'
      /\ (auth_type # "DIGEST" /\ CanBasic(c) => Asked(c)') => BasicInv'
  BY <1>1, <1>2, ServerKeeps
<1>6. PhaseInv'
  BY <1>1, <1>5, ClientsAssumption DEF Unanswered, DigestInv, PhaseInv
<1>7. SpentInv'
  BY <1>1, <1>2 DEF DigestInv, SpentInv
<1>8. auth_type = "DIGEST" /\ CanDigest(c) => Challenged(c)'
  <2>1. phase[c] = "sent"
    BY ClientsAssumption DEF DigestInv, PhaseInv
  <2>2. DigestHeader(c)' = DigestHeader(c)
    BY <1>1 DEF DigestHeader, DigestUri
  <2> QED
    BY <1>1, <2>1, <2>2 DEF DigestInv, ChallengedInv, Challenged
<1>9. auth_type # "DIGEST" /\ CanBasic(c) => Asked(c)'
  BY <1>1 DEF DigestInv, BasicInv, Asked
<1> QED
  BY <1>3, <1>4, <1>5, <1>6, <1>7, <1>8, <1>9 DEF DigestInv

\* The verdict: a client that can answer is let in, unless its nonce had expired.
LEMMA HandlerInv ==
  ASSUME DigestInv, Handler
  PROVE  DigestInv'
<1> DEFINE m == header[cur].nonce
           Admitted == auth_type = "UNUSED" \/ HandlerAdmits(AuthorizationContext(header[cur]))
<1>1. cur \in Clients /\ pc = "handler" /\ lapsed' = lapsed /\ UNCHANGED poolVars
  BY DEF Handler, DigestInv, TypeOK
<1> PICK c \in Clients : c = cur
  BY <1>1
<1>2. pool' = pool /\ running' = running /\ live' = live /\ expiring' = expiring /\ stale' = stale
  BY <1>1 DEF poolVars
<1>3. sameLoop => expiring = NoNonce
  BY <1>1 DEF DigestInv, PoolInv
<1>4. CASE Admitted
  <2>1. Answer(c, 101, "UNUSED", NoNonce) /\ spent' = spent \cup ({m} \cap Nonces)
    BY <1>4 DEF Handler
  <2>2. /\ phase[c] = "sent" /\ phase'[c] = "answered"
        /\ answer'[c] = [code |-> 101, type |-> "UNUSED", nonce |-> NoNonce]
        /\ UNCHANGED <<sameLoop, auth_type, alive, valid_nonce, config, authenticate, header>>
        /\ pc' = "idle" /\ cur' = "nobody"
        /\ phase' \in [Clients -> {"idle", "sent", "answered", "closing", "connected"}]
        /\ answer' \in [Clients -> [code : {0, 101, 401, 500, 503}, type : AuthTypes,
                                    nonce : Nonces \cup {NoNonce}]]
        /\ \A x \in Nonces : x \in Held' <=> x \in Held \/ x = NoNonce
        /\ HeaderInv' /\ UniqueInv' /\ PhaseInv'
        /\ (auth_type = "DIGEST" /\ CanDigest(c) => Challenged(c)') => ChallengedInv'
        /\ (auth_type # "DIGEST" /\ CanBasic(c) => Asked(c)') => BasicInv'
    BY <1>1, <1>2, <2>1, AnswerKeeps DEF AuthTypes
  <2>3. TypeOK'
    BY <1>1, <1>2, <2>1, <2>2, ClientsAssumption DEF DigestInv, TypeOK, PoolTypeOK
  <2>4. PoolInv'
    BY <1>1, <2>2, NoncesAssumption, PoolKept
  <2>5. SpentInv'
    <3>1. m \in Held
      BY <1>1 DEF Held
    <3>2. m \notin pool
      BY <1>1, <1>2 DEF DigestInv, PoolInv, SpentInv
    <3>3. spent \subseteq Nonces
      BY DEF DigestInv, TypeOK
    <3> QED
      BY <1>2, <2>1, <2>2, <3>1, <3>2, <3>3 DEF DigestInv, SpentInv
  <2>6. Challenged(c) => Challenged(c)'
    BY <2>2 DEF Challenged
  <2>7. Asked(c) => Asked(c)'
    <3>1. OwnBasicHeader(c)' = OwnBasicHeader(c)
      BY <2>2 DEF OwnBasicHeader, BasicHeader
    <3> QED
      BY <2>2, <3>1, ClientsAssumption DEF Asked
  <2> QED
    BY <2>2, <2>3, <2>4, <2>5, <2>6, <2>7 DEF DigestInv, ChallengedInv, BasicInv
<1>5. CASE ~Admitted
  <2>1. /\ pc' = "challenge"
        /\ UNCHANGED <<sameLoop, auth_type, alive, cur, valid_nonce, clientVars, spent>>
    BY <1>5 DEF Handler
  <2>2. /\ UNCHANGED <<config, authenticate, header, phase, answer>>
        /\ Held' = Held /\ NoncesOf(c)' = NoncesOf(c)
    BY <2>1 DEF clientVars, Held, NoncesOf
  <2>3. TypeOK'
    BY <1>1, <1>2, <2>1, <2>2 DEF DigestInv, TypeOK, PoolTypeOK
  <2>4. PoolInv'
    BY <1>1, <1>3, <2>1, <2>2, PoolKept
  <2>5. /\ HeaderInv' /\ UniqueInv'
        /\ Unanswered(c)' /\ (cur' = c => phase'[c] = "sent") /\ (~alive' => pc' = "idle")
             => PhaseInv'
        /\ (auth_type = "DIGEST" /\ CanDigest(c) => Challenged(c)') => ChallengedInv'
        /\ (auth_type # "DIGEST" /\ CanBasic(c) => Asked(c)') => BasicInv'
    BY <1>1, <1>2, <2>1, <2>2, ServerKeeps
  <2>6. PhaseInv'
    BY <1>1, <2>1, <2>2, <2>5, ClientsAssumption DEF Unanswered, DigestInv, PhaseInv
  <2>7. SpentInv'
    BY <1>2, <2>1, <2>2 DEF DigestInv, SpentInv
  <2>8. auth_type = "DIGEST" /\ CanDigest(c) => Challenged(c)'
    <3> SUFFICES ASSUME auth_type = "DIGEST", CanDigest(c)
                 PROVE  Challenged(c)'
      OBVIOUS
    <3>1. Challenged(c) /\ phase[c] = "sent" /\ phase'[c] = "sent"
      BY <2>2, ClientsAssumption DEF DigestInv, ChallengedInv, PhaseInv
    <3>2. DigestHeader(c)' = DigestHeader(c)
      BY <2>2 DEF DigestHeader, DigestUri
    <3>3. authenticate[c].nc >= 1 => authenticate[c].nonce \in lapsed
      <4> SUFFICES ASSUME authenticate[c].nc >= 1
                   PROVE  authenticate[c].nonce \in lapsed
        OBVIOUS
      <4>1. /\ header[c] = DigestHeader(c) /\ authenticate[c].nonce \in Nonces
            /\ valid_nonce \/ authenticate[c].nonce \in lapsed
        BY <1>1, <3>1 DEF Challenged
      <4>2. ~valid_nonce
        BY <1>5, <4>1, DigestAdmits DEF DigestInv
      <4> QED
        BY <4>1, <4>2
    <3> QED
      BY <1>1, <2>1, <2>2, <3>1, <3>2, <3>3 DEF Challenged
  <2>9. auth_type # "DIGEST" /\ CanBasic(c) => Asked(c)'
    <3> SUFFICES ASSUME auth_type # "DIGEST", CanBasic(c)
                 PROVE  FALSE
      OBVIOUS
    <3>1. auth_type = "BASIC"
      BY <1>5 DEF DigestInv, TypeOK, AuthTypes
    <3>2. header[c] = OwnBasicHeader(c)
      BY <1>1, <3>1 DEF DigestInv, BasicInv, Asked
    <3> QED
      BY <1>5, <3>2, BasicAdmits DEF DigestInv
  <2> QED
    BY <2>3, <2>4, <2>5, <2>6, <2>7, <2>8, <2>9 DEF DigestInv
<1> QED
  BY <1>4, <1>5

\* A basic challenge.
LEMMA ChallengeBasicInv ==
  ASSUME DigestInv, ChallengeBasic
  PROVE  DigestInv'
<1>1. /\ cur \in Clients /\ pc = "challenge" /\ auth_type = "BASIC"
      /\ lapsed' = lapsed /\ spent' = spent /\ UNCHANGED poolVars
  BY DEF ChallengeBasic, historyVars, DigestInv, TypeOK
<1> PICK c \in Clients : c = cur
  BY <1>1
<1>2. Answer(c, 401, "BASIC", NoNonce)
  BY DEF ChallengeBasic
<1>3. pool' = pool /\ running' = running /\ live' = live /\ expiring' = expiring /\ stale' = stale
  BY <1>1 DEF poolVars
<1>4. /\ phase[c] = "sent" /\ phase'[c] = "answered"
      /\ answer'[c] = [code |-> 401, type |-> "BASIC", nonce |-> NoNonce]
      /\ UNCHANGED <<sameLoop, auth_type, alive, valid_nonce, config, authenticate, header>>
      /\ pc' = "idle" /\ cur' = "nobody"
      /\ phase' \in [Clients -> {"idle", "sent", "answered", "closing", "connected"}]
      /\ answer' \in [Clients -> [code : {0, 101, 401, 500, 503}, type : AuthTypes,
                                  nonce : Nonces \cup {NoNonce}]]
      /\ \A x \in Nonces : x \in Held' <=> x \in Held \/ x = NoNonce
      /\ HeaderInv' /\ UniqueInv' /\ PhaseInv'
      /\ (auth_type = "DIGEST" /\ CanDigest(c) => Challenged(c)') => ChallengedInv'
      /\ (auth_type # "DIGEST" /\ CanBasic(c) => Asked(c)') => BasicInv'
  BY <1>1, <1>2, <1>3, AnswerKeeps DEF AuthTypes
<1>5. TypeOK'
  BY <1>1, <1>3, <1>4, ClientsAssumption DEF DigestInv, TypeOK, PoolTypeOK
<1>6. PoolInv'
  BY <1>1, <1>4, NoncesAssumption, PoolKept
<1>7. SpentInv'
  BY <1>1, <1>3, <1>4 DEF DigestInv, TypeOK, SpentInv
<1>8. Asked(c) => Asked(c)'
  <2>1. OwnBasicHeader(c)' = OwnBasicHeader(c) /\ Unsent(c)' = Unsent(c)
    BY <1>4 DEF OwnBasicHeader, BasicHeader, Unsent
  <2> QED
    BY <1>1, <1>4, <2>1, ClientsAssumption DEF Asked
<1> QED
  BY <1>1, <1>4, <1>5, <1>6, <1>7, <1>8 DEF DigestInv, BasicInv

\* A digest challenge: the nonce is new, and valid when the client is told.
LEMMA ChallengeDigestInv ==
  ASSUME DigestInv, NEW n \in Nonces, New(n), ChallengeDigest(n)
  PROVE  DigestInv'
<1>1. /\ cur \in Clients /\ pc = "challenge" /\ auth_type = "DIGEST"
      /\ lapsed' = lapsed /\ spent' = spent /\ expiring' = expiring /\ stale' = stale
      /\ pool' = pool \cup {n} /\ live' = live \cup {n} /\ running' = running \cup {n}
      /\ n \notin Held /\ n # expiring
  BY DEF ChallengeDigest, Add, New, historyVars, DigestInv, TypeOK
<1> PICK c \in Clients : c = cur
  BY <1>1
<1>2. Answer(c, 401, "DIGEST", n)
  BY DEF ChallengeDigest
<1>3. /\ phase[c] = "sent" /\ phase'[c] = "answered"
      /\ answer'[c] = [code |-> 401, type |-> "DIGEST", nonce |-> n]
      /\ UNCHANGED <<sameLoop, auth_type, alive, valid_nonce, config, authenticate, header>>
      /\ pc' = "idle" /\ cur' = "nobody"
      /\ phase' \in [Clients -> {"idle", "sent", "answered", "closing", "connected"}]
      /\ answer' \in [Clients -> [code : {0, 101, 401, 500, 503}, type : AuthTypes,
                                  nonce : Nonces \cup {NoNonce}]]
      /\ \A x \in Nonces : x \in Held' <=> x \in Held \/ x = n
      /\ HeaderInv' /\ UniqueInv' /\ PhaseInv'
      /\ (auth_type = "DIGEST" /\ CanDigest(c) => Challenged(c)') => ChallengedInv'
      /\ (auth_type # "DIGEST" /\ CanBasic(c) => Asked(c)') => BasicInv'
  BY <1>1, <1>2, AnswerKeeps DEF AuthTypes
<1>4. TypeOK'
  BY <1>1, <1>3, ClientsAssumption DEF DigestInv, TypeOK, PoolTypeOK
<1>5. PoolInv'
  <2>1. NoStaleExpiry'
    BY <1>1, <1>3, Zenon DEF DigestInv, PoolInv, NoStaleExpiry
  <2>2. AnnouncedExpires'
    BY <1>1, <1>3 DEF DigestInv, TypeOK, PoolTypeOK, PoolInv, AnnouncedExpires
  <2> QED
    BY <1>1, <1>3, <2>1, <2>2 DEF DigestInv, PoolInv
<1>6. SpentInv'
  BY <1>1, <1>3 DEF DigestInv, TypeOK, SpentInv
<1>7. Challenged(c) => Challenged(c)'
  <2> SUFFICES ASSUME Challenged(c)
               PROVE  Challenged(c)'
    OBVIOUS
  <2>1. authenticate[c].nc >= 1 =>
          /\ authenticate[c].type = "DIGEST" /\ authenticate[c].nonce \in Nonces
          /\ header[c].nonce \in lapsed
    BY <1>1, <1>3 DEF Challenged, DigestHeader
  <2>2. Usable(answer[c].nonce)'
    BY <1>1, <1>3 DEF Usable
  <2> QED
    BY <1>1, <1>3, <2>1, <2>2 DEF Challenged
<1> QED
  BY <1>1, <1>3, <1>4, <1>5, <1>6, <1>7 DEF DigestInv, ChallengedInv

\* The challenge cannot be made; nobody is told of the nonce.
LEMMA ChallengeFailsInv ==
  ASSUME DigestInv, NEW n \in Nonces, NEW started \in BOOLEAN, New(n),
         ChallengeFails(n, started)
  PROVE  DigestInv'
<1>1. /\ cur \in Clients /\ pc = "challenge" /\ auth_type = "DIGEST"
      /\ lapsed' = lapsed /\ spent' = spent /\ expiring' = expiring /\ stale' = stale
      /\ pool' = pool \cup {n} /\ live' = live \cup {n}
      /\ running \subseteq running' /\ running' \subseteq running \cup {n}
      /\ n \notin Held /\ n # expiring
  BY DEF ChallengeFails, Add, New, historyVars, DigestInv, TypeOK
<1> PICK c \in Clients : c = cur
  BY <1>1
<1>2. Answer(c, 500, "UNUSED", NoNonce)
  BY DEF ChallengeFails
<1>3. /\ phase[c] = "sent" /\ phase'[c] = "answered"
      /\ answer'[c] = [code |-> 500, type |-> "UNUSED", nonce |-> NoNonce]
      /\ UNCHANGED <<sameLoop, auth_type, alive, valid_nonce, config, authenticate, header>>
      /\ pc' = "idle" /\ cur' = "nobody"
      /\ phase' \in [Clients -> {"idle", "sent", "answered", "closing", "connected"}]
      /\ answer' \in [Clients -> [code : {0, 101, 401, 500, 503}, type : AuthTypes,
                                  nonce : Nonces \cup {NoNonce}]]
      /\ \A x \in Nonces : x \in Held' <=> x \in Held \/ x = NoNonce
      /\ HeaderInv' /\ UniqueInv' /\ PhaseInv'
      /\ (auth_type = "DIGEST" /\ CanDigest(c) => Challenged(c)') => ChallengedInv'
      /\ (auth_type # "DIGEST" /\ CanBasic(c) => Asked(c)') => BasicInv'
  BY <1>1, <1>2, AnswerKeeps DEF AuthTypes
<1>4. TypeOK'
  BY <1>1, <1>3, ClientsAssumption DEF DigestInv, TypeOK, PoolTypeOK
<1>5. PoolInv'
  <2>1. NoStaleExpiry'
    BY <1>1, <1>3, Zenon DEF DigestInv, PoolInv, NoStaleExpiry
  <2>2. AnnouncedExpires'
    BY <1>1, <1>3, NoncesAssumption
       DEF DigestInv, TypeOK, PoolTypeOK, PoolInv, AnnouncedExpires
  <2> QED
    BY <1>1, <1>3, <2>1, <2>2 DEF DigestInv, PoolInv
<1>6. SpentInv'
  BY <1>1, <1>3 DEF DigestInv, TypeOK, SpentInv
<1>7. Challenged(c) => Challenged(c)'
  BY <1>3 DEF Challenged
<1> QED
  BY <1>1, <1>3, <1>4, <1>5, <1>6, <1>7 DEF DigestInv, ChallengedInv

\* A step of the pool that a client's nonces survive or are recorded in lapsed.
LEMMA ExpiryKeeps ==
  ASSUME DigestInv,
         UNCHANGED <<config, auth_type, authenticate, header, answer, phase, cur, pc, valid_nonce>>,
         alive' => alive, lapsed \subseteq lapsed',
         \A x \in Held : Usable(x) /\ x # NoNonce /\ alive' => Usable(x)'
  PROVE  /\ Held' = Held /\ HeaderInv' /\ UniqueInv' /\ ChallengedInv' /\ BasicInv'
         /\ (~alive' => pc = "idle") => PhaseInv'
<1>1. /\ Held' = Held
      /\ \A d \in Clients : NoncesOf(d)' = NoncesOf(d) /\ NoncesOf(d) \subseteq Held
  BY HeldByClient DEF Held, NoncesOf
<1>2. HeaderInv' /\ UniqueInv'
  BY <1>1 DEF DigestInv, HeaderInv, UniqueInv
<1>3. (~alive' => pc = "idle") => PhaseInv'
  BY DEF DigestInv, PhaseInv, Unanswered
<1>4. ASSUME NEW d \in Clients
      PROVE  /\ CanDigest(d)' <=> CanDigest(d)
             /\ CanBasic(d)' <=> CanBasic(d)
             /\ Challenged(d) => Challenged(d)'
             /\ Asked(d) => Asked(d)'
  <2>1. /\ \A x \in NoncesOf(d) : Usable(x) /\ x # NoNonce /\ alive' => Usable(x)'
        /\ \A x \in NoncesOf(d) : x \in lapsed => x \in lapsed'
    BY <1>1
  <2> QED
    BY <2>1, OtherClient, Zenon
<1>5. ChallengedInv'
  BY <1>4 DEF DigestInv, ChallengedInv
<1>6. BasicInv'
  BY <1>4 DEF DigestInv, BasicInv
<1> QED
  BY <1>1, <1>2, <1>3, <1>5, <1>6

\* The timer of a nonce fires.
LEMMA FireInv ==
  ASSUME DigestInv, NEW n \in Nonces, Fire(n)
  PROVE  DigestInv'
<1>1. /\ sameLoop => pc = "idle"
      /\ expiring = NoNonce /\ n \in running /\ n \in pool
      /\ running' = running \ {n} /\ expiring' = n
      /\ pool' = pool /\ live' = live /\ stale' = stale
      /\ UNCHANGED <<sameLoop, auth_type, alive, pc, cur, valid_nonce>>
      /\ UNCHANGED <<config, authenticate, header, phase, answer, lapsed, spent>>
  BY DEF Fire, LoopFree, TimerFires, serverVars, clientVars, historyVars
<1>2. TypeOK'
  BY <1>1 DEF DigestInv, TypeOK, PoolTypeOK
<1>3. /\ Held' = Held /\ HeaderInv' /\ UniqueInv' /\ ChallengedInv' /\ BasicInv'
      /\ (~alive' => pc = "idle") => PhaseInv'
  BY <1>1, ExpiryKeeps DEF Usable
<1>4. PoolInv'
  <2>1. NoStaleExpiry'
    BY <1>1, Zenon DEF DigestInv, PoolInv, NoStaleExpiry
  <2>2. AnnouncedExpires'
    BY <1>1, <1>3, NoncesAssumption
       DEF DigestInv, TypeOK, PoolTypeOK, PoolInv, AnnouncedExpires
  <2> QED
    BY <1>1, <2>1, <2>2 DEF DigestInv, PoolInv
<1>5. SpentInv'
  BY <1>1, <1>3 DEF DigestInv, SpentInv
<1> QED
  BY <1>1, <1>2, <1>3, <1>4, <1>5 DEF DigestInv, PhaseInv

\* The nonce expires: its owner is excused.
LEMMA ExpireInv ==
  ASSUME DigestInv, Expire
  PROVE  DigestInv'
<1>1. /\ expiring # NoNonce /\ expiring' = NoNonce
      /\ lapsed' = lapsed \cup (Held \cap (pool \ pool'))
      /\ UNCHANGED <<sameLoop, auth_type, alive, pc, cur, valid_nonce>>
      /\ UNCHANGED <<config, authenticate, header, phase, answer, spent>>
  BY DEF Expire, OnTimer, serverVars, clientVars
<1>2. /\ pool' \subseteq pool /\ running' \subseteq running /\ live' \subseteq live
      /\ pool' \subseteq live' /\ running' = running \cap pool'
      /\ \A x \in pool' : x # expiring
  <2>1. CASE expiring \in live
    <3>1. /\ pool' = pool \ {expiring} /\ running' = running \ {expiring}
          /\ live' = live \ ({expiring} \cap pool)
      BY <2>1 DEF Expire, OnTimer, TakeOut
    <3> QED
      BY <3>1 DEF DigestInv, TypeOK, PoolTypeOK, PoolInv
  <2>2. CASE expiring \notin live
    <3>1. CASE pool' = pool /\ running' = running /\ live' = live
      BY <2>2, <3>1 DEF DigestInv, TypeOK, PoolTypeOK, PoolInv
    <3>2. CASE \E n \in pool : TakeOut(n)
      BY <2>2, <3>2 DEF TakeOut, DigestInv, TypeOK, PoolTypeOK, PoolInv
    <3> QED
      BY <2>2, <3>1, <3>2 DEF Expire, OnTimer
  <2> QED
    BY <2>1, <2>2
<1>3. stale' \in BOOLEAN /\ (stale' => stale \/ expiring \notin live)
  BY DEF Expire, OnTimer, DigestInv, TypeOK, PoolTypeOK
<1>4. TypeOK'
  BY <1>1, <1>2, <1>3 DEF DigestInv, TypeOK, PoolTypeOK
<1>5. /\ Held' = Held /\ HeaderInv' /\ UniqueInv' /\ ChallengedInv' /\ BasicInv'
      /\ (~alive' => pc = "idle") => PhaseInv'
  BY <1>1, ExpiryKeeps DEF Usable
<1>6. PoolInv'
  <2>1. NoStaleExpiry'
    BY <1>1, <1>3, Zenon DEF DigestInv, PoolInv, NoStaleExpiry
  <2>2. AnnouncedExpires'
    BY <1>1, <1>2, <1>5 DEF DigestInv, PoolInv, AnnouncedExpires
  <2> QED
    BY <1>1, <1>2, <2>1, <2>2 DEF DigestInv, PoolInv
<1>7. SpentInv'
  BY <1>1, <1>2, <1>5 DEF DigestInv, SpentInv
<1> QED
  BY <1>1, <1>4, <1>5, <1>6, <1>7 DEF DigestInv, PhaseInv

\* The server goes, and its nonces with it.
LEMMA DestroyServerInv ==
  ASSUME DigestInv, DestroyServer
  PROVE  DigestInv'
<1>1. /\ alive' = FALSE /\ pc = "idle" /\ pool' = {} /\ running' = {} /\ live' = live \ pool
      /\ UNCHANGED <<expiring, stale, sameLoop, auth_type, pc, cur, valid_nonce>>
      /\ UNCHANGED <<config, authenticate, header, phase, answer, lapsed, spent>>
  BY DEF DestroyServer, Destroy, clientVars, historyVars
<1>2. TypeOK'
  BY <1>1 DEF DigestInv, TypeOK, PoolTypeOK
<1>3. /\ Held' = Held /\ HeaderInv' /\ UniqueInv' /\ ChallengedInv' /\ BasicInv'
      /\ (~alive' => pc = "idle") => PhaseInv'
  BY <1>1, ExpiryKeeps DEF DestroyServer
<1>4. PoolInv'
  BY <1>1 DEF DigestInv, PoolInv, NoStaleExpiry, AnnouncedExpires
<1>5. SpentInv'
  BY <1>1, <1>3 DEF DigestInv, SpentInv
<1> QED
  BY <1>1, <1>2, <1>3, <1>4, <1>5 DEF DigestInv

----------------------------------------------------------------------------
(* The theorems.                                                           *)

LEMMA DigestInit == Init => DigestInv
<1> SUFFICES ASSUME Init
             PROVE  DigestInv
  OBVIOUS
<1>1. /\ pool = {} /\ running = {} /\ live = {} /\ expiring = NoNonce /\ stale = FALSE
      /\ pc = "idle" /\ cur = "nobody" /\ valid_nonce = FALSE /\ alive = TRUE
      /\ sameLoop \in BOOLEAN /\ auth_type \in AuthTypes
      /\ config \in [Clients -> Configs[auth_type]]
      /\ lapsed = {} /\ spent = {}
  BY DEF Init, PoolInit
<1>2. /\ authenticate = [c \in Clients |-> Unused]
      /\ header = [c \in Clients |-> NoHeader]
      /\ answer = [c \in Clients |-> NoAnswer]
      /\ phase = [c \in Clients |-> "idle"]
  BY DEF Init
<1>3. TypeOK
  <2>1. Unused \in [type : AuthTypes, nonce : Nonces \cup {NoNonce}, nc : 0 .. NcLimit + 1]
    BY NcLimitAssumption DEF Unused, AuthTypes
  <2>2. NoAnswer \in [code : {0, 101, 401, 500, 503}, type : AuthTypes,
                     nonce : Nonces \cup {NoNonce}]
    BY DEF NoAnswer, AuthTypes
  <2>3. \A c \in Clients : header[c].nonce \in Nonces \cup {NoNonce}
    BY <1>2 DEF NoHeader
  <2>4. PoolTypeOK /\ valid_nonce \in BOOLEAN /\ alive \in BOOLEAN
    BY <1>1 DEF PoolTypeOK
  <2> QED
    BY <1>1, <1>2, <2>1, <2>2, <2>3, <2>4 DEF TypeOK
<1>4. HeaderInv
  BY <1>2 DEF HeaderInv
<1>5. NoStaleExpiry
  BY <1>1, Zenon DEF NoStaleExpiry
<1>6. PoolInv /\ PhaseInv /\ SpentInv
  BY <1>1, <1>2, <1>5
     DEF PoolInv, AnnouncedExpires, PhaseInv, Unanswered, NoAnswer, SpentInv
<1>7. UniqueInv
  BY <1>2 DEF UniqueInv, NoncesOf, Unused, NoHeader, NoAnswer
<1>8. ChallengedInv
  BY <1>2 DEF ChallengedInv, Challenged, Unused
<1>9. BasicInv
  BY <1>1, <1>2, ClientsAssumption DEF BasicInv, Asked, Unused
<1> QED
  BY <1>3, <1>4, <1>6, <1>7, <1>8, <1>9 DEF DigestInv

LEMMA DigestStep == DigestInv /\ [Next]_vars => DigestInv'
<1> SUFFICES ASSUME DigestInv, [Next]_vars
             PROVE  DigestInv'
  OBVIOUS
<1>1. ASSUME NEW c \in Clients, ConnectByApplication(c) \/ Retry(c)
      PROVE  DigestInv'
  BY <1>1, ConnectInv DEF ConnectByApplication, Retry
<1>2. ASSUME NEW c \in Clients, OnConnect(c)
      PROVE  DigestInv'
  BY <1>2, OnConnectInv
<1>3. ASSUME NEW c \in Clients, OnDisconnect(c) \/ Disconnect(c)
      PROVE  DigestInv'
  BY <1>3, OnDisconnectInv
<1>4. ASSUME NEW c \in Clients, ConnectFails(c)
      PROVE  DigestInv'
  BY <1>4, ConnectFailsInv
<1>5. ASSUME NEW c \in Clients, Accept(c)
      PROVE  DigestInv'
  BY <1>5, AcceptInv
<1>6. ASSUME NEW c \in Clients, NEW code \in {500, 503}, AcceptRefused(c, code)
      PROVE  DigestInv'
  BY <1>6, AcceptRefusedInv
<1>7. CASE ServerStep
  BY <1>7, RemoveNonceInv, HandlerInv, ChallengeBasicInv, ChallengeDigestInv, ChallengeFailsInv
     DEF ServerStep
<1>8. CASE DestroyServer
  BY <1>8, DestroyServerInv
<1>9. CASE Expire
  BY <1>9, ExpireInv
<1>10. ASSUME NEW n \in Nonces, Fire(n)
       PROVE  DigestInv'
  BY <1>10, FireInv
<1>11. CASE UNCHANGED vars
  <2>1. /\ UNCHANGED <<pool, running, live, expiring, stale, config>>
        /\ UNCHANGED <<sameLoop, auth_type, alive, pc, cur, valid_nonce>>
        /\ UNCHANGED <<authenticate, header, phase, answer, lapsed, spent>>
    BY <1>11 DEF vars, poolVars, serverVars, clientVars, historyVars
  <2>2. /\ Held' = Held /\ HeaderInv' /\ UniqueInv' /\ ChallengedInv' /\ BasicInv'
        /\ (~alive' => pc = "idle") => PhaseInv'
    BY <2>1, ExpiryKeeps DEF Usable
  <2>3. TypeOK'
    BY <2>1 DEF DigestInv, TypeOK, PoolTypeOK
  <2>4. PoolInv'
    BY <2>1, <2>2, PoolKept DEF poolVars, DigestInv, PoolInv
  <2>5. SpentInv'
    BY <2>1, <2>2 DEF DigestInv, SpentInv
  <2> QED
    BY <2>1, <2>2, <2>3, <2>4, <2>5 DEF DigestInv, PhaseInv
<1> QED
  BY <1>1, <1>2, <1>3, <1>4, <1>5, <1>6, <1>7, <1>8, <1>9, <1>10, <1>11 DEF Next, ClientStep

\* DigestInv holds in every state.
THEOREM DigestInvariant == Spec => []DigestInv
<1> QED
  BY DigestInit, DigestStep, PTL DEF Spec

\* The types of Digest.
THEOREM DigestTypes == Spec => []TypeOK
<1>1. DigestInv => TypeOK
  BY DEF DigestInv
<1> QED
  BY <1>1, DigestInvariant, PTL

\* On one event loop no expiry reads the context of a nonce that an authorization has
\* removed: OnAccept removes it in one callback, and the nonce whose timer is firing has
\* its context for as long as no such callback runs.
THEOREM NoExpiryIsStale == Spec => []NoStaleExpiry
<1>1. DigestInv => NoStaleExpiry
  BY DEF DigestInv, PoolInv
<1> QED
  BY <1>1, DigestInvariant, PTL

\* A nonce that a client was told, and that is valid, has a timer.
THEOREM AnnouncedNoncesExpire == Spec => []AnnouncedExpires
<1>1. DigestInv => AnnouncedExpires
  BY DEF DigestInv, PoolInv
<1> QED
  BY <1>1, DigestInvariant, PTL

\* No nonce authorises two connections, though IsValid and Remove are two steps between
\* which the handler is not asked: the nonce is in the pool when OnAccept begins, no nonce
\* that has authorised is, and one connection at a time is accepted.
THEOREM NoncesAuthoriseOnce == Spec => AuthorisesOnce
<1> DEFINE Once == \A c \in Clients :
                     Admits(c) /\ auth_type = "DIGEST" => header[c].nonce \notin spent
<1>1. DigestInv /\ [Next]_vars => [Once]_vars
  <2> SUFFICES ASSUME DigestInv, Next, NEW c \in Clients, Admits(c), auth_type = "DIGEST"
               PROVE  header[c].nonce \notin spent
    OBVIOUS
  <2>1. Handler /\ c = cur
    <3>1. answer' # answer /\ answer[c].code # 101 /\ answer'[c].code = 101
      BY DEF Admits
    <3>2. ASSUME NEW d \in Clients, ConnectByApplication(d) \/ Retry(d) \/ ConnectFails(d)
          PROVE  FALSE
      <4>1. answer' = [answer EXCEPT ![d] = NoAnswer]
        BY <3>2 DEF ConnectByApplication, Retry, Connect, ConnectFails
      <4>2. answer \in [Clients -> {answer[e] : e \in Clients}]
        BY DEF DigestInv, TypeOK
      <4>3. answer'[c] \in {answer[c], NoAnswer}
        BY <4>1, <4>2
      <4> QED
        BY <3>1, <4>3 DEF NoAnswer
    <3>3. ASSUME NEW d \in Clients,
                 OnConnect(d) \/ OnDisconnect(d) \/ Disconnect(d) \/ Accept(d)
          PROVE  FALSE
      BY <3>1, <3>3 DEF OnConnect, OnDisconnect, Disconnect, Accept, clientVars
    <3>4. ASSUME NEW d \in Clients, NEW code \in {500, 503}, AcceptRefused(d, code)
          PROVE  FALSE
      BY <3>1, <3>4 DEF AcceptRefused, Answer, DigestInv, TypeOK
    <3>5. ~RemoveNonce /\ ~DestroyServer /\ ~Expire /\ ~\E n \in Nonces : Fire(n)
      BY <3>1 DEF RemoveNonce, DestroyServer, Expire, Fire, clientVars
    <3>6. pc # "idle" => cur \in Clients
      BY DEF DigestInv, TypeOK
    <3>7. ~ChallengeBasic
      BY <3>1, <3>6 DEF ChallengeBasic, Answer, DigestInv, TypeOK
    <3>8. ASSUME NEW n \in Nonces, ChallengeDigest(n)
          PROVE  FALSE
      BY <3>1, <3>6, <3>8 DEF ChallengeDigest, Answer, DigestInv, TypeOK
    <3>9. ASSUME NEW n \in Nonces, NEW started \in BOOLEAN, ChallengeFails(n, started)
          PROVE  FALSE
      BY <3>1, <3>6, <3>9 DEF ChallengeFails, Answer, DigestInv, TypeOK
    <3>10. Handler
      BY <3>2, <3>3, <3>4, <3>5, <3>7, <3>8, <3>9 DEF Next, ClientStep, ServerStep
    <3>11. c = cur
      BY <3>1, <3>6, <3>10 DEF Handler, Answer, clientVars, DigestInv, TypeOK
    <3> QED
      BY <3>10, <3>11
  <2>2. pc = "handler" /\ header[c].type = "DIGEST" /\ (valid_nonce => header[c].nonce \notin spent)
    BY <2>1 DEF Handler, DigestInv, SpentInv
  <2>3. HandlerAdmits(AuthorizationContext(header[c]))
    BY <2>1 DEF Handler, Admits, clientVars
  <2> QED
    BY <2>2, <2>3, DigestVerdict DEF DigestInv
<1> QED
  BY <1>1, DigestInvariant, PTL DEF Spec, AuthorisesOnce

\* The handler of a client that knows the password hears of a refusal only for a reason
\* outside of the protocol: Challenged says that every nonce it was given is good until it
\* comes back or expires, and that it comes back with the next connection.
THEOREM RefusalsHaveACause == Spec => RefusedForCause
<1> DEFINE Cause == \A c \in Clients : Refused(c) /\ KnownUser(c) =>
        IF auth_type = "DIGEST"
        THEN \/ header[c].nonce \in lapsed
             \/ config[c].kind = "WS" /\ config[c].type # "DIGEST"
             \/ Parse(config[c].username) # config[c].username
             \/ Parse(DigestUri(c)) # DigestUri(c)
        ELSE \/ config[c].type # "BASIC" \/ ~ReadExactly(c)
             \/ config[c].kind = "WSS" /\ header[c] = NoHeader
<1>1. DigestInv /\ [Next]_vars => [Cause]_vars
  <2> SUFFICES ASSUME DigestInv, Next, NEW c \in Clients, Refused(c), KnownUser(c)
               PROVE  IF auth_type = "DIGEST"
                      THEN \/ header[c].nonce \in lapsed
                           \/ ~CanDigest(c)
                      ELSE \/ config[c].type # "BASIC" \/ ~ReadExactly(c)
                           \/ Unsent(c)
    BY DEF CanDigest, Unsent
  <2>1. ~CheckRetryAuth(c)
    <3>1. phase[c] = "closing" /\ phase'[c] = "idle"
      BY DEF Refused
    <3>2. ASSUME NEW d \in Clients,
                 ConnectByApplication(d) \/ OnConnect(d) \/ Retry(d) \/ ConnectFails(d)
                 \/ Disconnect(d) \/ Accept(d)
          PROVE  FALSE
      BY <3>1, <3>2 DEF ConnectByApplication, OnConnect, Retry, Connect, ConnectFails,
                        Disconnect, Accept, clientVars, DigestInv, TypeOK
    <3>3. ASSUME NEW d \in Clients, NEW code \in {500, 503}, AcceptRefused(d, code)
          PROVE  FALSE
      BY <3>1, <3>3 DEF AcceptRefused, Answer, DigestInv, TypeOK
    <3>4. ~RemoveNonce /\ ~DestroyServer /\ ~Expire /\ ~\E n \in Nonces : Fire(n)
      BY <3>1 DEF RemoveNonce, DestroyServer, Expire, Fire, clientVars
    <3>5. ~Handler /\ ~ChallengeBasic
      BY <3>1 DEF Handler, ChallengeBasic, Answer, clientVars, DigestInv, TypeOK
    <3>6. ASSUME NEW n \in Nonces, ChallengeDigest(n)
          PROVE  FALSE
      BY <3>1, <3>6 DEF ChallengeDigest, Answer, DigestInv, TypeOK
    <3>7. ASSUME NEW n \in Nonces, NEW started \in BOOLEAN, ChallengeFails(n, started)
          PROVE  FALSE
      BY <3>1, <3>7 DEF ChallengeFails, Answer, DigestInv, TypeOK
    <3>8. PICK d \in Clients : OnDisconnect(d)
      BY <3>2, <3>3, <3>4, <3>5, <3>6, <3>7 DEF Next, ClientStep, ServerStep
    <3> QED
      BY <3>1, <3>8 DEF OnDisconnect, DigestInv, TypeOK
  <2>2. phase[c] = "closing" /\ answer[c].code = 401
    BY DEF Refused
  <2>3. CASE auth_type = "DIGEST" /\ CanDigest(c)
    <3>1. Challenged(c) /\ authenticate[c].nc \in Nat
      BY <2>3 DEF DigestInv, ChallengedInv, TypeOK
    <3> QED
      BY <2>1, <2>2, <2>3, <3>1 DEF Challenged, CheckRetryAuth
  <2>4. CASE auth_type # "DIGEST" /\ CanBasic(c)
    BY <2>2, <2>4 DEF DigestInv, BasicInv, Asked
  <2> QED
    BY <2>3, <2>4 DEF CanBasic
<1> QED
  BY <1>1, DigestInvariant, PTL DEF Spec, RefusedForCause

----------------------------------------------------------------------------
(* The promises of Admission.                                              *)

\* A header was made from the name and the password of its client.
Made(c) ==
    \/ header[c] = NoHeader
    \/ /\ header[c].type = "BASIC" /\ header[c].username = config[c].username
       /\ header[c].response = <<config[c].password>>
    \/ /\ header[c].type = "DIGEST" /\ header[c].username = config[c].username
       /\ header[c].response =
            CalcDigest(CalcA1(config[c].username, Realm, config[c].password),
                       header[c].uri, header[c].nonce, header[c].nc)

\* The handler of a server that asks for an authorization is shown one of that type, and a
\* valid nonce is one of a digest.
VerdictInv ==
    pc \in {"remove", "handler"} =>
        /\ auth_type # "UNUSED" => header[cur].type = auth_type
        /\ valid_nonce => auth_type = "DIGEST"
        /\ pc = "remove" => auth_type = "DIGEST"

GateInv == VerdictInv /\ \A c \in Clients : Made(c)

LEMMA GateInit == Init => GateInv
BY DEF Init, GateInv, VerdictInv, Made

\* A new header is made from the configuration of the client.
LEMMA HeaderMade ==
  ASSUME DigestInv, NEW c \in Clients, Made(c), config' = config, header'[c] = HeaderAtConnect(c)
  PROVE  Made(c)'
<1> DEFINE h == CreateAuthorizationHeader(AuthenticateAtConnect(c), DigestUri(c),
                                          config[c].username, config[c].password)
<1> DEFINE nonce == authenticate[c].nonce
           nc == authenticate[c].nc
<1>1. CASE header'[c] = h
  <2>1. \/ h = [NoHeader EXCEPT !.type = "BASIC", !.username = config[c].username,
                                !.response = <<config[c].password>>]
        \/ h = [type |-> "DIGEST", username |-> config[c].username, nonce |-> nonce,
                nc |-> nc, uri |-> DigestUri(c),
                response |-> CalcDigest(CalcA1(config[c].username, Realm, config[c].password),
                                        DigestUri(c), nonce, nc)]
        \/ h = NoHeader
    BY AuthenticateParts DEF CreateAuthorizationHeader, BasicHeader, DigestInv
  <2> HIDE DEF h, nonce, nc
  <2>2. CASE h = [NoHeader EXCEPT !.type = "BASIC", !.username = config[c].username,
                                  !.response = <<config[c].password>>]
    <3>1. h.type = "BASIC" /\ h.username = config[c].username
          /\ h.response = <<config[c].password>>
      BY <2>2 DEF NoHeader
    <3> QED
      BY <1>1, <3>1 DEF Made
  <2>3. CASE h = [type |-> "DIGEST", username |-> config[c].username, nonce |-> nonce,
                  nc |-> nc, uri |-> DigestUri(c),
                  response |-> CalcDigest(CalcA1(config[c].username, Realm,
                                                 config[c].password),
                                          DigestUri(c), nonce, nc)]
    <3>1. /\ h.type = "DIGEST" /\ h.username = config[c].username
          /\ h.response = CalcDigest(CalcA1(config[c].username, Realm, config[c].password),
                                     h.uri, h.nonce, h.nc)
      BY <2>3
    <3> QED
      BY <1>1, <3>1 DEF Made
  <2>4. CASE h = NoHeader
    BY <1>1, <2>4 DEF Made, NoHeader
  <2> QED
    BY <2>1, <2>2, <2>3, <2>4
<1>2. CASE header'[c] \in {NoHeader, header[c]}
  BY <1>2 DEF Made
<1> QED
  BY <1>1, <1>2 DEF HeaderAtConnect

\* GateInv is inductive, given DigestInv.
LEMMA GateStep == DigestInv /\ GateInv /\ [Next]_vars => GateInv'
<1> SUFFICES ASSUME DigestInv, GateInv, [Next]_vars
             PROVE  GateInv'
  OBVIOUS
<1>1. ASSUME NEW c \in Clients, ConnectByApplication(c) \/ Retry(c)
      PROVE  GateInv'
  <2>1. /\ header' = [header EXCEPT ![c] = HeaderAtConnect(c)] /\ phase[c] # "sent"
        /\ UNCHANGED <<config, auth_type, pc, cur, valid_nonce>>
    BY <1>1 DEF ConnectByApplication, Retry, Connect, serverVars
  <2>2. header'[c] = HeaderAtConnect(c) /\ \A d \in Clients \ {c} : header'[d] = header[d]
    BY <2>1 DEF DigestInv, HeaderInv
  <2>3. \A d \in Clients : Made(d)'
    BY <2>1, <2>2, HeaderMade DEF GateInv, Made
  <2>4. pc # "idle" => cur \in Clients \ {c}
    BY <2>1 DEF DigestInv, TypeOK, PhaseInv
  <2>5. VerdictInv'
    BY <2>1, <2>2, <2>4 DEF GateInv, VerdictInv
  <2> QED
    BY <2>3, <2>5 DEF GateInv
<1>2. ASSUME NEW c \in Clients,
             OnConnect(c) \/ ConnectFails(c) \/ OnDisconnect(c) \/ Disconnect(c)
      PROVE  GateInv'
  BY <1>2 DEF OnConnect, ConnectFails, OnDisconnect, Disconnect, serverVars,
              GateInv, VerdictInv, Made
<1>3. ASSUME NEW c \in Clients, Accept(c)
      PROVE  GateInv'
  <2> DEFINE h == AuthorizationContext(header[c])
  <2>1. h.type = header[c].type
    BY ContextParts DEF DigestInv
  <2>2. /\ pc' = CASE auth_type = "UNUSED" -> "handler"
                   [] auth_type # "UNUSED" /\ h.type # auth_type -> "challenge"
                   [] auth_type = "BASIC" /\ h.type = "BASIC" -> "handler"
                   [] OTHER -> "remove"
        /\ valid_nonce' = (auth_type = "DIGEST" /\ h.type = "DIGEST" /\ IsValid(h.nonce))
        /\ cur' = c /\ UNCHANGED <<config, header, auth_type>>
    BY <1>3 DEF Accept, clientVars
  <2>3. auth_type \in AuthTypes
    BY DEF DigestInv, TypeOK
  <2> HIDE DEF h
  <2>4. valid_nonce' => auth_type = "DIGEST"
    BY <2>2
  <2>5. VerdictInv'
    BY <2>1, <2>2, <2>3, <2>4 DEF VerdictInv, AuthTypes
  <2> QED
    BY <2>2, <2>5 DEF GateInv, Made
<1>4. ASSUME NEW c \in Clients, NEW code \in {500, 503}, AcceptRefused(c, code)
      PROVE  GateInv'
  BY <1>4 DEF AcceptRefused, Answer, GateInv, VerdictInv, Made
<1>5. CASE RemoveNonce
  BY <1>5 DEF RemoveNonce, clientVars, GateInv, VerdictInv, Made
<1>6. CASE Handler
  BY <1>6 DEF Handler, Answer, clientVars, GateInv, VerdictInv, Made
<1>7. CASE ChallengeBasic
  BY <1>7 DEF ChallengeBasic, Answer, GateInv, VerdictInv, Made
<1>8. ASSUME NEW n \in Nonces, ChallengeDigest(n)
      PROVE  GateInv'
  BY <1>8 DEF ChallengeDigest, Answer, GateInv, VerdictInv, Made
<1>9. ASSUME NEW n \in Nonces, NEW started \in BOOLEAN, ChallengeFails(n, started)
      PROVE  GateInv'
  BY <1>9 DEF ChallengeFails, Answer, GateInv, VerdictInv, Made
<1>10. CASE DestroyServer \/ Expire \/ \E n \in Nonces : Fire(n)
  BY <1>10 DEF DestroyServer, Expire, Fire, serverVars, clientVars, GateInv, VerdictInv, Made
<1>11. CASE UNCHANGED vars
  BY <1>11 DEF vars, serverVars, clientVars, GateInv, VerdictInv, Made
<1> QED
  BY <1>1, <1>2, <1>3, <1>4, <1>5, <1>6, <1>7, <1>8, <1>9, <1>10, <1>11
     DEF Next, ClientStep, ServerStep

\* The state of Admission that a state of Digest stands for.
Known == {c \in Clients : TakenForUser(c)}
Valid == (pool \cap Held) \ Presented
Redeemed == IF pc \in {"remove", "handler"} /\ valid_nonce THEN {cur} ELSE {}

\* The nonces that Admission calls told are those the clients hold.
LEMMA ToldByGate ==
  /\ \A c \in Clients : Copies[c] = NoncesOf(c) \cap Nonces
  /\ Gate!Told = Held \cap Nonces
BY HeldByClient DEF Copies, NoncesOf, Gate!Told

LEMMA ToldByGateNext ==
  /\ \A c \in Clients : Copies'[c] = NoncesOf(c)' \cap Nonces
  /\ Gate!Told' = Held' \cap Nonces
<1>1. Held' = UNION {NoncesOf(c)' : c \in Clients}
  BY DEF Held, NoncesOf
<1> QED
  BY <1>1 DEF Copies, NoncesOf, Gate!Told

\* What Copies is at each client is what it is.
LEMMA CopiesByClient ==
  /\ Copies = [c \in Clients |-> Copies[c]]
  /\ Copies' = [c \in Clients |-> Copies'[c]]
BY DEF Copies

\* A step that changes no more than the validity of nonces.
LEMMA LapseStep ==
  ASSUME UNCHANGED <<auth_type, config, authenticate, header, answer, phase>>,
         Valid' \subseteq Valid, Redeemed' = Redeemed
  PROVE  Gate!Next
<1>1. Known' = Known /\ Copies' = Copies /\ Inside' = Inside
  BY DEF Known, TakenForUser, KnownUser, Copies, Inside
<1> DEFINE S == Valid \ Valid'
<1>2. S \subseteq Valid /\ Valid' = Valid \ S
  OBVIOUS
<1> HIDE DEF S
<1>3. Gate!Lapse(S)
  BY <1>1, <1>2 DEF Gate!Lapse, Known, Valid, Redeemed
<1>4. S \in SUBSET ((pool \cap Held) \ Presented)
  BY <1>2 DEF Valid
<1> QED
  BY <1>3, <1>4 DEF Gate!Next

\* A step of a client that the server does not deal with, which learns no new nonce and is
\* not let in.
LEMMA ForgetStep ==
  ASSUME DigestInv, NEW c \in Clients, UNCHANGED <<poolVars, serverVars, config>>,
         \A d \in Clients \ {c} :
            UNCHANGED <<authenticate[d], header[d], answer[d], phase[d]>>,
         NoncesOf(c)' \subseteq NoncesOf(c) \cup {NoNonce}, cur # c,
         c \in Inside' => c \in Inside
  PROVE  Gate!Next
<1>1. UNCHANGED <<pool, auth_type, pc, cur, valid_nonce>> /\ Redeemed' = Redeemed
      /\ Known' = Known
  BY DEF poolVars, serverVars, Redeemed, Known, TakenForUser, KnownUser
<1>2. \A d \in Clients \ {c} : NoncesOf(d)' = NoncesOf(d)
  BY DEF NoncesOf
<1>3. Copies'[c] \subseteq Copies[c]
  BY ToldByGate, ToldByGateNext, NoncesAssumption
<1>4. Copies' = [Copies EXCEPT ![c] = Copies'[c]]
  BY <1>2, ToldByGate, ToldByGateNext DEF Copies
<1>5. Presented' = Presented
  BY <1>1 DEF DigestInv, TypeOK, Presented
<1>6. Gate!Told' \subseteq Gate!Told
  BY <1>2, ToldByGate, ToldByGateNext, NoncesAssumption, HeldByClient
     DEF Gate!Told, Copies
<1>7. Valid' = Valid \cap Gate!Told'
  BY <1>1, <1>5, <1>6, ToldByGate, ToldByGateNext DEF DigestInv, TypeOK, PoolTypeOK, Valid
<1>8. Inside' \in {Inside, Inside \ {c}}
  BY DEF Inside
<1>9. Gate!Forget(c, Copies'[c])
  BY <1>1, <1>3, <1>4, <1>7, <1>8 DEF Gate!Forget, Known, Redeemed, Valid
<1> QED
  BY <1>3, <1>9 DEF Gate!Next

\* The server answers a client, and does not let it in.
LEMMA AnswerStep ==
  ASSUME DigestInv, NEW c \in Clients, phase[c] = "sent", pc \in {"idle", "challenge"},
         NEW code \in {401, 500, 503}, NEW type, NEW n \in Nonces \cup {NoNonce},
         Answer(c, code, type, n)
  PROVE  /\ UNCHANGED auth_type /\ Known' = Known /\ Inside' = Inside
         /\ Presented = {} /\ Presented' = {} /\ Redeemed = {} /\ Redeemed' = {}
         /\ Copies' = [Copies EXCEPT ![c] = @ \cup ({n} \cap Nonces)]
         /\ Held' \cap Nonces = (Held \cup {n}) \cap Nonces
<1>1. /\ phase'[c] = "answered" /\ answer'[c] = [code |-> code, type |-> type, nonce |-> n]
      /\ UNCHANGED <<auth_type, config, authenticate, header>> /\ pc' = "idle"
      /\ \A d \in Clients \ {c} : UNCHANGED <<answer[d], phase[d]>>
  BY DEF Answer, DigestInv, TypeOK
<1>2. answer[c].nonce = NoNonce
  BY DEF DigestInv, PhaseInv, Unanswered, NoAnswer
<1>3. Known' = Known /\ Inside' = Inside
  BY <1>1 DEF Known, TakenForUser, KnownUser, Inside
<1>4. Copies'[c] = Copies[c] \cup ({n} \cap Nonces)
  BY <1>1, <1>2, NoncesAssumption DEF Copies
<1>5. \A d \in Clients \ {c} : Copies'[d] = Copies[d]
  BY <1>1 DEF Copies
<1>6. Copies' = [Copies EXCEPT ![c] = @ \cup ({n} \cap Nonces)]
  <2> DEFINE old == Copies
             new == Copies'
  <2>1. /\ new = [d \in Clients |-> new[d]] /\ old = [d \in Clients |-> old[d]]
        /\ new[c] = old[c] \cup ({n} \cap Nonces)
        /\ \A d \in Clients \ {c} : new[d] = old[d]
    BY <1>4, <1>5, CopiesByClient
  <2> HIDE DEF old, new
  <2>2. new = [old EXCEPT ![c] = @ \cup ({n} \cap Nonces)]
    BY <2>1
  <2> QED
    BY <2>2 DEF old, new
<1>7. Held' \cap Nonces = (Held \cup {n}) \cap Nonces
  <2>1. Gate!Told' = Gate!Told \cup ({n} \cap Nonces)
    BY <1>4, <1>5 DEF Gate!Told
  <2> QED
    BY <2>1, ToldByGate, ToldByGateNext
<1> QED
  BY <1>1, <1>3, <1>6, <1>7 DEF Presented, Redeemed

\* Such an answer is no step of Admission if it tells the client no nonce.
LEMMA EmptyAnswerStep ==
  ASSUME DigestInv, DigestInv', NEW c \in Clients, phase[c] = "sent",
         pc \in {"idle", "challenge"}, NEW code \in {401, 500, 503}, NEW type,
         Answer(c, code, type, NoNonce),
         pool' \cap Held = pool \cap Held
  PROVE  UNCHANGED Gate!vars
<1>1. /\ UNCHANGED auth_type /\ Known' = Known /\ Inside' = Inside
      /\ Presented = {} /\ Presented' = {} /\ Redeemed = {} /\ Redeemed' = {}
      /\ Copies' = [Copies EXCEPT ![c] = @ \cup ({NoNonce} \cap Nonces)]
      /\ Held' \cap Nonces = (Held \cup {NoNonce}) \cap Nonces
  BY AnswerStep
<1>2. Copies' = Copies
  <2>1. {NoNonce} \cap Nonces = {}
    BY NoncesAssumption
  <2>2. Copies' = [Copies EXCEPT ![c] = @ \cup {}]
    BY <1>1, <2>1
  <2>3. Copies[c] \cup {} = Copies[c]
    OBVIOUS
  <2> QED
    BY <2>2, <2>3, CopiesByClient
<1>3. Held' \cap Nonces = Held \cap Nonces
  BY <1>1, NoncesAssumption
<1>4. Valid' = Valid
  BY <1>1, <1>3 DEF Valid, DigestInv, TypeOK, PoolTypeOK
<1> QED
  BY <1>1, <1>2, <1>4 DEF Gate!vars, Known, Valid, Redeemed

\* The handler admits a client only if it takes it for a user whose password it has.
LEMMA OnlyKnown ==
  ASSUME DigestInv, NEW c \in Clients, Made(c), header[c].type \in {"BASIC", "DIGEST"},
         header[c].type = auth_type, HandlerAdmits(AuthorizationContext(header[c]))
  PROVE  TakenForUser(c)
<1> DEFINE h == AuthorizationContext(header[c])
           p == Password[h.username]
<1>1. DOMAIN header[c] = DOMAIN NoHeader /\ header[c] # NoHeader
  <2>1. NoHeader.type = "none"
    BY DEF NoHeader
  <2> QED
    BY <2>1 DEF DigestInv, HeaderInv
<1>2. /\ header[c].username = config[c].username
      /\ header[c].type = "BASIC" => header[c].response = <<config[c].password>>
      /\ header[c].type = "DIGEST" =>
           header[c].response =
             CalcDigest(CalcA1(config[c].username, Realm, config[c].password),
                        header[c].uri, header[c].nonce, header[c].nc)
  BY <1>1 DEF Made
<1>3. h.username \in DOMAIN Password /\ Validate(h, p, valid_nonce) = "VALID"
  BY DEF HandlerAdmits
<1>4. CASE header[c].type = "BASIC"
  <2> DEFINE read == ReadBack(config[c].username, config[c].password)
  <2>1. header[c].response[1] = config[c].password
    BY <1>2, <1>4
  <2>2. /\ h.type = "BASIC" /\ h.username = read.username
        /\ h.response = <<read.password>>
    <3> HIDE DEF read
    <3>1. h = [header[c] EXCEPT !.username = read.username, !.response = <<read.password>>]
      BY <1>2, <1>4, <2>1 DEF AuthorizationContext, read
    <3> HIDE DEF h
    <3> QED
      BY <1>1, <1>4, <3>1 DEF NoHeader
  <2> HIDE DEF h, p, read
  <2>3. h.response = <<p>>
    BY <1>3, <2>2 DEF Validate
  <2>4. read.username \in DOMAIN Password /\ read.password = Password[read.username]
    BY <1>3, <2>2, <2>3 DEF p
  <2> QED
    BY <1>4, <2>4 DEF TakenForUser, read
<1>5. CASE header[c].type = "DIGEST"
  <2>1. h.type = "DIGEST" /\ h.response = header[c].response
    BY <1>1, <1>5 DEF AuthorizationContext, NoHeader
  <2> HIDE DEF h, p
  <2>2. h.response = CalcDigest(CalcA1(h.username, Realm, p), h.uri, h.nonce, h.nc)
    <3>1. h.type # "BASIC" /\ h.username # ""
      BY <1>3, <2>1 DEF Password
    <3>2. ValidateWithHash(h, CalcA1(h.username, Realm, p), valid_nonce) = "VALID"
      BY <1>3, <3>1 DEF Validate
    <3> QED
      BY <3>2, Zenon DEF ValidateWithHash
  <2>3. CalcA1(config[c].username, Realm, config[c].password)
          = CalcA1(h.username, Realm, p)
    BY <1>2, <1>5, <2>1, <2>2 DEF CalcDigest
  <2>4. config[c].username = h.username /\ config[c].password = p
    BY <2>3 DEF CalcA1
  <2> QED
    BY <1>3, <1>5, <2>4 DEF TakenForUser, KnownUser, p
<1> QED
  BY <1>4, <1>5

\* The initial states agree.
LEMMA GateInitMaps == Init => Gate!Init
<1> SUFFICES ASSUME Init
             PROVE  Gate!Init
  OBVIOUS
<1>1. auth_type \in {"UNUSED", "BASIC", "DIGEST"} /\ Known \subseteq Clients
  BY DEF Init, AuthTypes, Known
<1>2. Copies = [c \in Clients |-> {}]
  BY NoncesAssumption DEF Init, Copies, Unused, NoHeader, NoAnswer
<1>3. Valid = {} /\ Redeemed = {} /\ Inside = {}
  BY DEF Init, PoolInit, Valid, Redeemed, Inside
<1> QED
  BY <1>1, <1>2, <1>3 DEF Gate!Init, Known, Valid, Redeemed

\* OnAccept finds the nonce of the client, or not.
LEMMA AcceptMaps ==
  ASSUME DigestInv, NEW c \in Clients, Accept(c)
  PROVE  Gate!Next \/ UNCHANGED Gate!vars
<1> DEFINE h == AuthorizationContext(header[c])
           n == header[c].nonce
<1>1. /\ pc = "idle" /\ cur' = c
      /\ pc' = CASE auth_type = "UNUSED" -> "handler"
                 [] auth_type # "UNUSED" /\ h.type # auth_type -> "challenge"
                 [] auth_type = "BASIC" /\ h.type = "BASIC" -> "handler"
                 [] OTHER -> "remove"
      /\ valid_nonce' = (auth_type = "DIGEST" /\ h.type = "DIGEST" /\ IsValid(h.nonce))
      /\ UNCHANGED <<pool, auth_type, config, authenticate, header, phase, answer>>
  BY DEF Accept, poolVars, clientVars
<1>2. h.type = header[c].type /\ h.nonce = n
  BY ContextParts DEF DigestInv
<1>3. /\ Known' = Known /\ Copies' = Copies /\ Inside' = Inside /\ Held' = Held
      /\ Presented = {} /\ Redeemed = {}
  BY <1>1 DEF Known, TakenForUser, KnownUser, Copies, Inside, Held, Presented, Redeemed
<1> HIDE DEF h
<1>4. CASE valid_nonce'
  <2> pool \subseteq Nonces
    BY DEF DigestInv, TypeOK, PoolTypeOK
  <2>1. /\ auth_type = "DIGEST" /\ h.type = "DIGEST" /\ n \in pool /\ n \in Nonces
        /\ pc' = "remove"
    <3>1. auth_type = "DIGEST" /\ h.type = "DIGEST" /\ n \in pool
      BY <1>1, <1>2, <1>4, Zenon DEF IsValid
    <3> QED
      BY <1>1, <3>1
  <2>2. Presented' = {n} /\ Redeemed' = {c}
    BY <1>1, <1>4, <2>1 DEF Presented, Redeemed
  <2>3. n \in Copies[c] /\ n \in Held
    BY <2>1 DEF Copies, Held
  <2>4. n \in Valid /\ Valid' = Valid \ {n} /\ Redeemed' = Redeemed \cup {c}
    BY <1>1, <1>3, <2>1, <2>2, <2>3 DEF Valid
  <2>5. Gate!Redeem(c, n)
    BY <1>1, <1>3, <2>3, <2>4 DEF Gate!Redeem, Known, Valid, Redeemed
  <2> QED
    BY <2>1, <2>5 DEF Gate!Next
<1>5. CASE ~valid_nonce'
  <2>1. Presented' = {} /\ Redeemed' = {}
    BY <1>5 DEF Presented, Redeemed
  <2>2. Valid' = Valid /\ Redeemed' = Redeemed
    BY <1>1, <1>3, <2>1 DEF Valid
  <2> QED
    BY <1>1, <1>3, <2>2 DEF Gate!vars, Known, Valid, Redeemed
<1> QED
  BY <1>4, <1>5

\* The verdict of the handler.
LEMMA HandlerMaps ==
  ASSUME DigestInv, GateInv, Handler
  PROVE  Gate!Next \/ UNCHANGED Gate!vars
<1> DEFINE Admitted == auth_type = "UNUSED" \/ HandlerAdmits(AuthorizationContext(header[cur]))
<1>1. cur \in Clients /\ pc = "handler" /\ pool' = pool
  BY DEF Handler, poolVars, DigestInv, TypeOK
<1> PICK c \in Clients : c = cur
  BY <1>1
<1>2. phase[c] = "sent" /\ answer[c].nonce = NoNonce /\ c \notin Inside
  BY <1>1, ClientsAssumption DEF DigestInv, PhaseInv, Unanswered, NoAnswer, Inside
<1>3. CASE Admitted
  <2>1. Answer(c, 101, "UNUSED", NoNonce)
    BY <1>3 DEF Handler
  <2>2. /\ UNCHANGED <<auth_type, config, authenticate, header, valid_nonce>> /\ pc' = "idle"
        /\ phase'[c] = "answered"
        /\ answer'[c].code = 101 /\ answer'[c].nonce = NoNonce
        /\ \A d \in Clients \ {c} : UNCHANGED <<answer[d], phase[d]>>
    BY <2>1 DEF Answer, DigestInv, TypeOK
  <2>3. \A d \in Clients : answer'[d].nonce = answer[d].nonce
    BY <1>2, <2>2
  <2>4. Known' = Known /\ Copies' = Copies /\ Held' = Held
    BY <2>2, <2>3 DEF Known, TakenForUser, KnownUser, Copies, Held
  <2>5. Inside' = Inside \cup {c}
    BY <2>2 DEF Inside
  <2>6. Presented = {} /\ Presented' = {} /\ Valid' = Valid
    BY <1>1, <2>2, <2>4 DEF Presented, Valid
  <2>7. Redeemed' = Redeemed \ {c}
    BY <1>1, <2>2 DEF Redeemed
  <2>8. auth_type # "UNUSED" => c \in Known
    <3> SUFFICES ASSUME auth_type # "UNUSED"
                 PROVE  TakenForUser(c)
      BY DEF Known
    <3>1. header[c].type \in {"BASIC", "DIGEST"}
      BY <1>1 DEF GateInv, VerdictInv, DigestInv, TypeOK, AuthTypes
    <3>2. header[c].type = auth_type
      BY <1>1, <3>1 DEF GateInv, VerdictInv
    <3> QED
      BY <1>3, <3>1, <3>2, OnlyKnown DEF GateInv
  <2>9. auth_type = "DIGEST" => c \in Redeemed
    <3> SUFFICES ASSUME auth_type = "DIGEST"
                 PROVE  c \in Redeemed
      OBVIOUS
    <3>1. header[c].type = "DIGEST"
      BY <1>1 DEF GateInv, VerdictInv
    <3>2. valid_nonce
      BY <1>3, <3>1, DigestVerdict DEF DigestInv
    <3> QED
      BY <1>1, <3>2 DEF Redeemed
  <2>10. Gate!Admit(c)
    BY <1>2, <2>2, <2>4, <2>5, <2>6, <2>7, <2>8, <2>9
       DEF Gate!Admit, Known, Valid, Redeemed
  <2> QED
    BY <2>10 DEF Gate!Next
<1>4. CASE ~Admitted
  <2>1. /\ UNCHANGED <<auth_type, config, authenticate, header, phase, answer>>
        /\ pc' = "challenge"
    BY <1>4 DEF Handler, clientVars
  <2>2. Known' = Known /\ Copies' = Copies /\ Held' = Held /\ Inside' = Inside
    BY <2>1 DEF Known, TakenForUser, KnownUser, Copies, Held, Inside
  <2>3. Presented = {} /\ Presented' = {} /\ Valid' = Valid
    BY <1>1, <2>1, <2>2 DEF Presented, Valid
  <2>4. Redeemed' = {}
    BY <2>1 DEF Redeemed
  <2>5. CASE Redeemed = {c}
    <3>1. Gate!Refuse(c)
      BY <2>1, <2>2, <2>3, <2>4, <2>5 DEF Gate!Refuse, Known, Valid, Redeemed
    <3> QED
      BY <3>1 DEF Gate!Next
  <2>6. CASE Redeemed = {}
    BY <2>1, <2>2, <2>3, <2>4, <2>6 DEF Gate!vars, Known, Valid, Redeemed
  <2> QED
    BY <2>5, <2>6 DEF Redeemed
<1> QED
  BY <1>3, <1>4

\* Every step of the handshake is a step of Admission, or none.
LEMMA GateNextMaps ==
  DigestInv /\ DigestInv' /\ GateInv /\ [Next]_vars => Gate!Next \/ UNCHANGED Gate!vars
<1> SUFFICES ASSUME DigestInv, DigestInv', GateInv, [Next]_vars
             PROVE  Gate!Next \/ UNCHANGED Gate!vars
  OBVIOUS
<1>1. ASSUME NEW c \in Clients, ConnectByApplication(c) \/ Retry(c)
      PROVE  Gate!Next
  <2>1. Connect(c) /\ phase[c] \in {"idle", "closing"}
    BY <1>1 DEF ConnectByApplication, Retry
  <2>2. cur # c
    BY <2>1, ClientsAssumption DEF DigestInv, PhaseInv
  <2>3. /\ authenticate'[c] = AuthenticateAtConnect(c) /\ header'[c] = HeaderAtConnect(c)
        /\ answer'[c] = NoAnswer /\ phase'[c] = "sent"
        /\ \A d \in Clients \ {c} :
              UNCHANGED <<authenticate[d], header[d], answer[d], phase[d]>>
        /\ UNCHANGED <<poolVars, serverVars, config>>
    BY <2>1 DEF Connect, DigestInv, TypeOK, HeaderInv
  <2>4. NoncesOf(c)' \subseteq NoncesOf(c) \cup {NoNonce}
    BY <2>3, AuthenticateParts, HeaderNonce DEF DigestInv, NoncesOf, NoAnswer
  <2>5. c \notin Inside'
    BY <2>3 DEF Inside
  <2> QED
    BY <2>2, <2>3, <2>4, <2>5, ForgetStep
<1>2. ASSUME NEW c \in Clients, OnConnect(c)
      PROVE  Gate!Next
  <2>1. cur # c /\ phase[c] = "answered"
    BY <1>2, ClientsAssumption DEF OnConnect, DigestInv, PhaseInv
  <2>2. /\ authenticate'[c] = IF answer[c].type = "UNUSED" THEN Unused
                             ELSE [type |-> answer[c].type, nonce |-> answer[c].nonce,
                                   nc |-> NextNc(authenticate[c].nc)]
        /\ header' = header /\ answer' = answer
        /\ \A d \in Clients \ {c} :
              UNCHANGED <<authenticate[d], header[d], answer[d], phase[d]>>
        /\ UNCHANGED <<poolVars, serverVars, config>>
    BY <1>2 DEF OnConnect, DigestInv, TypeOK
  <2>3. NoncesOf(c)' \subseteq NoncesOf(c) \cup {NoNonce}
    BY <2>2 DEF NoncesOf, Unused
  <2>4. c \in Inside' => c \in Inside
    BY <2>1, <2>2 DEF Inside
  <2> QED
    BY <2>1, <2>2, <2>3, <2>4, ForgetStep
<1>3. ASSUME NEW c \in Clients, ConnectFails(c)
      PROVE  Gate!Next
  <2>1. /\ authenticate'[c] = Unused /\ answer'[c] = NoAnswer /\ phase'[c] = "idle"
        /\ header' = header /\ cur # c
        /\ \A d \in Clients \ {c} :
              UNCHANGED <<authenticate[d], header[d], answer[d], phase[d]>>
        /\ UNCHANGED <<poolVars, serverVars, config>>
    BY <1>3 DEF ConnectFails, DigestInv, TypeOK
  <2>2. NoncesOf(c)' \subseteq NoncesOf(c) \cup {NoNonce}
    BY <2>1 DEF NoncesOf, Unused, NoAnswer
  <2>3. c \notin Inside'
    BY <2>1 DEF Inside
  <2> QED
    BY <2>1, <2>2, <2>3, ForgetStep
<1>4. ASSUME NEW c \in Clients, OnDisconnect(c) \/ Disconnect(c)
      PROVE  Gate!Next
  <2>1. cur # c
    BY <1>4, ClientsAssumption DEF OnDisconnect, Disconnect, DigestInv, PhaseInv
  <2>2. /\ phase'[c] = "idle"
        /\ authenticate' = authenticate /\ header' = header /\ answer' = answer
        /\ \A d \in Clients \ {c} :
              UNCHANGED <<authenticate[d], header[d], answer[d], phase[d]>>
        /\ UNCHANGED <<poolVars, serverVars, config>>
    BY <1>4 DEF OnDisconnect, Disconnect, DigestInv, TypeOK
  <2>3. NoncesOf(c)' \subseteq NoncesOf(c) \cup {NoNonce} /\ c \notin Inside'
    BY <2>2 DEF NoncesOf, Inside
  <2> QED
    BY <2>1, <2>2, <2>3, ForgetStep
<1>5. ASSUME NEW c \in Clients, Accept(c)
      PROVE  Gate!Next \/ UNCHANGED Gate!vars
  BY <1>5, AcceptMaps
<1>6. ASSUME NEW c \in Clients, NEW code \in {500, 503}, AcceptRefused(c, code)
      PROVE  UNCHANGED Gate!vars
  <2>1. pc = "idle" /\ phase[c] = "sent" /\ Answer(c, code, "UNUSED", NoNonce) /\ pool' = pool
    BY <1>6 DEF AcceptRefused, poolVars
  <2> QED
    BY <2>1, EmptyAnswerStep
<1>7. CASE RemoveNonce
  <2>1. /\ pc = "remove" /\ pc' = "handler" /\ pool' = pool \ {header[cur].nonce}
        /\ UNCHANGED <<cur, valid_nonce>>
        /\ UNCHANGED <<auth_type, config, authenticate, header, answer, phase>>
    BY <1>7 DEF RemoveNonce, Remove, TakeOut, clientVars
  <2>2. Valid' \subseteq Valid
    BY <2>1 DEF Valid, Presented, Held
  <2>3. Redeemed' = Redeemed
    BY <2>1 DEF Redeemed
  <2> QED
    BY <2>1, <2>2, <2>3, LapseStep
<1>8. CASE Handler
  BY <1>8, HandlerMaps
<1> DEFINE Asking == cur \in Clients /\ phase[cur] = "sent"
<1>9. pc = "challenge" => Asking
  BY DEF DigestInv, TypeOK, PhaseInv
<1>10. CASE ChallengeBasic
  <2>1. pc = "challenge" /\ Answer(cur, 401, "BASIC", NoNonce) /\ pool' = pool
    BY <1>10 DEF ChallengeBasic, poolVars
  <2> QED
    BY <1>9, <2>1, EmptyAnswerStep
<1>11. ASSUME NEW n \in Nonces, New(n), ChallengeDigest(n)
       PROVE  Gate!Next
  <2>1. /\ pc = "challenge" /\ auth_type = "DIGEST" /\ Answer(cur, 401, "DIGEST", n)
        /\ pool' = pool \cup {n} /\ n \notin Held
    BY <1>11 DEF ChallengeDigest, Add, New
  <2>2. /\ UNCHANGED auth_type /\ Known' = Known /\ Inside' = Inside
        /\ Presented = {} /\ Presented' = {} /\ Redeemed = {} /\ Redeemed' = {}
        /\ Copies' = [Copies EXCEPT ![cur] = @ \cup ({n} \cap Nonces)]
        /\ Held' \cap Nonces = (Held \cup {n}) \cap Nonces
    BY <1>9, <2>1, AnswerStep
  <2>3. Valid' = Valid \cup {n}
    BY <2>1, <2>2 DEF Valid, DigestInv, TypeOK, PoolTypeOK
  <2>4. {n} \cap Nonces = {n} /\ n \notin Gate!Told
    BY <2>1, ToldByGate
  <2>5. Copies' = [Copies EXCEPT ![cur] = @ \cup {n}]
    BY <2>2, <2>4
  <2>6. Gate!Challenge(cur, n)
    BY <2>1, <2>2, <2>3, <2>4, <2>5 DEF Gate!Challenge, Known, Valid, Redeemed
  <2> QED
    BY <1>9, <2>1, <2>6 DEF Gate!Next
<1>12. ASSUME NEW n \in Nonces, NEW started \in BOOLEAN, New(n), ChallengeFails(n, started)
       PROVE  UNCHANGED Gate!vars
  <2>1. /\ pc = "challenge" /\ Answer(cur, 500, "UNUSED", NoNonce)
        /\ pool' = pool \cup {n} /\ n \notin Held
    BY <1>12 DEF ChallengeFails, Add, New
  <2>2. pool' \cap Held = pool \cap Held
    BY <2>1
  <2> QED
    BY <1>9, <2>1, <2>2, EmptyAnswerStep
<1>13. CASE DestroyServer \/ Expire \/ \E n \in Nonces : Fire(n)
  <2>1. /\ UNCHANGED <<cur, valid_nonce, pc>>
        /\ UNCHANGED <<auth_type, config, authenticate, header, answer, phase>>
    BY <1>13 DEF DestroyServer, Expire, Fire, serverVars, clientVars
  <2>2. pool' \subseteq pool
    BY <1>13 DEF DestroyServer, Destroy, Expire, OnTimer, TakeOut, Fire, TimerFires
  <2>3. Valid' \subseteq Valid /\ Redeemed' = Redeemed
    BY <2>1, <2>2 DEF Valid, Presented, Held, Redeemed
  <2> QED
    BY <2>1, <2>3, LapseStep
<1>14. CASE UNCHANGED vars
  <2>1. /\ UNCHANGED <<cur, valid_nonce, pc, pool>>
        /\ UNCHANGED <<auth_type, config, authenticate, header, answer, phase>>
    BY <1>14 DEF vars, poolVars, serverVars, clientVars
  <2>2. Valid' \subseteq Valid /\ Redeemed' = Redeemed
    BY <2>1 DEF Valid, Presented, Held, Redeemed
  <2> QED
    BY <2>1, <2>2, LapseStep
<1> QED
  BY <1>1, <1>2, <1>3, <1>4, <1>5, <1>6, <1>7, <1>8, <1>10, <1>11, <1>12, <1>13, <1>14
     DEF Next, ClientStep, ServerStep

THEOREM GateInvariant == Spec => [](DigestInv /\ GateInv)
<1> QED
  BY DigestInit, DigestStep, GateInit, GateStep, PTL DEF Spec

\* Nobody is let in without the password, nor by digest without a nonce that was announced
\* to this client, is used for the first time and had not expired when OnAccept began.
THEOREM DigestImplementsAdmission == Spec => ImplementsAdmission
<1>1. DigestInv /\ DigestInv' /\ GateInv /\ [Next]_vars => [Gate!Next]_Gate!vars
  BY GateNextMaps
<1> QED
  BY <1>1, GateInvariant, GateInitMaps, PTL DEF Spec, ImplementsAdmission, Gate!Spec
=============================================================================
