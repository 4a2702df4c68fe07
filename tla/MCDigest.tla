------------------------------ MODULE MCDigest ------------------------------
(***************************************************************************)
(* A model-checking instance of Digest: one client of each sort that the   *)
(* code treats differently.                                                *)
(***************************************************************************)
EXTENDS Digest

Config(kind, type, username, password, url) ==
    [kind |-> kind, type |-> type, username |-> username, password |-> password, url |-> url]

\* Of each class and each configured type; WSS treats a client that is not configured for
\* BASIC in one way, and leaves the query out of the uri.
Plain ==
    {Config("WS", t, "alice", "secret", "/") : t \in AuthTypes}
    \cup {Config("WSS", t, "alice", "secret", "/?a=b") : t \in {"BASIC", "DIGEST"}}

\* Names, passwords and urls that do not survive the header, and wrong passwords.
Basic ==
    {Config("WS", "BASIC", u, Password[u], "/") : u \in {"bob", "carol", "dave", "al:ice"}}
    \cup {Config("WS", "BASIC", "alice", p, "/") : p \in {"secret:", "guess"}}

Digests ==
    {Config("WS", "DIGEST", "alice", "secret", "/?a=b"),
     Config("WSS", "DIGEST", "alice", "secret", "/a=b")}
    \cup {Config("WSS", "DIGEST", u, "secret", "/") : u \in {"e=mc2", "alice,x"}}
    \cup {Config("WSS", "DIGEST", u, "guess", "/") : u \in {"", "alice"}}

MCConfigs ==
    [t \in AuthTypes |-> Plain \cup CASE t = "BASIC" -> Basic
                                     [] t = "DIGEST" -> Digests
                                     [] OTHER -> {}]
=============================================================================
