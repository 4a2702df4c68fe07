------------------------------- MODULE Digest -------------------------------
(***************************************************************************)
(* Authentication of WebSocket connections: the handshake of WSSocketImpl  *)
(* and WSSSocketImpl with a WSServerImpl or WSSServerImpl whose handler    *)
(* admits the users it knows, over the server's NoncePool.                 *)
(*                                                                         *)
(* Strings are the few values the code tells apart: a hash is the tuple of *)
(* what was hashed, and what becomes of a string with a colon, a comma or  *)
(* an equals sign is in the tables of ColonParts and Parse.                *)
(***************************************************************************)
EXTENDS NoncePool, Sequences

CONSTANTS
    Clients,       \* client sockets
    Configs,       \* for each auth_type_ of a server, the WSRequestContexts of its clients
    NcLimit,       \* 0xfffd: above it the nonce count starts again
    MaxLeaks       \* bound on the nonces whose timer could not be started

AuthTypes == {"UNUSED", "BASIC", "DIGEST"}
Users == {"", "alice", "bob", "carol", "dave", "al:ice", "e=mc2", "alice,x"}
Passwords == {"", "secret", "se:cret", "secret:", "guess"}
Urls == {"/", "/?a=b", "/a=b", "/a,b"}
Realm == "realm"

\* The password the server's handler knows for a user.
Password ==
    [u \in Users \ {""} |-> CASE u = "bob" -> "se:cret" [] u = "carol" -> ""
                             [] u = "dave" -> "secret:" [] OTHER -> "secret"]

ASSUME ConfigsAssumption ==
    Configs \in [AuthTypes -> SUBSET [kind : {"WS", "WSS"}, type : AuthTypes,
                                      username : Users, password : Passwords, url : Urls]]
ASSUME NcLimitAssumption == NcLimit \in Nat \ {0}
ASSUME MaxLeaksAssumption == MaxLeaks \in Nat
ASSUME ClientsAssumption == "nobody" \notin Clients

VARIABLES
    sameLoop,      \* the server runs on the default event loop
    auth_type,     \* WSServerImpl::auth_type_
    alive,         \* the server object exists
    pc, cur,       \* OnAccept: where it is, and for which client
    valid_nonce,   \* AuthorizationContextImpl::valid_nonce
    config,        \* request_context_ of each client, without the Authorization header
    authenticate,  \* authenticate_context_ of each client
    header,        \* request_context_.headers["Authorization"] of each client
    phase,         \* the connection of each client
    answer,        \* the handshake response of each client
    \* history, for the properties
    lapsed,        \* nonces of a client that an expiry took out of the pool
    spent          \* nonces of a client that authorised a connection

serverVars == <<sameLoop, auth_type, alive, pc, cur, valid_nonce>>
clientVars == <<config, authenticate, header, phase, answer>>
historyVars == <<lapsed, spent>>
vars == <<poolVars, serverVars, clientVars, historyVars>>

NoHeader == [type |-> "none", username |-> "", nonce |-> NoNonce, nc |-> 0,
             uri |-> "", response |-> <<>>]
Unused == [type |-> "UNUSED", nonce |-> NoNonce, nc |-> 0]
NoAnswer == [code |-> 0, type |-> "UNUSED", nonce |-> NoNonce]

Init ==
    /\ PoolInit
    /\ sameLoop \in BOOLEAN /\ auth_type \in AuthTypes /\ alive = TRUE
    /\ pc = "idle" /\ cur = "nobody" /\ valid_nonce = FALSE
    /\ config \in [Clients -> Configs[auth_type]]
    /\ authenticate = [c \in Clients |-> Unused]
    /\ header = [c \in Clients |-> NoHeader]
    /\ phase = [c \in Clients |-> "idle"]
    /\ answer = [c \in Clients |-> NoAnswer]
    /\ lapsed = {} /\ spent = {}

----------------------------------------------------------------------------
(* The Authorization header.                                               *)

\* Parse: a field whose value contains "=" has not two parts and is left out; a comma ends
\* the field.
Parse(value) ==
    CASE value \in {"e=mc2", "/?a=b", "/a=b"} -> ""
      [] value = "alice,x" -> "alice"
      [] value = "/a,b" -> "/a"
      [] OTHER -> value

\* A string, taken apart at its colons.
ColonParts(value) ==
    CASE value = "al:ice" -> <<"al", "ice">>
      [] value = "se:cret" -> <<"se", "cret">>
      [] value = "secret:" -> <<"secret", "">>
      [] OTHER -> <<value>>

\* Split of "user:password": what follows the last colon is lost if it is empty.
Split(username, password) ==
    LET parts == ColonParts(username) \o ColonParts(password)
        last == Len(parts)
    IN  IF parts[last] = "" THEN SubSeq(parts, 1, last - 1) ELSE parts

CalcA1(username, realm, password) == <<username, realm, password>>

CalcDigest(A1, uri, nonce, nc) == <<A1, uri, nonce, nc>>

BasicHeader(username, password) ==
    [NoHeader EXCEPT !.type = "BASIC", !.username = username, !.response = <<password>>]

\* AuthenticateContextImpl::CreateAuthorizationHeader; NoHeader is the empty string.
CreateAuthorizationHeader(a, uri, username, password) ==
    CASE username # "" /\ a.type = "BASIC" -> BasicHeader(username, password)
      [] username # "" /\ a.type = "DIGEST" /\ a.nonce # NoNonce ->
            [type |-> "DIGEST", username |-> username, nonce |-> a.nonce, nc |-> a.nc,
             uri |-> uri,
             response |-> CalcDigest(CalcA1(username, Realm, password), uri, a.nonce, a.nc)]
      [] OTHER -> NoHeader

\* "user:password" must have two parts.
ReadBack(username, password) ==
    LET parts == Split(username, password)
    IN  IF Len(parts) = 2 THEN [username |-> parts[1], password |-> parts[2]]
                          ELSE [username |-> "", password |-> ""]

\* AuthorizationContextImpl; of a digest the name of the user and the uri may be damaged.
AuthorizationContext(h) ==
    CASE h.type = "BASIC" ->
            LET read == ReadBack(h.username, h.response[1])
            IN  [h EXCEPT !.username = read.username, !.response = <<read.password>>]
      [] h.type = "DIGEST" -> [h EXCEPT !.username = Parse(@), !.uri = Parse(@)]
      [] OTHER -> h

\* mutant: the hash is enough
MutValidateWithHash(h, hash, valid) ==
    IF h.nonce = NoNonce \/ h.uri = "" \/ h.response # CalcDigest(hash, h.uri, h.nonce, h.nc)
    THEN "INVALID"
    ELSE "VALID"

ValidateWithHash(h, hash, valid) ==
    IF h.nonce = NoNonce \/ h.uri = "" \/ h.response # CalcDigest(hash, h.uri, h.nonce, h.nc)
    THEN "INVALID"
    ELSE IF valid THEN "VALID" ELSE "AMBIGUOUS"

Validate(h, password, valid) ==
    IF h.type = "BASIC"
    THEN IF h.response = <<password>> THEN "VALID" ELSE "INVALID"
    ELSE IF h.username = "" THEN "INVALID"
         ELSE ValidateWithHash(h, CalcA1(h.username, Realm, password), valid)

\* The handler's OnConnect: it looks up the password of the user.
HandlerAdmits(h) ==
    h.username \in DOMAIN Password /\ Validate(h, Password[h.username], valid_nonce) = "VALID"

----------------------------------------------------------------------------
(* The client.                                                             *)

\* mutant: WS creates the header from the type of the last challenge
MutAuthenticateAtConnect(c) == authenticate[c]

\* authenticate_context_ as Connect() sets it: only WS takes the configured type.
AuthenticateAtConnect(c) ==
    IF config[c].kind = "WS" THEN [authenticate[c] EXCEPT !.type = config[c].type]
                             ELSE authenticate[c]

\* The uri of the digest: WSS leaves out the query.
DigestUri(c) ==
    IF config[c].kind = "WSS" /\ config[c].url = "/?a=b" THEN "/" ELSE config[c].url

\* Connect() creates an Authorization header, erases it, or leaves the old one in place.
HeaderAtConnect(c) ==
    LET a == AuthenticateAtConnect(c)
        h == CreateAuthorizationHeader(a, DigestUri(c), config[c].username, config[c].password)
        creates == IF config[c].kind = "WS"
                   THEN a.type \in {"BASIC", "DIGEST"}
                   ELSE config[c].type = "BASIC" \/ a.type = "DIGEST"
    IN  CASE creates /\ h # NoHeader -> h
          [] ~creates /\ a.type = "UNUSED" -> NoHeader
          [] OTHER -> header[c]

\* The nonces that a client still has a copy of; the history is about no others.
Held ==
    UNION {{authenticate[c].nonce, header[c].nonce, answer[c].nonce} : c \in Clients}

Forget == lapsed' = lapsed \cap Held' /\ spent' = spent \cap Held'

Connect(c) ==
    /\ authenticate' = [authenticate EXCEPT ![c] = AuthenticateAtConnect(c)]
    /\ header' = [header EXCEPT ![c] = HeaderAtConnect(c)]
    /\ phase' = [phase EXCEPT ![c] = "sent"]
    /\ answer' = [answer EXCEPT ![c] = NoAnswer]
    /\ UNCHANGED <<poolVars, serverVars, config>>
    /\ Forget

\* The application connects (again).
ConnectByApplication(c) == phase[c] = "idle" /\ Connect(c)

\* mutant: the count does not start again
MutNextNc(nc) == nc + 1

NextNc(nc) == (IF nc > NcLimit THEN 0 ELSE nc) + 1

\* OnConnect of a socket whose handshake was answered.
OnConnect(c) ==
    /\ phase[c] = "answered"
    /\ authenticate' = [authenticate EXCEPT ![c] =
            IF answer[c].type = "UNUSED" THEN Unused
            ELSE [type |-> answer[c].type, nonce |-> answer[c].nonce, nc |-> NextNc(@.nc)]]
    /\ phase' = [phase EXCEPT ![c] = IF answer[c].code = 101 THEN "connected" ELSE "closing"]
    /\ UNCHANGED <<poolVars, serverVars, config, header, answer>>
    /\ Forget

\* The connection breaks before the answer has come: there is no challenge to remember.
ConnectFails(c) ==
    /\ phase[c] \in {"sent", "answered"} /\ cur # c
    /\ authenticate' = [authenticate EXCEPT ![c] = Unused]
    /\ phase' = [phase EXCEPT ![c] = "idle"]
    /\ answer' = [answer EXCEPT ![c] = NoAnswer]
    /\ UNCHANGED <<poolVars, serverVars, config, header>>
    /\ Forget

\* mutant: the number of challenges does not matter
MutCheckRetryAuth(c) == answer[c].code = 401 /\ authenticate[c].type = "DIGEST"

CheckRetryAuth(c) ==
    answer[c].code = 401 /\ authenticate[c].type = "DIGEST" /\ authenticate[c].nc < 2

\* OnDisconnect of a handshake that was refused: the socket connects by itself ...
Retry(c) == phase[c] = "closing" /\ CheckRetryAuth(c) /\ Connect(c)

\* ... or the handler is told.
OnDisconnect(c) ==
    /\ phase[c] = "closing" /\ ~CheckRetryAuth(c)
    /\ phase' = [phase EXCEPT ![c] = "idle"]
    /\ UNCHANGED <<poolVars, serverVars, config, authenticate, header, answer, historyVars>>

\* An established connection is closed.
Disconnect(c) ==
    /\ phase[c] = "connected" /\ phase' = [phase EXCEPT ![c] = "idle"]
    /\ UNCHANGED <<poolVars, serverVars, config, authenticate, header, answer, historyVars>>

----------------------------------------------------------------------------
(* The server.                                                             *)

\* A nonce is new: nobody has a copy of it any more.
New(n) ==
    n \notin pool \cup live \cup Held \cup {expiring}

\* The name of the next nonce.
NewNonce == CHOOSE n \in Nonces : New(n)

Leaked == pool \ (running \cup {expiring})

\* The default event loop runs one callback at a time.
LoopFree == sameLoop => (pc = "idle" /\ expiring = NoNonce)

Answer(c, code, type, n) ==
    /\ answer' = [answer EXCEPT ![c] = [code |-> code, type |-> type, nonce |-> n]]
    /\ phase' = [phase EXCEPT ![c] = "answered"]
    /\ pc' = "idle" /\ cur' = "nobody"
    /\ UNCHANGED <<sameLoop, auth_type, alive, valid_nonce, config, authenticate, header>>

\* OnAccept: the request has been read and the pool of sockets has room.  (Bound: there is
\* a name left for a nonce.)
Accept(c) ==
    /\ alive /\ pc = "idle" /\ LoopFree /\ phase[c] = "sent"
    /\ \E n \in Nonces : New(n)
    /\ cur' = c
    /\ LET h == AuthorizationContext(header[c]) IN
       /\ pc' = CASE auth_type = "UNUSED" -> "handler"
                  [] auth_type # "UNUSED" /\ h.type # auth_type -> "challenge"
                  [] auth_type = "BASIC" /\ h.type = "BASIC" -> "handler"
                  [] OTHER -> "remove"
       /\ valid_nonce' = (auth_type = "DIGEST" /\ h.type = "DIGEST" /\ IsValid(h.nonce))
    /\ UNCHANGED <<poolVars, sameLoop, auth_type, alive, clientVars, historyVars>>

\* The pool of sockets is full (503), or there is no memory (500).
AcceptRefused(c, code) ==
    /\ alive /\ pc = "idle" /\ LoopFree /\ phase[c] = "sent"
    /\ Answer(c, code, "UNUSED", NoNonce)
    /\ UNCHANGED <<poolVars, historyVars>>

\* mutant: the nonce of an authorization stays in the pool
MutRemoveNonce ==
    /\ pc = "remove" /\ pc' = "handler"
    /\ UNCHANGED <<poolVars, sameLoop, auth_type, alive, cur, valid_nonce, clientVars,
                   historyVars>>

\* The nonce of the authorization is removed, whatever the verdict will be.
RemoveNonce ==
    /\ pc = "remove" /\ pc' = "handler"
    /\ Remove(header[cur].nonce)
    /\ UNCHANGED <<sameLoop, auth_type, alive, cur, valid_nonce, clientVars, historyVars>>

\* The handler admits the connection, or leaves the code at 401.
Handler ==
    /\ pc = "handler"
    /\ IF auth_type = "UNUSED" \/ HandlerAdmits(AuthorizationContext(header[cur]))
       THEN /\ Answer(cur, 101, "UNUSED", NoNonce)
            /\ spent' = spent \cup ({header[cur].nonce} \cap Nonces)
       ELSE /\ pc' = "challenge"
            /\ UNCHANGED <<sameLoop, auth_type, alive, cur, valid_nonce, clientVars, spent>>
    /\ UNCHANGED <<poolVars, lapsed>>

ChallengeBasic ==
    /\ pc = "challenge" /\ auth_type = "BASIC"
    /\ Answer(cur, 401, "BASIC", NoNonce)
    /\ UNCHANGED <<poolVars, historyVars>>

\* CreateAuthenticationHeader: a new nonce is added and announced.
ChallengeDigest(n) ==
    /\ pc = "challenge" /\ auth_type = "DIGEST"
    /\ Add(n, TRUE)
    /\ Answer(cur, 401, "DIGEST", n)
    /\ UNCHANGED historyVars

\* mutant: the error of Add is ignored
MutChallengeFails(n, started) ==
    /\ pc = "challenge" /\ auth_type = "DIGEST"
    /\ started \/ Cardinality(Leaked) < MaxLeaks
    /\ Add(n, started)
    /\ Answer(cur, 401, "DIGEST", n)
    /\ UNCHANGED historyVars

\* CreateAuthenticationHeader fails: the timer of the new nonce does not start, or there is
\* no memory for the header.  The nonce is in the pool, and the client gets 500.
ChallengeFails(n, started) ==
    /\ pc = "challenge" /\ auth_type = "DIGEST"
    /\ started \/ Cardinality(Leaked) < MaxLeaks
    /\ Add(n, started)
    /\ Answer(cur, 500, "UNUSED", NoNonce)
    /\ UNCHANGED historyVars

\* The default event loop: a nonce is too old.
Fire(n) ==
    /\ LoopFree /\ TimerFires(n)
    /\ UNCHANGED <<serverVars, clientVars, historyVars>>

Expire ==
    /\ OnTimer
    /\ lapsed' = lapsed \cup (Held \cap (pool \ pool'))
    /\ UNCHANGED <<serverVars, clientVars, spent>>

\* The application lets go of the server.
DestroyServer ==
    /\ alive /\ pc = "idle" /\ alive' = FALSE
    /\ Destroy
    /\ UNCHANGED <<sameLoop, auth_type, pc, cur, valid_nonce, clientVars, historyVars>>

----------------------------------------------------------------------------

ServerStep ==
    \/ RemoveNonce \/ Handler \/ ChallengeBasic
    \/ \E n \in {m \in Nonces : New(m)} :
        n = NewNonce /\ (ChallengeDigest(n) \/ \E started \in BOOLEAN : ChallengeFails(n, started))

ClientStep(c) == OnConnect(c) \/ Retry(c) \/ OnDisconnect(c)

Next ==
    \/ \E c \in Clients :
        \/ ConnectByApplication(c) \/ ClientStep(c) \/ ConnectFails(c) \/ Disconnect(c)
        \/ Accept(c) \/ \E code \in {500, 503} : AcceptRefused(c, code)
    \/ ServerStep \/ DestroyServer
    \/ Expire \/ \E n \in Nonces : Fire(n)

Spec == Init /\ [][Next]_vars

\* The event loops run the callbacks they have begun, serve every connection and fire every
\* timer; a connection to a server that has gone breaks.  Nothing is assumed of the
\* applications.
Fairness ==
    /\ WF_vars(ServerStep) /\ WF_vars(Expire)
    /\ \A n \in Nonces : SF_vars(Fire(n))
    /\ \A c \in Clients :
        WF_vars(ClientStep(c)) /\ SF_vars(Accept(c)) /\ WF_vars(~alive /\ ConnectFails(c))

FairSpec == Spec /\ Fairness

----------------------------------------------------------------------------

\* The types of the server, of the clients and of the pool.
TypeOK ==
    /\ PoolTypeOK
    /\ sameLoop \in BOOLEAN /\ auth_type \in AuthTypes /\ alive \in BOOLEAN
    /\ pc \in {"idle", "remove", "handler", "challenge"}
    /\ cur \in Clients \cup {"nobody"} /\ (cur = "nobody" <=> pc = "idle")
    /\ valid_nonce \in BOOLEAN
    /\ config \in [Clients -> Configs[auth_type]]
    /\ authenticate \in [Clients -> [type : AuthTypes, nonce : Nonces \cup {NoNonce},
                                     nc : 0 .. NcLimit + 1]]
    /\ \A c \in Clients : header[c].nonce \in Nonces \cup {NoNonce}
    /\ phase \in [Clients -> {"idle", "sent", "answered", "closing", "connected"}]
    /\ answer \in [Clients -> [code : {0, 101, 401, 500, 503}, type : AuthTypes,
                               nonce : Nonces \cup {NoNonce}]]
    /\ lapsed \subseteq Nonces /\ spent \subseteq Nonces

\* The server admits the client.
Admits(c) == answer[c].code # 101 /\ answer'[c].code = 101

\* A nonce authorises at most one connection, although the client sends the header it was
\* used in again and the server asks IsValid before it removes the nonce.
AuthorisesOnce ==
    [][\A c \in Clients : Admits(c) /\ auth_type = "DIGEST" => header[c].nonce \notin spent]_vars

\* As long as the server exists and runs on the default event loop, where the nonces
\* expire, no expiry reads the context of a nonce that an authorization has removed.
NoStaleExpiry == stale => ~sameLoop \/ ~alive

\* Every nonce that a client was told and that is still valid has a context and a timer
\* that runs or is just firing: a nonce whose timer could not be started stays valid for
\* ever, and so must never be announced.
AnnouncedExpires ==
    \A n \in Held \cap pool : n \in live /\ (n \in running \/ n = expiring)

\* The handler of a client is told that the server refused it.
Refused(c) == phase[c] = "closing" /\ phase'[c] = "idle" /\ answer[c].code = 401

KnownUser(c) ==
    /\ config[c].username \in DOMAIN Password
    /\ config[c].password = Password[config[c].username]

\* A basic server reads the name and the password of the client as they were sent.
ReadExactly(c) ==
    ReadBack(config[c].username, config[c].password)
        = [username |-> config[c].username, password |-> config[c].password]

\* A client of a known user is refused for a reason.  By a digest server: it is a WS client
\* that is not configured for digest, Parse does not read its name or its uri as they were
\* written, or the nonce it was given expired before it came back, the automatic retry and
\* the stale header of an earlier connection notwithstanding.  By a basic server: it is not
\* configured for basic, Split does not give its name and its password back (which is so if
\* one of them has a colon or the password is empty), or it is a WSS client, which sends no
\* password before it has been refused once.
RefusedForCause ==
    [][\A c \in Clients : Refused(c) /\ KnownUser(c) =>
        IF auth_type = "DIGEST"
        THEN \/ header[c].nonce \in lapsed
             \/ config[c].kind = "WS" /\ config[c].type # "DIGEST"
             \/ Parse(config[c].username) # config[c].username
             \/ Parse(DigestUri(c)) # DigestUri(c)
        ELSE \/ config[c].type # "BASIC" \/ ~ReadExactly(c)
             \/ config[c].kind = "WSS" /\ header[c] = NoHeader]_vars

\* The server takes the client for a user whose password it has: by digest this is so, by
\* basic the server goes by the name and the password it reads.
TakenForUser(c) ==
    IF auth_type = "BASIC"
    THEN LET read == ReadBack(config[c].username, config[c].password)
         IN  read.username \in DOMAIN Password /\ read.password = Password[read.username]
    ELSE KnownUser(c)

\* The nonce that OnAccept found in the pool, and has not removed yet.
Presented == IF pc = "remove" /\ valid_nonce THEN {header[cur].nonce} ELSE {}

\* The nonces each client has a copy of.
Copies ==
    [c \in Clients |-> {authenticate[c].nonce, header[c].nonce, answer[c].nonce} \cap Nonces]

\* A client is inside from the answer that admits it to the end of the connection.
Inside == {c \in Clients : phase[c] \in {"answered", "connected"} /\ answer[c].code = 101}

\* What the steps of the handshake amount to.
Gate == INSTANCE Admission WITH
    scheme <- auth_type, known <- {c \in Clients : TakenForUser(c)}, holds <- Copies,
    valid <- (pool \cap Held) \ Presented, inside <- Inside,
    redeemed <- IF pc \in {"remove", "handler"} /\ valid_nonce THEN {cur} ELSE {}

\* The server keeps the promises of Admission: it admits nobody that does not know the
\* password (but for a colon at its end, which Split drops, so that a basic server takes
\* "secret:" for "secret"), and by digest nobody without a nonce that was announced to this
\* client, that had not expired and that nobody has used before, although OnAccept asks
\* IsValid, removes the nonce and leaves the verdict to the handler in separate steps, while
\* nonces expire, clients send the headers of earlier connections and challenges fail
\* half-way.
ImplementsAdmission == Gate!Spec

\* Every Connect() comes to an end: the connection is established or the handler is told,
\* also for a client whose password is wrong, however often it is challenged.
ConnectReported ==
    \A c \in Clients : phase[c] = "sent" ~> phase[c] \in {"connected", "idle"}

\* A nonce that was announced does not stay valid for ever, used or not.
NonceLapses == \A n \in Nonces : n \in Held \cap pool ~> n \notin pool
=============================================================================
