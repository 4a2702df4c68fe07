--------------------------- MODULE MessagesProofs ---------------------------
(***************************************************************************)
(* Proofs about Wire, Timer and Values, for every number of requests,      *)
(* calls, connections, starts and anys, every modulus of the ids and every *)
(* received object: calls get their own answers, messages are delivered    *)
(* whole, no deleted timer is used; the handles of libtv are closed        *)
(* exactly once, and a timer is oneshot; anys and optionals keep the value *)
(* they were given.                                                        *)
(***************************************************************************)
EXTENDS Wire, Values, Timer, FiniteSetTheorems, SequenceTheorems, TLAPS

----------------------------------------------------------------------------
(* Wire: the invariant.  The fragments that have not been taken are one    *)
(* stream, which OnRead only cuts elsewhere.                               *)

Message ==
    [kind : {"response", "notify", "invalid", "big"},
     id : Int, call : Calls \cup {NoCall}, conn : Nat]
Fragment == [msg : Message, half : {1, 2}]
Stream == unpacker \o net

WireTypes ==
    /\ id \in Int /\ msgid \in [Requests -> Int]
    /\ request \in [Calls -> Requests \cup {NoRequest}]
    /\ \A k \in toPeer : request[k] \in Requests
    /\ sending # "none" => current \in Calls
    /\ mem \in [Calls -> {"none", "live", "freed"}]
    /\ armed \subseteq Calls /\ toPeer \subseteq Calls
    /\ unpacker \in Seq(Fragment) /\ net \in Seq(Fragment)
    /\ conn \in Nat /\ state \in {"down", "up", "closing"}
    /\ answers \in [Calls -> SUBSET Int]

\* The messages on the wire.
Wired == {Stream[p].msg : p \in DOMAIN Stream}

\* The id of call k can still turn up.
Listed(k) == \E p \in DOMAIN timers : timers[p] = k
OnWire(k) == \E m \in Wired : m.kind = "response" /\ m.call = k
BeingSent(k) == sending # "none" /\ k = current
Open(k) == Listed(k) \/ k \in toPeer \cup armed \/ OnWire(k) \/ BeingSent(k)

\* Calls are numbered in the order of their Sends, and nothing is known of the later ones.
Sent == {k \in Calls : mem[k] # "none"}

SentInv ==
    /\ \E n \in Nat : Sent = 1 .. n
    /\ \A k \in Sent : request[k] \in Requests /\ msgid[request[k]] # NoId
    /\ \A k \in Calls : Open(k) => k \in Sent

\* A response carries the id of its call.
ResponseInv ==
    \A m \in Wired : m.kind = "response" => m.call \in Calls /\ m.id = IdOf(m.call)

\* Two calls with one id are not open at the same time.
DistinctIds == \A j, k \in Calls : Open(j) /\ Open(k) /\ IdOf(j) = IdOf(k) => j = k

\* Each call is in the list at most once, and not when it is deleted.
ListInv ==
    /\ timers \in Seq(Calls)
    /\ \A p \in DOMAIN timers : mem[timers[p]] = "live"
    /\ \A p, q \in DOMAIN timers : timers[p] = timers[q] => p = q

\* The timer of a Send() under way does not run, and is not in the list before Send() puts it
\* there.
SendingInv ==
    sending # "none" =>
        /\ current \notin armed
        /\ sending = "push" => ~Listed(current) /\ mem[current] = "live"

CallInv == SentInv /\ ResponseInv /\ DistinctIds /\ ListInv /\ SendingInv

\* Fragments come in pairs.
Paired(s) ==
    /\ s # <<>> => s[1].half = 1 /\ s[Len(s)].half = 2
    /\ \A p \in 1 .. Len(s) - 1 :
        IF s[p].half = 1 THEN s[p + 1] = [s[p] EXCEPT !.half = 2] ELSE s[p + 1].half = 1

\* The stream is whole messages of this connection.
StreamInv ==
    /\ Paired(Stream)
    /\ \A m \in Wired : m.conn = conn
    /\ state = "down" => Stream = <<>>

\* The calls can be told apart until an id clashes, the messages until a connection is torn.
WireInv ==
    /\ WireTypes /\ (~clash => CallInv) /\ (~torn => StreamInv)
    /\ AnswersItsCall /\ DeliversWhole

----------------------------------------------------------------------------
(* The stream.                                                             *)

\* Concatenation, in the form in which the lemmas below need it.
LEMMA Associative == \A s, t, u \in Seq(Fragment) : (s \o t) \o u = s \o (t \o u)
BY ConcatAssociative

\* The stream begins with what the unpacker has.
LEMMA StreamType ==
  ASSUME WireTypes
  PROVE  /\ Stream \in Seq(Fragment) /\ Len(Stream) = Len(unpacker) + Len(net)
         /\ \A p \in 1 .. Len(unpacker) : Stream[p] = unpacker[p]
BY ConcatProperties, LenProperties DEF WireTypes, Stream

\* Taking bytes from the unpacker takes them from the stream.
LEMMA DropStream ==
  ASSUME WireTypes, NEW n \in 0 .. Len(unpacker), Drop(n), net' = net
  PROVE  /\ unpacker' \in Seq(Fragment) /\ Stream' \in Seq(Fragment)
         /\ Len(Stream') = Len(Stream) - n
         /\ \A p \in 1 .. Len(Stream') : Stream'[p] = Stream[p + n]
         /\ Wired' \subseteq Wired
<1>types. /\ unpacker \in Seq(Fragment) /\ net \in Seq(Fragment)
          /\ Len(unpacker) \in Nat /\ Len(net) \in Nat
  BY LenProperties DEF WireTypes
<1>1. /\ unpacker' \in Seq(Fragment) /\ Len(unpacker') = Len(unpacker) - n
      /\ \A p \in 1 .. Len(unpacker') : unpacker'[p] = unpacker[p + n]
  <2>1. \A i \in n + 1 .. Len(unpacker) : unpacker[i] \in Fragment
    BY <1>types, ElementOfSeq
  <2> QED
    BY <1>types, <2>1, SubSeqProperties DEF Drop
<1>2. /\ Stream \in Seq(Fragment) /\ Len(Stream) = Len(unpacker) + Len(net)
      /\ \A p \in 1 .. Len(Stream) :
          Stream[p] = IF p <= Len(unpacker) THEN unpacker[p] ELSE net[p - Len(unpacker)]
  BY <1>types, ConcatProperties DEF Stream
<1>3. /\ Stream' \in Seq(Fragment) /\ Len(Stream') = Len(unpacker') + Len(net)
      /\ \A p \in 1 .. Len(Stream') :
          Stream'[p] = IF p <= Len(unpacker') THEN unpacker'[p] ELSE net[p - Len(unpacker')]
  <2>1. /\ unpacker' \o net \in Seq(Fragment) /\ Len(unpacker' \o net) = Len(unpacker') + Len(net)
        /\ \A p \in 1 .. Len(unpacker') + Len(net) : (unpacker' \o net)[p] =
              IF p <= Len(unpacker') THEN unpacker'[p] ELSE net[p - Len(unpacker')]
    BY <1>types, <1>1, ConcatProperties, Zenon
  <2> QED
    BY <2>1, Zenon DEF Stream
<1>4. Len(Stream') = Len(Stream) - n
  <2>1. /\ Len(Stream) = Len(unpacker) + Len(net) /\ Len(unpacker') = Len(unpacker) - n
        /\ Len(Stream') = Len(unpacker') + Len(net)
    BY <1>1, <1>2, <1>3
  <2> QED
    BY <2>1, <1>types
<1>5. ASSUME NEW p \in 1 .. Len(Stream')
      PROVE  Stream'[p] = Stream[p + n]
  <2>1. p + n \in 1 .. Len(Stream) /\ (p + n <= Len(unpacker) <=> p <= Len(unpacker'))
    BY <1>types, <1>1, <1>2, <1>4
  <2>2. CASE p <= Len(unpacker')
    <3>1. p \in 1 .. Len(unpacker') /\ Stream'[p] = unpacker'[p]
      BY <2>2, <1>3, <1>types, <1>1
    <3> QED
      BY <2>1, <2>2, <3>1, <1>1, <1>2
  <2>3. CASE ~(p <= Len(unpacker'))
    <3>1. p - Len(unpacker') = (p + n) - Len(unpacker)
      BY <1>types, <1>1
    <3> QED
      BY <2>1, <2>3, <3>1, <1>2, <1>3
  <2> QED
    BY <2>2, <2>3
<1>6. Wired' \subseteq Wired
  <2>1. DOMAIN Stream = 1 .. Len(Stream) /\ DOMAIN Stream' = 1 .. Len(Stream')
    BY <1>2, <1>3, LenProperties
  <2>2. \A p \in DOMAIN Stream' : p + n \in DOMAIN Stream /\ Stream'[p] = Stream[p + n]
    BY <1>types, <1>1, <1>2, <1>3, <1>4, <1>5, <2>1
  <2> QED
    BY <2>2, Zenon DEF Wired
<1> QED
  BY <1>1, <1>3, <1>4, <1>5, <1>6

\* A read cuts the stream elsewhere.
LEMMA ReadStream ==
  ASSUME WireTypes, NEW n \in 1 .. Len(net), OnRead(n)
  PROVE  /\ unpacker' \in Seq(Fragment) /\ net' \in Seq(Fragment)
         /\ Stream' = Stream /\ Wired' = Wired
<1> DEFINE a == SubSeq(net, 1, n)
           b == SubSeq(net, n + 1, Len(net))
<1>types. unpacker \in Seq(Fragment) /\ net \in Seq(Fragment) /\ Len(net) \in Nat
  BY LenProperties DEF WireTypes
<1>1. a \in Seq(Fragment) /\ b \in Seq(Fragment)
  <2>1. \A i \in 1 .. Len(net) : net[i] \in Fragment
    BY <1>types, ElementOfSeq
  <2>2. a \in Seq(Fragment)
    BY <1>types, <2>1, SubSeqProperties
  <2>3. b \in Seq(Fragment)
    BY <1>types, <2>1, SubSeqProperties
  <2> QED
    BY <2>2, <2>3
<1>2. a \o b = net
  <2>1. a \o b = SubSeq(net, 1, Len(net))
    BY <1>types, ConcatAdjacentSubSeq
  <2> QED
    BY <2>1, <1>types, SubSeqFull
<1> HIDE DEF a, b
<1>3. unpacker' = unpacker \o a /\ net' = b
  BY DEF OnRead, a, b
<1>4. unpacker' \in Seq(Fragment)
  BY <1>types, <1>1, <1>3, ConcatProperties
<1>5. Stream' = unpacker \o (a \o b)
  <2>1. (unpacker \o a) \o b = unpacker \o (a \o b)
    BY <1>types, <1>1, Associative, Zenon
  <2> QED
    BY <2>1, <1>3, Zenon DEF Stream
<1>6. Stream' = Stream
  BY <1>5, <1>2 DEF Stream
<1> QED
  BY <1>1, <1>3, <1>4, <1>6 DEF Wired

\* The peer adds a whole message at the end.
LEMMA PeerStream ==
  ASSUME WireTypes, NEW m \in Message, net' = net \o Fragments(m), unpacker' = unpacker
  PROVE  /\ net' \in Seq(Fragment) /\ Stream' \in Seq(Fragment)
         /\ Len(Stream') = Len(Stream) + 2
         /\ \A p \in 1 .. Len(Stream) : Stream'[p] = Stream[p]
         /\ Stream'[Len(Stream) + 1] = [msg |-> m, half |-> 1]
         /\ Stream'[Len(Stream) + 2] = [msg |-> m, half |-> 2]
         /\ Wired' = Wired \cup {m}
<1> DEFINE f == Fragments(m)
<1>types. /\ unpacker \in Seq(Fragment) /\ net \in Seq(Fragment)
          /\ Stream \in Seq(Fragment) /\ Len(Stream) \in Nat
  BY StreamType, LenProperties DEF WireTypes
<1>1. /\ f \in Seq(Fragment) /\ Len(f) = 2
      /\ f[1] = [msg |-> m, half |-> 1] /\ f[2] = [msg |-> m, half |-> 2]
  BY DEF Fragments, Fragment
<1> HIDE DEF f
<1>2. net' \in Seq(Fragment)
  BY <1>types, <1>1, ConcatProperties DEF f
<1>3. Stream' = Stream \o f
  <2>1. (unpacker \o net) \o f = unpacker \o (net \o f)
    BY <1>types, <1>1, Associative, Zenon
  <2> QED
    BY <2>1, Zenon DEF Stream, f
<1>4. /\ Stream' \in Seq(Fragment) /\ Len(Stream') = Len(Stream) + 2
      /\ \A p \in 1 .. Len(Stream) + 2 :
          Stream'[p] = IF p <= Len(Stream) THEN Stream[p] ELSE f[p - Len(Stream)]
  <2>1. /\ Stream \o f \in Seq(Fragment) /\ Len(Stream \o f) = Len(Stream) + Len(f)
        /\ \A p \in 1 .. Len(Stream) + Len(f) :
            (Stream \o f)[p] = IF p <= Len(Stream) THEN Stream[p] ELSE f[p - Len(Stream)]
    BY <1>types, <1>1, ConcatProperties, Zenon
  <2> QED
    BY <2>1, <1>1, <1>3, Zenon
<1>5. \A p \in 1 .. Len(Stream) : Stream'[p] = Stream[p]
  BY <1>types, <1>4
<1>6. Stream'[Len(Stream) + 1] = f[1] /\ Stream'[Len(Stream) + 2] = f[2]
  <2>1. /\ Len(Stream) + 1 \in 1 .. Len(Stream) + 2 /\ ~(Len(Stream) + 1 <= Len(Stream))
        /\ Len(Stream) + 2 \in 1 .. Len(Stream) + 2 /\ ~(Len(Stream) + 2 <= Len(Stream))
        /\ Len(Stream) + 1 - Len(Stream) = 1 /\ Len(Stream) + 2 - Len(Stream) = 2
    BY <1>types
  <2> QED
    BY <2>1, <1>4
<1>7. Wired' = Wired \cup {m}
  <2>1. DOMAIN Stream = 1 .. Len(Stream) /\ DOMAIN Stream' = 1 .. Len(Stream) + 2
    BY <1>types, <1>4, LenProperties
  <2>2. \A p \in 1 .. Len(Stream) + 2 :
            p \in 1 .. Len(Stream) \/ p = Len(Stream) + 1 \/ p = Len(Stream) + 2
    <3>1. \A l \in Nat : \A p \in 1 .. l + 2 : p \in 1 .. l \/ p = l + 1 \/ p = l + 2
      OBVIOUS
    <3> QED
      BY <3>1, <1>types, Zenon
  <2>3. /\ DOMAIN Stream \subseteq DOMAIN Stream' /\ Len(Stream) + 1 \in DOMAIN Stream'
    BY <1>types, <2>1
  <2>4. Stream'[Len(Stream) + 1].msg = m /\ Stream'[Len(Stream) + 2].msg = m
    BY <1>6, <1>1
  <2>5. \A p \in DOMAIN Stream : Stream'[p] = Stream[p]
    BY <1>5, <2>1
  <2> QED
    BY <2>1, <2>2, <2>3, <2>4, <2>5, Zenon DEF Wired
<1> QED
  BY <1>1, <1>2, <1>4, <1>5, <1>6, <1>7

----------------------------------------------------------------------------
(* Whole messages.                                                         *)

\* The bytes of an unpacker that is in step begin with a whole message, or with its half.
LEMMA InStep ==
  ASSUME WireTypes, Paired(Stream)
  PROVE  /\ ~Broken
         /\ unpacker # <<>> => First \in Wired
<1>types. /\ unpacker \in Seq(Fragment) /\ Len(unpacker) \in Nat /\ Len(net) \in Nat
          /\ Stream \in Seq(Fragment) /\ Len(Stream) = Len(unpacker) + Len(net)
          /\ \A p \in 1 .. Len(unpacker) : Stream[p] = unpacker[p]
  BY StreamType, LenProperties DEF WireTypes
<1> SUFFICES ASSUME unpacker # <<>>
             PROVE  ~Broken /\ First \in Wired
  BY DEF Broken
<1>1. Len(unpacker) >= 1 /\ Stream # <<>>
  BY <1>types, EmptySeq
<1>2. Stream[1].half = 1 /\ unpacker[1] = Stream[1]
  BY <1>1, <1>types DEF Paired
<1>3. Len(unpacker) >= 2 => Whole
  <2> SUFFICES ASSUME Len(unpacker) >= 2
               PROVE  Whole
    OBVIOUS
  <2>1. 1 \in 1 .. Len(Stream) - 1 /\ unpacker[2] = Stream[2]
    BY <1>types
  <2>2. Stream[2] = [Stream[1] EXCEPT !.half = 2]
    <3>1. IF Stream[1].half = 1 THEN Stream[1 + 1] = [Stream[1] EXCEPT !.half = 2]
                              ELSE Stream[1 + 1].half = 1
      BY <2>1, Zenon DEF Paired
    <3> QED
      BY <3>1, <1>2
  <2> QED
    BY <2>1, <2>2, <1>2 DEF Whole
<1>4. ~Broken
  BY <1>2, <1>3 DEF Broken
<1>5. First \in Wired
  <2>1. 1 \in DOMAIN Stream
    BY <1>1, <1>types, LenProperties
  <2> QED
    BY <2>1, <1>2, Zenon DEF First, Wired
<1> QED
  BY <1>4, <1>5

\* A message is taken whole.
LEMMA PairedDrop ==
  ASSUME WireTypes, Paired(Stream), Whole, Drop(2), net' = net
  PROVE  Paired(Stream')
<1>types. /\ unpacker \in Seq(Fragment) /\ Len(unpacker) \in Nat /\ Len(unpacker) >= 2
          /\ Len(net) \in Nat
          /\ Stream \in Seq(Fragment) /\ Len(Stream) = Len(unpacker) + Len(net)
  BY StreamType, LenProperties DEF WireTypes, Whole
<1>1. /\ Stream' \in Seq(Fragment) /\ Len(Stream') = Len(Stream) - 2
      /\ \A p \in 1 .. Len(Stream') : Stream'[p] = Stream[p + 2]
  BY DropStream, <1>types
<1>2. ASSUME NEW p \in 1 .. Len(Stream') - 1
      PROVE  IF Stream'[p].half = 1 THEN Stream'[p + 1] = [Stream'[p] EXCEPT !.half = 2]
                                    ELSE Stream'[p + 1].half = 1
  <2>1. /\ p + 2 \in 1 .. Len(Stream) - 1 /\ p \in 1 .. Len(Stream') /\ p + 1 \in 1 .. Len(Stream')
        /\ (p + 1) + 2 = (p + 2) + 1
    BY <1>types, <1>1
  <2>2. Stream'[p] = Stream[p + 2] /\ Stream'[p + 1] = Stream[(p + 2) + 1]
    BY <1>1, <2>1
  <2> QED
    BY <2>1, <2>2 DEF Paired
<1>3. ASSUME Stream' # <<>>
      PROVE  Stream'[1].half = 1 /\ Stream'[Len(Stream')].half = 2
  <2>1. Len(Stream') >= 1
    BY <1>3, <1>1, <1>types, EmptySeq
  <2>2. /\ 1 \in 1 .. Len(Stream') /\ Len(Stream') \in 1 .. Len(Stream')
        /\ Len(Stream') + 2 = Len(Stream) /\ 1 \in 1 .. Len(Stream) - 1
        /\ 2 \in 1 .. Len(Stream) - 1 /\ Stream # <<>>
    BY <2>1, <1>1, <1>types, EmptySeq
  <2>3. Stream'[1] = Stream[3] /\ Stream'[Len(Stream')] = Stream[Len(Stream)]
    BY <2>2, <1>1
  <2>4. Stream[1].half = 1 /\ Stream[1] \in Fragment
    BY <2>2, <1>types, ElementOfSeq DEF Paired
  <2>5. Stream[2] = [Stream[1] EXCEPT !.half = 2]
    <3>1. IF Stream[1].half = 1 THEN Stream[1 + 1] = [Stream[1] EXCEPT !.half = 2]
                              ELSE Stream[1 + 1].half = 1
      BY <2>2, Zenon DEF Paired
    <3> QED
      BY <3>1, <2>4
  <2>6. Stream[2].half = 2
    BY <2>4, <2>5 DEF Fragment
  <2>7. Stream[3].half = 1
    <3>1. IF Stream[2].half = 1 THEN Stream[2 + 1] = [Stream[2] EXCEPT !.half = 2]
                              ELSE Stream[2 + 1].half = 1
      BY <2>2, Zenon DEF Paired
    <3> QED
      BY <3>1, <2>6
  <2> QED
    BY <2>2, <2>3, <2>7 DEF Paired
<1> QED
  BY <1>2, <1>3 DEF Paired

\* The peer sends whole messages.
LEMMA PairedPeer ==
  ASSUME WireTypes, Paired(Stream), NEW m \in Message, net' = net \o Fragments(m),
         unpacker' = unpacker
  PROVE  Paired(Stream')
<1>types. Stream \in Seq(Fragment) /\ Len(Stream) \in Nat
  BY StreamType, LenProperties
<1>1. /\ Stream' \in Seq(Fragment) /\ Len(Stream') = Len(Stream) + 2
      /\ \A p \in 1 .. Len(Stream) : Stream'[p] = Stream[p]
      /\ Stream'[Len(Stream) + 1] = [msg |-> m, half |-> 1]
      /\ Stream'[Len(Stream) + 2] = [msg |-> m, half |-> 2]
  BY PeerStream
<1>2. Stream'[1].half = 1 /\ Stream'[Len(Stream')].half = 2
  <2>1. CASE Stream = <<>>
    <3>1. Len(Stream) = 0
      BY <2>1, EmptySeq
    <3> QED
      BY <3>1, <1>1, <1>types
  <2>2. CASE Stream # <<>>
    <3>1. 1 \in 1 .. Len(Stream)
      BY <2>2, <1>types, EmptySeq
    <3> QED
      BY <2>2, <3>1, <1>1, <1>types DEF Paired
  <2> QED
    BY <2>1, <2>2
<1>3. ASSUME NEW p \in 1 .. Len(Stream') - 1
      PROVE  IF Stream'[p].half = 1 THEN Stream'[p + 1] = [Stream'[p] EXCEPT !.half = 2]
                                    ELSE Stream'[p + 1].half = 1
  <2>1. CASE p = Len(Stream) + 1
    <3>1. Stream'[p] = [msg |-> m, half |-> 1] /\ Stream'[p + 1] = [msg |-> m, half |-> 2]
      BY <2>1, <1>1, <1>types
    <3> QED
      BY <3>1
  <2>2. CASE p = Len(Stream)
    <3>1. p \in 1 .. Len(Stream) /\ Stream # <<>>
      BY <2>2, <1>types, EmptySeq
    <3>2. Stream'[p].half = 2 /\ Stream'[p + 1].half = 1
      BY <3>1, <2>2, <1>1, <1>types DEF Paired
    <3> QED
      BY <3>2
  <2>3. CASE p < Len(Stream)
    <3>1. p \in 1 .. Len(Stream) - 1 /\ p \in 1 .. Len(Stream) /\ p + 1 \in 1 .. Len(Stream)
      BY <2>3, <1>types
    <3>2. Stream'[p] = Stream[p] /\ Stream'[p + 1] = Stream[p + 1]
      BY <3>1, <1>1
    <3> QED
      BY <3>1, <3>2 DEF Paired
  <2> QED
    BY <2>1, <2>2, <2>3, <1>1, <1>types
<1> QED
  BY <1>2, <1>3 DEF Paired

----------------------------------------------------------------------------
(* Ids and the list of timers.                                             *)

\* In the list the search for an id ends at the one call that has it.
LEMMA MatchFound ==
  ASSUME CallInv, NEW i, Matches(i)
  PROVE  /\ FirstMatch(i) \in DOMAIN timers /\ IdOf(timers[FirstMatch(i)]) = i
         /\ timers[FirstMatch(i)] \in Sent
<1>1. PICK p \in DOMAIN timers : IdOf(timers[p]) = i
  BY DEF Matches
<1>2. \A q \in DOMAIN timers : timers[q] \in Calls /\ Open(timers[q])
  <2>1. \A q \in DOMAIN timers : timers[q] \in Calls
    BY LenProperties, ElementOfSeq DEF CallInv, ListInv
  <2> QED
    BY <2>1 DEF Open, Listed
<1>3. \A q \in DOMAIN timers : IdOf(timers[q]) = i => q = p
  BY <1>1, <1>2 DEF CallInv, DistinctIds, ListInv
<1>4. \A q \in 1 .. p - 1 : IdOf(timers[q]) # i
  <2>1. DOMAIN timers = 1 .. Len(timers) /\ Len(timers) \in Nat
    BY LenProperties DEF CallInv, ListInv
  <2>2. \A q \in 1 .. p - 1 : q \in DOMAIN timers /\ q # p
    BY <2>1
  <2> QED
    BY <2>2, <1>3
<1>5. FirstMatch(i) \in DOMAIN timers /\ IdOf(timers[FirstMatch(i)]) = i
  BY <1>1, <1>4, Zenon DEF FirstMatch
<1> QED
  BY <1>5, <1>2, Zenon DEF CallInv, SentInv

\* No search meets a deleted timer.
LEMMA SearchIsSafe == ASSUME CallInv, NEW i PROVE ~SearchCrashes(i)
BY DEF CallInv, ListInv, SearchCrashes

\* Deleting calls that were sent sends none.
LEMMA DeleteKeepsSent ==
  ASSUME WireTypes, NEW ks, ks \subseteq Sent, Delete(ks)
  PROVE  Sent' = Sent /\ armed' \subseteq armed
<1>1. \A k \in Calls : mem'[k] # "none" <=> mem[k] # "none"
  BY DEF Delete, Sent
<1> QED
  BY <1>1 DEF Sent, Delete

\* vector::erase
LEMMA EraseProperties ==
  ASSUME timers \in Seq(Calls), NEW p \in DOMAIN timers
  PROVE  /\ Erase(p) \in Seq(Calls)
         /\ \A q \in DOMAIN Erase(p) :
              (IF q < p THEN q ELSE q + 1) \in DOMAIN timers \ {p}
              /\ Erase(p)[q] = timers[IF q < p THEN q ELSE q + 1]
<1> DEFINE a == SubSeq(timers, 1, p - 1)
           b == SubSeq(timers, p + 1, Len(timers))
<1>types. /\ timers \in Seq(Calls) /\ Len(timers) \in Nat /\ p \in 1 .. Len(timers)
          /\ DOMAIN timers = 1 .. Len(timers) /\ \A i \in 1 .. Len(timers) : timers[i] \in Calls
  BY LenProperties, ElementOfSeq
<1>1. /\ a \in Seq(Calls) /\ Len(a) = p - 1 /\ \A q \in 1 .. p - 1 : a[q] = timers[q]
  BY <1>types, SubSeqProperties
<1>2. /\ b \in Seq(Calls) /\ Len(b) = Len(timers) - p
      /\ \A q \in 1 .. Len(timers) - p : b[q] = timers[q + p]
  BY <1>types, SubSeqProperties
<1> HIDE DEF a, b
<1>3. /\ a \o b \in Seq(Calls) /\ Len(a \o b) = Len(a) + Len(b)
      /\ \A q \in 1 .. Len(a) + Len(b) :
          (a \o b)[q] = IF q <= Len(a) THEN a[q] ELSE b[q - Len(a)]
  BY <1>1, <1>2, ConcatProperties, Zenon
<1>4. DOMAIN (a \o b) = 1 .. Len(timers) - 1
  <2>1. DOMAIN (a \o b) = 1 .. Len(a \o b)
    BY <1>3, LenProperties, Zenon
  <2> QED
    BY <2>1, <1>1, <1>2, <1>3, <1>types
<1>5. ASSUME NEW q \in 1 .. Len(timers) - 1
      PROVE  /\ (IF q < p THEN q ELSE q + 1) \in DOMAIN timers \ {p}
             /\ (a \o b)[q] = timers[IF q < p THEN q ELSE q + 1]
  <2>1. CASE q < p
    <3>1. q \in 1 .. p - 1 /\ q \in 1 .. Len(a) + Len(b) /\ q <= Len(a)
      BY <2>1, <1>1, <1>2, <1>types
    <3> QED
      BY <2>1, <3>1, <1>1, <1>3, <1>types
  <2>2. CASE ~(q < p)
    <3>1. /\ q \in 1 .. Len(a) + Len(b) /\ ~(q <= Len(a))
          /\ q - Len(a) \in 1 .. Len(timers) - p /\ (q - Len(a)) + p = q + 1
      BY <2>2, <1>1, <1>2, <1>types
    <3>2. (a \o b)[q] = timers[q + 1]
      BY <3>1, <1>2, <1>3
    <3> QED
      BY <2>2, <3>2, <1>types
  <2> QED
    BY <2>1, <2>2
<1> QED
  BY <1>3, <1>4, <1>5, Zenon DEF Erase, a, b

\* A call is taken out of the list and deleted.
LEMMA EraseKeepsList ==
  ASSUME WireTypes, CallInv, NEW p \in DOMAIN timers, timers' = Erase(p), Delete({timers[p]})
  PROVE  /\ ListInv' /\ Sent' = Sent /\ armed' \subseteq armed
         /\ \A k \in Calls : Listed(k)' => Listed(k)
         /\ \A k \in Calls : mem'[k] # mem[k] => k = timers[p]
<1>1. timers[p] \in Sent
  <2>1. timers[p] \in Calls
    BY LenProperties, ElementOfSeq DEF CallInv, ListInv
  <2> QED
    BY <2>1, Zenon DEF CallInv, SentInv, Open, Listed
<1>2. Sent' = Sent /\ armed' \subseteq armed
  BY <1>1, DeleteKeepsSent
<1> DEFINE at(q) == IF q < p THEN q ELSE q + 1
<1>3. /\ timers' \in Seq(Calls)
      /\ \A q \in DOMAIN timers' : at(q) \in DOMAIN timers \ {p} /\ timers'[q] = timers[at(q)]
  BY EraseProperties DEF CallInv, ListInv
<1>4. \A q, r \in DOMAIN timers' : at(q) = at(r) => q = r
  <2>1. p \in Int /\ DOMAIN timers' \subseteq Int
    BY <1>3, LenProperties DEF CallInv, ListInv
  <2> QED
    BY <2>1
<1> HIDE DEF at
<1>5. \A q, r \in DOMAIN timers' : timers'[q] = timers'[r] => q = r
  BY <1>3, <1>4 DEF CallInv, ListInv
<1>6. \A q \in DOMAIN timers' : mem'[timers'[q]] = "live"
  <2> SUFFICES ASSUME NEW q \in DOMAIN timers'
               PROVE  mem'[timers'[q]] = "live"
    OBVIOUS
  <2>1. at(q) \in DOMAIN timers /\ at(q) # p /\ timers'[q] = timers[at(q)]
    BY <1>3
  <2>2. timers[at(q)] # timers[p] /\ mem[timers[at(q)]] = "live"
    BY <2>1 DEF CallInv, ListInv
  <2>3. timers[at(q)] \in Calls
    BY <2>1, LenProperties, ElementOfSeq DEF CallInv, ListInv
  <2> QED
    BY <2>1, <2>2, <2>3 DEF Delete
<1>7. \A k \in Calls : mem'[k] # mem[k] => k = timers[p]
  BY DEF Delete
<1> QED
  BY <1>2, <1>3, <1>5, <1>6, <1>7 DEF ListInv, Listed

\* Calls keep their ids; what was open may be finished, and what is on the wire now was so
\* before or is the response of an open call.
LEMMA IdsKept ==
  ASSUME CallInv, UNCHANGED callVars, Sent' = Sent,
         \A k \in Calls : Open(k)' => Open(k),
         \A m \in Wired' : m.kind = "response" =>
             m \in Wired \/ (m.call \in Calls /\ m.id = IdOf(m.call))
  PROVE  SentInv' /\ ResponseInv' /\ DistinctIds'
<1>1. \A k : IdOf(k)' = IdOf(k)
  BY DEF IdOf, callVars
<1>2. SentInv'
  BY DEF CallInv, SentInv, callVars
<1>3. ResponseInv'
  BY <1>1 DEF CallInv, ResponseInv
<1>4. DistinctIds'
  BY <1>1 DEF CallInv, DistinctIds
<1> QED
  BY <1>2, <1>3, <1>4

\* Nothing happens to the calls; messages that are no responses may come and go.
LEMMA CallsKept ==
  ASSUME CallInv, UNCHANGED <<callVars, timerVars>>, toPeer' \subseteq toPeer,
         \A m \in Wired' : m.kind = "response" => m \in Wired
  PROVE  CallInv'
<1>1. Sent' = Sent /\ \A k : Listed(k)' = Listed(k)
  BY DEF Sent, Listed, timerVars
<1>2. \A k : OnWire(k)' => OnWire(k)
  BY DEF OnWire
<1>3. \A k \in Calls : Open(k)' => Open(k)
  BY <1>1, <1>2 DEF Open, BeingSent, timerVars, callVars
<1>4. ListInv'
  BY DEF CallInv, ListInv, timerVars
<1>5. SendingInv'
  BY <1>1 DEF CallInv, SendingInv, timerVars, callVars
<1> QED
  BY <1>1, <1>3, <1>4, <1>5, IdsKept DEF CallInv

\* The timers change, and calls may be finished by it.
LEMMA TimersKept ==
  ASSUME WireTypes, CallInv, UNCHANGED callVars, ListInv', Sent' = Sent, armed' \subseteq armed,
         \A k \in Calls : Listed(k)' => Listed(k), toPeer' \subseteq toPeer, Wired' \subseteq Wired,
         \A k \in Calls : mem'[k] # mem[k] => Listed(k) \/ k \in armed
  PROVE  CallInv'
<1>1. \A k : OnWire(k)' => OnWire(k)
  BY DEF OnWire
<1>2. \A k \in Calls : Open(k)' => Open(k)
  BY <1>1 DEF Open, BeingSent, callVars
<1>3. SendingInv'
  <2>1. sending' = sending /\ current' = current
    BY DEF callVars
  <2>2. SUFFICES ASSUME sending # "none"
                 PROVE  SendingInv'
    BY <2>1 DEF SendingInv
  <2>3. current \in Calls /\ current \notin armed
    BY <2>2 DEF WireTypes, CallInv, SendingInv
  <2>4. sending = "push" => ~Listed(current) /\ mem[current] = "live"
    BY <2>2 DEF CallInv, SendingInv
  <2>5. Listed(current)' = (\E p \in DOMAIN timers' : timers'[p] = current)
    BY <2>1 DEF Listed
  <2>6. sending = "push" => ~Listed(current)' /\ mem'[current] = "live"
    BY <2>1, <2>3, <2>4, <2>5 DEF Listed
  <2> QED
    BY <2>1, <2>3, <2>6 DEF SendingInv
<1> QED
  BY <1>2, <1>3, IdsKept DEF CallInv

\* Type correctness of a deletion, and of what a response does.
LEMMA DeleteTypes ==
  ASSUME WireTypes, NEW ks, Delete(ks)
  PROVE  mem' \in [Calls -> {"none", "live", "freed"}] /\ armed' \subseteq Calls
BY DEF WireTypes, Delete

LEMMA RespondTypes ==
  ASSUME WireTypes, NEW i, NEW from \in Int, Respond(i, from)
  PROVE  /\ mem' \in [Calls -> {"none", "live", "freed"}] /\ armed' \subseteq Calls
         /\ answers' \in [Calls -> SUBSET Int]
<1>1. CASE UNCHANGED <<mem, armed, answers>>
  BY <1>1 DEF WireTypes
<1>2. CASE /\ answers' = [answers EXCEPT ![timers[FirstMatch(i)]] = @ \cup {from}]
           /\ Delete({timers[FirstMatch(i)]})
  <2>1. answers' \in [Calls -> SUBSET Int]
    BY <1>2 DEF WireTypes
  <2> QED
    BY <1>2, <2>1, DeleteTypes
<1> QED
  BY <1>1, <1>2 DEF Respond, Crash

\* A response is for the open call that has its id, if any.
LEMMA RespondKeeps ==
  ASSUME WireTypes, CallInv, NEW i, NEW from, Respond(i, from)
  PROVE  /\ ListInv' /\ Sent' = Sent /\ armed' \subseteq armed
         /\ \A k \in Calls : Listed(k)' => Listed(k)
         /\ \A k \in Calls : answers'[k] # answers[k] =>
               Open(k) /\ IdOf(k) = i /\ answers'[k] = answers[k] \cup {from}
         /\ \A k \in Calls : mem'[k] # mem[k] => Listed(k) /\ IdOf(k) = i
         /\ crashed' = crashed
<1>1. CASE ~Matches(i)
  <2>1. UNCHANGED <<mem, armed, timers, crashed, answers>>
    BY <1>1, SearchIsSafe DEF Respond
  <2> QED
    BY <2>1 DEF CallInv, ListInv, Sent, Listed
<1>2. CASE Matches(i)
  <2> DEFINE p == FirstMatch(i)
  <2>1. /\ answers' = [answers EXCEPT ![timers[p]] = @ \cup {from}]
        /\ Delete({timers[p]}) /\ timers' = Erase(p) /\ crashed' = crashed
    BY <1>2, SearchIsSafe DEF Respond
  <2>2. p \in DOMAIN timers /\ IdOf(timers[p]) = i
    BY <1>2, MatchFound
  <2> HIDE DEF p
  <2>3. /\ ListInv' /\ Sent' = Sent /\ armed' \subseteq armed
        /\ \A k \in Calls : Listed(k)' => Listed(k)
        /\ \A k \in Calls : mem'[k] # mem[k] => k = timers[p]
    BY <2>1, <2>2, EraseKeepsList
  <2>4. ASSUME NEW k \in Calls, answers'[k] # answers[k]
        PROVE  k = timers[p] /\ answers'[k] = answers[k] \cup {from}
    BY <2>1, <2>4 DEF WireTypes
  <2>5. Open(timers[p]) /\ Listed(timers[p])
    BY <2>2 DEF Open, Listed
  <2> QED
    BY <2>1, <2>2, <2>3, <2>4, <2>5
<1> QED
  BY <1>1, <1>2

\* The connection and the stream are left alone.
LEMMA StreamKept ==
  ASSUME StreamInv, Stream' = Stream, conn' = conn, state' = "down" => state = "down"
  PROVE  StreamInv'
BY DEF StreamInv, Wired

\* Nobody is given anything.
LEMMA HistoryKept ==
  ASSUME AnswersItsCall, DeliversWhole, clash => clash', torn => torn',
         answers' = answers, strange' = strange
  PROVE  AnswersItsCall' /\ DeliversWhole'
BY DEF AnswersItsCall, DeliversWhole

----------------------------------------------------------------------------
(* Wire: the steps.                                                        *)

\* The invariant holds of a new socket.
LEMMA WireInitInv == WireInit => WireInv
<1> SUFFICES ASSUME WireInit
             PROVE  WireInv
  OBVIOUS
<1> USE WireAssumption DEF WireInit
<1>1. WireTypes
  BY DEF WireTypes, NoId, NoRequest
<1>2. Stream = <<>> /\ Wired = {}
  <2>1. Stream = <<>>
    BY DEF Stream
  <2> QED
    BY <2>1 DEF Wired
<1>3. StreamInv
  BY <1>2 DEF StreamInv, Paired
<1>4. CallInv
  <2>1. Sent = {} /\ Sent = 1 .. 0
    BY DEF Sent
  <2>2. \A k \in Calls : ~Open(k)
    BY <1>2 DEF Open, Listed, OnWire, BeingSent
  <2>3. SentInv /\ ResponseInv /\ DistinctIds /\ SendingInv
    BY <2>1, <2>2, <1>2 DEF SentInv, ResponseInv, DistinctIds, SendingInv
  <2>4. ListInv
    BY DEF ListInv
  <2> QED
    BY <2>3, <2>4 DEF CallInv
<1> QED
  BY <1>1, <1>3, <1>4 DEF WireInv, AnswersItsCall, DeliversWhole

\* Request::Request
LEMMA ConstructInv == ASSUME WireInv, NEW r \in Requests, Construct(r) PROVE WireInv'
<1>types. /\ WireTypes /\ (~clash => CallInv) /\ (~torn => StreamInv)
          /\ AnswersItsCall /\ DeliversWhole
  BY DEF WireInv
<1> USE <1>types
<1>1. WireTypes'
  <2>1. id' \in Int
    BY WireAssumption DEF Construct, GetId, WireTypes
  <2> QED
    BY <2>1 DEF Construct, WireTypes, timerVars, connVars, peerVars, readVars, historyVars
<1>2. /\ Stream' = Stream /\ Wired' = Wired
      /\ UNCHANGED <<request, sending, current, mem, armed, timers, crashed, toPeer>>
  BY DEF Construct, Stream, Wired, peerVars, readVars, timerVars
<1>3. ASSUME CallInv PROVE CallInv'
  <2>1. Sent' = Sent /\ \A k : Open(k)' = Open(k)
    BY <1>2 DEF Sent, Open, Listed, OnWire, BeingSent
  <2>2. \A k \in Sent : IdOf(k)' = IdOf(k) /\ msgid'[request[k]] # NoId
    BY <1>2, <1>3 DEF CallInv, SentInv, Construct, IdOf, WireTypes
  <2>3. \A k \in Calls : Open(k) => k \in Sent
    BY <1>3 DEF CallInv, SentInv
  <2>4. SentInv'
    BY <1>2, <1>3, <2>1, <2>2 DEF CallInv, SentInv
  <2>5. ResponseInv'
    <3>1. ASSUME NEW m \in Wired, m.kind = "response"
          PROVE  m.call \in Calls /\ m.id = IdOf(m.call) /\ m.call \in Sent
      BY <3>1, <1>3, <2>3 DEF CallInv, ResponseInv, Open, OnWire
    <3> QED
      BY <3>1, <1>2, <2>2 DEF ResponseInv
  <2>6. DistinctIds'
    BY <1>3, <2>1, <2>2, <2>3 DEF CallInv, DistinctIds
  <2>7. ListInv' /\ SendingInv'
    BY <1>2, <1>3 DEF CallInv, ListInv, SendingInv, Listed
  <2> QED
    BY <2>4, <2>5, <2>6, <2>7 DEF CallInv
<1>4. ASSUME StreamInv PROVE StreamInv'
  BY <1>2, <1>4, StreamKept DEF Construct, connVars
<1>5. AnswersItsCall' /\ DeliversWhole' /\ clash' = clash /\ torn' = torn
  BY HistoryKept DEF Construct, historyVars
<1> QED
  BY <1>1, <1>3, <1>4, <1>5 DEF WireInv

\* Request::Send: the new call is the only open one with its id, unless that clashes.
LEMMA SendInv ==
  ASSUME WireInv, NEW r \in Requests, Send(r) PROVE WireInv'
<1>types. /\ WireTypes /\ (~clash => CallInv) /\ (~torn => StreamInv)
          /\ AnswersItsCall /\ DeliversWhole
  BY DEF WireInv
<1> USE <1>types
<1>1. PICK k \in Calls :
      /\ k = Cardinality(Sent) + 1
      /\ state = "up" /\ msgid[r] # NoId
      /\ request' = [request EXCEPT ![k] = r]
      /\ mem' = [mem EXCEPT ![k] = "live"]
      /\ toPeer' = toPeer \cup {k}
      /\ sending = "none" /\ sending' = "push" /\ current' = k
      /\ clash' = (clash \/ Unfinished(msgid[r]))
      /\ UNCHANGED <<id, msgid, armed, timers, crashed, connVars, net, others, readVars, torn,
                     strange, answers, reports>>
  BY DEF Send, Sent, StateMutexFree
<1>2. SentInv => k \notin Sent /\ Sent \cup {k} = 1 .. k /\ k \in Nat
  <2> SUFFICES ASSUME SentInv
               PROVE  k \notin Sent /\ Sent \cup {k} = 1 .. k /\ k \in Nat
    OBVIOUS
  <2>1. PICK n \in Nat : Sent = 1 .. n
    BY DEF SentInv
  <2>2. Cardinality(Sent) = n
    BY <2>1, FS_Interval
  <2> QED
    BY <1>1, <2>1, <2>2
<1>3. WireTypes'
  BY <1>1 DEF WireTypes, connVars, readVars
<1>4. Stream' = Stream /\ Wired' = Wired
  BY <1>1 DEF Stream, Wired, readVars
<1>5. ASSUME ~clash' PROVE CallInv'
  <2>1. CallInv /\ ~Unfinished(msgid[r])
    BY <1>1, <1>5
  <2>2. SentInv /\ ResponseInv /\ DistinctIds /\ ListInv
    BY <2>1 DEF CallInv
  <2>3. k \notin Sent /\ Sent \cup {k} = 1 .. k /\ k \in Nat
    BY <2>2, <1>2
  <2>4. Sent' = Sent \cup {k}
    <3>1. \A j \in Calls : mem'[j] # "none" <=> j = k \/ mem[j] # "none"
      BY <1>1 DEF WireTypes
    <3> QED
      BY <3>1, <1>1 DEF Sent
  <2>5. \A j \in Calls : j # k => IdOf(j)' = IdOf(j) /\ request'[j] = request[j]
    BY <1>1 DEF WireTypes, IdOf
  <2>6. IdOf(k)' = msgid[r] /\ request'[k] = r /\ msgid' = msgid
    BY <1>1 DEF WireTypes, IdOf
  <2>7. \A j \in Calls : Open(j)' => Open(j) \/ j = k
    BY <1>1, <1>4 DEF Open, OnWire, BeingSent, Listed
  <2>8. \A j \in Calls : Open(j) => j \in Sent /\ j # k /\ IdOf(j) # msgid[r]
    <3> SUFFICES ASSUME NEW j \in Calls, Open(j)
                 PROVE  j \in Sent /\ j # k /\ IdOf(j) # msgid[r]
      OBVIOUS
    <3>1. j \in Sent /\ j # k
      BY <2>2, <2>3 DEF SentInv
    <3>2. CASE Listed(j)
      BY <3>1, <3>2, <2>1 DEF Listed, Unfinished, Matches
    <3>3. CASE j \in toPeer \cup armed
      BY <3>1, <3>3, <2>1 DEF Unfinished
    <3>4. CASE OnWire(j)
      <4>1. PICK m \in Wired : m.kind = "response" /\ m.call = j
        BY <3>4 DEF OnWire
      <4>2. m.id = IdOf(j)
        BY <4>1, <2>2 DEF ResponseInv
      <4>3. \E p \in DOMAIN (unpacker \o net) : (unpacker \o net)[p].msg = m
        BY <4>1, Zenon DEF Wired, Stream
      <4> QED
        BY <3>1, <4>2, <4>3, <2>1, Zenon DEF Unfinished
    <3> QED
      BY <3>2, <3>3, <3>4, <1>1 DEF Open, BeingSent
  <2>9. SentInv'
    <3>1. \E n \in Nat : Sent' = 1 .. n
      BY <2>3, <2>4
    <3>2. \A j \in Sent' : request'[j] \in Requests /\ msgid'[request'[j]] # NoId
      BY <1>1, <2>2, <2>4, <2>5, <2>6 DEF SentInv, Sent
    <3>3. \A j \in Calls : Open(j)' => j \in Sent'
      BY <2>4, <2>7, <2>8
    <3> QED
      BY <3>1, <3>2, <3>3 DEF SentInv
  <2>10. ResponseInv'
    <3>1. ASSUME NEW m \in Wired, m.kind = "response"
          PROVE  m.call \in Calls /\ m.id = IdOf(m.call) /\ m.call # k
      <4>1. m.call \in Calls /\ m.id = IdOf(m.call)
        BY <3>1, <2>2 DEF ResponseInv
      <4>2. Open(m.call)
        BY <3>1 DEF Open, OnWire
      <4> QED
        BY <4>1, <4>2, <2>8
    <3> QED
      BY <3>1, <2>5, <1>4 DEF ResponseInv
  <2>11. DistinctIds'
    <3> SUFFICES ASSUME NEW i \in Calls, NEW j \in Calls, Open(i)', Open(j)', IdOf(i)' = IdOf(j)'
                 PROVE  i = j
      BY DEF DistinctIds
    <3>1. CASE i = k \/ j = k
      BY <3>1, <2>5, <2>6, <2>7, <2>8
    <3>2. CASE i # k /\ j # k
      BY <3>2, <2>2, <2>5, <2>7 DEF DistinctIds
    <3> QED
      BY <3>1, <3>2
  <2>12. ListInv'
    <3>1. \A q \in DOMAIN timers : timers[q] \in Calls /\ timers[q] # k /\ mem[timers[q]] = "live"
      <4>1. \A q \in DOMAIN timers : timers[q] \in Calls /\ mem[timers[q]] = "live"
        BY <2>2, LenProperties, ElementOfSeq DEF ListInv
      <4>2. \A q \in DOMAIN timers : Open(timers[q])
        BY Zenon DEF Open, Listed
      <4> QED
        BY <4>1, <4>2, <2>8
    <3>2. mem'[k] = "live" /\ \A j \in Calls : j # k => mem'[j] = mem[j]
      BY <1>1 DEF WireTypes
    <3> QED
      BY <3>1, <3>2, <1>1, <2>2 DEF ListInv
  <2>13. SendingInv'
    <3>1. k \notin armed /\ ~Listed(k)
      BY <2>8 DEF Open
    <3>2. mem'[k] = "live"
      BY <1>1 DEF WireTypes
    <3> QED
      BY <3>1, <3>2, <1>1 DEF SendingInv, Listed
  <2> QED
    BY <2>9, <2>10, <2>11, <2>12, <2>13 DEF CallInv
<1>6. ASSUME StreamInv PROVE StreamInv'
  BY <1>1, <1>4, <1>6, StreamKept DEF connVars
<1>7. AnswersItsCall' /\ DeliversWhole' /\ torn' = torn
  BY <1>1, HistoryKept
<1> QED
  BY <1>3, <1>5, <1>6, <1>7 DEF WireInv

\* The timer of the call is put into the list.
LEMMA PushTimerInv == ASSUME WireInv, PushTimer PROVE WireInv'
<1>types. /\ WireTypes /\ (~clash => CallInv) /\ (~torn => StreamInv)
          /\ AnswersItsCall /\ DeliversWhole
  BY DEF WireInv
<1> USE <1>types
<1>1. /\ sending = "push" /\ sending' = "start" /\ timers' = Append(timers, current)
      /\ current \in Calls
      /\ UNCHANGED <<id, msgid, request, current, mem, armed, toPeer, net, unpacker, conn, state,
                     clash, torn, strange, answers>>
  BY DEF PushTimer, WireTypes, connVars, peerVars, readVars, historyVars
<1>2. WireTypes'
  BY <1>1 DEF WireTypes
<1>3. Stream' = Stream /\ Wired' = Wired
  BY <1>1 DEF Stream, Wired
<1>4. ASSUME CallInv PROVE CallInv'
  <2>1. SentInv /\ ResponseInv /\ DistinctIds /\ ListInv /\ SendingInv
    BY <1>4 DEF CallInv
  <2>2. current \notin armed /\ ~Listed(current) /\ mem[current] = "live"
    BY <1>1, <2>1 DEF SendingInv
  <2>3. /\ timers' \in Seq(Calls) /\ DOMAIN timers' = 1 .. Len(timers) + 1
        /\ DOMAIN timers = 1 .. Len(timers) /\ Len(timers) \in Nat
        /\ \A q \in DOMAIN timers : timers'[q] = timers[q]
        /\ timers'[Len(timers) + 1] = current
    <3>1. timers \in Seq(Calls) /\ DOMAIN timers = 1 .. Len(timers) /\ Len(timers) \in Nat
      BY <2>1, LenProperties DEF ListInv
    <3> QED
      BY <3>1, <1>1, AppendProperties, LenProperties
  <2>4. \A q \in DOMAIN timers' : q \in DOMAIN timers \/ q = Len(timers) + 1
    <3>1. \A l \in Nat : \A q \in 1 .. l + 1 : q \in 1 .. l \/ q = l + 1
      OBVIOUS
    <3> QED
      BY <3>1, <2>3, Zenon
  <2>5. \A j \in Calls : Open(j)' => Open(j)
    <3>1. \A j : Listed(j)' => Listed(j) \/ j = current
      BY <2>3, <2>4, Zenon DEF Listed
    <3> QED
      BY <3>1, <1>1, <1>3 DEF Open, OnWire, BeingSent
  <2>6. Sent' = Sent /\ \A j : IdOf(j)' = IdOf(j)
    BY <1>1 DEF Sent, IdOf
  <2>7. SentInv' /\ ResponseInv' /\ DistinctIds'
    BY <1>1, <1>3, <2>1, <2>5, <2>6 DEF SentInv, ResponseInv, DistinctIds
  <2>8. ListInv'
    <3>1. \A q \in DOMAIN timers : timers[q] # current /\ mem[timers[q]] = "live"
      BY <2>1, <2>2 DEF ListInv, Listed
    <3>2. \A q \in DOMAIN timers' : mem'[timers'[q]] = "live"
      BY <3>1, <1>1, <2>2, <2>3, <2>4
    <3>3. \A p, q \in DOMAIN timers' : timers'[p] = timers'[q] => p = q
      <4>1. \A p, q \in DOMAIN timers : timers[p] = timers[q] => p = q
        BY <2>1 DEF ListInv
      <4> QED
        BY <4>1, <3>1, <2>3, <2>4, Zenon
    <3> QED
      BY <3>2, <3>3, <2>3 DEF ListInv
  <2>9. SendingInv'
    BY <1>1, <2>2 DEF SendingInv
  <2> QED
    BY <2>7, <2>8, <2>9 DEF CallInv
<1>5. ASSUME StreamInv PROVE StreamInv'
  BY <1>1, <1>3, <1>5, StreamKept
<1>6. AnswersItsCall' /\ DeliversWhole'
  BY <1>1, HistoryKept
<1> QED
  BY <1>1, <1>2, <1>4, <1>5, <1>6 DEF WireInv

\* Send() starts the timer and returns.
LEMMA StartTimerInv == ASSUME WireInv, NEW started \in BOOLEAN, StartTimer(started) PROVE WireInv'
<1>types. /\ WireTypes /\ (~clash => CallInv) /\ (~torn => StreamInv)
          /\ AnswersItsCall /\ DeliversWhole
  BY DEF WireInv
<1> USE <1>types
<1>1. /\ sending = "start" /\ sending' = "none" /\ current \in Calls
      /\ armed' \subseteq armed \cup {current}
      /\ UNCHANGED <<id, msgid, request, mem, timers, toPeer, net, unpacker, conn, state,
                     clash, torn, strange, answers>>
  BY DEF StartTimer, WireTypes, connVars, peerVars, readVars, historyVars
<1>2. WireTypes'
  BY <1>1 DEF WireTypes
<1>3. Stream' = Stream /\ Wired' = Wired
  BY <1>1 DEF Stream, Wired
<1>4. ASSUME CallInv PROVE CallInv'
  <2>1. \A j : Open(j)' => Open(j)
    BY <1>1, <1>3 DEF Open, OnWire, BeingSent, Listed
  <2>2. Sent' = Sent /\ \A j : IdOf(j)' = IdOf(j)
    BY <1>1 DEF Sent, IdOf
  <2>3. SentInv' /\ ResponseInv' /\ DistinctIds'
    BY <1>1, <1>3, <1>4, <2>1, <2>2 DEF CallInv, SentInv, ResponseInv, DistinctIds
  <2>4. ListInv' /\ SendingInv'
    BY <1>1, <1>4 DEF CallInv, ListInv, SendingInv
  <2> QED
    BY <2>3, <2>4 DEF CallInv
<1>5. ASSUME StreamInv PROVE StreamInv'
  BY <1>1, <1>3, <1>5, StreamKept
<1>6. AnswersItsCall' /\ DeliversWhole'
  BY <1>1, HistoryKept
<1> QED
  BY <1>1, <1>2, <1>4, <1>5, <1>6 DEF WireInv

\* A connection begins with an empty stream.
LEMMA ConnectWireInv == ASSUME WireInv, Connect PROVE WireInv'
<1>types. /\ WireTypes /\ (~clash => CallInv) /\ (~torn => StreamInv)
          /\ AnswersItsCall /\ DeliversWhole
  BY DEF WireInv
<1> USE <1>types
<1>1. Stream' = Stream /\ Wired' = Wired
  BY DEF Connect, Stream, Wired, peerVars, readVars
<1>2. WireTypes'
  BY DEF Connect, WireTypes, callVars, timerVars, peerVars, readVars, historyVars
<1>3. ASSUME CallInv PROVE CallInv'
  BY <1>1, <1>3, CallsKept DEF Connect, peerVars
<1>4. ASSUME StreamInv PROVE StreamInv'
  <2>1. Stream = <<>>
    BY <1>4 DEF Connect, StreamInv
  <2>2. Wired = {}
    BY <2>1 DEF Wired
  <2> QED
    BY <2>1, <2>2, <1>1, <1>4 DEF StreamInv
<1>5. AnswersItsCall' /\ DeliversWhole' /\ clash' = clash /\ torn' = torn
  BY HistoryKept DEF Connect, historyVars
<1> QED
  BY <1>2, <1>3, <1>4, <1>5 DEF WireInv

\* A connection is told to end.
LEMMA DisconnectWireInv == ASSUME WireInv, Disconnect PROVE WireInv'
<1>types. /\ WireTypes /\ (~clash => CallInv) /\ (~torn => StreamInv)
          /\ AnswersItsCall /\ DeliversWhole
  BY DEF WireInv
<1> USE <1>types
<1>1. Stream' = Stream /\ Wired' = Wired
  BY DEF Disconnect, Stream, Wired, peerVars, readVars
<1>2. WireTypes'
  BY DEF Disconnect, WireTypes, callVars, timerVars, peerVars, readVars, historyVars
<1>3. ASSUME CallInv PROVE CallInv'
  BY <1>1, <1>3, CallsKept DEF Disconnect, peerVars
<1>4. ASSUME StreamInv PROVE StreamInv'
  BY <1>1, <1>4, StreamKept DEF Disconnect
<1>5. AnswersItsCall' /\ DeliversWhole' /\ clash' = clash /\ torn' = torn
  BY HistoryKept DEF Disconnect, historyVars
<1> QED
  BY <1>2, <1>3, <1>4, <1>5 DEF WireInv

\* The peer answers a call.
LEMMA PeerAnswersInv == ASSUME WireInv, NEW k \in Calls, PeerAnswers(k) PROVE WireInv'
<1>types. /\ WireTypes /\ (~clash => CallInv) /\ (~torn => StreamInv)
          /\ AnswersItsCall /\ DeliversWhole
  BY DEF WireInv
<1> USE <1>types
<1> DEFINE m == [kind |-> "response", id |-> IdOf(k), call |-> k, conn |-> conn]
<1>1. m \in Message
  BY DEF PeerAnswers, IdOf, WireTypes, Message
<1>2. PICK a \in Message : a = m
  BY <1>1
<1>3. a.kind = "response" /\ a.id = IdOf(k) /\ a.call = k /\ a.conn = conn
  BY <1>2
<1>4. /\ state = "up" /\ k \in toPeer /\ toPeer' = toPeer \ {k} /\ net' = net \o Fragments(a)
      /\ unpacker' = unpacker
      /\ UNCHANGED <<callVars, timerVars, connVars, historyVars>>
  BY <1>2 DEF PeerAnswers, readVars
<1> HIDE DEF m
<1>5. net' \in Seq(Fragment) /\ Wired' = Wired \cup {a}
  BY <1>4, PeerStream
<1>6. WireTypes'
  BY <1>4, <1>5 DEF WireTypes, callVars, timerVars, connVars, historyVars
<1>7. ASSUME CallInv PROVE CallInv'
  <2>1. Sent' = Sent /\ \A j : Listed(j)' = Listed(j)
    BY <1>4 DEF Sent, Listed, timerVars
  <2>2. \A j : OnWire(j)' => OnWire(j) \/ j = k
    BY <1>3, <1>5 DEF OnWire
  <2>3. \A j \in Calls : Open(j)' => Open(j)
    BY <1>4, <2>1, <2>2 DEF Open, BeingSent, timerVars, callVars
  <2>4. ListInv' /\ SendingInv'
    BY <1>4, <1>7, <2>1 DEF CallInv, ListInv, SendingInv, timerVars, callVars
  <2>5. \A b \in Wired' : b.kind = "response" =>
            b \in Wired \/ (b.call \in Calls /\ b.id = IdOf(b.call))
    BY <1>3, <1>5
  <2>6. UNCHANGED callVars
    BY <1>4
  <2> QED
    BY <1>7, <2>1, <2>3, <2>4, <2>5, <2>6, IdsKept DEF CallInv
<1>8. ASSUME StreamInv PROVE StreamInv'
  <2>1. Paired(Stream')
    BY <1>4, <1>8, PairedPeer DEF StreamInv
  <2>2. \A b \in Wired' : b.conn = conn'
    BY <1>3, <1>4, <1>5, <1>8 DEF StreamInv, connVars
  <2>3. state' # "down"
    BY <1>4 DEF connVars
  <2> QED
    BY <2>1, <2>2, <2>3 DEF StreamInv
<1>9. AnswersItsCall' /\ DeliversWhole' /\ clash' = clash /\ torn' = torn
  BY <1>4, HistoryKept DEF historyVars
<1> QED
  BY <1>6, <1>7, <1>8, <1>9 DEF WireInv

\* The peer sends something else.
LEMMA PeerSendsInv ==
  ASSUME WireInv, NEW kind \in {"notify", "invalid", "big"}, PeerSends(kind) PROVE WireInv'
<1>types. /\ WireTypes /\ (~clash => CallInv) /\ (~torn => StreamInv)
          /\ AnswersItsCall /\ DeliversWhole
  BY DEF WireInv
<1> USE <1>types
<1> DEFINE m == [kind |-> kind, id |-> NoId, call |-> NoCall, conn |-> conn]
<1>1. m \in Message
  BY DEF WireTypes, Message, NoId
<1>2. PICK a \in Message : a = m
  BY <1>1
<1>3. a.kind # "response" /\ a.conn = conn
  BY <1>2
<1>4. /\ state = "up" /\ net' = net \o Fragments(a) /\ unpacker' = unpacker
      /\ UNCHANGED <<callVars, timerVars, connVars, toPeer, historyVars>>
  BY <1>2 DEF PeerSends, readVars
<1> HIDE DEF m
<1>5. net' \in Seq(Fragment) /\ Wired' = Wired \cup {a}
  BY <1>4, PeerStream
<1>6. WireTypes'
  BY <1>4, <1>5 DEF WireTypes, callVars, timerVars, connVars, historyVars
<1>7. ASSUME CallInv PROVE CallInv'
  BY <1>3, <1>4, <1>5, <1>7, CallsKept
<1>8. ASSUME StreamInv PROVE StreamInv'
  <2>1. Paired(Stream')
    BY <1>4, <1>8, PairedPeer DEF StreamInv
  <2>2. \A b \in Wired' : b.conn = conn'
    BY <1>3, <1>4, <1>5, <1>8 DEF StreamInv, connVars
  <2>3. state' # "down"
    BY <1>4 DEF connVars
  <2> QED
    BY <2>1, <2>2, <2>3 DEF StreamInv
<1>9. AnswersItsCall' /\ DeliversWhole' /\ clash' = clash /\ torn' = torn
  BY <1>4, HistoryKept DEF historyVars
<1> QED
  BY <1>6, <1>7, <1>8, <1>9 DEF WireInv

\* Fragments come in.
LEMMA OnReadInv == ASSUME WireInv, NEW n \in 1 .. Len(net), OnRead(n) PROVE WireInv'
<1>types. /\ WireTypes /\ (~clash => CallInv) /\ (~torn => StreamInv)
          /\ AnswersItsCall /\ DeliversWhole
  BY DEF WireInv
<1> USE <1>types
<1>1. /\ unpacker' \in Seq(Fragment) /\ net' \in Seq(Fragment)
      /\ Stream' = Stream /\ Wired' = Wired
  BY ReadStream
<1>2. WireTypes'
  BY <1>1 DEF OnRead, WireTypes, callVars, timerVars, connVars, historyVars
<1>3. ASSUME CallInv PROVE CallInv'
  BY <1>1, <1>3, CallsKept DEF OnRead
<1>4. ASSUME StreamInv PROVE StreamInv'
  BY <1>1, <1>4, StreamKept DEF OnRead, connVars
<1>5. AnswersItsCall' /\ DeliversWhole' /\ clash' = clash /\ torn' = torn
  BY HistoryKept DEF OnRead, historyVars
<1> QED
  BY <1>2, <1>3, <1>4, <1>5 DEF WireInv

\* A whole message is taken, and the connection goes on or is about to end.
LEMMA TakenKept ==
  ASSUME WireTypes, StreamInv, Whole, Drop(2), net' = net, conn' = conn,
         state' = state \/ state' = "closing"
  PROVE  StreamInv' /\ First \in Wired /\ First.conn = conn
<1>types. unpacker \in Seq(Fragment) /\ Len(unpacker) \in Nat /\ 2 \in 0 .. Len(unpacker)
          /\ unpacker # <<>>
  BY LenProperties, EmptySeq DEF WireTypes, Whole
<1>1. First \in Wired /\ First.conn = conn
  BY <1>types, InStep DEF StreamInv
<1>2. Paired(Stream')
  BY PairedDrop DEF StreamInv
<1>3. Wired' \subseteq Wired
  BY <1>types, DropStream
<1>4. state # "down"
  <2>1. SUFFICES ASSUME Stream = <<>> PROVE FALSE
    BY DEF StreamInv
  <2> QED
    BY <1>1, <2>1 DEF Wired
<1> QED
  BY <1>1, <1>2, <1>3, <1>4 DEF StreamInv

\* A response: if nothing has clashed or been torn, the call that has its id is its call.
LEMMA RecvResponseInv == ASSUME WireInv, RecvResponse PROVE WireInv'
<1>types. /\ WireTypes /\ (~clash => CallInv) /\ (~torn => StreamInv)
          /\ AnswersItsCall /\ DeliversWhole
  BY DEF WireInv
<1> USE <1>types
<1>1. /\ Whole /\ First.kind = "response" /\ Drop(2) /\ Deliver(First.conn # conn)
      /\ Respond(First.id, First.call)
      /\ UNCHANGED <<callVars, connVars, peerVars, reading, clash, torn>>
  BY DEF RecvResponse
<1>2. unpacker \in Seq(Fragment) /\ Len(unpacker) \in Nat /\ 2 \in 0 .. Len(unpacker)
  BY <1>1, LenProperties DEF WireTypes, Whole
<1>3. unpacker' \in Seq(Fragment) /\ Wired' \subseteq Wired
  BY <1>1, <1>2, DropStream DEF peerVars
<1>4. First \in Message /\ First.call \in Int /\ unpacker # <<>>
  <2>1. unpacker[1] \in Fragment /\ unpacker # <<>>
    BY <1>2, ElementOfSeq, EmptySeq
  <2> QED
    BY <2>1, WireAssumption DEF First, Fragment, Message, Calls, NoCall
<1>5. WireTypes'
  <2>1. /\ mem' \in [Calls -> {"none", "live", "freed"}] /\ armed' \subseteq Calls
        /\ answers' \in [Calls -> SUBSET Int]
    BY <1>1, <1>4, RespondTypes
  <2> QED
    BY <2>1, <1>1, <1>3 DEF WireTypes, callVars, connVars, peerVars
<1>6. ASSUME CallInv
      PROVE  /\ CallInv'
             /\ \A k \in Calls : answers'[k] # answers[k] =>
                    Open(k) /\ IdOf(k) = First.id /\ answers'[k] = answers[k] \cup {First.call}
  <2>1. /\ ListInv' /\ Sent' = Sent /\ armed' \subseteq armed
        /\ \A k \in Calls : Listed(k)' => Listed(k)
        /\ \A k \in Calls : answers'[k] # answers[k] =>
               Open(k) /\ IdOf(k) = First.id /\ answers'[k] = answers[k] \cup {First.call}
        /\ \A k \in Calls : mem'[k] # mem[k] => Listed(k)
    BY <1>1, <1>6, RespondKeeps
  <2> QED
    BY <1>1, <1>3, <1>6, <2>1, TimersKept DEF peerVars
<1>7. ASSUME StreamInv PROVE StreamInv' /\ First \in Wired /\ First.conn = conn
  BY <1>1, <1>7, TakenKept DEF connVars, peerVars
<1>8. AnswersItsCall'
  <2> SUFFICES ASSUME ~clash, ~torn, NEW k \in Calls
               PROVE  answers'[k] \subseteq {k}
    BY <1>1 DEF AnswersItsCall
  <2>1. answers[k] \subseteq {k}
    BY DEF AnswersItsCall
  <2>2. CASE answers'[k] = answers[k]
    BY <2>1, <2>2
  <2>3. CASE answers'[k] # answers[k]
    <3>1. Open(k) /\ IdOf(k) = First.id /\ answers'[k] = answers[k] \cup {First.call}
      BY <2>3, <1>6
    <3>2. First \in Wired
      BY <1>7
    <3>3. First.call \in Calls /\ First.id = IdOf(First.call) /\ Open(First.call)
      BY <1>1, <3>2 DEF CallInv, ResponseInv, Open, OnWire
    <3>4. First.call = k
      BY <3>1, <3>3 DEF CallInv, DistinctIds
    <3> QED
      BY <2>1, <3>1, <3>4
  <2> QED
    BY <2>2, <2>3
<1>9. DeliversWhole'
  BY <1>1, <1>7 DEF DeliversWhole, Deliver
<1> QED
  BY <1>1, <1>5, <1>6, <1>7, <1>8, <1>9 DEF WireInv

\* A notify is delivered.
LEMMA RecvNotifyInv == ASSUME WireInv, RecvNotify PROVE WireInv'
<1>types. /\ WireTypes /\ (~clash => CallInv) /\ (~torn => StreamInv)
          /\ AnswersItsCall /\ DeliversWhole
  BY DEF WireInv
<1> USE <1>types
<1>1. /\ Whole /\ Drop(2) /\ Deliver(First.conn # conn) /\ net' = net
      /\ UNCHANGED <<callVars, timerVars, connVars, peerVars, clash, torn, answers>>
  BY DEF RecvNotify, peerVars
<1>2. 2 \in 0 .. Len(unpacker)
  BY <1>1, LenProperties DEF WireTypes, Whole
<1>3. unpacker' \in Seq(Fragment) /\ Wired' \subseteq Wired
  BY <1>1, <1>2, DropStream
<1>4. WireTypes'
  BY <1>1, <1>3 DEF WireTypes, callVars, timerVars, connVars, peerVars
<1>5. ASSUME CallInv PROVE CallInv'
  BY <1>1, <1>3, <1>5, CallsKept DEF peerVars
<1>6. ASSUME StreamInv PROVE StreamInv' /\ First.conn = conn
  BY <1>1, <1>6, TakenKept DEF connVars
<1>7. AnswersItsCall'
  BY <1>1 DEF AnswersItsCall
<1>8. DeliversWhole'
  BY <1>1, <1>6 DEF DeliversWhole, Deliver
<1> QED
  BY <1>1, <1>4, <1>5, <1>6, <1>7, <1>8 DEF WireInv

\* What does not parse ends the connection.
LEMMA RecvInvalidInv == ASSUME WireInv, RecvInvalid PROVE WireInv'
<1>types. /\ WireTypes /\ (~clash => CallInv) /\ (~torn => StreamInv)
          /\ AnswersItsCall /\ DeliversWhole
  BY DEF WireInv
<1> USE <1>types
<1>1. /\ Whole /\ Drop(2) /\ net' = net /\ (state' = state \/ state' = "closing")
      /\ UNCHANGED <<callVars, timerVars, conn, peerVars, historyVars>>
  BY DEF RecvInvalid, Throw, peerVars
<1>2. 2 \in 0 .. Len(unpacker)
  BY <1>1, LenProperties DEF WireTypes, Whole
<1>3. unpacker' \in Seq(Fragment) /\ Wired' \subseteq Wired
  BY <1>1, <1>2, DropStream
<1>4. WireTypes'
  BY <1>1, <1>3 DEF WireTypes, callVars, timerVars, peerVars, historyVars
<1>5. ASSUME CallInv PROVE CallInv'
  BY <1>1, <1>3, <1>5, CallsKept DEF peerVars
<1>6. ASSUME StreamInv PROVE StreamInv'
  BY <1>1, <1>6, TakenKept
<1>7. AnswersItsCall' /\ DeliversWhole' /\ clash' = clash /\ torn' = torn
  BY <1>1, HistoryKept DEF historyVars
<1> QED
  BY <1>4, <1>5, <1>6, <1>7 DEF WireInv

\* A rest that is too large ends the connection, and stays.
LEMMA RecvTooBigInv == ASSUME WireInv, RecvTooBig PROVE WireInv'
<1>types. /\ WireTypes /\ (~clash => CallInv) /\ (~torn => StreamInv)
          /\ AnswersItsCall /\ DeliversWhole
  BY DEF WireInv
<1> USE <1>types
<1>1. /\ Stream' = Stream /\ Wired' = Wired /\ (state' = state \/ state' = "closing")
      /\ UNCHANGED <<callVars, timerVars, conn, peerVars, unpacker, historyVars>>
  BY DEF RecvTooBig, Throw, Stream, Wired, peerVars
<1>2. WireTypes'
  BY <1>1 DEF WireTypes, callVars, timerVars, peerVars, historyVars
<1>3. ASSUME CallInv PROVE CallInv'
  BY <1>1, <1>3, CallsKept DEF peerVars
<1>4. ASSUME StreamInv PROVE StreamInv'
  BY <1>1, <1>4, StreamKept
<1>5. AnswersItsCall' /\ DeliversWhole' /\ clash' = clash /\ torn' = torn
  BY <1>1, HistoryKept DEF historyVars
<1> QED
  BY <1>2, <1>3, <1>4, <1>5 DEF WireInv

\* The rest waits for the next read.
LEMMA OnReadReturnsInv == ASSUME WireInv, OnReadReturns PROVE WireInv'
<1>types. /\ WireTypes /\ (~clash => CallInv) /\ (~torn => StreamInv)
          /\ AnswersItsCall /\ DeliversWhole
  BY DEF WireInv
<1> USE <1>types
<1>1. /\ Stream' = Stream /\ Wired' = Wired
      /\ UNCHANGED <<callVars, timerVars, connVars, peerVars, unpacker, historyVars>>
  BY DEF OnReadReturns, Stream, Wired, peerVars
<1>2. WireTypes'
  BY <1>1 DEF WireTypes, callVars, timerVars, connVars, peerVars, historyVars
<1>3. ASSUME CallInv PROVE CallInv'
  BY <1>1, <1>3, CallsKept DEF peerVars
<1>4. ASSUME StreamInv PROVE StreamInv'
  BY <1>1, <1>4, StreamKept DEF connVars
<1>5. AnswersItsCall' /\ DeliversWhole' /\ clash' = clash /\ torn' = torn
  BY <1>1, HistoryKept DEF historyVars
<1> QED
  BY <1>2, <1>3, <1>4, <1>5 DEF WireInv

\* Bytes out of step: only after a connection was torn.
LEMMA RecvBrokenInv == ASSUME WireInv, NEW n \in {1, 2}, RecvBroken(n) PROVE WireInv'
<1>types. /\ WireTypes /\ (~clash => CallInv) /\ (~torn => StreamInv)
          /\ AnswersItsCall /\ DeliversWhole
  BY DEF WireInv
<1> USE <1>types
<1>1. torn /\ Drop(n) /\ net' = net /\ UNCHANGED <<callVars, peerVars, conn, clash, torn>>
  BY InStep DEF RecvBroken, Throw, StreamInv, peerVars, connVars, historyVars
<1>2. n \in 0 .. Len(unpacker)
  BY LenProperties DEF RecvBroken, WireTypes
<1>3. unpacker' \in Seq(Fragment) /\ Wired' \subseteq Wired
  BY <1>1, <1>2, DropStream
<1>4. AnswersItsCall' /\ DeliversWhole'
  BY <1>1 DEF AnswersItsCall, DeliversWhole
<1>5. CASE UNCHANGED timerVars /\ answers' = answers
  <2>1. WireTypes'
    BY <1>1, <1>3, <1>5 DEF RecvBroken, Throw, WireTypes, callVars, timerVars, connVars, peerVars
  <2>2. ASSUME CallInv PROVE CallInv'
    BY <1>1, <1>3, <1>5, <2>2, CallsKept DEF peerVars
  <2> QED
    BY <1>1, <1>4, <2>1, <2>2 DEF WireInv
<1>6. CASE UNCHANGED connVars /\ \E i \in Ids : Respond(i, Garbled)
  <2>1. PICK i \in Ids : Respond(i, Garbled)
    BY <1>6
  <2>2. WireTypes'
    <3>1. /\ mem' \in [Calls -> {"none", "live", "freed"}] /\ armed' \subseteq Calls
          /\ answers' \in [Calls -> SUBSET Int]
      BY <2>1, RespondTypes DEF Garbled
    <3> QED
      BY <1>1, <1>3, <1>6, <3>1 DEF WireTypes, callVars, connVars, peerVars
  <2>3. ASSUME CallInv PROVE CallInv'
    <3>1. /\ ListInv' /\ Sent' = Sent /\ armed' \subseteq armed
          /\ \A k \in Calls : Listed(k)' => Listed(k)
          /\ \A k \in Calls : mem'[k] # mem[k] => Listed(k)
      BY <2>1, <2>3, RespondKeeps
    <3> QED
      BY <1>1, <1>3, <2>3, <3>1, TimersKept DEF peerVars
  <2> QED
    BY <1>1, <1>4, <2>2, <2>3 DEF WireInv
<1> QED
  BY <1>5, <1>6 DEF RecvBroken, Throw, timerVars, historyVars

\* OnWrite of a call with an error.
LEMMA OnWriteErrorInv == ASSUME WireInv, NEW k \in Calls, OnWriteError(k) PROVE WireInv'
<1>types. /\ WireTypes /\ (~clash => CallInv) /\ (~torn => StreamInv)
          /\ AnswersItsCall /\ DeliversWhole
  BY DEF WireInv
<1> USE <1>types
<1> DEFINE p == FirstMatch(IdOf(k))
<1>1. /\ Stream' = Stream /\ Wired' = Wired /\ toPeer' \subseteq toPeer
      /\ UNCHANGED <<callVars, connVars, net, unpacker, clash, torn, strange, answers>>
  BY DEF OnWriteError, Crash, Stream, Wired, readVars
<1>2. \/ UNCHANGED <<mem, armed>>
      \/ Delete({timers[p]})
  BY DEF OnWriteError, Crash
<1>3. WireTypes'
  <2>1. mem' \in [Calls -> {"none", "live", "freed"}] /\ armed' \subseteq Calls
    BY <1>2, DeleteTypes DEF WireTypes
  <2> QED
    BY <1>1, <2>1 DEF WireTypes, callVars, connVars
<1>4. ASSUME CallInv PROVE CallInv'
  <2>1. CASE Matches(IdOf(k))
    <3>1. Delete({timers[p]}) /\ timers' = Erase(p) /\ crashed' = crashed
      BY <1>4, <2>1, SearchIsSafe DEF OnWriteError
    <3>2. p \in DOMAIN timers
      BY <1>4, <2>1, MatchFound
    <3> HIDE DEF p
    <3>3. /\ ListInv' /\ Sent' = Sent /\ armed' \subseteq armed
          /\ \A j \in Calls : Listed(j)' => Listed(j)
          /\ \A j \in Calls : mem'[j] # mem[j] => Listed(j)
      BY <1>4, <3>1, <3>2, EraseKeepsList DEF Listed
    <3> QED
      BY <1>1, <1>4, <3>3, TimersKept
  <2>2. CASE ~Matches(IdOf(k))
    <3>1. UNCHANGED timerVars
      BY <1>4, <2>2, SearchIsSafe DEF OnWriteError, timerVars
    <3> QED
      BY <1>1, <1>4, <3>1, CallsKept
  <2> QED
    BY <2>1, <2>2
<1>5. ASSUME StreamInv PROVE StreamInv'
  BY <1>1, <1>5, StreamKept DEF connVars
<1>6. AnswersItsCall' /\ DeliversWhole'
  BY <1>1, HistoryKept
<1> QED
  BY <1>1, <1>3, <1>4, <1>5, <1>6 DEF WireInv

\* OnRequestTimeout: what is taken out of the list is what is deleted.
LEMMA OnRequestTimeoutInv == ASSUME WireInv, NEW k \in Calls, OnRequestTimeout(k) PROVE WireInv'
<1>types. /\ WireTypes /\ (~clash => CallInv) /\ (~torn => StreamInv)
          /\ AnswersItsCall /\ DeliversWhole
  BY DEF WireInv
<1> USE <1>types
<1> DEFINE p == FirstMatch(IdOf(k))
<1>1. /\ Stream' = Stream /\ Wired' = Wired
      /\ UNCHANGED <<callVars, connVars, peerVars, unpacker, clash, torn, strange, answers>>
  BY DEF OnRequestTimeout, Crash, Stream, Wired, readVars, peerVars
<1>2. UNCHANGED <<mem, armed>> \/ Delete({k})
  BY DEF OnRequestTimeout, Crash
<1>3. WireTypes'
  <2>1. mem' \in [Calls -> {"none", "live", "freed"}] /\ armed' \subseteq Calls
    BY <1>2, DeleteTypes DEF WireTypes
  <2> QED
    BY <1>1, <2>1 DEF WireTypes, callVars, connVars, peerVars
<1>4. ASSUME CallInv PROVE CallInv'
  <2>1. /\ k \in armed /\ Delete({k}) /\ crashed' = crashed
        /\ timers' = IF Matches(IdOf(k)) THEN Erase(p) ELSE timers
    BY <1>4, SearchIsSafe DEF OnRequestTimeout
  <2>2. Open(k) /\ k \in Sent
    BY <1>4, <2>1 DEF Open, CallInv, SentInv
  <2>5. \A j \in Calls : mem'[j] # mem[j] => j \in armed
    BY <2>1 DEF Delete
  <2>3. CASE Matches(IdOf(k))
    <3>1. p \in DOMAIN timers /\ IdOf(timers[p]) = IdOf(k)
      BY <1>4, <2>3, MatchFound
    <3> HIDE DEF p
    <3>2. timers[p] = k
      <4>1. timers[p] \in Calls
        BY <1>4, <3>1, LenProperties, ElementOfSeq DEF CallInv, ListInv
      <4>2. Open(timers[p])
        BY <3>1 DEF Open, Listed
      <4> QED
        BY <1>4, <2>2, <3>1, <4>1, <4>2 DEF CallInv, DistinctIds
    <3>3. /\ ListInv' /\ Sent' = Sent /\ armed' \subseteq armed
          /\ \A j \in Calls : Listed(j)' => Listed(j)
      BY <1>4, <2>1, <2>3, <3>1, <3>2, EraseKeepsList
    <3> QED
      BY <1>1, <1>4, <2>5, <3>3, TimersKept DEF peerVars
  <2>4. CASE ~Matches(IdOf(k))
    <3>1. \A q \in DOMAIN timers : timers[q] # k
      BY <2>4 DEF Matches
    <3>2. Sent' = Sent /\ armed' \subseteq armed
      BY <2>1, <2>2, DeleteKeepsSent
    <3>3. timers' = timers
      BY <2>1, <2>4
    <3>4. \A q \in DOMAIN timers : timers[q] \in Calls
      BY <1>4, LenProperties, ElementOfSeq DEF CallInv, ListInv
    <3>5. ListInv'
      BY <1>4, <2>1, <3>1, <3>3, <3>4 DEF CallInv, ListInv, Delete
    <3>6. \A j \in Calls : Listed(j)' => Listed(j)
      BY <3>3 DEF Listed
    <3> QED
      BY <1>1, <1>4, <2>5, <3>2, <3>5, <3>6, TimersKept DEF peerVars
  <2> QED
    BY <2>3, <2>4
<1>5. ASSUME StreamInv PROVE StreamInv'
  BY <1>1, <1>5, StreamKept DEF connVars
<1>6. AnswersItsCall' /\ DeliversWhole'
  BY <1>1, HistoryKept
<1> QED
  BY <1>1, <1>3, <1>4, <1>5, <1>6 DEF WireInv

\* OnDisconnect: the list is emptied, and the stream unless the connection is torn.
LEMMA OnDisconnectInv == ASSUME WireInv, OnDisconnect PROVE WireInv'
<1>types. /\ WireTypes /\ (~clash => CallInv) /\ (~torn => StreamInv)
          /\ AnswersItsCall /\ DeliversWhole
  BY DEF WireInv
<1> USE <1>types
<1> DEFINE ks == {timers[q] : q \in DOMAIN timers}
<1>1. /\ state' = "down" /\ toPeer' = {} /\ net' = <<>> /\ unpacker' = unpacker
      /\ torn' = (torn \/ unpacker # <<>>)
      /\ UNCHANGED <<callVars, conn, clash, strange, answers>>
  BY DEF OnDisconnect, DiscardMessages, Crash, readVars
<1>2. UNCHANGED <<mem, armed>> \/ Delete(ks)
  BY DEF OnDisconnect, DiscardMessages, Crash
<1>3. WireTypes'
  <2>1. mem' \in [Calls -> {"none", "live", "freed"}] /\ armed' \subseteq Calls
    BY <1>2, DeleteTypes DEF WireTypes
  <2>2. net' \in Seq(Fragment)
    BY <1>1, EmptySeq
  <2> QED
    BY <1>1, <2>1, <2>2 DEF WireTypes, callVars
<1>4. Stream' = unpacker
  BY <1>1, ConcatEmptySeq DEF Stream, WireTypes
<1>5. Wired' \subseteq Wired
  <2>1. /\ DOMAIN unpacker = 1 .. Len(unpacker) /\ DOMAIN Stream = 1 .. Len(Stream)
        /\ Len(Stream) = Len(unpacker) + Len(net) /\ Len(unpacker) \in Nat /\ Len(net) \in Nat
        /\ \A q \in 1 .. Len(unpacker) : Stream[q] = unpacker[q]
    BY StreamType, LenProperties DEF WireTypes
  <2>2. \A q \in DOMAIN unpacker : q \in DOMAIN Stream /\ Stream[q] = unpacker[q]
    BY <2>1
  <2> QED
    BY <1>4, <2>2, Zenon DEF Wired
<1>6. ASSUME CallInv PROVE CallInv'
  <2>1. Delete(ks) /\ timers' = <<>>
    BY <1>6 DEF OnDisconnect, DiscardMessages, CallInv, ListInv
  <2>2. ks \subseteq Sent
    <3>1. \A q \in DOMAIN timers : timers[q] \in Calls
      BY <1>6, LenProperties, ElementOfSeq DEF CallInv, ListInv
    <3> QED
      BY <1>6, <3>1 DEF CallInv, SentInv, Open, Listed
  <2>5. \A k \in Calls : mem'[k] # mem[k] => Listed(k)
    BY <2>1 DEF Delete, Listed
  <2> HIDE DEF ks
  <2>3. Sent' = Sent /\ armed' \subseteq armed
    BY <2>1, <2>2, DeleteKeepsSent
  <2>4. ListInv' /\ \A k \in Calls : Listed(k)' => Listed(k)
    BY <1>6, <2>1 DEF CallInv, ListInv, Listed
  <2> QED
    BY <1>1, <1>5, <1>6, <2>3, <2>4, <2>5, TimersKept
<1>7. ASSUME ~torn' PROVE StreamInv'
  <2>1. Stream' = <<>>
    BY <1>1, <1>4, <1>7
  <2>2. Wired' = {}
    BY <2>1 DEF Wired
  <2> QED
    BY <2>1, <2>2 DEF StreamInv, Paired
<1>8. AnswersItsCall' /\ DeliversWhole'
  BY <1>1, HistoryKept
<1> QED
  BY <1>1, <1>3, <1>6, <1>7, <1>8 DEF WireInv

----------------------------------------------------------------------------
(* Wire: the theorems.                                                     *)

\* The invariant is kept by every step.
LEMMA WireStepInv == WireInv /\ [WireNext]_wireVars => WireInv'
<1> SUFFICES ASSUME WireInv, [WireNext]_wireVars
             PROVE  WireInv'
  OBVIOUS
<1>Connect. CASE Connect
  BY <1>Connect, ConnectWireInv
<1>Disconnect. CASE Disconnect
  BY <1>Disconnect, DisconnectWireInv
<1>Construct. ASSUME NEW r \in Requests, Construct(r) PROVE WireInv'
  BY <1>Construct, ConstructInv
<1>Send. ASSUME NEW r \in Requests, Send(r) PROVE WireInv'
  BY <1>Send, SendInv
<1>SendStep. CASE SendStep
  BY <1>SendStep, PushTimerInv, StartTimerInv DEF SendStep
<1>PeerSends. ASSUME NEW kind \in {"notify", "invalid", "big"}, PeerSends(kind) PROVE WireInv'
  BY <1>PeerSends, PeerSendsInv
<1>OnRead. ASSUME NEW n \in 1 .. Len(net), OnRead(n) PROVE WireInv'
  BY <1>OnRead, OnReadInv
<1>OnReadError. CASE OnReadError
  BY <1>OnReadError, DisconnectWireInv DEF OnReadError
<1>ReadStep. CASE ReadStep
  BY <1>ReadStep, RecvResponseInv, RecvNotifyInv, RecvInvalidInv, RecvTooBigInv,
     OnReadReturnsInv, RecvBrokenInv DEF ReadStep
<1>OnDisconnect. CASE OnDisconnect
  BY <1>OnDisconnect, OnDisconnectInv
<1>PeerAnswers. ASSUME NEW k \in Calls, PeerAnswers(k) PROVE WireInv'
  BY <1>PeerAnswers, PeerAnswersInv
<1>OnWriteError. ASSUME NEW k \in Calls, OnWriteError(k) PROVE WireInv'
  BY <1>OnWriteError, OnWriteErrorInv
<1>OnRequestTimeout. ASSUME NEW k \in Calls, OnRequestTimeout(k) PROVE WireInv'
  BY <1>OnRequestTimeout, OnRequestTimeoutInv
<1>stutter. CASE UNCHANGED wireVars
  <2>1. UNCHANGED <<callVars, timerVars, connVars, peerVars, unpacker, historyVars>>
    BY <1>stutter DEF wireVars, readVars
  <2>2. Stream' = Stream /\ Wired' = Wired
    BY <2>1 DEF Stream, Wired, peerVars
  <2>3. WireTypes'
    BY <2>1 DEF WireInv, WireTypes, callVars, timerVars, connVars, peerVars, historyVars
  <2>4. ~clash' => CallInv'
    BY <2>1, <2>2, CallsKept DEF WireInv, peerVars, historyVars
  <2>5. ~torn' => StreamInv'
    BY <2>1, <2>2, StreamKept DEF WireInv, connVars, historyVars
  <2>6. AnswersItsCall' /\ DeliversWhole'
    BY <2>1, HistoryKept DEF WireInv, historyVars
  <2> QED
    BY <2>3, <2>4, <2>5, <2>6 DEF WireInv
<1> QED
  BY <1>Connect, <1>Disconnect, <1>Construct, <1>Send, <1>SendStep, <1>PeerSends, <1>OnRead,
     <1>OnReadError, <1>ReadStep, <1>OnDisconnect, <1>PeerAnswers, <1>OnWriteError, <1>OnRequestTimeout,
     <1>stutter DEF WireNext

\* The invariant of Wire.
THEOREM WireInvariant == WireSpec => []WireInv
<1> QED
  BY WireInitInv, WireStepInv, PTL DEF WireSpec

\* A call is given its own response, although the wire carries only an id, unless an id is
\* reused too early or a connection ended inside a message.
THEOREM CallsGetTheirAnswers == WireSpec => []AnswersItsCall
<1>1. WireInv => AnswersItsCall
  BY DEF WireInv
<1> QED
  BY <1>1, WireInvariant, PTL

\* What the handler is given is a message of this connection, unless one ended inside a
\* message.
THEOREM MessagesAreWhole == WireSpec => []DeliversWhole
<1>1. WireInv => DeliversWhole
  BY DEF WireInv
<1> QED
  BY <1>1, WireInvariant, PTL

----------------------------------------------------------------------------
(* Wire: no deleted timer is used.                                         *)

\* What has been read holds no response to the call that is being sent: OnRead waits for
\* state_mutex_, which Send() holds.
UnreadInv ==
    sending # "none" =>
        \A p \in DOMAIN unpacker :
            unpacker[p].msg.kind = "response" => unpacker[p].msg.call # current

\* The timer that a Send() is about to start is still there.
AliveInv ==
    ~(clash \/ hasty \/ torn) => ~crashed /\ (sending = "start" => mem[current] = "live")

UseInv == (~clash => UnreadInv) /\ AliveInv

\* What is left in the unpacker was there before.
LEMMA UnreadDrop ==
  ASSUME WireTypes, UnreadInv, NEW n \in 0 .. Len(unpacker), Drop(n),
         sending' = sending, current' = current
  PROVE  UnreadInv'
<1>1. unpacker \in Seq(Fragment) /\ Len(unpacker) \in Nat /\ DOMAIN unpacker = 1 .. Len(unpacker)
  BY LenProperties DEF WireTypes
<1>2. /\ DOMAIN unpacker' = 1 .. Len(unpacker) - n
      /\ \A p \in 1 .. Len(unpacker) - n : unpacker'[p] = unpacker[p + n]
  <2>1. unpacker' = SubSeq(unpacker, n + 1, Len(unpacker))
    BY DEF Drop
  <2> QED
    BY <1>1, <2>1, SubSeqProperties, LenProperties
<1>3. \A p \in DOMAIN unpacker' : p + n \in DOMAIN unpacker /\ unpacker'[p] = unpacker[p + n]
  BY <1>1, <1>2
<1> QED
  BY <1>3 DEF UnreadInv

\* A step that leaves the calls, the bytes read and the timers alone.
LEMMA UseKept ==
  ASSUME UseInv, UNCHANGED <<sending, current, unpacker, mem, crashed>>,
         clash => clash', hasty => hasty', torn => torn'
  PROVE  UseInv'
BY DEF UseInv, UnreadInv, AliveInv

LEMMA UseInit == WireInit => UseInv
BY DEF WireInit, UseInv, UnreadInv, AliveInv

\* A call that is being sent has been read no response to, and its number is new.
LEMMA SendUse == ASSUME WireInv, UseInv, NEW r \in Requests, Send(r) PROVE UseInv'
<1>1. AliveInv'
  BY DEF Send, UseInv, AliveInv
<1>2. ASSUME ~clash' PROVE UnreadInv'
  <2>1. CallInv /\ WireTypes
    BY <1>2 DEF Send, WireInv
  <2>2. current' = Cardinality(Sent) + 1 /\ unpacker' = unpacker
    BY DEF Send, Sent, readVars
  <2>3. PICK n \in Nat : Sent = 1 .. n
    BY <2>1 DEF CallInv, SentInv
  <2>4. current' \notin Sent
    BY <2>2, <2>3, FS_Interval
  <2>5. /\ DOMAIN unpacker = 1 .. Len(unpacker) /\ DOMAIN Stream = 1 .. Len(Stream)
        /\ Len(Stream) = Len(unpacker) + Len(net) /\ Len(unpacker) \in Nat /\ Len(net) \in Nat
        /\ \A q \in 1 .. Len(unpacker) : Stream[q] = unpacker[q]
    BY <2>1, StreamType, LenProperties DEF WireTypes
  <2>6. \A q \in DOMAIN unpacker : q \in DOMAIN Stream /\ Stream[q] = unpacker[q]
    BY <2>5
  <2>7. ASSUME NEW q \in DOMAIN unpacker, unpacker[q].msg.kind = "response"
        PROVE  unpacker[q].msg.call \in Sent
    <3> DEFINE m == unpacker[q].msg
    <3>1. m \in Wired
      BY <2>6, Zenon DEF Wired
    <3>2. m.call \in Calls /\ Open(m.call)
      BY <3>1, <2>1, <2>7 DEF CallInv, ResponseInv, Open, OnWire
    <3> QED
      BY <3>2, <2>1 DEF CallInv, SentInv
  <2> QED
    BY <2>2, <2>4, <2>7 DEF UnreadInv
<1> QED
  BY <1>1, <1>2 DEF UseInv

\* A response that was read is not to the call being sent, so its timer stays.
LEMMA RecvResponseUse == ASSUME WireInv, UseInv, RecvResponse PROVE UseInv'
<1>1. /\ Whole /\ First.kind = "response" /\ Drop(2) /\ Respond(First.id, First.call)
      /\ UNCHANGED <<sending, current, clash, hasty, torn>>
  BY DEF RecvResponse, callVars
<1>2. WireTypes /\ 2 \in 0 .. Len(unpacker) /\ 1 \in DOMAIN unpacker
  BY <1>1, LenProperties DEF WireInv, WireTypes, Whole
<1>3. ~clash => UnreadInv'
  BY <1>1, <1>2, UnreadDrop DEF UseInv
<1>4. AliveInv'
  <2> SUFFICES ASSUME ~clash, ~hasty, ~torn
               PROVE  ~crashed' /\ (sending = "start" => mem'[current] = "live")
    BY <1>1 DEF AliveInv
  <2>1. CallInv /\ StreamInv /\ UnreadInv /\ ~crashed
    BY DEF WireInv, UseInv, AliveInv
  <2>2. /\ \A k \in Calls : mem'[k] # mem[k] => Listed(k) /\ IdOf(k) = First.id
        /\ crashed' = crashed
    BY <1>1, <1>2, <2>1, RespondKeeps
  <2>3. First \in Wired
    <3>1. unpacker \in Seq(Fragment) /\ Len(unpacker) \in Nat /\ unpacker # <<>>
      BY <1>1, LenProperties, EmptySeq DEF WireInv, WireTypes, Whole
    <3> QED
      BY <1>1, <1>2, <3>1, <2>1, InStep DEF StreamInv
  <2>4. First.call \in Calls /\ First.id = IdOf(First.call) /\ Open(First.call)
    BY <1>1, <2>1, <2>3 DEF CallInv, ResponseInv, Open, OnWire
  <2>5. ASSUME sending = "start" PROVE mem'[current] = "live"
    <3>1. current \in Calls /\ Open(current) /\ mem[current] = "live"
      BY <1>2, <2>5 DEF WireTypes, Open, BeingSent, UseInv, AliveInv
    <3>2. First.call # current
      BY <1>1, <1>2, <2>1, <2>5 DEF UnreadInv, First
    <3> QED
      BY <2>1, <2>2, <2>4, <3>1, <3>2 DEF CallInv, DistinctIds
  <2> QED
    BY <2>1, <2>2, <2>5
<1> QED
  BY <1>1, <1>3, <1>4 DEF UseInv

\* A write that fails deletes the timer of its own call.
LEMMA OnWriteErrorUse == ASSUME WireInv, UseInv, NEW k \in Calls, OnWriteError(k) PROVE UseInv'
<1> DEFINE p == FirstMatch(IdOf(k))
<1>1. /\ k \in toPeer /\ UNCHANGED <<sending, current, unpacker, clash, torn>>
      /\ hasty' = (hasty \/ (sending = "start" /\ k = current))
  BY DEF OnWriteError, callVars, readVars
<1>2. ~clash' => UnreadInv'
  BY <1>1 DEF UseInv, UnreadInv
<1>3. AliveInv'
  <2> SUFFICES ASSUME ~clash, ~hasty', ~torn
               PROVE  ~crashed' /\ (sending = "start" => mem'[current] = "live")
    BY <1>1 DEF AliveInv
  <2>1. CallInv /\ ~crashed /\ (sending = "start" => mem[current] = "live" /\ k # current)
    BY <1>1 DEF WireInv, UseInv, AliveInv
  <2>2. CASE Matches(IdOf(k))
    <3>1. Delete({timers[p]}) /\ crashed' = crashed
      BY <2>1, <2>2, SearchIsSafe DEF OnWriteError
    <3>2. p \in DOMAIN timers /\ IdOf(timers[p]) = IdOf(k)
      BY <2>1, <2>2, MatchFound
    <3> HIDE DEF p
    <3>3. timers[p] \in Calls /\ Open(timers[p]) /\ Open(k)
      <4>1. timers[p] \in Calls
        BY <2>1, <3>2, LenProperties, ElementOfSeq DEF CallInv, ListInv
      <4> QED
        BY <1>1, <3>2, <4>1 DEF Open, Listed
    <3>4. timers[p] = k
      BY <2>1, <3>2, <3>3 DEF CallInv, DistinctIds
    <3>5. sending = "start" => current \in Calls
      BY DEF WireInv, WireTypes
    <3> QED
      BY <2>1, <3>1, <3>4, <3>5 DEF Delete
  <2>3. CASE ~Matches(IdOf(k))
    BY <2>1, <2>3, SearchIsSafe DEF OnWriteError
  <2> QED
    BY <2>2, <2>3
<1> QED
  BY <1>2, <1>3 DEF UseInv

\* A timer that fires was started, so it is not the one that Send() is about to start.
LEMMA OnRequestTimeoutUse ==
  ASSUME WireInv, UseInv, NEW k \in Calls, OnRequestTimeout(k) PROVE UseInv'
<1>1. k \in armed /\ UNCHANGED <<sending, current, unpacker, clash, hasty, torn>>
  BY DEF OnRequestTimeout, callVars, readVars
<1>2. ~clash' => UnreadInv'
  BY <1>1 DEF UseInv, UnreadInv
<1>3. AliveInv'
  <2> SUFFICES ASSUME ~clash, ~hasty, ~torn
               PROVE  ~crashed' /\ (sending = "start" => mem'[current] = "live")
    BY <1>1 DEF AliveInv
  <2>1. CallInv /\ ~crashed /\ (sending = "start" => mem[current] = "live")
    BY DEF WireInv, UseInv, AliveInv
  <2>2. Delete({k}) /\ crashed' = crashed
    BY <2>1, SearchIsSafe DEF OnRequestTimeout
  <2>3. sending = "start" => current \in Calls /\ current # k
    BY <1>1, <2>1 DEF WireInv, WireTypes, CallInv, SendingInv
  <2> QED
    BY <2>1, <2>2, <2>3 DEF Delete
<1> QED
  BY <1>2, <1>3 DEF UseInv

\* UseInv is inductive under WireInv.
LEMMA UseStep == WireInv /\ UseInv /\ [WireNext]_wireVars => UseInv'
<1> SUFFICES ASSUME WireInv, UseInv, [WireNext]_wireVars
             PROVE  UseInv'
  OBVIOUS
<1>Connect. CASE Connect
  BY <1>Connect, UseKept DEF Connect, callVars, timerVars, readVars, historyVars
<1>Disconnect. CASE Disconnect
  BY <1>Disconnect, UseKept DEF Disconnect, callVars, timerVars, readVars, historyVars
<1>Construct. ASSUME NEW r \in Requests, Construct(r) PROVE UseInv'
  BY <1>Construct, UseKept DEF Construct, timerVars, readVars, historyVars
<1>Send. ASSUME NEW r \in Requests, Send(r) PROVE UseInv'
  BY <1>Send, SendUse
<1>PushTimer. CASE PushTimer
  <2>1. AliveInv'
    BY <1>PushTimer
      DEF PushTimer, UseInv, AliveInv, WireInv, CallInv, SendingInv, historyVars
  <2> QED
    BY <1>PushTimer, <2>1 DEF PushTimer, UseInv, UnreadInv, readVars, historyVars
<1>StartTimer. ASSUME NEW started \in BOOLEAN, StartTimer(started) PROVE UseInv'
  BY <1>StartTimer DEF StartTimer, UseInv, AliveInv, UnreadInv, historyVars
<1>PeerSends. ASSUME NEW kind \in {"notify", "invalid", "big"}, PeerSends(kind) PROVE UseInv'
  BY <1>PeerSends, UseKept DEF PeerSends, callVars, timerVars, readVars, historyVars
<1>PeerAnswers. ASSUME NEW k \in Calls, PeerAnswers(k) PROVE UseInv'
  BY <1>PeerAnswers, UseKept DEF PeerAnswers, callVars, timerVars, readVars, historyVars
<1>OnRead. ASSUME NEW n, OnRead(n) PROVE UseInv'
  BY <1>OnRead
    DEF OnRead, StateMutexFree, UseInv, UnreadInv, AliveInv, callVars, timerVars, historyVars
<1>RecvResponse. CASE RecvResponse
  BY <1>RecvResponse, RecvResponseUse
<1>Drop. ASSUME NEW n \in {1, 2}, (n = 2 /\ (RecvNotify \/ RecvInvalid)) \/ RecvBroken(n)
         PROVE  UseInv'
  <2>1. n \in 0 .. Len(unpacker) /\ Drop(n) /\ WireTypes
    <3>1. Len(unpacker) \in Nat /\ WireTypes
      BY LenProperties DEF WireInv, WireTypes
    <3>2. n <= Len(unpacker) /\ Drop(n)
      BY <1>Drop DEF RecvNotify, RecvInvalid, RecvBroken, Whole
    <3> QED
      BY <3>1, <3>2
  <2>2. UNCHANGED <<sending, current, clash, hasty, torn>>
    BY <1>Drop DEF RecvNotify, RecvInvalid, RecvBroken, Throw, callVars, historyVars
  <2>3. ~clash' => UnreadInv'
    BY <2>1, <2>2, UnreadDrop DEF UseInv
  <2>4. torn \/ UNCHANGED <<mem, crashed>>
    <3>1. RecvBroken(n) => torn
      BY InStep DEF RecvBroken, WireInv, StreamInv
    <3> QED
      BY <1>Drop, <3>1 DEF RecvNotify, RecvInvalid, Throw, timerVars
  <2> QED
    BY <2>2, <2>3, <2>4 DEF UseInv, AliveInv
<1>RecvTooBig. CASE RecvTooBig
  BY <1>RecvTooBig, UseKept DEF RecvTooBig, Throw, callVars, timerVars, historyVars
<1>OnReadReturns. CASE OnReadReturns
  BY <1>OnReadReturns, UseKept DEF OnReadReturns, callVars, timerVars, historyVars
<1>OnWriteError. ASSUME NEW k \in Calls, OnWriteError(k) PROVE UseInv'
  BY <1>OnWriteError, OnWriteErrorUse
<1>OnRequestTimeout. ASSUME NEW k \in Calls, OnRequestTimeout(k) PROVE UseInv'
  BY <1>OnRequestTimeout, OnRequestTimeoutUse
<1>OnDisconnect. CASE OnDisconnect
  <2>1. /\ sending' = "none" /\ (torn => torn') /\ UNCHANGED <<clash, hasty>>
    BY <1>OnDisconnect DEF OnDisconnect, StateMutexFree, callVars
  <2>2. ~clash => crashed' = crashed
    BY <1>OnDisconnect DEF OnDisconnect, DiscardMessages, WireInv, CallInv, ListInv
  <2> QED
    BY <2>1, <2>2 DEF UseInv, UnreadInv, AliveInv
<1>stutter. CASE UNCHANGED wireVars
  BY <1>stutter, UseKept DEF wireVars, callVars, timerVars, readVars, historyVars
<1> QED
  BY <1>Connect, <1>Disconnect, <1>Construct, <1>Send, <1>PushTimer, <1>StartTimer, <1>PeerSends,
     <1>PeerAnswers, <1>OnRead, <1>RecvResponse, <1>Drop, <1>RecvTooBig, <1>OnReadReturns,
     <1>OnWriteError, <1>OnRequestTimeout, <1>OnDisconnect, <1>stutter
     DEF WireNext, SendStep, ReadStep, OnReadError

\* request_timers_ has no deleted entry as long as no id is reused too early, and no deleted
\* timer is used as long as, besides, no write fails before its Send() has started the timer
\* and no connection ends inside a message.
THEOREM ListedTimersLive == WireSpec => []NoDanglingTimer
<1>1. WireInv /\ UseInv => NoDanglingTimer
  BY DEF WireInv, CallInv, ListInv, UseInv, AliveInv, NoDanglingTimer
<1> QED
  BY <1>1, WireInvariant, UseInit, UseStep, PTL DEF WireSpec

----------------------------------------------------------------------------
(* Timer: the invariant.                                                   *)

\* What is in callback_ and args_: the last Start that succeeded, which tv_timer_ belongs to
\* as long as the timer runs.
CallbackInv ==
    /\ state_ = "START" => callback_ = tv_timer_ /\ callback_ \in Starts
    /\ expiry # "idle" => callback_ \in Starts
    /\ callback_ <= starts
    /\ starting \/ args_ = callback_

\* A start that was cancelled is behind: callback_ is a later one whenever an expiry can
\* still read it.
CancelledInv ==
    /\ \A n \in cancelled : n <= starts
    /\ state_ = "START" \/ expiry # "idle" => callback_ \notin cancelled
    /\ expiry = "loaded" => loaded \in Starts /\ loaded <= starts /\ loaded \notin cancelled
    /\ ~late

\* Without a Start during an expiry, the callback that the expiry reads is the one that was
\* not called yet.
OnceInv ==
    /\ \A n \in Starts : n > starts => calls[n] = 0
    /\ ~raced =>
        /\ state_ = "START" \/ expiry # "idle" => calls[callback_] = 0
        /\ expiry \in {"stopped", "loaded"} => state_ = "STOP" /\ ~starting
        /\ expiry = "loaded" => loaded = callback_
        /\ ~mixed
        /\ \A n \in Starts : calls[n] <= 1

TimerInv ==
    TimerTypeOK /\ TimerHandles /\ CallbackInv /\ CancelledInv /\ OnceInv

USE DEF Starts, NoStart

\* The invariant holds of a new TimerImpl.
LEMMA TimerInitInv == TimerInit => TimerInv
<1> SUFFICES ASSUME TimerInit PROVE TimerInv
    OBVIOUS
<1> USE MaxStartsAssumption DEF TimerInit
<1>1. TimerTypeOK
    <2>1. handle \in [Starts -> {"none", "active", "fired", "closing", "freed"}]
        OBVIOUS
    <2>2. calls \in [Starts -> 0 .. 2]
        OBVIOUS
    <2>3. 0 \in 0 .. MaxStarts
        OBVIOUS
    <2> QED BY <2>1, <2>2, <2>3, Zenon DEF TimerTypeOK
<1>2. TimerHandles /\ CallbackInv
    BY DEF TimerHandles, CallbackInv
<1>3. CancelledInv /\ OnceInv
    BY DEF CancelledInv, OnceInv
<1> QED BY <1>1, <1>2, <1>3 DEF TimerInv

\* The invariant is kept by every step.
LEMMA TimerStepInv == TimerInv /\ [TimerNext]_allTimerVars => TimerInv'
<1> SUFFICES ASSUME TimerInv, [TimerNext]_allTimerVars PROVE TimerInv'
    OBVIOUS
<1> USE MaxStartsAssumption DEF TimerInv, TimerTypeOK, TimerMutexFree
<1>1. ASSUME NEW n \in Starts, TimerStart(n) PROVE TimerInv'
    <2> USE <1>1 DEF TimerStart, Started, expiryVars, callHistory
    <2>1. TimerTypeOK'
        OBVIOUS
    <2>2. TimerHandles'
        BY DEF TimerHandles
    <2>3. CallbackInv' /\ CancelledInv'
        BY DEF CallbackInv, CancelledInv
    <2>4. ~raced' => ~raced /\ expiry = "idle"
        BY Zenon
    <2>5. OnceInv'
        BY <2>4 DEF OnceInv
    <2> QED BY <2>1, <2>2, <2>3, <2>5
<1>2. ASSUME NEW n \in Starts, TimerStartFails(n) PROVE TimerInv'
    <2> USE <1>2 DEF TimerStartFails, expiryVars, callHistory
    <2>1. TimerTypeOK'
        OBVIOUS
    <2>2. TimerHandles'
        BY DEF TimerHandles
    <2>3. CallbackInv' /\ CancelledInv' /\ OnceInv'
        BY DEF CallbackInv, CancelledInv, OnceInv
    <2> QED BY <2>1, <2>2, <2>3
<1>3. ASSUME NEW n \in Starts, Expires(n) PROVE TimerInv'
    <2> USE <1>3 DEF Expires, implVars, callHistory
    <2>1. TimerTypeOK'
        OBVIOUS
    <2>2. TimerHandles'
        BY DEF TimerHandles
    <2>3. CallbackInv' /\ CancelledInv' /\ OnceInv'
        BY DEF TimerHandles, CallbackInv, CancelledInv, OnceInv
    <2> QED BY <2>1, <2>2, <2>3
<1>4. ASSUME NEW n \in Starts, OnTimerClosed(n) PROVE TimerInv'
    BY <1>4 DEF OnTimerClosed, implVars, expiryVars, callHistory, TimerHandles, CallbackInv,
        CancelledInv, OnceInv
<1>5. CASE SetArgs
    BY <1>5 DEF SetArgs, expiryVars, callHistory, TimerHandles, CallbackInv, CancelledInv, OnceInv
<1>6. CASE TimerStop
    <2> USE <1>6 DEF TimerStop, StopTimer, expiryVars, callHistory
    <2>1. TimerTypeOK'
        BY DEF CallbackInv
    <2>2. TimerHandles'
        BY DEF TimerHandles, CallbackInv
    <2>3. CallbackInv' /\ CancelledInv' /\ OnceInv'
        BY DEF CallbackInv, CancelledInv, OnceInv
    <2> QED BY <2>1, <2>2, <2>3
<1>7. CASE LetGo
    <2> USE <1>7 DEF LetGo, StopTimer, expiryVars, callHistory
    <2>1. TimerTypeOK'
        OBVIOUS
    <2>2. TimerHandles'
        BY DEF TimerHandles
    <2>3. CallbackInv' /\ CancelledInv' /\ OnceInv'
        BY DEF CallbackInv, CancelledInv, OnceInv
    <2> QED BY <2>1, <2>2, <2>3
<1>8. CASE StopInOnTimer
    <2> USE <1>8 DEF StopInOnTimer, StopTimer, callHistory
    <2>1. TimerTypeOK'
        OBVIOUS
    <2>2. TimerHandles'
        BY DEF TimerHandles
    <2>3. CallbackInv' /\ CancelledInv' /\ OnceInv'
        BY DEF CallbackInv, CancelledInv, OnceInv
    <2> QED BY <2>1, <2>2, <2>3
<1>9. CASE LoadCallback
    BY <1>9 DEF LoadCallback, implVars, callHistory, TimerHandles, CallbackInv, CancelledInv, OnceInv
<1>10. CASE CallBack
    <2> USE <1>10 DEF CallBack, StopTimer
    <2>1. TimerTypeOK'
        BY DEF CancelledInv
    <2>2. TimerHandles'
        BY DEF TimerHandles
    <2>3. CallbackInv' /\ CancelledInv'
        BY DEF CallbackInv, CancelledInv
    <2>4. ~mixed' <=> ~mixed /\ args_ = loaded
        BY Zenon
    <2>5. ~raced => args_ = callback_ /\ loaded = callback_ /\ state_ = "STOP" /\ calls[loaded] = 0
        BY DEF CallbackInv, OnceInv
    <2>6. ASSUME ~raced PROVE OnceInv'
        BY <2>4, <2>5, <2>6 DEF CancelledInv, OnceInv
    <2>7. ASSUME raced PROVE OnceInv'
        BY <2>7 DEF CancelledInv, OnceInv
    <2> QED BY <2>1, <2>2, <2>3, <2>6, <2>7
<1>11. CASE UNCHANGED allTimerVars
    BY <1>11 DEF allTimerVars, implVars, expiryVars, callHistory, TimerHandles, CallbackInv,
        CancelledInv, OnceInv
<1> QED
    BY <1>1, <1>2, <1>3, <1>4, <1>5, <1>6, <1>7, <1>8, <1>9, <1>10, <1>11 DEF TimerNext

\* The inductive invariant of TimerImpl holds in every state.
THEOREM TimerInvariant == TimerSpec => []TimerInv
BY TimerInitInv, TimerStepInv, PTL DEF TimerSpec

\* Every tv_timer_t is closed exactly once, whatever threads start, stop and destroy the
\* timer while it expires (Timer::Start, TimerImpl::Stop, ~TimerImpl).
THEOREM TimerHandlesOwned == TimerSpec => []TimerHandles
<1>1. TimerInv => TimerHandles
    BY DEF TimerInv
<1> QED BY <1>1, TimerInvariant, PTL

\* The timer is a oneshot timer: TimerImpl::OnTimer calls each callback once at most and
\* with its own argument, and none after a Stop() that finds no expiry under way.
THEOREM TimerOneShot == TimerSpec => []OneShot
<1>1. TimerInv => OneShot
    BY DEF TimerInv, CancelledInv, OnceInv, OneShot
<1> QED BY <1>1, TimerInvariant, PTL

----------------------------------------------------------------------------
(* Values.  An object is a function on paths, so what is true of a cell is *)
(* true of the object, and no induction over its depth is needed.          *)

\* While no freed memory was read, the received object lies in its message's zone, each
\* any lies in its own zone and is what it was last given.
OwnZones ==
    ~readDead =>
        /\ Homes(msg) \subseteq {"msg"}
        /\ \A a \in Anys : Homes(obj[a]) \subseteq {a} /\ Content(obj[a]) = meant[a]

ValuesInv == OwnZones /\ DOMAIN meant = Anys /\ OptionalShowsLast

\* Clearing a zone does not touch an object that does not lie in it.
LEMMA BuryKeeps ==
  ASSUME NEW o, NEW z, z \notin Homes(o), z # "none"
  PROVE  Homes(Bury(o, z)) = Homes(o) /\ Content(Bury(o, z)) = Content(o)
<1>1. \A p \in DOMAIN o : Bury(o, z)[p] = o[p]
  BY DEF Bury, Homes
<1>2. DOMAIN Bury(o, z) = DOMAIN o
  BY DEF Bury
<1>3. Homes(Bury(o, z)) = Homes(o)
  BY <1>1, <1>2 DEF Homes
<1>4. Content(Bury(o, z)) = Content(o)
  BY <1>1, <1>2, Zenon DEF Content
<1> QED
  BY <1>3, <1>4

\* copy_msgpack_object makes the same value in the zone it is given, as long as it reads
\* nothing that lies in a cleared zone.
LEMMA CopyKeeps ==
  ASSUME NEW o, NEW z, "dead" \notin Homes(o), z # "dead"
  PROVE  Homes(CopyObject(o, z)) \subseteq {z} /\ Content(CopyObject(o, z)) = Content(o)
<1> DEFINE c == CopyObject(o, z)
<1>1. DOMAIN c = DOMAIN o
  BY DEF CopyObject
<1>2. \A p \in DOMAIN o : /\ c[p].type = o[p].type /\ c[p].val = o[p].val
                          /\ c[p].home \in {"none", z} /\ o[p].home # "dead"
  <2> SUFFICES ASSUME NEW p \in DOMAIN o
               PROVE  /\ c[p].type = o[p].type /\ c[p].val = o[p].val
                      /\ c[p].home \in {"none", z} /\ o[p].home # "dead"
    OBVIOUS
  <2>1. o[p].home # "dead"
    BY DEF Homes
  <2>2. c[p] = CopyCell(o, p, z)
    BY DEF CopyObject
  <2> QED
    BY <2>1, <2>2 DEF CopyCell, Cell
<1>3. Homes(c) \subseteq {z}
  BY <1>1, <1>2 DEF Homes
<1>4. \A p \in DOMAIN o : c[p].home # "dead"
  BY <1>2
<1>5. Content(c) = [p \in DOMAIN o |-> Cell(o[p].type, o[p].val, "none")]
  BY <1>1, <1>2, <1>4 DEF Content
<1>6. Content(o) = [p \in DOMAIN o |-> Cell(o[p].type, o[p].val, "none")]
  BY <1>2 DEF Content
<1> QED
  BY <1>3, <1>5, <1>6

\* The unpacker makes an object that lies in one zone.
LEMMA PlaceHomes ==
  ASSUME NEW c, NEW z
  PROVE  Homes(Place(c, z)) \subseteq {z}
BY DEF Homes, Place, Cell

\* What AssignOpt gives an any is the value of the optional.
LEMMA OptObjectKeeps ==
  ASSUME NEW x, NEW z, z # "dead"
  PROVE  /\ Homes(OptObject(x, z)) \subseteq {z}
         /\ Content(OptObject(x, z)) = IF x.initialized THEN Leaf("BIN", x.value) ELSE Nil
<1>1. CASE x.initialized
  <2> DEFINE o == Place(Leaf("BIN", x.value), z)
  <2>1. Homes(o) \subseteq {z}
    BY PlaceHomes
  <2>2. Content(o) = Leaf("BIN", x.value)
    BY DEF Content, Place, Leaf, Cell, Bytes, HasParts
  <2>3. OptObject(x, z) = CopyObject(o, z)
    BY <1>1 DEF OptObject
  <2>4. "dead" \notin Homes(o)
    BY <2>1
  <2> QED
    BY <1>1, <2>2, <2>3, <2>4, CopyKeeps
<1>2. CASE ~x.initialized
  BY <1>2 DEF OptObject, Homes, Content, Nil, Leaf, Cell
<1> QED
  BY <1>1, <1>2

LEMMA ValuesInvInit == ValuesInit => ValuesInv
BY DEF ValuesInit, ValuesInv, OwnZones, OptionalShowsLast, OptValue, NoOpt, Homes, Content,
       Nil, Leaf, Cell

\* An assignment that reads nothing cleared keeps all anys in their zones.
LEMMA ReplaceKeeps ==
  ASSUME ~readDead, ValuesInv, NEW a \in Anys, NEW o, NEW m, Replace(a, o),
         Homes(o) \subseteq {a}, Content(o) = m, meant' = [meant EXCEPT ![a] = m]
  PROVE  OwnZones' /\ DOMAIN meant' = Anys
<1>1. a # "none" /\ a # "msg" /\ a # "dead"
  BY AnysAssumption
<1>2. \A b \in Anys \ {a} : /\ obj'[b] = Bury(obj[b], a) /\ a \notin Homes(obj[b])
                            /\ meant'[b] = meant[b]
  BY DEF Replace, ValuesInv, OwnZones
<1>3. \A b \in Anys \ {a} : Homes(obj'[b]) \subseteq {b} /\ Content(obj'[b]) = meant'[b]
  BY <1>1, <1>2, BuryKeeps DEF ValuesInv, OwnZones
<1>4. obj'[a] = o /\ meant'[a] = m
  BY DEF Replace, ValuesInv
<1>5. Homes(msg') \subseteq {"msg"}
  BY <1>1, BuryKeeps DEF Replace, ValuesInv, OwnZones
<1>6. DOMAIN meant' = Anys
  BY DEF ValuesInv
<1>7. OwnZones'
  BY <1>3, <1>4, <1>5 DEF OwnZones
<1> QED
  BY <1>6, <1>7

\* ValuesInv is inductive.
LEMMA ValuesInvStep == ValuesInv /\ [ValuesNext]_valueVars => ValuesInv'
<1> SUFFICES ASSUME ValuesInv, [ValuesNext]_valueVars PROVE ValuesInv'
  OBVIOUS
<1>NextMessage. ASSUME ~readDead, NEW c \in Received, NextMessage(c) PROVE ValuesInv'
  <2>1. Homes(msg') \subseteq {"msg"}
    BY <1>NextMessage, PlaceHomes DEF NextMessage
  <2>2. \A a \in Anys : obj'[a] = Bury(obj[a], "msg") /\ "msg" \notin Homes(obj[a])
    BY <1>NextMessage, AnysAssumption DEF NextMessage, ValuesInv, OwnZones
  <2>3. \A a \in Anys : Homes(obj'[a]) \subseteq {a} /\ Content(obj'[a]) = meant[a]
    BY <1>NextMessage, <2>2, BuryKeeps DEF ValuesInv, OwnZones
  <2> QED
    BY <1>NextMessage, <2>1, <2>3
      DEF NextMessage, ValuesInv, OwnZones, OptionalShowsLast, OptValue
<1>Unpack. ASSUME ~readDead, NEW a \in Anys, Unpack(a) PROVE ValuesInv'
  <2>1. "dead" \notin Homes(msg) /\ a # "dead"
    BY <1>Unpack, AnysAssumption DEF ValuesInv, OwnZones
  <2>2. OwnZones' /\ DOMAIN meant' = Anys
    BY <1>Unpack, <2>1, CopyKeeps, ReplaceKeeps DEF Unpack
  <2> QED
    BY <1>Unpack, <2>2 DEF Unpack, ValuesInv, OptionalShowsLast, OptValue
<1>Copy. ASSUME ~readDead, NEW a \in Anys, NEW b \in Anys, Copy(a, b) PROVE ValuesInv'
  <2>1. "dead" \notin Homes(obj[b]) /\ a # "dead" /\ Content(obj[b]) = meant[b]
    BY <1>Copy, AnysAssumption DEF ValuesInv, OwnZones
  <2>2. OwnZones' /\ DOMAIN meant' = Anys
    BY <1>Copy, <2>1, CopyKeeps, ReplaceKeeps DEF Copy
  <2> QED
    BY <1>Copy, <2>2 DEF Copy, ValuesInv, OptionalShowsLast, OptValue
<1>AssignOpt. ASSUME ~readDead, NEW a \in Anys, AssignOpt(a) PROVE ValuesInv'
  <2> DEFINE v == IF opt.initialized THEN Leaf("BIN", opt.value) ELSE Nil
  <2>1. Homes(OptObject(opt, a)) \subseteq {a} /\ Content(OptObject(opt, a)) = v
    BY AnysAssumption, OptObjectKeeps
  <2>2. Replace(a, OptObject(opt, a)) /\ meant' = [meant EXCEPT ![a] = v]
    BY <1>AssignOpt DEF AssignOpt
  <2> HIDE DEF v
  <2>3. OwnZones' /\ DOMAIN meant' = Anys
    BY <1>AssignOpt, <2>1, <2>2, ReplaceKeeps
  <2> QED
    BY <1>AssignOpt, <2>3 DEF AssignOpt, ValuesInv, OptionalShowsLast, OptValue
<1>CopyOwn. ASSUME ~readDead, NEW a \in Anys, CopyOwn(a, obj[a], Homes(obj[a]) # {})
            PROVE  ValuesInv'
  <2>1. CASE Homes(obj[a]) = {}
    <3>1. Replace(a, CopyObject(obj[a], a))
      BY <1>CopyOwn, <2>1 DEF CopyOwn
    <3>2. "dead" \notin Homes(obj[a]) /\ a # "dead"
      BY <2>1, AnysAssumption
    <3>3. OwnZones' /\ DOMAIN meant' = Anys
      BY <1>CopyOwn, <3>1, <3>2, CopyKeeps, ReplaceKeeps DEF CopyOwn
    <3> QED
      BY <1>CopyOwn, <3>3 DEF CopyOwn, ValuesInv, OptionalShowsLast, OptValue
  <2>2. CASE Homes(obj[a]) # {}
    BY <1>CopyOwn, <2>2 DEF CopyOwn, ValuesInv, OwnZones, OptionalShowsLast, OptValue
  <2> QED
    BY <2>1, <2>2
<1>CopyPart. ASSUME NEW a \in Anys, NEW i, CopyOwn(a, Part(obj[a], i), TRUE)
             PROVE  ValuesInv'
  BY <1>CopyPart DEF CopyOwn, ValuesInv, OwnZones, OptionalShowsLast, OptValue
<1>SetOpt. ASSUME NEW y, SetOpt(y) PROVE ValuesInv'
  BY <1>SetOpt DEF SetOpt, ValuesInv, OwnZones, OptionalShowsLast, OptAssign, OptValue
<1>UnpackOpt. CASE UnpackOpt
  <2>1. OptionalShowsLast'
    BY <1>UnpackOpt DEF UnpackOpt, IsBinary, OptionalShowsLast, OptValue
  <2> QED
    BY <1>UnpackOpt, <2>1 DEF UnpackOpt, ValuesInv, OwnZones
<1>stutter. CASE UNCHANGED valueVars
  BY <1>stutter DEF valueVars, ValuesInv, OwnZones, OptionalShowsLast, OptValue
<1> QED
  BY <1>NextMessage, <1>Unpack, <1>Copy, <1>AssignOpt, <1>CopyOwn, <1>CopyPart, <1>SetOpt,
     <1>UnpackOpt, <1>stutter
     DEF ValuesNext

\* Every any keeps the value it was last given, in its own zone, whatever becomes of the
\* message or of the any it came from, unless an any is assigned from its own parts.
THEOREM AnysAreValues == ValuesSpec => []ValueSemantics
<1>1. ValuesInv => ValueSemantics
  BY DEF ValuesInv, OwnZones, ValueSemantics
<1> QED
  BY <1>1, ValuesInvInit, ValuesInvStep, PTL DEF ValuesSpec

\* The optional shows what it was last given, unless an unpack into it has thrown since.
THEOREM OptionalIsLast == ValuesSpec => []OptionalShowsLast
<1>1. ValuesInv => OptionalShowsLast
  BY DEF ValuesInv
<1> QED
  BY <1>1, ValuesInvInit, ValuesInvStep, PTL DEF ValuesSpec
=============================================================================
