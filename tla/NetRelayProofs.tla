---------------------------- MODULE NetRelayProofs ----------------------------
(***************************************************************************)
(* The VM's way out, for any set of processes, any finite set of ports and *)
(* any number of connections: the tables of the kernel and its client are  *)
(* one relation, client and relay agree on the streams up to the packets   *)
(* between them, and on the ports once everything said has been heard.     *)
(*                                                                         *)
(* Nothing in the protocol is acknowledged, so the proof is about what a   *)
(* packet under way still means when it is read: a CONNECT is for a stream *)
(* that is wanted, or a CLOSE follows it; an ACCEPT is for a socket that   *)
(* exists, or a CLOSE follows it; and of all that was said about a port    *)
(* only the last word counts.                                              *)
(***************************************************************************)
EXTENDS NetRelay, TLAPS, FiniteSetTheorems

-----------------------------------------------------------------------------
(* What queues hold.                                                        *)

Is(q, i, t, x) == q[i].type = t /\ q[i].of = x
Has(q, t, x) == \E i \in 1..Len(q) : Is(q, i, t, x)
Once(q, t, x) == \A i, j \in 1..Len(q) : Is(q, i, t, x) /\ Is(q, j, t, x) => i = j
Later(q, i, t, x) == \E j \in 1..Len(q) : i < j /\ Is(q, j, t, x)

(* Every t of x is followed by a u of x. *)
Follows(q, t, u, x) == \A i \in 1..Len(q) : Is(q, i, t, x) => Later(q, i, u, x)

(* The streams offered in q are numbered upwards. *)
Rising(q) == \A i, j \in 1..Len(q) :
  i < j /\ q[i].type = "ACCEPT" /\ q[j].type = "ACCEPT" => q[i].of[2] < q[j].of[2]

(* The last word on port n: the client's is t, the relay's is yes. *)
Asked(q, n) == Has(q, "LISTEN", n) \/ Has(q, "UNLISTEN", n)
LastIs(q, t, n) == \E i \in 1..Len(q) :
  Is(q, i, t, n) /\ ~Later(q, i, "LISTEN", n) /\ ~Later(q, i, "UNLISTEN", n)
LastYes(q, n) == \E i \in 1..Len(q) : Is(q, i, "LISTENING", n) /\ q[i].ok /\ ~Later(q, i, "LISTENING", n)

(* The packets the client has sent or will send, oldest first.              *)
Line == IF ws = "open" THEN toRelay ELSE queue

-----------------------------------------------------------------------------
(* The inductive invariant.                                                 *)

(* What is there without an open socket.                                    *)
Link ==
  /\ ws # "open" => /\ toRelay = <<>> /\ toClient = <<>> /\ confirmed = {}
                    /\ sockets = {} /\ nextAcceptId = 1
                    /\ servers = {} /\ binding = {} /\ bound = {} /\ refused = {}
                    /\ late = [n \in Ports |-> 0]
  /\ ws # "connecting" => queue = <<>>
  /\ ws = "none" => streams = {}
  /\ ws # "none" => netRelay

(* The kernel numbers at most the connections that were made, those under   *)
(* way among them.                                                          *)
Room ==
  /\ nextId <= made + 1 /\ nextAcceptId <= made + 1 /\ nextPipeConnId <= made + 1
  /\ \A n \in Conns : Has(toClient, "ACCEPT", <<"accept", n>>) =>
       nextPipeConnId + (nextAcceptId - n) <= made + 1

(* The number of a new stream is not in use anywhere.                       *)
Used(s) == IF s[1] = "dial" THEN s[2] < nextId ELSE s[2] < nextAcceptId
Fresh ==
  /\ \A s \in streams \union sockets : Used(s)
  /\ \A s \in Streams : Has(Line, "CONNECT", s) => s \in Dialled
  /\ \A s \in Streams, t \in {"CONNECT", "CLOSE"} : Has(Line, t, s) => Used(s)
  /\ \A s \in Streams, t \in {"ACCEPT", "CLOSE"} : Has(toClient, t, s) => Used(s)
  /\ Rising(toClient)

(* TablesAgree, entry by entry.                                             *)
Relation ==
  /\ \A c \in Known : /\ c < nextPipeConnId
                      /\ netStreamByConn[c] \in DOMAIN netConnByStream
                      /\ netConnByStream[netStreamByConn[c]] = c
  /\ \A s \in DOMAIN netConnByStream :
       netConnByStream[s] \in Known /\ netStreamByConn[netConnByStream[s]] = s
  /\ streams = DOMAIN netConnByStream
  /\ \A c \in Conns : told[c] \in {"dialing", "connected"} <=> c \in Known
  /\ netPending = {c \in Conns : told[c] = "dialing"}

(* What a packet about a stream says of it while it is under way.           *)
Connecting ==
  \A s \in Streams : Has(Line, "CONNECT", s) =>
    /\ s \notin sockets /\ ~Has(toClient, "CLOSE", s) /\ Once(Line, "CONNECT", s)
    /\ s \in streams \/ Follows(Line, "CONNECT", "CLOSE", s)
Parting == \A s \in Streams : Has(Line, "CLOSE", s) => s \notin streams /\ ~Has(toClient, "ACCEPT", s)
Over == \A s \in Streams : Has(toClient, "CLOSE", s) => s \notin sockets
Offered ==
  \A s \in Streams : Has(toClient, "ACCEPT", s) =>
    /\ s \notin streams /\ Once(toClient, "ACCEPT", s)
    /\ s \in sockets \/ Follows(toClient, "ACCEPT", "CLOSE", s)

(* StreamsAgree. *)
Owned == \A s \in sockets : s \in streams \/ Has(toClient, "ACCEPT", s) \/ Has(Line, "CLOSE", s)
Carried == \A s \in streams : s \in sockets \/ Has(Line, "CONNECT", s) \/ Has(toClient, "CLOSE", s)

(* What the client will think of a port when it has read what is under way. *)
Granted(n) ==
  \/ LastYes(toClient, n)
  \/ ~Has(toClient, "LISTENING", n) /\ n \in confirmed

(* What the client asks for is what is served; the relay has no server but   *)
(* for what it was told last; and what the client will think is what the     *)
(* relay did, or is about to do and then says again.                         *)
Wanted ==
  /\ listening = IF netRelay THEN {n \in Ports : listeners[n] # None} ELSE {}
  /\ \A n \in Ports : LastIs(Line, "LISTEN", n) => n \in listening
  /\ \A n \in Ports : LastIs(Line, "UNLISTEN", n) => n \notin listening
Bound ==
  /\ servers \ binding \subseteq bound
  /\ ws = "open" => \A n \in Ports : ~Asked(toRelay, n) /\ n \in servers => n \in listening
Heard ==
  /\ \A n \in Ports : Granted(n) => n \notin refused
  /\ ws = "open" => \A n \in listening : ~Asked(toRelay, n) =>
       /\ Granted(n) => n \in bound \union binding
       /\ n \in servers \ binding => Granted(n)
       /\ Granted(n) \/ n \in refused \union binding

StreamInv == Connecting /\ Parting /\ Over /\ Offered /\ Owned /\ Carried
PortInv == Wanted /\ Bound /\ Heard
IInv == TypeOK /\ Link /\ Room /\ Fresh /\ Relation /\ StreamInv /\ PortInv

-----------------------------------------------------------------------------
(* Queues.                                                                  *)

LEMMA Joined ==
  ASSUME NEW S, NEW q \in Seq(S), NEW ps \in Seq(S)
  PROVE  /\ q \o ps \in Seq(S)
         /\ Len(q) \in Nat /\ Len(ps) \in Nat /\ Len(q \o ps) = Len(q) + Len(ps)
         /\ \A i \in 1..Len(q) : (q \o ps)[i] = q[i] /\ i \in 1..Len(q \o ps)
         /\ \A i \in 1..Len(ps) : (q \o ps)[Len(q) + i] = ps[i] /\ Len(q) + i \in 1..Len(q \o ps)
         /\ \A k \in 1..Len(q \o ps) :
              \/ k \in 1..Len(q) /\ (q \o ps)[k] = q[k]
              \/ \E i \in 1..Len(ps) : k = Len(q) + i /\ (q \o ps)[k] = ps[i]
<1>1. /\ q \o ps \in Seq(S)
      /\ Len(q) \in Nat /\ Len(ps) \in Nat /\ Len(q \o ps) = Len(q) + Len(ps)
      /\ \A i \in 1..Len(q) : (q \o ps)[i] = q[i] /\ i \in 1..Len(q \o ps)
      /\ \A i \in 1..Len(ps) : (q \o ps)[Len(q) + i] = ps[i] /\ Len(q) + i \in 1..Len(q \o ps)
  OBVIOUS
<1>2. ASSUME NEW k \in 1..Len(q \o ps), k \notin 1..Len(q)
      PROVE  \E i \in 1..Len(ps) : k = Len(q) + i /\ (q \o ps)[k] = ps[i]
  <2>1. k - Len(q) \in 1..Len(ps) /\ k = Len(q) + (k - Len(q))
    BY <1>1, <1>2
  <2>. QED
    BY <1>1, <2>1
<1>. QED
  BY <1>1, <1>2

LEMMA Single ==
  ASSUME NEW S, NEW q \in Seq(S), NEW m \in S
  PROVE  Append(q, m) = q \o <<m>> /\ <<m>> \in Seq(S) /\ Len(<<m>>) = 1 /\ <<m>>[1] = m
OBVIOUS

LEMMA Taken ==
  ASSUME NEW S, NEW q \in Seq(S), q # <<>>
  PROVE  /\ Tail(q) \in Seq(S) /\ Head(q) = q[1] /\ Head(q) \in S
         /\ 1 \in 1..Len(q)
         /\ \A i \in 1..Len(Tail(q)) : i + 1 \in 1..Len(q) /\ Tail(q)[i] = q[i + 1]
         /\ \A i \in 1..Len(q) : i = 1 \/ \E k \in 1..Len(Tail(q)) : i = k + 1
<1>1. /\ Tail(q) \in Seq(S) /\ Head(q) = q[1] /\ Head(q) \in S
      /\ 1 \in 1..Len(q) /\ Len(q) \in Nat /\ Len(Tail(q)) = Len(q) - 1
      /\ \A i \in 1..Len(Tail(q)) : i + 1 \in 1..Len(q) /\ Tail(q)[i] = q[i + 1]
  OBVIOUS
<1>2. ASSUME NEW i \in 1..Len(q), i # 1 PROVE \E k \in 1..Len(Tail(q)) : i = k + 1
  <2>1. i - 1 \in 1..Len(Tail(q)) /\ i = (i - 1) + 1
    BY <1>1, <1>2
  <2>. QED
    BY <2>1
<1>. QED
  BY <1>1, <1>2

LEMMA Kept ==
  ASSUME NEW S, NEW q \in Seq(S), q # <<>>
  PROVE  \A i, j \in 1..Len(Tail(q)) : i < j <=> i + 1 < j + 1
OBVIOUS

LEMMA HasJoined ==
  ASSUME NEW S, NEW q \in Seq(S), NEW ps \in Seq(S), NEW t, NEW x
  PROVE  Has(q \o ps, t, x) <=> Has(q, t, x) \/ Has(ps, t, x)
<1>. DEFINE r == q \o ps
<1>1. /\ \A i \in 1..Len(q) : r[i] = q[i] /\ i \in 1..Len(r)
      /\ \A i \in 1..Len(ps) : r[Len(q) + i] = ps[i] /\ Len(q) + i \in 1..Len(r)
      /\ \A k \in 1..Len(r) : \/ k \in 1..Len(q) /\ r[k] = q[k]
                              \/ \E i \in 1..Len(ps) : k = Len(q) + i /\ r[k] = ps[i]
  BY Joined
<1>. HIDE DEF r
<1>2. ASSUME Has(q, t, x) PROVE Has(r, t, x)
  BY <1>1, <1>2 DEF Has, Is
<1>3. ASSUME Has(ps, t, x) PROVE Has(r, t, x)
  BY <1>1, <1>3 DEF Has, Is
<1>4. ASSUME Has(r, t, x), ~Has(q, t, x) PROVE Has(ps, t, x)
  <2>1. PICK k \in 1..Len(r) : Is(r, k, t, x)
    BY <1>4 DEF Has
  <2>2. ~(k \in 1..Len(q) /\ r[k] = q[k])
    BY <1>4, <2>1 DEF Has, Is
  <2>3. PICK i \in 1..Len(ps) : r[k] = ps[i]
    BY <1>1, <2>2
  <2>. QED
    BY <2>1, <2>3 DEF Has, Is
<1>. QED
  BY <1>2, <1>3, <1>4 DEF r

LEMMA HasSingle ==
  ASSUME NEW m, NEW t, NEW x
  PROVE  Has(<<m>>, t, x) <=> m.type = t /\ m.of = x
BY DEF Has, Is

LEMMA HasTaken ==
  ASSUME NEW S, NEW q \in Seq(S), q # <<>>, NEW t, NEW x
  PROVE  Has(q, t, x) <=> (Head(q).type = t /\ Head(q).of = x) \/ Has(Tail(q), t, x)
<1>. DEFINE r == Tail(q)
<1>1. /\ Head(q) = q[1] /\ 1 \in 1..Len(q)
      /\ \A i \in 1..Len(r) : i + 1 \in 1..Len(q) /\ r[i] = q[i + 1]
      /\ \A i \in 1..Len(q) : i = 1 \/ \E k \in 1..Len(r) : i = k + 1
  BY Taken
<1>. HIDE DEF r
<1>2. ASSUME Has(q, t, x), ~(Head(q).type = t /\ Head(q).of = x) PROVE Has(r, t, x)
  BY <1>1, <1>2 DEF Has, Is
<1>3. ASSUME Has(r, t, x) PROVE Has(q, t, x)
  BY <1>1, <1>3 DEF Has, Is
<1>4. ASSUME Head(q).type = t /\ Head(q).of = x PROVE Has(q, t, x)
  BY <1>1, <1>4 DEF Has, Is
<1>. QED
  BY <1>2, <1>3, <1>4 DEF r

LEMMA OnceJoined ==
  ASSUME NEW S, NEW q \in Seq(S), NEW ps \in Seq(S), NEW t, NEW x
  PROVE  /\ Once(q, t, x) /\ ~Has(ps, t, x) => Once(q \o ps, t, x)
         /\ Once(ps, t, x) /\ ~Has(q, t, x) => Once(q \o ps, t, x)
<1>. DEFINE r == q \o ps
<1>1. /\ \A i \in 1..Len(q) : r[i] = q[i] /\ i \in 1..Len(r)
      /\ \A i \in 1..Len(ps) : r[Len(q) + i] = ps[i] /\ Len(q) + i \in 1..Len(r)
      /\ \A k \in 1..Len(r) : \/ k \in 1..Len(q) /\ r[k] = q[k]
                              \/ \E i \in 1..Len(ps) : k = Len(q) + i /\ r[k] = ps[i]
  BY Joined
<1>. HIDE DEF r
<1>2. ASSUME Once(q, t, x), ~Has(ps, t, x) PROVE Once(r, t, x)
  <2>1. \A k \in 1..Len(r) : Is(r, k, t, x) => k \in 1..Len(q) /\ Is(q, k, t, x)
    <3>1. \A i \in 1..Len(ps) : ~Is(ps, i, t, x)
      BY <1>2 DEF Has
    <3>. QED
      BY <1>1, <3>1, ZenonT(40) DEF Is
  <2>. QED
    BY <1>2, <2>1 DEF Once
<1>3. ASSUME Once(ps, t, x), ~Has(q, t, x) PROVE Once(r, t, x)
  <2>1. \A k \in 1..Len(r) : Is(r, k, t, x) => \E i \in 1..Len(ps) : k = Len(q) + i /\ Is(ps, i, t, x)
    <3>1. \A i \in 1..Len(q) : ~Is(q, i, t, x)
      BY <1>3 DEF Has
    <3>2. ASSUME NEW k \in 1..Len(r), Is(r, k, t, x)
          PROVE  \E i \in 1..Len(ps) : k = Len(q) + i /\ Is(ps, i, t, x)
      <4>1. ~(k \in 1..Len(q) /\ r[k] = q[k])
        BY <3>1, <3>2 DEF Is
      <4>2. PICK i \in 1..Len(ps) : k = Len(q) + i /\ r[k] = ps[i]
        BY <1>1, <4>1
      <4>. QED
        BY <3>2, <4>2 DEF Is
    <3>. QED
      BY <3>2
  <2>. QED
    BY <1>3, <2>1 DEF Once
<1>. QED
  BY <1>2, <1>3 DEF r

LEMMA OnceTaken ==
  ASSUME NEW S, NEW q \in Seq(S), q # <<>>, NEW t, NEW x, Once(q, t, x)
  PROVE  /\ Once(Tail(q), t, x)
         /\ Head(q).type = t /\ Head(q).of = x => ~Has(Tail(q), t, x)
<1>. DEFINE r == Tail(q)
<1>1. /\ Head(q) = q[1] /\ 1 \in 1..Len(q)
      /\ \A i \in 1..Len(r) : i + 1 \in 1..Len(q) /\ r[i] = q[i + 1]
  BY Taken
<1>2. \A i \in 1..Len(r) : i + 1 # 1
  BY Taken
<1>3. \A i, j \in 1..Len(r) : i + 1 = j + 1 => i = j
  BY Taken
<1>. HIDE DEF r
<1>4. Once(r, t, x)
  BY <1>1, <1>3 DEF Once, Is
<1>5. Head(q).type = t /\ Head(q).of = x => ~Has(r, t, x)
  BY <1>1, <1>2 DEF Once, Has, Is
<1>. QED
  BY <1>4, <1>5 DEF r

LEMMA FollowsJoined ==
  ASSUME NEW S, NEW q \in Seq(S), NEW ps \in Seq(S), NEW t, NEW u, NEW x
  PROVE  /\ Follows(q, t, u, x) /\ ~Has(ps, t, x) => Follows(q \o ps, t, u, x)
         /\ Has(ps, u, x) /\ ~Has(ps, t, x) => Follows(q \o ps, t, u, x)
         /\ Follows(ps, t, u, x) /\ ~Has(q, t, x) => Follows(q \o ps, t, u, x)
<1>. DEFINE r == q \o ps
<1>1. /\ Len(q) \in Nat
      /\ \A i \in 1..Len(q) : r[i] = q[i] /\ i \in 1..Len(r)
      /\ \A i \in 1..Len(ps) : r[Len(q) + i] = ps[i] /\ Len(q) + i \in 1..Len(r)
      /\ \A k \in 1..Len(r) : \/ k \in 1..Len(q) /\ r[k] = q[k]
                              \/ \E i \in 1..Len(ps) : k = Len(q) + i /\ r[k] = ps[i]
  BY Joined
<1>2. \A i \in 1..Len(q), j \in 1..Len(ps) : i < Len(q) + j
  BY Len(q) \in Nat
<1>3. \A i, j \in 1..Len(ps) : i < j => Len(q) + i < Len(q) + j
  BY Len(q) \in Nat
<1>. HIDE DEF r
<1>4. ASSUME Follows(q, t, u, x), ~Has(ps, t, x) PROVE Follows(r, t, u, x)
  <2>1. \A k \in 1..Len(r) : Is(r, k, t, x) => k \in 1..Len(q) /\ Is(q, k, t, x)
    <3>1. \A i \in 1..Len(ps) : ~Is(ps, i, t, x)
      BY <1>4 DEF Has
    <3>. QED
      BY <1>1, <3>1, ZenonT(40) DEF Is
  <2>2. \A i \in 1..Len(q) : Later(q, i, u, x) => Later(r, i, u, x)
    BY <1>1 DEF Later, Is
  <2>. QED
    BY <1>4, <2>1, <2>2 DEF Follows
<1>5. ASSUME Has(ps, u, x), ~Has(ps, t, x) PROVE Follows(r, t, u, x)
  <2>1. \A k \in 1..Len(r) : Is(r, k, t, x) => k \in 1..Len(q)
    <3>1. \A i \in 1..Len(ps) : ~Is(ps, i, t, x)
      BY <1>5 DEF Has
    <3>. QED
      BY <1>1, <3>1, ZenonT(40) DEF Is
  <2>2. PICK j \in 1..Len(ps) : Is(ps, j, u, x)
    BY <1>5 DEF Has
  <2>3. Len(q) + j \in 1..Len(r) /\ Is(r, Len(q) + j, u, x)
    BY <1>1, <2>2 DEF Is
  <2>. QED
    BY <1>2, <2>1, <2>3 DEF Follows, Later
<1>6. ASSUME Follows(ps, t, u, x), ~Has(q, t, x) PROVE Follows(r, t, u, x)
  <2>1. \A k \in 1..Len(r) : Is(r, k, t, x) => \E i \in 1..Len(ps) : k = Len(q) + i /\ Is(ps, i, t, x)
    <3>1. \A i \in 1..Len(q) : ~Is(q, i, t, x)
      BY <1>6 DEF Has
    <3>. QED
      BY <1>1, <3>1, ZenonT(40) DEF Is
  <2>2. \A i \in 1..Len(ps) : Later(ps, i, u, x) => Later(r, Len(q) + i, u, x)
    BY <1>1, <1>3 DEF Later, Is
  <2>. QED
    BY <1>6, <2>1, <2>2 DEF Follows
<1>. QED
  BY <1>4, <1>5, <1>6 DEF r

LEMMA FollowsTaken ==
  ASSUME NEW S, NEW q \in Seq(S), q # <<>>, NEW t, NEW u, NEW x, Follows(q, t, u, x)
  PROVE  /\ Follows(Tail(q), t, u, x)
         /\ Head(q).type = t /\ Head(q).of = x => Has(Tail(q), u, x)
<1>. DEFINE r == Tail(q)
<1>1. /\ Head(q) = q[1] /\ 1 \in 1..Len(q)
      /\ \A i \in 1..Len(r) : i + 1 \in 1..Len(q) /\ r[i] = q[i + 1]
      /\ \A i \in 1..Len(q) : i = 1 \/ \E k \in 1..Len(r) : i = k + 1
  BY Taken
<1>2. \A i, j \in 1..Len(r) : i < j <=> i + 1 < j + 1
  BY Kept
<1>3. \A i \in 1..Len(q) : ~(i < 1)
  BY Taken
<1>4. \A i \in 1..Len(r) : ~(i + 1 < 1)
  BY Taken
<1>. HIDE DEF r
<1>5. Follows(r, t, u, x)
  <2>1. \A i \in 1..Len(r) : \A t1, x1 : Is(r, i, t1, x1) <=> Is(q, i + 1, t1, x1)
    BY <1>1 DEF Is
  <2>2. ASSUME NEW i \in 1..Len(r), Later(q, i + 1, u, x) PROVE Later(r, i, u, x)
    <3>1. PICK j \in 1..Len(q) : i + 1 < j /\ Is(q, j, u, x)
      BY <2>2 DEF Later
    <3>2. PICK k \in 1..Len(r) : j = k + 1
      BY <1>1, <1>4, <3>1
    <3>. QED
      BY <1>2, <2>1, <3>1, <3>2 DEF Later
  <2>. QED
    BY <1>1, <2>1, <2>2 DEF Follows
<1>6. ASSUME Head(q).type = t, Head(q).of = x PROVE Has(r, u, x)
  BY <1>1, <1>6, SMTT(30) DEF Follows, Later, Has, Is
<1>. QED
  BY <1>5, <1>6 DEF r

LEMMA RisingAdded ==
  ASSUME NEW S, NEW q \in Seq(S), NEW m \in S, Rising(q),
         m.type = "ACCEPT" => \A i \in 1..Len(q) : q[i].type = "ACCEPT" => q[i].of[2] < m.of[2]
  PROVE  Rising(q \o <<m>>)
<1>. DEFINE r == q \o <<m>>
<1>1. /\ Len(q) \in Nat /\ Len(r) = Len(q) + 1
      /\ \A i \in 1..Len(q) : r[i] = q[i]
      /\ r[Len(q) + 1] = m
      /\ \A i, j \in 1..Len(r) : i < j => i \in 1..Len(q) /\ (j \in 1..Len(q) \/ j = Len(q) + 1)
  OBVIOUS
<1>. HIDE DEF r
<1>2. Rising(r)
  BY <1>1 DEF Rising
<1>. QED
  BY <1>2 DEF r

LEMMA RisingTaken ==
  ASSUME NEW S, NEW q \in Seq(S), q # <<>>, Rising(q)
  PROVE  /\ Rising(Tail(q))
         /\ Head(q).type = "ACCEPT" =>
              \A x : Has(Tail(q), "ACCEPT", x) => Head(q).of[2] < x[2]
<1>. DEFINE r == Tail(q)
<1>1. /\ Head(q) = q[1] /\ 1 \in 1..Len(q)
      /\ \A i \in 1..Len(r) : i + 1 \in 1..Len(q) /\ r[i] = q[i + 1]
  BY Taken
<1>2. \A i, j \in 1..Len(r) : i < j <=> i + 1 < j + 1
  BY Kept
<1>3. \A i \in 1..Len(r) : 1 < i + 1
  BY Taken
<1>. HIDE DEF r
<1>4. Rising(r)
  BY <1>1, <1>2 DEF Rising
<1>5. ASSUME Head(q).type = "ACCEPT", NEW x, Has(r, "ACCEPT", x) PROVE Head(q).of[2] < x[2]
  BY <1>1, <1>3, <1>5 DEF Rising, Has, Is
<1>. QED
  BY <1>4, <1>5 DEF r

LEMMA LaterJoined ==
  ASSUME NEW S, NEW q \in Seq(S), NEW ps \in Seq(S), NEW t, NEW x
  PROVE  /\ \A i \in 1..Len(q) : ~Later(q \o ps, i, t, x) => ~Later(q, i, t, x) /\ ~Has(ps, t, x)
         /\ \A i \in 1..Len(ps) : ~Later(q \o ps, Len(q) + i, t, x) => ~Later(ps, i, t, x)
<1>. DEFINE r == q \o ps
<1>1. /\ Len(q) \in Nat
      /\ \A i \in 1..Len(q) : r[i] = q[i] /\ i \in 1..Len(r)
      /\ \A i \in 1..Len(ps) : r[Len(q) + i] = ps[i] /\ Len(q) + i \in 1..Len(r)
  BY Joined
<1>2. \A i \in 1..Len(q), j \in 1..Len(ps) : i < Len(q) + j
  BY Len(q) \in Nat
<1>3. \A i, j \in 1..Len(ps) : i < j => Len(q) + i < Len(q) + j
  BY Len(q) \in Nat
<1>. HIDE DEF r
<1>4. /\ \A i \in 1..Len(q) : Is(q, i, t, x) => Is(r, i, t, x)
      /\ \A i \in 1..Len(ps) : Is(ps, i, t, x) => Is(r, Len(q) + i, t, x)
  BY <1>1 DEF Is
<1>5. \A i \in 1..Len(q) : Later(q, i, t, x) => Later(r, i, t, x)
  BY <1>1, <1>4 DEF Later
<1>6. ASSUME NEW i \in 1..Len(q), Has(ps, t, x) PROVE Later(r, i, t, x)
  BY <1>1, <1>2, <1>4, <1>6 DEF Later, Has
<1>7. \A i \in 1..Len(ps) : Later(ps, i, t, x) => Later(r, Len(q) + i, t, x)
  BY <1>1, <1>3, <1>4 DEF Later
<1>. QED
  BY <1>5, <1>6, <1>7 DEF r

LEMMA LaterTaken ==
  ASSUME NEW S, NEW q \in Seq(S), q # <<>>, NEW t, NEW x
  PROVE  /\ \A i \in 1..Len(Tail(q)) : ~Later(Tail(q), i, t, x) => ~Later(q, i + 1, t, x)
         /\ ~Has(Tail(q), t, x) => ~Later(q, 1, t, x)
<1>. DEFINE r == Tail(q)
<1>1. /\ \A i \in 1..Len(r) : i + 1 \in 1..Len(q) /\ r[i] = q[i + 1]
      /\ \A i \in 1..Len(q) : i = 1 \/ \E k \in 1..Len(r) : i = k + 1
  BY Taken
<1>2. \A i, j \in 1..Len(r) : i < j <=> i + 1 < j + 1
  BY Kept
<1>3. \A i \in 1..Len(r) : ~(i + 1 < 1)
  BY Taken
<1>. HIDE DEF r
<1>4. \A i \in 1..Len(r) : Is(q, i + 1, t, x) => Is(r, i, t, x)
  BY <1>1 DEF Is
<1>5. ASSUME NEW i \in 1..Len(r), Later(q, i + 1, t, x) PROVE Later(r, i, t, x)
  <2>1. PICK j \in 1..Len(q) : i + 1 < j /\ Is(q, j, t, x)
    BY <1>5 DEF Later
  <2>2. PICK k \in 1..Len(r) : j = k + 1
    BY <1>1, <1>3, <2>1
  <2>. QED
    BY <1>2, <1>4, <2>1, <2>2 DEF Later
<1>6. ASSUME Later(q, 1, t, x) PROVE Has(r, t, x)
  <2>1. PICK j \in 1..Len(q) : 1 < j /\ Is(q, j, t, x)
    BY <1>6 DEF Later
  <2>2. PICK k \in 1..Len(r) : j = k + 1
    BY <1>1, <2>1
  <2>. QED
    BY <1>4, <2>1, <2>2 DEF Has
<1>. QED
  BY <1>5, <1>6 DEF r

LEMMA LastJoined ==
  ASSUME NEW S, NEW q \in Seq(S), NEW ps \in Seq(S), NEW t, NEW n, LastIs(q \o ps, t, n)
  PROVE  LastIs(ps, t, n) \/ (~Asked(ps, n) /\ LastIs(q, t, n))
<1>. DEFINE r == q \o ps
<1>1. PICK k \in 1..Len(r) : Is(r, k, t, n) /\ ~Later(r, k, "LISTEN", n) /\ ~Later(r, k, "UNLISTEN", n)
  BY DEF LastIs
<1>2. \/ k \in 1..Len(q) /\ r[k] = q[k]
      \/ \E i \in 1..Len(ps) : k = Len(q) + i /\ r[k] = ps[i]
  <2>1. \A j \in 1..Len(r) : \/ j \in 1..Len(q) /\ r[j] = q[j]
                             \/ \E i \in 1..Len(ps) : j = Len(q) + i /\ r[j] = ps[i]
    BY Joined
  <2>. QED
    BY <2>1
<1>. HIDE DEF r
<1>3. ASSUME k \in 1..Len(q), r[k] = q[k] PROVE ~Asked(ps, n) /\ LastIs(q, t, n)
  BY <1>1, <1>3, LaterJoined, ZenonT(40) DEF r, Is, LastIs, Asked
<1>4. ASSUME NEW i \in 1..Len(ps), k = Len(q) + i, r[k] = ps[i] PROVE LastIs(ps, t, n)
  <2>1. Is(ps, i, t, n)
    BY <1>1, <1>4 DEF Is
  <2>2. ~Later(ps, i, "LISTEN", n) /\ ~Later(ps, i, "UNLISTEN", n)
    BY <1>1, <1>4, LaterJoined DEF r
  <2>. QED
    BY <2>1, <2>2 DEF LastIs
<1>. QED
  BY <1>2, <1>3, <1>4

LEMMA LastTaken ==
  ASSUME NEW S, NEW q \in Seq(S), q # <<>>, NEW t, NEW n
  PROVE  /\ LastIs(Tail(q), t, n) => LastIs(q, t, n)
         /\ Head(q).type = t /\ Head(q).of = n /\ ~Asked(Tail(q), n) => LastIs(q, t, n)
<1>1. /\ \A i \in 1..Len(Tail(q)) : i + 1 \in 1..Len(q) /\ Tail(q)[i] = q[i + 1]
      /\ Head(q) = q[1] /\ 1 \in 1..Len(q)
  BY Taken
<1>2. ASSUME LastIs(Tail(q), t, n) PROVE LastIs(q, t, n)
  <2>1. PICK i \in 1..Len(Tail(q)) :
          Is(Tail(q), i, t, n) /\ ~Later(Tail(q), i, "LISTEN", n) /\ ~Later(Tail(q), i, "UNLISTEN", n)
    BY <1>2 DEF LastIs
  <2>2. ~Later(q, i + 1, "LISTEN", n) /\ ~Later(q, i + 1, "UNLISTEN", n)
    BY <2>1, LaterTaken
  <2>3. i + 1 \in 1..Len(q) /\ Is(q, i + 1, t, n)
    BY <1>1, <2>1 DEF Is
  <2>. QED
    BY <2>2, <2>3 DEF LastIs
<1>3. ASSUME Head(q).type = t, Head(q).of = n, ~Asked(Tail(q), n) PROVE LastIs(q, t, n)
  <2>1. ~Later(q, 1, "LISTEN", n) /\ ~Later(q, 1, "UNLISTEN", n)
    BY <1>3, LaterTaken DEF Asked
  <2>2. Is(q, 1, t, n)
    BY <1>1, <1>3 DEF Is
  <2>. QED
    BY <1>1, <2>1, <2>2 DEF LastIs
<1>. QED
  BY <1>2, <1>3

LEMMA WordAdded ==
  ASSUME NEW S, NEW q \in Seq(S), NEW m \in S, NEW n
  PROVE  /\ LastYes(q \o <<m>>, n) =>
              IF m.type = "LISTENING" /\ m.of = n THEN m.ok ELSE LastYes(q, n)
         /\ m.type = "LISTENING" /\ m.of = n /\ m.ok => LastYes(q \o <<m>>, n)
         /\ ~(m.type = "LISTENING" /\ m.of = n) /\ LastYes(q, n) => LastYes(q \o <<m>>, n)
<1>. DEFINE r == q \o <<m>>
<1>1. /\ <<m>> \in Seq(S) /\ Len(q) \in Nat /\ Len(r) = Len(q) + 1 /\ Len(r) \in 1..Len(r) /\ r[Len(r)] = m
      /\ \A i \in 1..Len(q) : i \in 1..Len(r) /\ r[i] = q[i]
      /\ \A k \in 1..Len(r) : \/ k \in 1..Len(q) /\ r[k] = q[k]
                              \/ r[k] = m
  OBVIOUS
<1>2. \A i \in 1..Len(q) : ~Later(r, i, "LISTENING", n) =>
         ~Later(q, i, "LISTENING", n) /\ ~(m.type = "LISTENING" /\ m.of = n)
  BY <1>1, LaterJoined, HasSingle
<1>3. ~Later(r, Len(r), "LISTENING", n)
  BY <1>1 DEF Later
<1>4. ASSUME NEW i \in 1..Len(q), ~(m.type = "LISTENING" /\ m.of = n), Later(r, i, "LISTENING", n)
      PROVE  Later(q, i, "LISTENING", n)
  <2>1. PICK j \in 1..Len(r) : i < j /\ Is(r, j, "LISTENING", n)
    BY <1>4 DEF Later
  <2>2. j \in 1..Len(q) /\ r[j] = q[j]
    BY <1>1, <1>4, <2>1 DEF Is
  <2>. QED
    BY <2>1, <2>2 DEF Later, Is
<1>. HIDE DEF r
<1>5. ASSUME NEW k \in 1..Len(r), Is(r, k, "LISTENING", n), ~Later(r, k, "LISTENING", n)
      PROVE  \/ k \in 1..Len(q) /\ Is(q, k, "LISTENING", n) /\ ~Later(q, k, "LISTENING", n)
                /\ r[k] = q[k] /\ ~(m.type = "LISTENING" /\ m.of = n)
             \/ r[k] = m /\ m.type = "LISTENING" /\ m.of = n
  BY <1>1, <1>2, <1>5 DEF Is
<1>6. ASSUME LastYes(r, n)
      PROVE  IF m.type = "LISTENING" /\ m.of = n THEN m.ok ELSE LastYes(q, n)
  <2>1. PICK k \in 1..Len(r) : Is(r, k, "LISTENING", n) /\ r[k].ok /\ ~Later(r, k, "LISTENING", n)
    BY <1>6 DEF LastYes
  <2>. QED
    BY <1>5, <2>1, Zenon DEF LastYes
<1>7. ASSUME m.type = "LISTENING", m.of = n, m.ok PROVE LastYes(r, n)
  BY <1>1, <1>3, <1>7, Zenon DEF LastYes, Is
<1>8. ASSUME ~(m.type = "LISTENING" /\ m.of = n), LastYes(q, n) PROVE LastYes(r, n)
  <2>1. PICK k \in 1..Len(q) : Is(q, k, "LISTENING", n) /\ q[k].ok /\ ~Later(q, k, "LISTENING", n)
    BY <1>8 DEF LastYes
  <2>2. k \in 1..Len(r) /\ r[k] = q[k] /\ ~Later(r, k, "LISTENING", n)
    BY <1>1, <1>4, <1>8, <2>1
  <2>. QED
    BY <2>1, <2>2, Zenon DEF LastYes, Is
<1>. QED
  BY <1>6, <1>7, <1>8 DEF r

LEMMA WordTaken ==
  ASSUME NEW S, NEW q \in Seq(S), q # <<>>, NEW n
  PROVE  /\ LastYes(Tail(q), n) => LastYes(q, n)
         /\ Head(q).type = "LISTENING" /\ Head(q).of = n /\ ~Has(Tail(q), "LISTENING", n) /\ Head(q).ok =>
              LastYes(q, n)
         /\ LastYes(q, n) => \/ LastYes(Tail(q), n)
                             \/ /\ Head(q).type = "LISTENING" /\ Head(q).of = n /\ Head(q).ok
                                /\ ~Has(Tail(q), "LISTENING", n)
<1>. DEFINE r == Tail(q)
<1>1. /\ \A i \in 1..Len(r) : i + 1 \in 1..Len(q) /\ r[i] = q[i + 1]
      /\ \A i \in 1..Len(q) : i = 1 \/ \E k \in 1..Len(r) : i = k + 1
      /\ Head(q) = q[1] /\ 1 \in 1..Len(q)
  BY Taken
<1>2. \A i, j \in 1..Len(r) : i < j <=> i + 1 < j + 1
  BY Kept
<1>3. \A i \in 1..Len(r) : 1 < i + 1
  BY Taken
<1>4. /\ \A i \in 1..Len(r) : ~Later(r, i, "LISTENING", n) => ~Later(q, i + 1, "LISTENING", n)
      /\ ~Has(r, "LISTENING", n) => ~Later(q, 1, "LISTENING", n)
  BY LaterTaken
<1>. HIDE DEF r
<1>5. \A i \in 1..Len(r) : Is(r, i, "LISTENING", n) <=> Is(q, i + 1, "LISTENING", n)
  BY <1>1 DEF Is
<1>6. \A i \in 1..Len(r) : Later(r, i, "LISTENING", n) => Later(q, i + 1, "LISTENING", n)
  BY <1>1, <1>2, <1>5 DEF Later
<1>7. Has(r, "LISTENING", n) => Later(q, 1, "LISTENING", n)
  BY <1>1, <1>3, <1>5 DEF Later, Has
<1>8. ASSUME LastYes(r, n) PROVE LastYes(q, n)
  <2>1. PICK i \in 1..Len(r) : Is(r, i, "LISTENING", n) /\ r[i].ok /\ ~Later(r, i, "LISTENING", n)
    BY <1>8 DEF LastYes
  <2>2. i + 1 \in 1..Len(q) /\ Is(q, i + 1, "LISTENING", n) /\ q[i + 1].ok /\ ~Later(q, i + 1, "LISTENING", n)
    BY <1>1, <1>4, <1>5, <2>1
  <2>. QED
    BY <2>2, Zenon DEF LastYes
<1>9. ASSUME Head(q).type = "LISTENING", Head(q).of = n, ~Has(r, "LISTENING", n), Head(q).ok
      PROVE  LastYes(q, n)
  BY <1>1, <1>4, <1>9, Zenon DEF LastYes, Is
<1>10. ASSUME LastYes(q, n), ~LastYes(r, n)
       PROVE  /\ Head(q).type = "LISTENING" /\ Head(q).of = n /\ Head(q).ok
              /\ ~Has(r, "LISTENING", n)
  <2>1. PICK i \in 1..Len(q) : Is(q, i, "LISTENING", n) /\ q[i].ok /\ ~Later(q, i, "LISTENING", n)
    BY <1>10 DEF LastYes
  <2>2. ASSUME NEW k \in 1..Len(r), i = k + 1 PROVE FALSE
    <3>1. Is(r, k, "LISTENING", n) /\ r[k].ok /\ ~Later(r, k, "LISTENING", n)
      BY <1>1, <1>5, <1>6, <2>1, <2>2
    <3>. QED
      BY <1>10, <3>1, Zenon DEF LastYes
  <2>3. i = 1
    BY <1>1, <2>2
  <2>. QED
    BY <1>1, <1>7, <2>1, <2>3 DEF Is
<1>. QED
  BY <1>8, <1>9, <1>10 DEF r

LEMMA Empty ==
  /\ \A t, x : ~Has(<<>>, t, x)
  /\ \A t, n : ~LastIs(<<>>, t, n)
  /\ \A n : ~LastYes(<<>>, n)
  /\ Rising(<<>>)
BY DEF Has, LastIs, LastYes, Rising

LEMMA LastHas ==
  ASSUME NEW q, NEW t, NEW n, LastIs(q, t, n)
  PROVE  Has(q, t, n)
BY DEF LastIs, Has

LEMMA YesHas ==
  ASSUME NEW q, NEW n, LastYes(q, n)
  PROVE  Has(q, "LISTENING", n)
BY DEF LastYes, Has

-----------------------------------------------------------------------------
(* Packets.                                                                 *)

LEMMA Sets == /\ \A n \in Conns : <<"dial", n>> \in Dialled /\ <<"accept", n>> \in Accepted
              /\ Dialled \subseteq Streams /\ Accepted \subseteq Streams
              /\ Conns \subseteq Nat
              /\ \A s \in Dialled : \E n \in Conns : s = <<"dial", n>>
              /\ \A s \in Accepted : \E n \in Conns : s = <<"accept", n>>
BY NetRelayAssumption DEF NetRelayAssumption, Dialled, Accepted, Streams, Conns

LEMMA FewStreams == IsFiniteSet(Conns) /\ IsFiniteSet(Streams)
<1>1. IsFiniteSet(Conns)
  BY FS_Interval, NetRelayAssumption DEF NetRelayAssumption, Conns
<1>2. IsFiniteSet({"dial"}) /\ IsFiniteSet({"accept"})
  BY FS_Singleton
<1>3. IsFiniteSet(Dialled) /\ IsFiniteSet(Accepted)
  BY <1>1, <1>2, FS_Product DEF Dialled, Accepted, Conns
<1>. QED
  BY <1>1, <1>3, FS_Union DEF Streams

LEMMA Packets1 ==
  /\ \A s \in Streams, t \in {"CONNECT", "CLOSE"} : Pkt(t, s) \in ToRelay
  /\ \A n \in Ports, t \in {"LISTEN", "UNLISTEN"} : Pkt(t, n) \in ToRelay
  /\ \A s \in Dialled : Pkt("CONNECTED", s) \in ToClient
  /\ \A s \in Streams : Pkt("CLOSE", s) \in ToClient
  /\ \A s \in Accepted, n \in Ports : [type |-> "ACCEPT", of |-> s, port |-> n] \in ToClient
  /\ \A n \in Ports, b \in BOOLEAN : [type |-> "LISTENING", of |-> n, ok |-> b] \in ToClient
  /\ \A t, x : Pkt(t, x).type = t /\ Pkt(t, x).of = x
BY DEF Pkt, ToRelay, ToClient

LEMMA FromClient ==
  ASSUME NEW m \in ToRelay
  PROVE  \/ m.type \in {"CONNECT", "CLOSE"} /\ m.of \in Streams
         \/ m.type \in {"LISTEN", "UNLISTEN"} /\ m.of \in Ports
BY DEF ToRelay

LEMMA FromRelay ==
  ASSUME NEW m \in ToClient
  PROVE  \/ m.type = "CONNECTED" /\ m.of \in Dialled
         \/ m.type = "CLOSE" /\ m.of \in Streams
         \/ m.type = "ACCEPT" /\ m.of \in Accepted /\ m.port \in Ports
         \/ m.type = "LISTENING" /\ m.of \in Ports /\ m.ok \in BOOLEAN
BY DEF ToClient

LEMMA Listed ==
  ASSUME NEW T, IsFiniteSet(T)
  PROVE  /\ Cardinality(T) \in Nat
         /\ \A i \in 1..Cardinality(T) : SetToSeq(T)[i] \in T
         /\ \A x \in T : \E i \in 1..Cardinality(T) : SetToSeq(T)[i] = x
<1>. DEFINE N == 1..Cardinality(T)
<1>1. Cardinality(T) \in Nat /\ ExistsBijection(N, T)
  BY FS_CardinalityType
<1>2. PICK f \in Bijection(N, T) : TRUE
  BY <1>1, Zenon DEF ExistsBijection
<1>3. f \in [N -> T] /\ IsInjective(f)
  BY <1>2 DEF Bijection, Injection
<1>4. SetToSeq(T) \in [N -> T] /\ IsInjective(SetToSeq(T))
  BY <1>3, Zenon DEF SetToSeq
<1>5. IsFiniteSet(N) /\ Cardinality(N) = Cardinality(T)
  BY <1>1, FS_Interval
<1>6. SetToSeq(T) \in Injection(N, T)
  BY <1>4 DEF Injection
<1>7. SetToSeq(T) \in Surjection(N, T)
  BY <1>5, <1>6, FS_Injection
<1>. QED
  BY <1>1, <1>4, <1>7 DEF Surjection

Packing(t, T) == [i \in 1..Cardinality(T) |-> Pkt(t, SetToSeq(T)[i])]

LEMMA Packed ==
  ASSUME NEW S, NEW T, IsFiniteSet(T), NEW t, \A x \in T : Pkt(t, x) \in S
  PROVE  /\ Packing(t, T) \in Seq(S)
         /\ \A u, x : Has(Packing(t, T), u, x) <=> u = t /\ x \in T
<1>. DEFINE ps == Packing(t, T)
<1>1. /\ Cardinality(T) \in Nat
      /\ \A i \in 1..Cardinality(T) : SetToSeq(T)[i] \in T
      /\ \A x \in T : \E i \in 1..Cardinality(T) : SetToSeq(T)[i] = x
  BY Listed
<1>2. \A i \in 1..Cardinality(T) : ps[i] = Pkt(t, SetToSeq(T)[i]) /\ ps[i] \in S
  BY <1>1 DEF Packing
<1>3. ps \in Seq(S) /\ Len(ps) = Cardinality(T)
  BY <1>1, <1>2 DEF Packing
<1>. HIDE DEF ps
<1>4. \A i \in 1..Len(ps) : ps[i].type = t /\ ps[i].of = SetToSeq(T)[i]
  BY <1>2, <1>3, Packets1
<1>5. ASSUME NEW u, NEW x PROVE Has(ps, u, x) <=> u = t /\ x \in T
  BY <1>1, <1>3, <1>4 DEF Has, Is
<1>. QED
  BY <1>3, <1>5 DEF ps

-----------------------------------------------------------------------------
(* The streams: what each kind of step does to the invariant.               *)

LEMMA Queues == TypeOK => /\ Line \in Seq(ToRelay) /\ toClient \in Seq(ToClient)
                          /\ streams \subseteq Streams /\ sockets \subseteq Streams
BY DEF TypeOK, Line

(* Nothing that is said about streams changes. *)
LEMMA Same ==
  ASSUME Fresh, StreamInv, UNCHANGED <<streams, sockets, nextId, nextAcceptId>>,
         \A s \in Streams, t \in {"CONNECT", "CLOSE"} : Has(Line, t, s)' <=> Has(Line, t, s),
         \A s \in Streams, t \in {"ACCEPT", "CLOSE"} : Has(toClient, t, s)' <=> Has(toClient, t, s),
         \A s \in Streams : /\ Once(Line, "CONNECT", s) => Once(Line, "CONNECT", s)'
                            /\ Once(toClient, "ACCEPT", s) => Once(toClient, "ACCEPT", s)'
                            /\ Follows(Line, "CONNECT", "CLOSE", s) => Follows(Line, "CONNECT", "CLOSE", s)'
                            /\ Follows(toClient, "ACCEPT", "CLOSE", s) => Follows(toClient, "ACCEPT", "CLOSE", s)',
         TypeOK, Rising(toClient)'
  PROVE  (Fresh /\ StreamInv)'
<1>0. streams \subseteq Streams /\ sockets \subseteq Streams
  BY Queues
<1>1. Fresh'
  BY <1>0 DEF Fresh, Used
<1>2. Connecting' /\ Parting' /\ Over'
  BY DEF StreamInv, Connecting, Parting, Over
<1>3. Offered'
  BY DEF StreamInv, Offered
<1>4. Owned' /\ Carried'
  BY <1>0 DEF StreamInv, Owned, Carried
<1>. QED
  BY <1>1, <1>2, <1>3, <1>4 DEF StreamInv

(* The client gives up the streams S and tells the relay so. *)
LEMMA Says ==
  ASSUME TypeOK, Fresh, StreamInv, NEW ps \in Seq(ToRelay), NEW S \in SUBSET streams,
         Line' = Line \o ps, streams' = streams \ S,
         UNCHANGED <<toClient, sockets, nextId, nextAcceptId>>,
         \A s \in Streams : ~Has(ps, "CONNECT", s) /\ (Has(ps, "CLOSE", s) <=> s \in S)
  PROVE  (Fresh /\ StreamInv)'
<1>0. Line \in Seq(ToRelay) /\ streams \subseteq Streams /\ sockets \subseteq Streams
  BY Queues
<1>1. \A s \in Streams : /\ Has(Line', "CONNECT", s) <=> Has(Line, "CONNECT", s)
                         /\ Has(Line', "CLOSE", s) <=> Has(Line, "CLOSE", s) \/ s \in S
  BY <1>0, HasJoined, Zenon
<1>2. \A s \in Streams : Once(Line, "CONNECT", s) => Once(Line', "CONNECT", s)
  BY <1>0, OnceJoined, Zenon
<1>3. \A s \in Streams :
        Follows(Line, "CONNECT", "CLOSE", s) \/ s \in S => Follows(Line', "CONNECT", "CLOSE", s)
  BY <1>0, FollowsJoined, Zenon
<1>4. \A s \in S : ~Has(toClient, "ACCEPT", s)
  BY <1>0 DEF StreamInv, Offered
<1>5. Fresh'
  BY <1>0, <1>1 DEF Fresh, Used
<1>6. Connecting'
  BY <1>1, <1>2, <1>3 DEF StreamInv, Connecting
<1>7. Parting' /\ Over'
  BY <1>1, <1>4 DEF StreamInv, Parting, Over
<1>8. Offered'
  BY DEF StreamInv, Offered
<1>9. Owned' /\ Carried'
  BY <1>0, <1>1 DEF StreamInv, Owned, Carried
<1>. QED
  BY <1>5, <1>6, <1>7, <1>8, <1>9 DEF StreamInv

LEMMA Reset ==
  ASSUME streams' = {}, sockets' = {}, toClient' = <<>>,
         \A s \in Streams : ~Has(Line', "CONNECT", s) /\ ~Has(Line', "CLOSE", s)
  PROVE  (Fresh /\ StreamInv)'
<1>1. /\ \A t, x : ~Has(toClient', t, x)
      /\ Rising(toClient')
  BY Empty
<1>2. Fresh'
  BY <1>1 DEF Fresh
<1>3. StreamInv'
  BY <1>1 DEF StreamInv, Connecting, Parting, Over, Offered, Owned, Carried
<1>. QED
  BY <1>2, <1>3

LEMMA Dials ==
  ASSUME TypeOK, Fresh, StreamInv, nextId \in Conns, nextId' = nextId + 1,
         NEW d, d = <<"dial", nextId>>, NEW m, m = Pkt("CONNECT", d),
         streams' = streams \union {d}, Line' = Line \o <<m>>,
         UNCHANGED <<toClient, sockets, nextAcceptId>>
  PROVE  (Fresh /\ StreamInv)'
<1>0. /\ Line \in Seq(ToRelay) /\ streams \subseteq Streams /\ sockets \subseteq Streams
      /\ d \in Dialled /\ d \in Streams /\ m \in ToRelay /\ <<m>> \in Seq(ToRelay) /\ nextId \in Nat
  <2>1. d \in Dialled /\ d \in Streams /\ nextId \in Nat
    BY Sets
  <2>2. m \in ToRelay
    BY <2>1, Packets1
  <2>3. <<m>> \in Seq(ToRelay)
    BY <2>2
  <2>. QED
    BY <2>1, <2>2, <2>3, Queues
<1>1. ~Used(d) /\ Used(d)'
  BY <1>0 DEF Used
<1>2. \A s \in Streams : Used(s) => Used(s)' /\ s # d
  <2>1. \A s \in Streams : s[2] \in Nat
    BY Sets DEF Streams
  <2>. QED
    BY <1>0, <1>1, <2>1 DEF Used
<1>3. m.type = "CONNECT" /\ m.of = d
  BY Packets1
<1>4. \A t, x : Has(<<m>>, t, x) <=> t = "CONNECT" /\ x = d
  BY <1>3, HasSingle
<1>5. \A s \in Streams : \A t : Has(Line', t, s) <=> Has(Line, t, s) \/ (t = "CONNECT" /\ s = d)
  BY <1>0, <1>4, HasJoined
<1>6. Once(<<m>>, "CONNECT", d)
  BY DEF Once
<1>7. /\ d \notin streams /\ d \notin sockets
      /\ ~Has(Line, "CONNECT", d) /\ ~Has(Line, "CLOSE", d)
      /\ ~Has(toClient, "CLOSE", d) /\ ~Has(toClient, "ACCEPT", d)
  BY <1>0, <1>1 DEF Fresh
<1>8. \A s \in Streams : Has(Line', "CONNECT", s) => Once(Line', "CONNECT", s)
  <2>1. ASSUME NEW s \in Streams, Has(Line, "CONNECT", s) PROVE Once(Line', "CONNECT", s)
    <3>1. s # d /\ Once(Line, "CONNECT", s) /\ ~Has(<<m>>, "CONNECT", s)
      BY <1>4, <1>7, <2>1 DEF StreamInv, Connecting
    <3>. QED
      BY <1>0, <3>1, OnceJoined
  <2>2. Once(Line', "CONNECT", d)
    BY <1>0, <1>6, <1>7, OnceJoined
  <2>. QED
    BY <1>5, <2>1, <2>2
<1>9. \A s \in Streams : s # d /\ Follows(Line, "CONNECT", "CLOSE", s) => Follows(Line', "CONNECT", "CLOSE", s)
  <2>1. \A s \in Streams : s # d => ~Has(<<m>>, "CONNECT", s)
    BY <1>4
  <2>. QED
    BY <1>0, <2>1, FollowsJoined, Zenon
<1>11. Fresh'
  BY <1>0, <1>1, <1>2, <1>5 DEF Fresh
<1>12. Connecting'
  BY <1>5, <1>7, <1>8, <1>9 DEF StreamInv, Connecting
<1>13. Parting' /\ Over'
  BY <1>5, <1>7 DEF StreamInv, Parting, Over
<1>14. Offered'
  BY <1>7 DEF StreamInv, Offered
<1>15. Owned' /\ Carried'
  BY <1>0, <1>5 DEF StreamInv, Owned, Carried
<1>. QED
  BY <1>11, <1>12, <1>13, <1>14, <1>15 DEF StreamInv

(* A packet that is neither an offer nor an end of a stream in use. *)
LEMMA Reads ==
  ASSUME TypeOK, Fresh, StreamInv, toClient # <<>>, toClient' = Tail(toClient),
         Head(toClient).type # "ACCEPT",
         streams' = IF Head(toClient).type = "CLOSE" THEN streams \ {Head(toClient).of} ELSE streams,
         UNCHANGED <<Line, sockets, nextId, nextAcceptId>>
  PROVE  (Fresh /\ StreamInv)'
<1>. DEFINE h == Head(toClient)
            gone == {s \in Streams : h.type = "CLOSE" /\ h.of = s}
<1>0. /\ Line \in Seq(ToRelay) /\ toClient \in Seq(ToClient)
      /\ streams \subseteq Streams /\ sockets \subseteq Streams
  BY Queues
<1>1. streams' = streams \ gone
  BY <1>0
<1>2. \A s \in Streams : Has(toClient, "CLOSE", s) <=> s \in gone \/ Has(toClient', "CLOSE", s)
  BY <1>0, HasTaken, Zenon
<1>3. \A s \in Streams : Has(toClient, "ACCEPT", s) <=> Has(toClient', "ACCEPT", s)
  BY <1>0, HasTaken, Zenon
<1>4. \A s \in Streams : /\ Once(toClient, "ACCEPT", s) => Once(toClient', "ACCEPT", s)
                         /\ Follows(toClient, "ACCEPT", "CLOSE", s) => Follows(toClient', "ACCEPT", "CLOSE", s)
  BY <1>0, OnceTaken, FollowsTaken, Zenon
<1>5. Rising(toClient')
  BY <1>0, RisingTaken, Zenon DEF Fresh
<1>6. \A s \in gone : s \notin sockets /\ ~Has(Line, "CONNECT", s)
  BY <1>2 DEF StreamInv, Over, Connecting
<1>. HIDE DEF gone
<1>7. Fresh'
  BY <1>0, <1>1, <1>2, <1>3, <1>5 DEF Fresh, Used
<1>8. Connecting'
  BY <1>1, <1>2, <1>6 DEF StreamInv, Connecting
<1>9. Parting' /\ Over'
  BY <1>1, <1>2, <1>3 DEF StreamInv, Parting, Over
<1>10. Offered'
  BY <1>1, <1>3, <1>4 DEF StreamInv, Offered
<1>11. Owned' /\ Carried'
  BY <1>0, <1>1, <1>2, <1>3, <1>6 DEF StreamInv, Owned, Carried
<1>. QED
  BY <1>7, <1>8, <1>9, <1>10, <1>11 DEF StreamInv

LEMMA Welcomes ==
  ASSUME TypeOK, Fresh, StreamInv, toClient # <<>>, toClient' = Tail(toClient),
         NEW a, a = Head(toClient).of, Head(toClient).type = "ACCEPT", streams' = streams \union {a},
         UNCHANGED <<Line, sockets, nextId, nextAcceptId>>
  PROVE  (Fresh /\ StreamInv)'
<1>0. /\ Line \in Seq(ToRelay) /\ toClient \in Seq(ToClient)
      /\ streams \subseteq Streams /\ sockets \subseteq Streams
  BY Queues
<1>1. Head(toClient) \in ToClient
  BY <1>0, Taken
<1>2. a \in Streams /\ a \notin Dialled
  BY <1>1, FromRelay DEF Streams, Accepted, Dialled
<1>3. Has(toClient, "ACCEPT", a)
  BY <1>0, HasTaken
<1>4. \A s \in Streams : Has(toClient, "CLOSE", s) <=> Has(toClient', "CLOSE", s)
  BY <1>0, HasTaken, Zenon
<1>5. \A s \in Streams : Has(toClient', "ACCEPT", s) => s # a /\ Has(toClient, "ACCEPT", s)
  <2>1. ~Has(toClient', "ACCEPT", a)
    BY <1>0, <1>2, <1>3, OnceTaken, Zenon DEF StreamInv, Offered
  <2>. QED
    BY <1>0, <2>1, HasTaken, Zenon
<1>6. \A s \in Streams : s # a /\ Has(toClient, "ACCEPT", s) => Has(toClient', "ACCEPT", s)
  BY <1>0, HasTaken, Zenon
<1>7. \A s \in Streams : /\ Once(toClient, "ACCEPT", s) => Once(toClient', "ACCEPT", s)
                         /\ Follows(toClient, "ACCEPT", "CLOSE", s) => Follows(toClient', "ACCEPT", "CLOSE", s)
  BY <1>0, OnceTaken, FollowsTaken, Zenon
<1>8. Rising(toClient')
  BY <1>0, RisingTaken, Zenon DEF Fresh
<1>9. a \in sockets \/ Has(toClient', "CLOSE", a)
  BY <1>0, <1>2, <1>3, FollowsTaken, Zenon DEF StreamInv, Offered
<1>10. a \notin streams /\ ~Has(Line, "CLOSE", a) /\ ~Has(Line, "CONNECT", a) /\ Used(a)
  BY <1>2, <1>3 DEF StreamInv, Offered, Parting, Fresh
<1>11. Fresh'
  BY <1>0, <1>2, <1>4, <1>5, <1>8, <1>10 DEF Fresh, Used
<1>12. Connecting'
  BY <1>4 DEF StreamInv, Connecting
<1>13. Parting' /\ Over'
  BY <1>2, <1>4, <1>5, <1>10 DEF StreamInv, Parting, Over
<1>14. Offered'
  BY <1>5, <1>7 DEF StreamInv, Offered
<1>15. Owned' /\ Carried'
  BY <1>0, <1>4, <1>6, <1>9 DEF StreamInv, Owned, Carried
<1>. QED
  BY <1>11, <1>12, <1>13, <1>14, <1>15 DEF StreamInv

LEMMA Refuses ==
  ASSUME TypeOK, Fresh, StreamInv, toClient # <<>>, toClient' = Tail(toClient),
         NEW a, a = Head(toClient).of, Head(toClient).type = "ACCEPT",
         NEW m, m = Pkt("CLOSE", a), Line' = Line \o <<m>>,
         UNCHANGED <<streams, sockets, nextId, nextAcceptId>>
  PROVE  (Fresh /\ StreamInv)'
<1>0. /\ Line \in Seq(ToRelay) /\ toClient \in Seq(ToClient)
      /\ streams \subseteq Streams /\ sockets \subseteq Streams
  BY Queues
<1>1. Head(toClient) \in ToClient
  BY <1>0, Taken
<1>2. a \in Streams /\ a \notin Dialled
  BY <1>1, FromRelay DEF Streams, Accepted, Dialled
<1>3. Has(toClient, "ACCEPT", a)
  BY <1>0, HasTaken
<1>4. \A s \in Streams : Has(toClient, "CLOSE", s) <=> Has(toClient', "CLOSE", s)
  BY <1>0, HasTaken, Zenon
<1>5. \A s \in Streams : Has(toClient', "ACCEPT", s) => s # a /\ Has(toClient, "ACCEPT", s)
  <2>1. ~Has(toClient', "ACCEPT", a)
    BY <1>0, <1>2, <1>3, OnceTaken, Zenon DEF StreamInv, Offered
  <2>. QED
    BY <1>0, <2>1, HasTaken, Zenon
<1>6. \A s \in Streams : s # a /\ Has(toClient, "ACCEPT", s) => Has(toClient', "ACCEPT", s)
  BY <1>0, HasTaken, Zenon
<1>7. \A s \in Streams : /\ Once(toClient, "ACCEPT", s) => Once(toClient', "ACCEPT", s)
                         /\ Follows(toClient, "ACCEPT", "CLOSE", s) => Follows(toClient', "ACCEPT", "CLOSE", s)
  BY <1>0, OnceTaken, FollowsTaken, Zenon
<1>8. Rising(toClient')
  BY <1>0, RisingTaken, Zenon DEF Fresh
<1>9. a \notin streams /\ ~Has(Line, "CONNECT", a) /\ Used(a)
  BY <1>2, <1>3 DEF StreamInv, Offered, Parting, Fresh
<1>10. m.type = "CLOSE" /\ m.of = a /\ m \in ToRelay
  BY <1>2, Packets1
<1>11. <<m>> \in Seq(ToRelay)
  BY <1>10
<1>12. \A t, x : Has(<<m>>, t, x) <=> t = "CLOSE" /\ x = a
  BY <1>10, HasSingle
<1>13. \A s \in Streams : /\ Has(Line', "CONNECT", s) <=> Has(Line, "CONNECT", s)
                          /\ Has(Line', "CLOSE", s) <=> Has(Line, "CLOSE", s) \/ s = a
  <2>1. \A s \in Streams : \A t : Has(Line', t, s) <=> Has(Line, t, s) \/ Has(<<m>>, t, s)
    BY <1>0, <1>11, HasJoined, Zenon
  <2>. QED
    BY <1>12, <2>1
<1>14. \A s \in Streams : ~Has(<<m>>, "CONNECT", s)
  BY <1>12
<1>15. \A s \in Streams : /\ Once(Line, "CONNECT", s) => Once(Line', "CONNECT", s)
                          /\ Follows(Line, "CONNECT", "CLOSE", s) => Follows(Line', "CONNECT", "CLOSE", s)
  BY <1>0, <1>11, <1>14, OnceJoined, FollowsJoined, Zenon
<1>16. Fresh'
  BY <1>0, <1>2, <1>4, <1>5, <1>8, <1>9, <1>13 DEF Fresh, Used
<1>17. Connecting'
  BY <1>4, <1>13, <1>15 DEF StreamInv, Connecting
<1>18. Parting' /\ Over'
  BY <1>4, <1>5, <1>9, <1>13 DEF StreamInv, Parting, Over
<1>19. Offered'
  BY <1>5, <1>7 DEF StreamInv, Offered
<1>20. Owned' /\ Carried'
  BY <1>0, <1>4, <1>6, <1>13 DEF StreamInv, Owned, Carried
<1>. QED
  BY <1>16, <1>17, <1>18, <1>19, <1>20 DEF StreamInv

(* The relay reads a CONNECT or a CLOSE. *)
LEMMA Obeys ==
  ASSUME TypeOK, Fresh, StreamInv, Line # <<>>, Line' = Tail(Line),
         NEW d, d = Head(Line).of, Head(Line).type \in {"CONNECT", "CLOSE"},
         sockets' = IF Head(Line).type = "CONNECT" THEN sockets \union {d} ELSE sockets \ {d},
         UNCHANGED <<toClient, streams, nextId, nextAcceptId>>
  PROVE  (Fresh /\ StreamInv)'
<1>0. /\ Line \in Seq(ToRelay) /\ toClient \in Seq(ToClient)
      /\ streams \subseteq Streams /\ sockets \subseteq Streams
  BY Queues
<1>1. Head(Line) \in ToRelay
  BY <1>0, Taken
<1>2. d \in Streams
  BY <1>1, FromClient
<1>3. \A s \in Streams : \A t : Has(Line, t, s) <=> (Head(Line).type = t /\ d = s) \/ Has(Line', t, s)
  BY <1>0, HasTaken, Zenon
<1>4. \A s \in Streams : /\ Once(Line, "CONNECT", s) => Once(Line', "CONNECT", s)
                         /\ Follows(Line, "CONNECT", "CLOSE", s) => Follows(Line', "CONNECT", "CLOSE", s)
  BY <1>0, OnceTaken, FollowsTaken, Zenon
<1>5. Used(d) /\ Has(Line, Head(Line).type, d)
  BY <1>2, <1>3 DEF Fresh
<1>6. CASE Head(Line).type = "CONNECT"
  <2>1. sockets' = sockets \union {d}
    BY <1>6
  <2>2. ~Has(Line', "CONNECT", d)
    BY <1>0, <1>2, <1>5, <1>6, OnceTaken, Zenon DEF StreamInv, Connecting
  <2>3. d \in streams \/ Has(Line', "CLOSE", d)
    BY <1>0, <1>2, <1>5, <1>6, FollowsTaken, Zenon DEF StreamInv, Connecting
  <2>4. ~Has(toClient, "CLOSE", d)
    BY <1>2, <1>5, <1>6 DEF StreamInv, Connecting
  <2>5. Fresh'
    BY <1>0, <1>2, <1>3, <1>5, <2>1 DEF Fresh, Used
  <2>6. Connecting'
    BY <1>3, <1>4, <2>1, <2>2, <1>6 DEF StreamInv, Connecting
  <2>7. Parting' /\ Over'
    BY <1>3, <2>1, <2>4 DEF StreamInv, Parting, Over
  <2>8. Offered'
    BY <2>1 DEF StreamInv, Offered
  <2>9. Owned' /\ Carried'
    BY <1>0, <1>3, <1>6, <2>1, <2>3 DEF StreamInv, Owned, Carried
  <2>. QED
    BY <2>5, <2>6, <2>7, <2>8, <2>9 DEF StreamInv
<1>7. CASE Head(Line).type = "CLOSE"
  <2>1. sockets' = sockets \ {d}
    BY <1>7
  <2>2. d \notin streams /\ ~Has(toClient, "ACCEPT", d)
    BY <1>2, <1>5, <1>7 DEF StreamInv, Parting
  <2>3. Fresh'
    BY <1>0, <1>3, <2>1 DEF Fresh, Used
  <2>4. Connecting'
    BY <1>3, <1>4, <2>1, <1>7 DEF StreamInv, Connecting
  <2>5. Parting' /\ Over'
    BY <1>3, <2>1 DEF StreamInv, Parting, Over
  <2>6. Offered'
    BY <2>1, <2>2 DEF StreamInv, Offered
  <2>7. Owned' /\ Carried'
    BY <1>0, <1>3, <1>7, <2>1, <2>2 DEF StreamInv, Owned, Carried
  <2>. QED
    BY <2>3, <2>4, <2>5, <2>6, <2>7 DEF StreamInv
<1>. QED
  BY <1>6, <1>7

LEMMA Breaks ==
  ASSUME TypeOK, Fresh, StreamInv, NEW d \in sockets, NEW m, m = Pkt("CLOSE", d),
         toClient' = toClient \o <<m>>, sockets' = sockets \ {d},
         UNCHANGED <<Line, streams, nextId, nextAcceptId>>
  PROVE  (Fresh /\ StreamInv)'
<1>0. /\ Line \in Seq(ToRelay) /\ toClient \in Seq(ToClient)
      /\ streams \subseteq Streams /\ sockets \subseteq Streams /\ d \in Streams
  BY Queues
<1>1. m.type = "CLOSE" /\ m.of = d /\ m \in ToClient
  BY <1>0, Packets1
<1>2. <<m>> \in Seq(ToClient)
  BY <1>1
<1>3. \A t, x : Has(<<m>>, t, x) <=> t = "CLOSE" /\ x = d
  BY <1>1, HasSingle
<1>4. \A s \in Streams : \A t : Has(toClient', t, s) <=> Has(toClient, t, s) \/ Has(<<m>>, t, s)
  BY <1>0, <1>2, HasJoined, Zenon
<1>5. \A s \in Streams : ~Has(<<m>>, "ACCEPT", s)
  BY <1>3
<1>6. \A s \in Streams :
        /\ Once(toClient, "ACCEPT", s) => Once(toClient', "ACCEPT", s)
        /\ Follows(toClient, "ACCEPT", "CLOSE", s) \/ Has(<<m>>, "CLOSE", s) =>
             Follows(toClient', "ACCEPT", "CLOSE", s)
  BY <1>0, <1>2, <1>5, OnceJoined, FollowsJoined, Zenon
<1>7. Rising(toClient')
  BY <1>0, <1>1, RisingAdded DEF Fresh
<1>8. ~Has(Line, "CONNECT", d) /\ Used(d)
  BY <1>0 DEF StreamInv, Connecting, Fresh
<1>9. /\ \A s \in Streams : Has(toClient', "CLOSE", s) <=> Has(toClient, "CLOSE", s) \/ s = d
      /\ \A s \in Streams : Has(toClient', "ACCEPT", s) <=> Has(toClient, "ACCEPT", s)
  BY <1>3, <1>4
<1>10. Fresh'
  BY <1>0, <1>7, <1>8, <1>9 DEF Fresh, Used
<1>11. Connecting'
  BY <1>8, <1>9 DEF StreamInv, Connecting
<1>12. Parting' /\ Over'
  BY <1>9 DEF StreamInv, Parting, Over
<1>13. Offered'
  BY <1>3, <1>6, <1>9 DEF StreamInv, Offered
<1>14. Owned' /\ Carried'
  BY <1>0, <1>9 DEF StreamInv, Owned, Carried
<1>. QED
  BY <1>10, <1>11, <1>12, <1>13, <1>14 DEF StreamInv

LEMMA Offers ==
  ASSUME TypeOK, Fresh, StreamInv, nextAcceptId \in Conns, nextAcceptId' = nextAcceptId + 1,
         NEW d, d = <<"accept", nextAcceptId>>,
         NEW n \in Ports, NEW m, m = [type |-> "ACCEPT", of |-> d, port |-> n],
         toClient' = toClient \o <<m>>, sockets' = sockets \union {d},
         UNCHANGED <<Line, streams, nextId>>
  PROVE  (Fresh /\ StreamInv)'
<1>0. /\ Line \in Seq(ToRelay) /\ toClient \in Seq(ToClient)
      /\ streams \subseteq Streams /\ sockets \subseteq Streams
      /\ d \in Accepted /\ d \in Streams /\ d[1] = "accept" /\ d[2] = nextAcceptId /\ nextAcceptId \in Nat
  BY Queues, Sets
<1>1. m.type = "ACCEPT" /\ m.of = d /\ m \in ToClient
  BY <1>0, Packets1
<1>2. <<m>> \in Seq(ToClient)
  BY <1>1
<1>3. \A t, x : Has(<<m>>, t, x) <=> t = "ACCEPT" /\ x = d
  BY <1>1, HasSingle
<1>4. \A s \in Streams : \A t : Has(toClient', t, s) <=> Has(toClient, t, s) \/ Has(<<m>>, t, s)
  BY <1>0, <1>2, HasJoined, Zenon
<1>5. ~Used(d) /\ Used(d)'
  BY <1>0 DEF Used
<1>6. \A s \in Streams : Used(s) => Used(s)' /\ s # d
  <2>1. \A s \in Streams : s[2] \in Nat
    BY Sets DEF Streams
  <2>. QED
    BY <1>0, <1>5, <2>1 DEF Used
<1>7. /\ d \notin streams /\ d \notin sockets /\ d \notin Dialled
      /\ ~Has(Line, "CONNECT", d) /\ ~Has(Line, "CLOSE", d)
      /\ ~Has(toClient, "CLOSE", d) /\ ~Has(toClient, "ACCEPT", d)
  <2>1. d \notin Dialled
    BY <1>0 DEF Dialled
  <2>. QED
    BY <1>0, <1>5, <2>1 DEF Fresh
<1>8. \A s \in Streams : s # d => ~Has(<<m>>, "ACCEPT", s)
  BY <1>1, HasSingle
<1>9. \A s \in Streams : s # d =>
        /\ Once(toClient, "ACCEPT", s) => Once(toClient', "ACCEPT", s)
        /\ Follows(toClient, "ACCEPT", "CLOSE", s) => Follows(toClient', "ACCEPT", "CLOSE", s)
  BY <1>0, <1>2, <1>8, OnceJoined, FollowsJoined, Zenon
<1>10. Once(toClient', "ACCEPT", d)
  <2>1. Once(<<m>>, "ACCEPT", d)
    BY DEF Once
  <2>. QED
    BY <1>0, <1>2, <1>7, <2>1, OnceJoined, Zenon
<1>11. Rising(toClient')
  <2>1. ASSUME NEW i \in 1..Len(toClient), toClient[i].type = "ACCEPT"
        PROVE  toClient[i].of[2] < m.of[2]
    <3>1. toClient[i] \in ToClient
      BY <1>0
    <3>2. toClient[i].of \in Accepted
      BY <2>1, <3>1, FromRelay
    <3>3. Has(toClient, "ACCEPT", toClient[i].of)
      BY <2>1 DEF Has, Is
    <3>4. Used(toClient[i].of)
      BY <3>2, <3>3, Sets DEF Fresh
    <3>5. toClient[i].of[1] = "accept"
      BY <3>2, Sets
    <3>. QED
      BY <1>0, <1>1, <3>4, <3>5 DEF Used
  <2>. QED
    BY <1>0, <1>1, <2>1, RisingAdded DEF Fresh
<1>12. /\ \A s \in Streams : Has(toClient', "CLOSE", s) <=> Has(toClient, "CLOSE", s)
       /\ \A s \in Streams : Has(toClient', "ACCEPT", s) <=> Has(toClient, "ACCEPT", s) \/ s = d
  BY <1>1, <1>4, HasSingle, ZenonT(40)
<1>13. Fresh'
  BY <1>0, <1>5, <1>6, <1>11, <1>12 DEF Fresh
<1>14. Connecting'
  BY <1>7, <1>12 DEF StreamInv, Connecting
<1>15. Parting' /\ Over'
  BY <1>7, <1>12 DEF StreamInv, Parting, Over
<1>16. Offered'
  BY <1>7, <1>9, <1>10, <1>12 DEF StreamInv, Offered
<1>17. Owned' /\ Carried'
  BY <1>0, <1>12 DEF StreamInv, Owned, Carried
<1>. QED
  BY <1>13, <1>14, <1>15, <1>16, <1>17 DEF StreamInv

-----------------------------------------------------------------------------
(* The kernel's tables.                                                     *)

TableTypes ==
  /\ \E C \in SUBSET Conns : pipeConns \in [C -> Procs] /\ netStreamByConn \in [C -> Streams]
  /\ \E S \in SUBSET Streams : netConnByStream \in [S -> Conns]
  /\ netPending \subseteq Conns
  /\ told \in [Conns -> {"nothing", "dialing", "connected", "closed"}]

LEMMA Tables ==
  ASSUME TypeOK
  PROVE  /\ TableTypes
         /\ DOMAIN pipeConns = Known /\ Known \subseteq Conns
         /\ \A c \in Known : pipeConns[c] \in Procs /\ netStreamByConn[c] \in Streams
         /\ DOMAIN netConnByStream \subseteq Streams
         /\ \A s \in DOMAIN netConnByStream : netConnByStream[s] \in Conns
<1>1. TableTypes
  BY DEF TypeOK, TableTypes
<1>2. PICK C \in SUBSET Conns : pipeConns \in [C -> Procs] /\ netStreamByConn \in [C -> Streams]
  BY <1>1 DEF TableTypes
<1>3. PICK S \in SUBSET Streams : netConnByStream \in [S -> Conns]
  BY <1>1 DEF TableTypes
<1>. QED
  BY <1>1, <1>2, <1>3 DEF Known

LEMMA Forgets ==
  ASSUME TypeOK, NEW cs, Forget(cs)
  PROVE  /\ TableTypes'
         /\ Known' = Known \ cs
         /\ \A c \in Known \ cs : netStreamByConn'[c] = netStreamByConn[c]
         /\ DOMAIN netConnByStream' = {s \in DOMAIN netConnByStream : netConnByStream[s] \notin cs}
         /\ \A s \in DOMAIN netConnByStream' : netConnByStream'[s] = netConnByStream[s]
<1>. DEFINE D == {s \in DOMAIN netConnByStream : netConnByStream[s] \notin cs}
<1>0. /\ DOMAIN pipeConns = Known /\ Known \subseteq Conns
      /\ \A c \in Known : pipeConns[c] \in Procs /\ netStreamByConn[c] \in Streams
      /\ DOMAIN netConnByStream \subseteq Streams
      /\ \A s \in DOMAIN netConnByStream : netConnByStream[s] \in Conns
  BY Tables
<1>1. pipeConns' = [c \in Known \ cs |-> pipeConns[c]]
      /\ netStreamByConn' = [c \in Known \ cs |-> netStreamByConn[c]]
      /\ netConnByStream' = [s \in D |-> netConnByStream[s]]
  BY <1>0 DEF Forget, Restrict
<1>2. /\ pipeConns' \in [Known \ cs -> Procs] /\ netStreamByConn' \in [Known \ cs -> Streams]
      /\ Known \ cs \in SUBSET Conns
  BY <1>0, <1>1
<1>3. netConnByStream' \in [D -> Conns] /\ D \in SUBSET Streams
  BY <1>0, <1>1
<1>4. netPending' \subseteq Conns /\ told' \in [Conns -> {"nothing", "dialing", "connected", "closed"}]
  BY DEF Forget, TypeOK
<1>5. TableTypes'
  <2>1. \E C \in SUBSET Conns : pipeConns' \in [C -> Procs] /\ netStreamByConn' \in [C -> Streams]
    BY <1>2
  <2>2. \E S \in SUBSET Streams : netConnByStream' \in [S -> Conns]
    BY <1>3
  <2>. QED
    BY <1>4, <2>1, <2>2 DEF TableTypes
<1>6. Known' = Known \ cs
  BY <1>1 DEF Known
<1>. QED
  BY <1>1, <1>5, <1>6

LEMMA ForgetsRelation ==
  ASSUME TypeOK, Relation, NEW cs \in SUBSET Known, Forget(cs),
         streams' = streams \ {netStreamByConn[c] : c \in cs}, nextPipeConnId' = nextPipeConnId
  PROVE  Relation'
<1>0. /\ Known \subseteq Conns
      /\ Known' = Known \ cs
      /\ \A c \in Known \ cs : netStreamByConn'[c] = netStreamByConn[c]
      /\ DOMAIN netConnByStream' = {s \in DOMAIN netConnByStream : netConnByStream[s] \notin cs}
      /\ \A s \in DOMAIN netConnByStream' : netConnByStream'[s] = netConnByStream[s]
  BY Forgets, Tables
<1>1. \A c \in Known' : /\ c < nextPipeConnId' /\ netStreamByConn'[c] \in DOMAIN netConnByStream'
                        /\ netConnByStream'[netStreamByConn'[c]] = c
  BY <1>0 DEF Relation
<1>2. \A s \in DOMAIN netConnByStream' : netConnByStream'[s] \in Known' /\ netStreamByConn'[netConnByStream'[s]] = s
  BY <1>0 DEF Relation
<1>3. streams' = DOMAIN netConnByStream'
  BY <1>0 DEF Relation
<1>4. told' = [c \in Conns |-> IF c \in cs THEN "closed" ELSE told[c]] /\ netPending' = netPending \ cs
  BY DEF Forget
<1>5. \A c \in Conns : told'[c] \in {"dialing", "connected"} <=> c \in Known'
  BY <1>0, <1>4 DEF Relation
<1>6. netPending' = {c \in Conns : told'[c] = "dialing"}
  BY <1>4 DEF Relation
<1>. QED
  BY <1>1, <1>2, <1>3, <1>5, <1>6 DEF Relation

LEMMA Opens1 ==
  ASSUME TypeOK, nextPipeConnId \in Conns, NEW p \in Procs, NEW s \in Streams,
         NEW how \in {"dialing", "connected"}, Opened(p, s, how)
  PROVE  /\ TableTypes'
         /\ Known' = Known \union {nextPipeConnId}
         /\ netStreamByConn' = [x \in Known' |-> IF x = nextPipeConnId THEN s ELSE netStreamByConn[x]]
         /\ DOMAIN netConnByStream' = DOMAIN netConnByStream \union {s}
         /\ \A x \in DOMAIN netConnByStream' : netConnByStream'[x] = IF x = s THEN nextPipeConnId ELSE netConnByStream[x]
<1>. DEFINE c == nextPipeConnId
<1>0. /\ DOMAIN pipeConns = Known /\ Known \subseteq Conns
      /\ \A x \in Known : pipeConns[x] \in Procs /\ netStreamByConn[x] \in Streams
      /\ DOMAIN netConnByStream \subseteq Streams
      /\ \A x \in DOMAIN netConnByStream : netConnByStream[x] \in Conns
  BY Tables
<1>1. /\ pipeConns' = [x \in Known \union {c} |-> IF x = c THEN p ELSE pipeConns[x]]
      /\ netStreamByConn' = [x \in Known \union {c} |-> IF x = c THEN s ELSE netStreamByConn[x]]
      /\ netConnByStream' = [x \in DOMAIN netConnByStream \union {s} |-> IF x = s THEN c ELSE netConnByStream[x]]
      /\ netPending' = IF how = "dialing" THEN netPending \union {c} ELSE netPending
      /\ told' = [told EXCEPT ![c] = how]
  BY DEF Opened
<1>2. /\ pipeConns' \in [Known \union {c} -> Procs] /\ netStreamByConn' \in [Known \union {c} -> Streams]
      /\ Known \union {c} \in SUBSET Conns
  BY <1>0, <1>1
<1>3. netConnByStream' \in [DOMAIN netConnByStream \union {s} -> Conns] /\ DOMAIN netConnByStream \union {s} \in SUBSET Streams
  BY <1>0, <1>1
<1>4. netPending' \subseteq Conns /\ told' \in [Conns -> {"nothing", "dialing", "connected", "closed"}]
  BY <1>1 DEF TypeOK
<1>5. TableTypes'
  <2>1. \E C \in SUBSET Conns : pipeConns' \in [C -> Procs] /\ netStreamByConn' \in [C -> Streams]
    BY <1>2
  <2>2. \E S \in SUBSET Streams : netConnByStream' \in [S -> Conns]
    BY <1>3
  <2>. QED
    BY <1>4, <2>1, <2>2 DEF TableTypes
<1>6. Known' = Known \union {c}
  BY <1>1 DEF Known
<1>. QED
  BY <1>1, <1>5, <1>6

LEMMA OpensRelation ==
  ASSUME TypeOK, Relation, nextPipeConnId \in Conns, NEW p \in Procs, NEW s \in Streams, s \notin streams,
         NEW how \in {"dialing", "connected"}, Opened(p, s, how), streams' = streams \union {s}
  PROVE  Relation'
<1>. DEFINE c == nextPipeConnId
<1>0. /\ Known \subseteq Conns /\ Conns \subseteq Nat
      /\ Known' = Known \union {c}
      /\ netStreamByConn' = [x \in Known' |-> IF x = c THEN s ELSE netStreamByConn[x]]
      /\ DOMAIN netConnByStream' = DOMAIN netConnByStream \union {s}
      /\ \A x \in DOMAIN netConnByStream' : netConnByStream'[x] = IF x = s THEN c ELSE netConnByStream[x]
      /\ nextPipeConnId' = c + 1
  BY Opens1, Tables, Sets DEF Opened
<1>1. c \notin Known /\ s \notin DOMAIN netConnByStream
  BY <1>0 DEF Relation
<1>2. \A x \in Known' : x < nextPipeConnId'
  BY <1>0 DEF Relation
<1>3. \A x \in Known' : /\ netStreamByConn'[x] \in DOMAIN netConnByStream'
                        /\ netConnByStream'[netStreamByConn'[x]] = x
  BY <1>0, <1>1 DEF Relation
<1>4. \A x \in DOMAIN netConnByStream' : netConnByStream'[x] \in Known' /\ netStreamByConn'[netConnByStream'[x]] = x
  BY <1>0, <1>1 DEF Relation
<1>5. streams' = DOMAIN netConnByStream'
  BY <1>0 DEF Relation
<1>6. told' = [told EXCEPT ![c] = how] /\ netPending' = (IF how = "dialing" THEN netPending \union {c} ELSE netPending)
      /\ told \in [Conns -> {"nothing", "dialing", "connected", "closed"}]
  BY DEF Opened, TypeOK
<1>7. \A x \in Conns : told'[x] \in {"dialing", "connected"} <=> x \in Known'
  BY <1>0, <1>6 DEF Relation
<1>8. netPending' = {x \in Conns : told'[x] = "dialing"}
  BY <1>1, <1>6 DEF Relation
<1>. QED
  BY <1>2, <1>3, <1>4, <1>5, <1>7, <1>8 DEF Relation

-----------------------------------------------------------------------------
(* The ports: what each kind of step does to the invariant.                 *)

(* The client asks for the ports A and gives up the ports R. *)
LEMMA Requests ==
  ASSUME TypeOK, PortInv, NEW ps \in Seq(ToRelay), NEW A \in SUBSET Ports, NEW R \in SUBSET Ports,
         A \intersect R = {},
         \A n \in Ports : (Has(ps, "LISTEN", n) <=> n \in A) /\ (Has(ps, "UNLISTEN", n) <=> n \in R),
         Line' = Line \o ps, ws = "open" => toRelay' = toRelay \o ps, ws' = "open" <=> ws = "open",
         listening' = (listening \ R) \union A, confirmed' = confirmed \ R,
         listening' = IF netRelay' THEN {n \in Ports : listeners'[n] # None} ELSE {},
         UNCHANGED <<servers, binding, late, bound, refused, toClient>>
  PROVE  PortInv'
<1>0. Line \in Seq(ToRelay) /\ toRelay \in Seq(ToRelay) /\ toClient \in Seq(ToClient)
  BY Queues DEF TypeOK
<1>1. \A n \in Ports : \A t : LastIs(Line', t, n) => Has(ps, t, n) \/ (n \notin A \union R /\ LastIs(Line, t, n))
  <2>1. \A n \in Ports : \A t : LastIs(Line', t, n) => Has(ps, t, n) \/ (~Asked(ps, n) /\ LastIs(Line, t, n))
    BY <1>0, LastJoined, LastHas, Zenon
  <2>2. \A n \in Ports : ~Asked(ps, n) => n \notin A \union R
    BY DEF Asked
  <2>. QED
    BY <2>1, <2>2, Zenon
<1>2. Wanted'
  <2>1. ASSUME NEW n \in Ports, LastIs(Line', "LISTEN", n) PROVE n \in listening'
    BY <1>1, <2>1 DEF PortInv, Wanted
  <2>2. ASSUME NEW n \in Ports, LastIs(Line', "UNLISTEN", n) PROVE n \notin listening'
    BY <1>1, <2>2 DEF PortInv, Wanted
  <2>. QED
    BY <2>1, <2>2, Zenon DEF Wanted
<1>3. ASSUME ws = "open", NEW n \in Ports, ~Asked(toRelay', n)
      PROVE  ~Asked(toRelay, n) /\ n \notin A \union R
  <2>1. toRelay' = toRelay \o ps
    BY <1>3
  <2>2. \A t : Has(toRelay \o ps, t, n) <=> Has(toRelay, t, n) \/ Has(ps, t, n)
    BY <1>0, HasJoined, Zenon
  <2>. QED
    BY <1>3, <2>1, <2>2 DEF Asked
<1>4. Bound'
  BY <1>3 DEF PortInv, Bound
<1>5. Heard'
  <2>1. \A n \in Ports : /\ Granted(n)' => Granted(n)
                         /\ n \notin R => (Granted(n)' <=> Granted(n))
    BY DEF Granted
  <2>2. \A n \in listening' : n \in A \/ n \in listening \ R
    OBVIOUS
  <2>3. ASSUME ws = "open", NEW n \in listening', ~Asked(toRelay', n)
        PROVE  n \in listening /\ ~Asked(toRelay, n) /\ (Granted(n)' <=> Granted(n))
    <3>1. n \in Ports
      BY DEF TypeOK
    <3>. QED
      BY <1>3, <2>1, <2>2, <2>3, <3>1
  <2>4. \A n \in Ports : Granted(n)' => n \notin refused'
    BY <2>1 DEF PortInv, Heard
  <2>. QED
    BY <2>3, <2>4 DEF PortInv, Heard
<1>. QED
  BY <1>2, <1>4, <1>5 DEF PortInv

(* The client hears a packet, and may answer, but not about a port. *)
LEMMA Hears ==
  ASSUME TypeOK, PortInv, toClient # <<>>, toClient' = Tail(toClient), ws = "open", ws' = ws,
         \A n \in Ports : Asked(toRelay', n) <=> Asked(toRelay, n),
         \A n \in Ports, t \in {"LISTEN", "UNLISTEN"} : LastIs(Line', t, n) => LastIs(Line, t, n),
         NEW h, h = Head(toClient),
         confirmed' = IF h.type = "LISTENING"
                      THEN IF h.ok /\ h.of \in listening THEN confirmed \union {h.of} ELSE confirmed \ {h.of}
                      ELSE confirmed,
         UNCHANGED <<listening, netRelay, listeners, servers, binding, late, bound, refused>>
  PROVE  PortInv'
<1>0. toClient \in Seq(ToClient)
  BY Queues
<1>1. Wanted'
  BY DEF PortInv, Wanted
<1>2. Bound'
  BY DEF PortInv, Bound
<1>3. ASSUME NEW n \in Ports
      PROVE  /\ Granted(n)' => Granted(n)
             /\ n \in listening => (Granted(n)' <=> Granted(n))
  <2>1. /\ LastYes(toClient', n) => LastYes(toClient, n)
        /\ h.type = "LISTENING" /\ h.of = n /\ ~Has(toClient', "LISTENING", n) /\ h.ok => LastYes(toClient, n)
        /\ LastYes(toClient, n) => \/ LastYes(toClient', n)
                                   \/ /\ h.type = "LISTENING" /\ h.of = n /\ h.ok
                                      /\ ~Has(toClient', "LISTENING", n)
    BY <1>0, WordTaken, Zenon
  <2>2. Has(toClient, "LISTENING", n) <=> (h.type = "LISTENING" /\ h.of = n) \/ Has(toClient', "LISTENING", n)
    BY <1>0, HasTaken, Zenon
  <2>3. CASE h.type = "LISTENING" /\ h.of = n
    <3>1. confirmed' = IF h.ok /\ n \in listening THEN confirmed \union {n} ELSE confirmed \ {n}
      BY <2>3
    <3>2. n \in confirmed' <=> h.ok /\ n \in listening
      BY <3>1
    <3>. QED
      BY <2>1, <2>2, <2>3, <3>2 DEF Granted
  <2>4. CASE ~(h.type = "LISTENING" /\ h.of = n)
    <3>1. n \in confirmed' <=> n \in confirmed
      BY <2>4
    <3>. QED
      BY <2>1, <2>2, <2>4, <3>1 DEF Granted
  <2>. QED
    BY <2>3, <2>4
<1>4. Heard'
  <2>1. listening \subseteq Ports
    BY DEF TypeOK
  <2>2. \A n \in listening : n \in Ports
    BY <2>1
  <2>3. \A n \in Ports : Granted(n)' => n \notin refused'
    BY <1>3 DEF PortInv, Heard
  <2>4. ASSUME NEW n \in listening', ~Asked(toRelay', n)
        PROVE  n \in listening /\ ~Asked(toRelay, n) /\ (Granted(n)' <=> Granted(n))
    BY <1>3, <2>2, <2>4
  <2>. QED
    BY <2>3, <2>4 DEF PortInv, Heard
<1>. QED
  BY <1>1, <1>2, <1>4 DEF PortInv

(* The relay says something, but not about a port; the client's line may    *)
(* lose a packet that was not about a port either.                          *)
LEMMA Tells ==
  ASSUME TypeOK, PortInv,
         UNCHANGED <<ws, listening, netRelay, listeners, servers, binding, late, bound, refused, confirmed>>,
         \A n \in Ports : Asked(toRelay', n) <=> Asked(toRelay, n),
         \A n \in Ports, t \in {"LISTEN", "UNLISTEN"} : LastIs(Line', t, n) => LastIs(Line, t, n),
         \A n \in Ports : Granted(n)' <=> Granted(n)
  PROVE  PortInv'
<1>1. Wanted'
  BY DEF PortInv, Wanted
<1>2. Bound'
  BY DEF PortInv, Bound
<1>3. Heard'
  <2>1. \A n \in listening : n \in Ports
    BY DEF TypeOK
  <2>. QED
    BY <2>1 DEF PortInv, Heard
<1>. QED
  BY <1>1, <1>2, <1>3 DEF PortInv

(* The relay reads a request about port n. *)
LEMMA Asks ==
  ASSUME TypeOK, PortInv, ws = "open", ws' = ws, toRelay # <<>>, toRelay' = Tail(toRelay),
         NEW t \in {"LISTEN", "UNLISTEN"}, NEW n \in Ports, Head(toRelay).type = t, Head(toRelay).of = n,
         UNCHANGED <<listening, netRelay, listeners>>
  PROVE  /\ Wanted'
         /\ ~Asked(toRelay', n) => (n \in listening <=> t = "LISTEN")
         /\ \A k \in Ports : k # n => (Asked(toRelay', k) <=> Asked(toRelay, k))
<1>0. /\ toRelay \in Seq(ToRelay)
      /\ Line = toRelay /\ Line' = toRelay'
  BY DEF TypeOK, Line
<1>1. \A k, u : LastIs(Tail(toRelay), u, k) => LastIs(toRelay, u, k)
  BY <1>0, LastTaken, Zenon
<1>2. Wanted'
  BY <1>0, <1>1 DEF PortInv, Wanted
<1>3. ASSUME ~Asked(toRelay', n) PROVE n \in listening <=> t = "LISTEN"
  <2>1. LastIs(toRelay, t, n)
    BY <1>0, <1>3, LastTaken
  <2>. QED
    BY <1>0, <2>1 DEF PortInv, Wanted
<1>4. ASSUME NEW k \in Ports, k # n PROVE Asked(toRelay', k) <=> Asked(toRelay, k)
  <2>1. \A u : Has(toRelay, u, k) <=> Has(Tail(toRelay), u, k)
    BY <1>0, <1>4, HasTaken, Zenon
  <2>. QED
    BY <2>1 DEF Asked
<1>. QED
  BY <1>2, <1>3, <1>4

(* The relay gives its word on port n. *)
LEMMA Word ==
  ASSUME toClient \in Seq(ToClient), NEW n \in Ports, NEW ok \in BOOLEAN,
         toClient' = toClient \o <<Listening(n, ok)>>, UNCHANGED confirmed
  PROVE  \A k : Granted(k)' <=> IF k = n THEN ok ELSE Granted(k)
<1>1. PICK m : m = Listening(n, ok)
  OBVIOUS
<1>2. m \in ToClient /\ m.type = "LISTENING" /\ m.of = n /\ m.ok = ok
  BY <1>1, Packets1 DEF Listening
<1>3. <<m>> \in Seq(ToClient)
  BY <1>2
<1>4. \A k : /\ LastYes(toClient \o <<m>>, k) =>
                  IF m.type = "LISTENING" /\ m.of = k THEN m.ok ELSE LastYes(toClient, k)
             /\ m.type = "LISTENING" /\ m.of = k /\ m.ok => LastYes(toClient \o <<m>>, k)
             /\ ~(m.type = "LISTENING" /\ m.of = k) /\ LastYes(toClient, k) => LastYes(toClient \o <<m>>, k)
  BY ONLY toClient \in Seq(ToClient), <1>2, WordAdded, Zenon
<1>5. \A k : Has(toClient \o <<m>>, "LISTENING", k) <=> Has(toClient, "LISTENING", k) \/ Has(<<m>>, "LISTENING", k)
  BY <1>3, HasJoined, Zenon
<1>6. \A k : Has(<<m>>, "LISTENING", k) <=> k = n
  BY <1>2, HasSingle
<1>7. toClient' = toClient \o <<m>>
  BY <1>1
<1>8. ASSUME NEW k PROVE Granted(k)' <=> IF k = n THEN ok ELSE Granted(k)
  <2>1. CASE k = n
    BY <1>2, <1>4, <1>5, <1>6, <1>7, <2>1, Zenon DEF Granted
  <2>2. CASE k # n
    BY <1>2, <1>4, <1>5, <1>6, <1>7, <2>2, Zenon DEF Granted
  <2>. QED
    BY <2>1, <2>2
<1>. QED
  BY <1>8

(* The relay is asked for a port that its map has, and says so. *)
LEMMA Confirms ==
  ASSUME TypeOK, PortInv, ws = "open", ws' = ws, toRelay # <<>>, toRelay' = Tail(toRelay),
         NEW n \in servers, Head(toRelay).type = "LISTEN", Head(toRelay).of = n,
         refused' = refused \ {n}, toClient' = toClient \o <<Listening(n, TRUE)>>,
         UNCHANGED <<servers, binding, late, bound, listening, netRelay, listeners, confirmed>>
  PROVE  PortInv'
<1>1. n \in Ports /\ toClient \in Seq(ToClient) /\ \A k \in listening : k \in Ports
  BY DEF TypeOK
<1>2. /\ Wanted'
      /\ ~Asked(toRelay', n) => n \in listening
      /\ \A k \in Ports : k # n => (Asked(toRelay', k) <=> Asked(toRelay, k))
  BY <1>1, Asks
<1>3. \A k : Granted(k)' <=> IF k = n THEN TRUE ELSE Granted(k)
  BY <1>1, Word
<1>4. Bound'
  BY <1>2 DEF PortInv, Bound
<1>5. Heard'
  <2>1. \A k \in Ports : Granted(k)' => k \notin refused'
    BY <1>3 DEF PortInv, Heard
  <2>2. /\ n \in bound \union binding
        /\ n \in servers \ binding => Granted(n)'
        /\ Granted(n)'
    BY <1>3 DEF PortInv, Bound
  <2>3. ASSUME NEW k \in listening, k # n, ~Asked(toRelay', k)
        PROVE  /\ Granted(k)' => k \in bound \union binding
               /\ k \in servers \ binding => Granted(k)'
               /\ Granted(k)' \/ k \in refused' \union binding
    BY <1>1, <1>2, <1>3, <2>3 DEF PortInv, Heard
  <2>. QED
    BY <2>1, <2>2, <2>3 DEF Heard
<1>. QED
  BY <1>2, <1>4, <1>5 DEF PortInv

(* The relay enters a server in its map. *)
LEMMA Registers ==
  ASSUME TypeOK, PortInv, ws = "open", ws' = ws, toRelay # <<>>, toRelay' = Tail(toRelay),
         NEW n \in Ports, Head(toRelay).type = "LISTEN", Head(toRelay).of = n,
         servers' = servers \union {n}, binding' = binding \union {n}, n \notin servers,
         UNCHANGED <<late, bound, refused, toClient, listening, netRelay, listeners, confirmed>>
  PROVE  PortInv'
<1>1. \A k \in listening : k \in Ports
  BY DEF TypeOK
<1>2. /\ Wanted'
      /\ ~Asked(toRelay', n) => n \in listening
      /\ \A k \in Ports : k # n => (Asked(toRelay', k) <=> Asked(toRelay, k))
  BY Asks
<1>3. \A k : Granted(k)' <=> Granted(k)
  BY DEF Granted
<1>4. Bound'
  BY <1>2 DEF PortInv, Bound
<1>5. Heard'
  <2>1. \A k \in Ports : Granted(k)' => k \notin refused'
    BY <1>3 DEF PortInv, Heard
  <2>2. n \in binding'
    OBVIOUS
  <2>3. ASSUME NEW k \in listening, k # n, ~Asked(toRelay', k)
        PROVE  /\ Granted(k)' => k \in bound \union binding'
               /\ k \in servers' \ binding' => Granted(k)'
               /\ Granted(k)' \/ k \in refused \union binding'
    BY <1>1, <1>2, <1>3, <2>3 DEF PortInv, Heard
  <2>. QED
    BY <2>1, <2>2, <2>3 DEF Heard
<1>. QED
  BY <1>2, <1>4, <1>5 DEF PortInv

(* The relay is told to give a port up. *)
LEMMA Unbinds ==
  ASSUME TypeOK, PortInv, ws = "open", ws' = ws, toRelay # <<>>, toRelay' = Tail(toRelay),
         NEW n \in Ports, Head(toRelay).type = "UNLISTEN", Head(toRelay).of = n,
         servers' = servers \ {n}, binding' = binding \ {n}, bound' \in {bound, bound \ {n}},
         UNCHANGED <<listening, netRelay, listeners, confirmed, refused, toClient>>
  PROVE  PortInv'
<1>1. \A k \in listening : k \in Ports
  BY DEF TypeOK
<1>2. /\ Wanted'
      /\ ~Asked(toRelay', n) => n \notin listening
      /\ \A k \in Ports : k # n => (Asked(toRelay', k) <=> Asked(toRelay, k))
  BY Asks
<1>3. \A k : Granted(k)' <=> Granted(k)
  BY DEF Granted
<1>4. Bound'
  BY <1>2 DEF PortInv, Bound
<1>5. Heard'
  <2>1. \A k \in Ports : Granted(k)' => k \notin refused'
    BY <1>3 DEF PortInv, Heard
  <2>2. ASSUME NEW k \in listening, k # n, ~Asked(toRelay', k)
        PROVE  /\ Granted(k)' => k \in bound' \union binding'
               /\ k \in servers' \ binding' => Granted(k)'
               /\ Granted(k)' \/ k \in refused \union binding'
    BY <1>1, <1>2, <1>3, <2>2 DEF PortInv, Heard
  <2>. QED
    BY <1>2, <2>1, <2>2 DEF Heard
<1>. QED
  BY <1>2, <1>4, <1>5 DEF PortInv

(* A server of port n binds, or fails to, and the relay says so. *)
LEMMA Settles ==
  ASSUME TypeOK, PortInv, NEW n \in Ports, NEW ok \in BOOLEAN,
         toClient' = toClient \o <<Listening(n, ok)>>,
         ok => bound' = bound \union {n} /\ binding' \in {binding, binding \ {n}}
               /\ UNCHANGED servers /\ refused' = refused \ {n},
         ~ok => binding' = binding \ {n} /\ servers' = servers \ {n}
                /\ UNCHANGED bound /\ refused' = refused \union {n},
         UNCHANGED <<ws, queue, toRelay, listening, netRelay, listeners, confirmed>>
  PROVE  PortInv'
<1>1. toClient \in Seq(ToClient) /\ \A k \in listening : k \in Ports
  BY DEF TypeOK
<1>2. Line' = Line
  BY DEF Line
<1>3. \A k : Granted(k)' <=> IF k = n THEN ok ELSE Granted(k)
  BY <1>1, Word
<1>4. Wanted'
  BY <1>2 DEF PortInv, Wanted
<1>5. Bound'
  BY DEF PortInv, Bound
<1>6. Heard'
  <2>1. \A k \in Ports : Granted(k)' => k \notin refused'
    BY <1>3 DEF PortInv, Heard
  <2>2. /\ Granted(n)' => n \in bound'
        /\ n \in servers' => Granted(n)'
        /\ Granted(n)' \/ n \in refused'
    BY <1>3
  <2>3. ASSUME ws = "open", NEW k \in listening, k # n, ~Asked(toRelay, k)
        PROVE  /\ Granted(k)' => k \in bound' \union binding'
               /\ k \in servers' \ binding' => Granted(k)'
               /\ Granted(k)' \/ k \in refused' \union binding'
    BY <1>1, <1>3, <2>3 DEF PortInv, Heard
  <2>. QED
    BY <2>1, <2>2, <2>3 DEF Heard
<1>. QED
  BY <1>4, <1>5, <1>6 DEF PortInv

(* The socket opens: every port is announced before what waited. *)
LEMMA Announces ==
  ASSUME TypeOK, Link, PortInv, ws = "connecting", ws' = "open",
         NEW ps \in Seq(ToRelay), \A t, x : Has(ps, t, x) <=> t = "LISTEN" /\ x \in listening,
         toRelay' = ps \o queue,
         UNCHANGED <<listening, netRelay, listeners, confirmed, servers, binding, late, bound, refused, toClient>>
  PROVE  PortInv'
<1>0. /\ queue \in Seq(ToRelay) /\ Line = queue /\ Line' = toRelay'
      /\ confirmed = {} /\ servers = {} /\ toClient = <<>>
      /\ \A n \in listening : n \in Ports
  BY DEF TypeOK, Link, Line
<1>1. \A n, t : LastIs(toRelay', t, n) => LastIs(queue, t, n) \/ Has(ps, t, n)
  BY <1>0, LastJoined, LastHas, Zenon
<1>2. Wanted'
  <2>1. ASSUME NEW n \in Ports, LastIs(Line', "LISTEN", n) PROVE n \in listening
    BY <1>0, <1>1, <2>1 DEF PortInv, Wanted
  <2>2. ASSUME NEW n \in Ports, LastIs(Line', "UNLISTEN", n) PROVE n \notin listening
    BY <1>0, <1>1, <2>2 DEF PortInv, Wanted
  <2>. QED
    BY <2>1, <2>2 DEF PortInv, Wanted
<1>3. ASSUME NEW n, ~Asked(toRelay', n) PROVE n \notin listening
  <2>1. Has(ps \o queue, "LISTEN", n) <=> Has(ps, "LISTEN", n) \/ Has(queue, "LISTEN", n)
    BY <1>0, HasJoined, Zenon
  <2>. QED
    BY <1>3, <2>1 DEF Asked
<1>4. Bound'
  BY <1>0, <1>3 DEF Bound
<1>5. Heard'
  <2>1. \A n : ~Granted(n)'
    BY <1>0, Empty DEF Granted
  <2>. QED
    BY <1>3, <2>1 DEF Heard
<1>. QED
  BY <1>2, <1>4, <1>5 DEF PortInv

(* There is no open socket, and at most requests for ports wait for one. *)
LEMMA Cuts ==
  ASSUME ws' # "open", servers' = {}, toClient' = <<>>, confirmed' = {},
         listening' = IF netRelay' THEN {n \in Ports : listeners'[n] # None} ELSE {},
         \A n \in Ports : (Has(Line', "LISTEN", n) => n \in listening') /\ ~Has(Line', "UNLISTEN", n)
  PROVE  PortInv'
<1>1. Wanted'
  BY LastHas DEF Wanted
<1>2. Bound'
  BY DEF Bound
<1>3. Heard'
  <2>1. \A n : ~Granted(n)'
    BY Empty DEF Granted
  <2>. QED
    BY <2>1 DEF Heard
<1>. QED
  BY <1>1, <1>2, <1>3 DEF PortInv

-----------------------------------------------------------------------------
(* What the steps have in common.                                           *)

KernelTypes ==
  /\ procs \subseteq Procs
  /\ listeners \in [Ports -> Procs \union {None}]
  /\ pipeListeners \in [Ports -> Procs \union {None}]
ClientTypes ==
  /\ ws \in {"none", "connecting", "open"}
  /\ streams \subseteq Streams
  /\ listening \subseteq Ports /\ confirmed \subseteq listening
  /\ netRelay \in BOOLEAN /\ retryTimer \in BOOLEAN
  /\ queue \in Seq(ToRelay) /\ toRelay \in Seq(ToRelay)
RelayTypes ==
  /\ sockets \subseteq Streams /\ reached \subseteq sockets
  /\ servers \subseteq Ports /\ binding \subseteq servers /\ late \in [Ports -> Nat]
  /\ bound \subseteq Ports /\ refused \subseteq Ports
  /\ toClient \in Seq(ToClient)
CountTypes ==
  /\ nextPipeConnId \in 1..MaxConns + 1 /\ nextId \in 1..MaxConns + 1 /\ nextAcceptId \in 1..MaxConns + 1
  /\ made \in 0..MaxConns /\ work \in 0..MaxWork

LEMMA Types == TypeOK <=> KernelTypes /\ TableTypes /\ ClientTypes /\ RelayTypes /\ CountTypes
<1>1. TypeOK => KernelTypes /\ TableTypes
  BY DEF TypeOK, KernelTypes, TableTypes
<1>2. TypeOK => ClientTypes /\ RelayTypes /\ CountTypes
  BY DEF TypeOK, ClientTypes, RelayTypes, CountTypes
<1>3. KernelTypes /\ TableTypes /\ ClientTypes /\ RelayTypes /\ CountTypes => TypeOK
  BY DEF TypeOK, KernelTypes, TableTypes, ClientTypes, RelayTypes, CountTypes
<1>. QED
  BY <1>1, <1>2, <1>3

LEMMA TypesNext ==
  ASSUME KernelTypes', TableTypes', ClientTypes', RelayTypes', CountTypes'
  PROVE  TypeOK'
BY DEF TypeOK, KernelTypes, TableTypes, ClientTypes, RelayTypes, CountTypes

LEMMA NoneAdded ==
  ASSUME NEW S, NEW q \in Seq(S)
  PROVE  q \o <<>> = q /\ <<>> \in Seq(S)
OBVIOUS

(* _send *)
LEMMA Sends ==
  ASSUME TypeOK, Link, NEW ps \in Seq(ToRelay), Send(ps), ps # <<>> => netRelay,
         ps = <<>> => streams' \subseteq streams, streams' \subseteq Streams,
         confirmed' \subseteq listening', listening' \subseteq Ports, ws # "open" => confirmed' = {},
         UNCHANGED <<netRelay, toClient, sockets, servers, binding, late, bound, refused, nextAcceptId>>
  PROVE  /\ Line' = Line \o ps
         /\ ws = "open" => toRelay' = toRelay \o ps
         /\ ws' = "open" <=> ws = "open"
         /\ ClientTypes' /\ Link'
<1>0. /\ ws \in {"none", "connecting", "open"} /\ netRelay \in BOOLEAN /\ retryTimer \in BOOLEAN
      /\ queue \in Seq(ToRelay) /\ toRelay \in Seq(ToRelay)
  BY DEF TypeOK
<1>1. /\ queue \o <<>> = queue /\ toRelay \o <<>> = toRelay
      /\ queue \o ps \in Seq(ToRelay) /\ toRelay \o ps \in Seq(ToRelay)
  BY <1>0, NoneAdded
<1>2. CASE ps = <<>>
  <2>1. UNCHANGED <<ws, queue, retryTimer, toRelay>>
    BY <1>2 DEF Send, socketVars
  <2>2. Line' = Line \o ps
    BY <1>1, <1>2, <2>1 DEF Line
  <2>3. ClientTypes'
    BY <1>0, <2>1 DEF ClientTypes
  <2>4. Link'
    BY <1>2, <2>1 DEF Link
  <2>. QED
    BY <1>1, <1>2, <2>1, <2>2, <2>3, <2>4
<1>3. CASE ps # <<>>
  <2>1. /\ ws' = IF ws = "none" THEN "connecting" ELSE ws
        /\ retryTimer' = (retryTimer /\ ws # "none")
        /\ queue' = IF ws = "open" THEN queue ELSE queue \o ps
        /\ toRelay' = IF ws = "open" THEN toRelay \o ps ELSE toRelay
    BY <1>3 DEF Send
  <2>2. retryTimer' \in BOOLEAN
    BY <2>1
  <2>3. Line' = Line \o ps
    BY <1>0, <2>1 DEF Line
  <2>4. ClientTypes'
    BY <1>0, <1>1, <2>1, <2>2 DEF ClientTypes
  <2>5. Link'
    BY <1>0, <1>3, <2>1 DEF Link
  <2>. QED
    BY <1>0, <2>1, <2>3, <2>4, <2>5
<1>. QED
  BY <1>2, <1>3

LEMMA RoomKept ==
  ASSUME Room, UNCHANGED <<nextPipeConnId, nextAcceptId, nextId, made>>,
         \A s : Has(toClient', "ACCEPT", s) => Has(toClient, "ACCEPT", s)
  PROVE  Room'
BY DEF Room

LEMMA RelationKept ==
  ASSUME Relation, UNCHANGED <<tables, streams, nextPipeConnId>>
  PROVE  Relation'
BY DEF Relation, Known, tables

LEMMA TablesKept ==
  ASSUME TableTypes, UNCHANGED tables
  PROVE  TableTypes'
BY DEF TableTypes, tables

(* The client gives up the streams S, asks for the ports A and gives up the *)
(* ports R, and tells the relay.                                            *)
LEMMA ClientSays ==
  ASSUME IInv, NEW ps \in Seq(ToRelay), Line' = Line \o ps, ws = "open" => toRelay' = toRelay \o ps,
         ws' = "open" <=> ws = "open", ClientTypes', Link',
         NEW S \in SUBSET streams, NEW A \in SUBSET Ports, NEW R \in SUBSET Ports, A \intersect R = {},
         \A s \in Streams : ~Has(ps, "CONNECT", s) /\ (Has(ps, "CLOSE", s) <=> s \in S),
         \A n \in Ports : (Has(ps, "LISTEN", n) <=> n \in A) /\ (Has(ps, "UNLISTEN", n) <=> n \in R),
         streams' = streams \ S, listening' = (listening \ R) \union A, confirmed' = confirmed \ R,
         listening' = IF netRelay' THEN {n \in Ports : listeners'[n] # None} ELSE {},
         KernelTypes', TableTypes', Relation', work' \in 0..MaxWork,
         UNCHANGED <<toClient, sessionVars, nextId, nextPipeConnId, made>>
  PROVE  IInv'
<1>0. TypeOK /\ Room /\ Fresh /\ StreamInv /\ PortInv
  BY DEF IInv
<1>1. UNCHANGED <<sockets, reached, servers, binding, late, bound, refused, nextAcceptId>>
  BY DEF sessionVars, portVars
<1>2. RelayTypes' /\ CountTypes'
  BY <1>0, <1>1, Types DEF RelayTypes, CountTypes
<1>3. TypeOK'
  BY <1>2, TypesNext
<1>4. Room'
  BY <1>0, <1>1, RoomKept
<1>5. Fresh' /\ StreamInv'
  BY <1>0, <1>1, Says
<1>6. PortInv'
  BY <1>0, <1>1, Requests
<1>. QED
  BY <1>3, <1>4, <1>5, <1>6 DEF IInv

-----------------------------------------------------------------------------
(* The calls of the guests.                                                 *)

LEMMA ListenStep ==
  ASSUME IInv, NEW p \in Procs, NEW n \in Ports, Listen(p, n)
  PROVE  IInv'
<1>. DEFINE ps == IF netRelay THEN <<Pkt("LISTEN", n)>> ELSE <<>>
            A == IF netRelay THEN {n} ELSE {}
<1>0. /\ listeners' = [listeners EXCEPT ![n] = p] /\ listening' = listening \union A /\ Send(ps)
      /\ work' = work + 1 /\ work < MaxWork
      /\ UNCHANGED <<procs, pipeListeners, tables, nextPipeConnId, netRelay, streams, nextId,
                     confirmed, toClient, sessionVars, made>>
  BY DEF Listen, Bounded, Send
<1>1. ps \in Seq(ToRelay) /\ \A t, x : Has(ps, t, x) <=> t = "LISTEN" /\ x \in A
  <2>1. Pkt("LISTEN", n) \in ToRelay /\ Pkt("LISTEN", n).type = "LISTEN" /\ Pkt("LISTEN", n).of = n
    BY Packets1
  <2>2. \A t, x : Has(<<Pkt("LISTEN", n)>>, t, x) <=> t = "LISTEN" /\ x = n
    BY <2>1, HasSingle
  <2>3. CASE netRelay
    BY <2>1, <2>2, <2>3
  <2>4. CASE ~netRelay
    <3>1. ps = <<>> /\ A = {} /\ ps \in Seq(ToRelay)
      BY <2>4
    <3>. QED
      BY <3>1, Empty
  <2>. QED
    BY <2>3, <2>4
<1>2. ps # <<>> => netRelay
  OBVIOUS
<1>3. A \in SUBSET Ports
  OBVIOUS
<1>4. /\ TypeOK /\ Link /\ Relation /\ PortInv /\ KernelTypes /\ TableTypes /\ ClientTypes
      /\ work \in 0..MaxWork /\ MaxWork \in Nat /\ None \notin Procs
  BY Types, NetRelayAssumption DEF IInv, NetRelayAssumption, CountTypes
<1>5. listening' = IF netRelay' THEN {k \in Ports : listeners'[k] # None} ELSE {}
  <2>1. listening = IF netRelay THEN {k \in Ports : listeners[k] # None} ELSE {}
    BY <1>4 DEF PortInv, Wanted
  <2>2. \A k \in Ports : listeners'[k] = IF k = n THEN p ELSE listeners[k]
    BY <1>0, <1>4 DEF KernelTypes
  <2>. QED
    BY <1>0, <1>4, <2>1, <2>2
<1>. HIDE DEF ps, A
<1>6. UNCHANGED <<sockets, servers, binding, late, bound, refused, nextAcceptId>>
  BY <1>0 DEF sessionVars, portVars
<1>7. /\ Line' = Line \o ps /\ (ws = "open" => toRelay' = toRelay \o ps)
      /\ (ws' = "open" <=> ws = "open") /\ ClientTypes' /\ Link'
  <2>1. /\ streams' \subseteq streams /\ streams' \subseteq Streams
        /\ confirmed' \subseteq listening' /\ listening' \subseteq Ports
        /\ ws # "open" => confirmed' = {}
    BY <1>0, <1>3, <1>4 DEF ClientTypes, Link
  <2>. QED
    BY <1>0, <1>1, <1>2, <1>4, <1>6, <2>1, Sends
<1>8. KernelTypes' /\ work' \in 0..MaxWork
  BY <1>0, <1>4 DEF KernelTypes
<1>9. TableTypes' /\ Relation'
  BY <1>0, <1>4, TablesKept, RelationKept
<1>10. /\ \A s \in Streams : ~Has(ps, "CONNECT", s) /\ (Has(ps, "CLOSE", s) <=> s \in {})
       /\ \A k \in Ports : (Has(ps, "LISTEN", k) <=> k \in A) /\ (Has(ps, "UNLISTEN", k) <=> k \in {})
  BY <1>1
<1>11. /\ streams' = streams \ {} /\ listening' = (listening \ {}) \union A /\ confirmed' = confirmed \ {}
       /\ {} \in SUBSET streams /\ {} \in SUBSET Ports /\ A \intersect {} = {}
  BY <1>0
<1>12. UNCHANGED <<toClient, sessionVars, nextId, nextPipeConnId, made>>
  BY <1>0
<1>13. ps \in Seq(ToRelay)
  BY <1>1
<1>. QED
  BY <1>3, <1>5, <1>7, <1>8, <1>9, <1>10, <1>11, <1>12, <1>13, ClientSays, ZenonT(60)

(* Nothing is said to the relay. *)
LEMMA SilentStep ==
  ASSUME IInv, ClientTypes', Link', KernelTypes', Line' = Line, ws' = "open" <=> ws = "open",
         \A n \in Ports : listeners'[n] # None <=> listeners[n] # None,
         UNCHANGED <<tables, toRelay, toClient, sessionVars, netRelay, streams, listening, confirmed,
                     nextId, nextPipeConnId, bounds>>
  PROVE  IInv'
<1>1. TypeOK /\ TableTypes /\ Relation /\ Wanted /\ work \in 0..MaxWork
  BY Types DEF IInv, PortInv, CountTypes
<1>2. /\ Line \in Seq(ToRelay) /\ toRelay \in Seq(ToRelay)
      /\ Line' = Line \o <<>> /\ toRelay' = toRelay \o <<>> /\ <<>> \in Seq(ToRelay)
  BY <1>1, Queues, NoneAdded DEF TypeOK
<1>3. TableTypes' /\ Relation'
  BY <1>1, TablesKept, RelationKept
<1>4. listening' = IF netRelay' THEN {n \in Ports : listeners'[n] # None} ELSE {}
  BY <1>1 DEF Wanted
<1>5. /\ \A s \in Streams : ~Has(<<>>, "CONNECT", s) /\ (Has(<<>>, "CLOSE", s) <=> s \in {})
      /\ \A k \in Ports : (Has(<<>>, "LISTEN", k) <=> k \in {}) /\ (Has(<<>>, "UNLISTEN", k) <=> k \in {})
  BY Empty
<1>6. /\ streams' = streams \ {} /\ listening' = (listening \ {}) \union {} /\ confirmed' = confirmed \ {}
      /\ {} \in SUBSET streams /\ {} \in SUBSET Ports /\ {} \intersect {} = {}
  OBVIOUS
<1>7. work' \in 0..MaxWork /\ UNCHANGED <<toClient, sessionVars, nextId, nextPipeConnId, made>>
  BY <1>1 DEF bounds
<1>8. ws = "open" => toRelay' = toRelay \o <<>>
  BY <1>2
<1>. QED
  BY <1>2, <1>3, <1>4, <1>5, <1>6, <1>7, <1>8, ClientSays, ZenonT(60)

LEMMA PipeStep ==
  ASSUME IInv, NEW p \in Procs, NEW n \in Ports, PipeListen(p, n) \/ PipeCloseServer(p, n)
  PROVE  IInv'
<1>1. /\ UNCHANGED <<procs, listeners, tables, nextPipeConnId, toClient, sessionVars, bounds>>
      /\ UNCHANGED <<netRelay, ws, queue, retryTimer, toRelay, streams, nextId, listening, confirmed>>
      /\ pipeListeners' \in {[pipeListeners EXCEPT ![n] = p], [pipeListeners EXCEPT ![n] = None]}
  BY DEF PipeListen, PipeCloseServer, clientVars, socketVars
<1>2. UNCHANGED <<sockets, servers, binding, late, bound, refused, nextAcceptId>>
  BY <1>1 DEF sessionVars, portVars
<1>3. KernelTypes /\ ClientTypes /\ Link
  BY Types DEF IInv
<1>4. KernelTypes' /\ ClientTypes' /\ Link' /\ Line' = Line
  BY <1>1, <1>2, <1>3 DEF KernelTypes, ClientTypes, Link, Line
<1>. QED
  BY <1>1, <1>4, SilentStep

LEMMA RetryStep ==
  ASSUME IInv, Retry
  PROVE  IInv'
<1>1. /\ retryTimer' = FALSE
      /\ ws' = IF ws = "none" /\ listening # {} THEN "connecting" ELSE ws
      /\ UNCHANGED <<procs, listeners, pipeListeners, tables, nextPipeConnId, toClient, sessionVars, bounds>>
      /\ UNCHANGED <<netRelay, queue, toRelay, streams, nextId, listening, confirmed>>
  BY DEF Retry, kernelVars
<1>2. UNCHANGED <<sockets, servers, binding, late, bound, refused, nextAcceptId>>
  BY <1>1 DEF sessionVars, portVars
<1>3. KernelTypes /\ ClientTypes /\ Link /\ Wanted
  BY Types DEF IInv, PortInv
<1>4. KernelTypes' /\ ClientTypes' /\ Line' = Line
  BY <1>1, <1>3 DEF KernelTypes, ClientTypes, Line
<1>5. Link'
  BY <1>1, <1>2, <1>3 DEF Link, Wanted
<1>. QED
  BY <1>1, <1>4, <1>5, SilentStep

LEMMA ListsOfPorts ==
  ASSUME NEW ns \in SUBSET Ports
  PROVE  /\ Announced(ns) \in Seq(ToRelay) /\ Withdrawn(ns) \in Seq(ToRelay)
         /\ \A t, x : Has(Announced(ns), t, x) <=> t = "LISTEN" /\ x \in ns
         /\ \A t, x : Has(Withdrawn(ns), t, x) <=> t = "UNLISTEN" /\ x \in ns
<1>1. IsFiniteSet(ns)
  BY FS_Subset, NetRelayAssumption DEF NetRelayAssumption
<1>2. \A n \in ns : Pkt("LISTEN", n) \in ToRelay
  BY Packets1
<1>3. \A n \in ns : Pkt("UNLISTEN", n) \in ToRelay
  BY Packets1
<1>4. Announced(ns) \in Seq(ToRelay) /\ \A t, x : Has(Announced(ns), t, x) <=> t = "LISTEN" /\ x \in ns
  <2>1. Announced(ns) = Packing("LISTEN", ns)
    BY DEF Announced, Packing
  <2>. QED
    BY <1>1, <1>2, <2>1, Packed
<1>5. Withdrawn(ns) \in Seq(ToRelay) /\ \A t, x : Has(Withdrawn(ns), t, x) <=> t = "UNLISTEN" /\ x \in ns
  <2>1. Withdrawn(ns) = Packing("UNLISTEN", ns)
    BY DEF Withdrawn, Packing
  <2>. QED
    BY <1>1, <1>3, <2>1, Packed
<1>. QED
  BY <1>4, <1>5

LEMMA ListOfStreams ==
  ASSUME TypeOK, NEW cs
  PROVE  /\ Closing(cs) \in Seq(ToRelay)
         /\ \A t, x : Has(Closing(cs), t, x) <=> t = "CLOSE" /\ x \in StreamsOf(cs)
<1>1. StreamsOf(cs) \subseteq Streams
  BY DEF StreamsOf, TypeOK
<1>2. IsFiniteSet(StreamsOf(cs))
  BY <1>1, FewStreams, FS_Subset
<1>3. \A s \in StreamsOf(cs) : Pkt("CLOSE", s) \in ToRelay
  BY <1>1, Packets1
<1>4. Closing(cs) = Packing("CLOSE", StreamsOf(cs))
  BY DEF Closing, Packing
<1>. QED
  BY <1>2, <1>3, <1>4, Packed

(* The ports ns are withdrawn and the connections cs closed. *)
LEMMA Leaves ==
  ASSUME IInv, NEW ns \in SUBSET Ports, NEW cs, NEW ps \in Seq(ToRelay), Send(ps), ps # <<>> => netRelay,
         \A t, x : Has(ps, t, x) <=>
           netRelay /\ ((t = "UNLISTEN" /\ x \in ns) \/ (t = "CLOSE" /\ x \in StreamsOf(cs))),
         listeners' = [n \in Ports |-> IF n \in ns THEN None ELSE listeners[n]],
         Unlisten(ns), streams' = streams \ StreamsOf(cs),
         KernelTypes', TableTypes', Relation',
         UNCHANGED <<nextPipeConnId, netRelay, nextId, toClient, sessionVars, bounds>>
  PROVE  IInv'
<1>. DEFINE R == {n \in ns : netRelay}
            S == StreamsOf(cs)
<1>1. /\ TypeOK /\ Link /\ PortInv /\ ClientTypes /\ work \in 0..MaxWork
      /\ listening = IF netRelay THEN {n \in Ports : listeners[n] # None} ELSE {}
  BY Types DEF IInv, CountTypes, PortInv, Wanted
<1>2. S \subseteq streams /\ R \in SUBSET Ports
  BY DEF StreamsOf
<1>3. ~netRelay => streams = {} /\ listening = {} /\ confirmed = {} /\ R = {} /\ S = {}
  BY <1>1, <1>2 DEF Link, ClientTypes
<1>. HIDE DEF R, S
<1>4. /\ listening' = (listening \ R) \union {} /\ confirmed' = confirmed \ R /\ R \intersect {} = {}
  <2>1. CASE netRelay
    <3>1. R = ns
      BY <2>1 DEF R
    <3>. QED
      BY <2>1, <3>1 DEF Unlisten
  <2>2. CASE ~netRelay
    BY <1>3, <2>2 DEF Unlisten
  <2>. QED
    BY <2>1, <2>2
<1>5. listening' = IF netRelay' THEN {n \in Ports : listeners'[n] # None} ELSE {}
  <2>1. CASE netRelay
    <3>1. R = ns
      BY <2>1 DEF R
    <3>. QED
      BY <1>1, <1>4, <2>1, <3>1
  <2>2. CASE ~netRelay
    BY <1>3, <1>4, <2>2
  <2>. QED
    BY <2>1, <2>2
<1>6. /\ \A s \in Streams : ~Has(ps, "CONNECT", s) /\ (Has(ps, "CLOSE", s) <=> s \in S)
      /\ \A n \in Ports : (Has(ps, "LISTEN", n) <=> n \in {}) /\ (Has(ps, "UNLISTEN", n) <=> n \in R)
  <2>1. CASE netRelay
    BY <2>1 DEF R, S
  <2>2. CASE ~netRelay
    BY <1>3, <2>2
  <2>. QED
    BY <2>1, <2>2
<1>7. UNCHANGED <<sockets, servers, binding, late, bound, refused, nextAcceptId>>
  BY DEF sessionVars, portVars
<1>8. /\ Line' = Line \o ps /\ (ws = "open" => toRelay' = toRelay \o ps)
      /\ (ws' = "open" <=> ws = "open") /\ ClientTypes' /\ Link'
  <2>1. /\ streams' \subseteq streams /\ streams' \subseteq Streams
        /\ confirmed' \subseteq listening' /\ listening' \subseteq Ports
        /\ ws # "open" => confirmed' = {}
    BY <1>1, <1>4 DEF ClientTypes, Link
  <2>. QED
    BY <1>1, <1>7, <2>1, Sends
<1>9. work' \in 0..MaxWork /\ UNCHANGED <<toClient, sessionVars, nextId, nextPipeConnId, made>>
  BY <1>1 DEF bounds
<1>10. streams' = streams \ S /\ S \in SUBSET streams /\ {} \in SUBSET Ports
  BY <1>2 DEF S
<1>11. {} \intersect R = {}
  OBVIOUS
<1>12. R \in SUBSET Ports /\ S \in SUBSET streams /\ {} \in SUBSET Ports
  BY <1>2, <1>10
<1>13. IInv /\ ps \in Seq(ToRelay) /\ KernelTypes' /\ TableTypes' /\ Relation'
  OBVIOUS
<1>14. streams' = streams \ S
  BY <1>10
<1>. QED
  BY ONLY <1>4, <1>5, <1>6, <1>8, <1>9, <1>11, <1>12, <1>13, <1>14, ClientSays, ZenonT(60)

(* Connections of which both ends are known are forgotten. *)
LEMMA ForgetsStreams ==
  ASSUME IInv, NEW cs \in SUBSET Known, Forget(cs), streams' = streams \ StreamsOf(cs),
         nextPipeConnId' = nextPipeConnId
  PROVE  /\ TableTypes' /\ Relation'
         /\ cs # {} => netRelay
<1>1. TypeOK /\ Relation /\ Link
  BY DEF IInv
<1>2. streams' = streams \ {netStreamByConn[c] : c \in cs}
  BY DEF StreamsOf
<1>3. TableTypes' /\ Relation'
  BY <1>1, <1>2, Forgets, ForgetsRelation
<1>4. cs # {} => netRelay
  BY <1>1 DEF Relation, Link
<1>. QED
  BY <1>3, <1>4

LEMMA CloseServerStep ==
  ASSUME IInv, NEW p \in Procs, NEW n \in Ports, CloseServer(p, n)
  PROVE  IInv'
<1>. DEFINE ps == IF netRelay THEN Withdrawn({n}) ELSE <<>>
<1>0. /\ listeners' = [listeners EXCEPT ![n] = None] /\ Unlisten({n}) /\ Send(ps)
      /\ UNCHANGED <<procs, pipeListeners, tables, nextPipeConnId, netRelay, streams, nextId,
                     toClient, sessionVars, bounds>>
  BY DEF CloseServer
<1>1. TypeOK /\ KernelTypes /\ TableTypes /\ Relation
  BY Types DEF IInv
<1>2. StreamsOf({}) = {}
  BY DEF StreamsOf
<1>3. /\ ps \in Seq(ToRelay) /\ (ps # <<>> => netRelay)
      /\ \A t, x : Has(ps, t, x) <=>
           netRelay /\ ((t = "UNLISTEN" /\ x \in {n}) \/ (t = "CLOSE" /\ x \in StreamsOf({})))
  <2>1. CASE netRelay
    BY <1>2, <2>1, ListsOfPorts
  <2>2. CASE ~netRelay
    <3>1. ps = <<>> /\ ps \in Seq(ToRelay)
      BY <2>2
    <3>. QED
      BY <2>2, <3>1, Empty
  <2>. QED
    BY <2>1, <2>2
<1>. HIDE DEF ps
<1>4. listeners' = [k \in Ports |-> IF k \in {n} THEN None ELSE listeners[k]]
  BY <1>0, <1>1 DEF KernelTypes
<1>5. KernelTypes' /\ TableTypes' /\ Relation' /\ streams' = streams \ StreamsOf({})
  <2>1. KernelTypes'
    BY <1>0, <1>1 DEF KernelTypes
  <2>2. TableTypes' /\ Relation'
    BY <1>0, <1>1, TablesKept, RelationKept
  <2>. QED
    BY <1>0, <1>2, <2>1, <2>2
<1>6. /\ UNCHANGED <<nextPipeConnId, netRelay, nextId, toClient, sessionVars, bounds>>
      /\ {n} \in SUBSET Ports
  BY <1>0
<1>. QED
  BY <1>0, <1>3, <1>4, <1>5, <1>6, Leaves, ZenonT(60)

LEMMA GuestClosesStep ==
  ASSUME IInv, NEW c, GuestCloses(c)
  PROVE  IInv'
<1>0. /\ c \in Known /\ Forget({c}) /\ streams' = streams \ StreamsOf({c}) /\ Send(Closing({c}))
      /\ UNCHANGED <<procs, listeners, pipeListeners, nextPipeConnId, netRelay, nextId,
                     listening, confirmed, toClient, sessionVars, bounds>>
  BY DEF GuestCloses
<1>1. TypeOK /\ KernelTypes
  BY Types DEF IInv
<1>2. TableTypes' /\ Relation' /\ netRelay
  BY <1>0, ForgetsStreams
<1>3. /\ Closing({c}) \in Seq(ToRelay)
      /\ \A t, x : Has(Closing({c}), t, x) <=>
           netRelay /\ ((t = "UNLISTEN" /\ x \in {}) \/ (t = "CLOSE" /\ x \in StreamsOf({c})))
  BY <1>1, <1>2, ListOfStreams
<1>4. listeners' = [k \in Ports |-> IF k \in {} THEN None ELSE listeners[k]]
  BY <1>0, <1>1 DEF KernelTypes
<1>5. KernelTypes' /\ Unlisten({}) /\ {} \in SUBSET Ports
  BY <1>0, <1>1 DEF KernelTypes, Unlisten
<1>6. UNCHANGED <<nextPipeConnId, netRelay, nextId, toClient, sessionVars, bounds>>
  BY <1>0
<1>. QED
  BY <1>0, <1>2, <1>3, <1>4, <1>5, <1>6, Leaves, ZenonT(60)

LEMMA FinalizeStep ==
  ASSUME IInv, NEW p \in Procs, Finalize(p)
  PROVE  IInv'
<1>. DEFINE ns == {n \in Ports : listeners[n] = p}
            cs == {c \in Known : pipeConns[c] = p}
            ps == IF netRelay THEN Withdrawn(ns) \o Closing(cs) ELSE <<>>
<1>0. /\ listeners' = [n \in Ports |-> IF n \in ns THEN None ELSE listeners[n]]
      /\ Unlisten(ns) /\ Forget(cs) /\ streams' = streams \ StreamsOf(cs) /\ Send(ps)
      /\ pipeListeners' = [n \in Ports |-> IF pipeListeners[n] = p THEN None ELSE pipeListeners[n]]
      /\ procs' = procs \ {p}
      /\ UNCHANGED <<nextPipeConnId, netRelay, nextId, toClient, sessionVars, bounds>>
  BY DEF Finalize
<1>1. TypeOK /\ KernelTypes
  BY Types DEF IInv
<1>2. ns \in SUBSET Ports /\ cs \in SUBSET Known
  OBVIOUS
<1>3. KernelTypes'
  BY <1>0, <1>1 DEF KernelTypes
<1>. HIDE DEF ns, cs
<1>4. /\ ps \in Seq(ToRelay) /\ (ps # <<>> => netRelay)
      /\ \A t, x : Has(ps, t, x) <=>
           netRelay /\ ((t = "UNLISTEN" /\ x \in ns) \/ (t = "CLOSE" /\ x \in StreamsOf(cs)))
  <2>1. CASE netRelay
    <3>1. /\ Withdrawn(ns) \in Seq(ToRelay) /\ Closing(cs) \in Seq(ToRelay)
          /\ \A t, x : Has(Withdrawn(ns), t, x) <=> t = "UNLISTEN" /\ x \in ns
          /\ \A t, x : Has(Closing(cs), t, x) <=> t = "CLOSE" /\ x \in StreamsOf(cs)
      BY <1>1, <1>2, ListsOfPorts, ListOfStreams
    <3>2. \A t, x : Has(Withdrawn(ns) \o Closing(cs), t, x) <=> Has(Withdrawn(ns), t, x) \/ Has(Closing(cs), t, x)
      BY <3>1, HasJoined, Zenon
    <3>3. ps = Withdrawn(ns) \o Closing(cs) /\ ps \in Seq(ToRelay)
      BY <2>1, <3>1
    <3>. QED
      BY <2>1, <3>1, <3>2, <3>3, Zenon
  <2>2. CASE ~netRelay
    <3>1. ps = <<>> /\ ps \in Seq(ToRelay)
      BY <2>2
    <3>. QED
      BY <2>2, <3>1, Empty
  <2>. QED
    BY <2>1, <2>2
<1>. HIDE DEF ps
<1>5. TableTypes' /\ Relation'
  BY <1>0, <1>2, ForgetsStreams
<1>. QED
  BY <1>0, <1>2, <1>3, <1>4, <1>5, Leaves, ZenonT(60)

LEMMA DialStep ==
  ASSUME IInv, NEW p \in Procs, Dial(p)
  PROVE  IInv'
<1>1. PICK d : d = <<"dial", nextId>>
  OBVIOUS
<1>2. PICK m : m = Pkt("CONNECT", d)
  OBVIOUS
<1>3. /\ netRelay /\ work < MaxWork /\ work' = work + 1 /\ made < MaxConns /\ made' = made + 1
      /\ nextId' = nextId + 1 /\ streams' = streams \union {d}
      /\ Send(<<m>>) /\ Opened(p, d, "dialing")
      /\ UNCHANGED <<procs, listeners, pipeListeners, netRelay, listening, confirmed, toClient>>
      /\ UNCHANGED <<sockets, reached, servers, binding, late, bound, refused, nextAcceptId>>
  BY <1>1, <1>2 DEF Dial, Bounded, sessionVars, portVars
<1>4. /\ TypeOK /\ Link /\ Room /\ Fresh /\ Relation /\ StreamInv /\ PortInv
      /\ KernelTypes /\ ClientTypes /\ RelayTypes /\ CountTypes
  BY Types DEF IInv
<1>5. /\ nextId \in Conns /\ nextPipeConnId \in Conns /\ nextAcceptId \in Nat /\ made \in Nat
      /\ Conns \subseteq Nat /\ nextPipeConnId' = nextPipeConnId + 1
  BY <1>3, <1>4, NetRelayAssumption DEF NetRelayAssumption, Conns, CountTypes, Room, Opened
<1>6. d \in Dialled /\ d \in Streams
  BY <1>1, <1>5, Sets
<1>7. m \in ToRelay /\ <<m>> \in Seq(ToRelay) /\ <<m>> # <<>> /\ m.type = "CONNECT" /\ m.of = d
  <2>1. m \in ToRelay /\ m.type = "CONNECT" /\ m.of = d
    BY <1>2, <1>6, Packets1
  <2>. QED
    BY <2>1
<1>8. \A t, x : Has(<<m>>, t, x) <=> t = "CONNECT" /\ x = d
  BY <1>7, HasSingle
<1>9. d \notin streams
  BY <1>1, <1>5 DEF IInv, Fresh, Used
<1>10. /\ Line' = Line \o <<m>> /\ (ws = "open" => toRelay' = toRelay \o <<m>>)
       /\ (ws' = "open" <=> ws = "open") /\ ClientTypes' /\ Link'
  <2>1. /\ streams' \subseteq Streams /\ confirmed' \subseteq listening' /\ listening' \subseteq Ports
        /\ ws # "open" => confirmed' = {}
    BY <1>3, <1>4, <1>6 DEF ClientTypes, Link
  <2>. QED
    BY <1>3, <1>4, <1>7, <2>1, Sends
<1>11. TableTypes' /\ Relation'
  BY <1>3, <1>4, <1>5, <1>6, <1>9, Opens1, OpensRelation
<1>12. TypeOK'
  <2>1. KernelTypes' /\ RelayTypes'
    BY <1>3, <1>4 DEF KernelTypes, RelayTypes
  <2>2. CountTypes'
    BY <1>3, <1>4, <1>5, NetRelayAssumption DEF CountTypes, Conns, NetRelayAssumption
  <2>. QED
    BY <1>10, <1>11, <2>1, <2>2, TypesNext
<1>13. Room'
  BY <1>3, <1>4, <1>5 DEF Room
<1>14. Fresh' /\ StreamInv'
  BY <1>1, <1>2, <1>3, <1>4, <1>5, <1>10, Dials
<1>15. PortInv'
  <2>1. \A n \in Ports : (Has(<<m>>, "LISTEN", n) <=> n \in {}) /\ (Has(<<m>>, "UNLISTEN", n) <=> n \in {})
    BY <1>8
  <2>2. /\ {} \in SUBSET Ports /\ {} \intersect {} = {}
        /\ listening' = (listening \ {}) \union {} /\ confirmed' = confirmed \ {}
        /\ UNCHANGED <<servers, binding, late, bound, refused, toClient>>
    BY <1>3
  <2>3. listening' = IF netRelay' THEN {n \in Ports : listeners'[n] # None} ELSE {}
    BY <1>3, <1>4 DEF PortInv, Wanted
  <2>. QED
    BY <1>4, <1>7, <1>10, <2>1, <2>2, <2>3, Requests, ZenonT(60)
<1>. QED
  BY <1>10, <1>11, <1>12, <1>13, <1>14, <1>15 DEF IInv

-----------------------------------------------------------------------------
(* The socket opens and breaks; the relay is replaced.                      *)

LEMMA OpensStep ==
  ASSUME IInv, Opens
  PROVE  IInv'
<1>. DEFINE ps == Announced(listening)
<1>1. /\ ws = "connecting" /\ ws' = "open" /\ toRelay' = ps \o queue /\ queue' = <<>>
      /\ UNCHANGED <<procs, listeners, pipeListeners, tables, nextPipeConnId>>
      /\ UNCHANGED <<netRelay, streams, nextId, listening, confirmed, retryTimer, toClient>>
      /\ UNCHANGED <<sockets, reached, servers, binding, late, bound, refused, nextAcceptId>>
      /\ UNCHANGED <<made, work>>
  BY DEF Opens, kernelVars, sessionVars, portVars, bounds
<1>2. /\ TypeOK /\ Link /\ Room /\ Fresh /\ Relation /\ StreamInv /\ PortInv
      /\ KernelTypes /\ TableTypes /\ ClientTypes /\ RelayTypes /\ CountTypes
  BY Types DEF IInv
<1>3. ps \in Seq(ToRelay) /\ \A t, x : Has(ps, t, x) <=> t = "LISTEN" /\ x \in listening
  BY <1>2, ListsOfPorts DEF ClientTypes
<1>. HIDE DEF ps
<1>4. /\ queue \in Seq(ToRelay) /\ ps \o queue \in Seq(ToRelay) /\ <<>> \in Seq(ToRelay)
      /\ Line = queue /\ Line' = ps \o queue
  BY <1>1, <1>2, <1>3 DEF ClientTypes, Line
<1>5. TypeOK'
  <2>1. KernelTypes' /\ RelayTypes' /\ CountTypes'
    BY <1>1, <1>2 DEF KernelTypes, RelayTypes, CountTypes
  <2>2. ClientTypes'
    BY <1>1, <1>2, <1>4 DEF ClientTypes
  <2>3. TableTypes'
    BY <1>1, <1>2, TablesKept
  <2>. QED
    BY <2>1, <2>2, <2>3, TypesNext
<1>6. Link' /\ Room' /\ Relation'
  BY <1>1, <1>2, RoomKept, RelationKept DEF Link
<1>7. Fresh' /\ StreamInv'
  <2>1. \A s, t : t # "LISTEN" => (Has(ps \o queue, t, s) <=> Has(queue, t, s))
    <3>1. \A s, t : Has(ps \o queue, t, s) <=> Has(ps, t, s) \/ Has(queue, t, s)
      BY <1>3, <1>4, HasJoined, Zenon
    <3>. QED
      BY <1>3, <3>1, Zenon
  <2>2. \A s, t : ~Has(ps, "CONNECT", s)
    BY <1>3
  <2>3. \A s : /\ Once(queue, "CONNECT", s) => Once(ps \o queue, "CONNECT", s)
               /\ Follows(queue, "CONNECT", "CLOSE", s) => Follows(ps \o queue, "CONNECT", "CLOSE", s)
    BY <1>3, <1>4, <2>2, OnceJoined, FollowsJoined, Zenon
  <2>4. \A s \in Streams, t \in {"CONNECT", "CLOSE"} : Has(Line', t, s) <=> Has(Line, t, s)
    BY <1>4, <2>1
  <2>5. \A s \in Streams : /\ Once(Line, "CONNECT", s) => Once(Line', "CONNECT", s)
                           /\ Follows(Line, "CONNECT", "CLOSE", s) => Follows(Line', "CONNECT", "CLOSE", s)
    BY <1>4, <2>3
  <2>6. Rising(toClient')
    BY <1>1, <1>2 DEF Fresh
  <2>7. /\ \A s \in Streams, t \in {"ACCEPT", "CLOSE"} : Has(toClient', t, s) <=> Has(toClient, t, s)
        /\ \A s \in Streams : /\ Once(toClient, "ACCEPT", s) => Once(toClient', "ACCEPT", s)
                              /\ Follows(toClient, "ACCEPT", "CLOSE", s) => Follows(toClient', "ACCEPT", "CLOSE", s)
    BY <1>1
  <2>8. /\ TypeOK /\ Fresh /\ StreamInv
        /\ UNCHANGED <<streams, sockets, nextId, nextAcceptId>>
    BY <1>1, <1>2
  <2>9. \A s \in Streams : /\ Once(Line, "CONNECT", s) => Once(Line', "CONNECT", s)
                           /\ Once(toClient, "ACCEPT", s) => Once(toClient', "ACCEPT", s)
                           /\ Follows(Line, "CONNECT", "CLOSE", s) => Follows(Line', "CONNECT", "CLOSE", s)
                           /\ Follows(toClient, "ACCEPT", "CLOSE", s) => Follows(toClient', "ACCEPT", "CLOSE", s)
    BY <2>5, <2>7
  <2>. QED
    BY <1>5, <2>4, <2>6, <2>7, <2>8, <2>9, Same, Zenon
<1>8. PortInv'
  BY <1>1, <1>2, <1>3, Announces
<1>. QED
  BY <1>5, <1>6, <1>7, <1>8 DEF IInv

(* Every stream dies with the socket. *)
LEMMA Dies ==
  ASSUME IInv, Forget(Known), NoSession, streams' = {}, confirmed' = {}, toRelay' = <<>>,
         ws' # "open", ws' # "none" => netRelay', ws' # "connecting" => queue' = <<>>,
         ClientTypes', \A s \in Streams : ~Has(queue', "CONNECT", s) /\ ~Has(queue', "CLOSE", s),
         \A n \in Ports : (Has(queue', "LISTEN", n) => n \in listening') /\ ~Has(queue', "UNLISTEN", n),
         listening' = IF netRelay' THEN {n \in Ports : listeners'[n] # None} ELSE {},
         nextId' \in {1, nextId}, work < MaxWork, work' = work + 1,
         UNCHANGED <<procs, listeners, pipeListeners, nextPipeConnId, made>>
  PROVE  IInv'
<1>1. /\ TypeOK /\ Room /\ Relation /\ KernelTypes /\ CountTypes
  BY Types DEF IInv
<1>2. toClient' = <<>> /\ sockets' = {} /\ reached' = {} /\ nextAcceptId' = 1
      /\ servers' = {} /\ binding' = {} /\ late' = [n \in Ports |-> 0] /\ bound' = {} /\ refused' = {}
  BY DEF NoSession
<1>3. TypeOK'
  <2>1. KernelTypes'
    BY <1>1 DEF KernelTypes
  <2>2. RelayTypes'
    BY <1>2 DEF RelayTypes
  <2>3. CountTypes'
    BY <1>1, <1>2, NetRelayAssumption DEF CountTypes, NetRelayAssumption
  <2>4. TableTypes'
    BY <1>1, Forgets
  <2>. QED
    BY <2>1, <2>2, <2>3, <2>4, TypesNext
<1>4. Link'
  BY <1>2 DEF Link
<1>5. Room'
  <2>1. \A n : ~Has(toClient', "ACCEPT", <<"accept", n>>)
    BY <1>2, Empty
  <2>2. nextId' <= made' + 1 /\ nextAcceptId' <= made' + 1 /\ nextPipeConnId' <= made' + 1
    BY <1>1, <1>2 DEF Room, CountTypes
  <2>. QED
    BY <2>1, <2>2 DEF Room
<1>6. Relation'
  <2>1. streams \ {netStreamByConn[c] : c \in Known} = {}
    BY <1>1 DEF Relation
  <2>. QED
    BY <1>1, <2>1, ForgetsRelation
<1>7. Line' = queue'
  BY DEF Line
<1>8. Fresh' /\ StreamInv'
  BY <1>2, <1>7, Reset
<1>9. PortInv'
  BY <1>2, <1>7, Cuts
<1>. QED
  BY <1>3, <1>4, <1>5, <1>6, <1>8, <1>9 DEF IInv

LEMMA LostStep ==
  ASSUME IInv, Lost
  PROVE  IInv'
<1>1. /\ ws' = "none" /\ toRelay' = <<>> /\ queue' = <<>> /\ streams' = {} /\ confirmed' = {}
      /\ Forget(Known) /\ NoSession /\ retryTimer' = (retryTimer \/ Rearmed)
      /\ work < MaxWork /\ work' = work + 1
      /\ UNCHANGED <<procs, listeners, pipeListeners, nextPipeConnId, netRelay, nextId, listening, made>>
  BY DEF Lost, Bounded
<1>2. ClientTypes /\ Wanted
  BY Types DEF IInv, PortInv
<1>3. ClientTypes'
  <2>1. retryTimer' \in BOOLEAN /\ <<>> \in Seq(ToRelay)
    BY <1>1
  <2>. QED
    BY <1>1, <1>2, <2>1 DEF ClientTypes
<1>4. /\ \A s \in Streams : ~Has(queue', "CONNECT", s) /\ ~Has(queue', "CLOSE", s)
      /\ \A n \in Ports : (Has(queue', "LISTEN", n) => n \in listening') /\ ~Has(queue', "UNLISTEN", n)
  BY <1>1, Empty
<1>5. listening' = IF netRelay' THEN {n \in Ports : listeners'[n] # None} ELSE {}
  BY <1>1, <1>2 DEF Wanted
<1>. QED
  BY <1>1, <1>3, <1>4, <1>5, Dies

LEMMA SetNetRelayStep ==
  ASSUME IInv, NEW on \in BOOLEAN, SetNetRelay(on)
  PROVE  IInv'
<1>. DEFINE ns == IF on THEN {n \in Ports : listeners[n] # None} ELSE {}
<1>1. /\ netRelay' = on /\ Forget(Known) /\ NoSession
      /\ listening' = ns /\ queue' = Announced(ns) /\ ws' = (IF ns = {} THEN "none" ELSE "connecting")
      /\ streams' = {} /\ confirmed' = {} /\ nextId' = 1 /\ toRelay' = <<>> /\ retryTimer' = FALSE
      /\ work < MaxWork /\ work' = work + 1
      /\ UNCHANGED <<procs, listeners, pipeListeners, nextPipeConnId, made>>
  BY DEF SetNetRelay, Bounded
<1>2. ns \in SUBSET Ports /\ (ns # {} => on)
  OBVIOUS
<1>3. listening' = IF netRelay' THEN {n \in Ports : listeners'[n] # None} ELSE {}
  BY <1>1
<1>. HIDE DEF ns
<1>4. queue' \in Seq(ToRelay) /\ \A t, x : Has(queue', t, x) <=> t = "LISTEN" /\ x \in ns
  BY <1>1, <1>2, ListsOfPorts
<1>5. ns = {} => queue' = <<>>
  <2>1. ASSUME NEW q \in Seq(ToRelay), \A t, x : ~Has(q, t, x) PROVE q = <<>>
    <3>1. Len(q) = 0
      <4>1. ~Is(q, 1, q[1].type, q[1].of) \/ ~(1 \in 1..Len(q))
        BY <2>1 DEF Has
      <4>. QED
        BY <4>1 DEF Is
    <3>. QED
      BY <3>1
  <2>. QED
    BY <1>4, <2>1
<1>6. ClientTypes'
  <2>1. <<>> \in Seq(ToRelay)
    OBVIOUS
  <2>2. ws' \in {"none", "connecting", "open"}
    BY <1>1
  <2>3. netRelay' \in BOOLEAN /\ retryTimer' \in BOOLEAN
    BY <1>1
  <2>. QED
    BY <1>1, <1>2, <1>4, <2>1, <2>2, <2>3 DEF ClientTypes
<1>7. /\ \A s \in Streams : ~Has(queue', "CONNECT", s) /\ ~Has(queue', "CLOSE", s)
      /\ \A n \in Ports : (Has(queue', "LISTEN", n) => n \in listening') /\ ~Has(queue', "UNLISTEN", n)
  BY <1>1, <1>4
<1>8. ws' # "open" /\ (ws' # "none" => netRelay') /\ (ws' # "connecting" => queue' = <<>>)
  BY <1>1, <1>2, <1>5
<1>. QED
  BY <1>1, <1>3, <1>6, <1>7, <1>8, Dies

-----------------------------------------------------------------------------
(* The client reads a packet.                                               *)

LEMMA HearsStep ==
  ASSUME IInv, toClient # <<>>, toClient' = Tail(toClient), NEW h, h = Head(toClient), h.type # "ACCEPT",
         streams' = IF h.type = "CLOSE" THEN streams \ {h.of} ELSE streams,
         confirmed' = IF h.type = "LISTENING"
                      THEN IF h.ok /\ h.of \in listening THEN confirmed \union {h.of} ELSE confirmed \ {h.of}
                      ELSE confirmed,
         TableTypes', Relation',
         UNCHANGED <<procs, listeners, pipeListeners, nextPipeConnId, netRelay, socketVars, nextId, listening,
                     sessionVars, bounds>>
  PROVE  IInv'
<1>1. /\ UNCHANGED <<ws, queue, retryTimer, toRelay>>
      /\ UNCHANGED <<sockets, reached, servers, binding, late, bound, refused, nextAcceptId>>
      /\ UNCHANGED <<made, work>>
  BY DEF socketVars, sessionVars, portVars, bounds
<1>2. /\ TypeOK /\ Link /\ Room /\ Fresh /\ Relation /\ StreamInv /\ PortInv
      /\ KernelTypes /\ ClientTypes /\ RelayTypes /\ CountTypes
  BY Types DEF IInv
<1>3. toClient \in Seq(ToClient) /\ Tail(toClient) \in Seq(ToClient) /\ ws = "open" /\ ws' = ws
  BY <1>1, <1>2 DEF RelayTypes, Link
<1>4. UNCHANGED Line
  BY <1>1 DEF Line
<1>5. TypeOK'
  <2>1. KernelTypes' /\ CountTypes'
    BY <1>1, <1>2 DEF KernelTypes, CountTypes
  <2>2. RelayTypes'
    BY <1>1, <1>2, <1>3 DEF RelayTypes
  <2>3. ClientTypes'
    BY <1>1, <1>2 DEF ClientTypes
  <2>. QED
    BY <2>1, <2>2, <2>3, TypesNext
<1>6. Link'
  BY <1>1, <1>2, <1>3 DEF Link
<1>7. Room'
  <2>1. \A s : Has(Tail(toClient), "ACCEPT", s) => Has(toClient, "ACCEPT", s)
    BY <1>3, HasTaken, Zenon
  <2>. QED
    BY <1>1, <1>2, <2>1, RoomKept
<1>8. Fresh' /\ StreamInv'
  BY <1>1, <1>2, <1>4, Reads
<1>9. PortInv'
  <2>1. /\ \A n \in Ports : Asked(toRelay', n) <=> Asked(toRelay, n)
        /\ \A n \in Ports, t \in {"LISTEN", "UNLISTEN"} : LastIs(Line', t, n) => LastIs(Line, t, n)
    BY <1>1, <1>4
  <2>2. UNCHANGED <<listening, netRelay, listeners, servers, binding, late, bound, refused>>
    BY <1>1
  <2>. QED
    BY <1>2, <1>3, <2>1, <2>2, Hears
<1>. QED
  BY <1>5, <1>6, <1>7, <1>8, <1>9 DEF IInv

LEMMA OnCloseStep ==
  ASSUME IInv, OnClose
  PROVE  IInv'
<1>1. PICK h : h = Head(toClient)
  OBVIOUS
<1>. DEFINE s == h.of
            cs == {c \in Known : s \in streams /\ netStreamByConn[c] = s}
<1>2. /\ toClient # <<>> /\ toClient' = Tail(toClient) /\ h.type = "CLOSE"
      /\ streams' = streams \ {s} /\ Forget(cs)
      /\ UNCHANGED <<procs, listeners, pipeListeners, nextPipeConnId, netRelay, socketVars,
                     nextId, listening, confirmed, sessionVars, bounds>>
  BY <1>1 DEF OnClose, Takes
<1>3. TypeOK /\ Relation
  BY DEF IInv
<1>4. TableTypes'
  BY <1>2, <1>3, Forgets
<1>5. Relation'
  <2>1. streams \ {s} = streams \ {netStreamByConn[c] : c \in cs}
    <3>1. CASE s \in streams
      <4>1. netConnByStream[s] \in cs
        BY <1>3, <3>1 DEF Relation
      <4>. QED
        BY <4>1
    <3>2. CASE s \notin streams
      BY <3>2
    <3>. QED
      BY <3>1, <3>2
  <2>2. cs \in SUBSET Known
    OBVIOUS
  <2>. QED
    BY <1>2, <1>3, <2>1, <2>2, ForgetsRelation
<1>6. /\ h.type # "ACCEPT" /\ h.type # "LISTENING"
      /\ streams' = (IF h.type = "CLOSE" THEN streams \ {h.of} ELSE streams)
      /\ confirmed' = confirmed
      /\ UNCHANGED <<procs, listeners, pipeListeners, nextPipeConnId, netRelay, socketVars, nextId, listening,
                     sessionVars, bounds>>
  BY <1>2
<1>. QED
  BY <1>1, <1>2, <1>4, <1>5, <1>6, HearsStep

LEMMA OnConnectedStep ==
  ASSUME IInv, OnConnected
  PROVE  IInv'
<1>1. PICK h : h = Head(toClient)
  OBVIOUS
<1>. DEFINE cs == {c \in netPending : h.of \in streams /\ netStreamByConn[c] = h.of}
<1>2. /\ toClient # <<>> /\ toClient' = Tail(toClient) /\ h.type = "CONNECTED"
      /\ netPending' = netPending \ cs
      /\ told' = [c \in Conns |-> IF c \in cs THEN "connected" ELSE told[c]]
      /\ UNCHANGED <<procs, listeners, pipeListeners, pipeConns, netStreamByConn, netConnByStream,
                     nextPipeConnId, clientVars, sessionVars, bounds>>
  BY <1>1 DEF OnConnected, Takes
<1>3. TypeOK /\ Relation /\ TableTypes
  BY Types DEF IInv
<1>4. /\ cs \subseteq netPending
      /\ UNCHANGED <<pipeConns, netStreamByConn, netConnByStream, nextPipeConnId>>
      /\ UNCHANGED <<netRelay, socketVars, streams, nextId, listening, confirmed>>
  BY <1>2 DEF clientVars
<1>. HIDE DEF cs
<1>5. TableTypes'
  <2>1. netPending' \subseteq Conns
    BY <1>2, <1>3 DEF TableTypes
  <2>2. told' \in [Conns -> {"nothing", "dialing", "connected", "closed"}]
    BY <1>2, <1>3 DEF TableTypes
  <2>. QED
    BY <1>3, <1>4, <2>1, <2>2 DEF TableTypes
<1>6. Relation'
  <2>1. Known' = Known
    BY <1>4 DEF Known
  <2>2. \A c \in Conns : told'[c] \in {"dialing", "connected"} <=> c \in Known'
    BY <1>2, <1>3, <1>4, <2>1 DEF Relation
  <2>3. netPending' = {c \in Conns : told'[c] = "dialing"}
    BY <1>2, <1>3, <1>4 DEF Relation
  <2>. QED
    BY <1>3, <1>4, <2>1, <2>2, <2>3 DEF Relation
<1>7. /\ h.type # "ACCEPT" /\ h.type # "LISTENING" /\ h.type # "CLOSE"
      /\ streams' = streams /\ confirmed' = confirmed
      /\ UNCHANGED <<procs, listeners, pipeListeners, nextPipeConnId, netRelay, socketVars, nextId, listening,
                     sessionVars, bounds>>
  BY <1>2, <1>4
<1>. QED
  BY <1>1, <1>2, <1>5, <1>6, <1>7, HearsStep

LEMMA OnListeningStep ==
  ASSUME IInv, OnListening
  PROVE  IInv'
<1>1. PICK h : h = Head(toClient)
  OBVIOUS
<1>2. /\ toClient # <<>> /\ toClient' = Tail(toClient) /\ h.type = "LISTENING"
      /\ confirmed' = IF h.ok /\ h.of \in listening THEN confirmed \union {h.of} ELSE confirmed \ {h.of}
      /\ UNCHANGED <<procs, listeners, pipeListeners, tables, nextPipeConnId>>
      /\ UNCHANGED <<netRelay, socketVars, streams, nextId, listening, sessionVars, bounds>>
  BY <1>1 DEF OnListening, Takes, kernelVars
<1>3. Relation /\ TableTypes
  BY Types DEF IInv
<1>4. TableTypes' /\ Relation'
  BY <1>2, <1>3, TablesKept, RelationKept
<1>5. /\ h.type # "ACCEPT" /\ h.type # "CLOSE" /\ streams' = streams
      /\ UNCHANGED <<procs, listeners, pipeListeners, nextPipeConnId, netRelay, socketVars, nextId, listening,
                     sessionVars, bounds>>
  BY <1>2
<1>. QED
  BY <1>1, <1>2, <1>4, <1>5, HearsStep

LEMMA OnAcceptStep ==
  ASSUME IInv, OnAccept
  PROVE  IInv'
<1>1. PICK h : h = Head(toClient)
  OBVIOUS
<1>2. PICK a : a = h.of
  OBVIOUS
<1>3. PICK m : m = Pkt("CLOSE", a)
  OBVIOUS
<1>4. /\ toClient # <<>> /\ toClient' = Tail(toClient) /\ h.type = "ACCEPT"
      /\ \/ /\ Welcome(h.port) /\ streams' = streams \union {a}
            /\ Opened(listeners[h.port], a, "connected") /\ UNCHANGED socketVars
         \/ Send(<<m>>) /\ UNCHANGED <<streams, tables, nextPipeConnId>>
      /\ UNCHANGED <<procs, listeners, pipeListeners, netRelay, nextId, listening, confirmed, sessionVars, bounds>>
  BY <1>1, <1>2, <1>3 DEF OnAccept, Takes
<1>5. /\ UNCHANGED <<sockets, reached, servers, binding, late, bound, refused, nextAcceptId>>
      /\ UNCHANGED <<made, work>>
  BY <1>4 DEF sessionVars, portVars, bounds
<1>6. /\ TypeOK /\ Link /\ Room /\ Fresh /\ Relation /\ StreamInv /\ PortInv
      /\ KernelTypes /\ TableTypes /\ ClientTypes /\ RelayTypes /\ CountTypes
  BY Types DEF IInv
<1>7. toClient \in Seq(ToClient) /\ Tail(toClient) \in Seq(ToClient) /\ ws = "open" /\ h \in ToClient
  BY <1>1, <1>4, <1>6 DEF RelayTypes, Link
<1>8. a \in Accepted /\ a \in Streams /\ h.port \in Ports
  BY <1>2, <1>4, <1>7, FromRelay DEF Streams
<1>9. PICK k \in Conns : a = <<"accept", k>>
  BY <1>8, Sets
<1>10. Has(toClient, "ACCEPT", a) /\ a \notin streams
  <2>1. Has(toClient, "ACCEPT", a)
    BY <1>1, <1>2, <1>4, <1>7, HasTaken
  <2>. QED
    BY <1>6, <1>8, <2>1 DEF StreamInv, Offered
<1>11. \A s : Has(Tail(toClient), "ACCEPT", s) => Has(toClient, "ACCEPT", s)
  BY <1>4, <1>7, HasTaken, Zenon
<1>12. KernelTypes' /\ RelayTypes' /\ h.type # "LISTENING"
  BY <1>4, <1>5, <1>6, <1>7 DEF KernelTypes, RelayTypes
<1>13. ASSUME Welcome(h.port), streams' = streams \union {a},
              Opened(listeners[h.port], a, "connected"), UNCHANGED socketVars
       PROVE  IInv'
  <2>1. UNCHANGED <<ws, queue, retryTimer, toRelay>> /\ UNCHANGED Line
    BY <1>13 DEF socketVars, Line
  <2>2. listeners[h.port] \in Procs
    BY <1>6, <1>8, <1>13 DEF Welcome, KernelTypes
  <2>3. /\ nextPipeConnId \in Nat /\ nextAcceptId \in Nat /\ made \in Nat /\ k \in Nat /\ MaxConns \in Nat
        /\ nextPipeConnId >= 1 /\ made <= MaxConns
    BY <1>6, NetRelayAssumption, Sets DEF CountTypes, NetRelayAssumption
  <2>4. k < nextAcceptId /\ nextPipeConnId + (nextAcceptId - k) <= made + 1
    BY <1>6, <1>8, <1>9, <1>10 DEF Fresh, Used, Room
  <2>5. nextPipeConnId \in Conns /\ nextPipeConnId + 1 <= made + 1
    BY <2>3, <2>4 DEF Conns
  <2>6. TableTypes' /\ Relation' /\ nextPipeConnId' = nextPipeConnId + 1
    BY <1>6, <1>8, <1>10, <1>13, <2>2, <2>5, Opens1, OpensRelation DEF Opened
  <2>7. TypeOK'
    <3>1. ClientTypes'
      BY <1>4, <1>6, <1>8, <1>13, <2>1 DEF ClientTypes
    <3>2. CountTypes'
      BY <1>4, <1>5, <1>6, <2>3, <2>5, <2>6 DEF CountTypes
    <3>. QED
      BY <1>12, <2>6, <3>1, <3>2, TypesNext
  <2>8. Link'
    BY <1>4, <1>5, <1>6, <1>7, <2>1 DEF Link
  <2>9. Room'
    <3>1. ASSUME NEW n \in Conns, Has(Tail(toClient), "ACCEPT", <<"accept", n>>)
          PROVE  nextPipeConnId + 1 + (nextAcceptId - n) <= made + 1
      <4>1. Rising(toClient) /\ Head(toClient).type = "ACCEPT" /\ Head(toClient).of = a
        BY <1>1, <1>2, <1>4, <1>6 DEF Fresh
      <4>2. a[2] < <<"accept", n>>[2]
        BY <1>4, <1>7, <3>1, <4>1, RisingTaken
      <4>. QED
        BY <1>9, <2>3, <2>4, <4>2, Sets
    <3>2. \A n \in Conns : Has(toClient', "ACCEPT", <<"accept", n>>) =>
            nextPipeConnId + 1 + (nextAcceptId - n) <= made + 1
      BY <1>4, <3>1
    <3>. QED
      BY <1>4, <1>5, <1>6, <2>3, <2>5, <2>6, <3>2 DEF Room
  <2>10. Fresh' /\ StreamInv'
    BY <1>1, <1>2, <1>4, <1>5, <1>6, <1>13, <2>1, Welcomes
  <2>11. PortInv'
    <3>1. /\ \A n \in Ports : Asked(toRelay', n) <=> Asked(toRelay, n)
          /\ \A n \in Ports, t \in {"LISTEN", "UNLISTEN"} : LastIs(Line', t, n) => LastIs(Line, t, n)
      BY <2>1
    <3>2. UNCHANGED <<listening, netRelay, listeners, servers, binding, late, bound, refused>> /\ confirmed' = confirmed /\ ws' = ws
      BY <1>4, <1>5, <2>1
    <3>. QED
      BY <1>1, <1>4, <1>6, <1>7, <1>12, <3>1, <3>2, Hears
  <2>. QED
    BY <2>6, <2>7, <2>8, <2>9, <2>10, <2>11 DEF IInv
<1>14. ASSUME Send(<<m>>), UNCHANGED <<streams, tables, nextPipeConnId>>
       PROVE  IInv'
  <2>1. m \in ToRelay /\ <<m>> \in Seq(ToRelay) /\ <<m>> # <<>> /\ m.type = "CLOSE"
    <3>1. m \in ToRelay /\ m.type = "CLOSE"
      BY <1>3, <1>8, Packets1
    <3>. QED
      BY <3>1
  <2>2. ws' = ws /\ retryTimer' = retryTimer /\ queue' = queue /\ toRelay' = toRelay \o <<m>>
    BY <1>6, <1>7, <1>14, <2>1 DEF Send, ClientTypes
  <2>3. /\ Line' = Line \o <<m>> /\ Line \in Seq(ToRelay) /\ toRelay \in Seq(ToRelay)
        /\ toRelay \o <<m>> \in Seq(ToRelay) /\ Line = toRelay
    BY <1>6, <1>7, <2>1, <2>2 DEF Line, ClientTypes
  <2>4. TableTypes' /\ Relation'
    BY <1>6, <1>14, TablesKept, RelationKept
  <2>5. TypeOK'
    <3>1. ClientTypes'
      BY <1>4, <1>6, <1>14, <2>2, <2>3 DEF ClientTypes
    <3>2. CountTypes'
      BY <1>4, <1>5, <1>6, <1>14 DEF CountTypes
    <3>. QED
      BY <1>12, <2>4, <3>1, <3>2, TypesNext
  <2>6. Link'
    BY <1>4, <1>5, <1>6, <1>7, <2>2 DEF Link
  <2>7. Room'
    BY <1>4, <1>5, <1>6, <1>11, <1>14, RoomKept
  <2>8. Fresh' /\ StreamInv'
    BY <1>1, <1>2, <1>3, <1>4, <1>5, <1>6, <1>14, <2>3, Refuses
  <2>9. PortInv'
    <3>1. \A n, t : Has(<<m>>, t, n) => t = "CLOSE"
      BY <2>1, HasSingle
    <3>2. \A n, t : Has(toRelay \o <<m>>, t, n) <=> Has(toRelay, t, n) \/ Has(<<m>>, t, n)
      BY <2>1, <2>3, HasJoined, Zenon
    <3>3. \A n, t : LastIs(toRelay \o <<m>>, t, n) => Has(<<m>>, t, n) \/ LastIs(toRelay, t, n)
      BY <2>1, <2>3, LastJoined, LastHas, Zenon
    <3>4. \A n \in Ports : Asked(toRelay', n) <=> Asked(toRelay, n)
      BY <2>2, <3>1, <3>2 DEF Asked
    <3>5. \A n \in Ports, t \in {"LISTEN", "UNLISTEN"} : LastIs(Line', t, n) => LastIs(Line, t, n)
      BY <2>2, <2>3, <3>1, <3>3
    <3>6. UNCHANGED <<listening, netRelay, listeners, servers, binding, late, bound, refused>> /\ confirmed' = confirmed
      BY <1>4, <1>5
    <3>. QED
      BY <1>1, <1>4, <1>6, <1>7, <1>12, <2>2, <3>4, <3>5, <3>6, Hears
  <2>. QED
    BY <2>4, <2>5, <2>6, <2>7, <2>8, <2>9 DEF IInv
<1>. QED
  BY <1>4, <1>13, <1>14

-----------------------------------------------------------------------------
(* The relay.                                                               *)

LEMMA RelayActs ==
  ASSUME IInv, ws = "open", toRelay' \in Seq(ToRelay), RelayTypes', CountTypes', Room', (Fresh /\ StreamInv)', PortInv',
         UNCHANGED <<kernelVars, netRelay, ws, queue, retryTimer, streams, nextId, listening, confirmed>>
  PROVE  IInv'
<1>1. KernelTypes /\ TableTypes /\ ClientTypes /\ Link /\ Relation
  BY Types DEF IInv
<1>2. /\ UNCHANGED <<procs, listeners, pipeListeners, tables, nextPipeConnId>>
      /\ UNCHANGED <<netRelay, ws, queue, retryTimer, streams, nextId, listening, confirmed>>
  BY DEF kernelVars
<1>3. TableTypes' /\ Relation'
  BY <1>1, <1>2, TablesKept, RelationKept
<1>4. KernelTypes' /\ ClientTypes'
  BY <1>1, <1>2 DEF KernelTypes, ClientTypes
<1>5. TypeOK'
  BY <1>3, <1>4, TypesNext
<1>6. Link'
  BY <1>1, <1>2 DEF Link
<1>. QED
  BY <1>3, <1>5, <1>6 DEF IInv

(* A packet that is not about a stream is read. *)
LEMMA Aside ==
  ASSUME NEW q \in Seq(ToRelay), q # <<>>, Head(q).type \in {"LISTEN", "UNLISTEN"}
  PROVE  /\ \A s : \A t \in {"CONNECT", "CLOSE"} : Has(Tail(q), t, s) <=> Has(q, t, s)
         /\ \A s : Once(q, "CONNECT", s) => Once(Tail(q), "CONNECT", s)
         /\ \A s : Follows(q, "CONNECT", "CLOSE", s) => Follows(Tail(q), "CONNECT", "CLOSE", s)
<1>1. \A s, t : Has(q, t, s) <=> (Head(q).type = t /\ Head(q).of = s) \/ Has(Tail(q), t, s)
  BY HasTaken, Zenon
<1>2. ASSUME NEW s, NEW t \in {"CONNECT", "CLOSE"} PROVE Has(Tail(q), t, s) <=> Has(q, t, s)
  <2>1. Head(q).type # t
    OBVIOUS
  <2>. QED
    BY <1>1, <2>1, Zenon
<1>. QED
  BY <1>2, OnceTaken, FollowsTaken, Zenon

(* The relay says something that is not about a stream. *)
LEMMA SaysAside ==
  ASSUME NEW q \in Seq(ToClient), NEW m \in ToClient, m.type \notin {"ACCEPT", "CLOSE"}
  PROVE  /\ \A s : \A t \in {"ACCEPT", "CLOSE"} : Has(q \o <<m>>, t, s) <=> Has(q, t, s)
         /\ \A s : Once(q, "ACCEPT", s) => Once(q \o <<m>>, "ACCEPT", s)
         /\ \A s : Follows(q, "ACCEPT", "CLOSE", s) => Follows(q \o <<m>>, "ACCEPT", "CLOSE", s)
         /\ Rising(q) => Rising(q \o <<m>>)
<1>0. <<m>> \in Seq(ToClient)
  OBVIOUS
<1>1. \A s : \A t \in {"ACCEPT", "CLOSE"} : ~Has(<<m>>, t, s)
  BY HasSingle
<1>2. \A s, t : Has(q \o <<m>>, t, s) <=> Has(q, t, s) \/ Has(<<m>>, t, s)
  BY <1>0, HasJoined, Zenon
<1>3. \A s : ~Has(<<m>>, "ACCEPT", s)
  BY <1>1
<1>4. /\ \A s : Once(q, "ACCEPT", s) => Once(q \o <<m>>, "ACCEPT", s)
      /\ \A s : Follows(q, "ACCEPT", "CLOSE", s) => Follows(q \o <<m>>, "ACCEPT", "CLOSE", s)
  BY <1>0, <1>3, OnceJoined, FollowsJoined, Zenon
<1>5. Rising(q) => Rising(q \o <<m>>)
  BY RisingAdded
<1>6. \A s : \A t \in {"ACCEPT", "CLOSE"} : Has(q \o <<m>>, t, s) <=> Has(q, t, s)
  BY <1>1, <1>2
<1>. QED
  BY <1>4, <1>5, <1>6

LEMMA NotAboutPorts ==
  ASSUME TypeOK, PortInv, NEW m \in ToClient, m.type # "LISTENING", toClient' = toClient \o <<m>>,
         UNCHANGED <<ws, queue, toRelay, listening, netRelay, listeners, servers, binding, late, bound, refused, confirmed>>
  PROVE  PortInv'
<1>1. toClient \in Seq(ToClient) /\ <<m>> \in Seq(ToClient)
  BY DEF TypeOK
<1>2. \A n : Has(toClient \o <<m>>, "LISTENING", n) <=> Has(toClient, "LISTENING", n) \/ Has(<<m>>, "LISTENING", n)
  BY <1>1, HasJoined, Zenon
<1>3. \A n : LastYes(toClient \o <<m>>, n) <=> LastYes(toClient, n)
  BY <1>1, WordAdded, Zenon
<1>4. UNCHANGED Line
  BY DEF Line
<1>5. \A n : ~Has(<<m>>, "LISTENING", n)
  BY HasSingle
<1>6. \A n \in Ports : Granted(n)' <=> Granted(n)
  BY <1>2, <1>3, <1>5 DEF Granted
<1>. QED
  BY <1>4, <1>6, Tells

LEMMA RelayReads ==
  ASSUME IInv, toRelay # <<>>, toRelay' = Tail(toRelay),
         UNCHANGED <<ws, queue>>
  PROVE  /\ ws = "open" /\ Line = toRelay /\ Line' = toRelay' /\ toRelay \in Seq(ToRelay) /\ toRelay' \in Seq(ToRelay)
         /\ Head(toRelay) \in ToRelay
         /\ \A n, t : LastIs(toRelay', t, n) => LastIs(toRelay, t, n)
         /\ \A n, t : Has(toRelay, t, n) <=> (Head(toRelay).type = t /\ Head(toRelay).of = n) \/ Has(toRelay', t, n)
<1>1. ws = "open" /\ toRelay \in Seq(ToRelay) /\ Tail(toRelay) \in Seq(ToRelay) /\ Head(toRelay) \in ToRelay
  BY DEF IInv, Link, TypeOK
<1>2. \A n, t : LastIs(Tail(toRelay), t, n) => LastIs(toRelay, t, n)
  BY <1>1, LastTaken, Zenon
<1>3. \A n, t : Has(toRelay, t, n) <=> (Head(toRelay).type = t /\ Head(toRelay).of = n) \/ Has(Tail(toRelay), t, n)
  BY <1>1, HasTaken, Zenon
<1>. QED
  BY <1>1, <1>2, <1>3 DEF Line

LEMMA RelayObeysStep ==
  ASSUME IInv, RelayConnect \/ RelayClose
  PROVE  IInv'
<1>1. PICK d : d = Head(toRelay).of
  OBVIOUS
<1>2. /\ toRelay # <<>> /\ toRelay' = Tail(toRelay) /\ Head(toRelay).type \in {"CONNECT", "CLOSE"}
      /\ sockets' = IF Head(toRelay).type = "CONNECT" THEN sockets \union {d} ELSE sockets \ {d}
      /\ reached' = IF Head(toRelay).type = "CONNECT" THEN reached ELSE reached \ {d}
      /\ UNCHANGED <<toClient, servers, binding, late, bound, refused, nextAcceptId>>
      /\ UNCHANGED <<kernelVars, netRelay, ws, queue, retryTimer, streams, nextId, listening, confirmed>>
      /\ UNCHANGED bounds
  BY <1>1 DEF RelayConnect, RelayClose, Receives, portVars
<1>3. /\ TypeOK /\ Link /\ Room /\ Fresh /\ StreamInv /\ PortInv /\ RelayTypes /\ CountTypes
  BY Types DEF IInv
<1>4. /\ ws = "open" /\ Line = toRelay /\ Line' = toRelay' /\ toRelay \in Seq(ToRelay) /\ toRelay' \in Seq(ToRelay)
      /\ Head(toRelay) \in ToRelay
      /\ \A n, t : LastIs(toRelay', t, n) => LastIs(toRelay, t, n)
      /\ \A n, t : Has(toRelay, t, n) <=> (Head(toRelay).type = t /\ d = n) \/ Has(toRelay', t, n)
  BY <1>1, <1>2, RelayReads
<1>5. d \in Streams
  BY <1>1, <1>2, <1>4, FromClient
<1>6. UNCHANGED <<nextPipeConnId, listeners>> /\ UNCHANGED <<made, work>>
  BY <1>2 DEF kernelVars, bounds
<1>7. RelayTypes' /\ CountTypes'
  <2>1. RelayTypes'
    BY <1>2, <1>3, <1>5 DEF RelayTypes
  <2>2. CountTypes'
    BY <1>2, <1>3, <1>6 DEF CountTypes
  <2>. QED
    BY <2>1, <2>2
<1>8. Room'
  BY <1>2, <1>3, <1>6, RoomKept
<1>9. (Fresh /\ StreamInv)'
  BY <1>1, <1>2, <1>3, <1>4, Obeys
<1>10. PortInv'
  <2>1. \A n \in Ports : Asked(toRelay', n) <=> Asked(toRelay, n)
    BY <1>2, <1>4 DEF Asked
  <2>2. \A n \in Ports, t \in {"LISTEN", "UNLISTEN"} : LastIs(Line', t, n) => LastIs(Line, t, n)
    BY <1>4
  <2>3. UNCHANGED <<ws, listening, netRelay, listeners, servers, binding, late, bound, refused, confirmed>>
    BY <1>2, <1>6
  <2>4. \A n \in Ports : Granted(n)' <=> Granted(n)
    BY <1>2 DEF Granted
  <2>. QED
    BY <1>3, <2>1, <2>2, <2>3, <2>4, Tells
<1>. QED
  BY <1>2, <1>4, <1>7, <1>8, <1>9, <1>10, RelayActs

(* The relay reads and says things about ports only. *)
LEMMA PortsOnly ==
  ASSUME IInv, ws = "open",
         \/ toRelay' = toRelay
         \/ toRelay # <<>> /\ toRelay' = Tail(toRelay) /\ Head(toRelay).type \in {"LISTEN", "UNLISTEN"},
         \/ toClient' = toClient
         \/ \E n \in Ports, ok \in BOOLEAN : toClient' = toClient \o <<Listening(n, ok)>>,
         RelayTypes', CountTypes', PortInv',
         UNCHANGED <<kernelVars, netRelay, ws, queue, retryTimer, streams, nextId, listening, confirmed>>,
         UNCHANGED <<sockets, nextAcceptId, made>>
  PROVE  IInv'
<1>1. /\ TypeOK /\ Room /\ Fresh /\ StreamInv
      /\ toRelay \in Seq(ToRelay) /\ toClient \in Seq(ToClient)
  BY DEF IInv, TypeOK
<1>2. Line = toRelay /\ Line' = toRelay'
  BY DEF Line
<1>3. toRelay' \in Seq(ToRelay)
  BY <1>1, Taken
<1>4. /\ \A s : \A t \in {"CONNECT", "CLOSE"} : Has(toRelay', t, s) <=> Has(toRelay, t, s)
      /\ \A s : Once(toRelay, "CONNECT", s) => Once(toRelay', "CONNECT", s)
      /\ \A s : Follows(toRelay, "CONNECT", "CLOSE", s) => Follows(toRelay', "CONNECT", "CLOSE", s)
  BY <1>1, Aside
<1>5. /\ \A s : \A t \in {"ACCEPT", "CLOSE"} : Has(toClient', t, s) <=> Has(toClient, t, s)
      /\ \A s : Once(toClient, "ACCEPT", s) => Once(toClient', "ACCEPT", s)
      /\ \A s : Follows(toClient, "ACCEPT", "CLOSE", s) => Follows(toClient', "ACCEPT", "CLOSE", s)
      /\ Rising(toClient) => Rising(toClient')
  <2>1. CASE toClient' = toClient
    BY <2>1
  <2>2. ASSUME NEW n \in Ports, NEW ok \in BOOLEAN, toClient' = toClient \o <<Listening(n, ok)>>
        PROVE  <1>5
    <3>1. Listening(n, ok) \in ToClient /\ Listening(n, ok).type = "LISTENING"
      BY Packets1 DEF Listening
    <3>2. Listening(n, ok).type \notin {"ACCEPT", "CLOSE"}
      BY <3>1
    <3>. QED
      BY <1>1, <2>2, <3>1, <3>2, SaysAside
  <2>. QED
    BY <2>1, <2>2
<1>6. Room'
  <2>1. UNCHANGED <<nextPipeConnId, nextAcceptId, nextId, made>>
    BY DEF kernelVars
  <2>. QED
    BY <1>1, <1>5, <2>1, RoomKept
<1>7. (Fresh /\ StreamInv)'
  <2>1. \A s \in Streams, t \in {"CONNECT", "CLOSE"} : Has(Line', t, s) <=> Has(Line, t, s)
    BY <1>2, <1>4
  <2>2. \A s \in Streams, t \in {"ACCEPT", "CLOSE"} : Has(toClient', t, s) <=> Has(toClient, t, s)
    BY <1>5
  <2>3. \A s \in Streams : /\ Once(Line, "CONNECT", s) => Once(Line', "CONNECT", s)
                           /\ Once(toClient, "ACCEPT", s) => Once(toClient', "ACCEPT", s)
                           /\ Follows(Line, "CONNECT", "CLOSE", s) => Follows(Line', "CONNECT", "CLOSE", s)
                           /\ Follows(toClient, "ACCEPT", "CLOSE", s) => Follows(toClient', "ACCEPT", "CLOSE", s)
    BY <1>2, <1>4, <1>5
  <2>4. /\ TypeOK /\ Fresh /\ StreamInv /\ Rising(toClient')
        /\ UNCHANGED <<streams, sockets, nextId, nextAcceptId>>
    BY <1>1, <1>5 DEF Fresh
  <2>. QED
    BY <2>1, <2>2, <2>3, <2>4, Same, Zenon
<1>. QED
  BY <1>3, <1>6, <1>7, RelayActs

LEMMA RelayListenStep ==
  ASSUME IInv, RelayListen
  PROVE  IInv'
<1>1. PICK n : n = Head(toRelay).of
  OBVIOUS
<1>2. /\ toRelay # <<>> /\ toRelay' = Tail(toRelay) /\ Head(toRelay).type = "LISTEN"
      /\ UNCHANGED <<sockets, reached, late, bound, nextAcceptId>>
      /\ UNCHANGED <<kernelVars, netRelay, ws, queue, retryTimer, streams, nextId, listening, confirmed>>
      /\ UNCHANGED bounds
  BY DEF RelayListen, Receives
<1>3. /\ TypeOK /\ PortInv /\ RelayTypes /\ CountTypes
  BY Types DEF IInv
<1>4. ws = "open" /\ Head(toRelay) \in ToRelay
  BY <1>2, RelayReads
<1>5. n \in Ports
  BY <1>1, <1>2, <1>4, FromClient
<1>6. UNCHANGED <<nextPipeConnId, listeners>> /\ UNCHANGED <<made, work>>
  BY <1>2 DEF kernelVars, bounds
<1>7. CountTypes'
  BY <1>2, <1>3, <1>6 DEF CountTypes
<1>8. UNCHANGED <<ws, listening, netRelay, listeners, confirmed>>
  BY <1>2, <1>6
<1>9. ASSUME n \in servers, refused' = refused \ {n}, Replies(Listening(n, TRUE)), UNCHANGED <<servers, binding>>
      PROVE  IInv'
  <2>1. Listening(n, TRUE) \in ToClient /\ toClient \in Seq(ToClient)
    BY <1>3, <1>5, Packets1 DEF RelayTypes, Listening
  <2>2. toClient' = toClient \o <<Listening(n, TRUE)>> /\ toClient' \in Seq(ToClient)
    <3>1. PICK m \in ToClient : m = Listening(n, TRUE)
      BY <2>1
    <3>2. toClient' = Append(toClient, m)
      BY <1>9, <3>1 DEF Replies
    <3>3. toClient' = toClient \o <<m>> /\ toClient' \in Seq(ToClient)
      BY <2>1, <3>2, Single
    <3>. QED
      BY <3>1, <3>3, Zenon
  <2>3. RelayTypes'
    BY <1>2, <1>3, <1>9, <2>2 DEF RelayTypes
  <2>4. PortInv'
    BY <1>1, <1>2, <1>3, <1>4, <1>8, <1>9, <2>2, Confirms
  <2>5. \E k \in Ports, ok \in BOOLEAN : toClient' = toClient \o <<Listening(k, ok)>>
    BY <1>5, <2>2
  <2>. QED
    BY <1>2, <1>4, <1>6, <1>7, <2>3, <2>4, <2>5, PortsOnly
<1>10. ASSUME n \notin servers, servers' = servers \union {n}, binding' = binding \union {n},
              UNCHANGED <<refused, toClient>>
       PROVE  IInv'
  <2>1. RelayTypes'
    BY <1>2, <1>3, <1>5, <1>10 DEF RelayTypes
  <2>2. PortInv'
    BY <1>1, <1>2, <1>3, <1>4, <1>5, <1>8, <1>10, Registers
  <2>. QED
    BY <1>2, <1>4, <1>6, <1>7, <1>10, <2>1, <2>2, PortsOnly
<1>. QED
  BY <1>1, <1>9, <1>10 DEF RelayListen

LEMMA RelayUnlistenStep ==
  ASSUME IInv, RelayUnlisten
  PROVE  IInv'
<1>1. PICK n : n = Head(toRelay).of
  OBVIOUS
<1>2. /\ toRelay # <<>> /\ toRelay' = Tail(toRelay) /\ Head(toRelay).type = "UNLISTEN"
      /\ servers' = servers \ {n} /\ binding' = binding \ {n} /\ bound' \in {bound, bound \ {n}}
      /\ late' \in {late, [late EXCEPT ![n] = @ + 1]}
      /\ UNCHANGED <<toClient, sockets, reached, refused, nextAcceptId>>
      /\ UNCHANGED <<kernelVars, netRelay, ws, queue, retryTimer, streams, nextId, listening, confirmed>>
      /\ UNCHANGED bounds
  BY <1>1 DEF RelayUnlisten, Receives
<1>3. /\ TypeOK /\ PortInv /\ RelayTypes /\ CountTypes
  BY Types DEF IInv
<1>4. ws = "open" /\ Head(toRelay) \in ToRelay
  BY <1>2, RelayReads
<1>5. n \in Ports
  BY <1>1, <1>2, <1>4, FromClient
<1>6. UNCHANGED <<nextPipeConnId, listeners>> /\ UNCHANGED <<made, work>>
  BY <1>2 DEF kernelVars, bounds
<1>7. RelayTypes' /\ CountTypes'
  <2>1. late' \in [Ports -> Nat]
    BY <1>2, <1>3, <1>5 DEF RelayTypes
  <2>2. RelayTypes'
    BY <1>2, <1>3, <2>1 DEF RelayTypes
  <2>3. CountTypes'
    BY <1>2, <1>3, <1>6 DEF CountTypes
  <2>. QED
    BY <2>2, <2>3
<1>8. PortInv'
  <2>1. UNCHANGED <<ws, listening, netRelay, listeners, confirmed, refused, toClient>>
    BY <1>2, <1>6
  <2>. QED
    BY <1>1, <1>2, <1>3, <1>4, <1>5, <2>1, Unbinds
<1>. QED
  BY <1>2, <1>4, <1>6, <1>7, <1>8, PortsOnly

(* A bind settles, in an open session. *)
LEMMA SettlesStep ==
  ASSUME IInv, NEW n \in Ports, NEW ok \in BOOLEAN, Replies(Listening(n, ok)),
         n \in binding \/ late[n] > 0, late' \in [Ports -> Nat], CountTypes',
         ok => bound' = bound \union {n} /\ binding' \in {binding, binding \ {n}}
               /\ UNCHANGED servers /\ refused' = refused \ {n},
         ~ok => binding' = binding \ {n} /\ servers' = servers \ {n}
                /\ UNCHANGED bound /\ refused' = refused \union {n},
         UNCHANGED <<kernelVars, clientVars, sockets, reached, nextAcceptId, made>>
  PROVE  IInv'
<1>1. TypeOK /\ Link /\ PortInv /\ RelayTypes
  BY Types DEF IInv
<1>2. ws = "open"
  BY <1>1 DEF Link
<1>3. /\ UNCHANGED <<netRelay, ws, queue, retryTimer, toRelay, streams, nextId, listening, confirmed>>
      /\ UNCHANGED <<listeners, nextPipeConnId>>
  BY DEF clientVars, socketVars, kernelVars
<1>4. Listening(n, ok) \in ToClient /\ toClient \in Seq(ToClient)
  BY <1>1, Packets1 DEF RelayTypes, Listening
<1>5. toClient' = toClient \o <<Listening(n, ok)>> /\ toClient' \in Seq(ToClient)
  BY <1>4, Single DEF Replies
<1>6. RelayTypes'
  <2>1. servers' \subseteq Ports /\ binding' \subseteq servers' /\ bound' \subseteq Ports /\ refused' \subseteq Ports
    BY <1>1 DEF RelayTypes
  <2>. QED
    BY <1>1, <1>5, <2>1 DEF RelayTypes
<1>7. PortInv'
  BY <1>1, <1>3, <1>5, Settles
<1>8. \E k \in Ports, b \in BOOLEAN : toClient' = toClient \o <<Listening(k, b)>>
  BY <1>5
<1>9. UNCHANGED <<kernelVars, netRelay, ws, queue, retryTimer, streams, nextId, listening, confirmed>>
  BY <1>3
<1>. QED
  BY <1>2, <1>3, <1>6, <1>7, <1>8, <1>9, PortsOnly

LEMMA BindsStep ==
  ASSUME IInv, NEW n \in Ports, Binds(n)
  PROVE  IInv'
<1>1. late \in [Ports -> Nat] /\ CountTypes
  BY Types DEF IInv, RelayTypes
<1>2. /\ n \in binding \/ late[n] > 0
      /\ late' \in [Ports -> Nat]
      /\ binding' \in {binding, binding \ {n}}
  BY <1>1 DEF Binds
<1>3. /\ bound' = bound \union {n} /\ refused' = refused \ {n} /\ UNCHANGED servers
      /\ Replies(Listening(n, TRUE))
      /\ UNCHANGED <<kernelVars, clientVars, sockets, reached, nextAcceptId, made>>
      /\ UNCHANGED <<nextPipeConnId, nextId, nextAcceptId, made, work>>
  BY DEF Binds, bounds, kernelVars, clientVars
<1>4. CountTypes'
  BY <1>1, <1>3 DEF CountTypes
<1>. QED
  BY <1>2, <1>3, <1>4, SettlesStep

LEMMA BindFailsStep ==
  ASSUME IInv, NEW n \in Ports, BindFails(n)
  PROVE  IInv'
<1>1. late \in [Ports -> Nat] /\ CountTypes
  BY Types DEF IInv, RelayTypes
<1>2. /\ n \in binding \/ late[n] > 0
      /\ late' \in [Ports -> Nat]
  BY <1>1 DEF BindFails
<1>3. /\ binding' = binding \ {n} /\ servers' = servers \ {n} /\ UNCHANGED bound /\ refused' = refused \union {n}
      /\ Replies(Listening(n, FALSE))
      /\ UNCHANGED <<kernelVars, clientVars, sockets, reached, nextAcceptId, made>>
      /\ UNCHANGED <<nextPipeConnId, nextId, nextAcceptId, made>>
  BY DEF BindFails, AfterError, kernelVars, clientVars
<1>4. work' = work \/ (work < MaxWork /\ work' = work + 1)
  BY DEF BindFails, Bounded
<1>5. CountTypes'
  BY <1>1, <1>3, <1>4, NetRelayAssumption DEF CountTypes, NetRelayAssumption
<1>. QED
  BY <1>2, <1>3, <1>5, SettlesStep

LEMMA ConnectsStep ==
  ASSUME IInv, NEW s, Connects(s)
  PROVE  IInv'
<1>1. PICK m : m = Pkt("CONNECTED", s)
  OBVIOUS
<1>2. /\ s \in sockets /\ s \in Dialled /\ reached' = reached \union {s} /\ toClient' = Append(toClient, m)
      /\ UNCHANGED <<kernelVars, netRelay, ws, queue, retryTimer, streams, nextId, listening, confirmed>>
      /\ UNCHANGED <<toRelay, sockets, servers, binding, late, bound, refused, nextAcceptId>>
      /\ UNCHANGED bounds
  BY <1>1 DEF Connects, Replies, TCP, portVars, clientVars, socketVars
<1>3. /\ TypeOK /\ Link /\ Room /\ Fresh /\ StreamInv /\ PortInv /\ RelayTypes /\ ClientTypes /\ CountTypes
  BY Types DEF IInv
<1>4. ws = "open" /\ toRelay' \in Seq(ToRelay) /\ UNCHANGED Line
  BY <1>2, <1>3 DEF Link, ClientTypes, Line
<1>5. m \in ToClient /\ m.type = "CONNECTED" /\ toClient \in Seq(ToClient)
      /\ toClient' = toClient \o <<m>> /\ toClient' \in Seq(ToClient)
  <2>1. m \in ToClient /\ m.type = "CONNECTED"
    BY <1>1, <1>2, Packets1
  <2>2. toClient \in Seq(ToClient)
    BY <1>3 DEF RelayTypes
  <2>. QED
    BY <1>2, <2>1, <2>2, Single
<1>6. UNCHANGED <<nextPipeConnId, listeners>> /\ UNCHANGED <<made, work>>
  BY <1>2 DEF kernelVars, bounds
<1>7. RelayTypes' /\ CountTypes'
  <2>1. RelayTypes'
    BY <1>2, <1>3, <1>5 DEF RelayTypes
  <2>2. CountTypes'
    BY <1>2, <1>3, <1>6 DEF CountTypes
  <2>. QED
    BY <2>1, <2>2
<1>8. /\ \A x : \A t \in {"ACCEPT", "CLOSE"} : Has(toClient', t, x) <=> Has(toClient, t, x)
      /\ \A x : Once(toClient, "ACCEPT", x) => Once(toClient', "ACCEPT", x)
      /\ \A x : Follows(toClient, "ACCEPT", "CLOSE", x) => Follows(toClient', "ACCEPT", "CLOSE", x)
      /\ Rising(toClient) => Rising(toClient')
  BY <1>5, SaysAside
<1>9. Room'
  BY <1>2, <1>3, <1>6, <1>8, RoomKept
<1>10. (Fresh /\ StreamInv)'
  <2>1. \A x \in Streams, t \in {"CONNECT", "CLOSE"} : Has(Line', t, x) <=> Has(Line, t, x)
    BY <1>4
  <2>2. \A x \in Streams, t \in {"ACCEPT", "CLOSE"} : Has(toClient', t, x) <=> Has(toClient, t, x)
    BY <1>8
  <2>3. \A x \in Streams : /\ Once(Line, "CONNECT", x) => Once(Line', "CONNECT", x)
                           /\ Once(toClient, "ACCEPT", x) => Once(toClient', "ACCEPT", x)
                           /\ Follows(Line, "CONNECT", "CLOSE", x) => Follows(Line', "CONNECT", "CLOSE", x)
                           /\ Follows(toClient, "ACCEPT", "CLOSE", x) => Follows(toClient', "ACCEPT", "CLOSE", x)
    BY <1>4, <1>8
  <2>4. /\ TypeOK /\ Fresh /\ StreamInv /\ Rising(toClient')
        /\ UNCHANGED <<streams, sockets, nextId, nextAcceptId>>
    BY <1>2, <1>3, <1>8 DEF Fresh
  <2>. QED
    BY <2>1, <2>2, <2>3, <2>4, Same, Zenon
<1>11. PortInv'
  BY <1>2, <1>3, <1>5, <1>6, NotAboutPorts
<1>. QED
  BY <1>2, <1>4, <1>7, <1>9, <1>10, <1>11, RelayActs

LEMMA EndsStep ==
  ASSUME IInv, NEW s, Ends(s)
  PROVE  IInv'
<1>1. PICK m : m = Pkt("CLOSE", s)
  OBVIOUS
<1>2. /\ s \in sockets /\ sockets' = sockets \ {s} /\ reached' = reached \ {s} /\ toClient' = Append(toClient, m)
      /\ UNCHANGED <<kernelVars, netRelay, ws, queue, retryTimer, streams, nextId, listening, confirmed>>
      /\ UNCHANGED <<toRelay, servers, binding, late, bound, refused, nextAcceptId>>
      /\ UNCHANGED bounds
  BY <1>1 DEF Ends, Replies, TCP, portVars, clientVars, socketVars
<1>3. /\ TypeOK /\ Link /\ Room /\ Fresh /\ StreamInv /\ PortInv /\ RelayTypes /\ ClientTypes /\ CountTypes
  BY Types DEF IInv
<1>4. ws = "open" /\ toRelay' \in Seq(ToRelay) /\ UNCHANGED Line
  BY <1>2, <1>3 DEF Link, ClientTypes, Line
<1>5. m \in ToClient /\ m.type = "CLOSE" /\ toClient \in Seq(ToClient)
      /\ toClient' = toClient \o <<m>> /\ toClient' \in Seq(ToClient) /\ <<m>> \in Seq(ToClient)
  <2>1. m \in ToClient /\ m.type = "CLOSE"
    BY <1>1, <1>2, <1>3, Packets1 DEF RelayTypes
  <2>2. toClient \in Seq(ToClient)
    BY <1>3 DEF RelayTypes
  <2>. QED
    BY <1>2, <2>1, <2>2, Single
<1>6. UNCHANGED <<nextPipeConnId, listeners>> /\ UNCHANGED <<made, work>>
  BY <1>2 DEF kernelVars, bounds
<1>7. RelayTypes' /\ CountTypes'
  <2>1. RelayTypes'
    BY <1>2, <1>3, <1>5 DEF RelayTypes
  <2>2. CountTypes'
    BY <1>2, <1>3, <1>6 DEF CountTypes
  <2>. QED
    BY <2>1, <2>2
<1>8. Room'
  <2>1. \A x : ~Has(<<m>>, "ACCEPT", x)
    BY <1>5, HasSingle
  <2>2. \A x : Has(toClient \o <<m>>, "ACCEPT", x) <=> Has(toClient, "ACCEPT", x) \/ Has(<<m>>, "ACCEPT", x)
    BY <1>5, HasJoined, Zenon
  <2>3. \A x : Has(toClient', "ACCEPT", x) => Has(toClient, "ACCEPT", x)
    BY <1>5, <2>1, <2>2
  <2>. QED
    BY <1>2, <1>3, <1>6, <2>3, RoomKept
<1>9. (Fresh /\ StreamInv)'
  BY <1>1, <1>2, <1>3, <1>4, <1>5, Breaks
<1>10. PortInv'
  BY <1>2, <1>3, <1>5, <1>6, NotAboutPorts
<1>. QED
  BY <1>2, <1>4, <1>7, <1>8, <1>9, <1>10, RelayActs

LEMMA AcceptsStep ==
  ASSUME IInv, NEW n \in Ports, Accepts(n)
  PROVE  IInv'
<1>1. PICK d : d = <<"accept", nextAcceptId>>
  OBVIOUS
<1>2. PICK m : m = [type |-> "ACCEPT", of |-> d, port |-> n]
  OBVIOUS
<1>3. /\ n \in bound /\ work < MaxWork /\ work' = work + 1 /\ made < MaxConns /\ made' = made + 1
      /\ nextAcceptId' = nextAcceptId + 1 /\ sockets' = sockets \union {d} /\ toClient' = Append(toClient, m)
      /\ UNCHANGED <<kernelVars, netRelay, ws, queue, retryTimer, streams, nextId, listening, confirmed>>
      /\ UNCHANGED <<toRelay, reached, servers, binding, late, bound, refused>>
  BY <1>1, <1>2 DEF Accepts, Bounded, Replies, TCP, portVars, clientVars, socketVars
<1>4. /\ TypeOK /\ Link /\ Room /\ Fresh /\ StreamInv /\ PortInv /\ RelayTypes /\ ClientTypes /\ CountTypes
  BY Types DEF IInv
<1>5. ws = "open" /\ toRelay' \in Seq(ToRelay) /\ UNCHANGED Line
  BY <1>3, <1>4 DEF Link, ClientTypes, Line
<1>6. /\ nextAcceptId \in Conns /\ Conns \subseteq Nat /\ made \in Nat /\ MaxConns \in Nat /\ MaxWork \in Nat
      /\ nextPipeConnId \in Nat
  BY <1>3, <1>4, NetRelayAssumption DEF NetRelayAssumption, CountTypes, Room, Conns
<1>7. d \in Accepted /\ d \in Streams
  BY <1>1, <1>6, Sets
<1>8. m \in ToClient /\ m.type = "ACCEPT" /\ m.of = d /\ toClient \in Seq(ToClient)
      /\ toClient' = toClient \o <<m>> /\ toClient' \in Seq(ToClient) /\ <<m>> \in Seq(ToClient)
  <2>1. m \in ToClient /\ m.type = "ACCEPT" /\ m.of = d
    BY <1>2, <1>7, Packets1
  <2>2. toClient \in Seq(ToClient)
    BY <1>4 DEF RelayTypes
  <2>. QED
    BY <1>3, <2>1, <2>2, Single
<1>9. UNCHANGED <<nextPipeConnId, listeners>>
  BY <1>3 DEF kernelVars
<1>10. RelayTypes' /\ CountTypes'
  <2>1. RelayTypes'
    BY <1>3, <1>4, <1>7, <1>8 DEF RelayTypes
  <2>2. CountTypes'
    BY <1>3, <1>4, <1>6, <1>9 DEF CountTypes, Conns
  <2>. QED
    BY <2>1, <2>2
<1>11. Room'
  <2>1. \A x : Has(<<m>>, "ACCEPT", x) <=> x = d
    BY <1>8, HasSingle
  <2>2. \A x : Has(toClient \o <<m>>, "ACCEPT", x) <=> Has(toClient, "ACCEPT", x) \/ Has(<<m>>, "ACCEPT", x)
    BY <1>8, HasJoined, Zenon
  <2>3. ASSUME NEW k \in Conns, Has(toClient', "ACCEPT", <<"accept", k>>)
        PROVE  nextPipeConnId + (nextAcceptId + 1 - k) <= made + 2
    <3>1. CASE k = nextAcceptId
      BY <1>4, <1>6, <3>1 DEF Room
    <3>2. CASE k # nextAcceptId
      <4>1. Has(toClient, "ACCEPT", <<"accept", k>>)
        BY <1>1, <1>8, <2>1, <2>2, <2>3, <3>2
      <4>2. nextPipeConnId + (nextAcceptId - k) <= made + 1
        BY <1>4, <4>1 DEF Room
      <4>. QED
        BY <1>6, <4>2
    <3>. QED
      BY <3>1, <3>2
  <2>4. nextId' <= made' + 1 /\ nextAcceptId' <= made' + 1 /\ nextPipeConnId' <= made' + 1
    BY <1>3, <1>4, <1>6, <1>9 DEF Room, CountTypes
  <2>5. \A k \in Conns : Has(toClient', "ACCEPT", <<"accept", k>>) =>
          nextPipeConnId' + (nextAcceptId' - k) <= made' + 1
    BY <1>3, <1>6, <1>9, <2>3
  <2>. QED
    BY <2>4, <2>5 DEF Room
<1>12. (Fresh /\ StreamInv)'
  BY <1>1, <1>2, <1>3, <1>4, <1>5, <1>6, <1>8, Offers
<1>13. PortInv'
  BY <1>3, <1>4, <1>8, <1>9, NotAboutPorts
<1>. QED
  BY <1>3, <1>5, <1>10, <1>11, <1>12, <1>13, RelayActs

-----------------------------------------------------------------------------
(* The invariant.                                                           *)

LEMMA Starts ==
  ASSUME Init
  PROVE  IInv
<1>1. /\ procs = Procs /\ listeners = [n \in Ports |-> None] /\ pipeListeners = [n \in Ports |-> None]
      /\ pipeConns = <<>> /\ netStreamByConn = <<>> /\ netConnByStream = <<>>
      /\ netPending = {} /\ told = [c \in Conns |-> "nothing"] /\ nextPipeConnId = 1 /\ netRelay \in BOOLEAN
  BY DEF Init
<1>2. /\ ws = "none" /\ queue = <<>> /\ retryTimer = FALSE /\ streams = {} /\ nextId = 1 /\ listening = {}
      /\ confirmed = {} /\ toRelay = <<>> /\ toClient = <<>> /\ sockets = {} /\ reached = {} /\ servers = {}
      /\ binding = {} /\ late = [n \in Ports |-> 0] /\ bound = {} /\ refused = {} /\ nextAcceptId = 1 /\ made = 0 /\ work = 0
  BY DEF Init
<1>3. MaxConns \in Nat /\ MaxWork \in Nat
  BY NetRelayAssumption DEF NetRelayAssumption
<1>4. KernelTypes
  BY <1>1 DEF KernelTypes
<1>5. TableTypes
  <2>1. pipeConns \in [{} -> Procs] /\ netStreamByConn \in [{} -> Streams] /\ netConnByStream \in [{} -> Conns]
    BY <1>1
  <2>2. \E C \in SUBSET Conns : pipeConns \in [C -> Procs] /\ netStreamByConn \in [C -> Streams]
    BY <2>1
  <2>3. \E S \in SUBSET Streams : netConnByStream \in [S -> Conns]
    BY <2>1
  <2>4. netPending \subseteq Conns /\ told \in [Conns -> {"nothing", "dialing", "connected", "closed"}]
    BY <1>1
  <2>. QED
    BY <2>2, <2>3, <2>4 DEF TableTypes
<1>6. ClientTypes /\ RelayTypes
  <2>1. <<>> \in Seq(ToRelay) /\ <<>> \in Seq(ToClient)
    OBVIOUS
  <2>2. retryTimer \in BOOLEAN /\ ws \in {"none", "connecting", "open"}
    BY <1>2
  <2>. QED
    BY <1>1, <1>2, <2>1, <2>2 DEF ClientTypes, RelayTypes
<1>7. CountTypes
  BY <1>1, <1>2, <1>3 DEF CountTypes
<1>8. TypeOK
  BY <1>4, <1>5, <1>6, <1>7, Types
<1>9. Link
  BY <1>2 DEF Link
<1>10. Line = <<>>
  BY <1>2 DEF Line
<1>11. Room /\ Fresh /\ StreamInv
  <2>1. /\ \A t, x : ~Has(Line, t, x) /\ ~Has(toClient, t, x)
        /\ Rising(toClient)
    BY <1>2, <1>10, Empty
  <2>2. Room
    BY <1>1, <1>2, <2>1 DEF Room
  <2>3. Fresh
    BY <1>2, <2>1 DEF Fresh
  <2>4. StreamInv
    BY <1>2, <2>1 DEF StreamInv, Connecting, Parting, Over, Offered, Owned, Carried
  <2>. QED
    BY <2>2, <2>3, <2>4
<1>12. Relation
  <2>1. Known = {} /\ DOMAIN netConnByStream = {}
    BY <1>1 DEF Known
  <2>. QED
    BY <1>1, <1>2, <2>1 DEF Relation
<1>13. PortInv
  <2>1. listening = IF netRelay THEN {n \in Ports : listeners[n] # None} ELSE {}
    BY <1>1, <1>2
  <2>2. \A t, n : ~LastIs(Line, t, n)
    BY <1>10, Empty
  <2>. QED
    BY <1>2, <2>1, <2>2 DEF PortInv, Wanted, Bound, Heard
<1>. QED
  BY <1>8, <1>9, <1>11, <1>12, <1>13 DEF IInv

LEMMA Stutters ==
  ASSUME IInv, UNCHANGED vars
  PROVE  IInv'
<1>1. /\ UNCHANGED <<procs, listeners, pipeListeners, tables, nextPipeConnId>>
      /\ UNCHANGED <<netRelay, ws, queue, retryTimer, toRelay, streams, nextId, listening, confirmed>>
      /\ UNCHANGED <<toClient, sessionVars, bounds>>
  BY DEF vars, kernelVars, clientVars, socketVars
<1>2. UNCHANGED <<sockets, reached, servers, binding, late, bound, refused, nextAcceptId>>
  BY <1>1 DEF sessionVars, portVars
<1>3. KernelTypes /\ ClientTypes /\ Link
  BY Types DEF IInv
<1>4. KernelTypes' /\ ClientTypes' /\ Link' /\ UNCHANGED Line
  BY <1>1, <1>2, <1>3 DEF KernelTypes, ClientTypes, Link, Line
<1>. QED
  BY <1>1, <1>4, SilentStep

LEMMA Inductive == IInv /\ [Next]_vars => IInv'
<1>. SUFFICES ASSUME IInv, [Next]_vars PROVE IInv'
  OBVIOUS
<1>1. CASE Opens \/ Lost \/ Retry
  BY <1>1, OpensStep, LostStep, RetryStep
<1>2. ASSUME NEW on \in BOOLEAN, SetNetRelay(on) PROVE IInv'
  BY <1>2, SetNetRelayStep
<1>3. CASE Calls
  <2>1. PICK p \in Procs :
          \/ \E n \in Ports : Listen(p, n) \/ PipeListen(p, n) \/ CloseServer(p, n) \/ PipeCloseServer(p, n)
          \/ Dial(p) \/ Finalize(p)
    BY <1>3 DEF Calls
  <2>2. ASSUME NEW n \in Ports, Listen(p, n) PROVE IInv'
    BY <2>2, ListenStep
  <2>3. ASSUME NEW n \in Ports, PipeListen(p, n) \/ PipeCloseServer(p, n) PROVE IInv'
    BY <2>3, PipeStep
  <2>4. ASSUME NEW n \in Ports, CloseServer(p, n) PROVE IInv'
    BY <2>4, CloseServerStep
  <2>5. CASE Dial(p)
    BY <2>5, DialStep
  <2>6. CASE Finalize(p)
    BY <2>6, FinalizeStep
  <2>. QED
    BY <2>1, <2>2, <2>3, <2>4, <2>5, <2>6
<1>4. ASSUME NEW c \in Conns, GuestCloses(c) PROVE IInv'
  BY <1>4, GuestClosesStep
<1>5. CASE OnPacket
  BY <1>5, OnCloseStep, OnConnectedStep, OnAcceptStep, OnListeningStep DEF OnPacket
<1>6. CASE Session
  BY <1>6, RelayObeysStep, RelayListenStep, RelayUnlistenStep DEF Session
<1>7. ASSUME NEW s \in Streams, Connects(s) PROVE IInv'
  BY <1>7, ConnectsStep
<1>8. ASSUME NEW s \in Streams, Ends(s) PROVE IInv'
  BY <1>8, EndsStep
<1>9. ASSUME NEW n \in Ports, Accepts(n) PROVE IInv'
  BY <1>9, AcceptsStep
<1>10. ASSUME NEW n \in Ports, Binds(n) \/ BindFails(n) PROVE IInv'
  BY <1>10, BindsStep, BindFailsStep
<1>11. CASE UNCHANGED vars
  BY <1>11, Stutters
<1>. QED
  BY <1>1, <1>2, <1>3, <1>4, <1>5, <1>6, <1>7, <1>8, <1>9, <1>10, <1>11 DEF Next

LEMMA Invariance == Spec => []IInv
<1>1. Init => IInv
  BY Starts
<1>. QED
  BY <1>1, Inductive, PTL DEF Spec

(* Type correctness: every table, queue and counter of the kernel, of its   *)
(* client and of the relay holds what it is declared to hold; in particular *)
(* only packets of the protocol are under way, of known streams and ports.  *)
THEOREM TypeCorrect == Spec => []TypeOK
<1>1. IInv => TypeOK
  BY DEF IInv
<1>. QED
  BY <1>1, Invariance, PTL

(* The kernel's three tables, the client's streams and what the guests were *)
(* told are one relation at every moment, whatever was closed, lost,        *)
(* accepted or replaced (netDeliverClose, netFromProc, netAccept,           *)
(* setNetRelay, _down), for any number of processes and connections.        *)
THEOREM TablesSafe == Spec => []TablesAgree
<1>1. ASSUME IInv PROVE TablesAgree
  <2>1. TypeOK /\ Relation
    BY <1>1 DEF IInv
  <2>2. /\ DOMAIN pipeConns = Known /\ Known \subseteq Conns
        /\ DOMAIN netConnByStream \subseteq Streams
    BY <2>1, Tables
  <2>3. PICK S \in SUBSET Streams : netConnByStream \in [S -> Conns]
    BY <2>1 DEF TypeOK
  <2>4. S = streams /\ S = Range(netStreamByConn)
    BY <2>1, <2>3 DEF Relation, Range, Known
  <2>5. \A s \in S : netConnByStream[s] = CHOOSE c \in Known : netStreamByConn[c] = s
    BY <2>1, <2>3, <2>4 DEF Relation
  <2>6. netConnByStream = [s \in Range(netStreamByConn) |-> CHOOSE c \in Known : netStreamByConn[c] = s]
    BY <2>3, <2>4, <2>5
  <2>7. Cardinality(streams) = Cardinality(Known)
    <3>1. netConnByStream \in Bijection(streams, Known)
      <4>1. netConnByStream \in [streams -> Known]
        BY <2>1, <2>3, <2>4 DEF Relation
      <4>2. \A s, t \in streams : netConnByStream[s] = netConnByStream[t] => s = t
        BY <2>1 DEF Relation
      <4>3. \A c \in Known : \E s \in streams : netConnByStream[s] = c
        BY <2>1 DEF Relation
      <4>. QED
        BY <4>1, <4>2, <4>3 DEF Bijection, Injection, Surjection, IsInjective
    <3>2. ExistsBijection(streams, Known)
      BY <3>1, Zenon DEF ExistsBijection
    <3>3. IsFiniteSet(streams)
      BY <2>1, FewStreams, FS_Subset DEF TypeOK
    <3>. QED
      BY <3>2, <3>3, FS_Bijection
  <2>8. streams = DOMAIN netConnByStream
    BY <2>1 DEF Relation
  <2>. QED
    BY <2>1, <2>2, <2>6, <2>7, <2>8 DEF TablesAgree, Relation
<1>. QED
  BY <1>1, Invariance, PTL

(* The client and the relay agree on the streams up to the packets between  *)
(* them: no TCP socket of the host is left that nobody in the VM owns, and  *)
(* no guest waits for a stream the relay has given up.                      *)
THEOREM StreamsSafe == Spec => []StreamsAgree
<1>1. ASSUME NEW q, NEW t, NEW x PROVE Has(q, t, x) <=> x \in Packets(q, t)
  BY DEF Has, Is, Packets
<1>2. ASSUME IInv PROVE StreamsAgree
  <2>1. Link /\ Owned /\ Carried
    BY <1>2 DEF IInv, StreamInv
  <2>2. ASSUME NEW s \in sockets
        PROVE  s \in streams \/ s \in Packets(toClient, "ACCEPT") \/ s \in Packets(toRelay, "CLOSE")
    <3>1. ws = "open" /\ Line = toRelay
      BY <2>1 DEF Link, Line
    <3>. QED
      BY <1>1, <2>1, <3>1 DEF Owned
  <2>3. ASSUME NEW s \in streams
        PROVE  \/ s \in sockets
               \/ s \in Packets(queue, "CONNECT") \union Packets(toRelay, "CONNECT")
               \/ s \in Packets(toClient, "CLOSE")
    <3>1. Line \in {queue, toRelay}
      BY DEF Line
    <3>. QED
      BY <1>1, <2>1, <3>1 DEF Carried
  <2>. QED
    BY <2>2, <2>3 DEF StreamsAgree
<1>. QED
  BY <1>2, Invariance, PTL

(* Whatever the order in which ports changed hands, sockets broke, binds    *)
(* settled and late LISTENINGs arrived: once everything said has been heard *)
(* and no server in the relay's map is still to bind, the client counts as  *)
(* forwarded the served ports that the relay's last word did not refuse;    *)
(* on each of them a server listens, and the relay's map has no other.      *)
THEOREM BindingsSafe == Spec => []BindingsSettle
<1>1. ASSUME IInv, AllHeard
      PROVE  /\ listening = {n \in Ports : listeners[n] # None}
             /\ confirmed = listening \ refused
             /\ servers \subseteq confirmed /\ confirmed \subseteq bound
  <2>1. /\ TypeOK /\ Link /\ Wanted /\ Bound /\ Heard
        /\ ws = "open" /\ toRelay = <<>> /\ toClient = <<>> /\ binding = {}
    BY <1>1 DEF IInv, PortInv, AllHeard
  <2>2. \A n : ~Asked(toRelay, n) /\ (Granted(n) <=> n \in confirmed)
    BY <2>1, Empty DEF Asked, Granted
  <2>3. servers \subseteq Ports /\ listening \subseteq Ports /\ confirmed \subseteq listening
    BY <2>1 DEF TypeOK
  <2>4. listening = {n \in Ports : listeners[n] # None}
    BY <2>1 DEF Link, Wanted
  <2>5. servers \subseteq listening
    BY <2>1, <2>2, <2>3 DEF Bound
  <2>6. \A n \in listening : /\ n \in confirmed => n \notin refused /\ n \in bound
                             /\ n \in servers => n \in confirmed
                             /\ n \in confirmed \/ n \in refused
    BY <2>1, <2>2, <2>3 DEF Heard
  <2>. QED
    BY <2>3, <2>4, <2>5, <2>6
<1>2. IInv => BindingsSettle
  BY <1>1 DEF BindingsSettle
<1>. QED
  BY <1>2, Invariance, PTL

===============================================================================
