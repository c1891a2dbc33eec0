-------------------------- MODULE RelayStreamProofs --------------------------
(***************************************************************************)
(* One relayed connection, for any credit, window, batch of                *)
(* acknowledgements and number of chunks: what the guest has not taken in  *)
(* stays within the window, and both directions are the streams of the     *)
(* module Stream.                                                          *)
(*                                                                         *)
(* A direction is a chain of queues.  At any moment each of them carries   *)
(* the chunks of an interval, in order, and the intervals join: from what  *)
(* the reader has to what the writer wrote.  Most of the invariant says    *)
(* when a link of that chain may be missing, and what an announced end     *)
(* entitles its reader to.                                                 *)
(***************************************************************************)
EXTENDS RelayStream, TLAPS

-----------------------------------------------------------------------------
(* Queues.                                                                  *)

Has(q, t) == \E i \in 1..Len(q) : q[i].type = t
Holds(s, x) == \E i \in 1..Len(s) : s[i] = x

(* The messages of type t in q carry exactly lo+1..hi, in that order.       *)
Carries(q, t, lo, hi) ==
  /\ lo <= hi
  /\ \A i \in 1..Len(q) : q[i].type = t => lo < q[i].n /\ q[i].n <= hi
  /\ \A v \in lo+1..hi : \E i \in 1..Len(q) : q[i].type = t /\ q[i].n = v
  /\ \A i, j \in 1..Len(q) : i < j /\ q[i].type = t /\ q[j].type = t => q[i].n < q[j].n

(* s is lo+1, lo+2 and so on. *)
Run(s, lo) == \A i \in 1..Len(s) : s[i] = lo + i

(* Behind a message of type e there is none of type t. *)
LastOf(q, e, t) == \A i, j \in 1..Len(q) : i < j /\ q[i].type = e => q[j].type # t

-----------------------------------------------------------------------------
(* Queues: what an append, a removal and an empty queue mean for the        *)
(* operators above.                                                         *)

LEMMA Added ==
  ASSUME NEW S, NEW q \in Seq(S), NEW m \in S
  PROVE  /\ Append(q, m) \in Seq(S) /\ Len(Append(q, m)) = Len(q) + 1
         /\ \A i \in 1..Len(q) : Append(q, m)[i] = q[i]
         /\ Append(q, m)[Len(q) + 1] = m
         /\ Len(q) \in Nat
OBVIOUS

LEMMA Taken ==
  ASSUME NEW S, NEW q \in Seq(S), q # <<>>
  PROVE  /\ Tail(q) \in Seq(S) /\ Len(Tail(q)) = Len(q) - 1
         /\ Len(q) \in Nat \ {0} /\ Len(Tail(q)) \in Nat
         /\ \A i \in 1..Len(Tail(q)) : Tail(q)[i] = q[i + 1]
         /\ \A i \in 1..Len(q) : i # 1 => i - 1 \in 1..Len(Tail(q)) /\ q[i] = Tail(q)[i - 1]
         /\ Head(q) = q[1] /\ Head(q) \in S /\ 1 \in 1..Len(q)
OBVIOUS

LEMMA HasAdded ==
  ASSUME NEW S, NEW q \in Seq(S), NEW m \in S, NEW t
  PROVE  Has(Append(q, m), t) <=> Has(q, t) \/ m.type = t
<1>1. ASSUME Has(q, t) \/ m.type = t PROVE Has(Append(q, m), t)
  BY <1>1, Added DEF Has
<1>2. ASSUME Has(Append(q, m), t), m.type # t PROVE Has(q, t)
  BY <1>2, Added DEF Has
<1>. QED
  BY <1>1, <1>2

LEMMA HasTaken ==
  ASSUME NEW S, NEW q \in Seq(S), q # <<>>, NEW t
  PROVE  Has(q, t) <=> Head(q).type = t \/ Has(Tail(q), t)
<1>1. ASSUME Head(q).type = t PROVE Has(q, t)
  BY <1>1, Taken DEF Has
<1>2. ASSUME Has(Tail(q), t) PROVE Has(q, t)
  <2>1. PICK i \in 1..Len(Tail(q)) : Tail(q)[i].type = t
    BY <1>2 DEF Has
  <2>2. i + 1 \in 1..Len(q) /\ q[i + 1].type = t
    BY <2>1, Taken
  <2>. QED
    BY <2>2 DEF Has
<1>3. ASSUME Has(q, t), Head(q).type # t PROVE Has(Tail(q), t)
  <2>1. PICK i \in 1..Len(q) : q[i].type = t
    BY <1>3 DEF Has
  <2>2. i - 1 \in 1..Len(Tail(q)) /\ Tail(q)[i - 1].type = t
    BY <1>3, <2>1, Taken
  <2>. QED
    BY <2>2 DEF Has
<1>. QED
  BY <1>1, <1>2, <1>3

LEMMA LastOfAdded ==
  ASSUME NEW S, NEW q \in Seq(S), NEW m \in S, NEW e, NEW t,
         LastOf(q, e, t), m.type = t => ~Has(q, e)
  PROVE  LastOf(Append(q, m), e, t)
BY Added DEF LastOf, Has

LEMMA LastOfTaken ==
  ASSUME NEW S, NEW q \in Seq(S), q # <<>>, NEW e, NEW t, LastOf(q, e, t)
  PROVE  /\ LastOf(Tail(q), e, t)
         /\ Head(q).type = e => ~Has(Tail(q), t)
<1>1. \A i \in 1..Len(Tail(q)) : i + 1 \in 1..Len(q) /\ Tail(q)[i] = q[i + 1] /\ 1 < i + 1
  BY Taken
<1>2. LastOf(Tail(q), e, t)
  BY <1>1 DEF LastOf
<1>3. Head(q).type = e => ~Has(Tail(q), t)
  BY <1>1, Taken DEF LastOf, Has
<1>. QED
  BY <1>2, <1>3

LEMMA CarriesAdded ==
  ASSUME NEW S, \A x \in S : x.n \in Nat, NEW q \in Seq(S), NEW m \in S, NEW t, NEW lo \in Nat, NEW hi \in Nat,
         Carries(q, t, lo, hi)
  PROVE  /\ m.type # t => Carries(Append(q, m), t, lo, hi)
         /\ m.type = t /\ m.n = hi + 1 => Carries(Append(q, m), t, lo, hi + 1)
<1>. DEFINE r == Append(q, m)
<1>1. /\ Len(r) = Len(q) + 1 /\ Len(q) \in Nat
      /\ \A i \in 1..Len(q) : r[i] = q[i] /\ i \in 1..Len(r)
      /\ r[Len(q) + 1] = m /\ Len(q) + 1 \in 1..Len(r)
      /\ \A i \in 1..Len(r) : i \in 1..Len(q) \/ i = Len(q) + 1
      /\ \A i \in 1..Len(q) : q[i].n \in Nat
      /\ \A i, j \in 1..Len(r) : i < j => i \in 1..Len(q)
  BY Added
<1>. HIDE DEF r
<1>2. ASSUME m.type # t PROVE Carries(r, t, lo, hi)
  BY <1>1, <1>2 DEF Carries
<1>3. ASSUME m.type = t, m.n = hi + 1 PROVE Carries(r, t, lo, hi + 1)
  <2>1. \A v \in lo+1..hi+1 : \E i \in 1..Len(r) : r[i].type = t /\ r[i].n = v
    <3> TAKE v \in lo+1..hi+1
    <3>1. v \in lo+1..hi \/ v = hi + 1
      OBVIOUS
    <3>. QED
      BY <1>1, <1>3, <3>1 DEF Carries
  <2>2. \A i \in 1..Len(r) : r[i].type = t => lo < r[i].n /\ r[i].n <= hi + 1
    BY <1>1, <1>3 DEF Carries
  <2>3. \A i, j \in 1..Len(r) : i < j /\ r[i].type = t /\ r[j].type = t => r[i].n < r[j].n
    BY <1>1, <1>3 DEF Carries
  <2>. QED
    BY <2>1, <2>2, <2>3 DEF Carries
<1>. QED
  BY <1>2, <1>3 DEF r

LEMMA CarriesTaken ==
  ASSUME NEW S, \A x \in S : x.n \in Nat, NEW q \in Seq(S), q # <<>>, NEW t, NEW lo \in Nat, NEW hi \in Nat,
         Carries(q, t, lo, hi)
  PROVE  /\ Head(q).type # t => Carries(Tail(q), t, lo, hi)
         /\ Head(q).type = t => Head(q).n = lo + 1 /\ lo < hi /\ Carries(Tail(q), t, lo + 1, hi)
<1>. DEFINE r == Tail(q)
<1>1. /\ \A i \in 1..Len(r) : r[i] = q[i + 1] /\ i + 1 \in 1..Len(q)
      /\ \A i \in 1..Len(q) : i # 1 => i - 1 \in 1..Len(r) /\ q[i] = r[i - 1] /\ 1 < i
      /\ Head(q) = q[1] /\ 1 \in 1..Len(q)
      /\ \A i \in 1..Len(q) : q[i].n \in Nat /\ i \in Nat
  BY Taken
<1>. HIDE DEF r
<1>2. ASSUME NEW i \in 1..Len(r), NEW j \in 1..Len(r), i < j, r[i].type = t, r[j].type = t
      PROVE  r[i].n < r[j].n
  <2>1. i + 1 < j + 1 /\ i + 1 \in 1..Len(q) /\ j + 1 \in 1..Len(q)
    BY <1>1, <1>2
  <2>2. q[i + 1].type = t /\ q[j + 1].type = t /\ r[i] = q[i + 1] /\ r[j] = q[j + 1]
    BY <1>1, <1>2
  <2>. QED
    BY <2>1, <2>2 DEF Carries
<1>3. /\ \A i, j \in 1..Len(r) : i < j /\ r[i].type = t /\ r[j].type = t => r[i].n < r[j].n
      /\ \A i \in 1..Len(r) : r[i].type = t => lo < r[i].n /\ r[i].n <= hi
  BY <1>1, <1>2 DEF Carries
<1>4. ASSUME Head(q).type # t PROVE Carries(r, t, lo, hi)
  <2>1. \A v \in lo+1..hi : \E i \in 1..Len(r) : r[i].type = t /\ r[i].n = v
    <3> TAKE v \in lo+1..hi
    <3>1. PICK i \in 1..Len(q) : q[i].type = t /\ q[i].n = v
      BY DEF Carries
    <3>2. i # 1
      BY <1>1, <1>4, <3>1
    <3>. QED
      BY <1>1, <3>1, <3>2
  <2>. QED
    BY <1>3, <2>1 DEF Carries
<1>5. ASSUME Head(q).type = t PROVE Head(q).n = lo + 1 /\ lo < hi /\ Carries(r, t, lo + 1, hi)
  <2>1. lo < q[1].n /\ q[1].n <= hi /\ q[1].type = t
    BY <1>1, <1>5 DEF Carries
  <2>2. PICK i \in 1..Len(q) : q[i].type = t /\ q[i].n = lo + 1
    <3>1. lo + 1 \in lo+1..hi
      BY <2>1 DEF Carries
    <3>. QED
      BY <3>1 DEF Carries
  <2>3. i = 1
    BY <1>1, <2>1, <2>2 DEF Carries
  <2>4. \A j \in 1..Len(r) : r[j].type = t => lo + 1 < r[j].n
    <3> TAKE j \in 1..Len(r)
    <3>1. j + 1 \in 1..Len(q) /\ 1 < j + 1 /\ r[j] = q[j + 1] /\ q[j + 1].n \in Nat
      BY <1>1
    <3>. QED
      BY <1>1, <2>1, <2>2, <2>3, <3>1 DEF Carries
  <2>5. \A v \in lo+2..hi : \E j \in 1..Len(r) : r[j].type = t /\ r[j].n = v
    <3> TAKE v \in lo+2..hi
    <3>1. v \in lo+1..hi /\ v # lo + 1
      OBVIOUS
    <3>2. PICK j \in 1..Len(q) : q[j].type = t /\ q[j].n = v
      BY <3>1 DEF Carries
    <3>3. j # 1
      BY <2>2, <2>3, <3>1, <3>2
    <3>. QED
      BY <1>1, <3>2, <3>3
  <2>6. lo + 1 <= hi
    BY <2>1, <2>2, <2>3
  <2>. QED
    BY <1>1, <1>3, <2>2, <2>3, <2>4, <2>5, <2>6 DEF Carries
<1>. QED
  BY <1>4, <1>5 DEF r

LEMMA CarriesNone ==
  ASSUME NEW S, \A x \in S : x.n \in Nat, NEW q \in Seq(S), NEW t, NEW lo \in Nat, NEW hi \in Nat
  PROVE  /\ Carries(q, t, lo, hi) /\ ~Has(q, t) => lo = hi
         /\ Carries(q, t, lo, hi) /\ lo = hi => ~Has(q, t)
         /\ ~Has(q, t) => Carries(q, t, lo, lo)
<1>1. ASSUME Carries(q, t, lo, hi), ~Has(q, t) PROVE lo = hi
  <2>1. lo < hi => hi \in lo+1..hi
    OBVIOUS
  <2>. QED
    BY <1>1, <2>1 DEF Carries, Has
<1>2. ASSUME Carries(q, t, lo, hi), lo = hi, NEW i \in 1..Len(q), q[i].type = t PROVE FALSE
  <2>1. lo < q[i].n /\ q[i].n <= lo /\ q[i].n \in Nat
    BY <1>2 DEF Carries
  <2>. QED
    BY <2>1
<1>3. ASSUME ~Has(q, t) PROVE Carries(q, t, lo, lo)
  BY <1>3 DEF Carries, Has
<1>. QED
  BY <1>1, <1>2, <1>3 DEF Has

(* Nothing, of whatever kind, is in a queue of length 0. *)
LEMMA HasNothing == \A t : ~Has(<<>>, t)
BY DEF Has

LEMMA Numbers ==
  /\ CREDIT \in Nat /\ CREDIT > 1 /\ MaxChunks \in Nat /\ ACK_EVERY \in Nat /\ ACK_EVERY > 0
  /\ RELAY_WINDOW \in Nat /\ RELAY_WINDOW >= ACK_EVERY
  /\ Chunks \subseteq Nat /\ EOF \in 0..ERR /\ ERR \in 0..ERR /\ Chunks \subseteq 0..ERR
  /\ EOF \notin Chunks /\ ERR \notin Chunks /\ EOF # ERR /\ 0..ERR \subseteq Nat
BY RelayStreamAssumption DEF Chunks, EOF, ERR

LEMMA Kinds ==
  /\ \A m \in ToKernel : m.n \in Nat
  /\ \A m \in ToGuest : m.n \in Nat
  /\ \A m \in ToRelay : m.n \in Nat
  /\ \A m \in ToClient : m.n \in Nat
<1>. USE Numbers
<1>1. \A m \in ToKernel : m.n \in Nat
  <2>1. \A m \in [type : {"pipe-data"}, n : Chunks] : m.n \in Nat
    OBVIOUS
  <2>2. \A m \in [type : {"pipe-read"}, n : {1}] : m.n \in Nat
    OBVIOUS
  <2>3. \A m \in [type : {"pipe-shutdown", "pipe-close"}, n : {0}] : m.n \in Nat
    OBVIOUS
  <2>. QED
    BY <2>1, <2>2, <2>3, Zenon DEF ToKernel
<1>2. \A m \in ToGuest : m.n \in Nat
  <2>1. \A m \in [type : {"pipe-data"}, n : Chunks] : m.n \in Nat
    OBVIOUS
  <2>2. \A m \in [type : {"pipe-connected", "pipe-shutdown"}, n : {0}] : m.n \in Nat
    OBVIOUS
  <2>3. \A m \in [type : {"pipe-close"}, n : {EOF, ERR}] : m.n \in Nat
    OBVIOUS
  <2>. QED
    BY <2>1, <2>2, <2>3, Zenon DEF ToGuest
<1>3. \A m \in ToRelay : m.n \in Nat
  <2>1. \A m \in [type : {"DATA"}, n : Chunks] : m.n \in Nat
    OBVIOUS
  <2>2. \A m \in [type : {"ACK"}, n : Nat] : m.n \in Nat
    OBVIOUS
  <2>3. \A m \in [type : {"CONNECT", "SHUTDOWN", "CLOSE"}, n : {0}] : m.n \in Nat
    OBVIOUS
  <2>. QED
    BY <2>1, <2>2, <2>3, Zenon DEF ToRelay
<1>4. \A m \in ToClient : m.n \in Nat
  <2>1. \A m \in [type : {"DATA"}, n : Chunks] : m.n \in Nat
    OBVIOUS
  <2>2. \A m \in [type : {"CONTINUE"}, n : {CREDIT}] : m.n \in Nat
    OBVIOUS
  <2>3. \A m \in [type : {"CONNECTED", "SHUTDOWN"}, n : {0}] : m.n \in Nat
    OBVIOUS
  <2>4. \A m \in [type : {"CLOSE"}, n : {EOF, ERR}] : m.n \in Nat
    OBVIOUS
  <2>. QED
    BY <2>1, <2>2, <2>3, <2>4, Zenon DEF ToClient
<1>. QED
  BY <1>1, <1>2, <1>3, <1>4

LEMMA Fields == \A t, n : Pkt(t, n).type = t /\ Pkt(t, n).n = n
BY DEF Pkt

LEMMA Suffix ==
  ASSUME NEW S, NEW s \in Seq(S), NEW k \in 0..Len(s), NEW r, r = SubSeq(s, k + 1, Len(s))
  PROVE  /\ r \in Seq(S) /\ Len(r) = Len(s) - k
         /\ \A i \in 1..Len(s) - k : r[i] = s[i + k]
OBVIOUS

LEMMA Concatenation ==
  ASSUME NEW S, NEW q \in Seq(S), NEW p \in Seq(S), NEW r, r = q \o p
  PROVE  /\ r \in Seq(S) /\ Len(r) = Len(q) + Len(p) /\ Len(q) \in Nat /\ Len(p) \in Nat
         /\ \A i \in 1..Len(q) : r[i] = q[i]
         /\ \A i \in 1..Len(p) : r[Len(q) + i] = p[i]
OBVIOUS

(* What _drain lets out: the first k chunks that wait, and behind the last  *)
(* one the half-close.                                                      *)
Leaves(p, st, k) ==
  /\ p \in Seq(ToRelay) /\ k \in 0..Len(st.sendq)
  /\ Len(p) = IF st.shutdownPending /\ k = Len(st.sendq) THEN k + 1 ELSE k
  /\ \A i \in 1..k : p[i] = Pkt("DATA", st.sendq[i])
  /\ st.shutdownPending /\ k = Len(st.sendq) => p[k + 1] = Pkt("SHUTDOWN", 0)
Stays(d, st, k) ==
  /\ d \in Record
  /\ d.exists = st.exists /\ d.connected = st.connected
  /\ d.consumed = st.consumed /\ d.acked = st.acked
  /\ d.shutdownPending = (st.shutdownPending /\ k < Len(st.sendq))
  /\ Len(d.sendq) = Len(st.sendq) - k
  /\ \A i \in 1..Len(st.sendq) - k : d.sendq[i] = st.sendq[i + k]

LEMMA Draining ==
  ASSUME NEW st \in Record
  PROVE  \E k : Leaves(Packets(st), st, k) /\ Stays(Drained(st), st, k)
<1>1. PICK k : k = Leaving(st)
  OBVIOUS
<1>2. /\ st.sendq \in Seq(Chunks) /\ st.credit \in 0..CREDIT /\ st.shutdownPending \in BOOLEAN
      /\ Len(st.sendq) \in Nat
  BY DEF Record
<1>3. k \in 0..Len(st.sendq) /\ k <= st.credit /\ k \in Nat
  BY <1>1, <1>2, Numbers DEF Leaving, Least
<1>4. PICK data : data = [i \in 1..k |-> Pkt("DATA", st.sendq[i])]
  OBVIOUS
<1>5. PICK rest : rest = SubSeq(st.sendq, k + 1, Len(st.sendq))
  OBVIOUS
<1>6. data \in Seq(ToRelay) /\ Len(data) = k /\ \A i \in 1..k : data[i] = Pkt("DATA", st.sendq[i])
  <2>1. \A i \in 1..k : st.sendq[i] \in Chunks
    BY <1>2, <1>3
  <2>2. \A i \in 1..k : data[i] \in ToRelay
    BY <1>4, <2>1 DEF Pkt, ToRelay
  <2>. QED
    BY <1>3, <1>4, <2>2
<1>7. rest \in Seq(Chunks) /\ Len(rest) = Len(st.sendq) - k
      /\ \A i \in 1..Len(st.sendq) - k : rest[i] = st.sendq[i + k]
  BY <1>2, <1>3, <1>5, Suffix
<1>8. Packets(st) = IF st.shutdownPending /\ k = Len(st.sendq) THEN Append(data, Pkt("SHUTDOWN", 0))
                    ELSE data
  BY <1>1, <1>4 DEF Packets
<1>9. Drained(st) = [st EXCEPT !.sendq = rest, !.credit = @ - k,
                               !.shutdownPending = @ /\ k < Len(st.sendq)]
  BY <1>1, <1>5 DEF Drained
<1>10. Pkt("SHUTDOWN", 0) \in ToRelay
  BY DEF Pkt, ToRelay
<1>11. st.credit - k \in 0..CREDIT
  BY <1>2, <1>3, Numbers
<1>12. Stays(Drained(st), st, k)
  BY <1>7, <1>9, <1>11 DEF Record, Stays
<1>13. CASE st.shutdownPending /\ k = Len(st.sendq)
  <2>1. Packets(st) = Append(data, Pkt("SHUTDOWN", 0))
    BY <1>8, <1>13
  <2>2. /\ Packets(st) \in Seq(ToRelay) /\ Len(Packets(st)) = k + 1
        /\ \A i \in 1..k : Packets(st)[i] = data[i]
        /\ Packets(st)[k + 1] = Pkt("SHUTDOWN", 0)
    BY <1>6, <1>10, <2>1, Added
  <2>. QED
    BY <1>3, <1>6, <1>12, <1>13, <2>2 DEF Leaves
<1>14. CASE ~(st.shutdownPending /\ k = Len(st.sendq))
  <2>1. Packets(st) = data
    BY <1>8, <1>14
  <2>. QED
    BY <1>3, <1>6, <1>12, <1>14, <2>1 DEF Leaves
<1>. QED
  BY <1>13, <1>14

(* The queue to the relay, q, behind what it let out: every message in it   *)
(* is an old one, a chunk that waited, or the half-close.                   *)
Joined(r, q, st, k) ==
  /\ r \in Seq(ToRelay) /\ Len(q) \in Nat /\ Len(r) \in Nat
  /\ \A i \in 1..Len(q) : i \in 1..Len(r) /\ r[i] = q[i]
  /\ \A i \in 1..k : /\ Len(q) + i \in 1..Len(r)
                     /\ r[Len(q) + i].type = "DATA" /\ r[Len(q) + i].n = st.sendq[i]
  /\ st.shutdownPending /\ k = Len(st.sendq) =>
       Len(q) + k + 1 \in 1..Len(r) /\ r[Len(q) + k + 1].type = "SHUTDOWN"
  /\ \A i \in 1..Len(r) :
       \/ i \in 1..Len(q) /\ r[i] = q[i]
       \/ i - Len(q) \in 1..k /\ r[i].type = "DATA" /\ r[i].n = st.sendq[i - Len(q)]
       \/ st.shutdownPending /\ k = Len(st.sendq) /\ i = Len(q) + k + 1 /\ r[i].type = "SHUTDOWN"

LEMMA Joins ==
  ASSUME NEW q \in Seq(ToRelay), NEW st \in Record, NEW p, NEW k, Leaves(p, st, k)
  PROVE  Joined(q \o p, q, st, k)
<1>1. PICK r : r = q \o p
  OBVIOUS
<1>3. Len(st.sendq) \in Nat /\ k \in 0..Len(st.sendq) /\ k \in Nat /\ p \in Seq(ToRelay)
  <2>1. Len(st.sendq) \in Nat
    BY DEF Record
  <2>. QED
    BY <2>1 DEF Leaves
<1>4. /\ Len(p) = IF st.shutdownPending /\ k = Len(st.sendq) THEN k + 1 ELSE k
      /\ \A i \in 1..k : p[i].type = "DATA" /\ p[i].n = st.sendq[i]
      /\ st.shutdownPending /\ k = Len(st.sendq) => p[k + 1].type = "SHUTDOWN"
  <2>1. \A i \in 1..k : p[i].type = "DATA" /\ p[i].n = st.sendq[i]
    <3>1. \A i \in 1..k : p[i] = Pkt("DATA", st.sendq[i])
      BY Zenon DEF Leaves
    <3>. QED
      BY <3>1, Fields
  <2>2. st.shutdownPending /\ k = Len(st.sendq) => p[k + 1] = Pkt("SHUTDOWN", 0)
    BY Zenon DEF Leaves
  <2>3. Pkt("SHUTDOWN", 0).type = "SHUTDOWN"
    BY DEF Pkt
  <2>4. Len(p) = IF st.shutdownPending /\ k = Len(st.sendq) THEN k + 1 ELSE k
    BY Zenon DEF Leaves
  <2>. QED
    BY <2>1, <2>2, <2>3, <2>4, Zenon
<1>5. /\ r \in Seq(ToRelay) /\ Len(r) = Len(q) + Len(p) /\ Len(q) \in Nat /\ Len(p) \in Nat
      /\ \A i \in 1..Len(q) : r[i] = q[i]
      /\ \A i \in 1..Len(p) : r[Len(q) + i] = p[i]
  BY <1>1, <1>3, Concatenation
<1>6. \A i \in 1..Len(r) :
       \/ i \in 1..Len(q) /\ r[i] = q[i]
       \/ i - Len(q) \in 1..k /\ r[i].type = "DATA" /\ r[i].n = st.sendq[i - Len(q)]
       \/ st.shutdownPending /\ k = Len(st.sendq) /\ i = Len(q) + k + 1 /\ r[i].type = "SHUTDOWN"
  <2> TAKE i \in 1..Len(r)
  <2>1. CASE i <= Len(q)
    BY <1>5, <2>1
  <2>2. CASE i - Len(q) \in 1..k
    <3>1. i = Len(q) + (i - Len(q)) /\ i - Len(q) \in 1..Len(p)
      BY <1>4, <1>5, <2>2
    <3>. QED
      BY <1>4, <1>5, <2>2, <3>1
  <2>3. CASE i > Len(q) + k
    <3>1. st.shutdownPending /\ k = Len(st.sendq) /\ i = Len(q) + k + 1 /\ k + 1 \in 1..Len(p)
      BY <1>4, <1>5, <2>3
    <3>2. r[Len(q) + (k + 1)] = p[k + 1]
      BY <1>5, <3>1
    <3>. QED
      BY <1>4, <1>5, <3>1, <3>2
  <2>. QED
    BY <1>4, <1>5, <2>1, <2>2, <2>3
<1>7. \A i \in 1..k : /\ Len(q) + i \in 1..Len(r)
                      /\ r[Len(q) + i].type = "DATA" /\ r[Len(q) + i].n = st.sendq[i]
  <2> TAKE i \in 1..k
  <2>1. i \in 1..Len(p)
    BY <1>4
  <2>. QED
    BY <1>4, <1>5, <2>1
<1>8. st.shutdownPending /\ k = Len(st.sendq) =>
        Len(q) + k + 1 \in 1..Len(r) /\ r[Len(q) + k + 1].type = "SHUTDOWN"
  <2> HAVE st.shutdownPending /\ k = Len(st.sendq)
  <2>1. /\ k + 1 \in 1..Len(p) /\ Len(q) + k + 1 = Len(q) + (k + 1)
        /\ Len(q) + k + 1 \in 1..Len(r)
    BY <1>3, <1>4, <1>5
  <2>2. r[Len(q) + (k + 1)] = p[k + 1]
    BY <1>5, <2>1
  <2>. QED
    BY <1>4, <2>1, <2>2
<1>9. Joined(r, q, st, k)
  BY <1>5, <1>6, <1>7, <1>8 DEF Joined
<1>. QED
  BY <1>1, <1>9

(* The record and the queue after _drain. *)
Lets(r, d, q, st) ==
  \E k \in Nat : /\ Joined(r, q, st, k) /\ Stays(d, st, k)
                 /\ k \in 0..Len(st.sendq) /\ Len(st.sendq) \in Nat
                 /\ st.sendq \in Seq(Chunks) /\ d.sendq \in Seq(Chunks)

LEMMA DrainLets ==
  ASSUME NEW q \in Seq(ToRelay), NEW st \in Record
  PROVE  Lets(q \o Packets(st), Drained(st), q, st)
<1>1. PICK k : Leaves(Packets(st), st, k) /\ Stays(Drained(st), st, k)
  BY Draining
<1>2. Joined(q \o Packets(st), q, st, k)
  BY <1>1, Joins
<1>3. st.sendq \in Seq(Chunks) /\ Len(st.sendq) \in Nat
  BY DEF Record
<1>4. k \in 0..Len(st.sendq) /\ Drained(st).sendq \in Seq(Chunks)
  BY <1>1 DEF Leaves, Stays, Record
<1>5. k \in Nat
  BY <1>3, <1>4
<1>. QED
  BY <1>1, <1>2, <1>3, <1>4, <1>5 DEF Lets

LEMMA DrainHas ==
  ASSUME NEW q \in Seq(ToRelay), NEW st \in Record, NEW r, NEW d, Lets(r, d, q, st)
  PROVE  /\ r \in Seq(ToRelay) /\ d \in Record
         /\ d.exists = st.exists /\ d.connected = st.connected
         /\ d.consumed = st.consumed /\ d.acked = st.acked
         /\ d.shutdownPending => st.shutdownPending
         /\ st.sendq = <<>> => d.sendq = <<>>
         /\ \A t : t \notin {"DATA", "SHUTDOWN"} => (Has(r, t) <=> Has(q, t))
         /\ Has(r, "SHUTDOWN") => Has(q, "SHUTDOWN") \/ (st.shutdownPending /\ d.sendq = <<>>)
         /\ Has(q, "SHUTDOWN") => Has(r, "SHUTDOWN")
         /\ st.shutdownPending => d.shutdownPending \/ Has(r, "SHUTDOWN")
         /\ st.sendq = <<>> /\ ~Has(q, "DATA") => ~Has(r, "DATA")
         /\ \A i \in 1..Len(r) : r[i].type \in {"ACK", "CONNECT"} => i \in 1..Len(q) /\ r[i] = q[i]
<1>1. PICK k \in Nat : /\ Joined(r, q, st, k) /\ Stays(d, st, k)
                       /\ k \in 0..Len(st.sendq) /\ Len(st.sendq) \in Nat
                       /\ st.sendq \in Seq(Chunks) /\ d.sendq \in Seq(Chunks)
  BY DEF Lets
<1>2. Len(d.sendq) = Len(st.sendq) - k /\ d.sendq \in Seq(Chunks)
  BY <1>1 DEF Stays
<1>3. /\ d \in Record /\ d.exists = st.exists /\ d.connected = st.connected
      /\ d.consumed = st.consumed /\ d.acked = st.acked
      /\ d.shutdownPending = (st.shutdownPending /\ k < Len(st.sendq))
  BY <1>1 DEF Stays
<1>4. /\ d.sendq = <<>> <=> k = Len(st.sendq)
      /\ st.sendq = <<>> => k = 0 /\ Len(st.sendq) = 0
  BY <1>1, <1>2
<1>5. \A i \in 1..Len(r) :
        \/ i \in 1..Len(q) /\ r[i] = q[i]
        \/ r[i].type = "DATA" /\ k # 0
        \/ r[i].type = "SHUTDOWN" /\ st.shutdownPending /\ k = Len(st.sendq)
  BY <1>1 DEF Joined
<1>6. \A i \in 1..Len(q) : i \in 1..Len(r) /\ r[i] = q[i]
  BY <1>1 DEF Joined
<1>7. \A t : t \notin {"DATA", "SHUTDOWN"} => (Has(r, t) <=> Has(q, t))
  BY <1>5, <1>6 DEF Has
<1>8. /\ Has(r, "SHUTDOWN") => Has(q, "SHUTDOWN") \/ (st.shutdownPending /\ d.sendq = <<>>)
      /\ Has(q, "SHUTDOWN") => Has(r, "SHUTDOWN")
      /\ st.sendq = <<>> /\ ~Has(q, "DATA") => ~Has(r, "DATA")
  BY <1>4, <1>5, <1>6 DEF Has
<1>9. st.shutdownPending => d.shutdownPending \/ Has(r, "SHUTDOWN")
  <2>1. k < Len(st.sendq) \/ k = Len(st.sendq)
    BY <1>1
  <2>2. st.shutdownPending /\ k = Len(st.sendq) => Has(r, "SHUTDOWN")
    BY <1>1 DEF Joined, Has
  <2>. QED
    BY <1>3, <2>1, <2>2
<1>10. \A i \in 1..Len(r) : r[i].type \in {"ACK", "CONNECT"} => i \in 1..Len(q) /\ r[i] = q[i]
  BY <1>5
<1>11. r \in Seq(ToRelay)
  BY <1>1 DEF Joined
<1>12. /\ d.shutdownPending => st.shutdownPending
       /\ st.sendq = <<>> => d.sendq = <<>>
  BY <1>3, <1>4
<1>. QED
  BY <1>3, <1>7, <1>8, <1>9, <1>10, <1>11, <1>12

LEMMA DrainLast ==
  ASSUME NEW q \in Seq(ToRelay), NEW st \in Record, NEW r, NEW d, Lets(r, d, q, st),
         LastOf(q, "SHUTDOWN", "DATA"), Has(q, "SHUTDOWN") => st.sendq = <<>>
  PROVE  LastOf(r, "SHUTDOWN", "DATA")
<1>1. PICK k \in Nat : /\ Joined(r, q, st, k) /\ Stays(d, st, k)
                       /\ k \in 0..Len(st.sendq) /\ Len(st.sendq) \in Nat
                       /\ st.sendq \in Seq(Chunks) /\ d.sendq \in Seq(Chunks)
  BY DEF Lets
<1>2. /\ Len(q) \in Nat /\ Len(r) \in Nat
      /\ \A i \in 1..Len(r) :
           \/ i \in 1..Len(q) /\ r[i] = q[i]
           \/ i - Len(q) \in 1..k /\ r[i].type = "DATA"
           \/ i = Len(q) + k + 1 /\ r[i].type = "SHUTDOWN"
  BY <1>1 DEF Joined
<1>3. SUFFICES ASSUME NEW i \in 1..Len(r), NEW j \in 1..Len(r), i < j, r[i].type = "SHUTDOWN"
               PROVE  r[j].type # "DATA"
  BY DEF LastOf
<1>4. CASE i \in 1..Len(q) /\ r[i] = q[i]
  <2>1. k = 0
    BY <1>1, <1>3, <1>4 DEF Has
  <2>2. ~(j - Len(q) \in 1..k)
    BY <2>1
  <2>3. CASE j \in 1..Len(q) /\ r[j] = q[j]
    BY <1>3, <1>4, <2>3 DEF LastOf
  <2>. QED
    BY <1>2, <2>2, <2>3
<1>5. CASE i = Len(q) + k + 1
  BY <1>2, <1>3, <1>5
<1>. QED
  BY <1>2, <1>3, <1>4, <1>5

LEMMA DrainCarries ==
  ASSUME NEW q \in Seq(ToRelay), NEW st \in Record, NEW r, NEW d, Lets(r, d, q, st),
         NEW lo \in Nat, NEW b \in Nat, Carries(q, "DATA", lo, b), Run(st.sendq, b)
  PROVE  \E c \in Nat : /\ Carries(r, "DATA", lo, c) /\ Run(d.sendq, c)
                        /\ c + Len(d.sendq) = b + Len(st.sendq)
                        /\ c <= b + Len(st.sendq)
<1>1. PICK k \in Nat : /\ Joined(r, q, st, k) /\ Stays(d, st, k)
                       /\ k \in 0..Len(st.sendq) /\ Len(st.sendq) \in Nat
                       /\ st.sendq \in Seq(Chunks) /\ d.sendq \in Seq(Chunks)
  BY DEF Lets
<1>2. /\ Len(d.sendq) = Len(st.sendq) - k
      /\ \A i \in 1..Len(st.sendq) - k : d.sendq[i] = st.sendq[i + k]
  BY <1>1 DEF Stays
<1>3. \A i \in 1..k : st.sendq[i] = b + i
  BY <1>1 DEF Run
<1>4. /\ \A i \in 1..k : /\ Len(q) + i \in 1..Len(r)
                         /\ r[Len(q) + i].type = "DATA" /\ r[Len(q) + i].n = b + i
      /\ \A i \in 1..Len(q) : i \in 1..Len(r) /\ r[i] = q[i]
      /\ Len(q) \in Nat /\ Len(r) \in Nat
  BY <1>1, <1>3 DEF Joined
<1>5. \A i \in 1..Len(r) : r[i].type = "DATA" =>
        \/ i \in 1..Len(q) /\ q[i].type = "DATA" /\ r[i].n = q[i].n
        \/ i - Len(q) \in 1..k /\ r[i].n = b + (i - Len(q))
  BY <1>1, <1>3 DEF Joined
<1>6. \A i \in 1..Len(q) : q[i].n \in Nat
  BY Kinds
<1>7. lo <= b + k
  BY <1>1 DEF Carries
<1>8. \A i \in 1..Len(r) : r[i].type = "DATA" => lo < r[i].n /\ r[i].n <= b + k
  <2> SUFFICES ASSUME NEW i \in 1..Len(r), r[i].type = "DATA" PROVE lo < r[i].n /\ r[i].n <= b + k
    OBVIOUS
  <2>1. CASE i \in 1..Len(q) /\ q[i].type = "DATA" /\ r[i].n = q[i].n
    BY <1>4, <1>6, <2>1 DEF Carries
  <2>2. CASE i - Len(q) \in 1..k /\ r[i].n = b + (i - Len(q))
    BY <1>4, <2>2 DEF Carries
  <2>. QED
    BY <1>5, <2>1, <2>2
<1>9. \A v \in lo+1..b+k : \E i \in 1..Len(r) : r[i].type = "DATA" /\ r[i].n = v
  <2> TAKE v \in lo+1..b+k
  <2>1. CASE v <= b
    <3>1. v \in lo+1..b
      BY <2>1
    <3>. QED
      BY <1>4, <3>1 DEF Carries
  <2>2. CASE v > b
    <3>1. v - b \in 1..k /\ v = b + (v - b)
      BY <1>1, <2>2
    <3>. QED
      BY <1>1, <1>4, <3>1
  <2>3. v <= b \/ v > b
    OBVIOUS
  <2>. QED
    BY <2>1, <2>2, <2>3
<1>10. \A i, j \in 1..Len(r) : i < j /\ r[i].type = "DATA" /\ r[j].type = "DATA" => r[i].n < r[j].n
  <2> SUFFICES ASSUME NEW i \in 1..Len(r), NEW j \in 1..Len(r), i < j,
                      r[i].type = "DATA", r[j].type = "DATA"
               PROVE  r[i].n < r[j].n
    OBVIOUS
  <2>1. CASE i \in 1..Len(q) /\ q[i].type = "DATA" /\ r[i].n = q[i].n
    <3>1. CASE j \in 1..Len(q) /\ q[j].type = "DATA" /\ r[j].n = q[j].n
      BY <2>1, <3>1 DEF Carries
    <3>2. CASE j - Len(q) \in 1..k /\ r[j].n = b + (j - Len(q))
      BY <1>4, <1>6, <2>1, <3>2 DEF Carries
    <3>. QED
      BY <1>5, <3>1, <3>2
  <2>2. CASE i - Len(q) \in 1..k /\ r[i].n = b + (i - Len(q))
    <3>1. j \notin 1..Len(q)
      BY <1>4, <2>2
    <3>2. j - Len(q) \in 1..k /\ r[j].n = b + (j - Len(q))
      BY <1>5, <3>1
    <3>. QED
      BY <1>4, <2>2, <3>2
  <2>. QED
    BY <1>5, <2>1, <2>2
<1>11. Carries(r, "DATA", lo, b + k)
  BY <1>7, <1>8, <1>9, <1>10 DEF Carries
<1>12. Run(d.sendq, b + k)
  <2> SUFFICES ASSUME NEW i \in 1..Len(st.sendq) - k PROVE d.sendq[i] = b + k + i
    BY <1>2 DEF Run
  <2>1. i + k \in 1..Len(st.sendq) /\ b + (i + k) = b + k + i
    BY <1>2
  <2>. QED
    BY <1>2, <2>1 DEF Run
<1>13. /\ b + k \in Nat /\ b + k <= b + Len(st.sendq)
       /\ b + k + Len(d.sendq) = b + Len(st.sendq)
  <2>1. PICK x \in Nat, y \in Nat : x = Len(st.sendq) /\ y = Len(d.sendq) /\ y = x - k /\ k <= x
    BY <1>1, <1>2
  <2>2. b + k \in Nat
    OBVIOUS
  <2>3. b + k <= b + x
    BY <2>1
  <2>4. y + k = x
    BY <2>1
  <2>5. b + k + y = b + (y + k)
    OBVIOUS
  <2>. QED
    BY <2>1, <2>2, <2>3, <2>4, <2>5
<1>. QED
  BY <1>11, <1>12, <1>13

-----------------------------------------------------------------------------
(* Types.                                                                   *)

LEMMA Contents ==
  /\ \A m \in ToKernel : /\ m.type \in {"pipe-data", "pipe-read", "pipe-shutdown", "pipe-close"}
                         /\ m.type = "pipe-data" => m.n \in Chunks
                         /\ m.type = "pipe-read" => m.n = 1
  /\ \A m \in ToGuest : /\ m.type \in {"pipe-data", "pipe-connected", "pipe-shutdown", "pipe-close"}
                        /\ m.type = "pipe-data" => m.n \in Chunks
                        /\ m.type = "pipe-shutdown" => m.n = EOF
                        /\ m.type = "pipe-close" => m.n \in {EOF, ERR}
  /\ \A m \in ToRelay : /\ m.type \in {"DATA", "ACK", "CONNECT", "SHUTDOWN", "CLOSE"}
                        /\ m.type = "DATA" => m.n \in Chunks
                        /\ m.type = "ACK" => m.n \in Nat
  /\ \A m \in ToClient : /\ m.type \in {"DATA", "CONTINUE", "CONNECTED", "SHUTDOWN", "CLOSE"}
                         /\ m.type = "DATA" => m.n \in Chunks
                         /\ m.type = "CONTINUE" => m.n = CREDIT
                         /\ m.type = "CLOSE" => m.n \in {EOF, ERR}
<1>1. \A m \in ToKernel : /\ m.type \in {"pipe-data", "pipe-read", "pipe-shutdown", "pipe-close"}
                          /\ m.type = "pipe-data" => m.n \in Chunks
                          /\ m.type = "pipe-read" => m.n = 1
  BY DEF ToKernel
<1>2. \A m \in ToGuest : /\ m.type \in {"pipe-data", "pipe-connected", "pipe-shutdown", "pipe-close"}
                         /\ m.type = "pipe-data" => m.n \in Chunks
                         /\ m.type = "pipe-shutdown" => m.n = EOF
                         /\ m.type = "pipe-close" => m.n \in {EOF, ERR}
  BY DEF ToGuest, EOF
<1>3. \A m \in ToRelay : /\ m.type \in {"DATA", "ACK", "CONNECT", "SHUTDOWN", "CLOSE"}
                         /\ m.type = "DATA" => m.n \in Chunks
                         /\ m.type = "ACK" => m.n \in Nat
  BY DEF ToRelay
<1>4. \A m \in ToClient : /\ m.type \in {"DATA", "CONTINUE", "CONNECTED", "SHUTDOWN", "CLOSE"}
                          /\ m.type = "DATA" => m.n \in Chunks
                          /\ m.type = "CONTINUE" => m.n = CREDIT
                          /\ m.type = "CLOSE" => m.n \in {EOF, ERR}
  BY DEF ToClient
<1>. QED
  BY <1>1, <1>2, <1>3, <1>4

LEMMA Sendable ==
  /\ \A n \in Chunks : /\ Pkt("pipe-data", n) \in ToKernel /\ Pkt("pipe-data", n) \in ToGuest
                       /\ Pkt("DATA", n) \in ToRelay /\ Pkt("DATA", n) \in ToClient
  /\ Pkt("pipe-read", 1) \in ToKernel /\ Pkt("pipe-shutdown", 0) \in ToKernel
  /\ Pkt("pipe-close", 0) \in ToKernel
  /\ Pkt("pipe-shutdown", EOF) \in ToGuest /\ Pkt("pipe-connected", 0) \in ToGuest
  /\ Pkt("pipe-close", EOF) \in ToGuest /\ Pkt("pipe-close", ERR) \in ToGuest
  /\ Pkt("CLOSE", 0) \in ToRelay /\ Pkt("CONNECT", 0) \in ToRelay
  /\ \A n \in Nat : Pkt("ACK", n) \in ToRelay
  /\ Pkt("CONTINUE", CREDIT) \in ToClient /\ Pkt("CONNECTED", 0) \in ToClient
  /\ Pkt("SHUTDOWN", 0) \in ToClient
  /\ Pkt("CLOSE", EOF) \in ToClient /\ Pkt("CLOSE", ERR) \in ToClient
<1>1. \A n \in Chunks : /\ Pkt("pipe-data", n) \in ToKernel /\ Pkt("pipe-data", n) \in ToGuest
                        /\ Pkt("DATA", n) \in ToRelay /\ Pkt("DATA", n) \in ToClient
  BY DEF Pkt, ToKernel, ToGuest, ToRelay, ToClient
<1>2. /\ Pkt("pipe-read", 1) \in ToKernel /\ Pkt("pipe-shutdown", 0) \in ToKernel
      /\ Pkt("pipe-close", 0) \in ToKernel
  BY DEF Pkt, ToKernel
<1>3. /\ Pkt("pipe-shutdown", EOF) \in ToGuest /\ Pkt("pipe-connected", 0) \in ToGuest
      /\ Pkt("pipe-close", EOF) \in ToGuest /\ Pkt("pipe-close", ERR) \in ToGuest
  BY DEF Pkt, ToGuest, EOF
<1>4. /\ Pkt("CLOSE", 0) \in ToRelay /\ Pkt("CONNECT", 0) \in ToRelay
      /\ \A n \in Nat : Pkt("ACK", n) \in ToRelay
  BY DEF Pkt, ToRelay
<1>5. /\ Pkt("CONTINUE", CREDIT) \in ToClient /\ Pkt("CONNECTED", 0) \in ToClient
      /\ Pkt("SHUTDOWN", 0) \in ToClient
      /\ Pkt("CLOSE", EOF) \in ToClient /\ Pkt("CLOSE", ERR) \in ToClient
  BY DEF Pkt, ToClient
<1>. QED
  BY <1>1, <1>2, <1>3, <1>4, <1>5

LEMMA Appends ==
  ASSUME NEW S, NEW q \in Seq(S), NEW m
  PROVE  q \o <<>> = q /\ (m \in S => q \o <<m>> = Append(q, m))
OBVIOUS

(* topUp: all but the credit it uses stays, and it may grant more. *)
Alike(s, t) ==
  /\ s \in Session
  /\ s.exists = t.exists /\ s.connected = t.connected /\ s.sent = t.sent /\ s.acked = t.acked
  /\ s.paused = t.paused /\ s.out = t.out /\ s.fin = t.fin /\ s.ended = t.ended
Granted == toClient' = toClient \/ toClient' = Append(toClient, Pkt("CONTINUE", CREDIT))
LEMMA ToppingUp ==
  ASSUME TypeOK, NEW s \in Session, ToppedUp(s)
  PROVE  Alike(socket', s) /\ Granted
<1>1. socket' = s \/ socket' = [s EXCEPT !.used = 0]
  BY DEF ToppedUp
<1>2. Alike(socket', s)
  BY <1>1 DEF Alike, Session
<1>3. toClient' = toClient \o <<>> \/ toClient' = toClient \o <<Pkt("CONTINUE", CREDIT)>>
  BY DEF ToppedUp, Sends
<1>4. Granted
  <2>1. toClient \in Seq(ToClient) /\ Pkt("CONTINUE", CREDIT) \in ToClient
    BY Sendable DEF TypeOK
  <2>. QED
    BY <1>3, <2>1, Appends DEF Granted
<1>. QED
  BY <1>2, <1>4

LEMMA GrantedType ==
  ASSUME TypeOK, Granted PROVE toClient' \in Seq(ToClient)
<1>1. toClient \in Seq(ToClient) /\ Pkt("CONTINUE", CREDIT) \in ToClient
  BY Sendable DEF TypeOK
<1>. QED
  BY <1>1, Added DEF Granted

LEMMA GoneType == TypeOK => Gone \in Session /\ NoSocket \in Session
<1>1. <<>> \in Seq(Chunks)
  OBVIOUS
<1>2. NoSocket \in Session
  BY <1>1, Numbers DEF NoSocket, Session
<1>3. TypeOK => Gone \in Session
  BY <1>2 DEF TypeOK, Gone, Session
<1>. QED
  BY <1>2, <1>3

LEMMA RelayEffect ==
  ASSUME TypeOK, OnRelayPacket, NEW m, m = Head(toRelay)
  PROVE  /\ toRelay # <<>> /\ toRelay' = Tail(toRelay)
         /\ UNCHANGED <<guest, toKernel, toGuest, mapped, pending, stream, peer, cut>>
         /\ \/ m.type = "CONNECT" /\ socket' = [NoSocket EXCEPT !.exists = TRUE] /\ UNCHANGED toClient
            \/ m.type # "CONNECT" /\ ~socket.exists /\ UNCHANGED <<socket, toClient>>
            \/ /\ m.type = "DATA" /\ socket.exists /\ ~socket.fin
               /\ Alike(socket', [socket EXCEPT !.out = Append(@, m.n)]) /\ Granted
            \/ /\ m.type = "DATA" /\ socket.exists /\ socket.fin
               /\ socket' = Gone /\ toClient' = Append(toClient, Pkt("CLOSE", ERR))
            \/ /\ m.type = "SHUTDOWN" /\ socket.exists
               /\ socket' = [socket EXCEPT !.fin = TRUE] /\ UNCHANGED toClient
            \/ /\ m.type = "ACK" /\ socket.exists
               /\ socket' = Acked(socket, m.n) /\ UNCHANGED toClient
            \/ /\ m.type = "CLOSE" /\ socket.exists
               /\ socket' = Gone /\ UNCHANGED toClient
<1>1. /\ toRelay # <<>> /\ toRelay' = Tail(toRelay)
      /\ UNCHANGED <<guest, toKernel, toGuest, mapped, pending, stream, peer, cut>>
  BY DEF OnRelayPacket
<1>2. m \in ToRelay /\ m.type = "DATA" => m.n \in Chunks
  BY Contents
<1>3. m \in ToRelay
  BY <1>1, Taken DEF TypeOK
<1>4. ASSUME m.type = "DATA", NEW full \in BOOLEAN,
             ToppedUp([socket EXCEPT !.used = @ + 1, !.out = Append(@, m.n), !.needDrain = @ \/ full])
      PROVE  Alike(socket', [socket EXCEPT !.out = Append(@, m.n)]) /\ Granted
  <2>1. PICK s : s = [socket EXCEPT !.used = @ + 1, !.out = Append(@, m.n), !.needDrain = @ \/ full]
    OBVIOUS
  <2>2. s \in Session
    <3>1. socket.out \in Seq(Chunks) /\ m.n \in Chunks /\ socket \in Session
      BY <1>2, <1>3, <1>4 DEF TypeOK, Session
    <3>2. Append(socket.out, m.n) \in Seq(Chunks)
      BY <3>1
    <3>. QED
      <4>1. PICK u, o, d : u = socket.used + 1 /\ o = Append(socket.out, m.n) /\ d = (socket.needDrain \/ full)
        OBVIOUS
      <4>2. u \in Nat /\ o \in Seq(Chunks)
        BY <3>1, <3>2, <4>1 DEF Session
      <4>3. d \in BOOLEAN
        BY <4>1, Zenon
      <4>4. s = [socket EXCEPT !.used = u, !.out = o, !.needDrain = d]
        BY <2>1, <4>1, Zenon
      <4>. QED
        BY <3>1, <4>2, <4>3, <4>4 DEF Session
  <2>3. Alike(socket', s) /\ Granted
    BY <1>4, <2>1, <2>2, ToppingUp
  <2>4. Alike(s, [socket EXCEPT !.out = Append(@, m.n)])
    BY <2>1, <2>2 DEF TypeOK, Session, Alike
  <2>. QED
    BY <2>3, <2>4 DEF Alike
<1>5. toClient \in Seq(ToClient) /\ Pkt("CLOSE", ERR) \in ToClient
  BY Sendable DEF TypeOK
<1>6. Sends(<<Pkt("CLOSE", ERR)>>) => toClient' = Append(toClient, Pkt("CLOSE", ERR))
  BY <1>5, Appends DEF Sends
<1>7. \/ m.type = "CONNECT" /\ socket' = [NoSocket EXCEPT !.exists = TRUE] /\ UNCHANGED toClient
      \/ m.type # "CONNECT" /\ ~socket.exists /\ UNCHANGED <<socket, toClient>>
      \/ /\ m.type = "DATA" /\ socket.exists /\ ~socket.fin
         /\ \E full \in BOOLEAN :
              ToppedUp([socket EXCEPT !.used = @ + 1, !.out = Append(@, m.n), !.needDrain = @ \/ full])
      \/ /\ m.type = "DATA" /\ socket.exists /\ socket.fin
         /\ socket' = Gone /\ Sends(<<Pkt("CLOSE", ERR)>>)
      \/ /\ m.type = "SHUTDOWN" /\ socket.exists
         /\ socket' = [socket EXCEPT !.fin = TRUE] /\ UNCHANGED toClient
      \/ /\ m.type = "ACK" /\ socket.exists
         /\ socket' = Acked(socket, m.n) /\ UNCHANGED toClient
      \/ /\ m.type = "CLOSE" /\ socket.exists
         /\ socket' = Gone /\ UNCHANGED toClient
  BY Zenon DEF OnRelayPacket
<1>8. \/ m.type = "CONNECT" /\ socket' = [NoSocket EXCEPT !.exists = TRUE] /\ UNCHANGED toClient
      \/ m.type # "CONNECT" /\ ~socket.exists /\ UNCHANGED <<socket, toClient>>
      \/ /\ m.type = "DATA" /\ socket.exists /\ ~socket.fin
         /\ Alike(socket', [socket EXCEPT !.out = Append(@, m.n)]) /\ Granted
      \/ /\ m.type = "DATA" /\ socket.exists /\ socket.fin
         /\ socket' = Gone /\ toClient' = Append(toClient, Pkt("CLOSE", ERR))
      \/ /\ m.type = "SHUTDOWN" /\ socket.exists
         /\ socket' = [socket EXCEPT !.fin = TRUE] /\ UNCHANGED toClient
      \/ /\ m.type = "ACK" /\ socket.exists
         /\ socket' = Acked(socket, m.n) /\ UNCHANGED toClient
      \/ /\ m.type = "CLOSE" /\ socket.exists
         /\ socket' = Gone /\ UNCHANGED toClient
  BY <1>4, <1>6, <1>7, Zenon
<1>. QED
  BY <1>1, <1>8, Zenon

(* Packets are sent one at a time. *)
LEMMA Sent ==
  ASSUME TypeOK, NEW x \in ToClient, Sends(<<x>>)
  PROVE  toClient' = Append(toClient, x) /\ toClient' \in Seq(ToClient)
<1>1. toClient \in Seq(ToClient)
  BY DEF TypeOK
<1>. QED
  BY <1>1, Appends, Added DEF Sends

LEMMA FlushEffect ==
  ASSUME TypeOK, Flush
  PROVE  /\ socket.exists /\ socket.connected /\ socket.out # <<>>
         /\ peer' = [peer EXCEPT !.got = Head(socket.out)]
         /\ Alike(socket', [socket EXCEPT !.out = Tail(@)]) /\ Granted
         /\ UNCHANGED <<guest, toKernel, toGuest, mapped, pending, stream, toRelay, cut>>
<1>1. PICK s : s = [socket EXCEPT !.out = Tail(@)]
  OBVIOUS
<1>2. socket.out \in Seq(Chunks) /\ socket.out # <<>>
  BY DEF TypeOK, Session, Flush
<1>3. Tail(socket.out) \in Seq(Chunks)
  BY <1>2
<1>4. s \in Session /\ [s EXCEPT !.needDrain = FALSE] \in Session
  BY <1>1, <1>3 DEF TypeOK, Session
<1>5. ToppedUp([s EXCEPT !.needDrain = FALSE]) \/ (socket' = s /\ UNCHANGED toClient)
  BY <1>1 DEF Flush
<1>6. Alike(socket', s) /\ Granted
  <2>1. CASE socket' = s /\ UNCHANGED toClient
    BY <1>4, <2>1 DEF Alike, Granted
  <2>2. CASE ToppedUp([s EXCEPT !.needDrain = FALSE])
    <3>1. Alike(socket', [s EXCEPT !.needDrain = FALSE]) /\ Granted
      BY <1>4, <2>2, ToppingUp
    <3>2. Alike([s EXCEPT !.needDrain = FALSE], s)
      BY <1>4 DEF Alike, Session
    <3>. QED
      BY <3>1, <3>2 DEF Alike
  <2>. QED
    BY <1>5, <2>1, <2>2
<1>. QED
  BY <1>1, <1>6 DEF Flush, Live, vmVars

(* A read is counted, and acknowledged or not. *)
Counts ==
  /\ stream' \in Record
  /\ stream'.exists = stream.exists /\ stream'.sendq = stream.sendq
  /\ stream'.shutdownPending = stream.shutdownPending
  /\ stream'.consumed = stream.consumed + 1
  /\ \/ stream'.acked = stream.acked /\ UNCHANGED toRelay
     \/ stream'.acked = stream'.consumed /\ toRelay' = Append(toRelay, Pkt("ACK", stream'.consumed))

LEMMA Counting ==
  ASSUME TypeOK, Consumed([stream EXCEPT !.consumed = @ + 1])
  PROVE  Counts
<1>1. PICK st : st = [stream EXCEPT !.consumed = @ + 1]
  OBVIOUS
<1>2. st \in Record /\ [st EXCEPT !.acked = st.consumed] \in Record
  <2>1. st \in Record
    <3>1. stream \in Record /\ stream.consumed + 1 \in Nat
      BY DEF TypeOK, Record
    <3>. QED
      BY <1>1, <3>1 DEF Record
  <2>. QED
    BY <2>1 DEF Record
<1>3. \/ stream' = st /\ UNCHANGED toRelay
      \/ stream' = [st EXCEPT !.acked = st.consumed] /\ toRelay' = Append(toRelay, Pkt("ACK", st.consumed))
  BY <1>1, Zenon DEF Consumed
<1>4. stream \in Record
  BY DEF TypeOK
<1>5. CASE stream' = st /\ UNCHANGED toRelay
  BY <1>1, <1>2, <1>4, <1>5 DEF Counts, Record
<1>6. CASE stream' = [st EXCEPT !.acked = st.consumed] /\ toRelay' = Append(toRelay, Pkt("ACK", st.consumed))
  <2>1. stream'.consumed = st.consumed /\ stream'.acked = st.consumed
    BY <1>2, <1>6 DEF Record
  <2>. QED
    BY <1>1, <1>2, <1>4, <1>6, <2>1 DEF Counts, Record
<1>. QED
  BY <1>3, <1>5, <1>6

LEMMA KernelEffect ==
  ASSUME TypeOK, FromGuest, NEW m, m = Head(toKernel)
  PROVE  /\ toKernel # <<>> /\ toKernel' = Tail(toKernel) /\ m \in ToKernel
         /\ UNCHANGED <<guest, toGuest, toClient, socket, peer, cut>>
         /\ \/ ~mapped /\ UNCHANGED <<stream, toRelay, mapped, pending>>
            \/ /\ mapped /\ m.type = "pipe-data" /\ UNCHANGED <<mapped, pending>>
               /\ \E st \in Record : /\ st = [stream EXCEPT !.sendq = Append(@, m.n)]
                                     /\ Lets(toRelay', stream', toRelay, st)
            \/ mapped /\ m.type = "pipe-read" /\ Counts /\ UNCHANGED <<mapped, pending>>
            \/ /\ mapped /\ m.type = "pipe-shutdown" /\ UNCHANGED <<mapped, pending>>
               /\ \E st \in Record : /\ st = [stream EXCEPT !.shutdownPending = TRUE]
                                     /\ Lets(toRelay', stream', toRelay, st)
            \/ /\ mapped /\ m.type = "pipe-close"
               /\ stream' = [stream EXCEPT !.exists = FALSE, !.sendq = <<>>]
               /\ toRelay' = Append(toRelay, Pkt("CLOSE", 0))
               /\ mapped' = FALSE /\ pending' = FALSE
<1>1. /\ toKernel # <<>> /\ toKernel' = Tail(toKernel)
      /\ UNCHANGED <<guest, toGuest, toClient, socket, peer, cut>>
  BY DEF FromGuest
<1>2. m \in ToKernel /\ stream \in Record /\ toRelay \in Seq(ToRelay) /\ mapped \in BOOLEAN
  BY <1>1, Taken DEF TypeOK
<1>3. m.type = "pipe-read" => m.n = 1
  BY <1>2, Contents
<1>4. m.type = "pipe-data" => [stream EXCEPT !.sendq = Append(@, m.n)] \in Record
  <2> HAVE m.type = "pipe-data"
  <2>1. m.n \in Chunks /\ stream.sendq \in Seq(Chunks)
    BY <1>2, Contents DEF Record
  <2>2. Append(stream.sendq, m.n) \in Seq(Chunks)
    BY <2>1
  <2>. QED
    BY <1>2, <2>2 DEF Record
<1>5. [stream EXCEPT !.shutdownPending = TRUE] \in Record
  BY <1>2 DEF Record
<1>6. \A st \in Record : Drains(st) => Lets(toRelay', stream', toRelay, st)
  BY <1>2, DrainLets, Zenon DEF Drains
<1>7. \/ ~mapped /\ UNCHANGED <<stream, toRelay, mapped, pending>>
      \/ /\ mapped /\ m.type = "pipe-data" /\ UNCHANGED <<mapped, pending>>
         /\ Drains([stream EXCEPT !.sendq = Append(@, m.n)])
      \/ /\ mapped /\ m.type = "pipe-read" /\ UNCHANGED <<mapped, pending>>
         /\ Consumed([stream EXCEPT !.consumed = @ + m.n])
      \/ /\ mapped /\ m.type = "pipe-shutdown" /\ UNCHANGED <<mapped, pending>>
         /\ Drains([stream EXCEPT !.shutdownPending = TRUE])
      \/ /\ mapped /\ m.type = "pipe-close"
         /\ stream' = [stream EXCEPT !.exists = FALSE, !.sendq = <<>>]
         /\ toRelay' = Append(toRelay, Pkt("CLOSE", 0))
         /\ mapped' = FALSE /\ pending' = FALSE
  BY Zenon DEF FromGuest
<1>8. m.type = "pipe-read" /\ Consumed([stream EXCEPT !.consumed = @ + m.n]) => Counts
  BY <1>3, Counting, Zenon
<1>9. \/ ~mapped /\ UNCHANGED <<stream, toRelay, mapped, pending>>
      \/ /\ mapped /\ m.type = "pipe-data" /\ UNCHANGED <<mapped, pending>>
         /\ \E st \in Record : /\ st = [stream EXCEPT !.sendq = Append(@, m.n)]
                               /\ Lets(toRelay', stream', toRelay, st)
      \/ mapped /\ m.type = "pipe-read" /\ Counts /\ UNCHANGED <<mapped, pending>>
      \/ /\ mapped /\ m.type = "pipe-shutdown" /\ UNCHANGED <<mapped, pending>>
         /\ \E st \in Record : /\ st = [stream EXCEPT !.shutdownPending = TRUE]
                               /\ Lets(toRelay', stream', toRelay, st)
      \/ /\ mapped /\ m.type = "pipe-close"
         /\ stream' = [stream EXCEPT !.exists = FALSE, !.sendq = <<>>]
         /\ toRelay' = Append(toRelay, Pkt("CLOSE", 0))
         /\ mapped' = FALSE /\ pending' = FALSE
  BY <1>4, <1>5, <1>6, <1>7, <1>8, Zenon
<1>. QED
  BY <1>1, <1>2, <1>9, Zenon

(* The connection is over for kernel and client. *)
Over(n) ==
  /\ toGuest' = Append(toGuest, Pkt("pipe-close", n)) /\ mapped' = FALSE /\ pending' = FALSE
  /\ stream' = [stream EXCEPT !.exists = FALSE, !.sendq = <<>>]

LEMMA PacketEffect ==
  ASSUME TypeOK, OnPacket, NEW m, m = Head(toClient)
  PROVE  /\ toClient # <<>> /\ toClient' = Tail(toClient) /\ m \in ToClient
         /\ UNCHANGED <<guest, toKernel, socket, peer, cut>>
         /\ \/ ~stream.exists /\ UNCHANGED <<stream, toRelay, toGuest, mapped, pending>>
            \/ /\ stream.exists /\ m.type = "CONTINUE" /\ UNCHANGED <<toGuest, mapped, pending>>
               /\ \E st \in Record : /\ st = [stream EXCEPT !.credit = m.n]
                                     /\ Lets(toRelay', stream', toRelay, st)
            \/ /\ stream.exists /\ m.type = "DATA" /\ toGuest' = Append(toGuest, Pkt("pipe-data", m.n))
               /\ UNCHANGED <<stream, toRelay, mapped, pending>>
            \/ /\ stream.exists /\ m.type = "SHUTDOWN"
               /\ toGuest' = Append(toGuest, Pkt("pipe-shutdown", EOF))
               /\ UNCHANGED <<stream, toRelay, mapped, pending>>
            \/ /\ stream.exists /\ m.type = "CONNECTED"
               /\ toGuest' = Append(toGuest, Pkt("pipe-connected", 0))
               /\ stream' = [stream EXCEPT !.connected = TRUE] /\ pending' = FALSE
               /\ UNCHANGED <<toRelay, mapped>>
            \/ stream.exists /\ m.type = "CLOSE" /\ Over(m.n) /\ UNCHANGED toRelay
<1>1. /\ toClient # <<>> /\ toClient' = Tail(toClient)
      /\ UNCHANGED <<guest, toKernel, socket, peer, cut>>
  BY DEF OnPacket
<1>2. m \in ToClient /\ stream \in Record /\ toRelay \in Seq(ToRelay)
  BY <1>1, Taken DEF TypeOK
<1>3. m.type = "CONTINUE" => [stream EXCEPT !.credit = m.n] \in Record
  <2>1. m.type = "CONTINUE" => m.n = CREDIT /\ CREDIT \in 0..CREDIT
    BY <1>2, Contents, Numbers
  <2>. QED
    BY <1>2, <2>1 DEF Record
<1>4. \A st \in Record : Drains(st) => Lets(toRelay', stream', toRelay, st)
  BY <1>2, DrainLets, Zenon DEF Drains
<1>5. \/ ~stream.exists /\ UNCHANGED <<stream, toRelay, toGuest, mapped, pending>>
      \/ /\ stream.exists /\ m.type = "CONTINUE" /\ UNCHANGED <<toGuest, mapped, pending>>
         /\ Drains([stream EXCEPT !.credit = m.n])
      \/ /\ stream.exists /\ m.type = "DATA" /\ toGuest' = Append(toGuest, Pkt("pipe-data", m.n))
         /\ UNCHANGED <<stream, toRelay, mapped, pending>>
      \/ /\ stream.exists /\ m.type = "SHUTDOWN" /\ toGuest' = Append(toGuest, Pkt("pipe-shutdown", EOF))
         /\ UNCHANGED <<stream, toRelay, mapped, pending>>
      \/ /\ stream.exists /\ m.type = "CONNECTED" /\ toGuest' = Append(toGuest, Pkt("pipe-connected", 0))
         /\ stream' = [stream EXCEPT !.connected = TRUE] /\ pending' = FALSE
         /\ UNCHANGED <<toRelay, mapped>>
      \/ stream.exists /\ m.type = "CLOSE" /\ Over(m.n) /\ UNCHANGED toRelay
  BY Zenon DEF OnPacket, Tells, Closed, Over
<1>. QED
  BY <1>1, <1>2, <1>3, <1>4, <1>5, Zenon

LEMMA GuestTypes ==
  ASSUME TypeOK, Guest PROVE TypeOK'
<1>1. /\ guest \in Handle /\ toKernel \in Seq(ToKernel) /\ toGuest \in Seq(ToGuest)
      /\ cut \subseteq {"out", "in"} /\ peer \in Program
  BY DEF TypeOK
<1>2. /\ guest.inbox \in Seq(0..ERR) /\ guest.sent \in 0..MaxChunks /\ peer.sent \in 0..MaxChunks
      /\ <<>> \in Seq(0..ERR)
  BY <1>1 DEF Handle, Program
<1>3. ASSUME guest' \in Handle, toKernel' \in Seq(ToKernel), toGuest' \in Seq(ToGuest),
             cut' \subseteq {"out", "in"}, UNCHANGED relayVars
      PROVE  TypeOK'
  BY <1>3 DEF TypeOK, relayVars
<1>4. CASE Write
  <2>1. guest.sent + 1 \in 0..MaxChunks /\ guest.sent + 1 \in Chunks
    BY <1>2, <1>4, Numbers DEF Write, Chunks
  <2>2. guest' \in Handle
    BY <1>1, <1>4, <2>1 DEF Write, Handle
  <2>3. toKernel' \in Seq(ToKernel)
    BY <1>1, <1>4, <2>1, Sendable, Added DEF Write, Posts
  <2>. QED
    BY <1>1, <1>3, <1>4, <2>2, <2>3 DEF Write
<1>5. CASE Shutdown
  <2>1. guest' \in Handle
    BY <1>1, <1>5 DEF Shutdown, Handle
  <2>2. toKernel' \in Seq(ToKernel)
    BY <1>1, <1>5, Sendable, Added DEF Shutdown, Posts
  <2>. QED
    BY <1>1, <1>3, <1>5, <2>1, <2>2 DEF Shutdown
<1>6. CASE Close
  <2>1. guest' \in Handle
    BY <1>1, <1>2, <1>6 DEF Close, Handle
  <2>2. toKernel' \in Seq(ToKernel)
    BY <1>1, <1>6, Sendable, Added DEF Close, Posts
  <2>. QED
    BY <1>1, <1>3, <1>6, <2>1, <2>2 DEF Close
<1>7. CASE Deliver
  <2>1. PICK x : x = Head(guest.inbox)
    OBVIOUS
  <2>2. x \in 0..ERR /\ Tail(guest.inbox) \in Seq(0..ERR)
    BY <1>2, <1>7, <2>1, Taken DEF Deliver
  <2>3. PICK g, r : /\ g = (IF x \in Chunks THEN x ELSE guest.got)
                    /\ r = (IF x = EOF THEN "eof" ELSE IF x = ERR THEN "error" ELSE "reading")
    OBVIOUS
  <2>4. g \in 0..MaxChunks /\ r \in {"reading", "eof", "error"}
    BY <1>1, <2>2, <2>3, Numbers DEF Handle, Chunks
  <2>5. guest' = [guest EXCEPT !.inbox = Tail(guest.inbox), !.got = g, !.reader = r]
    BY <1>7, <2>1, <2>3 DEF Deliver
  <2>6. guest' \in Handle
    BY <1>1, <2>2, <2>4, <2>5 DEF Handle
  <2>7. toKernel' = toKernel \/ toKernel' = Append(toKernel, Pkt("pipe-read", 1))
    BY <1>7 DEF Deliver, Posts
  <2>8. toKernel' \in Seq(ToKernel)
    BY <1>1, <2>7, Sendable, Added
  <2>. QED
    BY <1>1, <1>3, <1>7, <2>6, <2>8 DEF Deliver
<1>8. CASE Dispatch
  <2>1. PICK m : m = Head(toGuest)
    OBVIOUS
  <2>2. m \in ToGuest /\ toGuest' \in Seq(ToGuest)
    BY <1>1, <1>8, <2>1, Taken DEF Dispatch
  <2>3. m.type # "pipe-connected" => m.n \in 0..ERR
    BY <2>2, Contents, Numbers
  <2>4. m.type # "pipe-connected" => Append(guest.inbox, m.n) \in Seq(0..ERR)
    BY <1>2, <2>3
  <2>5. \/ UNCHANGED guest
        \/ guest' = [guest EXCEPT !.st = "open"]
        \/ guest' = [guest EXCEPT !.st = "closed"]
        \/ m.type # "pipe-connected" /\ guest' = [guest EXCEPT !.inbox = Append(guest.inbox, m.n)]
    BY <1>8, <2>1, Zenon DEF Dispatch
  <2>6. guest' \in Handle
    BY <1>1, <2>4, <2>5 DEF Handle
  <2>. QED
    BY <1>1, <1>3, <1>8, <2>2, <2>6 DEF Dispatch
<1>. QED
  BY <1>4, <1>5, <1>6, <1>7, <1>8 DEF Guest

LEMMA OverTypes ==
  ASSUME TypeOK, NEW n \in {EOF, ERR}, Over(n)
  PROVE  stream' \in Record /\ toGuest' \in Seq(ToGuest) /\ mapped' \in BOOLEAN /\ pending' \in BOOLEAN
<1>1. stream \in Record /\ toGuest \in Seq(ToGuest) /\ <<>> \in Seq(Chunks)
  BY DEF TypeOK
<1>2. Pkt("pipe-close", n) \in ToGuest
  BY Sendable
<1>3. toGuest' \in Seq(ToGuest)
  BY <1>1, <1>2, Added DEF Over
<1>4. stream' \in Record
  BY <1>1 DEF Over, Record
<1>. QED
  BY <1>3, <1>4 DEF Over

LEMMA KernelTypes ==
  ASSUME TypeOK, FromGuest PROVE TypeOK'
<1>1. PICK m : m = Head(toKernel)
  OBVIOUS
<1>2. /\ stream \in Record /\ toRelay \in Seq(ToRelay) /\ mapped \in BOOLEAN /\ pending \in BOOLEAN
      /\ toKernel \in Seq(ToKernel) /\ <<>> \in Seq(Chunks)
  BY DEF TypeOK
<1>3. stream' \in Record /\ toRelay' \in Seq(ToRelay) /\ mapped' \in BOOLEAN /\ pending' \in BOOLEAN
  <2>1. CASE ~mapped /\ UNCHANGED <<stream, toRelay, mapped, pending>>
    BY <1>2, <2>1
  <2>2. CASE /\ UNCHANGED <<mapped, pending>>
             /\ \E st \in Record : Lets(toRelay', stream', toRelay, st)
    BY <1>2, <2>2, DrainHas
  <2>3. CASE Counts /\ UNCHANGED <<mapped, pending>>
    <3>1. toRelay' \in Seq(ToRelay)
      <4>1. stream'.consumed \in Nat
        BY <2>3 DEF Counts, Record
      <4>2. Pkt("ACK", stream'.consumed) \in ToRelay
        BY <4>1, Sendable
      <4>. QED
        BY <1>2, <2>3, <4>2, Added DEF Counts
    <3>. QED
      BY <1>2, <2>3, <3>1 DEF Counts
  <2>4. CASE /\ stream' = [stream EXCEPT !.exists = FALSE, !.sendq = <<>>]
             /\ toRelay' = Append(toRelay, Pkt("CLOSE", 0))
             /\ mapped' = FALSE /\ pending' = FALSE
    <3>1. stream' \in Record
      BY <1>2, <2>4 DEF Record
    <3>2. toRelay' \in Seq(ToRelay)
      BY <1>2, <2>4, Sendable, Added
    <3>. QED
      BY <2>4, <3>1, <3>2
  <2>. QED
    BY <1>1, <2>1, <2>2, <2>3, <2>4, KernelEffect, Zenon
<1>4. toKernel' \in Seq(ToKernel) /\ UNCHANGED <<guest, toGuest, toClient, socket, peer, cut>>
  <2>1. toKernel # <<>> /\ toKernel' = Tail(toKernel) /\ UNCHANGED <<guest, toGuest, toClient, socket, peer, cut>>
    BY <1>1, KernelEffect, Zenon
  <2>. QED
    BY <1>2, <2>1, Taken
<1>. QED
  BY <1>3, <1>4 DEF TypeOK

LEMMA PacketTypes ==
  ASSUME TypeOK, OnPacket PROVE TypeOK'
<1>1. PICK m : m = Head(toClient)
  OBVIOUS
<1>2. /\ stream \in Record /\ toRelay \in Seq(ToRelay) /\ mapped \in BOOLEAN /\ pending \in BOOLEAN
      /\ toClient \in Seq(ToClient) /\ toGuest \in Seq(ToGuest)
  BY DEF TypeOK
<1>3. /\ toClient # <<>> /\ toClient' = Tail(toClient) /\ m \in ToClient
      /\ UNCHANGED <<guest, toKernel, socket, peer, cut>>
  BY <1>1, PacketEffect, Zenon
<1>4. toClient' \in Seq(ToClient)
  BY <1>2, <1>3, Taken
<1>5. /\ m.type = "DATA" => Pkt("pipe-data", m.n) \in ToGuest
      /\ m.type = "CLOSE" => m.n \in {EOF, ERR}
      /\ Pkt("pipe-shutdown", EOF) \in ToGuest /\ Pkt("pipe-connected", 0) \in ToGuest
  BY <1>3, Contents, Sendable
<1>6. /\ stream' \in Record /\ toRelay' \in Seq(ToRelay) /\ toGuest' \in Seq(ToGuest)
      /\ mapped' \in BOOLEAN /\ pending' \in BOOLEAN
  <2>1. CASE ~stream.exists /\ UNCHANGED <<stream, toRelay, toGuest, mapped, pending>>
    BY <1>2, <2>1
  <2>2. CASE /\ UNCHANGED <<toGuest, mapped, pending>>
             /\ \E st \in Record : Lets(toRelay', stream', toRelay, st)
    BY <1>2, <2>2, DrainHas
  <2>3. CASE /\ m.type = "DATA" /\ toGuest' = Append(toGuest, Pkt("pipe-data", m.n))
             /\ UNCHANGED <<stream, toRelay, mapped, pending>>
    BY <1>2, <1>5, <2>3, Added
  <2>4. CASE /\ toGuest' = Append(toGuest, Pkt("pipe-shutdown", EOF))
             /\ UNCHANGED <<stream, toRelay, mapped, pending>>
    BY <1>2, <1>5, <2>4, Added
  <2>5. CASE /\ toGuest' = Append(toGuest, Pkt("pipe-connected", 0))
             /\ stream' = [stream EXCEPT !.connected = TRUE] /\ pending' = FALSE
             /\ UNCHANGED <<toRelay, mapped>>
    <3>1. stream' \in Record
      BY <1>2, <2>5 DEF Record
    <3>. QED
      BY <1>2, <1>5, <2>5, <3>1, Added
  <2>6. CASE m.type = "CLOSE" /\ Over(m.n) /\ UNCHANGED toRelay
    BY <1>2, <1>5, <2>6, OverTypes
  <2>. QED
    BY <1>1, <2>1, <2>2, <2>3, <2>4, <2>5, <2>6, PacketEffect, Zenon
<1>. QED
  BY <1>3, <1>4, <1>6 DEF TypeOK

LEMMA RelayTypes ==
  ASSUME TypeOK, Relay PROVE TypeOK'
<1>1. /\ socket \in Session /\ toClient \in Seq(ToClient) /\ toRelay \in Seq(ToRelay)
      /\ peer \in Program /\ cut \subseteq {"out", "in"}
      /\ Gone \in Session /\ NoSocket \in Session
  BY GoneType DEF TypeOK
<1>2. ASSUME socket' \in Session, toClient' \in Seq(ToClient), toRelay' \in Seq(ToRelay),
             peer' \in Program, cut' \subseteq {"out", "in"},
             UNCHANGED <<guest, toKernel, toGuest, mapped, pending, stream>>
      PROVE  TypeOK'
  BY <1>2 DEF TypeOK
<1>3. /\ Pkt("CLOSE", ERR) \in ToClient /\ Pkt("CLOSE", EOF) \in ToClient
      /\ Pkt("CONNECTED", 0) \in ToClient /\ Pkt("SHUTDOWN", 0) \in ToClient
  BY Sendable
<1>4. CASE OnRelayPacket
  <2>1. PICK m : m = Head(toRelay)
    OBVIOUS
  <2>2. /\ toRelay' \in Seq(ToRelay) /\ m \in ToRelay
        /\ UNCHANGED <<guest, toKernel, toGuest, mapped, pending, stream, peer, cut>>
    <3>1. /\ toRelay # <<>> /\ toRelay' = Tail(toRelay)
          /\ UNCHANGED <<guest, toKernel, toGuest, mapped, pending, stream, peer, cut>>
      BY <1>4, <2>1, RelayEffect, Zenon
    <3>. QED
      BY <1>1, <2>1, <3>1, Taken
  <2>3. socket' \in Session /\ toClient' \in Seq(ToClient)
    <3>1. CASE socket' = [NoSocket EXCEPT !.exists = TRUE] /\ UNCHANGED toClient
      BY <1>1, <3>1 DEF Session
    <3>2. CASE UNCHANGED <<socket, toClient>>
      BY <1>1, <3>2
    <3>3. CASE Alike(socket', [socket EXCEPT !.out = Append(@, m.n)]) /\ Granted
      BY <3>3, GrantedType DEF Alike
    <3>4. CASE socket' = Gone /\ toClient' = Append(toClient, Pkt("CLOSE", ERR))
      BY <1>1, <1>3, <3>4, Added
    <3>5. CASE socket' = [socket EXCEPT !.fin = TRUE] /\ UNCHANGED toClient
      BY <1>1, <3>5 DEF Session
    <3>6. CASE m.type = "ACK" /\ socket' = Acked(socket, m.n) /\ UNCHANGED toClient
      <4>1. m.n \in Nat
        BY <2>2, <3>6, Contents
      <4>2. PICK p : p = (socket.paused /\ Full(socket.sent, m.n))
        OBVIOUS
      <4>3. p \in BOOLEAN
        BY <4>2, Zenon
      <4>4. socket' = [socket EXCEPT !.acked = m.n, !.paused = p]
        BY <3>6, <4>2, Zenon DEF Acked
      <4>. QED
        BY <1>1, <3>6, <4>1, <4>3, <4>4 DEF Session
    <3>7. CASE socket' = Gone /\ UNCHANGED toClient
      BY <1>1, <3>7
    <3>. QED
      BY <1>4, <2>1, <3>1, <3>2, <3>3, <3>4, <3>5, <3>6, <3>7, RelayEffect, Zenon
  <2>. QED
    BY <1>1, <1>2, <2>2, <2>3
<1>5. CASE Connects
  <2>1. socket' \in Session
    BY <1>1, <1>5 DEF Connects, Session
  <2>2. toClient' \in Seq(ToClient)
    BY <1>3, <1>5, Sent DEF Connects
  <2>. QED
    BY <1>1, <1>2, <1>5, <2>1, <2>2 DEF Connects, vmVars
<1>6. CASE DialFails
  <2>1. toClient' \in Seq(ToClient)
    BY <1>3, <1>6, Sent DEF DialFails
  <2>. QED
    BY <1>1, <1>2, <1>6, <2>1 DEF DialFails, vmVars
<1>7. CASE OnData
  <2>1. socket.sent + 1 \in 0..MaxChunks /\ socket.sent + 1 \in Chunks
    <3>1. socket.sent \in 0..MaxChunks /\ peer.sent \in 0..MaxChunks /\ socket.sent < peer.sent
      BY <1>1, <1>7 DEF OnData, Session, Program
    <3>. QED
      BY <3>1, Numbers DEF Chunks
  <2>2. PICK n, p : n = socket.sent + 1 /\ p = Full(socket.sent + 1, socket.acked)
    OBVIOUS
  <2>3. p \in BOOLEAN
    BY <2>2 DEF Full
  <2>4. socket' = [socket EXCEPT !.sent = n, !.paused = p]
    BY <1>7, <2>2 DEF OnData
  <2>5. socket' \in Session
    BY <1>1, <2>1, <2>2, <2>3, <2>4 DEF Session
  <2>6. toClient' \in Seq(ToClient)
    BY <1>7, <2>1, Sendable, Sent DEF OnData
  <2>. QED
    BY <1>1, <1>2, <1>7, <2>5, <2>6 DEF OnData, vmVars
<1>8. CASE OnEnd
  <2>1. socket' \in Session
    BY <1>1, <1>8 DEF OnEnd, Session
  <2>2. toClient' \in Seq(ToClient)
    BY <1>3, <1>8, Sent DEF OnEnd
  <2>3. cut' \subseteq {"out", "in"}
    BY <1>1, <1>8 DEF OnEnd
  <2>. QED
    BY <1>1, <1>2, <1>8, <2>1, <2>2, <2>3 DEF OnEnd, vmVars
<1>9. CASE Flush
  <2>1. Head(socket.out) \in 0..MaxChunks
    <3>1. socket.out \in Seq(Chunks) /\ socket.out # <<>>
      BY <1>1, <1>9 DEF Flush, Session
    <3>2. Head(socket.out) \in Chunks
      BY <3>1, Taken
    <3>. QED
      BY <3>2, Numbers DEF Chunks
  <2>2. peer' \in Program
    BY <1>1, <1>9, <2>1 DEF Flush, Program
  <2>3. socket' \in Session /\ toClient' \in Seq(ToClient)
    BY <1>9, FlushEffect, GrantedType DEF Alike
  <2>. QED
    BY <1>1, <1>2, <1>9, <2>2, <2>3 DEF Flush, vmVars
<1>10. CASE OnClose
  <2>1. toClient' \in Seq(ToClient)
    BY <1>3, <1>10, Sent DEF OnClose
  <2>. QED
    BY <1>1, <1>2, <1>10, <2>1 DEF OnClose, vmVars
<1>. QED
  BY <1>4, <1>5, <1>6, <1>7, <1>8, <1>9, <1>10 DEF Relay

LEMMA PeerTypes ==
  ASSUME TypeOK, Peer \/ WebSocketLost PROVE TypeOK'
<1>1. /\ socket \in Session /\ toClient \in Seq(ToClient) /\ toRelay \in Seq(ToRelay)
      /\ peer \in Program /\ cut \subseteq {"out", "in"} /\ Gone \in Session
  BY GoneType DEF TypeOK
<1>2. CASE PeerWrites \/ PeerEnds \/ PeerReadsEnd
  <2>1. peer' \in Program
    <3>1. CASE PeerWrites
      <4>1. guest.sent \in 0..MaxChunks /\ peer.sent \in 0..MaxChunks /\ guest.sent + peer.sent < MaxChunks
        BY <1>1, <3>1 DEF TypeOK, Handle, Program, PeerWrites
      <4>2. peer.sent + 1 \in 0..MaxChunks
        BY <4>1, Numbers
      <4>. QED
        BY <1>1, <3>1, <4>2 DEF PeerWrites, Program
    <3>2. CASE PeerEnds
      BY <1>1, <3>2 DEF PeerEnds, Program
    <3>3. CASE PeerReadsEnd
      BY <1>1, <3>3 DEF PeerReadsEnd, Program
    <3>. QED
      BY <1>2, <3>1, <3>2, <3>3
  <2>2. UNCHANGED <<vmVars, socket, toClient, cut>>
    BY <1>2 DEF PeerWrites, PeerEnds, PeerReadsEnd
  <2>. QED
    BY <2>1, <2>2 DEF TypeOK, vmVars
<1>3. CASE Reset
  <2>1. toClient' \in Seq(ToClient)
    BY <1>3, Sendable, Sent DEF Reset
  <2>2. UNCHANGED <<vmVars, peer>> /\ socket' = Gone /\ cut' = {"out", "in"}
    BY <1>3 DEF Reset
  <2>. QED
    BY <1>1, <2>1, <2>2 DEF TypeOK, vmVars
<1>4. CASE WebSocketLost
  <2>1. Over(ERR)
    BY <1>4, Zenon DEF WebSocketLost, Closed, Tells, Over
  <2>2. stream' \in Record /\ toGuest' \in Seq(ToGuest) /\ mapped' \in BOOLEAN /\ pending' \in BOOLEAN
    BY <2>1, OverTypes
  <2>3. toRelay' \in Seq(ToRelay) /\ toClient' \in Seq(ToClient)
    BY <1>4 DEF WebSocketLost
  <2>4. socket' = Gone /\ cut' = {"out", "in"} /\ UNCHANGED <<guest, toKernel, peer>>
    BY <1>4 DEF WebSocketLost
  <2>. QED
    BY <1>1, <2>2, <2>3, <2>4 DEF TypeOK
<1>. QED
  BY <1>2, <1>3, <1>4 DEF Peer

LEMMA TypeStep == TypeOK /\ [Next]_vars => TypeOK'
<1>. SUFFICES ASSUME TypeOK, [Next]_vars PROVE TypeOK'
  OBVIOUS
<1>1. CASE UNCHANGED vars
  BY <1>1 DEF vars, TypeOK
<1>. QED
  BY <1>1, GuestTypes, KernelTypes, PacketTypes, RelayTypes, PeerTypes DEF Next

-----------------------------------------------------------------------------
(* What each of the small actions does to the fields.                       *)

ReaderSame ==
  /\ guest'.st = guest.st /\ guest'.inbox = guest.inbox
  /\ guest'.got = guest.got /\ guest'.reader = guest.reader
WriterSame == guest'.sent = guest.sent /\ guest'.writer = guest.writer
KernelSame == UNCHANGED <<mapped, pending, stream>>
SocketGone ==
  /\ ~socket'.exists /\ socket'.connected = socket.connected /\ socket'.fin /\ ~socket'.ended
  /\ socket'.sent = socket.sent /\ socket'.acked = socket.acked /\ ~socket'.paused
  /\ socket'.out = <<>>
StreamOver == ~stream'.exists /\ stream'.sendq = <<>> /\ stream'.shutdownPending = stream.shutdownPending
              /\ stream'.consumed = stream.consumed /\ stream'.acked = stream.acked
              /\ ~mapped'

LEMMA GoneFields == TypeOK /\ socket' = Gone => SocketGone
BY DEF Gone, NoSocket, SocketGone, TypeOK, Session

LEMMA OverFields ==
  TypeOK /\ stream' = [stream EXCEPT !.exists = FALSE, !.sendq = <<>>] /\ mapped' = FALSE => StreamOver
BY DEF StreamOver, TypeOK, Record

LEMMA WriteEffect ==
  ASSUME TypeOK, Write
  PROVE  /\ guest.st = "open" /\ guest.writer = "open" /\ ReaderSame
         /\ guest'.writer = guest.writer /\ guest'.sent = guest.sent + 1
         /\ toKernel' = Append(toKernel, Pkt("pipe-data", guest.sent + 1))
         /\ Pkt("pipe-data", guest.sent + 1) \in ToKernel
         /\ UNCHANGED <<toGuest, mapped, pending, stream, toRelay, toClient, socket, peer, cut>>
<1>1. guest \in Handle /\ peer \in Program
  BY DEF TypeOK
<1>2. guest.sent + 1 \in Chunks
  <2>1. guest.sent \in 0..MaxChunks /\ peer.sent \in 0..MaxChunks /\ guest.sent + peer.sent < MaxChunks
    BY <1>1 DEF Handle, Program, Write
  <2>. QED
    BY <2>1, Numbers DEF Chunks
<1>3. Pkt("pipe-data", guest.sent + 1) \in ToKernel
  BY <1>2, Sendable
<1>. QED
  BY <1>1, <1>3 DEF Write, Posts, relayVars, ReaderSame, Handle

LEMMA ShutdownEffect ==
  ASSUME TypeOK, Shutdown
  PROVE  /\ guest.st = "open" /\ guest.writer = "open" /\ ReaderSame
         /\ guest'.writer = "ended" /\ guest'.sent = guest.sent
         /\ toKernel' = Append(toKernel, Pkt("pipe-shutdown", 0))
         /\ UNCHANGED <<toGuest, mapped, pending, stream, toRelay, toClient, socket, peer, cut>>
BY DEF Shutdown, Posts, relayVars, ReaderSame, TypeOK, Handle

LEMMA CloseEffect ==
  ASSUME TypeOK, Close
  PROVE  /\ guest'.st = "closed" /\ guest'.inbox = <<>> /\ guest'.got = guest.got
         /\ guest'.reader = guest.reader /\ WriterSame
         /\ toKernel' = Append(toKernel, Pkt("pipe-close", 0))
         /\ cut' = cut \union {"out"}
         /\ UNCHANGED <<toGuest, mapped, pending, stream, toRelay, toClient, socket, peer>>
BY DEF Close, Posts, relayVars, WriterSame, TypeOK, Handle

LEMMA DeliverEffect ==
  ASSUME TypeOK, Deliver, NEW x, x = guest.inbox[1]
  PROVE  /\ guest.st = "open" /\ guest.reader = "reading" /\ guest.inbox # <<>> /\ x \in 0..ERR
         /\ guest'.st = "open" /\ guest'.inbox = Tail(guest.inbox) /\ WriterSame
         /\ x \in Chunks => /\ guest'.got = x /\ guest'.reader = "reading"
                            /\ toKernel' = Append(toKernel, Pkt("pipe-read", 1))
         /\ x \notin Chunks => guest'.got = guest.got /\ UNCHANGED toKernel
         /\ x = EOF => guest'.reader = "eof"
         /\ x = ERR => guest'.reader = "error"
         /\ x \in Chunks \/ x = EOF \/ x = ERR
         /\ UNCHANGED <<toGuest, mapped, pending, stream, toRelay, toClient, socket, peer, cut>>
<1>1. guest \in Handle /\ guest.inbox \in Seq(0..ERR) /\ guest.inbox # <<>>
  BY DEF TypeOK, Handle, Deliver
<1>2. x = Head(guest.inbox) /\ x \in 0..ERR
  BY <1>1, Taken
<1>3. x \in Chunks \/ x = EOF \/ x = ERR
  BY <1>2, Numbers DEF Chunks, EOF, ERR
<1>4. EOF \notin Chunks /\ ERR \notin Chunks /\ EOF # ERR
  BY Numbers
<1>5. PICK g, r : /\ g = (IF x \in Chunks THEN x ELSE guest.got)
                  /\ r = (IF x = EOF THEN "eof" ELSE IF x = ERR THEN "error" ELSE "reading")
  OBVIOUS
<1>6. guest' = [guest EXCEPT !.inbox = Tail(guest.inbox), !.got = g, !.reader = r]
  BY <1>2, <1>5 DEF Deliver
<1>7. /\ guest'.st = guest.st /\ guest'.inbox = Tail(guest.inbox) /\ WriterSame
      /\ guest'.got = g /\ guest'.reader = r
  BY <1>1, <1>6 DEF Handle, WriterSame
<1>8. /\ x \in Chunks => toKernel' = Append(toKernel, Pkt("pipe-read", 1))
      /\ x \notin Chunks => UNCHANGED toKernel
      /\ guest.st = "open" /\ guest.reader = "reading"
      /\ UNCHANGED <<toGuest, mapped, pending, stream, toRelay, toClient, socket, peer, cut>>
  BY <1>2 DEF Deliver, Posts, relayVars
<1>. QED
  BY <1>1, <1>2, <1>3, <1>4, <1>5, <1>7, <1>8

LEMMA DispatchEffect ==
  ASSUME TypeOK, Dispatch, NEW m, m = Head(toGuest)
  PROVE  /\ toGuest # <<>> /\ toGuest' = Tail(toGuest) /\ m \in ToGuest /\ m = toGuest[1] /\ WriterSame
         /\ guest'.got = guest.got /\ guest'.reader = guest.reader
         /\ UNCHANGED <<toKernel, mapped, pending, stream, toRelay, toClient, socket, peer, cut>>
         /\ \/ guest'.st = "closed" /\ guest'.inbox = guest.inbox /\ (guest.st # "closed" => guest.st = "dialing")
            \/ /\ guest.st # "closed" /\ m.type = "pipe-connected"
               /\ guest'.st = "open" /\ guest'.inbox = guest.inbox
            \/ /\ guest.st # "closed" /\ m.type # "pipe-connected"
               /\ ~(guest.st = "dialing" /\ m.type = "pipe-close")
               /\ guest'.st = guest.st /\ guest'.inbox = Append(guest.inbox, m.n)
<1>1. guest \in Handle
  BY DEF TypeOK
<1>2. toGuest # <<>> /\ toGuest' = Tail(toGuest) /\ m \in ToGuest /\ m = toGuest[1]
  BY Taken DEF TypeOK, Dispatch
<1>3. UNCHANGED <<toKernel, mapped, pending, stream, toRelay, toClient, socket, peer, cut>>
  BY DEF Dispatch, relayVars
<1>4. \/ guest.st = "closed" /\ UNCHANGED guest
      \/ guest.st # "closed" /\ m.type = "pipe-connected" /\ guest' = [guest EXCEPT !.st = "open"]
      \/ guest.st = "dialing" /\ guest' = [guest EXCEPT !.st = "closed"]
      \/ /\ guest.st # "closed" /\ m.type # "pipe-connected"
         /\ ~(guest.st = "dialing" /\ m.type = "pipe-close")
         /\ guest' = [guest EXCEPT !.inbox = Append(guest.inbox, m.n)]
  BY Zenon DEF Dispatch
<1>5. /\ WriterSame /\ guest'.got = guest.got /\ guest'.reader = guest.reader
      /\ \/ guest'.st = "closed" /\ guest'.inbox = guest.inbox /\ (guest.st # "closed" => guest.st = "dialing")
         \/ /\ guest.st # "closed" /\ m.type = "pipe-connected"
            /\ guest'.st = "open" /\ guest'.inbox = guest.inbox
         \/ /\ guest.st # "closed" /\ m.type # "pipe-connected"
            /\ ~(guest.st = "dialing" /\ m.type = "pipe-close")
            /\ guest'.st = guest.st /\ guest'.inbox = Append(guest.inbox, m.n)
  BY <1>1, <1>4 DEF Handle, WriterSame
<1>. QED
  BY <1>2, <1>3, <1>5

LEMMA ConnectsEffect ==
  ASSUME TypeOK, Connects
  PROVE  /\ socket.exists /\ ~socket.connected
         /\ socket'.exists /\ socket'.connected /\ socket'.sent = socket.sent /\ socket'.acked = socket.acked
         /\ socket'.paused = socket.paused /\ socket'.out = socket.out /\ socket'.fin = socket.fin
         /\ socket'.ended = socket.ended
         /\ toClient' = Append(toClient, Pkt("CONNECTED", 0))
         /\ UNCHANGED <<guest, toKernel, toGuest, mapped, pending, stream, toRelay, peer, cut>>
<1>1. toClient' = Append(toClient, Pkt("CONNECTED", 0))
  BY Sendable, Sent DEF Connects
<1>. QED
  BY <1>1 DEF Connects, vmVars, TypeOK, Session

LEMMA DialFailsEffect ==
  ASSUME TypeOK, DialFails
  PROVE  /\ socket.exists /\ ~socket.connected /\ SocketGone
         /\ toClient' = Append(toClient, Pkt("CLOSE", ERR))
         /\ UNCHANGED <<guest, toKernel, toGuest, mapped, pending, stream, toRelay, peer, cut>>
<1>1. toClient' = Append(toClient, Pkt("CLOSE", ERR))
  BY Sendable, Sent DEF DialFails
<1>. QED
  BY <1>1, GoneFields DEF DialFails, vmVars

LEMMA OnDataEffect ==
  ASSUME TypeOK, OnData
  PROVE  /\ socket.exists /\ socket.connected /\ ~socket.paused /\ socket.sent < peer.sent
         /\ socket.sent + 1 \in Chunks
         /\ socket'.exists /\ socket'.connected /\ socket'.sent = socket.sent + 1 /\ socket'.acked = socket.acked
         /\ socket'.paused = Full(socket.sent + 1, socket.acked)
         /\ socket'.out = socket.out /\ socket'.fin = socket.fin /\ socket'.ended = socket.ended
         /\ toClient' = Append(toClient, Pkt("DATA", socket.sent + 1))
         /\ UNCHANGED <<guest, toKernel, toGuest, mapped, pending, stream, toRelay, peer, cut>>
<1>1. socket \in Session /\ peer \in Program
  BY DEF TypeOK
<1>2. socket.sent + 1 \in Chunks
  <2>1. socket.sent \in 0..MaxChunks /\ peer.sent \in 0..MaxChunks /\ socket.sent < peer.sent
    BY <1>1 DEF OnData, Session, Program
  <2>. QED
    BY <2>1, Numbers DEF Chunks
<1>3. toClient' = Append(toClient, Pkt("DATA", socket.sent + 1))
  BY <1>2, Sendable, Sent DEF OnData
<1>. QED
  BY <1>1, <1>2, <1>3 DEF OnData, Live, vmVars, Session

LEMMA OnEndEffect ==
  ASSUME TypeOK, OnEnd
  PROVE  /\ socket.exists /\ socket.connected /\ socket.sent = peer.sent
         /\ peer.writer = "ended" /\ ~socket.ended
         /\ socket'.exists /\ socket'.connected /\ socket'.sent = socket.sent /\ socket'.acked = socket.acked
         /\ socket'.paused = socket.paused /\ socket'.out = socket.out
         /\ socket'.fin /\ socket'.ended
         /\ toClient' = Append(toClient, Pkt("SHUTDOWN", 0))
         /\ cut' = IF socket.fin THEN cut ELSE cut \union {"out"}
         /\ UNCHANGED <<guest, toKernel, toGuest, mapped, pending, stream, toRelay, peer>>
<1>1. toClient' = Append(toClient, Pkt("SHUTDOWN", 0))
  BY Sendable, Sent DEF OnEnd
<1>. QED
  BY <1>1 DEF OnEnd, Live, vmVars, TypeOK, Session

LEMMA OnCloseEffect ==
  ASSUME TypeOK, OnClose
  PROVE  /\ socket.exists /\ socket.connected /\ socket.ended /\ socket.fin /\ socket.out = <<>>
         /\ SocketGone
         /\ toClient' = Append(toClient, Pkt("CLOSE", EOF))
         /\ UNCHANGED <<guest, toKernel, toGuest, mapped, pending, stream, toRelay, peer, cut>>
<1>1. toClient' = Append(toClient, Pkt("CLOSE", EOF))
  BY Sendable, Sent DEF OnClose
<1>. QED
  BY <1>1, GoneFields DEF OnClose, Live, vmVars

LEMMA ResetEffect ==
  ASSUME TypeOK, Reset
  PROVE  /\ socket.exists /\ socket.connected /\ SocketGone
         /\ toClient' = Append(toClient, Pkt("CLOSE", ERR))
         /\ cut' = {"out", "in"}
         /\ UNCHANGED <<guest, toKernel, toGuest, mapped, pending, stream, toRelay, peer>>
<1>1. toClient' = Append(toClient, Pkt("CLOSE", ERR))
  BY Sendable, Sent DEF Reset
<1>. QED
  BY <1>1, GoneFields DEF Reset, Live, vmVars

LEMMA WebSocketLostEffect ==
  ASSUME TypeOK, WebSocketLost
  PROVE  /\ stream.exists /\ StreamOver /\ SocketGone
         /\ toGuest' = Append(toGuest, Pkt("pipe-close", ERR))
         /\ toRelay' = <<>> /\ toClient' = <<>> /\ cut' = {"out", "in"}
         /\ UNCHANGED <<guest, toKernel, peer>>
<1>1. Over(ERR)
  BY Zenon DEF WebSocketLost, Closed, Tells, Over
<1>. QED
  BY <1>1, GoneFields, OverFields DEF WebSocketLost, Over

LEMMA PeerEffect ==
  ASSUME TypeOK, PeerWrites \/ PeerEnds \/ PeerReadsEnd
  PROVE  /\ UNCHANGED <<guest, toKernel, toGuest, mapped, pending, stream, toRelay, socket, toClient, cut>>
         /\ peer'.got = peer.got
         /\ \/ /\ PeerWrites /\ socket.exists /\ socket.connected /\ peer.writer = "open"
               /\ peer'.sent = peer.sent + 1
               /\ peer'.writer = peer.writer /\ peer'.reader = peer.reader
            \/ /\ PeerEnds /\ socket.exists /\ socket.connected /\ peer.writer = "open"
               /\ peer'.sent = peer.sent
               /\ peer'.writer = "ended" /\ peer'.reader = peer.reader
            \/ /\ PeerReadsEnd /\ socket.connected /\ socket.fin /\ socket.out = <<>>
               /\ peer.reader = "reading" /\ peer'.reader = "eof"
               /\ peer'.sent = peer.sent /\ peer'.writer = peer.writer
<1>1. peer \in Program
  BY DEF TypeOK
<1>2. CASE PeerWrites
  BY <1>1, <1>2 DEF PeerWrites, Live, vmVars, Program
<1>3. CASE PeerEnds
  BY <1>1, <1>3 DEF PeerEnds, Live, vmVars, Program
<1>4. CASE PeerReadsEnd
  BY <1>1, <1>4 DEF PeerReadsEnd, vmVars, Program
<1>. QED
  BY <1>2, <1>3, <1>4

(* The packets the relay reads. *)
Accounts == socket'.sent = socket.sent /\ socket'.acked = socket.acked /\ socket'.paused = socket.paused
Ends == socket'.exists = socket.exists /\ socket'.connected = socket.connected
        /\ socket'.fin = socket.fin /\ socket'.ended = socket.ended
RConnect(m) ==
  /\ m.type = "CONNECT" /\ UNCHANGED toClient
  /\ socket'.exists /\ ~socket'.connected /\ ~socket'.fin /\ ~socket'.ended /\ ~socket'.paused
  /\ socket'.sent = 0 /\ socket'.acked = 0 /\ socket'.out = <<>>
RDrop(m) == m.type # "CONNECT" /\ ~socket.exists /\ UNCHANGED <<socket, toClient>>
RData(m) ==
  /\ m.type = "DATA" /\ socket.exists /\ ~socket.fin
  /\ Accounts /\ Ends /\ socket'.out = Append(socket.out, m.n) /\ Granted
RRefuse(m) ==
  /\ m.type = "DATA" /\ socket.exists /\ socket.fin
  /\ SocketGone /\ toClient' = Append(toClient, Pkt("CLOSE", ERR))
RShutdown(m) ==
  /\ m.type = "SHUTDOWN" /\ socket.exists /\ UNCHANGED toClient
  /\ Accounts /\ socket'.exists /\ socket'.connected = socket.connected /\ socket'.fin
  /\ socket'.ended = socket.ended /\ socket'.out = socket.out
RAck(m) ==
  /\ m.type = "ACK" /\ socket.exists /\ UNCHANGED toClient
  /\ Ends /\ socket'.out = socket.out /\ socket'.sent = socket.sent /\ socket'.acked = m.n
  /\ ~socket'.paused => ~socket.paused \/ ~Full(socket.sent, m.n)
  /\ ~socket.paused => ~socket'.paused
RClose(m) == m.type = "CLOSE" /\ socket.exists /\ UNCHANGED toClient /\ SocketGone

LEMMA RelayReads ==
  ASSUME TypeOK, OnRelayPacket, NEW m, m = Head(toRelay)
  PROVE  /\ toRelay # <<>> /\ toRelay' = Tail(toRelay) /\ m \in ToRelay /\ m = toRelay[1]
         /\ UNCHANGED <<guest, toKernel, toGuest, mapped, pending, stream, peer, cut>>
         /\ RConnect(m) \/ RDrop(m) \/ RData(m) \/ RRefuse(m) \/ RShutdown(m) \/ RAck(m) \/ RClose(m)
<1>1. /\ toRelay # <<>> /\ toRelay' = Tail(toRelay)
      /\ UNCHANGED <<guest, toKernel, toGuest, mapped, pending, stream, peer, cut>>
  BY RelayEffect, Zenon
<1>2. m \in ToRelay /\ m = toRelay[1]
  BY <1>1, Taken DEF TypeOK
<1>3. socket \in Session
  BY DEF TypeOK
<1>4. ASSUME m.type = "CONNECT" /\ socket' = [NoSocket EXCEPT !.exists = TRUE] /\ UNCHANGED toClient
      PROVE  RConnect(m)
  BY <1>4 DEF NoSocket, RConnect
<1>5. ASSUME m.type # "CONNECT" /\ ~socket.exists /\ UNCHANGED <<socket, toClient>>
      PROVE  RDrop(m)
  BY <1>5 DEF RDrop
<1>6. ASSUME /\ m.type = "DATA" /\ socket.exists /\ ~socket.fin
             /\ Alike(socket', [socket EXCEPT !.out = Append(@, m.n)]) /\ Granted
      PROVE  RData(m)
  BY <1>3, <1>6 DEF RData, Alike, Session, Accounts, Ends
<1>7. ASSUME /\ m.type = "DATA" /\ socket.exists /\ socket.fin
             /\ socket' = Gone /\ toClient' = Append(toClient, Pkt("CLOSE", ERR))
      PROVE  RRefuse(m)
  BY <1>7, GoneFields DEF RRefuse
<1>8. ASSUME /\ m.type = "SHUTDOWN" /\ socket.exists
             /\ socket' = [socket EXCEPT !.fin = TRUE] /\ UNCHANGED toClient
      PROVE  RShutdown(m)
  BY <1>3, <1>8 DEF RShutdown, Session, Accounts
<1>9. ASSUME m.type = "ACK" /\ socket.exists /\ socket' = Acked(socket, m.n) /\ UNCHANGED toClient
      PROVE  RAck(m)
  <2>1. PICK p : p = (socket.paused /\ Full(socket.sent, m.n))
    OBVIOUS
  <2>2. socket' = [socket EXCEPT !.acked = m.n, !.paused = p]
    BY <1>9, <2>1, Zenon DEF Acked
  <2>3. /\ Ends /\ socket'.out = socket.out /\ socket'.sent = socket.sent /\ socket'.acked = m.n
        /\ socket'.paused = p
    BY <1>3, <2>2 DEF Session, Ends
  <2>4. /\ ~socket'.paused => ~socket.paused \/ ~Full(socket.sent, m.n)
        /\ ~socket.paused => ~socket'.paused
    BY <2>1, <2>3, Zenon
  <2>. QED
    BY <1>9, <2>3, <2>4 DEF RAck
<1>10. ASSUME m.type = "CLOSE" /\ socket.exists /\ socket' = Gone /\ UNCHANGED toClient
      PROVE  RClose(m)
  BY <1>10, GoneFields DEF RClose
<1>. QED
  BY <1>1, <1>2, <1>4, <1>5, <1>6, <1>7, <1>8, <1>9, <1>10, RelayEffect, Zenon

(* The messages the kernel reads. *)
Drain(q, pend) ==
  \E st \in Record : /\ st.exists = stream.exists /\ st.consumed = stream.consumed /\ st.acked = stream.acked
                     /\ st.sendq = q /\ st.shutdownPending = pend
                     /\ Lets(toRelay', stream', toRelay, st)
KDrop(m) == ~mapped /\ UNCHANGED <<stream, toRelay, mapped, pending>>
KData(m) ==
  /\ mapped /\ m.type = "pipe-data" /\ UNCHANGED <<mapped, pending>>
  /\ Drain(Append(stream.sendq, m.n), stream.shutdownPending)
KRead(m) == mapped /\ m.type = "pipe-read" /\ Counts /\ UNCHANGED <<mapped, pending>>
KShutdown(m) ==
  /\ mapped /\ m.type = "pipe-shutdown" /\ UNCHANGED <<mapped, pending>>
  /\ Drain(stream.sendq, TRUE)
KClose(m) ==
  /\ mapped /\ m.type = "pipe-close" /\ StreamOver /\ pending' = FALSE
  /\ toRelay' = Append(toRelay, Pkt("CLOSE", 0))

LEMMA KernelReads ==
  ASSUME TypeOK, FromGuest, NEW m, m = Head(toKernel)
  PROVE  /\ toKernel # <<>> /\ toKernel' = Tail(toKernel) /\ m \in ToKernel /\ m = toKernel[1]
         /\ UNCHANGED <<guest, toGuest, toClient, socket, peer, cut>>
         /\ KDrop(m) \/ KData(m) \/ KRead(m) \/ KShutdown(m) \/ KClose(m)
<1>1. /\ toKernel # <<>> /\ toKernel' = Tail(toKernel) /\ m \in ToKernel
      /\ UNCHANGED <<guest, toGuest, toClient, socket, peer, cut>>
  BY KernelEffect, Zenon
<1>2. m = toKernel[1]
  BY <1>1, Taken DEF TypeOK
<1>3. stream \in Record
  BY DEF TypeOK
<1>4. ASSUME ~mapped /\ UNCHANGED <<stream, toRelay, mapped, pending>>
      PROVE  KDrop(m)
  BY <1>4 DEF KDrop
<1>5. ASSUME /\ mapped /\ m.type = "pipe-data" /\ UNCHANGED <<mapped, pending>>
             /\ \E st \in Record : /\ st = [stream EXCEPT !.sendq = Append(@, m.n)]
                                   /\ Lets(toRelay', stream', toRelay, st)
      PROVE  KData(m)
  <2>1. PICK st \in Record : /\ st = [stream EXCEPT !.sendq = Append(@, m.n)]
                             /\ Lets(toRelay', stream', toRelay, st)
    BY <1>5
  <2>2. /\ st.exists = stream.exists /\ st.consumed = stream.consumed /\ st.acked = stream.acked
        /\ st.sendq = Append(stream.sendq, m.n) /\ st.shutdownPending = stream.shutdownPending
    BY <1>3, <2>1 DEF Record
  <2>. QED
    BY <1>5, <2>1, <2>2 DEF KData, Drain
<1>6. ASSUME mapped /\ m.type = "pipe-read" /\ Counts /\ UNCHANGED <<mapped, pending>>
      PROVE  KRead(m)
  BY <1>6 DEF KRead
<1>7. ASSUME /\ mapped /\ m.type = "pipe-shutdown" /\ UNCHANGED <<mapped, pending>>
             /\ \E st \in Record : /\ st = [stream EXCEPT !.shutdownPending = TRUE]
                                   /\ Lets(toRelay', stream', toRelay, st)
      PROVE  KShutdown(m)
  <2>1. PICK st \in Record : /\ st = [stream EXCEPT !.shutdownPending = TRUE]
                             /\ Lets(toRelay', stream', toRelay, st)
    BY <1>7
  <2>2. /\ st.exists = stream.exists /\ st.consumed = stream.consumed /\ st.acked = stream.acked
        /\ st.sendq = stream.sendq /\ st.shutdownPending = TRUE
    BY <1>3, <2>1 DEF Record
  <2>. QED
    BY <1>7, <2>1, <2>2 DEF KShutdown, Drain
<1>8. ASSUME /\ mapped /\ m.type = "pipe-close"
             /\ stream' = [stream EXCEPT !.exists = FALSE, !.sendq = <<>>]
             /\ toRelay' = Append(toRelay, Pkt("CLOSE", 0))
             /\ mapped' = FALSE /\ pending' = FALSE
      PROVE  KClose(m)
  BY <1>8, OverFields DEF KClose
<1>. QED
  BY <1>1, <1>2, <1>4, <1>5, <1>6, <1>7, <1>8, KernelEffect, Zenon

(* The packets the client reads. *)
StreamSame ==
  /\ stream'.exists = stream.exists /\ stream'.sendq = stream.sendq
  /\ stream'.shutdownPending = stream.shutdownPending
  /\ stream'.consumed = stream.consumed /\ stream'.acked = stream.acked
CDrop(m) == ~stream.exists /\ UNCHANGED <<stream, toRelay, toGuest, mapped, pending>>
CContinue(m) ==
  /\ stream.exists /\ m.type = "CONTINUE" /\ UNCHANGED <<toGuest, mapped, pending>>
  /\ Drain(stream.sendq, stream.shutdownPending)
CData(m) ==
  /\ stream.exists /\ m.type = "DATA" /\ UNCHANGED <<stream, toRelay, mapped, pending>>
  /\ toGuest' = Append(toGuest, Pkt("pipe-data", m.n)) /\ Pkt("pipe-data", m.n) \in ToGuest
CShutdown(m) ==
  /\ stream.exists /\ m.type = "SHUTDOWN" /\ UNCHANGED <<stream, toRelay, mapped, pending>>
  /\ toGuest' = Append(toGuest, Pkt("pipe-shutdown", EOF))
CConnected(m) ==
  /\ stream.exists /\ m.type = "CONNECTED" /\ UNCHANGED <<toRelay, mapped>>
  /\ toGuest' = Append(toGuest, Pkt("pipe-connected", 0)) /\ StreamSame
CClose(m) ==
  /\ stream.exists /\ m.type = "CLOSE" /\ StreamOver /\ UNCHANGED toRelay
  /\ toGuest' = Append(toGuest, Pkt("pipe-close", m.n)) /\ Pkt("pipe-close", m.n) \in ToGuest

LEMMA PacketReads ==
  ASSUME TypeOK, OnPacket, NEW m, m = Head(toClient)
  PROVE  /\ toClient # <<>> /\ toClient' = Tail(toClient) /\ m \in ToClient /\ m = toClient[1]
         /\ UNCHANGED <<guest, toKernel, socket, peer, cut>>
         /\ CDrop(m) \/ CContinue(m) \/ CData(m) \/ CShutdown(m) \/ CConnected(m) \/ CClose(m)
<1>1. /\ toClient # <<>> /\ toClient' = Tail(toClient) /\ m \in ToClient
      /\ UNCHANGED <<guest, toKernel, socket, peer, cut>>
  BY PacketEffect, Zenon
<1>2. m = toClient[1]
  BY <1>1, Taken DEF TypeOK
<1>3. stream \in Record
  BY DEF TypeOK
<1>4. ASSUME ~stream.exists /\ UNCHANGED <<stream, toRelay, toGuest, mapped, pending>>
      PROVE  CDrop(m)
  BY <1>4 DEF CDrop
<1>5. ASSUME /\ stream.exists /\ m.type = "CONTINUE" /\ UNCHANGED <<toGuest, mapped, pending>>
             /\ \E st \in Record : st = [stream EXCEPT !.credit = m.n] /\ Lets(toRelay', stream', toRelay, st)
      PROVE  CContinue(m)
  <2>1. PICK st \in Record : st = [stream EXCEPT !.credit = m.n] /\ Lets(toRelay', stream', toRelay, st)
    BY <1>5
  <2>2. /\ st.exists = stream.exists /\ st.consumed = stream.consumed /\ st.acked = stream.acked
        /\ st.sendq = stream.sendq /\ st.shutdownPending = stream.shutdownPending
    BY <1>3, <2>1 DEF Record
  <2>. QED
    BY <1>5, <2>1, <2>2 DEF CContinue, Drain
<1>6. ASSUME /\ stream.exists /\ m.type = "DATA" /\ toGuest' = Append(toGuest, Pkt("pipe-data", m.n))
             /\ UNCHANGED <<stream, toRelay, mapped, pending>>
      PROVE  CData(m)
  BY <1>1, <1>6, Contents, Sendable DEF CData
<1>7. ASSUME /\ stream.exists /\ m.type = "SHUTDOWN" /\ toGuest' = Append(toGuest, Pkt("pipe-shutdown", EOF))
             /\ UNCHANGED <<stream, toRelay, mapped, pending>>
      PROVE  CShutdown(m)
  BY <1>7 DEF CShutdown
<1>8. ASSUME /\ stream.exists /\ m.type = "CONNECTED" /\ toGuest' = Append(toGuest, Pkt("pipe-connected", 0))
             /\ stream' = [stream EXCEPT !.connected = TRUE] /\ pending' = FALSE
             /\ UNCHANGED <<toRelay, mapped>>
      PROVE  CConnected(m)
  <2>1. StreamSame
    BY <1>3, <1>8 DEF StreamSame, Record
  <2>. QED
    BY <1>8, <2>1 DEF CConnected
<1>9. ASSUME stream.exists /\ m.type = "CLOSE" /\ Over(m.n) /\ UNCHANGED toRelay
      PROVE  CClose(m)
  <2>1. Pkt("pipe-close", m.n) \in ToGuest
    BY <1>1, <1>9, Contents, Sendable
  <2>. QED
    BY <1>9, <2>1, OverFields DEF CClose, Over
<1>. QED
  BY <1>1, <1>2, <1>4, <1>5, <1>6, <1>7, <1>8, <1>9, PacketEffect, Zenon

(* _drain touches neither the tables nor the counts. *)
LEMMA Drains1 ==
  ASSUME TypeOK, NEW q, NEW pend, Drain(q, pend)
  PROVE  /\ stream'.exists = stream.exists /\ stream'.consumed = stream.consumed
         /\ stream'.acked = stream.acked
         /\ stream'.shutdownPending => pend
         /\ q = <<>> => stream'.sendq = <<>>
         /\ toRelay' \in Seq(ToRelay) /\ stream' \in Record
         /\ \A t : t \notin {"DATA", "SHUTDOWN"} => (Has(toRelay', t) <=> Has(toRelay, t))
         /\ Has(toRelay', "SHUTDOWN") => Has(toRelay, "SHUTDOWN") \/ (pend /\ stream'.sendq = <<>>)
         /\ Has(toRelay, "SHUTDOWN") => Has(toRelay', "SHUTDOWN")
         /\ pend => stream'.shutdownPending \/ Has(toRelay', "SHUTDOWN")
         /\ q = <<>> /\ ~Has(toRelay, "DATA") => ~Has(toRelay', "DATA")
         /\ \A i \in 1..Len(toRelay') : toRelay'[i].type \in {"ACK", "CONNECT"} =>
              i \in 1..Len(toRelay) /\ toRelay'[i] = toRelay[i]
<1>1. PICK st \in Record : /\ st.exists = stream.exists /\ st.consumed = stream.consumed /\ st.acked = stream.acked
                           /\ st.sendq = q /\ st.shutdownPending = pend
                           /\ Lets(toRelay', stream', toRelay, st)
  BY DEF Drain
<1>2. toRelay \in Seq(ToRelay)
  BY DEF TypeOK
<1>3. /\ toRelay' \in Seq(ToRelay) /\ stream' \in Record
      /\ stream'.exists = st.exists /\ stream'.consumed = st.consumed /\ stream'.acked = st.acked
      /\ stream'.shutdownPending => st.shutdownPending
      /\ st.sendq = <<>> => stream'.sendq = <<>>
      /\ \A t : t \notin {"DATA", "SHUTDOWN"} => (Has(toRelay', t) <=> Has(toRelay, t))
      /\ Has(toRelay', "SHUTDOWN") => Has(toRelay, "SHUTDOWN") \/ (st.shutdownPending /\ stream'.sendq = <<>>)
      /\ Has(toRelay, "SHUTDOWN") => Has(toRelay', "SHUTDOWN")
      /\ st.shutdownPending => stream'.shutdownPending \/ Has(toRelay', "SHUTDOWN")
      /\ st.sendq = <<>> /\ ~Has(toRelay, "DATA") => ~Has(toRelay', "DATA")
      /\ \A i \in 1..Len(toRelay') : toRelay'[i].type \in {"ACK", "CONNECT"} =>
           i \in 1..Len(toRelay) /\ toRelay'[i] = toRelay[i]
  BY <1>1, <1>2, DrainHas, ZenonT(60)
<1>. QED
  BY <1>1, <1>3

(* It keeps the end behind the data, and the chunks in order. *)
LEMMA Drains2 ==
  ASSUME TypeOK, NEW q, NEW pend, Drain(q, pend)
  PROVE  /\ LastOf(toRelay, "SHUTDOWN", "DATA") /\ (Has(toRelay, "SHUTDOWN") => q = <<>>) =>
              LastOf(toRelay', "SHUTDOWN", "DATA")
         /\ \A lo, b \in Nat : Carries(toRelay, "DATA", lo, b) /\ Run(q, b) =>
              \E c \in Nat : /\ Carries(toRelay', "DATA", lo, c) /\ Run(stream'.sendq, c)
                             /\ c + Len(stream'.sendq) = b + Len(q) /\ c <= b + Len(q)
<1>1. PICK st \in Record : st.sendq = q /\ Lets(toRelay', stream', toRelay, st)
  BY DEF Drain
<1>2. toRelay \in Seq(ToRelay)
  BY DEF TypeOK
<1>3. LastOf(toRelay, "SHUTDOWN", "DATA") /\ (Has(toRelay, "SHUTDOWN") => st.sendq = <<>>) =>
        LastOf(toRelay', "SHUTDOWN", "DATA")
  BY <1>1, <1>2, DrainLast, Zenon
<1>4. \A lo, b \in Nat : Carries(toRelay, "DATA", lo, b) /\ Run(st.sendq, b) =>
        \E c \in Nat : /\ Carries(toRelay', "DATA", lo, c) /\ Run(stream'.sendq, c)
                       /\ c + Len(stream'.sendq) = b + Len(st.sendq) /\ c <= b + Len(st.sendq)
  BY <1>1, <1>2, DrainCarries, Zenon
<1>. QED
  BY <1>1, <1>3, <1>4, Zenon

-----------------------------------------------------------------------------
(* The invariant.                                                           *)

Tables == mapped = stream.exists /\ (~stream.exists => stream.sendq = <<>>)

(* A dial the relay has not connected: nothing has been told or written.    *)
Untouched == ~socket.connected /\ (socket.exists \/ Has(toRelay, "CONNECT"))
Fresh ==
  /\ Untouched =>
       /\ toClient = <<>> /\ toGuest = <<>> /\ guest.inbox = <<>> /\ guest.reader = "reading"
       /\ guest.sent = 0 /\ guest.got = 0 /\ guest.writer = "open"
       /\ peer.sent = 0 /\ peer.got = 0 /\ peer.reader = "reading"
       /\ socket.sent = 0 /\ socket.acked = 0 /\ ~socket.fin /\ ~socket.ended /\ ~socket.paused
       /\ stream.acked = 0 /\ ~stream.shutdownPending
  /\ ~socket.connected => /\ guest.st # "open" /\ ~Has(toGuest, "pipe-connected") /\ ~Has(toClient, "CONNECTED")
                          /\ peer.reader = "reading"
  /\ Has(toRelay, "CONNECT") => ~socket.exists /\ ~socket.connected
  /\ LastOf(toRelay, "CONNECT", "CONNECT")

(* What the guest took in and the kernel has not counted yet: the reads in  *)
(* the queue between them, which c adds up one by one.                      *)
Tally(c, q, n) ==
  /\ c[0] = n
  /\ \A i \in 1..Len(q) : c[i] = IF q[i].type = "pipe-read" THEN c[i-1] + 1 ELSE c[i-1]
Unread ==
  /\ stream.consumed <= guest.got
  /\ mapped => \E c \in [0..Len(toKernel) -> 0..guest.got] : Tally(c, toKernel, stream.consumed)

(* What was counted, the acknowledgements under way, and what the relay     *)
(* knows of them.                                                           *)
Acks ==
  /\ socket.acked <= stream.acked /\ stream.acked <= stream.consumed
  /\ \A i \in 1..Len(toRelay) : toRelay[i].type = "ACK" =>
       socket.acked <= toRelay[i].n /\ toRelay[i].n <= stream.acked
  /\ \A i, j \in 1..Len(toRelay) : i < j /\ toRelay[i].type = "ACK" /\ toRelay[j].type = "ACK" =>
       toRelay[i].n <= toRelay[j].n
Window ==
  /\ guest.got <= socket.sent /\ socket.sent <= peer.sent
  /\ socket.exists => /\ socket.sent - socket.acked <= RELAY_WINDOW
                      /\ ~socket.paused => socket.sent - socket.acked < RELAY_WINDOW

(* Outwards: guest, kernel, client, relay, peer.                            *)
Outwards(b) ==
  /\ Run(socket.out, peer.got)
  /\ Carries(toRelay, "DATA", peer.got + Len(socket.out), b)
  /\ Run(stream.sendq, b)
  /\ b + Len(stream.sendq) <= guest.sent
  /\ mapped => Carries(toKernel, "pipe-data", b + Len(stream.sendq), guest.sent)
OutFlow ==
  socket.exists \/ Has(toRelay, "CONNECT") => \E b \in 0..guest.sent : Outwards(b)

(* An end that was asked for has no data behind it. *)
HalfShut == socket.exists /\ socket.fin /\ ~socket.ended
OutEnds ==
  /\ LastOf(toKernel, "pipe-shutdown", "pipe-data") /\ LastOf(toRelay, "SHUTDOWN", "DATA")
  /\ Has(toKernel, "pipe-shutdown") => guest.writer = "ended"
  /\ stream.shutdownPending \/ Has(toRelay, "SHUTDOWN") \/ HalfShut =>
       guest.writer = "ended" /\ ~Has(toKernel, "pipe-data")
  /\ Has(toRelay, "SHUTDOWN") \/ HalfShut => stream.sendq = <<>>
  /\ HalfShut => ~Has(toRelay, "DATA")

(* Where a link is missing the direction was cut; and the peer is told the  *)
(* end when it has everything, or when the direction was cut.               *)
OutCut ==
  /\ Has(toKernel, "pipe-close") \/ Has(toRelay, "CLOSE") => "out" \in cut
  /\ ~mapped /\ (socket.exists \/ Has(toRelay, "CONNECT")) => "out" \in cut
  /\ socket.connected /\ socket.fin /\ "out" \notin cut =>
       guest.writer = "ended" /\ peer.got + Len(socket.out) = guest.sent
  /\ ~socket.exists => socket.out = <<>>
  /\ peer.reader = "eof" => socket.fin /\ socket.out = <<>>

(* Inwards: peer, relay, client, kernel, guest.                             *)
Inwards(k, b, h) ==
  /\ \A i \in 1..Len(guest.inbox) :
       IF i <= k THEN guest.inbox[i] = guest.got + i ELSE guest.inbox[i] \in {EOF, ERR}
  /\ Carries(toGuest, "pipe-data", guest.got + k, b)
  /\ Carries(toClient, "DATA", b, h)
  /\ stream.exists \/ "in" \notin cut => h = socket.sent
  /\ guest.reader # "reading" \/ k < Len(guest.inbox) => ~Has(toGuest, "pipe-data")
InFlow ==
  guest.st # "closed" =>
    \E k \in 0..Len(guest.inbox), b, h \in 0..socket.sent : Inwards(k, b, h)

(* The guest was told the end, or will be. *)
Told0 == guest.reader # "reading" \/ Holds(guest.inbox, EOF)
Told1 == Told0 \/ Has(toGuest, "pipe-shutdown")
Told2 == Told1 \/ Has(toClient, "SHUTDOWN")
Marked == guest.reader # "reading" \/ Holds(guest.inbox, EOF) \/ Holds(guest.inbox, ERR)
           \/ Has(toGuest, "pipe-shutdown") \/ Has(toGuest, "pipe-close")

(* Behind an end there are no chunks, and it was the peer that ended.       *)
Ending ==
  /\ LastOf(toGuest, "pipe-shutdown", "pipe-data") /\ LastOf(toGuest, "pipe-close", "pipe-data")
  /\ LastOf(toClient, "SHUTDOWN", "DATA")
  /\ Marked => ~Has(toClient, "DATA")
  /\ Marked \/ Has(toClient, "SHUTDOWN") => socket.ended \/ ~socket.exists
ClosesLast(q) == \A i \in 1..Len(q) : q[i].type = "CLOSE" => i = Len(q)
InEnds ==
  /\ ClosesLast(toClient)
  /\ Has(toClient, "CLOSE") \/ "in" \in cut => ~socket.exists /\ ~Has(toRelay, "CONNECT")
  /\ \/ stream.exists \/ guest.st = "closed"
     \/ toClient = <<>> /\ ~socket.exists /\ ~Has(toRelay, "CONNECT")
  /\ Has(toKernel, "pipe-close") => guest.st = "closed"
  /\ guest.st # "closed" => Ending
  /\ socket.ended => peer.writer = "ended" /\ socket.sent = peer.sent

(* A close is read behind the end, or by a guest whose dial it answers.     *)
Behind(s, x, y) == \A i \in 1..Len(s) : s[i] = x => \E j \in 1..i-1 : s[j] = y
BehindOf(q, e, t) == \A i \in 1..Len(q) : q[i].type = e => \E j \in 1..i-1 : q[j].type = t
Orderly ==
  /\ guest.reader # "error"
  /\ Told2 => peer.writer = "ended" /\ socket.sent = peer.sent
  /\ socket.ended => Told2
  /\ socket.connected =>
       /\ guest.reader = "reading" => Behind(guest.inbox, ERR, EOF)
       /\ ~Told0 => BehindOf(toGuest, "pipe-close", "pipe-shutdown")
       /\ Has(toClient, "CLOSE") => Told2
InCut == guest.st # "closed" /\ "in" \notin cut => Orderly

IInv ==
  /\ TypeOK /\ Tables /\ Fresh /\ Unread /\ Acks /\ Window
  /\ OutFlow /\ OutEnds /\ OutCut /\ InFlow /\ InEnds /\ InCut

-----------------------------------------------------------------------------
(* The tables of kernel and client.                                         *)

LEMMA TablesStep == TypeOK /\ Tables /\ [Next]_vars => Tables'
<1>. SUFFICES ASSUME TypeOK, Tables, [Next]_vars PROVE Tables'
  OBVIOUS
<1>0. mapped' \in BOOLEAN /\ stream'.exists \in BOOLEAN
  BY TypeStep DEF TypeOK, Record
<1>1. CASE UNCHANGED <<mapped, stream>>
  BY <1>1 DEF Tables
<1>2. CASE FromGuest
  <2>1. PICK m : m = Head(toKernel)
    OBVIOUS
  <2>2. CASE KDrop(m)
    BY <2>2 DEF Tables, KDrop
  <2>3. CASE KData(m) \/ KShutdown(m)
    BY <2>3, Drains1 DEF Tables, KData, KShutdown
  <2>4. CASE KRead(m)
    BY <2>4 DEF Tables, KRead, Counts
  <2>5. CASE KClose(m)
    BY <1>0, <2>5 DEF Tables, KClose, StreamOver
  <2>. QED
    BY <1>2, <2>1, <2>2, <2>3, <2>4, <2>5, KernelReads, Zenon
<1>3. CASE OnPacket
  <2>1. PICK m : m = Head(toClient)
    OBVIOUS
  <2>2. CASE CDrop(m) \/ CData(m) \/ CShutdown(m)
    BY <1>1, <2>2 DEF CDrop, CData, CShutdown
  <2>3. CASE CContinue(m)
    BY <2>3, Drains1 DEF Tables, CContinue
  <2>4. CASE CConnected(m)
    BY <2>4 DEF Tables, CConnected, StreamSame
  <2>5. CASE CClose(m)
    BY <1>0, <2>5 DEF Tables, CClose, StreamOver
  <2>. QED
    BY <1>3, <2>1, <2>2, <2>3, <2>4, <2>5, PacketReads, Zenon
<1>4. CASE WebSocketLost
  BY <1>0, <1>4, WebSocketLostEffect DEF Tables, StreamOver
<1>5. CASE Guest \/ Relay \/ Peer \/ UNCHANGED vars
  <2>1. UNCHANGED <<mapped, stream>>
    BY <1>5 DEF Guest, Relay, Peer, vars, Write, Shutdown, Close, Deliver, Dispatch, relayVars,
                OnRelayPacket, Connects, DialFails, OnData, OnEnd, Flush, OnClose,
                PeerWrites, PeerEnds, PeerReadsEnd, Reset, vmVars
  <2>. QED
    BY <1>1, <2>1
<1>. QED
  BY <1>2, <1>3, <1>4, <1>5 DEF Next

-----------------------------------------------------------------------------
(* Before the relay has connected.                                          *)

(* Nobody sends a second CONNECT. *)
LEMMA NoNewConnect ==
  ASSUME TypeOK, FromGuest \/ OnPacket
  PROVE  /\ Has(toRelay', "CONNECT") => Has(toRelay, "CONNECT")
         /\ LastOf(toRelay, "CONNECT", "CONNECT") => LastOf(toRelay', "CONNECT", "CONNECT")
<1>1. toRelay \in Seq(ToRelay)
  BY DEF TypeOK
<1>2. CASE \E q, pend : Drain(q, pend)
  <2>1. \A i \in 1..Len(toRelay') : toRelay'[i].type = "CONNECT" =>
          i \in 1..Len(toRelay) /\ toRelay'[i] = toRelay[i]
    BY <1>2, Drains1
  <2>. QED
    BY <2>1 DEF Has, LastOf
<1>3. ASSUME NEW x \in ToRelay, x.type # "CONNECT", toRelay' = Append(toRelay, x)
      PROVE  /\ Has(toRelay', "CONNECT") => Has(toRelay, "CONNECT")
             /\ LastOf(toRelay, "CONNECT", "CONNECT") => LastOf(toRelay', "CONNECT", "CONNECT")
  BY <1>1, <1>3, HasAdded, LastOfAdded
<1>4. Pkt("CLOSE", 0) \in ToRelay /\ Pkt("CLOSE", 0).type # "CONNECT"
      /\ \A n \in Nat : Pkt("ACK", n) \in ToRelay /\ Pkt("ACK", n).type # "CONNECT"
  BY Sendable, Fields
<1>5. CASE FromGuest
  <2>1. PICK m : m = Head(toKernel)
    OBVIOUS
  <2>2. CASE KDrop(m)
    BY <2>2 DEF KDrop
  <2>3. CASE KData(m) \/ KShutdown(m)
    BY <1>2, <2>3 DEF KData, KShutdown
  <2>4. CASE KRead(m)
    <3>1. stream'.consumed \in Nat
      BY <2>4 DEF KRead, Counts, Record
    <3>. QED
      BY <1>3, <1>4, <2>4, <3>1 DEF KRead, Counts
  <2>5. CASE KClose(m)
    BY <1>3, <1>4, <2>5 DEF KClose
  <2>. QED
    BY <1>5, <2>1, <2>2, <2>3, <2>4, <2>5, KernelReads, Zenon
<1>6. CASE OnPacket
  <2>1. PICK m : m = Head(toClient)
    OBVIOUS
  <2>2. CASE CDrop(m) \/ CData(m) \/ CShutdown(m) \/ CConnected(m) \/ CClose(m)
    BY <2>2 DEF CDrop, CData, CShutdown, CConnected, CClose
  <2>3. CASE CContinue(m)
    BY <1>2, <2>3 DEF CContinue
  <2>. QED
    BY <1>6, <2>1, <2>2, <2>3, PacketReads, Zenon
<1>. QED
  BY <1>5, <1>6

LEMMA FreshGuest ==
  ASSUME IInv, Guest PROVE Fresh'
<1>1. TypeOK /\ Fresh
  BY DEF IInv
<1>2. CASE Write
  BY <1>1, <1>2, WriteEffect DEF Fresh, Untouched, ReaderSame
<1>3. CASE Shutdown
  BY <1>1, <1>3, ShutdownEffect DEF Fresh, Untouched, ReaderSame
<1>4. CASE Close
  BY <1>1, <1>4, CloseEffect DEF Fresh, Untouched, WriterSame
<1>5. CASE Deliver
  <2>1. PICK x : x = guest.inbox[1]
    OBVIOUS
  <2>. QED
    BY <1>1, <1>5, <2>1, DeliverEffect DEF Fresh, Untouched, WriterSame
<1>6. CASE Dispatch
  <2>1. PICK m : m = Head(toGuest)
    OBVIOUS
  <2>2. toGuest \in Seq(ToGuest)
    BY <1>1 DEF TypeOK
  <2>. QED
    BY <1>1, <1>6, <2>1, <2>2, DispatchEffect, HasTaken DEF Fresh, Untouched, WriterSame
<1>. QED
  BY <1>2, <1>3, <1>4, <1>5, <1>6 DEF Guest

(* Nothing is in the kernel's queue but the close of a guest that gave up.  *)
LEMMA Idle ==
  ASSUME IInv, Untouched, mapped, NEW i \in 1..Len(toKernel)
  PROVE  /\ toKernel[i].type # "pipe-read"
         /\ toKernel[i].type # "pipe-shutdown"
<1>1. guest.got = 0 /\ guest.writer = "open"
  BY DEF IInv, Fresh
<1>2. PICK c \in [0..Len(toKernel) -> 0..guest.got] : Tally(c, toKernel, stream.consumed)
  BY DEF IInv, Unread
<1>3. toKernel \in Seq(ToKernel) /\ Len(toKernel) \in Nat
  BY DEF IInv, TypeOK
<1>4. c[i] = 0 /\ c[i - 1] = 0
  BY <1>1, <1>2, <1>3
<1>5. toKernel[i].type # "pipe-read"
  BY <1>2, <1>4 DEF Tally
<1>6. toKernel[i].type # "pipe-shutdown"
  BY <1>1 DEF IInv, OutEnds, Has
<1>. QED
  BY <1>5, <1>6

LEMMA FreshKernel ==
  ASSUME IInv, FromGuest PROVE Fresh'
<1>1. TypeOK /\ Fresh /\ Tables
  BY DEF IInv
<1>2. PICK m : m = Head(toKernel)
  OBVIOUS
<1>3. /\ toKernel # <<>> /\ m = toKernel[1] /\ UNCHANGED <<guest, toGuest, toClient, socket, peer, cut>>
      /\ KDrop(m) \/ KData(m) \/ KRead(m) \/ KShutdown(m) \/ KClose(m)
  BY <1>1, <1>2, KernelReads, Zenon
<1>4. 1 \in 1..Len(toKernel)
  BY <1>1, <1>3, Taken DEF TypeOK
<1>5. Untouched' => Untouched
  BY <1>1, <1>3, NoNewConnect DEF Untouched
<1>6. Untouched /\ mapped => ~KRead(m) /\ ~KShutdown(m)
  BY <1>3, <1>4, Idle DEF KRead, KShutdown
<1>7. Untouched => stream'.acked = 0 /\ ~stream'.shutdownPending
  <2>1. CASE KDrop(m)
    BY <1>1, <2>1 DEF Fresh, KDrop
  <2>2. CASE KData(m)
    BY <1>1, <2>2, Drains1 DEF Fresh, KData
  <2>3. CASE KRead(m) \/ KShutdown(m)
    BY <1>6, <2>3 DEF KRead, KShutdown
  <2>4. CASE KClose(m)
    BY <1>1, <2>4 DEF Fresh, KClose, StreamOver
  <2>. QED
    BY <1>3, <2>1, <2>2, <2>3, <2>4
<1>. QED
  BY <1>1, <1>3, <1>5, <1>7, NoNewConnect DEF Fresh

LEMMA FreshPacket ==
  ASSUME IInv, OnPacket PROVE Fresh'
<1>1. TypeOK /\ Fresh /\ Tables
  BY DEF IInv
<1>2. PICK m : m = Head(toClient)
  OBVIOUS
<1>3. /\ toClient # <<>> /\ toClient' = Tail(toClient) /\ m \in ToClient /\ m = toClient[1]
      /\ UNCHANGED <<guest, toKernel, socket, peer, cut>>
      /\ CDrop(m) \/ CContinue(m) \/ CData(m) \/ CShutdown(m) \/ CConnected(m) \/ CClose(m)
  BY <1>1, <1>2, PacketReads, Zenon
<1>4. ~Untouched
  BY <1>1, <1>3 DEF Fresh
<1>5. ~Untouched'
  BY <1>1, <1>3, <1>4, NoNewConnect DEF Untouched
<1>6. ASSUME ~socket.connected PROVE ~Has(toGuest', "pipe-connected") /\ ~Has(toClient', "CONNECTED")
  <2>1. toClient \in Seq(ToClient) /\ toGuest \in Seq(ToGuest)
    BY <1>1 DEF TypeOK
  <2>2. ~Has(toClient', "CONNECTED") /\ m.type # "CONNECTED"
    BY <1>1, <1>2, <1>3, <1>6, <2>1, HasTaken DEF Fresh
  <2>3. ~Has(toGuest, "pipe-connected")
    BY <1>1, <1>6 DEF Fresh
  <2>4. CASE UNCHANGED toGuest
    BY <2>2, <2>3, <2>4
  <2>5. CASE CData(m)
    BY <2>1, <2>2, <2>3, <2>5, HasAdded, Fields DEF CData
  <2>6. CASE CShutdown(m)
    BY <2>1, <2>2, <2>3, <2>6, HasAdded, Fields, Sendable DEF CShutdown
  <2>7. CASE CClose(m)
    BY <2>1, <2>2, <2>3, <2>7, HasAdded, Fields DEF CClose
  <2>. QED
    BY <1>3, <2>2, <2>4, <2>5, <2>6, <2>7 DEF CDrop, CContinue, CConnected
<1>. QED
  BY <1>1, <1>3, <1>5, <1>6, NoNewConnect DEF Fresh

(* Nothing is under way to a relay that has not connected. *)
LEMMA Silent ==
  ASSUME IInv, Untouched, NEW i \in 1..Len(toRelay)
  PROVE  /\ toRelay[i].type # "DATA"
         /\ toRelay[i].type # "SHUTDOWN"
         /\ toRelay[i].type = "ACK" => toRelay[i].n = 0
<1>1. /\ guest.sent = 0 /\ peer.got = 0 /\ guest.writer = "open" /\ stream.acked = 0 /\ socket.acked = 0
  BY DEF IInv, Fresh
<1>2. toRelay \in Seq(ToRelay) /\ toRelay[i] \in ToRelay
  BY DEF IInv, TypeOK
<1>3. toRelay[i].type # "SHUTDOWN"
  BY <1>1 DEF IInv, OutEnds, Has
<1>4. toRelay[i].type = "ACK" => toRelay[i].n = 0
  <2>1. toRelay[i].type = "ACK" => toRelay[i].n \in Nat /\ toRelay[i].n <= 0
    BY <1>1, <1>2, Contents DEF IInv, Acks
  <2>. QED
    BY <2>1
<1>5. toRelay[i].type # "DATA"
  <2>1. PICK b \in 0..guest.sent : Outwards(b)
    BY DEF IInv, OutFlow, Untouched
  <2>2. Carries(toRelay, "DATA", peer.got + Len(socket.out), 0)
    BY <1>1, <2>1 DEF Outwards
  <2>3. Len(socket.out) \in Nat
    BY DEF IInv, TypeOK, Session
  <2>4. toRelay[i].type = "DATA" => toRelay[i].n \in Nat /\ Len(socket.out) < toRelay[i].n /\ toRelay[i].n <= 0
    BY <1>1, <1>2, <2>2, <2>3, Kinds DEF Carries
  <2>. QED
    BY <2>3, <2>4
<1>. QED
  BY <1>3, <1>4, <1>5

LEMMA FreshRelayPacket ==
  ASSUME IInv, OnRelayPacket PROVE Fresh'
<1>1. TypeOK /\ Fresh
  BY DEF IInv
<1>2. PICK m : m = Head(toRelay)
  OBVIOUS
<1>3. /\ toRelay # <<>> /\ toRelay' = Tail(toRelay) /\ m \in ToRelay /\ m = toRelay[1]
      /\ UNCHANGED <<guest, toKernel, toGuest, mapped, pending, stream, peer, cut>>
      /\ RConnect(m) \/ RDrop(m) \/ RData(m) \/ RRefuse(m) \/ RShutdown(m) \/ RAck(m) \/ RClose(m)
  BY <1>1, <1>2, RelayReads, Zenon
<1>4. toRelay \in Seq(ToRelay) /\ toClient \in Seq(ToClient) /\ 1 \in 1..Len(toRelay)
  BY <1>1, <1>3, Taken DEF TypeOK
<1>5. /\ Has(toRelay, "CONNECT") <=> m.type = "CONNECT" \/ Has(toRelay', "CONNECT")
      /\ LastOf(toRelay', "CONNECT", "CONNECT")
      /\ m.type = "CONNECT" => ~Has(toRelay', "CONNECT")
  BY <1>1, <1>2, <1>3, <1>4, HasTaken, LastOfTaken DEF Fresh
<1>6. Untouched /\ socket.exists =>
        m.type # "DATA" /\ m.type # "SHUTDOWN" /\ (m.type = "ACK" => m.n = 0)
  BY <1>3, <1>4, Silent
<1>7. CASE RConnect(m)
  BY <1>1, <1>3, <1>5, <1>7 DEF Fresh, Untouched, RConnect
<1>8. CASE RDrop(m)
  BY <1>1, <1>3, <1>5, <1>8 DEF Fresh, Untouched, RDrop
<1>9. CASE RData(m)
  <2>1. socket.connected
    BY <1>6, <1>9 DEF Untouched, RData
  <2>2. ~Has(toRelay', "CONNECT")
    BY <1>1, <1>5, <2>1 DEF Fresh
  <2>. QED
    BY <1>5, <1>9, <2>1, <2>2 DEF Fresh, Untouched, RData, Ends
<1>10. CASE RRefuse(m)
  <2>1. socket.connected
    BY <1>6, <1>10 DEF Untouched, RRefuse
  <2>2. ~Has(toRelay', "CONNECT")
    BY <1>1, <1>5, <2>1 DEF Fresh
  <2>. QED
    BY <1>5, <1>10, <2>1, <2>2 DEF Fresh, Untouched, RRefuse, SocketGone
<1>11. CASE RShutdown(m)
  <2>1. socket.connected
    BY <1>6, <1>11 DEF Untouched, RShutdown
  <2>2. ~Has(toRelay', "CONNECT")
    BY <1>1, <1>5, <2>1 DEF Fresh
  <2>. QED
    BY <1>5, <1>11, <2>1, <2>2 DEF Fresh, Untouched, RShutdown
<1>12. CASE RAck(m)
  BY <1>1, <1>3, <1>5, <1>6, <1>12 DEF Fresh, Untouched, RAck, Ends
<1>13. CASE RClose(m)
  BY <1>1, <1>3, <1>5, <1>13 DEF Fresh, Untouched, RClose, SocketGone
<1>. QED
  BY <1>3, <1>7, <1>8, <1>9, <1>10, <1>11, <1>12, <1>13

LEMMA FreshRest ==
  ASSUME IInv, [Next]_vars, ~Guest, ~FromGuest, ~OnPacket, ~OnRelayPacket PROVE Fresh'
<1>1. TypeOK /\ Fresh
  BY DEF IInv
<1>2. toClient \in Seq(ToClient) /\ toGuest \in Seq(ToGuest)
  BY <1>1 DEF TypeOK
<1>3. CASE UNCHANGED vars
  BY <1>1, <1>3 DEF Fresh, Untouched, vars
<1>4. CASE Connects
  BY <1>1, <1>4, ConnectsEffect DEF Fresh, Untouched
<1>5. CASE DialFails
  <2>0. Pkt("CLOSE", ERR) \in ToClient /\ Pkt("CLOSE", ERR).type # "CONNECTED"
    BY Sendable, Fields
  <2>1. ~Has(toClient', "CONNECTED")
    <3>1. ~Has(toClient, "CONNECTED") /\ toClient' = Append(toClient, Pkt("CLOSE", ERR))
      BY <1>1, <1>5, DialFailsEffect DEF Fresh
    <3>. QED
      BY <1>2, <2>0, <3>1, HasAdded
  <2>. QED
    BY <1>1, <1>5, <2>1, DialFailsEffect DEF Fresh, Untouched, SocketGone
<1>6. CASE OnData
  BY <1>1, <1>6, OnDataEffect DEF Fresh, Untouched
<1>7. CASE OnEnd
  BY <1>1, <1>7, OnEndEffect DEF Fresh, Untouched
<1>8. CASE Flush
  BY <1>1, <1>8, FlushEffect DEF Fresh, Untouched, Alike
<1>9. CASE OnClose
  BY <1>1, <1>9, OnCloseEffect DEF Fresh, Untouched, SocketGone
<1>10. CASE PeerWrites \/ PeerEnds \/ PeerReadsEnd
  BY <1>1, <1>10, PeerEffect DEF Fresh, Untouched
<1>11. CASE Reset
  BY <1>1, <1>11, ResetEffect DEF Fresh, Untouched, SocketGone
<1>12. CASE WebSocketLost
  <2>0. Pkt("pipe-close", ERR) \in ToGuest /\ Pkt("pipe-close", ERR).type # "pipe-connected"
    BY Sendable, Fields
  <2>1. ~socket.connected => ~Has(toGuest', "pipe-connected")
    <3>1. /\ ~socket.connected => ~Has(toGuest, "pipe-connected")
          /\ toGuest' = Append(toGuest, Pkt("pipe-close", ERR))
      BY <1>1, <1>12, WebSocketLostEffect DEF Fresh
    <3>. QED
      BY <1>2, <2>0, <3>1, HasAdded
  <2>2. ~Has(<<>>, "CONNECT") /\ ~Has(<<>>, "CONNECTED") /\ LastOf(<<>>, "CONNECT", "CONNECT")
    BY DEF Has, LastOf
  <2>. QED
    BY <1>1, <1>12, <2>1, <2>2, WebSocketLostEffect DEF Fresh, Untouched, SocketGone
<1>. QED
  BY <1>3, <1>4, <1>5, <1>6, <1>7, <1>8, <1>9, <1>10, <1>11, <1>12 DEF Next, Relay, Peer

LEMMA FreshStep == ASSUME IInv, [Next]_vars PROVE Fresh'
BY FreshGuest, FreshKernel, FreshPacket, FreshRelayPacket, FreshRest

-----------------------------------------------------------------------------
(* What the guest took in is counted once, and acknowledged in order.       *)

(* The first message of an inbox is the next chunk, or an end. *)
LEMMA NextChunk ==
  ASSUME IInv, Deliver, guest.inbox[1] \in Chunks
  PROVE  guest.inbox[1] = guest.got + 1 /\ guest.got + 1 <= socket.sent
<1>1. /\ TypeOK /\ InFlow /\ guest \in Handle /\ socket \in Session
      /\ guest.inbox \in Seq(0..ERR) /\ guest.got \in Nat /\ socket.sent \in Nat
  BY DEF IInv, TypeOK, Handle, Session
<1>2. guest.st # "closed" /\ guest.inbox # <<>>
  BY DEF Deliver
<1>3. PICK k \in 0..Len(guest.inbox), b \in 0..socket.sent, h \in 0..socket.sent : Inwards(k, b, h)
  BY <1>1, <1>2 DEF InFlow
<1>4. 1 \in 1..Len(guest.inbox) /\ Len(guest.inbox) \in Nat
  BY <1>1, <1>2, Taken
<1>5. IF 1 <= k THEN guest.inbox[1] = guest.got + 1 ELSE guest.inbox[1] \in {EOF, ERR}
  BY <1>3, <1>4 DEF Inwards
<1>6. 1 <= k /\ guest.inbox[1] = guest.got + 1
  BY <1>5, Numbers
<1>7. guest.got + k <= b
  BY <1>3 DEF Inwards, Carries
<1>. QED
  BY <1>1, <1>3, <1>4, <1>6, <1>7

LEMMA TallyAdded ==
  ASSUME NEW q \in Seq(ToKernel), NEW m \in ToKernel, NEW g \in Nat, NEW h \in Nat, NEW n,
         NEW c \in [0..Len(q) -> 0..g], Tally(c, q, n), g <= h, m.type = "pipe-read" => g < h
  PROVE  \E d \in [0..Len(Append(q, m)) -> 0..h] : Tally(d, Append(q, m), n)
<1>. DEFINE r == Append(q, m)
            l == Len(q)
            d == [i \in 0..l + 1 |-> IF i <= l THEN c[i] ELSE IF m.type = "pipe-read" THEN c[l] + 1 ELSE c[l]]
<1>1. Len(r) = l + 1 /\ l \in Nat /\ r[l + 1] = m /\ \A i \in 1..l : r[i] = q[i]
  BY Added
<1>. HIDE DEF r, l
<1>2. c \in [0..l -> 0..g]
  BY DEF l
<1>3. d \in [0..Len(r) -> 0..h]
  <2>1. ASSUME NEW i \in 0..l + 1 PROVE d[i] \in 0..h
    <3>1. CASE i <= l
      BY <1>1, <1>2, <3>1
    <3>2. CASE i = l + 1
      <4>1. c[l] \in 0..g /\ ~(i <= l)
        BY <1>1, <1>2, <3>2
      <4>. QED
        BY <4>1
    <3>. QED
      BY <1>1, <3>1, <3>2
  <2>. QED
    BY <1>1, <2>1
<1>4. d[0] = n
  BY <1>1 DEF Tally
<1>5. ASSUME NEW i \in 1..Len(r)
      PROVE  d[i] = IF r[i].type = "pipe-read" THEN d[i-1] + 1 ELSE d[i-1]
  <2>1. CASE i \in 1..l
    <3>1. d[i] = c[i] /\ d[i-1] = c[i-1] /\ r[i] = q[i]
      BY <1>1, <2>1
    <3>2. c[i] = IF q[i].type = "pipe-read" THEN c[i-1] + 1 ELSE c[i-1]
      BY <2>1 DEF Tally, l
    <3>. QED
      BY <3>1, <3>2
  <2>2. CASE i = l + 1
    <3>1. d[i-1] = c[l] /\ r[i] = m /\ i \in 0..l + 1 /\ ~(i <= l)
      BY <1>1, <2>2
    <3>. QED
      BY <3>1
  <2>. QED
    BY <1>1, <2>1, <2>2
<1>6. Tally(d, r, n)
  BY <1>4, <1>5 DEF Tally
<1>. QED
  BY <1>3, <1>6, Zenon DEF r

LEMMA TallyTaken ==
  ASSUME NEW q \in Seq(ToKernel), q # <<>>, NEW g \in Nat, NEW n,
         NEW c \in [0..Len(q) -> 0..g], Tally(c, q, n)
  PROVE  /\ c[1] = (IF Head(q).type = "pipe-read" THEN n + 1 ELSE n) /\ c[1] \in 0..g
         /\ \E d \in [0..Len(Tail(q)) -> 0..g] : Tally(d, Tail(q), c[1])
<1>. DEFINE r == Tail(q)
            l == Len(q)
            d == [i \in 0..l - 1 |-> c[i + 1]]
<1>1. /\ Len(r) = l - 1 /\ l \in Nat \ {0} /\ \A i \in 1..l - 1 : r[i] = q[i + 1]
      /\ Head(q) = q[1]
  BY Taken
<1>. HIDE DEF r, l
<1>2. c \in [0..l -> 0..g]
  BY DEF l
<1>3. \A i \in 1..l : c[i] = IF q[i].type = "pipe-read" THEN c[i-1] + 1 ELSE c[i-1]
  BY DEF Tally, l
<1>4. c[1] = (IF Head(q).type = "pipe-read" THEN n + 1 ELSE n) /\ c[1] \in 0..g
  <2>1. 1 \in 1..l /\ 1 - 1 = 0 /\ c[0] = n
    BY <1>1 DEF Tally
  <2>. QED
    BY <1>1, <1>2, <1>3, <2>1
<1>5. d \in [0..Len(r) -> 0..g]
  BY <1>1, <1>2
<1>6. Tally(d, r, c[1])
  <2>1. d[0] = c[1]
    BY <1>1
  <2>2. ASSUME NEW i \in 1..Len(r)
        PROVE  d[i] = IF r[i].type = "pipe-read" THEN d[i-1] + 1 ELSE d[i-1]
    <3>1. i \in 1..l - 1 /\ i + 1 \in 1..l /\ (i + 1) - 1 = i /\ i - 1 \in 0..l - 1 /\ (i - 1) + 1 = i
      BY <1>1
    <3>2. d[i] = c[i + 1] /\ d[i - 1] = c[i] /\ r[i] = q[i + 1]
      BY <1>1, <3>1
    <3>. QED
      BY <1>3, <3>1, <3>2
  <2>. QED
    BY <2>1, <2>2 DEF Tally
<1>. QED
  BY <1>4, <1>5, <1>6, Zenon DEF r

LEMMA UnreadGuest ==
  ASSUME IInv, Guest PROVE Unread'
<1>1. /\ TypeOK /\ Unread /\ toKernel \in Seq(ToKernel) /\ stream.consumed \in Nat /\ guest.got \in Nat
      /\ mapped \in BOOLEAN
  BY DEF IInv, TypeOK, Record, Handle
<1>2. ASSUME NEW x \in ToKernel, toKernel' = Append(toKernel, x), guest'.got \in Nat, guest.got <= guest'.got,
             x.type = "pipe-read" => guest.got < guest'.got, UNCHANGED <<mapped, stream>>
      PROVE  Unread'
  <2>1. stream'.consumed <= guest'.got
    BY <1>1, <1>2 DEF Unread
  <2>2. ASSUME mapped
        PROVE  \E c \in [0..Len(toKernel') -> 0..guest'.got] : Tally(c, toKernel', stream.consumed)
    <3>1. PICK c \in [0..Len(toKernel) -> 0..guest.got] : Tally(c, toKernel, stream.consumed)
      BY <1>1, <2>2 DEF Unread
    <3>. QED
      BY <1>1, <1>2, <3>1, TallyAdded
  <2>. QED
    BY <1>2, <2>1, <2>2 DEF Unread
<1>3. CASE Write
  <2>1. Pkt("pipe-data", guest.sent + 1).type # "pipe-read" /\ Pkt("pipe-data", guest.sent + 1) \in ToKernel
    BY <1>1, <1>3, Fields, WriteEffect
  <2>. QED
    BY <1>1, <1>2, <1>3, <2>1, WriteEffect DEF ReaderSame
<1>4. CASE Shutdown
  <2>1. Pkt("pipe-shutdown", 0).type # "pipe-read" /\ Pkt("pipe-shutdown", 0) \in ToKernel
    BY Fields, Sendable
  <2>. QED
    BY <1>1, <1>2, <1>4, <2>1, ShutdownEffect DEF ReaderSame
<1>5. CASE Close
  <2>1. Pkt("pipe-close", 0).type # "pipe-read" /\ Pkt("pipe-close", 0) \in ToKernel
    BY Fields, Sendable
  <2>. QED
    BY <1>1, <1>2, <1>5, <2>1, CloseEffect
<1>6. CASE Deliver
  <2>1. PICK x : x = guest.inbox[1]
    OBVIOUS
  <2>2. CASE x \in Chunks
    <3>1. Pkt("pipe-read", 1) \in ToKernel
      BY Sendable
    <3>2. guest'.got = guest.got + 1
      BY <1>1, <1>6, <2>1, <2>2, DeliverEffect, NextChunk
    <3>. QED
      BY <1>1, <1>2, <1>6, <2>1, <2>2, <3>1, <3>2, DeliverEffect
  <2>3. CASE x \notin Chunks
    BY <1>1, <1>6, <2>1, <2>3, DeliverEffect DEF Unread
  <2>. QED
    BY <2>2, <2>3
<1>7. CASE Dispatch
  <2>1. PICK m : m = Head(toGuest)
    OBVIOUS
  <2>. QED
    BY <1>1, <1>7, <2>1, DispatchEffect DEF Unread
<1>. QED
  BY <1>3, <1>4, <1>5, <1>6, <1>7 DEF Guest

LEMMA UnreadKernel ==
  ASSUME IInv, FromGuest PROVE Unread'
<1>1. /\ TypeOK /\ Unread /\ toKernel \in Seq(ToKernel) /\ stream.consumed \in Nat /\ guest.got \in Nat
      /\ mapped \in BOOLEAN
  BY DEF IInv, TypeOK, Record, Handle
<1>2. PICK m : m = Head(toKernel)
  OBVIOUS
<1>3. /\ toKernel # <<>> /\ toKernel' = Tail(toKernel) /\ UNCHANGED guest
      /\ KDrop(m) \/ KData(m) \/ KRead(m) \/ KShutdown(m) \/ KClose(m)
  BY <1>1, <1>2, KernelReads, Zenon
<1>4. CASE KDrop(m)
  BY <1>1, <1>3, <1>4 DEF Unread, KDrop
<1>5. CASE KClose(m)
  BY <1>1, <1>3, <1>5 DEF Unread, KClose, StreamOver
<1>6. CASE KData(m) \/ KShutdown(m) \/ KRead(m)
  <2>1. mapped
    BY <1>6 DEF KData, KShutdown, KRead
  <2>2. PICK c \in [0..Len(toKernel) -> 0..guest.got] : Tally(c, toKernel, stream.consumed)
    BY <1>1, <2>1 DEF Unread
  <2>3. /\ c[1] = (IF m.type = "pipe-read" THEN stream.consumed + 1 ELSE stream.consumed)
        /\ c[1] \in 0..guest.got
        /\ \E d \in [0..Len(toKernel') -> 0..guest.got] : Tally(d, toKernel', c[1])
    <3>1. /\ c[1] = (IF Head(toKernel).type = "pipe-read" THEN stream.consumed + 1 ELSE stream.consumed)
          /\ c[1] \in 0..guest.got
          /\ \E d \in [0..Len(Tail(toKernel)) -> 0..guest.got] : Tally(d, Tail(toKernel), c[1])
      BY <1>1, <1>3, <2>2, TallyTaken, Zenon
    <3>. QED
      BY <1>2, <1>3, <3>1
  <2>4. stream'.consumed = c[1]
    <3>1. CASE KRead(m)
      BY <2>3, <3>1 DEF KRead, Counts
    <3>2. CASE KData(m) \/ KShutdown(m)
      BY <1>1, <2>3, <3>2, Drains1 DEF KData, KShutdown
    <3>. QED
      BY <1>6, <3>1, <3>2
  <2>5. stream'.consumed <= guest'.got
    BY <1>3, <2>3, <2>4
  <2>. QED
    BY <1>3, <2>3, <2>4, <2>5 DEF Unread
<1>. QED
  BY <1>3, <1>4, <1>5, <1>6

LEMMA UnreadStep ==
  ASSUME IInv, [Next]_vars PROVE Unread'
<1>1. TypeOK /\ Unread
  BY DEF IInv
<1>2. CASE UNCHANGED <<guest, stream, mapped, toKernel>>
  BY <1>1, <1>2 DEF Unread
<1>3. CASE OnPacket
  <2>1. PICK m : m = Head(toClient)
    OBVIOUS
  <2>2. /\ UNCHANGED <<guest, toKernel>>
        /\ CDrop(m) \/ CContinue(m) \/ CData(m) \/ CShutdown(m) \/ CConnected(m) \/ CClose(m)
    BY <1>1, <1>3, <2>1, PacketReads, Zenon
  <2>3. stream'.consumed = stream.consumed /\ (mapped' => mapped)
    <3>1. CASE CDrop(m) \/ CData(m) \/ CShutdown(m)
      BY <3>1 DEF CDrop, CData, CShutdown
    <3>2. CASE CContinue(m)
      BY <1>1, <3>2, Drains1 DEF CContinue
    <3>3. CASE CConnected(m) \/ CClose(m)
      BY <3>3 DEF CConnected, CClose, StreamSame, StreamOver
    <3>. QED
      BY <2>2, <3>1, <3>2, <3>3
  <2>. QED
    BY <1>1, <2>2, <2>3 DEF Unread
<1>4. CASE WebSocketLost
  BY <1>1, <1>4, WebSocketLostEffect DEF Unread, StreamOver
<1>5. CASE Relay \/ Peer \/ UNCHANGED vars
  <2>1. UNCHANGED <<guest, stream, mapped, toKernel>>
    BY <1>5 DEF Relay, Peer, vars, OnRelayPacket, Connects, DialFails, OnData, OnEnd, Flush, OnClose,
                PeerWrites, PeerEnds, PeerReadsEnd, Reset, vmVars
  <2>. QED
    BY <1>2, <2>1
<1>. QED
  BY <1>3, <1>4, <1>5, UnreadGuest, UnreadKernel DEF Next

LEMMA AcksKernel ==
  ASSUME IInv, FromGuest PROVE Acks'
<1>1. /\ TypeOK /\ Acks /\ toRelay \in Seq(ToRelay) /\ stream \in Record /\ socket.acked \in Nat
      /\ stream.consumed \in Nat /\ stream.acked \in Nat
  BY DEF IInv, TypeOK, Record, Session
<1>2. PICK m : m = Head(toKernel)
  OBVIOUS
<1>3. UNCHANGED socket /\ (KDrop(m) \/ KData(m) \/ KRead(m) \/ KShutdown(m) \/ KClose(m))
  BY <1>1, <1>2, KernelReads, Zenon
<1>4. CASE KDrop(m)
  BY <1>1, <1>3, <1>4 DEF Acks, KDrop
<1>5. CASE KData(m) \/ KShutdown(m)
  <2>1. /\ stream'.consumed = stream.consumed /\ stream'.acked = stream.acked
        /\ \A i \in 1..Len(toRelay') : toRelay'[i].type = "ACK" =>
             i \in 1..Len(toRelay) /\ toRelay'[i] = toRelay[i]
    BY <1>1, <1>5, Drains1 DEF KData, KShutdown
  <2>. QED
    BY <1>1, <1>3, <2>1 DEF Acks
<1>6. ASSUME NEW x \in ToRelay, toRelay' = Append(toRelay, x), stream'.acked \in Nat, stream.acked <= stream'.acked,
             stream'.acked <= stream'.consumed, x.type = "ACK" => x.n = stream'.acked
      PROVE  Acks'
  <2>1. /\ \A i \in 1..Len(toRelay) : toRelay'[i] = toRelay[i] /\ toRelay[i].n \in Nat
        /\ \A i \in 1..Len(toRelay') : i \in 1..Len(toRelay) \/ toRelay'[i] = x
        /\ \A i, j \in 1..Len(toRelay') : i < j => i \in 1..Len(toRelay)
    BY <1>1, <1>6, Added, Kinds
  <2>2. socket.acked <= stream.acked
    BY <1>1 DEF Acks
  <2>3. \A i \in 1..Len(toRelay') : toRelay'[i].type = "ACK" =>
          socket.acked <= toRelay'[i].n /\ toRelay'[i].n <= stream'.acked
    <3> TAKE i \in 1..Len(toRelay')
    <3>1. CASE i \in 1..Len(toRelay)
      BY <1>1, <1>6, <2>1, <3>1 DEF Acks
    <3>2. CASE toRelay'[i] = x
      BY <1>1, <1>6, <2>2, <3>2
    <3>. QED
      BY <2>1, <3>1, <3>2
  <2>4. \A i, j \in 1..Len(toRelay') : i < j /\ toRelay'[i].type = "ACK" /\ toRelay'[j].type = "ACK" =>
          toRelay'[i].n <= toRelay'[j].n
    <3> TAKE i, j \in 1..Len(toRelay')
    <3>1. CASE j \in 1..Len(toRelay)
      BY <1>1, <2>1, <3>1 DEF Acks
    <3>2. CASE i \in 1..Len(toRelay) /\ toRelay'[j] = x
      BY <1>1, <1>6, <2>1, <3>2 DEF Acks
    <3>. QED
      BY <2>1, <3>1, <3>2
  <2>. QED
    BY <1>1, <1>3, <1>6, <2>2, <2>3, <2>4 DEF Acks
<1>7. CASE KRead(m)
  <2>1. /\ stream'.consumed = stream.consumed + 1
        /\ \/ stream'.acked = stream.acked /\ UNCHANGED toRelay
           \/ stream'.acked = stream'.consumed /\ toRelay' = Append(toRelay, Pkt("ACK", stream'.consumed))
    BY <1>7 DEF KRead, Counts
  <2>2. CASE stream'.acked = stream.acked /\ UNCHANGED toRelay
    BY <1>1, <1>3, <2>1, <2>2 DEF Acks
  <2>3. CASE stream'.acked = stream'.consumed /\ toRelay' = Append(toRelay, Pkt("ACK", stream'.consumed))
    <3>1. /\ Pkt("ACK", stream'.consumed) \in ToRelay
          /\ Pkt("ACK", stream'.consumed).n = stream'.consumed
      BY <1>1, <2>1, Sendable, Fields
    <3>2. stream.acked <= stream.consumed
      BY <1>1 DEF Acks
    <3>. QED
      BY <1>1, <1>6, <2>1, <2>3, <3>1, <3>2
  <2>. QED
    BY <2>1, <2>2, <2>3
<1>8. CASE KClose(m)
  <2>1. Pkt("CLOSE", 0) \in ToRelay /\ Pkt("CLOSE", 0).type # "ACK"
    BY Sendable, Fields
  <2>2. stream.acked <= stream.consumed
    BY <1>1 DEF Acks
  <2>. QED
    BY <1>1, <1>6, <1>8, <2>1, <2>2 DEF KClose, StreamOver
<1>. QED
  BY <1>3, <1>4, <1>5, <1>7, <1>8

LEMMA AcksPacket ==
  ASSUME IInv, OnPacket PROVE Acks'
<1>1. TypeOK /\ Acks
  BY DEF IInv
<1>2. PICK m : m = Head(toClient)
  OBVIOUS
<1>3. /\ UNCHANGED socket
      /\ CDrop(m) \/ CContinue(m) \/ CData(m) \/ CShutdown(m) \/ CConnected(m) \/ CClose(m)
  BY <1>1, <1>2, PacketReads, Zenon
<1>4. CASE CDrop(m) \/ CData(m) \/ CShutdown(m)
  BY <1>1, <1>3, <1>4 DEF Acks, CDrop, CData, CShutdown
<1>5. CASE CContinue(m)
  <2>1. /\ stream'.consumed = stream.consumed /\ stream'.acked = stream.acked
        /\ \A i \in 1..Len(toRelay') : toRelay'[i].type = "ACK" =>
             i \in 1..Len(toRelay) /\ toRelay'[i] = toRelay[i]
    BY <1>1, <1>5, Drains1 DEF CContinue
  <2>. QED
    BY <1>1, <1>3, <2>1 DEF Acks
<1>6. CASE CConnected(m) \/ CClose(m)
  BY <1>1, <1>3, <1>6 DEF Acks, CConnected, CClose, StreamSame, StreamOver
<1>. QED
  BY <1>3, <1>4, <1>5, <1>6

LEMMA AcksRelayPacket ==
  ASSUME IInv, OnRelayPacket PROVE Acks'
<1>1. TypeOK /\ Acks /\ toRelay \in Seq(ToRelay) /\ stream.acked \in Nat /\ socket.acked \in Nat
  BY DEF IInv, TypeOK, Record, Session
<1>2. PICK m : m = Head(toRelay)
  OBVIOUS
<1>3. /\ toRelay # <<>> /\ toRelay' = Tail(toRelay) /\ m \in ToRelay /\ m = toRelay[1]
      /\ UNCHANGED stream
      /\ RConnect(m) \/ RDrop(m) \/ RData(m) \/ RRefuse(m) \/ RShutdown(m) \/ RAck(m) \/ RClose(m)
  BY <1>1, <1>2, RelayReads, Zenon
<1>4. /\ \A i \in 1..Len(toRelay') : /\ i + 1 \in 1..Len(toRelay) /\ toRelay'[i] = toRelay[i + 1]
                                     /\ 1 < i + 1 /\ toRelay'[i].n \in Nat
      /\ \A i, j \in 1..Len(toRelay') : i < j => i + 1 < j + 1
      /\ 1 \in 1..Len(toRelay)
  BY <1>1, <1>3, Taken, Kinds
<1>5. ASSUME socket'.acked <= stream.acked,
             \A i \in 1..Len(toRelay') : toRelay'[i].type = "ACK" => socket'.acked <= toRelay'[i].n
      PROVE  Acks'
  BY <1>1, <1>3, <1>4, <1>5 DEF Acks
<1>6. CASE RAck(m)
  BY <1>1, <1>3, <1>4, <1>5, <1>6 DEF Acks, RAck
<1>7. CASE RConnect(m)
  BY <1>1, <1>4, <1>5, <1>7 DEF RConnect
<1>8. CASE socket'.acked = socket.acked
  BY <1>1, <1>3, <1>4, <1>5, <1>8 DEF Acks
<1>. QED
  BY <1>3, <1>6, <1>7, <1>8 DEF RDrop, RData, RRefuse, RShutdown, RClose, Accounts, SocketGone

LEMMA AcksStep ==
  ASSUME IInv, [Next]_vars PROVE Acks'
<1>1. TypeOK /\ Acks
  BY DEF IInv
<1>2. ASSUME socket'.acked = socket.acked, UNCHANGED <<stream, toRelay>> PROVE Acks'
  BY <1>1, <1>2 DEF Acks
<1>3. CASE WebSocketLost
  BY <1>1, <1>3, WebSocketLostEffect DEF Acks, StreamOver, SocketGone
<1>4. CASE Guest \/ UNCHANGED vars
  <2>1. UNCHANGED <<socket, stream, toRelay>>
    BY <1>4 DEF Guest, vars, Write, Shutdown, Close, Deliver, Dispatch, relayVars
  <2>. QED
    BY <1>2, <2>1
<1>5. CASE Connects \/ DialFails \/ OnData \/ OnEnd \/ Flush \/ OnClose \/ Reset
  BY <1>1, <1>2, <1>5, ConnectsEffect, DialFailsEffect, OnDataEffect, OnEndEffect, FlushEffect, OnCloseEffect,
     ResetEffect DEF SocketGone, Alike
<1>6. CASE PeerWrites \/ PeerEnds \/ PeerReadsEnd
  BY <1>1, <1>2, <1>6, PeerEffect
<1>. QED
  BY <1>3, <1>4, <1>5, <1>6, AcksKernel, AcksPacket, AcksRelayPacket DEF Next, Relay, Peer

-----------------------------------------------------------------------------
(* The window.                                                              *)

LEMMA WindowStep ==
  ASSUME IInv, [Next]_vars PROVE Window'
<1>1. /\ TypeOK /\ Window /\ socket.sent \in Nat /\ socket.acked \in Nat /\ guest.got \in Nat /\ peer.sent \in Nat
      /\ toRelay \in Seq(ToRelay)
  BY DEF IInv, TypeOK, Session, Handle, Program
<1>2. ASSUME guest'.got = guest.got, peer'.sent = peer.sent,
             socket'.sent = socket.sent, socket'.acked = socket.acked,
             socket'.exists => socket.exists /\ (~socket'.paused => ~socket.paused)
      PROVE  Window'
  BY <1>1, <1>2 DEF Window
<1>3. CASE Guest
  <2>1. UNCHANGED <<socket, peer>>
    BY <1>3 DEF Guest, Write, Shutdown, Close, Deliver, Dispatch, relayVars
  <2>2. CASE guest'.got = guest.got
    BY <1>2, <2>1, <2>2
  <2>3. CASE Deliver
    <3>1. PICK x : x = guest.inbox[1]
      OBVIOUS
    <3>2. CASE x \in Chunks
      BY <1>1, <2>1, <2>3, <3>1, <3>2, DeliverEffect, NextChunk DEF Window
    <3>3. CASE x \notin Chunks
      BY <1>1, <2>2, <2>3, <3>1, <3>3, DeliverEffect
    <3>. QED
      BY <3>2, <3>3
  <2>4. CASE Write \/ Shutdown \/ Close
    BY <1>1, <2>2, <2>4, WriteEffect, ShutdownEffect, CloseEffect DEF ReaderSame
  <2>5. CASE Dispatch
    <3>1. PICK m : m = Head(toGuest)
      OBVIOUS
    <3>. QED
      BY <1>1, <2>2, <2>5, <3>1, DispatchEffect
  <2>. QED
    BY <1>3, <2>3, <2>4, <2>5 DEF Guest
<1>4. CASE FromGuest \/ OnPacket \/ UNCHANGED vars
  <2>1. UNCHANGED <<guest, socket, peer>>
    BY <1>4 DEF FromGuest, OnPacket, vars
  <2>. QED
    BY <1>2, <2>1
<1>5. CASE OnRelayPacket
  <2>1. PICK m : m = Head(toRelay)
    OBVIOUS
  <2>2. /\ toRelay # <<>> /\ m \in ToRelay /\ m = toRelay[1] /\ UNCHANGED <<guest, peer>>
        /\ RConnect(m) \/ RDrop(m) \/ RData(m) \/ RRefuse(m) \/ RShutdown(m) \/ RAck(m) \/ RClose(m)
    BY <1>1, <1>5, <2>1, RelayReads, Zenon
  <2>3. 1 \in 1..Len(toRelay)
    BY <1>1, <2>2, Taken
  <2>4. CASE RConnect(m)
    <3>1. Untouched
      BY <2>2, <2>3, <2>4 DEF RConnect, IInv, Fresh, Untouched, Has
    <3>2. guest.got = 0 /\ peer.sent = 0
      BY <3>1 DEF IInv, Fresh
    <3>. QED
      BY <2>2, <2>4, <3>2, Numbers DEF RConnect, Window
  <2>5. CASE RAck(m)
    <3>1. socket.acked <= m.n /\ m.n \in Nat
      BY <2>2, <2>3, <2>5, Kinds DEF RAck, IInv, Acks
    <3>2. /\ socket.exists /\ socket'.sent = socket.sent /\ socket'.acked = m.n
          /\ ~socket'.paused => ~socket.paused \/ socket.sent - m.n < RELAY_WINDOW
      BY <1>1, <2>5, <3>1, Numbers DEF RAck, Full
    <3>3. /\ socket.sent - m.n <= socket.sent - socket.acked
          /\ socket.sent - socket.acked <= RELAY_WINDOW
          /\ ~socket.paused => socket.sent - socket.acked < RELAY_WINDOW
      BY <1>1, <3>1, <3>2 DEF Window
    <3>4. /\ socket'.sent - socket'.acked <= RELAY_WINDOW
          /\ ~socket'.paused => socket'.sent - socket'.acked < RELAY_WINDOW
      BY <1>1, <3>1, <3>2, <3>3, Numbers
    <3>. QED
      BY <1>1, <2>2, <3>2, <3>4 DEF Window
  <2>6. CASE RDrop(m) \/ RData(m) \/ RRefuse(m) \/ RShutdown(m) \/ RClose(m)
    BY <1>2, <2>2, <2>6 DEF RDrop, RData, RRefuse, RShutdown, RClose, Accounts, Ends, SocketGone
  <2>. QED
    BY <2>2, <2>4, <2>5, <2>6
<1>6. CASE OnData
  <2>1. /\ socket.exists /\ ~socket.paused /\ socket.sent < peer.sent /\ UNCHANGED <<guest, peer>>
        /\ socket'.sent = socket.sent + 1 /\ socket'.acked = socket.acked
        /\ ~socket'.paused => socket.sent + 1 - socket.acked < RELAY_WINDOW
    <3>1. /\ socket.exists /\ ~socket.paused /\ socket.sent < peer.sent /\ UNCHANGED <<guest, peer>>
          /\ socket'.sent = socket.sent + 1 /\ socket'.acked = socket.acked
          /\ socket'.paused = Full(socket.sent + 1, socket.acked)
      BY <1>1, <1>6, OnDataEffect
    <3>2. ~socket'.paused => ~Full(socket.sent + 1, socket.acked)
      BY <3>1, Zenon
    <3>3. ~Full(socket.sent + 1, socket.acked) => socket.sent + 1 - socket.acked < RELAY_WINDOW
      BY <1>1, Numbers DEF Full
    <3>. QED
      BY <3>1, <3>2, <3>3
  <2>2. socket.sent - socket.acked < RELAY_WINDOW
    BY <2>1, <1>1 DEF Window
  <2>. QED
    BY <1>1, <2>1, <2>2, Numbers DEF Window
<1>7. CASE PeerWrites \/ PeerEnds \/ PeerReadsEnd
  <2>1. UNCHANGED <<guest, socket>> /\ (peer'.sent = peer.sent \/ peer'.sent = peer.sent + 1)
    BY <1>1, <1>7, PeerEffect
  <2>. QED
    BY <1>1, <2>1 DEF Window
<1>8. CASE Connects \/ DialFails \/ OnEnd \/ OnClose \/ Reset \/ WebSocketLost
  BY <1>1, <1>2, <1>8, ConnectsEffect, DialFailsEffect, OnEndEffect, OnCloseEffect, ResetEffect,
     WebSocketLostEffect DEF SocketGone
<1>9. CASE Flush
  <2>1. peer'.sent = peer.sent
    BY <1>1, <1>9, FlushEffect DEF TypeOK, Program
  <2>. QED
    BY <1>1, <1>2, <1>9, <2>1, FlushEffect DEF Alike
<1>. QED
  BY <1>3, <1>4, <1>5, <1>6, <1>7, <1>8, <1>9 DEF Next, Relay, Peer

-----------------------------------------------------------------------------
(* Outwards: the chunks.                                                    *)

LEMMA RunAdded ==
  ASSUME NEW s \in Seq(Nat), NEW lo \in Nat, Run(s, lo), NEW x \in Nat, x = lo + Len(s) + 1
  PROVE  Run(Append(s, x), lo) /\ Len(Append(s, x)) = Len(s) + 1
BY Added DEF Run

LEMMA RunTaken ==
  ASSUME NEW s \in Seq(Nat), NEW lo \in Nat, Run(s, lo), s # <<>>
  PROVE  Head(s) = lo + 1 /\ Run(Tail(s), lo + 1) /\ Len(Tail(s)) = Len(s) - 1
<1>1. /\ Head(s) = s[1] /\ 1 \in 1..Len(s) /\ Len(Tail(s)) = Len(s) - 1
      /\ \A i \in 1..Len(Tail(s)) : Tail(s)[i] = s[i + 1] /\ i + 1 \in 1..Len(s)
  BY Taken
<1>2. Head(s) = lo + 1
  BY <1>1 DEF Run
<1>3. ASSUME NEW i \in 1..Len(Tail(s)) PROVE Tail(s)[i] = lo + 1 + i
  <2>1. Tail(s)[i] = lo + (i + 1)
    BY <1>1 DEF Run
  <2>. QED
    BY <2>1
<1>. QED
  BY <1>1, <1>2, <1>3 DEF Run

LEMMA RunNone == \A lo : Run(<<>>, lo)
BY DEF Run

(* The sizes the chain is made of. *)
Sizes ==
  /\ guest.sent \in Nat /\ peer.got \in Nat /\ Len(socket.out) \in Nat /\ Len(stream.sendq) \in Nat
  /\ socket.out \in Seq(Nat) /\ stream.sendq \in Seq(Nat)
  /\ toRelay \in Seq(ToRelay) /\ toKernel \in Seq(ToKernel)
  /\ mapped \in BOOLEAN

LEMMA SizesType == TypeOK => Sizes
<1>. SUFFICES ASSUME TypeOK PROVE Sizes
  OBVIOUS
<1>1. socket.out \in Seq(Chunks) /\ stream.sendq \in Seq(Chunks)
  BY DEF TypeOK, Session, Record
<1>2. \A s \in Seq(Chunks) : s \in Seq(Nat)
  <2> TAKE s \in Seq(Chunks)
  <2>1. Len(s) \in Nat /\ s \in [1..Len(s) -> Chunks]
    OBVIOUS
  <2>2. s \in [1..Len(s) -> Nat]
    BY <2>1, Numbers
  <2>. QED
    BY <2>1, <2>2
<1>3. guest.sent \in Nat /\ peer.got \in Nat
  BY Numbers DEF TypeOK, Handle, Program
<1>. QED
  BY <1>1, <1>2, <1>3 DEF Sizes, TypeOK

OutChain == \E b \in 0..guest.sent : Outwards(b)

LEMMA OutGuest ==
  ASSUME IInv, Guest, OutChain PROVE OutChain'
<1>1. TypeOK /\ Sizes
  BY SizesType DEF IInv
<1>2. PICK b \in 0..guest.sent : Outwards(b)
  BY DEF OutChain
<1>0. PICK lo : lo = b + Len(stream.sendq)
  OBVIOUS
<1>a. /\ lo \in Nat /\ guest.sent \in Nat /\ lo <= guest.sent /\ toKernel \in Seq(ToKernel)
      /\ mapped => Carries(toKernel, "pipe-data", lo, guest.sent)
  BY <1>0, <1>1, <1>2 DEF Outwards, Sizes
<1>b. \A x \in ToKernel : x.n \in Nat
  BY Kinds
<1>3. ASSUME NEW x \in ToKernel, x.type # "pipe-data", toKernel' = toKernel \/ toKernel' = Append(toKernel, x),
             guest'.sent = guest.sent, UNCHANGED <<mapped, stream, toRelay, socket, peer>>
      PROVE  OutChain'
  <2>1. mapped => Carries(toKernel', "pipe-data", lo, guest.sent)
    <3>1. mapped => Carries(Append(toKernel, x), "pipe-data", lo, guest.sent)
      BY <1>a, <1>b, <1>3, CarriesAdded, Zenon
    <3>. QED
      BY <1>a, <1>3, <3>1
  <2>. QED
    BY <1>0, <1>2, <1>3, <2>1 DEF Outwards, OutChain
<1>4. CASE Write
  <2>1. PICK x : x = Pkt("pipe-data", guest.sent + 1)
    OBVIOUS
  <2>2. /\ toKernel' = Append(toKernel, x) /\ guest'.sent = guest.sent + 1
        /\ x \in ToKernel /\ x.type = "pipe-data" /\ x.n = guest.sent + 1
        /\ UNCHANGED <<mapped, stream, toRelay, socket, peer>>
    BY <1>1, <1>4, <2>1, WriteEffect, Fields
  <2>3. mapped => Carries(toKernel', "pipe-data", lo, guest.sent + 1)
    <3>1. mapped => Carries(Append(toKernel, x), "pipe-data", lo, guest.sent + 1)
      BY <1>a, <1>b, <2>2, CarriesAdded, Zenon
    <3>. QED
      BY <2>2, <3>1
  <2>4. b + Len(stream.sendq) <= guest.sent + 1 /\ b \in 0..guest.sent + 1
    BY <1>1, <1>2 DEF Outwards, Sizes
  <2>. QED
    BY <1>0, <1>2, <2>2, <2>3, <2>4 DEF Outwards, OutChain
<1>5. /\ Pkt("pipe-shutdown", 0) \in ToKernel /\ Pkt("pipe-shutdown", 0).type # "pipe-data"
      /\ Pkt("pipe-close", 0) \in ToKernel /\ Pkt("pipe-close", 0).type # "pipe-data"
      /\ Pkt("pipe-read", 1) \in ToKernel /\ Pkt("pipe-read", 1).type # "pipe-data"
  BY Sendable, Fields
<1>6. CASE Shutdown
  BY <1>1, <1>3, <1>5, <1>6, ShutdownEffect
<1>7. CASE Close
  BY <1>1, <1>3, <1>5, <1>7, CloseEffect DEF WriterSame
<1>8. CASE Deliver
  <2>1. PICK x : x = guest.inbox[1]
    OBVIOUS
  <2>. QED
    BY <1>1, <1>3, <1>5, <1>8, <2>1, DeliverEffect DEF WriterSame
<1>9. CASE Dispatch
  <2>1. PICK m : m = Head(toGuest)
    OBVIOUS
  <2>. QED
    BY <1>1, <1>3, <1>5, <1>9, <2>1, DispatchEffect DEF WriterSame
<1>. QED
  BY <1>4, <1>6, <1>7, <1>8, <1>9 DEF Guest

(* _drain moves chunks from one link of the chain to the next. *)
LEMMA OutDrain ==
  ASSUME TypeOK, Sizes, NEW q \in Seq(Nat), NEW pend, Drain(q, pend), NEW b \in Nat,
         Run(socket.out, peer.got), Carries(toRelay, "DATA", peer.got + Len(socket.out), b),
         Run(q, b), b + Len(q) <= guest.sent,
         mapped => Carries(toKernel', "pipe-data", b + Len(q), guest.sent),
         UNCHANGED <<guest, mapped, socket, peer>>
  PROVE  OutChain'
<1>1. PICK c \in Nat : /\ Carries(toRelay', "DATA", peer.got + Len(socket.out), c) /\ Run(stream'.sendq, c)
                       /\ c + Len(stream'.sendq) = b + Len(q) /\ c <= b + Len(q)
  <2>1. peer.got + Len(socket.out) \in Nat
    BY DEF Sizes
  <2>. QED
    BY <2>1, Drains2
<1>2. c \in 0..guest.sent
  BY <1>1 DEF Sizes
<1>. QED
  BY <1>1, <1>2 DEF OutChain, Outwards

LEMMA OutKernel ==
  ASSUME IInv, FromGuest, OutChain PROVE OutChain'
<1>1. TypeOK /\ Sizes
  BY SizesType DEF IInv
<1>2. PICK b \in 0..guest.sent : Outwards(b)
  BY DEF OutChain
<1>3. PICK m : m = Head(toKernel)
  OBVIOUS
<1>4. /\ toKernel # <<>> /\ toKernel' = Tail(toKernel) /\ m \in ToKernel
      /\ UNCHANGED <<guest, socket, peer>>
      /\ KDrop(m) \/ KData(m) \/ KRead(m) \/ KShutdown(m) \/ KClose(m)
  BY <1>1, <1>3, KernelReads, Zenon
<1>5. b \in Nat /\ b + Len(stream.sendq) \in Nat /\ b + Len(stream.sendq) <= guest.sent
  BY <1>1, <1>2 DEF Sizes, Outwards
<1>6. mapped =>
        /\ m.type # "pipe-data" => Carries(toKernel', "pipe-data", b + Len(stream.sendq), guest.sent)
        /\ m.type = "pipe-data" => /\ m.n = b + Len(stream.sendq) + 1 /\ b + Len(stream.sendq) < guest.sent
                                   /\ Carries(toKernel', "pipe-data", b + Len(stream.sendq) + 1, guest.sent)
  <2>1. PICK lo : lo = b + Len(stream.sendq)
    OBVIOUS
  <2>2. PICK hi : hi = guest.sent
    OBVIOUS
  <2>3. lo \in Nat /\ hi \in Nat /\ toKernel \in Seq(ToKernel) /\ \A x \in ToKernel : x.n \in Nat
    BY <1>1, <1>5, <2>1, <2>2, Kinds DEF Sizes
  <2>4. mapped => Carries(toKernel, "pipe-data", lo, hi)
    BY <1>2, <2>1, <2>2 DEF Outwards
  <2>5. mapped =>
          /\ Head(toKernel).type # "pipe-data" => Carries(Tail(toKernel), "pipe-data", lo, hi)
          /\ Head(toKernel).type = "pipe-data" =>
               Head(toKernel).n = lo + 1 /\ lo < hi /\ Carries(Tail(toKernel), "pipe-data", lo + 1, hi)
    BY <1>4, <2>3, <2>4, CarriesTaken, Zenon
  <2>. QED
    BY <1>3, <1>4, <2>1, <2>2, <2>5
<1>7. CASE KDrop(m)
  BY <1>1, <1>2, <1>4, <1>7 DEF KDrop, OutChain, Outwards
<1>8. CASE KData(m)
  <2>1. PICK q : q = Append(stream.sendq, m.n)
    OBVIOUS
  <2>2. m.n = b + Len(stream.sendq) + 1 /\ m.n \in Nat /\ mapped
    BY <1>4, <1>6, <1>8, Kinds DEF KData
  <2>3. Run(q, b) /\ Len(q) = Len(stream.sendq) + 1 /\ q \in Seq(Nat)
    <3>1. stream.sendq \in Seq(Nat) /\ Run(stream.sendq, b)
      BY <1>1, <1>2 DEF Sizes, Outwards
    <3>2. Run(Append(stream.sendq, m.n), b) /\ Len(Append(stream.sendq, m.n)) = Len(stream.sendq) + 1
      BY <1>5, <2>2, <3>1, RunAdded
    <3>3. Append(stream.sendq, m.n) \in Seq(Nat)
      BY <2>2, <3>1, Added
    <3>. QED
      BY <2>1, <3>2, <3>3
  <2>4. b + Len(q) = b + Len(stream.sendq) + 1 /\ b + Len(q) <= guest.sent
    BY <1>1, <1>5, <1>6, <1>8, <2>3 DEF KData, Sizes
  <2>. QED
    BY <1>1, <1>2, <1>4, <1>5, <1>6, <1>8, <2>1, <2>3, <2>4, OutDrain DEF KData, Outwards
<1>9. CASE KShutdown(m)
  BY <1>1, <1>2, <1>4, <1>5, <1>6, <1>9, OutDrain DEF KShutdown, Outwards, Sizes
<1>10. ASSUME NEW x \in ToRelay, x.type # "DATA", toRelay' = toRelay \/ toRelay' = Append(toRelay, x)
       PROVE  Carries(toRelay', "DATA", peer.got + Len(socket.out), b)
  <2>1. peer.got + Len(socket.out) \in Nat
    BY <1>1 DEF Sizes
  <2>. QED
    BY <1>1, <1>2, <1>5, <1>10, <2>1, CarriesAdded, Kinds DEF Outwards, Sizes
<1>11. CASE KRead(m)
  <2>1. stream'.consumed \in Nat
    BY <1>11 DEF KRead, Counts, Record
  <2>2. Pkt("ACK", stream'.consumed) \in ToRelay /\ Pkt("ACK", stream'.consumed).type # "DATA"
    BY <2>1, Sendable, Fields
  <2>3. Carries(toRelay', "DATA", peer.got + Len(socket.out), b)
    BY <1>10, <1>11, <2>2 DEF KRead, Counts
  <2>. QED
    BY <1>2, <1>4, <1>6, <1>11, <2>3 DEF KRead, Counts, OutChain, Outwards
<1>12. CASE KClose(m)
  <2>1. Pkt("CLOSE", 0) \in ToRelay /\ Pkt("CLOSE", 0).type # "DATA"
    BY Sendable, Fields
  <2>2. Carries(toRelay', "DATA", peer.got + Len(socket.out), b)
    BY <1>10, <1>12, <2>1 DEF KClose
  <2>3. Run(stream'.sendq, b) /\ b + Len(stream'.sendq) <= guest.sent /\ ~mapped'
    BY <1>1, <1>5, <1>12, RunNone DEF KClose, StreamOver, Sizes
  <2>. QED
    BY <1>2, <1>4, <2>2, <2>3 DEF OutChain, Outwards
<1>. QED
  BY <1>4, <1>7, <1>8, <1>9, <1>11, <1>12

LEMMA OutPacket ==
  ASSUME IInv, OnPacket, OutChain PROVE OutChain'
<1>1. TypeOK /\ Sizes
  BY SizesType DEF IInv
<1>2. PICK b \in 0..guest.sent : Outwards(b)
  BY DEF OutChain
<1>3. PICK m : m = Head(toClient)
  OBVIOUS
<1>4. /\ UNCHANGED <<guest, toKernel, socket, peer>>
      /\ CDrop(m) \/ CContinue(m) \/ CData(m) \/ CShutdown(m) \/ CConnected(m) \/ CClose(m)
  BY <1>1, <1>3, PacketReads, Zenon
<1>5. CASE CContinue(m)
  <2>1. /\ Run(socket.out, peer.got) /\ Carries(toRelay, "DATA", peer.got + Len(socket.out), b)
        /\ Run(stream.sendq, b) /\ b + Len(stream.sendq) <= guest.sent /\ b \in Nat
        /\ UNCHANGED <<mapped, toKernel>> /\ stream.sendq \in Seq(Nat)
        /\ mapped => Carries(toKernel, "pipe-data", b + Len(stream.sendq), guest.sent)
    BY <1>1, <1>2, <1>4, <1>5 DEF CContinue, Outwards, Sizes
  <2>2. Drain(stream.sendq, stream.shutdownPending)
    BY <1>5 DEF CContinue
  <2>. QED
    BY <1>1, <1>4, <2>1, <2>2, OutDrain
<1>6. CASE CDrop(m) \/ CData(m) \/ CShutdown(m) \/ CConnected(m)
  <2>1. UNCHANGED <<mapped, toRelay>> /\ stream'.sendq = stream.sendq
    BY <1>6 DEF CDrop, CData, CShutdown, CConnected, StreamSame
  <2>. QED
    BY <1>2, <1>4, <2>1 DEF OutChain, Outwards
<1>7. CASE CClose(m)
  <2>1. Run(stream'.sendq, b) /\ b + Len(stream'.sendq) <= guest.sent /\ ~mapped' /\ UNCHANGED toRelay
    BY <1>1, <1>7, RunNone DEF CClose, StreamOver, Sizes
  <2>. QED
    BY <1>2, <1>4, <2>1 DEF OutChain, Outwards
<1>. QED
  BY <1>4, <1>5, <1>6, <1>7

LEMMA OutRelayPacket ==
  ASSUME IInv, OnRelayPacket, OutFlow PROVE OutFlow'
<1>1. TypeOK /\ Sizes
  BY SizesType DEF IInv
<1>2. PICK m : m = Head(toRelay)
  OBVIOUS
<1>3. /\ toRelay # <<>> /\ toRelay' = Tail(toRelay) /\ m \in ToRelay /\ m = toRelay[1]
      /\ UNCHANGED <<guest, toKernel, mapped, stream, peer>>
      /\ RConnect(m) \/ RDrop(m) \/ RData(m) \/ RRefuse(m) \/ RShutdown(m) \/ RAck(m) \/ RClose(m)
  BY <1>1, <1>2, RelayReads, Zenon
<1>4. /\ Has(toRelay, "CONNECT") <=> m.type = "CONNECT" \/ Has(toRelay', "CONNECT")
      /\ 1 \in 1..Len(toRelay)
  BY <1>1, <1>2, <1>3, HasTaken, Taken DEF Sizes
<1>5. SUFFICES ASSUME socket'.exists \/ Has(toRelay', "CONNECT") PROVE OutChain'
  BY DEF OutFlow, OutChain
<1>6. socket.exists \/ Has(toRelay, "CONNECT")
  BY <1>3, <1>4, <1>5 DEF RConnect, RDrop, RData, RRefuse, RShutdown, RAck, RClose
<1>7. PICK b \in 0..guest.sent : Outwards(b)
  BY <1>6 DEF OutFlow
<1>8. PICK lo : lo = peer.got + Len(socket.out)
  OBVIOUS
<1>9. lo \in Nat /\ b \in Nat
  BY <1>1, <1>8 DEF Sizes
<1>10. /\ m.type # "DATA" => Carries(toRelay', "DATA", lo, b)
       /\ m.type = "DATA" => m.n = lo + 1 /\ Carries(toRelay', "DATA", lo + 1, b)
  <2>1. toRelay \in Seq(ToRelay) /\ Carries(toRelay, "DATA", lo, b)
    BY <1>1, <1>7, <1>8 DEF Sizes, Outwards
  <2>2. \A x \in ToRelay : x.n \in Nat
    BY Kinds
  <2>3. /\ Head(toRelay).type # "DATA" => Carries(Tail(toRelay), "DATA", lo, b)
        /\ Head(toRelay).type = "DATA" => Head(toRelay).n = lo + 1 /\ Carries(Tail(toRelay), "DATA", lo + 1, b)
    BY <1>3, <1>9, <2>1, <2>2, CarriesTaken, Zenon
  <2>. QED
    BY <1>2, <1>3, <2>3
<1>11. CASE RData(m)
  <2>1. PICK o : o = Append(socket.out, m.n)
    OBVIOUS
  <2>2. Run(o, peer.got) /\ Len(o) = Len(socket.out) + 1
    BY <1>1, <1>7, <1>8, <1>10, <1>11, <2>1, RunAdded, <1>3, Kinds DEF RData, Sizes, Outwards
  <2>3. peer.got + Len(o) = lo + 1
    BY <1>1, <1>8, <2>2 DEF Sizes
  <2>. QED
    BY <1>3, <1>7, <1>10, <1>11, <2>1, <2>2, <2>3 DEF RData, OutChain, Outwards
<1>12. CASE m.type # "DATA" /\ socket'.out = socket.out
  BY <1>3, <1>7, <1>8, <1>10, <1>12 DEF OutChain, Outwards
<1>13. CASE RConnect(m)
  <2>1. ~socket.exists /\ socket.out = <<>>
    BY <1>3, <1>4, <1>13 DEF RConnect, IInv, Fresh, OutCut
  <2>. QED
    BY <1>12, <1>13, <2>1 DEF RConnect
<1>14. CASE RDrop(m)
  <2>1. Untouched
    BY <1>6, <1>14 DEF RDrop, Untouched, IInv, Fresh
  <2>2. m.type # "DATA"
    BY <1>3, <1>4, <2>1, Silent
  <2>. QED
    BY <1>12, <1>14, <2>2 DEF RDrop
<1>15. CASE RRefuse(m) \/ RClose(m)
  BY <1>4, <1>5, <1>15 DEF RRefuse, RClose, SocketGone, IInv, Fresh
<1>. QED
  BY <1>3, <1>11, <1>12, <1>13, <1>14, <1>15 DEF RShutdown, RAck

LEMMA OutFlowStep ==
  ASSUME IInv, [Next]_vars PROVE OutFlow'
<1>1. TypeOK /\ Sizes /\ OutFlow /\ Fresh
  BY SizesType DEF IInv
<1>2. ASSUME socket'.exists => socket.exists, Has(toRelay', "CONNECT") => Has(toRelay, "CONNECT"),
             OutChain => OutChain'
      PROVE  OutFlow'
  BY <1>1, <1>2 DEF OutFlow, OutChain
<1>3. CASE Guest
  <2>1. UNCHANGED <<socket, toRelay>>
    BY <1>3 DEF Guest, Write, Shutdown, Close, Deliver, Dispatch, relayVars
  <2>. QED
    BY <1>2, <1>3, <2>1, OutGuest
<1>4. CASE FromGuest
  <2>1. UNCHANGED socket
    BY <1>4 DEF FromGuest
  <2>. QED
    BY <1>1, <1>2, <1>4, <2>1, OutKernel, NoNewConnect
<1>5. CASE OnPacket
  <2>1. UNCHANGED socket
    BY <1>5 DEF OnPacket
  <2>. QED
    BY <1>1, <1>2, <1>5, <2>1, OutPacket, NoNewConnect
<1>6. ASSUME socket'.exists = socket.exists, socket'.out = socket.out, peer'.got = peer.got,
             UNCHANGED <<guest, toKernel, mapped, stream, toRelay>>
      PROVE  OutFlow'
  BY <1>1, <1>6 DEF OutFlow, Outwards
<1>7. CASE DialFails \/ OnClose \/ Reset
  <2>1. ~socket'.exists /\ ~Has(toRelay', "CONNECT")
    BY <1>1, <1>7, DialFailsEffect, OnCloseEffect, ResetEffect DEF SocketGone, Fresh
  <2>. QED
    BY <2>1 DEF OutFlow
<1>8. CASE WebSocketLost
  BY <1>1, <1>8, WebSocketLostEffect, HasNothing DEF SocketGone, OutFlow
<1>9. CASE Connects \/ OnData \/ OnEnd
  <2>1. /\ socket'.exists = socket.exists /\ socket'.out = socket.out
        /\ UNCHANGED <<guest, toKernel, mapped, stream, toRelay, peer>>
    <3>1. CASE Connects
      BY <1>1, <3>1, ConnectsEffect DEF Connects, TypeOK, Session
    <3>2. CASE OnData
      BY <1>1, <3>2 DEF OnData, vmVars, TypeOK, Session
    <3>3. CASE OnEnd
      BY <1>1, <3>3 DEF OnEnd, vmVars, TypeOK, Session
    <3>. QED
      BY <1>9, <3>1, <3>2, <3>3
  <2>. QED
    BY <1>6, <2>1
<1>10. CASE PeerWrites \/ PeerEnds \/ PeerReadsEnd
  BY <1>1, <1>6, <1>10, PeerEffect
<1>11. CASE Flush
  <2>1. PICK b \in 0..guest.sent : Outwards(b)
    BY <1>1, <1>11, FlushEffect DEF OutFlow
  <2>2. /\ socket.out # <<>> /\ peer'.got = Head(socket.out) /\ socket'.out = Tail(socket.out)
        /\ UNCHANGED <<guest, toKernel, mapped, stream, toRelay>>
    <3>1. peer' = [peer EXCEPT !.got = Head(socket.out)] /\ peer \in Program
      BY <1>1, <1>11, FlushEffect DEF TypeOK
    <3>2. socket'.out = Tail(socket.out)
      BY <1>1, <1>11, FlushEffect DEF Alike, TypeOK, Session
    <3>3. socket.out # <<>> /\ UNCHANGED <<guest, toKernel, mapped, stream, toRelay>>
      BY <1>1, <1>11, FlushEffect
    <3>. QED
      BY <3>1, <3>2, <3>3 DEF Program
  <2>3. /\ peer'.got = peer.got + 1 /\ Run(socket'.out, peer.got + 1)
        /\ Len(socket'.out) = Len(socket.out) - 1
    BY <1>1, <2>1, <2>2, RunTaken DEF Outwards, Sizes
  <2>4. peer'.got + Len(socket'.out) = peer.got + Len(socket.out)
    BY <1>1, <2>3 DEF Sizes
  <2>. QED
    BY <2>1, <2>2, <2>3, <2>4 DEF OutFlow, Outwards
<1>12. CASE UNCHANGED vars
  BY <1>6, <1>12 DEF vars
<1>. QED
  BY <1>1, <1>3, <1>4, <1>5, <1>7, <1>8, <1>9, <1>10, <1>11, <1>12, OutRelayPacket DEF Next, Relay, Peer

-----------------------------------------------------------------------------
(* Outwards: the end.                                                       *)

LEMMA EndsGuest ==
  ASSUME IInv, Guest PROVE OutEnds'
<1>1. TypeOK /\ OutEnds /\ toKernel \in Seq(ToKernel)
  BY DEF IInv, TypeOK
<1>2. ASSUME NEW x \in ToKernel, toKernel' = Append(toKernel, x), x.type # "pipe-data",
             x.type = "pipe-shutdown" => guest'.writer = "ended", guest.writer = "ended" => guest'.writer = "ended",
             UNCHANGED <<stream, toRelay, socket>>
      PROVE  OutEnds'
  <2>1. \A t : Has(toKernel', t) <=> Has(toKernel, t) \/ x.type = t
    BY <1>1, <1>2, HasAdded
  <2>2. LastOf(toKernel', "pipe-shutdown", "pipe-data")
    BY <1>1, <1>2, LastOfAdded DEF OutEnds
  <2>. QED
    BY <1>1, <1>2, <2>1, <2>2 DEF OutEnds, HalfShut
<1>3. CASE Write
  <2>1. PICK x : x = Pkt("pipe-data", guest.sent + 1)
    OBVIOUS
  <2>2. /\ toKernel' = Append(toKernel, x) /\ guest'.writer = guest.writer /\ guest.writer = "open"
        /\ x \in ToKernel /\ x.type = "pipe-data" /\ UNCHANGED <<stream, toRelay, socket>>
    BY <1>1, <1>3, <2>1, WriteEffect, Fields
  <2>3. /\ ~Has(toKernel, "pipe-shutdown") /\ ~stream.shutdownPending /\ ~Has(toRelay, "SHUTDOWN") /\ ~HalfShut
    BY <1>1, <2>2 DEF OutEnds
  <2>4. ~Has(toKernel', "pipe-shutdown") /\ LastOf(toKernel', "pipe-shutdown", "pipe-data")
    BY <1>1, <2>2, <2>3, HasAdded, LastOfAdded DEF OutEnds
  <2>. QED
    BY <1>1, <2>2, <2>3, <2>4 DEF OutEnds, HalfShut
<1>5. /\ Pkt("pipe-shutdown", 0) \in ToKernel /\ Pkt("pipe-shutdown", 0).type = "pipe-shutdown"
      /\ Pkt("pipe-close", 0) \in ToKernel /\ Pkt("pipe-close", 0).type = "pipe-close"
      /\ Pkt("pipe-read", 1) \in ToKernel /\ Pkt("pipe-read", 1).type = "pipe-read"
  BY Sendable, Fields
<1>6. CASE Shutdown
  BY <1>1, <1>2, <1>5, <1>6, ShutdownEffect
<1>7. CASE Close
  BY <1>1, <1>2, <1>5, <1>7, CloseEffect DEF WriterSame
<1>8. CASE Deliver
  <2>1. PICK x : x = guest.inbox[1]
    OBVIOUS
  <2>2. CASE x \in Chunks
    BY <1>1, <1>2, <1>5, <1>8, <2>1, <2>2, DeliverEffect DEF WriterSame
  <2>3. CASE x \notin Chunks
    BY <1>1, <1>8, <2>1, <2>3, DeliverEffect DEF WriterSame, OutEnds, HalfShut
  <2>. QED
    BY <2>2, <2>3
<1>9. CASE Dispatch
  <2>1. PICK m : m = Head(toGuest)
    OBVIOUS
  <2>. QED
    BY <1>1, <1>9, <2>1, DispatchEffect DEF WriterSame, OutEnds, HalfShut
<1>. QED
  BY <1>3, <1>6, <1>7, <1>8, <1>9 DEF Guest

LEMMA EndsKernel ==
  ASSUME IInv, FromGuest PROVE OutEnds'
<1>1. TypeOK /\ OutEnds /\ toKernel \in Seq(ToKernel) /\ toRelay \in Seq(ToRelay)
  BY DEF IInv, TypeOK
<1>2. PICK m : m = Head(toKernel)
  OBVIOUS
<1>3. /\ toKernel # <<>> /\ toKernel' = Tail(toKernel) /\ UNCHANGED <<guest, socket>>
      /\ KDrop(m) \/ KData(m) \/ KRead(m) \/ KShutdown(m) \/ KClose(m)
  BY <1>1, <1>2, KernelReads, Zenon
<1>4. /\ \A t : Has(toKernel, t) <=> m.type = t \/ Has(toKernel', t)
      /\ LastOf(toKernel', "pipe-shutdown", "pipe-data")
      /\ m.type = "pipe-shutdown" => ~Has(toKernel', "pipe-data")
  <2>1. \A t : Has(toKernel, t) <=> Head(toKernel).type = t \/ Has(Tail(toKernel), t)
    BY <1>1, <1>3, HasTaken
  <2>2. /\ LastOf(Tail(toKernel), "pipe-shutdown", "pipe-data")
        /\ Head(toKernel).type = "pipe-shutdown" => ~Has(Tail(toKernel), "pipe-data")
    BY <1>1, <1>3, LastOfTaken DEF OutEnds
  <2>. QED
    BY <1>2, <1>3, <2>1, <2>2
<1>5. HalfShut' <=> HalfShut
  BY <1>3 DEF HalfShut
<1>6. CASE KDrop(m)
  BY <1>1, <1>3, <1>4, <1>5, <1>6 DEF OutEnds, KDrop
<1>7. CASE KData(m)
  <2>1. Drain(Append(stream.sendq, m.n), stream.shutdownPending)
    BY <1>7 DEF KData
  <2>2. ~stream.shutdownPending /\ ~Has(toRelay, "SHUTDOWN") /\ ~HalfShut
    BY <1>1, <1>4, <1>7 DEF KData, OutEnds
  <2>3. /\ ~stream'.shutdownPending /\ ~Has(toRelay', "SHUTDOWN")
    BY <1>1, <2>1, <2>2, Drains1
  <2>4. LastOf(toRelay', "SHUTDOWN", "DATA")
    BY <1>1, <2>1, <2>2, Drains2 DEF OutEnds
  <2>. QED
    BY <1>1, <1>3, <1>4, <1>5, <2>2, <2>3, <2>4 DEF OutEnds
<1>8. CASE KShutdown(m)
  <2>1. Drain(stream.sendq, TRUE)
    BY <1>8 DEF KShutdown
  <2>2. /\ Has(toRelay', "SHUTDOWN") => Has(toRelay, "SHUTDOWN") \/ stream'.sendq = <<>>
        /\ stream.sendq = <<>> => stream'.sendq = <<>>
        /\ stream.sendq = <<>> /\ ~Has(toRelay, "DATA") => ~Has(toRelay', "DATA")
    BY <1>1, <2>1, Drains1
  <2>3. LastOf(toRelay', "SHUTDOWN", "DATA")
    BY <1>1, <2>1, Drains2 DEF OutEnds
  <2>. QED
    BY <1>1, <1>3, <1>4, <1>5, <1>8, <2>2, <2>3 DEF OutEnds, KShutdown
<1>9. ASSUME NEW x \in ToRelay, x.type # "DATA", x.type # "SHUTDOWN",
             toRelay' = toRelay \/ toRelay' = Append(toRelay, x)
      PROVE  /\ LastOf(toRelay', "SHUTDOWN", "DATA") /\ Has(toRelay', "SHUTDOWN") = Has(toRelay, "SHUTDOWN")
             /\ Has(toRelay', "DATA") = Has(toRelay, "DATA")
  <2>1. CASE toRelay' = Append(toRelay, x)
    <3>1. LastOf(toRelay', "SHUTDOWN", "DATA")
      BY <1>1, <1>9, <2>1, LastOfAdded DEF OutEnds
    <3>2. /\ Has(toRelay', "SHUTDOWN") <=> Has(toRelay, "SHUTDOWN")
          /\ Has(toRelay', "DATA") <=> Has(toRelay, "DATA")
      BY <1>1, <1>9, <2>1, HasAdded
    <3>. QED
      BY <3>1, <3>2 DEF Has
  <2>. QED
    BY <1>1, <1>9, <2>1 DEF OutEnds
<1>10. CASE KRead(m)
  <2>1. stream'.consumed \in Nat
    BY <1>10 DEF KRead, Counts, Record
  <2>2. /\ Pkt("ACK", stream'.consumed) \in ToRelay /\ Pkt("ACK", stream'.consumed).type = "ACK"
    BY <2>1, Sendable, Fields
  <2>3. /\ LastOf(toRelay', "SHUTDOWN", "DATA") /\ Has(toRelay', "SHUTDOWN") = Has(toRelay, "SHUTDOWN")
        /\ Has(toRelay', "DATA") = Has(toRelay, "DATA")
    BY <1>9, <1>10, <2>2 DEF KRead, Counts
  <2>. QED
    BY <1>1, <1>3, <1>4, <1>5, <1>10, <2>3 DEF OutEnds, KRead, Counts
<1>11. CASE KClose(m)
  <2>1. Pkt("CLOSE", 0) \in ToRelay /\ Pkt("CLOSE", 0).type = "CLOSE"
    BY Sendable, Fields
  <2>2. /\ LastOf(toRelay', "SHUTDOWN", "DATA") /\ Has(toRelay', "SHUTDOWN") = Has(toRelay, "SHUTDOWN")
        /\ Has(toRelay', "DATA") = Has(toRelay, "DATA")
    BY <1>9, <1>11, <2>1 DEF KClose
  <2>. QED
    BY <1>1, <1>3, <1>4, <1>5, <1>11, <2>2 DEF OutEnds, KClose, StreamOver
<1>. QED
  BY <1>3, <1>6, <1>7, <1>8, <1>10, <1>11

LEMMA EndsPacket ==
  ASSUME IInv, OnPacket PROVE OutEnds'
<1>1. TypeOK /\ OutEnds
  BY DEF IInv
<1>2. PICK m : m = Head(toClient)
  OBVIOUS
<1>3. /\ UNCHANGED <<guest, toKernel, socket>>
      /\ CDrop(m) \/ CContinue(m) \/ CData(m) \/ CShutdown(m) \/ CConnected(m) \/ CClose(m)
  BY <1>1, <1>2, PacketReads, Zenon
<1>4. HalfShut' <=> HalfShut
  BY <1>3 DEF HalfShut
<1>5. CASE CContinue(m)
  <2>1. Drain(stream.sendq, stream.shutdownPending)
    BY <1>5 DEF CContinue
  <2>2. /\ stream'.shutdownPending => stream.shutdownPending
        /\ Has(toRelay', "SHUTDOWN") =>
             Has(toRelay, "SHUTDOWN") \/ (stream.shutdownPending /\ stream'.sendq = <<>>)
        /\ stream.sendq = <<>> => stream'.sendq = <<>>
        /\ stream.sendq = <<>> /\ ~Has(toRelay, "DATA") => ~Has(toRelay', "DATA")
    BY <1>1, <2>1, Drains1
  <2>3. LastOf(toRelay', "SHUTDOWN", "DATA")
    BY <1>1, <2>1, Drains2 DEF OutEnds
  <2>. QED
    BY <1>1, <1>3, <1>4, <2>2, <2>3 DEF OutEnds
<1>6. CASE CDrop(m) \/ CData(m) \/ CShutdown(m) \/ CConnected(m) \/ CClose(m)
  <2>1. /\ UNCHANGED toRelay /\ stream'.shutdownPending = stream.shutdownPending
        /\ stream.sendq = <<>> => stream'.sendq = <<>>
    BY <1>6 DEF CDrop, CData, CShutdown, CConnected, CClose, StreamSame, StreamOver
  <2>. QED
    BY <1>1, <1>3, <1>4, <2>1 DEF OutEnds
<1>. QED
  BY <1>3, <1>5, <1>6

LEMMA EndsRelayPacket ==
  ASSUME IInv, OnRelayPacket PROVE OutEnds'
<1>1. TypeOK /\ OutEnds /\ toRelay \in Seq(ToRelay)
  BY DEF IInv, TypeOK
<1>2. PICK m : m = Head(toRelay)
  OBVIOUS
<1>3. /\ toRelay # <<>> /\ toRelay' = Tail(toRelay)
      /\ UNCHANGED <<guest, toKernel, stream>>
      /\ RConnect(m) \/ RDrop(m) \/ RData(m) \/ RRefuse(m) \/ RShutdown(m) \/ RAck(m) \/ RClose(m)
  BY <1>1, <1>2, RelayReads, Zenon
<1>4. /\ \A t : Has(toRelay, t) <=> m.type = t \/ Has(toRelay', t)
      /\ LastOf(toRelay', "SHUTDOWN", "DATA")
      /\ m.type = "SHUTDOWN" => ~Has(toRelay', "DATA")
  <2>1. \A t : Has(toRelay, t) <=> Head(toRelay).type = t \/ Has(Tail(toRelay), t)
    BY <1>1, <1>3, HasTaken
  <2>2. /\ LastOf(Tail(toRelay), "SHUTDOWN", "DATA")
        /\ Head(toRelay).type = "SHUTDOWN" => ~Has(Tail(toRelay), "DATA")
    BY <1>1, <1>3, LastOfTaken DEF OutEnds
  <2>. QED
    BY <1>2, <1>3, <2>1, <2>2
<1>5. ASSUME HalfShut' => HalfShut \/ m.type = "SHUTDOWN" PROVE OutEnds'
  BY <1>1, <1>3, <1>4, <1>5 DEF OutEnds
<1>6. HalfShut' => HalfShut \/ m.type = "SHUTDOWN"
  BY <1>3 DEF HalfShut, RConnect, RDrop, RData, RRefuse, RShutdown, RAck, RClose, SocketGone, Ends
<1>. QED
  BY <1>5, <1>6

LEMMA OutEndsStep ==
  ASSUME IInv, [Next]_vars PROVE OutEnds'
<1>1. TypeOK /\ OutEnds
  BY DEF IInv
<1>2. ASSUME UNCHANGED <<guest, toKernel, stream, toRelay>>, HalfShut' => HalfShut PROVE OutEnds'
  BY <1>1, <1>2 DEF OutEnds
<1>3. CASE UNCHANGED vars
  BY <1>2, <1>3 DEF vars, HalfShut
<1>4. CASE Connects
  BY <1>1, <1>2, <1>4, ConnectsEffect DEF HalfShut
<1>5. CASE OnData
  BY <1>1, <1>2, <1>5, OnDataEffect DEF HalfShut
<1>6. CASE OnEnd
  BY <1>1, <1>2, <1>6, OnEndEffect DEF HalfShut
<1>7. CASE DialFails \/ OnClose \/ Reset
  BY <1>1, <1>2, <1>7, DialFailsEffect, OnCloseEffect, ResetEffect DEF HalfShut, SocketGone
<1>8. CASE Flush
  BY <1>1, <1>2, <1>8, FlushEffect DEF HalfShut, Alike, TypeOK, Session
<1>9. CASE PeerWrites \/ PeerEnds \/ PeerReadsEnd
  BY <1>1, <1>2, <1>9, PeerEffect DEF HalfShut
<1>10. CASE WebSocketLost
  <2>1. LastOf(<<>>, "SHUTDOWN", "DATA")
    BY DEF LastOf
  <2>. QED
    BY <1>1, <1>10, <2>1, WebSocketLostEffect, HasNothing DEF OutEnds, HalfShut, SocketGone, StreamOver
<1>. QED
  BY <1>3, <1>4, <1>5, <1>6, <1>7, <1>8, <1>9, <1>10, EndsGuest, EndsKernel, EndsPacket, EndsRelayPacket
  DEF Next, Relay, Peer

-----------------------------------------------------------------------------
(* Outwards: what was cut, and what the peer is told.                       *)

(* A guest that ended has nothing left on the way to the relay, once the    *)
(* relay has read the end.                                                  *)
LEMMA AllWritten ==
  ASSUME IInv, socket.exists, "out" \notin cut, guest.writer = "ended",
         ~Has(toKernel, "pipe-data"), stream.sendq = <<>>, ~Has(toRelay, "DATA")
  PROVE  peer.got + Len(socket.out) = guest.sent
<1>1. Sizes /\ Len(<<>>) = 0
  BY SizesType DEF IInv
<1>2. PICK b \in 0..guest.sent : Outwards(b)
  BY DEF IInv, OutFlow
<1>3. PICK lo : lo = peer.got + Len(socket.out)
  OBVIOUS
<1>4. lo \in Nat /\ b \in Nat /\ b + Len(stream.sendq) = b /\ guest.sent \in Nat
      /\ toRelay \in Seq(ToRelay) /\ toKernel \in Seq(ToKernel)
  BY <1>1, <1>3 DEF Sizes
<1>5. mapped
  BY DEF IInv, OutCut
<1>6. Carries(toRelay, "DATA", lo, b) /\ Carries(toKernel, "pipe-data", b, guest.sent)
  BY <1>2, <1>3, <1>4, <1>5 DEF Outwards
<1>7. lo = b
  BY <1>4, <1>6, CarriesNone, Kinds
<1>8. b = guest.sent
  BY <1>4, <1>6, CarriesNone, Kinds
<1>. QED
  BY <1>3, <1>7, <1>8

LEMMA CutGuest ==
  ASSUME IInv, Guest PROVE OutCut'
<1>1. TypeOK /\ OutCut /\ toKernel \in Seq(ToKernel)
  BY DEF IInv, TypeOK
<1>2. UNCHANGED <<mapped, stream, toRelay, socket, peer>>
  BY DEF Guest, Write, Shutdown, Close, Deliver, Dispatch, relayVars
<1>3. ASSUME NEW x \in ToKernel, toKernel' = toKernel \/ toKernel' = Append(toKernel, x), x.type # "pipe-close",
             guest'.sent = guest.sent, guest.writer = "ended" => guest'.writer = "ended", UNCHANGED cut
      PROVE  OutCut'
  <2>1. Has(toKernel', "pipe-close") => Has(toKernel, "pipe-close")
    BY <1>1, <1>3, HasAdded
  <2>. QED
    BY <1>1, <1>2, <1>3, <2>1 DEF OutCut
<1>4. /\ Pkt("pipe-shutdown", 0) \in ToKernel /\ Pkt("pipe-shutdown", 0).type = "pipe-shutdown"
      /\ Pkt("pipe-read", 1) \in ToKernel /\ Pkt("pipe-read", 1).type = "pipe-read"
  BY Sendable, Fields
<1>5. CASE Write
  <2>1. PICK x : x = Pkt("pipe-data", guest.sent + 1)
    OBVIOUS
  <2>2. /\ toKernel' = Append(toKernel, x) /\ guest'.writer = guest.writer /\ guest.writer = "open"
        /\ x \in ToKernel /\ x.type = "pipe-data" /\ UNCHANGED cut
    BY <1>1, <1>5, <2>1, WriteEffect, Fields
  <2>3. Has(toKernel', "pipe-close") => Has(toKernel, "pipe-close")
    BY <1>1, <2>2, HasAdded
  <2>. QED
    BY <1>1, <1>2, <2>2, <2>3 DEF OutCut
<1>6. CASE Shutdown
  BY <1>1, <1>3, <1>4, <1>6, ShutdownEffect
<1>7. CASE Close
  <2>1. "out" \in cut'
    BY <1>1, <1>7, CloseEffect
  <2>. QED
    BY <1>1, <1>2, <2>1 DEF OutCut
<1>8. CASE Deliver
  <2>1. PICK x : x = guest.inbox[1]
    OBVIOUS
  <2>. QED
    BY <1>1, <1>3, <1>4, <1>8, <2>1, DeliverEffect DEF WriterSame
<1>9. CASE Dispatch
  <2>1. PICK m : m = Head(toGuest)
    OBVIOUS
  <2>. QED
    BY <1>1, <1>9, <2>1, DispatchEffect DEF WriterSame, OutCut
<1>. QED
  BY <1>5, <1>6, <1>7, <1>8, <1>9 DEF Guest

LEMMA CutKernel ==
  ASSUME IInv, FromGuest PROVE OutCut'
<1>1. TypeOK /\ OutCut /\ toKernel \in Seq(ToKernel) /\ toRelay \in Seq(ToRelay)
  BY DEF IInv, TypeOK
<1>2. PICK m : m = Head(toKernel)
  OBVIOUS
<1>3. /\ toKernel # <<>> /\ toKernel' = Tail(toKernel) /\ UNCHANGED <<guest, socket, peer, cut>>
      /\ KDrop(m) \/ KData(m) \/ KRead(m) \/ KShutdown(m) \/ KClose(m)
  BY <1>1, <1>2, KernelReads, Zenon
<1>4. Has(toKernel, "pipe-close") <=> m.type = "pipe-close" \/ Has(toKernel', "pipe-close")
  BY <1>1, <1>2, <1>3, HasTaken
<1>5. ASSUME Has(toRelay', "CLOSE") => Has(toRelay, "CLOSE"), UNCHANGED mapped PROVE OutCut'
  BY <1>1, <1>3, <1>4, <1>5, NoNewConnect DEF OutCut
<1>6. CASE KDrop(m)
  BY <1>5, <1>6 DEF KDrop
<1>7. CASE KData(m) \/ KShutdown(m)
  BY <1>1, <1>5, <1>7, Drains1 DEF KData, KShutdown
<1>8. CASE KRead(m)
  <2>1. stream'.consumed \in Nat
    BY <1>8 DEF KRead, Counts, Record
  <2>2. /\ Pkt("ACK", stream'.consumed) \in ToRelay /\ Pkt("ACK", stream'.consumed).type = "ACK"
    BY <2>1, Sendable, Fields
  <2>3. UNCHANGED mapped /\ (toRelay' = toRelay \/ toRelay' = Append(toRelay, Pkt("ACK", stream'.consumed)))
    BY <1>8 DEF KRead, Counts
  <2>4. Has(Append(toRelay, Pkt("ACK", stream'.consumed)), "CLOSE") => Has(toRelay, "CLOSE")
    BY <1>1, <2>2, HasAdded
  <2>. QED
    BY <1>5, <2>3, <2>4
<1>9. CASE KClose(m)
  <2>1. "out" \in cut'
    BY <1>1, <1>3, <1>4, <1>9 DEF KClose, OutCut
  <2>. QED
    BY <1>1, <1>3, <2>1 DEF OutCut
<1>. QED
  BY <1>3, <1>6, <1>7, <1>8, <1>9

LEMMA CutPacket ==
  ASSUME IInv, OnPacket PROVE OutCut'
<1>1. TypeOK /\ OutCut
  BY DEF IInv
<1>2. PICK m : m = Head(toClient)
  OBVIOUS
<1>3. /\ UNCHANGED <<guest, toKernel, socket, peer, cut>> /\ toClient # <<>> /\ m = toClient[1]
      /\ CDrop(m) \/ CContinue(m) \/ CData(m) \/ CShutdown(m) \/ CConnected(m) \/ CClose(m)
  BY <1>1, <1>2, PacketReads, Zenon
<1>4. CASE CContinue(m)
  <2>1. UNCHANGED mapped /\ (Has(toRelay', "CLOSE") => Has(toRelay, "CLOSE"))
    BY <1>1, <1>4, Drains1 DEF CContinue
  <2>. QED
    BY <1>1, <1>3, <2>1, NoNewConnect DEF OutCut
<1>5. CASE CDrop(m) \/ CData(m) \/ CShutdown(m) \/ CConnected(m)
  BY <1>1, <1>3, <1>5 DEF OutCut, CDrop, CData, CShutdown, CConnected
<1>6. CASE CClose(m)
  <2>1. 1 \in 1..Len(toClient)
    BY <1>1, <1>3, Taken DEF TypeOK
  <2>2. ~socket.exists /\ ~Has(toRelay, "CONNECT")
    BY <1>3, <1>6, <2>1 DEF CClose, IInv, InEnds, Has
  <2>. QED
    BY <1>1, <1>3, <1>6, <2>2 DEF OutCut, CClose
<1>. QED
  BY <1>3, <1>4, <1>5, <1>6

LEMMA CutRelayPacket ==
  ASSUME IInv, OnRelayPacket PROVE OutCut'
<1>1. TypeOK /\ OutCut /\ toRelay \in Seq(ToRelay) /\ Sizes
  BY SizesType DEF IInv, TypeOK
<1>2. PICK m : m = Head(toRelay)
  OBVIOUS
<1>3. /\ toRelay # <<>> /\ toRelay' = Tail(toRelay) /\ m \in ToRelay /\ m = toRelay[1]
      /\ UNCHANGED <<guest, toKernel, mapped, stream, peer, cut>>
      /\ RConnect(m) \/ RDrop(m) \/ RData(m) \/ RRefuse(m) \/ RShutdown(m) \/ RAck(m) \/ RClose(m)
  BY <1>1, <1>2, RelayReads, Zenon
<1>4. \A t : Has(toRelay, t) <=> m.type = t \/ Has(toRelay', t)
  <2>1. \A t : Has(toRelay, t) <=> Head(toRelay).type = t \/ Has(Tail(toRelay), t)
    BY <1>1, <1>3, HasTaken
  <2>. QED
    BY <1>2, <1>3, <2>1
<1>5. CASE RConnect(m)
  <2>1. Untouched
    BY <1>4, <1>5 DEF RConnect, IInv, Fresh, Untouched
  <2>2. peer.reader = "reading"
    BY <2>1 DEF IInv, Fresh
  <2>. QED
    BY <1>1, <1>3, <1>4, <1>5, <2>2 DEF RConnect, OutCut
<1>6. CASE RDrop(m)
  BY <1>1, <1>3, <1>4, <1>6 DEF RDrop, OutCut
<1>7. CASE RData(m)
  BY <1>1, <1>3, <1>4, <1>7 DEF RData, OutCut, Ends
<1>8. CASE RRefuse(m)
  <2>1. Has(toRelay, "DATA") /\ socket.exists /\ socket.fin
    BY <1>4, <1>8 DEF RRefuse
  <2>2. socket.ended
    BY <2>1 DEF IInv, OutEnds, HalfShut
  <2>3. "out" \in cut \/ ~socket.connected
    <3>1. SUFFICES ASSUME "out" \notin cut, socket.connected PROVE FALSE
      OBVIOUS
    <3>2. peer.got + Len(socket.out) = guest.sent
      BY <1>1, <2>1, <3>1 DEF OutCut
    <3>3. PICK b \in 0..guest.sent : Outwards(b)
      BY <2>1 DEF IInv, OutFlow
    <3>4. Carries(toRelay, "DATA", guest.sent, b) /\ guest.sent <= b /\ b \in Nat /\ guest.sent \in Nat
      <4>1. Carries(toRelay, "DATA", guest.sent, b)
        BY <3>2, <3>3 DEF Outwards
      <4>2. guest.sent <= b
        BY <4>1 DEF Carries
      <4>. QED
        BY <1>1, <3>3, <4>1, <4>2 DEF Sizes
    <3>5. b = guest.sent
      BY <3>3, <3>4
    <3>. QED
      BY <1>1, <2>1, <3>4, <3>5, CarriesNone, Kinds
  <2>. QED
    BY <1>1, <1>3, <1>4, <1>8, <2>3 DEF RRefuse, SocketGone, OutCut
<1>9. CASE RShutdown(m)
  <2>1. /\ Has(toRelay, "SHUTDOWN") /\ guest.writer = "ended" /\ ~Has(toKernel, "pipe-data")
        /\ stream.sendq = <<>>
    BY <1>4, <1>9 DEF RShutdown, IInv, OutEnds
  <2>2. ~Has(toRelay, "DATA")
    <3>1. LastOf(toRelay, "SHUTDOWN", "DATA")
      BY DEF IInv, OutEnds
    <3>2. ~Has(toRelay', "DATA")
      BY <1>1, <1>2, <1>3, <1>9, <3>1, LastOfTaken DEF RShutdown
    <3>. QED
      BY <1>4, <1>9, <3>2 DEF RShutdown
  <2>3. "out" \notin cut => peer.got + Len(socket.out) = guest.sent
    BY <1>9, <2>1, <2>2, AllWritten DEF RShutdown
  <2>. QED
    BY <1>1, <1>3, <1>4, <1>9, <2>1, <2>3 DEF RShutdown, OutCut
<1>10. CASE RAck(m)
  BY <1>1, <1>3, <1>4, <1>10 DEF RAck, OutCut, Ends
<1>11. CASE RClose(m)
  <2>1. "out" \in cut
    BY <1>1, <1>4, <1>11 DEF RClose, OutCut
  <2>. QED
    BY <1>1, <1>3, <1>4, <1>11, <2>1 DEF RClose, SocketGone, OutCut
<1>. QED
  BY <1>3, <1>5, <1>6, <1>7, <1>8, <1>9, <1>10, <1>11

LEMMA OutCutStep ==
  ASSUME IInv, [Next]_vars PROVE OutCut'
<1>1. TypeOK /\ OutCut /\ Sizes
  BY SizesType DEF IInv
<1>2. CASE UNCHANGED vars
  BY <1>1, <1>2 DEF vars, OutCut
<1>3. CASE Connects
  <2>1. Untouched
    BY <1>1, <1>3, ConnectsEffect DEF Untouched
  <2>2. peer.reader = "reading" /\ ~socket.fin
    BY <2>1 DEF IInv, Fresh
  <2>. QED
    BY <1>1, <1>3, <2>2, ConnectsEffect DEF OutCut
<1>4. CASE DialFails
  BY <1>1, <1>4, DialFailsEffect DEF OutCut, SocketGone
<1>5. CASE OnData
  BY <1>1, <1>5, OnDataEffect DEF OutCut
<1>6. CASE OnEnd
  <2>1. CASE socket.fin
    BY <1>1, <1>6, <2>1, OnEndEffect DEF OutCut
  <2>2. CASE ~socket.fin
    BY <1>1, <1>6, <2>2, OnEndEffect DEF OutCut
  <2>. QED
    BY <2>1, <2>2
<1>7. CASE OnClose
  <2>1. socket.connected /\ "out" \notin cut => guest.writer = "ended" /\ peer.got = guest.sent
    BY <1>1, <1>7, OnCloseEffect DEF OutCut, Sizes
  <2>2. Len(<<>>) = 0 /\ peer.got + 0 = peer.got
    BY <1>1 DEF Sizes
  <2>. QED
    BY <1>1, <1>7, <2>1, <2>2, OnCloseEffect DEF OutCut, SocketGone
<1>8. CASE Reset
  BY <1>1, <1>8, ResetEffect DEF OutCut, SocketGone
<1>9. CASE WebSocketLost
  BY <1>1, <1>9, WebSocketLostEffect, HasNothing DEF OutCut, SocketGone
<1>10. CASE PeerWrites \/ PeerEnds \/ PeerReadsEnd
  BY <1>1, <1>10, PeerEffect DEF OutCut
<1>11. CASE Flush
  <2>1. /\ socket.exists /\ socket.connected /\ socket.out # <<>> /\ peer'.got = Head(socket.out)
        /\ peer'.reader = peer.reader
        /\ socket'.out = Tail(socket.out) /\ socket'.exists /\ socket'.connected /\ socket'.fin = socket.fin
        /\ UNCHANGED <<guest, toKernel, mapped, stream, toRelay, cut>>
    <3>1. peer' = [peer EXCEPT !.got = Head(socket.out)] /\ peer \in Program /\ socket.exists /\ socket.connected
          /\ socket.out # <<>>
      BY <1>1, <1>11, FlushEffect DEF TypeOK
    <3>2. socket'.out = Tail(socket.out) /\ socket'.exists /\ socket'.connected /\ socket'.fin = socket.fin
      BY <1>1, <1>11, <3>1, FlushEffect DEF Alike, TypeOK, Session
    <3>3. UNCHANGED <<guest, toKernel, mapped, stream, toRelay, cut>>
      BY <1>1, <1>11, FlushEffect
    <3>. QED
      BY <3>1, <3>2, <3>3 DEF Program
  <2>2. PICK b \in 0..guest.sent : Outwards(b)
    BY <2>1 DEF IInv, OutFlow
  <2>3. peer'.got = peer.got + 1 /\ Len(socket'.out) = Len(socket.out) - 1
    BY <1>1, <2>1, <2>2, RunTaken DEF Outwards, Sizes
  <2>4. peer'.got + Len(socket'.out) = peer.got + Len(socket.out)
    BY <1>1, <2>3 DEF Sizes
  <2>. QED
    BY <1>1, <2>1, <2>4 DEF OutCut
<1>. QED
  BY <1>2, <1>3, <1>4, <1>5, <1>6, <1>7, <1>8, <1>9, <1>10, <1>11,
     CutGuest, CutKernel, CutPacket, CutRelayPacket DEF Next, Relay, Peer

-----------------------------------------------------------------------------
(* Inwards: the chunks.                                                     *)

(* The sizes this chain is made of. *)
Inner ==
  /\ guest.got \in Nat /\ socket.sent \in Nat /\ guest.inbox \in Seq(0..ERR) /\ Len(guest.inbox) \in Nat
  /\ toGuest \in Seq(ToGuest) /\ toClient \in Seq(ToClient)
  /\ socket.sent <= MaxChunks /\ stream.exists \in BOOLEAN

LEMMA InnerType == TypeOK => Inner
<1>. SUFFICES ASSUME TypeOK PROVE Inner
  OBVIOUS
<1>1. /\ guest.inbox \in Seq(0..ERR) /\ guest.got \in 0..MaxChunks /\ socket.sent \in 0..MaxChunks
      /\ toGuest \in Seq(ToGuest) /\ toClient \in Seq(ToClient) /\ stream.exists \in BOOLEAN
  BY DEF TypeOK, Handle, Session, Record
<1>. QED
  BY <1>1, Numbers DEF Inner

InChain == \E k \in 0..Len(guest.inbox), b \in 0..socket.sent, h \in 0..socket.sent : Inwards(k, b, h)

LEMMA InChained == InFlow <=> (guest.st # "closed" => InChain)
BY DEF InFlow, InChain

LEMMA InDeliver ==
  ASSUME IInv, Deliver PROVE InChain'
<1>1. TypeOK /\ Inner /\ InFlow
  BY InnerType DEF IInv
<1>2. PICK x : x = guest.inbox[1]
  OBVIOUS
<1>3. /\ guest.inbox # <<>> /\ guest'.inbox = Tail(guest.inbox) /\ guest.st = "open" /\ guest.reader = "reading"
      /\ UNCHANGED <<toGuest, toClient, socket, stream, cut>>
  BY <1>1, <1>2, DeliverEffect
<1>4. PICK k \in 0..Len(guest.inbox), b \in 0..socket.sent, h \in 0..socket.sent : Inwards(k, b, h)
  BY <1>1, <1>3 DEF InFlow
<1>5. /\ 1 \in 1..Len(guest.inbox) /\ Len(guest'.inbox) = Len(guest.inbox) - 1 /\ Len(guest'.inbox) \in Nat
      /\ \A i \in 1..Len(guest'.inbox) : guest'.inbox[i] = guest.inbox[i + 1] /\ i + 1 \in 1..Len(guest.inbox)
  BY <1>1, <1>3, Taken DEF Inner
<1>6. /\ k >= 1 => x = guest.got + 1 /\ x \in Chunks
      /\ k = 0 => x \in {EOF, ERR}
  <2>1. guest.got + k <= b
    BY <1>4 DEF Inwards, Carries
  <2>2. IF 1 <= k THEN x = guest.got + 1 ELSE x \in {EOF, ERR}
    BY <1>2, <1>4, <1>5 DEF Inwards
  <2>3. k >= 1 => guest.got + 1 \in Chunks
    <3>1. k \in Nat /\ b \in Nat /\ b <= MaxChunks /\ guest.got \in Nat
      BY <1>1, <1>4, Numbers DEF Inner
    <3>. QED
      BY <2>1, <3>1, Numbers DEF Chunks
  <2>. QED
    BY <1>1, <1>4, <2>2, <2>3 DEF Inner
<1>7. CASE k >= 1
  <2>1. guest'.got = guest.got + 1 /\ guest'.reader = "reading"
    BY <1>1, <1>2, <1>6, <1>7, DeliverEffect
  <2>2. k - 1 \in 0..Len(guest'.inbox) /\ guest'.got + (k - 1) = guest.got + k
    BY <1>1, <1>4, <1>5, <1>7, <2>1 DEF Inner
  <2>3. \A i \in 1..Len(guest'.inbox) :
          IF i <= k - 1 THEN guest'.inbox[i] = guest'.got + i ELSE guest'.inbox[i] \in {EOF, ERR}
    <3> TAKE i \in 1..Len(guest'.inbox)
    <3>1. IF i + 1 <= k THEN guest.inbox[i + 1] = guest.got + (i + 1) ELSE guest.inbox[i + 1] \in {EOF, ERR}
      BY <1>4, <1>5 DEF Inwards
    <3>2. (i + 1 <= k <=> i <= k - 1) /\ guest.got + (i + 1) = guest'.got + i
      <4>1. i \in Nat /\ k \in Nat /\ guest.got \in Nat
        BY <1>1, <1>4, <1>5 DEF Inner
      <4>. QED
        BY <2>1, <4>1
    <3>. QED
      BY <1>5, <3>1, <3>2
  <2>4. k - 1 < Len(guest'.inbox) => k < Len(guest.inbox)
    <3>1. PICK n \in Nat : n = Len(guest.inbox)
      BY <1>1 DEF Inner
    <3>2. Len(guest'.inbox) = n - 1 /\ k \in 0..n
      BY <1>4, <1>5, <3>1
    <3>3. k - 1 < n - 1 => k < n
      BY <3>1, <3>2
    <3>. QED
      BY <3>1, <3>2, <3>3
  <2>5. Inwards(k - 1, b, h)'
    BY <1>3, <1>4, <2>1, <2>2, <2>3, <2>4 DEF Inwards
  <2>. QED
    BY <1>3, <2>2, <2>5 DEF InChain
<1>8. CASE k = 0
  <2>1. guest'.got = guest.got
    BY <1>1, <1>2, <1>6, <1>8, DeliverEffect, Numbers
  <2>2. ~Has(toGuest, "pipe-data")
    BY <1>1, <1>4, <1>5, <1>8 DEF Inwards
  <2>3. \A i \in 1..Len(guest'.inbox) :
          IF i <= 0 THEN guest'.inbox[i] = guest'.got + i ELSE guest'.inbox[i] \in {EOF, ERR}
    <3> TAKE i \in 1..Len(guest'.inbox)
    <3>1. ~(i <= 0) /\ ~(i + 1 <= k)
      BY <1>5, <1>8
    <3>2. guest.inbox[i + 1] \in {EOF, ERR}
      BY <1>4, <1>5, <3>1 DEF Inwards
    <3>. QED
      BY <1>5, <3>1, <3>2
  <2>4. Inwards(0, b, h)'
    BY <1>3, <1>4, <1>8, <2>1, <2>2, <2>3 DEF Inwards
  <2>. QED
    BY <1>3, <1>5, <2>4 DEF InChain
<1>. QED
  BY <1>4, <1>7, <1>8

LEMMA InDispatch ==
  ASSUME IInv, Dispatch, guest'.st # "closed" PROVE InChain'
<1>1. TypeOK /\ Inner /\ InFlow /\ InEnds
  BY InnerType DEF IInv
<1>2. PICK m : m = Head(toGuest)
  OBVIOUS
<1>3. /\ toGuest # <<>> /\ toGuest' = Tail(toGuest) /\ m \in ToGuest /\ guest.st # "closed"
      /\ guest'.got = guest.got /\ guest'.reader = guest.reader
      /\ UNCHANGED <<toClient, socket, stream, cut>>
      /\ \/ m.type = "pipe-connected" /\ guest'.inbox = guest.inbox
         \/ m.type # "pipe-connected" /\ guest'.inbox = Append(guest.inbox, m.n)
  BY <1>1, <1>2, DispatchEffect
<1>4. PICK k \in 0..Len(guest.inbox), b \in 0..socket.sent, h \in 0..socket.sent : Inwards(k, b, h)
  BY <1>1, <1>3 DEF InFlow
<1>5. PICK lo : lo = guest.got + k
  OBVIOUS
<1>6. lo \in Nat /\ b \in Nat
  BY <1>1, <1>4, <1>5 DEF Inner
<1>7. /\ m.type # "pipe-data" => Carries(toGuest', "pipe-data", lo, b)
      /\ m.type = "pipe-data" => m.n = lo + 1 /\ Carries(toGuest', "pipe-data", lo + 1, b)
  <2>1. Carries(toGuest, "pipe-data", lo, b)
    BY <1>4, <1>5 DEF Inwards
  <2>2. \A x \in ToGuest : x.n \in Nat
    BY Kinds
  <2>3. /\ Head(toGuest).type # "pipe-data" => Carries(Tail(toGuest), "pipe-data", lo, b)
        /\ Head(toGuest).type = "pipe-data" =>
             Head(toGuest).n = lo + 1 /\ Carries(Tail(toGuest), "pipe-data", lo + 1, b)
    BY <1>1, <1>3, <1>6, <2>1, <2>2, CarriesTaken, Zenon DEF Inner
  <2>. QED
    BY <1>2, <1>3, <2>3
<1>8. /\ Has(toGuest, "pipe-data") <=> m.type = "pipe-data" \/ Has(toGuest', "pipe-data")
      /\ m.type \in {"pipe-shutdown", "pipe-close"} => ~Has(toGuest', "pipe-data")
  <2>1. Has(toGuest, "pipe-data") <=> Head(toGuest).type = "pipe-data" \/ Has(Tail(toGuest), "pipe-data")
    BY <1>1, <1>3, HasTaken DEF Inner
  <2>2. LastOf(toGuest, "pipe-shutdown", "pipe-data") /\ LastOf(toGuest, "pipe-close", "pipe-data")
    BY <1>1, <1>3 DEF InEnds, Ending
  <2>3. Head(toGuest).type \in {"pipe-shutdown", "pipe-close"} => ~Has(Tail(toGuest), "pipe-data")
    BY <1>1, <1>3, <2>2, LastOfTaken DEF Inner
  <2>. QED
    BY <1>2, <1>3, <2>1, <2>3
<1>9. CASE m.type = "pipe-connected"
  <2>1. Inwards(k, b, h)'
    BY <1>3, <1>4, <1>5, <1>7, <1>8, <1>9 DEF Inwards
  <2>. QED
    BY <1>3, <1>9, <2>1 DEF InChain
<1>10. ASSUME m.type # "pipe-connected"
       PROVE  /\ Len(guest'.inbox) = Len(guest.inbox) + 1 /\ guest'.inbox[Len(guest.inbox) + 1] = m.n
              /\ \A i \in 1..Len(guest.inbox) : guest'.inbox[i] = guest.inbox[i]
              /\ \A i \in 1..Len(guest'.inbox) : i \in 1..Len(guest.inbox) \/ i = Len(guest.inbox) + 1
  <2>1. m.n \in 0..ERR
    BY <1>3, <1>10, Contents, Numbers
  <2>. QED
    BY <1>1, <1>3, <1>10, <2>1, Added DEF Inner
<1>11. CASE m.type = "pipe-data"
  <2>1. guest.reader = "reading" /\ k = Len(guest.inbox)
    BY <1>1, <1>4, <1>8, <1>11 DEF Inwards, Inner
  <2>2. /\ Len(guest'.inbox) = k + 1 /\ guest'.inbox[k + 1] = guest.got + (k + 1) /\ lo + 1 = guest.got + (k + 1)
        /\ k + 1 \in 0..Len(guest'.inbox)
    <3>1. k \in Nat /\ guest.got \in Nat
      BY <1>1, <1>4 DEF Inner
    <3>2. Len(guest'.inbox) = k + 1 /\ guest'.inbox[k + 1] = m.n
      BY <1>10, <1>11, <2>1
    <3>3. m.n = lo + 1 /\ lo + 1 = guest.got + (k + 1) /\ k + 1 \in 0..k + 1
      BY <1>5, <1>7, <1>11, <3>1
    <3>. QED
      BY <3>2, <3>3
  <2>3. \A i \in 1..Len(guest'.inbox) :
          IF i <= k + 1 THEN guest'.inbox[i] = guest'.got + i ELSE guest'.inbox[i] \in {EOF, ERR}
    <3> TAKE i \in 1..Len(guest'.inbox)
    <3>1. CASE i \in 1..Len(guest.inbox)
      BY <1>1, <1>3, <1>4, <1>10, <1>11, <2>1, <3>1 DEF Inwards, Inner
    <3>2. CASE i = k + 1
      BY <1>3, <2>2, <3>2
    <3>. QED
      BY <1>10, <1>11, <2>1, <3>1, <3>2
  <2>4. Inwards(k + 1, b, h)'
    BY <1>3, <1>4, <1>7, <1>11, <2>1, <2>2, <2>3 DEF Inwards
  <2>. QED
    BY <1>3, <2>2, <2>4 DEF InChain
<1>12. CASE m.type \in {"pipe-shutdown", "pipe-close"}
  <2>1. m.n \in {EOF, ERR}
    BY <1>3, <1>12, Contents
  <2>2. k \in 0..Len(guest'.inbox)
    BY <1>1, <1>4, <1>10, <1>12 DEF Inner
  <2>3. \A i \in 1..Len(guest'.inbox) :
          IF i <= k THEN guest'.inbox[i] = guest'.got + i ELSE guest'.inbox[i] \in {EOF, ERR}
    <3> TAKE i \in 1..Len(guest'.inbox)
    <3>1. CASE i \in 1..Len(guest.inbox)
      BY <1>3, <1>4, <1>10, <1>12, <3>1 DEF Inwards
    <3>2. CASE i = Len(guest.inbox) + 1
      <4>1. ~(i <= k) /\ guest'.inbox[i] = m.n
        BY <1>1, <1>4, <1>10, <1>12, <3>2 DEF Inner
      <4>. QED
        BY <2>1, <4>1
    <3>. QED
      BY <1>10, <1>12, <3>1, <3>2
  <2>4. Inwards(k, b, h)'
    BY <1>3, <1>4, <1>5, <1>7, <1>8, <1>12, <2>3 DEF Inwards
  <2>. QED
    BY <1>3, <2>2, <2>4 DEF InChain
<1>. QED
  BY <1>3, <1>9, <1>11, <1>12, Contents

(* The guest has not been told of an end while chunks are on their way.     *)
LEMMA NotMarked ==
  ASSUME TypeOK, Inner, InEnds, guest.st # "closed", Has(toClient, "DATA"),
         NEW k \in 0..Len(guest.inbox), NEW b, NEW h, Inwards(k, b, h)
  PROVE  guest.reader = "reading" /\ k = Len(guest.inbox)
<1>1. ~Marked
  BY DEF InEnds, Ending
<1>2. ASSUME k < Len(guest.inbox) PROVE FALSE
  <2>1. k + 1 \in 1..Len(guest.inbox) /\ ~(k + 1 <= k)
    BY <1>2 DEF Inner
  <2>2. guest.inbox[k + 1] \in {EOF, ERR}
    BY <2>1 DEF Inwards
  <2>. QED
    BY <1>1, <2>1, <2>2 DEF Marked, Holds
<1>. QED
  BY <1>1, <1>2 DEF Marked, Inner

LEMMA InPacket ==
  ASSUME IInv, OnPacket, guest.st # "closed" PROVE InChain'
<1>1. TypeOK /\ Inner /\ InFlow /\ InEnds
  BY InnerType DEF IInv
<1>2. PICK m : m = Head(toClient)
  OBVIOUS
<1>3. /\ toClient # <<>> /\ toClient' = Tail(toClient) /\ m \in ToClient
      /\ UNCHANGED <<guest, socket, cut>>
      /\ CDrop(m) \/ CContinue(m) \/ CData(m) \/ CShutdown(m) \/ CConnected(m) \/ CClose(m)
  BY <1>1, <1>2, PacketReads, Zenon
<1>4. PICK k \in 0..Len(guest.inbox), b \in 0..socket.sent, h \in 0..socket.sent : Inwards(k, b, h)
  BY <1>1 DEF InFlow
<1>5. b \in Nat /\ h \in Nat
  BY <1>1, <1>4 DEF Inner
<1>6. /\ m.type # "DATA" => Carries(toClient', "DATA", b, h)
      /\ m.type = "DATA" => m.n = b + 1 /\ b < h /\ Carries(toClient', "DATA", b + 1, h)
  <2>1. Carries(toClient, "DATA", b, h)
    BY <1>4 DEF Inwards
  <2>2. \A x \in ToClient : x.n \in Nat
    BY Kinds
  <2>3. /\ Head(toClient).type # "DATA" => Carries(Tail(toClient), "DATA", b, h)
        /\ Head(toClient).type = "DATA" =>
             Head(toClient).n = b + 1 /\ b < h /\ Carries(Tail(toClient), "DATA", b + 1, h)
    BY <1>1, <1>3, <1>5, <2>1, <2>2, CarriesTaken, Zenon DEF Inner
  <2>. QED
    BY <1>2, <1>3, <2>3
<1>7. PICK lo : lo = guest.got + k
  OBVIOUS
<1>8. lo \in Nat /\ Carries(toGuest, "pipe-data", lo, b)
  BY <1>1, <1>4, <1>7 DEF Inner, Inwards
<1>9. \A x \in ToGuest : x.n \in Nat
  BY Kinds
<1>10. ASSUME NEW x \in ToGuest, x.type # "pipe-data", toGuest' = toGuest \/ toGuest' = Append(toGuest, x),
              m.type # "DATA", stream'.exists => stream.exists
       PROVE  InChain'
  <2>1. Carries(Append(toGuest, x), "pipe-data", lo, b)
    BY <1>1, <1>5, <1>8, <1>9, <1>10, CarriesAdded, Zenon DEF Inner
  <2>2. Carries(toGuest', "pipe-data", lo, b)
    BY <1>8, <1>10, <2>1
  <2>3. Has(Append(toGuest, x), "pipe-data") <=> Has(toGuest, "pipe-data")
    BY <1>1, <1>10, HasAdded DEF Inner
  <2>4. Has(toGuest', "pipe-data") <=> Has(toGuest, "pipe-data")
    BY <1>10, <2>3
  <2>5. Inwards(k, b, h)'
    BY <1>3, <1>4, <1>6, <1>7, <1>10, <2>2, <2>4 DEF Inwards
  <2>. QED
    BY <1>3, <2>5 DEF InChain
<1>11. /\ Pkt("pipe-shutdown", EOF) \in ToGuest /\ Pkt("pipe-shutdown", EOF).type # "pipe-data"
       /\ Pkt("pipe-connected", 0) \in ToGuest /\ Pkt("pipe-connected", 0).type # "pipe-data"
       /\ Pkt("pipe-close", m.n).type # "pipe-data"
  BY Sendable, Fields
<1>12. CASE CDrop(m)
  BY <1>1, <1>3, <1>12 DEF CDrop, InEnds
<1>13. CASE CContinue(m)
  BY <1>1, <1>10, <1>11, <1>13, Drains1 DEF CContinue
<1>14. CASE CData(m)
  <2>1. PICK x : x = Pkt("pipe-data", m.n)
    OBVIOUS
  <2>2. /\ x \in ToGuest /\ toGuest' = Append(toGuest, x) /\ x.type = "pipe-data" /\ x.n = b + 1
        /\ UNCHANGED stream /\ m.type = "DATA"
    BY <1>6, <1>14, <2>1, Fields DEF CData
  <2>3. Carries(toGuest', "pipe-data", lo, b + 1)
    <3>1. Carries(Append(toGuest, x), "pipe-data", lo, b + 1)
      BY <1>1, <1>5, <1>8, <1>9, <2>2, CarriesAdded, Zenon DEF Inner
    <3>. QED
      BY <2>2, <3>1
  <2>4. Has(toClient, "DATA")
    BY <1>1, <1>2, <1>3, <2>2, HasTaken DEF Inner
  <2>5. guest.reader = "reading" /\ k = Len(guest.inbox)
    BY <1>1, <1>4, <2>4, NotMarked
  <2>6. b + 1 \in 0..socket.sent
    BY <1>1, <1>4, <1>6, <2>2 DEF Inner
  <2>7. Inwards(k, b + 1, h)'
    BY <1>1, <1>3, <1>4, <1>6, <1>7, <2>2, <2>3, <2>5 DEF Inwards, Inner
  <2>. QED
    BY <1>3, <2>6, <2>7 DEF InChain
<1>15. CASE CShutdown(m)
  BY <1>10, <1>11, <1>15 DEF CShutdown
<1>16. CASE CConnected(m)
  BY <1>10, <1>11, <1>16 DEF CConnected, StreamSame
<1>17. CASE CClose(m)
  BY <1>10, <1>11, <1>17 DEF CClose, StreamOver
<1>. QED
  BY <1>3, <1>12, <1>13, <1>14, <1>15, <1>16, <1>17

(* What the relay does to the chain: packets of other kinds change nothing. *)
LEMMA InRelay ==
  ASSUME IInv, guest.st # "closed", UNCHANGED <<guest, toGuest, stream>>, socket'.sent = socket.sent,
         cut' = cut \/ "in" \in cut',
         toClient' = toClient \/ \E x \in ToClient : x.type # "DATA" /\ toClient' = Append(toClient, x)
  PROVE  InChain'
<1>1. TypeOK /\ Inner /\ InFlow
  BY InnerType DEF IInv
<1>2. PICK k \in 0..Len(guest.inbox), b \in 0..socket.sent, h \in 0..socket.sent : Inwards(k, b, h)
  BY <1>1 DEF InFlow
<1>3. b \in Nat /\ h \in Nat /\ Carries(toClient, "DATA", b, h) /\ \A x \in ToClient : x.n \in Nat
  BY <1>1, <1>2, Kinds DEF Inner, Inwards
<1>4. \A x \in ToClient : x.type # "DATA" => Carries(Append(toClient, x), "DATA", b, h)
  BY <1>1, <1>3, CarriesAdded, Zenon DEF Inner
<1>5. Carries(toClient', "DATA", b, h)
  BY <1>3, <1>4
<1>6. Inwards(k, b, h)'
  BY <1>2, <1>5 DEF Inwards
<1>. QED
  BY <1>6 DEF InChain

LEMMA InRelayPacket ==
  ASSUME IInv, OnRelayPacket, guest.st # "closed" PROVE InChain'
<1>1. TypeOK /\ Fresh
  BY DEF IInv
<1>2. PICK m : m = Head(toRelay)
  OBVIOUS
<1>3. /\ toRelay # <<>> /\ m = toRelay[1] /\ UNCHANGED <<guest, toGuest, stream, cut>>
      /\ RConnect(m) \/ RDrop(m) \/ RData(m) \/ RRefuse(m) \/ RShutdown(m) \/ RAck(m) \/ RClose(m)
  BY <1>1, <1>2, RelayReads, Zenon
<1>4. /\ Pkt("CONTINUE", CREDIT) \in ToClient /\ Pkt("CONTINUE", CREDIT).type # "DATA"
      /\ Pkt("CLOSE", ERR) \in ToClient /\ Pkt("CLOSE", ERR).type # "DATA"
  BY Sendable, Fields
<1>5. toClient' = toClient \/ \E x \in ToClient : x.type # "DATA" /\ toClient' = Append(toClient, x)
  BY <1>3, <1>4 DEF RConnect, RDrop, RData, RRefuse, RShutdown, RAck, RClose, Granted
<1>6. CASE RConnect(m)
  <2>1. Untouched
    <3>1. 1 \in 1..Len(toRelay)
      BY <1>1, <1>3, Taken DEF TypeOK
    <3>. QED
      BY <1>1, <1>3, <1>6, <3>1 DEF RConnect, Fresh, Untouched, Has
  <2>2. socket'.sent = socket.sent
    BY <1>1, <1>6, <2>1 DEF RConnect, Fresh
  <2>. QED
    BY <1>3, <1>5, <2>2, InRelay
<1>7. CASE ~RConnect(m)
  <2>1. socket'.sent = socket.sent
    BY <1>3, <1>7 DEF RDrop, RData, RRefuse, RShutdown, RAck, RClose, Accounts, SocketGone
  <2>. QED
    BY <1>3, <1>5, <2>1, InRelay
<1>. QED
  BY <1>6, <1>7

LEMMA InFlowStep ==
  ASSUME IInv, [Next]_vars PROVE InFlow'
<1>1. TypeOK /\ Inner /\ InFlow /\ InEnds
  BY InnerType DEF IInv
<1>2. SUFFICES ASSUME guest'.st # "closed" PROVE InChain'
  BY DEF InFlow, InChain
<1>3. ASSUME ReaderSame, UNCHANGED <<toGuest, toClient, socket, cut>>, stream'.exists => stream.exists
      PROVE  InChain'
  BY <1>1, <1>2, <1>3 DEF ReaderSame, InFlow, InChain, Inwards
<1>4. CASE Write \/ Shutdown
  BY <1>1, <1>3, <1>4, WriteEffect, ShutdownEffect
<1>5. CASE Close
  BY <1>1, <1>2, <1>5, CloseEffect
<1>6. CASE FromGuest
  <2>1. PICK m : m = Head(toKernel)
    OBVIOUS
  <2>2. /\ UNCHANGED <<guest, toGuest, toClient, socket, cut>>
        /\ KDrop(m) \/ KData(m) \/ KRead(m) \/ KShutdown(m) \/ KClose(m)
    BY <1>1, <1>6, <2>1, KernelReads, Zenon
  <2>3. stream'.exists => stream.exists
    BY <1>1, <2>2, Drains1 DEF KDrop, KData, KRead, KShutdown, KClose, Counts, StreamOver
  <2>. QED
    BY <1>3, <2>2, <2>3 DEF ReaderSame
<1>7. CASE UNCHANGED vars
  BY <1>3, <1>7 DEF vars, ReaderSame
<1>8. ASSUME UNCHANGED guest PROVE guest.st # "closed"
  BY <1>2, <1>8
<1>9. /\ Pkt("CONNECTED", 0) \in ToClient /\ Pkt("CONNECTED", 0).type # "DATA"
      /\ Pkt("SHUTDOWN", 0) \in ToClient /\ Pkt("SHUTDOWN", 0).type # "DATA"
      /\ Pkt("CONTINUE", CREDIT) \in ToClient /\ Pkt("CONTINUE", CREDIT).type # "DATA"
      /\ Pkt("CLOSE", ERR) \in ToClient /\ Pkt("CLOSE", ERR).type # "DATA"
      /\ Pkt("CLOSE", EOF) \in ToClient /\ Pkt("CLOSE", EOF).type # "DATA"
  BY Sendable, Fields
<1>10. CASE OnPacket
  <2>1. UNCHANGED guest
    BY <1>10 DEF OnPacket
  <2>. QED
    BY <1>8, <1>10, <2>1, InPacket
<1>11. CASE OnRelayPacket
  <2>1. UNCHANGED guest
    BY <1>11 DEF OnRelayPacket
  <2>. QED
    BY <1>8, <1>11, <2>1, InRelayPacket
<1>12. CASE Connects
  BY <1>1, <1>8, <1>9, <1>12, ConnectsEffect, InRelay
<1>13. CASE DialFails
  BY <1>1, <1>8, <1>9, <1>13, DialFailsEffect, InRelay DEF SocketGone
<1>14. CASE OnEnd
  <2>1. /\ UNCHANGED <<guest, toGuest, stream>> /\ socket'.sent = socket.sent
        /\ toClient' = Append(toClient, Pkt("SHUTDOWN", 0))
        /\ cut' = cut \/ cut' = cut \union {"out"}
    BY <1>1, <1>14, OnEndEffect
  <2>2. PICK k \in 0..Len(guest.inbox), b \in 0..socket.sent, h \in 0..socket.sent : Inwards(k, b, h)
    BY <1>1, <1>8, <2>1 DEF InFlow
  <2>3. b \in Nat /\ h \in Nat /\ Carries(toClient, "DATA", b, h) /\ \A x \in ToClient : x.n \in Nat
    BY <1>1, <2>2, Kinds DEF Inner, Inwards
  <2>4. Carries(Append(toClient, Pkt("SHUTDOWN", 0)), "DATA", b, h)
    BY <1>1, <1>9, <2>3, CarriesAdded, Zenon DEF Inner
  <2>5. Inwards(k, b, h)'
    BY <2>1, <2>2, <2>4 DEF Inwards
  <2>. QED
    BY <2>1, <2>5 DEF InChain
<1>15. CASE OnData
  <2>1. PICK x : x = Pkt("DATA", socket.sent + 1)
    OBVIOUS
  <2>2. /\ UNCHANGED <<guest, toGuest, stream, cut>> /\ socket.exists /\ socket'.sent = socket.sent + 1
        /\ toClient' = Append(toClient, x) /\ x \in ToClient /\ x.type = "DATA" /\ x.n = socket.sent + 1
    BY <1>1, <1>15, <2>1, OnDataEffect, Sendable, Fields
  <2>3. stream.exists
    BY <1>1, <1>8, <2>2 DEF InEnds
  <2>4. PICK k \in 0..Len(guest.inbox), b \in 0..socket.sent, h \in 0..socket.sent : Inwards(k, b, h)
    BY <1>1, <1>8, <2>2 DEF InFlow
  <2>5. h = socket.sent /\ b \in Nat /\ h \in Nat /\ Carries(toClient, "DATA", b, h)
        /\ \A y \in ToClient : y.n \in Nat
    BY <1>1, <2>3, <2>4, Kinds DEF Inner, Inwards
  <2>6. Carries(toClient', "DATA", b, h + 1)
    <3>1. Carries(Append(toClient, x), "DATA", b, h + 1)
      BY <1>1, <2>2, <2>5, CarriesAdded, Zenon DEF Inner
    <3>. QED
      BY <2>2, <3>1
  <2>7. h + 1 \in 0..socket'.sent /\ b \in 0..socket'.sent /\ h + 1 = socket'.sent
    BY <1>1, <2>2, <2>4, <2>5 DEF Inner
  <2>8. Inwards(k, b, h + 1)'
    BY <2>2, <2>4, <2>6, <2>7 DEF Inwards
  <2>. QED
    BY <2>2, <2>4, <2>7, <2>8 DEF InChain
<1>16. CASE Flush
  <2>1. /\ UNCHANGED <<guest, toGuest, stream, cut>> /\ socket'.sent = socket.sent
    BY <1>1, <1>16, FlushEffect DEF Alike, TypeOK, Session
  <2>2. toClient' = toClient \/ \E x \in ToClient : x.type # "DATA" /\ toClient' = Append(toClient, x)
    BY <1>1, <1>9, <1>16, FlushEffect DEF Granted
  <2>. QED
    BY <1>8, <2>1, <2>2, InRelay
<1>17. CASE OnClose
  BY <1>1, <1>8, <1>9, <1>17, OnCloseEffect, InRelay DEF SocketGone
<1>18. CASE Reset
  BY <1>1, <1>8, <1>9, <1>18, ResetEffect, InRelay DEF SocketGone
<1>19. CASE PeerWrites \/ PeerEnds \/ PeerReadsEnd
  BY <1>1, <1>8, <1>19, PeerEffect, InRelay
<1>20. CASE WebSocketLost
  <2>1. PICK x : x = Pkt("pipe-close", ERR)
    OBVIOUS
  <2>2. /\ UNCHANGED guest /\ ~stream'.exists /\ socket'.sent = socket.sent /\ toClient' = <<>>
        /\ toGuest' = Append(toGuest, x) /\ x \in ToGuest /\ x.type # "pipe-data" /\ "in" \in cut'
    BY <1>1, <1>20, <2>1, WebSocketLostEffect, Sendable, Fields DEF SocketGone, StreamOver
  <2>3. PICK k \in 0..Len(guest.inbox), b \in 0..socket.sent, h \in 0..socket.sent : Inwards(k, b, h)
    BY <1>1, <1>8, <2>2 DEF InFlow
  <2>4. PICK lo : lo = guest.got + k
    OBVIOUS
  <2>5. lo \in Nat /\ b \in Nat /\ Carries(toGuest, "pipe-data", lo, b) /\ \A y \in ToGuest : y.n \in Nat
    BY <1>1, <2>3, <2>4, Kinds DEF Inner, Inwards
  <2>6. Carries(Append(toGuest, x), "pipe-data", lo, b)
    BY <1>1, <2>2, <2>5, CarriesAdded, Zenon DEF Inner
  <2>7. Has(Append(toGuest, x), "pipe-data") <=> Has(toGuest, "pipe-data")
    BY <1>1, <2>2, HasAdded DEF Inner
  <2>8. Carries(<<>>, "DATA", b, b)
    BY <2>5 DEF Carries
  <2>9. Inwards(k, b, b)'
    BY <2>2, <2>3, <2>4, <2>6, <2>7, <2>8 DEF Inwards
  <2>. QED
    BY <2>2, <2>3, <2>9 DEF InChain
<1>21. CASE Deliver
  BY <1>21, InDeliver
<1>22. CASE Dispatch
  BY <1>2, <1>22, InDispatch
<1>. QED
  BY <1>4, <1>5, <1>6, <1>7, <1>10, <1>11, <1>12, <1>13, <1>14, <1>15, <1>16, <1>17, <1>18, <1>19, <1>20, <1>21, <1>22
  DEF Next, Guest, Relay, Peer

-----------------------------------------------------------------------------
(* Inwards: the ends.                                                       *)

LEMMA OneLess == \A n, l \in Nat : l = n - 1 => (n = 1 => l = 0) /\ \A i \in 1..l : i + 1 = n => i = l
OBVIOUS

LEMMA ClosesTaken ==
  ASSUME NEW S, NEW q \in Seq(S), q # <<>>, ClosesLast(q)
  PROVE  ClosesLast(Tail(q)) /\ (Head(q).type = "CLOSE" => Tail(q) = <<>>)
<1>1. /\ Len(Tail(q)) = Len(q) - 1 /\ Len(q) \in Nat /\ Len(Tail(q)) \in Nat /\ Tail(q) \in Seq(S)
      /\ \A i \in 1..Len(Tail(q)) : Tail(q)[i] = q[i + 1]
      /\ Head(q) = q[1] /\ 1 \in 1..Len(q)
  BY Taken
<1>2. ClosesLast(Tail(q))
  <2> SUFFICES ASSUME NEW i \in 1..Len(Tail(q)), Tail(q)[i].type = "CLOSE" PROVE i = Len(Tail(q))
    BY DEF ClosesLast
  <2>1. i + 1 \in 1..Len(q) /\ q[i + 1].type = "CLOSE"
    BY <1>1
  <2>2. i + 1 = Len(q)
    BY <2>1 DEF ClosesLast
  <2>. QED
    BY <1>1, <2>2, OneLess
<1>3. Head(q).type = "CLOSE" => Len(Tail(q)) = 0
  <2>1. Head(q).type = "CLOSE" => Len(q) = 1
    BY <1>1 DEF ClosesLast
  <2>. QED
    BY <1>1, <2>1, OneLess
<1>. QED
  BY <1>1, <1>2, <1>3

LEMMA ClosesAdded ==
  ASSUME NEW S, NEW q \in Seq(S), NEW m \in S, ~Has(q, "CLOSE")
  PROVE  ClosesLast(Append(q, m))
BY Added DEF ClosesLast, Has

(* Marks of an end come from the queue before them.                         *)
LEMMA InEndsGuest ==
  ASSUME IInv, Guest PROVE InEnds'
<1>1. TypeOK /\ InEnds /\ Inner /\ toKernel \in Seq(ToKernel)
  BY InnerType DEF IInv, TypeOK
<1>2. CASE Write \/ Shutdown
  <2>1. PICK x \in ToKernel : x.type # "pipe-close" /\ toKernel' = Append(toKernel, x)
    BY <1>1, <1>2, WriteEffect, ShutdownEffect, Sendable, Fields
  <2>2. Has(toKernel', "pipe-close") <=> Has(toKernel, "pipe-close")
    BY <1>1, <2>1, HasAdded
  <2>3. ReaderSame /\ UNCHANGED <<toGuest, stream, toRelay, toClient, socket, peer, cut>>
    BY <1>1, <1>2, WriteEffect, ShutdownEffect
  <2>. QED
    BY <1>1, <2>2, <2>3 DEF InEnds, Ending, Marked, ReaderSame
<1>3. CASE Close
  BY <1>1, <1>3, CloseEffect DEF InEnds
<1>4. CASE Deliver
  <2>1. PICK x : x = guest.inbox[1]
    OBVIOUS
  <2>2. /\ guest.st = "open" /\ guest.reader = "reading" /\ guest.inbox # <<>> /\ x \in 0..ERR
        /\ guest'.st = "open" /\ guest'.inbox = Tail(guest.inbox)
        /\ guest'.reader # "reading" => x \in {EOF, ERR}
        /\ x \notin Chunks => UNCHANGED toKernel
        /\ x \in Chunks => toKernel' = Append(toKernel, Pkt("pipe-read", 1))
        /\ UNCHANGED <<toGuest, mapped, pending, stream, toRelay, toClient, socket, peer, cut>>
    BY <1>1, <1>4, <2>1, DeliverEffect
  <2>3. Has(toKernel', "pipe-close") <=> Has(toKernel, "pipe-close")
    <3>1. Has(Append(toKernel, Pkt("pipe-read", 1)), "pipe-close") <=> Has(toKernel, "pipe-close")
      BY <1>1, HasAdded, Sendable, Fields
    <3>. QED
      BY <2>2, <3>1
  <2>4. \A y : Holds(guest'.inbox, y) => Holds(guest.inbox, y)
    BY <1>1, <2>2, Taken DEF Holds, Inner
  <2>5. Holds(guest.inbox, x)
    BY <1>1, <2>1, <2>2, Taken DEF Holds, Inner
  <2>6. Marked' => Marked
    BY <2>2, <2>4, <2>5 DEF Marked
  <2>. QED
    BY <1>1, <2>2, <2>3, <2>6 DEF InEnds, Ending
<1>5. CASE Dispatch
  <2>1. PICK m : m = Head(toGuest)
    OBVIOUS
  <2>2. /\ toGuest # <<>> /\ toGuest' = Tail(toGuest) /\ m \in ToGuest /\ guest'.reader = guest.reader
        /\ UNCHANGED <<toKernel, mapped, pending, stream, toRelay, toClient, socket, peer, cut>>
        /\ guest'.st = "closed" \/ guest.st # "closed"
        /\ \/ guest'.inbox = guest.inbox
           \/ m.type # "pipe-connected" /\ guest'.inbox = Append(guest.inbox, m.n)
    BY <1>1, <1>5, <2>1, DispatchEffect
  <2>3. \A t : Has(toGuest, t) <=> m.type = t \/ Has(toGuest', t)
    BY <1>1, <2>1, <2>2, HasTaken DEF Inner
  <2>4. \A y : Holds(guest'.inbox, y) => Holds(guest.inbox, y) \/ (m.type # "pipe-connected" /\ m.n = y)
    <3>1. m.n \in 0..ERR \/ guest'.inbox = guest.inbox
      BY <2>2, Contents, Numbers
    <3>2. CASE guest'.inbox = guest.inbox
      BY <3>2
    <3>3. CASE m.type # "pipe-connected" /\ guest'.inbox = Append(guest.inbox, m.n) /\ m.n \in 0..ERR
      <4>1. /\ Len(guest'.inbox) = Len(guest.inbox) + 1 /\ guest'.inbox[Len(guest.inbox) + 1] = m.n
            /\ \A i \in 1..Len(guest.inbox) : guest'.inbox[i] = guest.inbox[i]
        BY <1>1, <3>3, Added DEF Inner
      <4>2. \A i \in 1..Len(guest'.inbox) : i \in 1..Len(guest.inbox) \/ i = Len(guest.inbox) + 1
        BY <1>1, <4>1 DEF Inner
      <4>. QED
        BY <3>3, <4>1, <4>2 DEF Holds
    <3>. QED
      BY <2>2, <3>1, <3>2, <3>3
  <2>5. m.n \in {EOF, ERR} /\ m.type # "pipe-connected" => m.type \in {"pipe-shutdown", "pipe-close"}
    BY <2>2, Contents, Numbers
  <2>6. Marked' => Marked
    BY <2>2, <2>3, <2>4, <2>5 DEF Marked
  <2>7. Ending => Ending'
    <3>1. ASSUME NEW e, LastOf(toGuest, e, "pipe-data") PROVE LastOf(toGuest', e, "pipe-data")
      BY <1>1, <2>2, <3>1, LastOfTaken DEF Inner
    <3>. QED
      BY <2>2, <2>6, <3>1 DEF Ending
  <2>. QED
    BY <1>1, <2>2, <2>7 DEF InEnds
<1>. QED
  BY <1>2, <1>3, <1>4, <1>5 DEF Guest

LEMMA InEndsKernel ==
  ASSUME IInv, FromGuest PROVE InEnds'
<1>1. TypeOK /\ InEnds /\ toKernel \in Seq(ToKernel)
  BY DEF IInv, TypeOK
<1>2. PICK m : m = Head(toKernel)
  OBVIOUS
<1>3. /\ toKernel # <<>> /\ toKernel' = Tail(toKernel) /\ m \in ToKernel /\ m = toKernel[1]
      /\ UNCHANGED <<guest, toGuest, toClient, socket, peer, cut>>
      /\ KDrop(m) \/ KData(m) \/ KRead(m) \/ KShutdown(m) \/ KClose(m)
  BY <1>1, <1>2, KernelReads, Zenon
<1>4. Has(toKernel, "pipe-close") <=> m.type = "pipe-close" \/ Has(toKernel', "pipe-close")
  BY <1>1, <1>2, <1>3, HasTaken
<1>5. Has(toRelay', "CONNECT") => Has(toRelay, "CONNECT")
  BY <1>1, NoNewConnect
<1>6. stream'.exists = stream.exists \/ guest.st = "closed"
  BY <1>1, <1>3, <1>4, Drains1 DEF KDrop, KData, KRead, KShutdown, KClose, Counts, InEnds
<1>7. Ending => Ending'
  BY <1>3 DEF Ending, Marked
<1>. QED
  BY <1>1, <1>3, <1>4, <1>5, <1>6, <1>7 DEF InEnds

LEMMA InEndsPacket ==
  ASSUME IInv, OnPacket PROVE InEnds'
<1>1. TypeOK /\ InEnds /\ Inner
  BY InnerType DEF IInv
<1>2. PICK m : m = Head(toClient)
  OBVIOUS
<1>3. /\ toClient # <<>> /\ toClient' = Tail(toClient) /\ m \in ToClient
      /\ UNCHANGED <<guest, toKernel, socket, peer, cut>>
      /\ CDrop(m) \/ CContinue(m) \/ CData(m) \/ CShutdown(m) \/ CConnected(m) \/ CClose(m)
  BY <1>1, <1>2, PacketReads, Zenon
<1>4. \A t : Has(toClient, t) <=> m.type = t \/ Has(toClient', t)
  BY <1>1, <1>2, <1>3, HasTaken DEF Inner
<1>5. ClosesLast(toClient') /\ (m.type = "CLOSE" => toClient' = <<>>)
  BY <1>1, <1>2, <1>3, ClosesTaken DEF Inner, InEnds
<1>6. Has(toRelay', "CONNECT") => Has(toRelay, "CONNECT")
  BY <1>1, NoNewConnect
<1>7. /\ Has(toClient', "CLOSE") \/ "in" \in cut' => ~socket'.exists /\ ~Has(toRelay', "CONNECT")
      /\ \/ stream'.exists \/ guest'.st = "closed"
         \/ toClient' = <<>> /\ ~socket'.exists /\ ~Has(toRelay', "CONNECT")
  <2>1. stream'.exists = stream.exists \/ CClose(m)
    BY <1>1, <1>3, Drains1 DEF CDrop, CContinue, CData, CShutdown, CConnected, StreamSame
  <2>2. CClose(m) => toClient' = <<>> /\ ~socket.exists /\ ~Has(toRelay, "CONNECT")
    BY <1>1, <1>4, <1>5 DEF CClose, InEnds
  <2>3. stream.exists \/ guest.st = "closed"
    BY <1>1, <1>3 DEF InEnds
  <2>. QED
    BY <1>1, <1>3, <1>4, <1>6, <2>1, <2>2, <2>3 DEF InEnds
<1>8. ASSUME guest.st # "closed" PROVE Ending'
  <2>1. Ending /\ stream.exists
    BY <1>1, <1>3, <1>8 DEF InEnds
  <2>2. LastOf(toClient', "SHUTDOWN", "DATA") /\ (m.type = "SHUTDOWN" => ~Has(toClient', "DATA"))
    BY <1>1, <1>2, <1>3, <2>1, LastOfTaken DEF Inner, Ending
  <2>3. ASSUME UNCHANGED toGuest PROVE Ending'
    BY <1>3, <1>4, <2>1, <2>2, <2>3 DEF Ending, Marked
  <2>4. ASSUME NEW x \in ToGuest, toGuest' = Append(toGuest, x), x.type = "pipe-data" => ~Marked
        PROVE  /\ LastOf(toGuest', "pipe-shutdown", "pipe-data") /\ LastOf(toGuest', "pipe-close", "pipe-data")
               /\ Marked' => Marked \/ x.type \in {"pipe-shutdown", "pipe-close"}
    <3>1. \A t : Has(toGuest', t) <=> Has(toGuest, t) \/ x.type = t
      BY <1>1, <2>4, HasAdded DEF Inner
    <3>2. /\ LastOf(toGuest, "pipe-shutdown", "pipe-data") /\ LastOf(toGuest, "pipe-close", "pipe-data")
          /\ x.type = "pipe-data" => ~Has(toGuest, "pipe-shutdown") /\ ~Has(toGuest, "pipe-close")
      BY <2>1, <2>4 DEF Ending, Marked
    <3>3. /\ LastOf(Append(toGuest, x), "pipe-shutdown", "pipe-data")
          /\ LastOf(Append(toGuest, x), "pipe-close", "pipe-data")
      BY <1>1, <2>4, <3>2, LastOfAdded DEF Inner
    <3>. QED
      BY <1>3, <2>4, <3>1, <3>3 DEF Marked
  <2>5. CASE CDrop(m)
    BY <2>1, <2>5 DEF CDrop
  <2>6. CASE CContinue(m)
    BY <2>3, <2>6 DEF CContinue
  <2>7. CASE CData(m)
    <3>1. ~Marked
      BY <1>4, <2>1, <2>7 DEF CData, Ending
    <3>2. PICK x : x = Pkt("pipe-data", m.n)
      OBVIOUS
    <3>3. x \in ToGuest /\ toGuest' = Append(toGuest, x) /\ x.type = "pipe-data"
      BY <2>7, <3>2, Fields DEF CData
    <3>4. /\ LastOf(toGuest', "pipe-shutdown", "pipe-data") /\ LastOf(toGuest', "pipe-close", "pipe-data")
          /\ ~Marked'
      BY <2>4, <3>1, <3>3
    <3>. QED
      BY <1>3, <1>4, <2>1, <2>2, <3>4 DEF Ending
  <2>8. CASE CShutdown(m)
    <3>1. /\ LastOf(toGuest', "pipe-shutdown", "pipe-data") /\ LastOf(toGuest', "pipe-close", "pipe-data")
      BY <2>4, <2>8, Sendable, Fields DEF CShutdown
    <3>2. ~Has(toClient', "DATA") /\ (socket.ended \/ ~socket.exists)
      BY <1>4, <2>1, <2>2, <2>8 DEF CShutdown, Ending
    <3>. QED
      BY <1>3, <2>2, <3>1, <3>2 DEF Ending
  <2>9. CASE CConnected(m)
    <3>1. /\ LastOf(toGuest', "pipe-shutdown", "pipe-data") /\ LastOf(toGuest', "pipe-close", "pipe-data")
          /\ Marked' => Marked
      BY <2>4, <2>9, Sendable, Fields DEF CConnected
    <3>. QED
      BY <1>3, <1>4, <2>1, <2>2, <3>1 DEF Ending
  <2>10. CASE CClose(m)
    <3>1. PICK x : x = Pkt("pipe-close", m.n)
      OBVIOUS
    <3>2. x \in ToGuest /\ toGuest' = Append(toGuest, x) /\ x.type = "pipe-close" /\ m.type = "CLOSE"
      BY <2>10, <3>1, Fields DEF CClose
    <3>3. /\ LastOf(toGuest', "pipe-shutdown", "pipe-data") /\ LastOf(toGuest', "pipe-close", "pipe-data")
      BY <2>4, <3>2
    <3>4. ~socket.exists /\ toClient' = <<>>
      BY <1>1, <1>4, <1>5, <3>2 DEF InEnds
    <3>. QED
      BY <1>3, <2>2, <3>3, <3>4, HasNothing DEF Ending
  <2>. QED
    BY <1>3, <2>5, <2>6, <2>7, <2>8, <2>9, <2>10
<1>. QED
  BY <1>1, <1>3, <1>5, <1>7, <1>8 DEF InEnds

(* A step of the relay, which sends only while it has the stream.           *)
LEMMA InEndsRelay ==
  ASSUME IInv, UNCHANGED <<guest, toKernel, toGuest, stream>>,
         Has(toRelay', "CONNECT") => Has(toRelay, "CONNECT"),
         socket'.exists => socket.exists \/ (Has(toRelay, "CONNECT") /\ toClient' = <<>>),
         "in" \in cut' => "in" \in cut \/ (~socket'.exists /\ ~Has(toRelay', "CONNECT")),
         socket'.ended => peer'.writer = "ended" /\ socket'.sent = peer'.sent,
         guest.st # "closed" /\ (Marked \/ Has(toClient, "SHUTDOWN")) => socket'.ended \/ ~socket'.exists,
         NEW x \in ToClient,
         toClient' # toClient =>
           /\ socket.exists /\ toClient' = Append(toClient, x)
           /\ x.type = "CLOSE" => ~socket'.exists /\ ~Has(toRelay', "CONNECT")
           /\ x.type = "DATA" /\ guest.st # "closed" => ~Marked /\ ~Has(toClient, "SHUTDOWN")
           /\ x.type = "SHUTDOWN" => socket'.ended
  PROVE  InEnds'
<1>1. TypeOK /\ InEnds /\ Inner
  BY InnerType DEF IInv
<1>2. toClient' = toClient \/ (socket.exists /\ toClient' = Append(toClient, x))
  OBVIOUS
<1>3. \A t : Has(toClient', t) => Has(toClient, t) \/ (toClient' # toClient /\ x.type = t)
  <2>1. \A t : Has(Append(toClient, x), t) <=> Has(toClient, t) \/ x.type = t
    BY <1>1, HasAdded DEF Inner
  <2>. QED
    BY <1>2, <2>1
<1>4. ClosesLast(toClient')
  <2>1. socket.exists => ClosesLast(Append(toClient, x))
    BY <1>1, ClosesAdded DEF InEnds, Inner
  <2>. QED
    BY <1>1, <1>2, <2>1 DEF InEnds
<1>5. Has(toClient', "CLOSE") \/ "in" \in cut' => ~socket'.exists /\ ~Has(toRelay', "CONNECT")
  BY <1>1, <1>2, <1>3 DEF InEnds
<1>6. \/ stream'.exists \/ guest'.st = "closed"
      \/ toClient' = <<>> /\ ~socket'.exists /\ ~Has(toRelay', "CONNECT")
  BY <1>1, <1>2 DEF InEnds
<1>7. ASSUME guest.st # "closed" PROVE Ending'
  <2>1. Ending
    BY <1>1, <1>7 DEF InEnds
  <2>2. Marked' <=> Marked
    BY DEF Marked
  <2>3. LastOf(toClient', "SHUTDOWN", "DATA")
    <3>1. (x.type = "DATA" => ~Has(toClient, "SHUTDOWN")) => LastOf(Append(toClient, x), "SHUTDOWN", "DATA")
      BY <1>1, <2>1, LastOfAdded DEF Ending, Inner
    <3>. QED
      BY <1>2, <1>7, <2>1, <3>1 DEF Ending
  <2>. QED
    BY <1>3, <1>7, <2>1, <2>2, <2>3 DEF Ending
<1>. QED
  BY <1>1, <1>4, <1>5, <1>6, <1>7 DEF InEnds

LEMMA InEndsRelayPacket ==
  ASSUME IInv, OnRelayPacket PROVE InEnds'
<1>1. TypeOK /\ Fresh /\ InEnds /\ toRelay \in Seq(ToRelay)
  BY DEF IInv, TypeOK
<1>2. PICK m : m = Head(toRelay)
  OBVIOUS
<1>3. /\ toRelay # <<>> /\ toRelay' = Tail(toRelay)
      /\ UNCHANGED <<guest, toKernel, toGuest, stream, peer, cut>>
      /\ RConnect(m) \/ RDrop(m) \/ RData(m) \/ RRefuse(m) \/ RShutdown(m) \/ RAck(m) \/ RClose(m)
  BY <1>1, <1>2, RelayReads, Zenon
<1>4. /\ Has(toRelay, "CONNECT") <=> m.type = "CONNECT" \/ Has(toRelay', "CONNECT")
  BY <1>1, <1>2, <1>3, HasTaken
<1>5. /\ Pkt("CONTINUE", CREDIT) \in ToClient /\ Pkt("CONTINUE", CREDIT).type = "CONTINUE"
      /\ Pkt("CLOSE", ERR) \in ToClient /\ Pkt("CLOSE", ERR).type = "CLOSE"
  BY Sendable, Fields
<1>6. /\ socket.ended => peer.writer = "ended" /\ socket.sent = peer.sent
      /\ guest.st # "closed" /\ (Marked \/ Has(toClient, "SHUTDOWN")) => socket.ended \/ ~socket.exists
  BY <1>1 DEF InEnds, Ending
<1>7. CASE RConnect(m)
  <2>1. Untouched /\ m.type = "CONNECT" /\ Has(toRelay, "CONNECT")
    BY <1>1, <1>4, <1>7 DEF RConnect, Fresh, Untouched
  <2>2. toClient = <<>> /\ toGuest = <<>> /\ guest.inbox = <<>> /\ guest.reader = "reading"
    BY <1>1, <2>1 DEF Fresh
  <2>3. ~Marked /\ ~Has(toClient, "SHUTDOWN")
    BY <2>2, HasNothing DEF Marked, Holds
  <2>. QED
    BY <1>3, <1>4, <1>5, <1>7, <2>1, <2>2, <2>3, InEndsRelay DEF RConnect
<1>8. CASE RDrop(m) \/ RShutdown(m) \/ RAck(m) \/ RClose(m)
  <2>1. /\ UNCHANGED toClient /\ (socket'.exists => socket.exists /\ socket'.ended = socket.ended)
        /\ socket'.ended => socket.ended /\ socket'.sent = socket.sent
    BY <1>8 DEF RDrop, RShutdown, RAck, RClose, Ends, Accounts, SocketGone
  <2>. QED
    BY <1>3, <1>4, <1>5, <1>6, <2>1, InEndsRelay
<1>9. CASE RData(m)
  <2>1. socket'.exists = socket.exists /\ socket'.ended = socket.ended /\ socket'.sent = socket.sent /\ socket.exists
    BY <1>9 DEF RData, Ends, Accounts
  <2>2. toClient' = toClient \/ toClient' = Append(toClient, Pkt("CONTINUE", CREDIT))
    BY <1>9 DEF RData, Granted
  <2>. QED
    BY <1>3, <1>4, <1>5, <1>6, <2>1, <2>2, InEndsRelay
<1>10. CASE RRefuse(m)
  <2>1. /\ socket.exists /\ ~socket'.exists /\ ~socket'.ended /\ toClient' = Append(toClient, Pkt("CLOSE", ERR))
    BY <1>10 DEF RRefuse, SocketGone
  <2>2. ~Has(toRelay, "CONNECT")
    BY <1>1, <2>1 DEF Fresh
  <2>. QED
    BY <1>3, <1>4, <1>5, <2>1, <2>2, InEndsRelay
<1>. QED
  BY <1>3, <1>7, <1>8, <1>9, <1>10

LEMMA InEndsStep ==
  ASSUME IInv, [Next]_vars PROVE InEnds'
<1>1. TypeOK /\ Fresh /\ InEnds
  BY DEF IInv
<1>2. /\ Pkt("CONNECTED", 0) \in ToClient /\ Pkt("CONNECTED", 0).type = "CONNECTED"
      /\ Pkt("SHUTDOWN", 0) \in ToClient /\ Pkt("SHUTDOWN", 0).type = "SHUTDOWN"
      /\ Pkt("CONTINUE", CREDIT) \in ToClient /\ Pkt("CONTINUE", CREDIT).type = "CONTINUE"
      /\ Pkt("CLOSE", ERR) \in ToClient /\ Pkt("CLOSE", ERR).type = "CLOSE"
      /\ Pkt("CLOSE", EOF) \in ToClient /\ Pkt("CLOSE", EOF).type = "CLOSE"
  BY Sendable, Fields
<1>3. /\ socket.ended => peer.writer = "ended" /\ socket.sent = peer.sent
      /\ guest.st # "closed" /\ (Marked \/ Has(toClient, "SHUTDOWN")) => socket.ended \/ ~socket.exists
      /\ socket.exists => ~Has(toRelay, "CONNECT")
  BY <1>1 DEF InEnds, Ending, Fresh
<1>4. CASE UNCHANGED vars
  BY <1>1, <1>4 DEF vars, InEnds, Ending, Marked
<1>5. CASE Connects
  BY <1>1, <1>2, <1>3, <1>5, ConnectsEffect, InEndsRelay
<1>6. CASE DialFails
  BY <1>1, <1>2, <1>3, <1>6, DialFailsEffect, InEndsRelay DEF SocketGone
<1>7. CASE OnData
  <2>1. PICK x : x = Pkt("DATA", socket.sent + 1)
    OBVIOUS
  <2>2. /\ UNCHANGED <<guest, toKernel, toGuest, stream, toRelay, peer, cut>> /\ socket.exists /\ socket'.exists
        /\ socket'.ended = socket.ended /\ socket.sent < peer.sent
        /\ toClient' = Append(toClient, x) /\ x \in ToClient /\ x.type = "DATA"
    BY <1>1, <1>7, <2>1, OnDataEffect, Sendable, Fields
  <2>3. socket.sent \in Nat /\ peer.sent \in Nat
    BY <1>1, Numbers DEF TypeOK, Session, Program
  <2>4. ~socket.ended
    BY <1>3, <2>2, <2>3
  <2>. QED
    BY <1>3, <2>2, <2>4, InEndsRelay
<1>8. CASE OnEnd
  <2>1. /\ UNCHANGED <<guest, toKernel, toGuest, stream, toRelay, peer>> /\ socket.exists /\ socket'.ended
        /\ socket'.sent = socket.sent /\ socket.sent = peer.sent /\ peer.writer = "ended"
        /\ "in" \in cut' => "in" \in cut
        /\ toClient' = Append(toClient, Pkt("SHUTDOWN", 0))
    BY <1>1, <1>8, OnEndEffect
  <2>. QED
    BY <1>2, <1>3, <2>1, InEndsRelay
<1>9. CASE Flush
  <2>1. /\ UNCHANGED <<guest, toKernel, toGuest, stream, toRelay, cut>> /\ socket.exists /\ socket'.exists
        /\ socket'.ended = socket.ended /\ socket'.sent = socket.sent
        /\ peer'.sent = peer.sent /\ peer'.writer = peer.writer
    BY <1>1, <1>9, FlushEffect DEF Alike, TypeOK, Session, Program
  <2>2. toClient' = toClient \/ toClient' = Append(toClient, Pkt("CONTINUE", CREDIT))
    BY <1>1, <1>9, FlushEffect DEF Granted
  <2>. QED
    BY <1>2, <1>3, <2>1, <2>2, InEndsRelay
<1>10. CASE OnClose
  BY <1>1, <1>2, <1>3, <1>10, OnCloseEffect, InEndsRelay DEF SocketGone
<1>11. CASE Reset
  BY <1>1, <1>2, <1>3, <1>11, ResetEffect, InEndsRelay DEF SocketGone
<1>12. CASE PeerWrites \/ PeerEnds \/ PeerReadsEnd
  <2>1. /\ UNCHANGED <<guest, toKernel, toGuest, stream, toRelay, toClient, socket, cut>>
        /\ peer.writer # "open" => peer'.writer = peer.writer /\ peer'.sent = peer.sent
    BY <1>1, <1>12, PeerEffect
  <2>. QED
    BY <1>2, <1>3, <2>1, InEndsRelay
<1>13. CASE WebSocketLost
  <2>1. PICK x : x = Pkt("pipe-close", ERR)
    OBVIOUS
  <2>2. /\ UNCHANGED <<guest, toKernel, peer>> /\ ~socket'.exists /\ ~socket'.ended
        /\ toClient' = <<>> /\ toRelay' = <<>>
        /\ toGuest' = Append(toGuest, x) /\ x \in ToGuest /\ x.type = "pipe-close"
    BY <1>1, <1>13, <2>1, WebSocketLostEffect, Sendable, Fields DEF SocketGone
  <2>3. ASSUME guest.st # "closed" PROVE Ending'
    <3>1. LastOf(toGuest, "pipe-shutdown", "pipe-data") /\ LastOf(toGuest, "pipe-close", "pipe-data")
          /\ toGuest \in Seq(ToGuest)
      BY <1>1, <2>3 DEF InEnds, Ending, TypeOK
    <3>2. /\ LastOf(Append(toGuest, x), "pipe-shutdown", "pipe-data")
          /\ LastOf(Append(toGuest, x), "pipe-close", "pipe-data")
      BY <2>2, <3>1, LastOfAdded
    <3>3. LastOf(<<>>, "SHUTDOWN", "DATA")
      BY DEF LastOf
    <3>. QED
      BY <2>2, <3>2, <3>3, HasNothing DEF Ending
  <2>4. ClosesLast(<<>>)
    BY DEF ClosesLast
  <2>. QED
    BY <1>1, <2>2, <2>3, <2>4, HasNothing DEF InEnds
<1>. QED
  BY <1>4, <1>5, <1>6, <1>7, <1>8, <1>9, <1>10, <1>11, <1>12, <1>13,
     InEndsGuest, InEndsKernel, InEndsPacket, InEndsRelayPacket DEF Next, Relay, Peer

-----------------------------------------------------------------------------
(* Inwards: what an end entitles to.                                        *)

LEMMA BehindTaken ==
  ASSUME NEW S, NEW s \in Seq(S), s # <<>>, NEW x, NEW y, Behind(s, x, y)
  PROVE  s[1] # x /\ (s[1] # y => Behind(Tail(s), x, y))
<1>1. /\ Len(Tail(s)) = Len(s) - 1 /\ Len(s) \in Nat /\ 1 \in 1..Len(s)
      /\ \A i \in 1..Len(Tail(s)) : Tail(s)[i] = s[i + 1]
      /\ \A i \in 1..Len(s) : i # 1 => i - 1 \in 1..Len(Tail(s)) /\ s[i] = Tail(s)[i - 1]
  BY Taken
<1>2. s[1] # x
  BY <1>1 DEF Behind
<1>3. ASSUME s[1] # y, NEW i \in 1..Len(Tail(s)), Tail(s)[i] = x PROVE \E j \in 1..i-1 : Tail(s)[j] = y
  <2>1. i \in Nat /\ i + 1 \in 1..Len(s) /\ s[i + 1] = x
    BY <1>1, <1>3
  <2>2. PICK j \in 1..i : s[j] = y
    BY <2>1 DEF Behind
  <2>3. j # 1 /\ j - 1 \in 1..i - 1 /\ j \in 1..Len(s)
    BY <1>1, <1>3, <2>1, <2>2
  <2>. QED
    BY <1>1, <2>2, <2>3
<1>. QED
  BY <1>2, <1>3 DEF Behind

LEMMA BehindAdded ==
  ASSUME NEW S, NEW s \in Seq(S), NEW m \in S, NEW x, NEW y, Behind(s, x, y), m = x => Holds(s, y)
  PROVE  Behind(Append(s, m), x, y)
<1>1. /\ Len(Append(s, m)) = Len(s) + 1 /\ Len(s) \in Nat /\ Append(s, m)[Len(s) + 1] = m
      /\ \A i \in 1..Len(s) : Append(s, m)[i] = s[i]
  BY Added
<1>. SUFFICES ASSUME NEW i \in 1..Len(s) + 1, Append(s, m)[i] = x PROVE \E j \in 1..i-1 : Append(s, m)[j] = y
  BY <1>1 DEF Behind
<1>2. CASE i \in 1..Len(s)
  <2>1. PICK j \in 1..i-1 : s[j] = y
    BY <1>1, <1>2 DEF Behind
  <2>. QED
    BY <1>1, <1>2, <2>1
<1>3. CASE i = Len(s) + 1
  <2>1. PICK j \in 1..Len(s) : s[j] = y
    BY <1>1, <1>3 DEF Holds
  <2>. QED
    BY <1>1, <1>3, <2>1
<1>. QED
  BY <1>1, <1>2, <1>3

LEMMA BehindOfTaken ==
  ASSUME NEW S, NEW q \in Seq(S), q # <<>>, NEW e, NEW t, BehindOf(q, e, t)
  PROVE  Head(q).type # e /\ (Head(q).type # t => BehindOf(Tail(q), e, t))
<1>1. /\ Len(Tail(q)) = Len(q) - 1 /\ Len(q) \in Nat /\ 1 \in 1..Len(q) /\ Head(q) = q[1]
      /\ \A i \in 1..Len(Tail(q)) : Tail(q)[i] = q[i + 1]
      /\ \A i \in 1..Len(q) : i # 1 => i - 1 \in 1..Len(Tail(q)) /\ q[i] = Tail(q)[i - 1]
  BY Taken
<1>2. q[1].type # e
  BY <1>1 DEF BehindOf
<1>3. ASSUME q[1].type # t, NEW i \in 1..Len(Tail(q)), Tail(q)[i].type = e
      PROVE  \E j \in 1..i-1 : Tail(q)[j].type = t
  <2>1. i \in Nat /\ i + 1 \in 1..Len(q) /\ q[i + 1].type = e
    BY <1>1, <1>3
  <2>2. PICK j \in 1..i : q[j].type = t
    BY <2>1 DEF BehindOf
  <2>3. j # 1 /\ j - 1 \in 1..i - 1 /\ j \in 1..Len(q)
    BY <1>1, <1>3, <2>1, <2>2
  <2>. QED
    BY <1>1, <2>2, <2>3
<1>. QED
  BY <1>1, <1>2, <1>3 DEF BehindOf

LEMMA BehindOfAdded ==
  ASSUME NEW S, NEW q \in Seq(S), NEW m \in S, NEW e, NEW t, BehindOf(q, e, t), m.type = e => Has(q, t)
  PROVE  BehindOf(Append(q, m), e, t)
<1>1. /\ Len(Append(q, m)) = Len(q) + 1 /\ Len(q) \in Nat /\ Append(q, m)[Len(q) + 1] = m
      /\ \A i \in 1..Len(q) : Append(q, m)[i] = q[i]
  BY Added
<1>. SUFFICES ASSUME NEW i \in 1..Len(q) + 1, Append(q, m)[i].type = e
              PROVE  \E j \in 1..i-1 : Append(q, m)[j].type = t
  BY <1>1 DEF BehindOf
<1>2. CASE i \in 1..Len(q)
  <2>1. PICK j \in 1..i-1 : q[j].type = t
    BY <1>1, <1>2 DEF BehindOf
  <2>. QED
    BY <1>1, <1>2, <2>1
<1>3. CASE i = Len(q) + 1
  <2>1. PICK j \in 1..Len(q) : q[j].type = t
    BY <1>1, <1>3 DEF Has
  <2>. QED
    BY <1>1, <1>3, <2>1
<1>. QED
  BY <1>1, <1>2, <1>3

(* A guest with an open connection is a guest the relay has connected.      *)
LEMMA InCutDeliver ==
  ASSUME IInv, Deliver PROVE InCut'
<1>1. TypeOK /\ Inner /\ InCut /\ Fresh
  BY InnerType DEF IInv
<1>2. PICK x : x = guest.inbox[1]
  OBVIOUS
<1>3. /\ guest.st = "open" /\ guest.reader = "reading" /\ guest.inbox # <<>> /\ x \in 0..ERR
      /\ guest'.st = "open" /\ guest'.inbox = Tail(guest.inbox)
      /\ x \in Chunks => guest'.reader = "reading"
      /\ x = EOF => guest'.reader = "eof"
      /\ x \in Chunks \/ x = EOF \/ x = ERR
      /\ UNCHANGED <<toGuest, toClient, socket, peer, cut>>
  BY <1>1, <1>2, DeliverEffect
<1>. SUFFICES ASSUME "in" \notin cut PROVE Orderly'
  BY <1>3 DEF InCut
<1>4. Orderly /\ socket.connected
  BY <1>1, <1>3 DEF InCut, Fresh
<1>5. x # ERR /\ (x # EOF => Behind(guest'.inbox, ERR, EOF))
  <2>1. Behind(guest.inbox, ERR, EOF)
    BY <1>3, <1>4 DEF Orderly
  <2>2. guest.inbox[1] # ERR /\ (guest.inbox[1] # EOF => Behind(Tail(guest.inbox), ERR, EOF))
    BY <1>1, <1>3, <2>1, BehindTaken DEF Inner
  <2>. QED
    BY <1>2, <1>3, <2>2
<1>6. Holds(guest.inbox, EOF) <=> x = EOF \/ Holds(guest'.inbox, EOF)
  <2>1. /\ 1 \in 1..Len(guest.inbox)
        /\ \A i \in 1..Len(guest'.inbox) : i + 1 \in 1..Len(guest.inbox) /\ guest'.inbox[i] = guest.inbox[i + 1]
        /\ \A i \in 1..Len(guest.inbox) :
             i # 1 => i - 1 \in 1..Len(guest'.inbox) /\ guest.inbox[i] = guest'.inbox[i - 1]
    BY <1>1, <1>3, Taken DEF Inner
  <2>2. Holds(guest'.inbox, EOF) => Holds(guest.inbox, EOF)
    BY <2>1 DEF Holds
  <2>3. Holds(guest.inbox, EOF) => x = EOF \/ Holds(guest'.inbox, EOF)
    BY <1>2, <2>1 DEF Holds
  <2>4. x = EOF => Holds(guest.inbox, EOF)
    BY <1>2, <2>1 DEF Holds
  <2>. QED
    BY <2>2, <2>3, <2>4
<1>7. Told0' <=> Told0
  BY <1>3, <1>5, <1>6, Numbers DEF Told0
<1>8. /\ guest'.reader # "error"
      /\ guest'.reader = "reading" => Behind(guest'.inbox, ERR, EOF)
  BY <1>3, <1>5, Numbers
<1>. QED
  BY <1>3, <1>4, <1>7, <1>8 DEF Orderly, Told2, Told1

LEMMA InCutDispatch ==
  ASSUME IInv, Dispatch PROVE InCut'
<1>1. TypeOK /\ Inner /\ InCut /\ Fresh /\ guest.st \in {"dialing", "open", "closed"}
  BY InnerType DEF IInv, TypeOK, Handle
<1>2. PICK m : m = Head(toGuest)
  OBVIOUS
<1>3. /\ toGuest # <<>> /\ toGuest' = Tail(toGuest) /\ m \in ToGuest
      /\ guest'.reader = guest.reader
      /\ UNCHANGED <<toClient, socket, peer, cut>>
      /\ \/ guest'.st = "closed"
         \/ guest.st # "closed" /\ m.type = "pipe-connected" /\ guest'.inbox = guest.inbox
         \/ /\ guest.st # "closed" /\ m.type # "pipe-connected"
            /\ ~(guest.st = "dialing" /\ m.type = "pipe-close")
            /\ guest'.inbox = Append(guest.inbox, m.n)
  BY <1>1, <1>2, DispatchEffect
<1>. SUFFICES ASSUME "in" \notin cut, guest'.st # "closed" PROVE Orderly'
  BY <1>3 DEF InCut
<1>4. Orderly
  BY <1>1, <1>3 DEF InCut
<1>5. Has(toGuest, "pipe-shutdown") <=> m.type = "pipe-shutdown" \/ Has(toGuest', "pipe-shutdown")
  BY <1>1, <1>2, <1>3, HasTaken DEF Inner
<1>6. BehindOf(toGuest, "pipe-close", "pipe-shutdown") =>
        /\ m.type # "pipe-close"
        /\ m.type # "pipe-shutdown" => BehindOf(toGuest', "pipe-close", "pipe-shutdown")
  <2>1. BehindOf(toGuest, "pipe-close", "pipe-shutdown") =>
          /\ Head(toGuest).type # "pipe-close"
          /\ Head(toGuest).type # "pipe-shutdown" => BehindOf(Tail(toGuest), "pipe-close", "pipe-shutdown")
    BY <1>1, <1>3, BehindOfTaken DEF Inner
  <2>. QED
    BY <1>2, <1>3, <2>1
<1>7. CASE m.type = "pipe-connected"
  <2>1. guest'.inbox = guest.inbox
    BY <1>3, <1>7
  <2>2. (Told0' <=> Told0) /\ (Told2' <=> Told2)
    BY <1>3, <1>5, <1>7, <2>1 DEF Told0, Told1, Told2
  <2>. QED
    BY <1>3, <1>4, <1>6, <1>7, <2>1, <2>2 DEF Orderly
<1>8. ASSUME m.type # "pipe-connected"
      PROVE  /\ Holds(guest'.inbox, EOF) <=> Holds(guest.inbox, EOF) \/ m.n = EOF
             /\ Behind(guest.inbox, ERR, EOF) /\ (m.n = ERR => Holds(guest.inbox, EOF)) =>
                  Behind(guest'.inbox, ERR, EOF)
             /\ ~(guest.st = "dialing" /\ m.type = "pipe-close")
  <2>1. m.n \in 0..ERR /\ guest'.inbox = Append(guest.inbox, m.n)
        /\ ~(guest.st = "dialing" /\ m.type = "pipe-close")
    BY <1>3, <1>8, Contents, Numbers
  <2>2. /\ Len(guest'.inbox) = Len(guest.inbox) + 1 /\ guest'.inbox[Len(guest.inbox) + 1] = m.n
        /\ \A i \in 1..Len(guest.inbox) : guest'.inbox[i] = guest.inbox[i]
    BY <1>1, <2>1, Added DEF Inner
  <2>3. \A i \in 1..Len(guest'.inbox) : i \in 1..Len(guest.inbox) \/ i = Len(guest.inbox) + 1
    BY <1>1, <2>2 DEF Inner
  <2>4. /\ \A i \in 1..Len(guest.inbox) : i \in 1..Len(guest'.inbox)
        /\ Len(guest.inbox) + 1 \in 1..Len(guest'.inbox)
    BY <1>1, <2>2 DEF Inner
  <2>5. Holds(guest'.inbox, EOF) <=> Holds(guest.inbox, EOF) \/ m.n = EOF
    BY <2>2, <2>3, <2>4 DEF Holds
  <2>6. Behind(guest.inbox, ERR, EOF) /\ (m.n = ERR => Holds(guest.inbox, EOF)) =>
          Behind(Append(guest.inbox, m.n), ERR, EOF)
    BY <1>1, <2>1, BehindAdded DEF Inner
  <2>. QED
    BY <2>1, <2>5, <2>6
<1>9. CASE m.type = "pipe-data"
  <2>1. m.n # EOF /\ m.n # ERR
    BY <1>3, <1>9, Contents, Numbers
  <2>2. (Told0' <=> Told0) /\ (Told2' <=> Told2)
    BY <1>3, <1>5, <1>8, <1>9, <2>1 DEF Told0, Told1, Told2
  <2>. QED
    BY <1>3, <1>4, <1>6, <1>8, <1>9, <2>1, <2>2 DEF Orderly
<1>10. CASE m.type = "pipe-shutdown"
  <2>1. m.n = EOF /\ EOF # ERR
    BY <1>3, <1>10, Contents, Numbers
  <2>2. Told0' /\ Told2' /\ Told2
    BY <1>5, <1>8, <1>10, <2>1 DEF Told0, Told1, Told2
  <2>. QED
    BY <1>3, <1>4, <1>8, <1>10, <2>1, <2>2 DEF Orderly
<1>11. CASE m.type = "pipe-close"
  <2>1. guest.st = "open" /\ socket.connected
    BY <1>1, <1>3, <1>8, <1>11 DEF Fresh
  <2>2. Told0
    BY <1>4, <1>6, <1>11, <2>1 DEF Orderly
  <2>3. Told0' /\ Told2' /\ Told2
    BY <1>3, <1>8, <1>11, <2>2 DEF Told0, Told1, Told2
  <2>4. guest.reader = "reading" => Behind(guest'.inbox, ERR, EOF)
    BY <1>4, <1>8, <1>11, <2>1, <2>2 DEF Orderly, Told0
  <2>. QED
    BY <1>3, <1>4, <2>3, <2>4 DEF Orderly
<1>. QED
  BY <1>3, <1>7, <1>9, <1>10, <1>11, Contents

LEMMA InCutPacket ==
  ASSUME IInv, OnPacket PROVE InCut'
<1>1. TypeOK /\ Inner /\ InCut /\ InEnds
  BY InnerType DEF IInv
<1>2. PICK m : m = Head(toClient)
  OBVIOUS
<1>3. /\ toClient # <<>> /\ toClient' = Tail(toClient) /\ m \in ToClient
      /\ UNCHANGED <<guest, toKernel, socket, peer, cut>>
      /\ CDrop(m) \/ CContinue(m) \/ CData(m) \/ CShutdown(m) \/ CConnected(m) \/ CClose(m)
  BY <1>1, <1>2, PacketReads, Zenon
<1>. SUFFICES ASSUME "in" \notin cut, guest.st # "closed" PROVE Orderly'
  BY <1>3 DEF InCut
<1>4. Orderly /\ stream.exists
  BY <1>1, <1>3 DEF InCut, InEnds
<1>5. \A t : Has(toClient, t) <=> m.type = t \/ Has(toClient', t)
  BY <1>1, <1>2, <1>3, HasTaken DEF Inner
<1>6. Told0' <=> Told0
  BY <1>3 DEF Told0
<1>7. ASSUME UNCHANGED toGuest, m.type \notin {"SHUTDOWN", "CLOSE"} PROVE Orderly'
  <2>1. Told2' <=> Told2
    BY <1>5, <1>6, <1>7 DEF Told1, Told2
  <2>. QED
    BY <1>3, <1>4, <1>5, <1>6, <1>7, <2>1 DEF Orderly
<1>8. ASSUME NEW x \in ToGuest, toGuest' = Append(toGuest, x),
             m.type = "SHUTDOWN" => x.type = "pipe-shutdown",
             m.type = "CLOSE" \/ x.type = "pipe-shutdown" => Told2,
             m.type = "CLOSE" => ~Has(toClient, "SHUTDOWN") /\ ~Has(toClient', "CLOSE"),
             x.type = "pipe-close" => m.type = "CLOSE"
      PROVE  Orderly'
  <2>1. \A t : Has(toGuest', t) <=> Has(toGuest, t) \/ x.type = t
    BY <1>1, <1>8, HasAdded DEF Inner
  <2>2. Told2' <=> Told2
    BY <1>5, <1>6, <1>8, <2>1 DEF Told1, Told2
  <2>3. ASSUME ~Told0, socket.connected PROVE BehindOf(toGuest', "pipe-close", "pipe-shutdown")
    <3>1. BehindOf(toGuest, "pipe-close", "pipe-shutdown")
      BY <1>4, <2>3 DEF Orderly
    <3>2. x.type = "pipe-close" => Has(toGuest, "pipe-shutdown")
      BY <1>8, <2>3 DEF Told1, Told2
    <3>3. BehindOf(Append(toGuest, x), "pipe-close", "pipe-shutdown")
      BY <1>1, <1>8, <3>1, <3>2, BehindOfAdded DEF Inner
    <3>. QED
      BY <1>8, <3>3
  <2>. QED
    BY <1>3, <1>4, <1>5, <1>6, <2>2, <2>3 DEF Orderly
<1>9. CASE CDrop(m)
  BY <1>4, <1>9 DEF CDrop
<1>10. CASE CContinue(m)
  BY <1>7, <1>10 DEF CContinue
<1>11. CASE CData(m)
  <2>1. PICK x : x = Pkt("pipe-data", m.n)
    OBVIOUS
  <2>2. x \in ToGuest /\ toGuest' = Append(toGuest, x) /\ x.type = "pipe-data" /\ m.type = "DATA"
    BY <1>11, <2>1, Fields DEF CData
  <2>. QED
    BY <1>8, <2>2
<1>12. CASE CShutdown(m)
  <2>1. PICK x : x = Pkt("pipe-shutdown", EOF)
    OBVIOUS
  <2>2. x \in ToGuest /\ toGuest' = Append(toGuest, x) /\ x.type = "pipe-shutdown" /\ m.type = "SHUTDOWN"
    BY <1>12, <2>1, Fields, Sendable DEF CShutdown
  <2>3. Told2
    BY <1>5, <2>2 DEF Told2
  <2>. QED
    BY <1>8, <2>2, <2>3
<1>13. CASE CConnected(m)
  <2>1. PICK x : x = Pkt("pipe-connected", 0)
    OBVIOUS
  <2>2. x \in ToGuest /\ toGuest' = Append(toGuest, x) /\ x.type = "pipe-connected" /\ m.type = "CONNECTED"
    BY <1>13, <2>1, Fields, Sendable DEF CConnected
  <2>. QED
    BY <1>8, <2>2
<1>14. CASE CClose(m)
  <2>1. PICK x : x = Pkt("pipe-close", m.n)
    OBVIOUS
  <2>2. x \in ToGuest /\ toGuest' = Append(toGuest, x) /\ x.type = "pipe-close" /\ m.type = "CLOSE"
    BY <1>14, <2>1, Fields DEF CClose
  <2>3. toClient' = <<>>
    BY <1>1, <1>2, <1>3, <2>2, ClosesTaken DEF InEnds, Inner
  <2>4. ~Has(toClient, "SHUTDOWN") /\ ~Has(toClient', "CLOSE") /\ ~Has(toClient', "SHUTDOWN")
    BY <1>5, <2>2, <2>3, HasNothing
  <2>5. CASE socket.connected
    <3>1. Told2
      BY <1>4, <1>5, <2>2, <2>5 DEF Orderly
    <3>. QED
      BY <1>8, <2>2, <2>4, <3>1
  <2>6. CASE ~socket.connected
    <3>1. Has(toGuest', "pipe-shutdown") <=> Has(toGuest, "pipe-shutdown")
      BY <1>1, <2>2, HasAdded DEF Inner
    <3>2. Told2' <=> Told2
      BY <1>6, <2>4, <3>1 DEF Told1, Told2
    <3>. QED
      BY <1>3, <1>4, <2>6, <3>2 DEF Orderly
  <2>. QED
    BY <2>5, <2>6
<1>. QED
  BY <1>3, <1>9, <1>10, <1>11, <1>12, <1>13, <1>14

(* A step of the relay: it closes in order only what it has ended.          *)
LEMMA InCutRelay ==
  ASSUME IInv, UNCHANGED <<guest, toGuest>>, "in" \in cut => "in" \in cut', NEW x \in ToClient,
         toClient' = toClient \/ toClient' = Append(toClient, x),
         guest.st # "closed" /\ "in" \notin cut' =>
           /\ Told2 \/ (toClient' # toClient /\ x.type = "SHUTDOWN") =>
                peer'.writer = "ended" /\ socket'.sent = peer'.sent
           /\ socket'.ended => Told2 \/ (toClient' = Append(toClient, x) /\ x.type = "SHUTDOWN")
           /\ toClient' # toClient /\ x.type = "CLOSE" /\ socket'.connected => Told2
           /\ socket'.connected => \/ socket.connected
                                   \/ /\ guest.inbox = <<>> /\ toGuest = <<>> /\ toClient = <<>>
                                      /\ x.type # "CLOSE"
  PROVE  InCut'
<1>1. TypeOK /\ Inner /\ InCut
  BY InnerType DEF IInv
<1>. SUFFICES ASSUME "in" \notin cut', guest.st # "closed" PROVE Orderly'
  BY DEF InCut
<1>2. Orderly
  BY <1>1 DEF InCut
<1>3. \A t : Has(Append(toClient, x), t) <=> Has(toClient, t) \/ x.type = t
  BY <1>1, HasAdded DEF Inner
<1>4. Told0' <=> Told0
  BY DEF Told0
<1>5. /\ Told2' => Told2 \/ (toClient' # toClient /\ x.type = "SHUTDOWN")
      /\ Told2 \/ (toClient' = Append(toClient, x) /\ x.type = "SHUTDOWN") => Told2'
  BY <1>3, <1>4 DEF Told1, Told2
<1>6. /\ Told2' => peer'.writer = "ended" /\ socket'.sent = peer'.sent
      /\ socket'.ended => Told2'
  BY <1>5
<1>7. ASSUME socket'.connected
      PROVE  /\ guest'.reader = "reading" => Behind(guest'.inbox, ERR, EOF)
             /\ ~Told0' => BehindOf(toGuest', "pipe-close", "pipe-shutdown")
             /\ Has(toClient', "CLOSE") => Told2'
  <2>1. CASE socket.connected
    <3>1. Has(toClient', "CLOSE") => Told2
      BY <1>2, <1>3, <1>7, <2>1 DEF Orderly
    <3>. QED
      BY <1>2, <1>4, <1>5, <2>1, <3>1 DEF Orderly
  <2>2. CASE guest.inbox = <<>> /\ toGuest = <<>> /\ toClient = <<>> /\ x.type # "CLOSE"
    <3>1. ~Has(toClient', "CLOSE")
      BY <1>3, <2>2, HasNothing
    <3>2. Behind(<<>>, ERR, EOF) /\ BehindOf(<<>>, "pipe-close", "pipe-shutdown")
      BY DEF Behind, BehindOf
    <3>. QED
      BY <2>2, <3>1, <3>2
  <2>. QED
    BY <1>7, <2>1, <2>2
<1>. QED
  BY <1>2, <1>6, <1>7 DEF Orderly

LEMMA NotTold ==
  ASSUME IInv, Untouched PROVE ~Told2
<1>1. guest.inbox = <<>> /\ toGuest = <<>> /\ toClient = <<>> /\ guest.reader = "reading"
  BY DEF IInv, Fresh
<1>. QED
  BY <1>1, HasNothing DEF Told2, Told1, Told0, Holds

LEMMA InCutRelayPacket ==
  ASSUME IInv, OnRelayPacket PROVE InCut'
<1>1. TypeOK /\ Fresh /\ InCut /\ InEnds /\ OutEnds /\ toRelay \in Seq(ToRelay)
  BY DEF IInv, TypeOK
<1>2. PICK m : m = Head(toRelay)
  OBVIOUS
<1>3. /\ toRelay # <<>> /\ toRelay' = Tail(toRelay)
      /\ UNCHANGED <<guest, toKernel, toGuest, stream, peer, cut>>
      /\ RConnect(m) \/ RDrop(m) \/ RData(m) \/ RRefuse(m) \/ RShutdown(m) \/ RAck(m) \/ RClose(m)
  BY <1>1, <1>2, RelayReads, Zenon
<1>4. \A t : m.type = t => Has(toRelay, t)
  BY <1>1, <1>2, <1>3, HasTaken
<1>5. /\ Pkt("CONTINUE", CREDIT) \in ToClient /\ Pkt("CONTINUE", CREDIT).type = "CONTINUE"
      /\ Pkt("CLOSE", ERR) \in ToClient /\ Pkt("CLOSE", ERR).type = "CLOSE"
  BY Sendable, Fields
<1>6. guest.st # "closed" /\ "in" \notin cut =>
        /\ Told2 => peer.writer = "ended" /\ socket.sent = peer.sent
        /\ socket.ended => Told2
  BY <1>1 DEF InCut, Orderly
<1>7. CASE RConnect(m)
  <2>1. Untouched
    BY <1>1, <1>4, <1>7 DEF RConnect, Fresh, Untouched
  <2>2. ~Told2
    BY <2>1, NotTold
  <2>. QED
    BY <1>3, <1>5, <1>7, <2>2, InCutRelay DEF RConnect
<1>8. CASE RDrop(m) \/ RShutdown(m) \/ RAck(m) \/ RClose(m)
  <2>1. /\ UNCHANGED toClient /\ socket'.connected = socket.connected
        /\ socket'.ended => socket.ended
        /\ socket'.sent = socket.sent
    BY <1>8 DEF RDrop, RShutdown, RAck, RClose, Ends, Accounts, SocketGone
  <2>. QED
    BY <1>3, <1>5, <1>6, <2>1, InCutRelay
<1>9. CASE RData(m)
  <2>1. socket'.ended = socket.ended /\ socket'.sent = socket.sent /\ socket'.connected = socket.connected
    BY <1>9 DEF RData, Ends, Accounts
  <2>2. toClient' = toClient \/ toClient' = Append(toClient, Pkt("CONTINUE", CREDIT))
    BY <1>9 DEF RData, Granted
  <2>. QED
    BY <1>3, <1>5, <1>6, <2>1, <2>2, InCutRelay
<1>10. CASE RRefuse(m)
  <2>1. /\ socket.exists /\ socket.fin /\ m.type = "DATA" /\ socket'.sent = socket.sent
        /\ socket'.connected = socket.connected
        /\ ~socket'.exists /\ ~socket'.ended /\ toClient' = Append(toClient, Pkt("CLOSE", ERR))
    BY <1>10 DEF RRefuse, SocketGone
  <2>2. socket.ended
    BY <1>1, <1>4, <2>1 DEF OutEnds, HalfShut
  <2>. QED
    BY <1>3, <1>5, <1>6, <2>1, <2>2, InCutRelay
<1>. QED
  BY <1>3, <1>7, <1>8, <1>9, <1>10

LEMMA InCutStep ==
  ASSUME IInv, [Next]_vars PROVE InCut'
<1>1. TypeOK /\ Fresh /\ InCut /\ InEnds
  BY DEF IInv
<1>2. /\ Pkt("CONNECTED", 0) \in ToClient /\ Pkt("CONNECTED", 0).type = "CONNECTED"
      /\ Pkt("SHUTDOWN", 0) \in ToClient /\ Pkt("SHUTDOWN", 0).type = "SHUTDOWN"
      /\ Pkt("CONTINUE", CREDIT) \in ToClient /\ Pkt("CONTINUE", CREDIT).type = "CONTINUE"
      /\ Pkt("CLOSE", ERR) \in ToClient /\ Pkt("CLOSE", ERR).type = "CLOSE"
      /\ Pkt("CLOSE", EOF) \in ToClient /\ Pkt("CLOSE", EOF).type = "CLOSE"
  BY Sendable, Fields
<1>3. guest.st # "closed" /\ "in" \notin cut =>
        /\ Told2 => peer.writer = "ended" /\ socket.sent = peer.sent
        /\ socket.ended => Told2
  BY <1>1 DEF InCut, Orderly
<1>4. CASE UNCHANGED vars \/ FromGuest
  <2>1. UNCHANGED <<guest, toGuest, toClient, socket, peer, cut>>
    BY <1>4 DEF vars, FromGuest
  <2>. QED
    BY <1>1, <2>1 DEF InCut, Orderly, Told2, Told1, Told0
<1>5. CASE Write \/ Shutdown
  <2>1. ReaderSame /\ UNCHANGED <<toGuest, toClient, socket, peer, cut>>
    BY <1>1, <1>5, WriteEffect, ShutdownEffect
  <2>. QED
    BY <1>1, <2>1 DEF InCut, Orderly, Told2, Told1, Told0, ReaderSame
<1>6. CASE Close
  BY <1>1, <1>6, CloseEffect DEF InCut
<1>7. CASE Connects
  <2>1. /\ Untouched /\ UNCHANGED <<guest, toGuest, peer, cut>> /\ socket'.ended = socket.ended
        /\ socket'.sent = socket.sent /\ toClient' = Append(toClient, Pkt("CONNECTED", 0))
    BY <1>1, <1>7, ConnectsEffect DEF Untouched
  <2>2. guest.inbox = <<>> /\ toGuest = <<>> /\ toClient = <<>> /\ ~socket.ended
    BY <1>1, <2>1 DEF Fresh
  <2>. QED
    BY <1>2, <1>3, <2>1, <2>2, InCutRelay
<1>8. CASE DialFails
  BY <1>1, <1>2, <1>3, <1>8, DialFailsEffect, InCutRelay DEF SocketGone
<1>9. CASE OnData
  <2>1. PICK x : x = Pkt("DATA", socket.sent + 1)
    OBVIOUS
  <2>2. /\ UNCHANGED <<guest, toGuest, peer, cut>> /\ socket'.connected = socket.connected
        /\ socket'.ended = socket.ended /\ socket.sent < peer.sent
        /\ toClient' = Append(toClient, x) /\ x \in ToClient /\ x.type = "DATA"
    BY <1>1, <1>9, <2>1, OnDataEffect, Sendable, Fields
  <2>3. socket.sent \in Nat /\ peer.sent \in Nat
    BY <1>1, Numbers DEF TypeOK, Session, Program
  <2>4. guest.st # "closed" /\ "in" \notin cut => ~Told2 /\ ~socket.ended
    BY <1>3, <2>2, <2>3
  <2>. QED
    BY <2>2, <2>4, InCutRelay
<1>10. CASE OnEnd
  <2>1. /\ UNCHANGED <<guest, toGuest, peer>> /\ socket'.ended /\ socket'.connected /\ socket.connected
        /\ socket'.sent = socket.sent /\ socket.sent = peer.sent /\ peer.writer = "ended"
        /\ cut \subseteq cut'
        /\ toClient' = Append(toClient, Pkt("SHUTDOWN", 0))
    BY <1>1, <1>10, OnEndEffect
  <2>. QED
    BY <1>2, <1>3, <2>1, InCutRelay
<1>11. CASE Flush
  <2>1. /\ UNCHANGED <<guest, toGuest, cut>> /\ socket'.connected = socket.connected
        /\ socket'.ended = socket.ended /\ socket'.sent = socket.sent
        /\ peer'.sent = peer.sent /\ peer'.writer = peer.writer
    BY <1>1, <1>11, FlushEffect DEF Alike, TypeOK, Session, Program
  <2>2. toClient' = toClient \/ toClient' = Append(toClient, Pkt("CONTINUE", CREDIT))
    BY <1>1, <1>11, FlushEffect DEF Granted
  <2>. QED
    BY <1>2, <1>3, <2>1, <2>2, InCutRelay
<1>12. CASE OnClose
  BY <1>1, <1>2, <1>3, <1>12, OnCloseEffect, InCutRelay DEF SocketGone
<1>13. CASE Reset
  BY <1>1, <1>13, ResetEffect DEF InCut
<1>14. CASE PeerWrites \/ PeerEnds \/ PeerReadsEnd
  <2>1. /\ UNCHANGED <<guest, toGuest, toClient, socket, cut>>
        /\ peer.writer # "open" => peer'.writer = peer.writer /\ peer'.sent = peer.sent
    BY <1>1, <1>14, PeerEffect
  <2>. QED
    BY <1>2, <1>3, <2>1, InCutRelay
<1>15. CASE WebSocketLost
  BY <1>1, <1>15, WebSocketLostEffect DEF InCut
<1>. QED
  BY <1>4, <1>5, <1>6, <1>7, <1>8, <1>9, <1>10, <1>11, <1>12, <1>13, <1>14, <1>15,
     InCutDeliver, InCutDispatch, InCutPacket, InCutRelayPacket DEF Next, Guest, Relay, Peer

-----------------------------------------------------------------------------
(* The invariant holds.                                                     *)

LEMMA InitIInv == Init => IInv
<1>. SUFFICES ASSUME Init PROVE IInv
  OBVIOUS
<1>1. PICK dial \in BOOLEAN :
       /\ guest = [st |-> IF dial THEN "dialing" ELSE "open", inbox |-> <<>>,
                   sent |-> 0, writer |-> "open", got |-> 0, reader |-> "reading"]
       /\ pending = dial
       /\ stream = [exists |-> TRUE, credit |-> CREDIT, sendq |-> <<>>, shutdownPending |-> FALSE,
                    connected |-> ~dial, consumed |-> 0, acked |-> 0]
       /\ toRelay = IF dial THEN <<Pkt("CONNECT", 0)>> ELSE <<>>
       /\ toClient = IF dial THEN <<>> ELSE <<Pkt("CONTINUE", CREDIT)>>
       /\ socket = IF dial THEN NoSocket
                   ELSE [NoSocket EXCEPT !.exists = TRUE, !.connected = TRUE]
  BY DEF Init
<1>2. /\ mapped = TRUE /\ toKernel = <<>> /\ toGuest = <<>> /\ cut = {}
      /\ peer = [sent |-> 0, writer |-> "open", got |-> 0, reader |-> "reading"]
  BY DEF Init
<1>3. /\ guest.inbox = <<>> /\ guest.sent = 0 /\ guest.writer = "open" /\ guest.got = 0
      /\ guest.reader = "reading" /\ guest.st = IF dial THEN "dialing" ELSE "open"
      /\ stream.exists /\ stream.sendq = <<>> /\ ~stream.shutdownPending
      /\ stream.consumed = 0 /\ stream.acked = 0
      /\ peer.sent = 0 /\ peer.writer = "open" /\ peer.got = 0 /\ peer.reader = "reading"
  BY <1>1, <1>2
<1>4. /\ socket.exists = ~dial /\ socket.connected = ~dial /\ socket.sent = 0 /\ socket.acked = 0
      /\ ~socket.paused /\ socket.out = <<>> /\ ~socket.fin /\ ~socket.ended
  BY <1>1 DEF NoSocket
<1>5. /\ \A i \in 1..Len(toRelay) : i = 1 /\ toRelay[i].type = "CONNECT"
      /\ \A i \in 1..Len(toClient) : i = 1 /\ toClient[i].type = "CONTINUE"
      /\ dial => toClient = <<>>
      /\ ~dial => toRelay = <<>>
  BY <1>1, Fields
<1>6. TypeOK
  <2>1. guest \in Handle
    BY <1>1, Numbers DEF Handle
  <2>2. stream \in Record
    BY <1>1, Numbers DEF Record
  <2>3. socket \in Session
    <3>1. NoSocket \in Session
      BY Numbers DEF Session, NoSocket
    <3>2. [NoSocket EXCEPT !.exists = TRUE, !.connected = TRUE] \in Session
      BY <3>1 DEF Session
    <3>. QED
      BY <1>1, <3>1, <3>2
  <2>4. peer \in Program
    BY <1>2, Numbers DEF Program
  <2>5. toKernel \in Seq(ToKernel) /\ toGuest \in Seq(ToGuest) /\ mapped \in BOOLEAN /\ pending \in BOOLEAN
    BY <1>1, <1>2
  <2>6. toRelay \in Seq(ToRelay)
    BY <1>1, Sendable
  <2>7. toClient \in Seq(ToClient)
    BY <1>1, Sendable
  <2>. QED
    BY <1>2, <2>1, <2>2, <2>3, <2>4, <2>5, <2>6, <2>7 DEF TypeOK
<1>7. Tables /\ Window
  BY <1>2, <1>3, <1>4, Numbers DEF Tables, Window
<1>8. /\ \A t : ~Has(toKernel, t) /\ ~Has(toGuest, t)
      /\ \A t : t # "CONNECT" => ~Has(toRelay, t)
      /\ \A t : t # "CONTINUE" => ~Has(toClient, t)
      /\ ~dial => ~Has(toRelay, "CONNECT")
      /\ \A x : ~Holds(guest.inbox, x)
  BY <1>2, <1>3, <1>5 DEF Has, Holds
<1>9. Fresh
  <2>1. LastOf(toRelay, "CONNECT", "CONNECT")
    BY <1>5 DEF LastOf
  <2>. QED
    BY <1>2, <1>3, <1>4, <1>5, <1>8, <2>1 DEF Fresh, Untouched
<1>10. Unread
  <2>1. [i \in 0..Len(toKernel) |-> 0] \in [0..Len(toKernel) -> 0..guest.got]
    BY <1>3
  <2>2. Tally([i \in 0..Len(toKernel) |-> 0], toKernel, 0)
    BY <1>2 DEF Tally
  <2>. QED
    BY <1>3, <2>1, <2>2 DEF Unread
<1>11. Acks
  BY <1>3, <1>4, <1>5 DEF Acks
<1>12. OutFlow
  <2>1. /\ Carries(toRelay, "DATA", 0, 0) /\ Carries(toKernel, "pipe-data", 0, 0)
    <3>1. toRelay \in Seq(ToRelay) /\ toKernel \in Seq(ToKernel) /\ 0 \in Nat
      BY <1>6 DEF TypeOK
    <3>. QED
      BY <1>8, <3>1, Kinds, CarriesNone
  <2>2. Run(<<>>, 0) /\ Len(<<>>) = 0
    BY RunNone
  <2>3. Outwards(0)
    BY <1>3, <1>4, <2>1, <2>2 DEF Outwards
  <2>. QED
    BY <1>3, <2>3 DEF OutFlow
<1>13. OutEnds /\ OutCut
  <2>1. LastOf(toKernel, "pipe-shutdown", "pipe-data") /\ LastOf(toRelay, "SHUTDOWN", "DATA")
    BY <1>2, <1>5 DEF LastOf
  <2>. QED
    BY <1>2, <1>3, <1>4, <1>8, <2>1 DEF OutEnds, OutCut, HalfShut
<1>14. InFlow
  <2>1. /\ Carries(toGuest, "pipe-data", 0, 0) /\ Carries(toClient, "DATA", 0, 0)
    <3>1. toGuest \in Seq(ToGuest) /\ toClient \in Seq(ToClient) /\ 0 \in Nat
      BY <1>6 DEF TypeOK
    <3>. QED
      BY <1>8, <3>1, Kinds, CarriesNone
  <2>2. Len(guest.inbox) = 0
    BY <1>3
  <2>3. Inwards(0, 0, 0)
    BY <1>3, <1>4, <1>8, <2>1, <2>2 DEF Inwards
  <2>. QED
    BY <1>4, <2>2, <2>3 DEF InFlow
<1>15. ~Marked /\ ~Told2
  BY <1>3, <1>8 DEF Marked, Told2, Told1, Told0
<1>16. InEnds
  <2>1. Ending
    BY <1>2, <1>5, <1>8, <1>15 DEF Ending, LastOf
  <2>. QED
    BY <1>2, <1>3, <1>4, <1>5, <1>8, <2>1 DEF InEnds, ClosesLast
<1>17. InCut
  BY <1>2, <1>3, <1>4, <1>8, <1>15 DEF InCut, Orderly, Behind, BehindOf
<1>. QED
  BY <1>6, <1>7, <1>9, <1>10, <1>11, <1>12, <1>13, <1>14, <1>16, <1>17 DEF IInv

LEMMA Invariance == Spec => []IInv
<1>1. IInv /\ [Next]_vars => IInv'
  <2> SUFFICES ASSUME IInv, [Next]_vars PROVE IInv'
    OBVIOUS
  <2>1. TypeOK' /\ Tables'
    BY TypeStep, TablesStep DEF IInv
  <2>2. Fresh' /\ Unread' /\ Acks' /\ Window'
    BY FreshStep, UnreadStep, AcksStep, WindowStep
  <2>3. OutFlow' /\ OutEnds' /\ OutCut'
    BY OutFlowStep, OutEndsStep, OutCutStep
  <2>4. InFlow' /\ InEnds' /\ InCut'
    BY InFlowStep, InEndsStep, InCutStep
  <2>. QED
    BY <2>1, <2>2, <2>3, <2>4 DEF IInv
<1>. QED
  BY <1>1, InitIInv, PTL DEF Spec

(* Every variable keeps its type, the queues hold only messages of their    *)
(* kind, and no chunk is numbered beyond what was written.                  *)
THEOREM TypeCorrect == Spec => []TypeOK
<1>1. IInv => TypeOK
  BY DEF IInv
<1>. QED
  BY <1>1, Invariance, PTL

(* Whatever the window and however seldom the client acknowledges, what the *)
(* relay has sent and the guest has not taken in stays within the window.   *)
THEOREM Bounded == Spec => []InboundBounded
<1>1. IInv => InboundBounded
  <2> SUFFICES ASSUME IInv PROVE InboundBounded
    OBVIOUS
  <2>1. TypeOK /\ Acks /\ Unread /\ Window
    BY DEF IInv
  <2>2. /\ guest.got \in Nat /\ socket.sent \in Nat /\ peer.sent \in Nat /\ socket.acked \in Nat
        /\ stream.acked \in Nat /\ stream.consumed \in Nat /\ RELAY_WINDOW \in Nat
    BY <2>1, Numbers DEF TypeOK, Handle, Session, Program, Record
  <2>3. /\ socket.acked <= stream.acked /\ stream.acked <= stream.consumed /\ stream.consumed <= guest.got
        /\ guest.got <= socket.sent /\ socket.sent <= peer.sent
        /\ socket.exists => socket.sent - socket.acked <= RELAY_WINDOW
    BY <2>1 DEF Acks, Unread, Window
  <2>4. socket.exists => socket.sent - guest.got <= RELAY_WINDOW
    BY <2>2, <2>3
  <2>. QED
    BY <2>1, <2>2, <2>3, <2>4 DEF InboundBounded
<1>. QED
  BY <1>1, Invariance, PTL

-----------------------------------------------------------------------------
(* The two directions are streams.                                          *)

OutWriter == IF "out" \in cut THEN "cut" ELSE guest.writer
InWriter == IF "in" \in cut THEN "cut" ELSE peer.writer

(* Module Stream's step of a writer, and of a reader, for one stream.       *)
Writing(s, w, t, v) ==
  \/ t = s /\ v = w
  \/ w \in {"open", "cut"} /\ t = s + 1 /\ v = w
  \/ w = "open" /\ t = s /\ v = "ended"
  \/ t = s /\ v = "cut"
Reading(s, w, g, r, h, q) ==
  \/ h = g /\ q = r
  \/ r = "reading" /\ q = "reading" /\ g < s /\ h = g + 1
  \/ r = "reading" /\ q = "eof" /\ h = g /\ (w = "cut" \/ (w = "ended" /\ g = s))
  \/ r = "reading" /\ q = "error" /\ h = g /\ w = "cut"

LEMMA GuestWrites ==
  ASSUME IInv, [Next]_vars PROVE Writing(guest.sent, OutWriter, guest'.sent, OutWriter')
<1>1. TypeOK
  BY DEF IInv
<1>2. CASE Write
  BY <1>1, <1>2, WriteEffect DEF Writing, OutWriter
<1>3. CASE Shutdown
  BY <1>1, <1>3, ShutdownEffect DEF Writing, OutWriter
<1>4. ASSUME WriterSame, "out" \in cut => "out" \in cut'
      PROVE  Writing(guest.sent, OutWriter, guest'.sent, OutWriter')
  BY <1>4 DEF Writing, OutWriter, WriterSame
<1>5. CASE Close
  BY <1>1, <1>4, <1>5, CloseEffect
<1>6. CASE Deliver
  <2>1. PICK x : x = guest.inbox[1]
    OBVIOUS
  <2>. QED
    BY <1>1, <1>4, <1>6, <2>1, DeliverEffect
<1>7. CASE Dispatch
  <2>1. PICK m : m = Head(toGuest)
    OBVIOUS
  <2>. QED
    BY <1>1, <1>4, <1>7, <2>1, DispatchEffect
<1>8. CASE OnEnd
  <2>1. UNCHANGED guest /\ cut \subseteq cut'
    BY <1>1, <1>8, OnEndEffect
  <2>. QED
    BY <1>4, <2>1 DEF WriterSame
<1>9. CASE Reset \/ WebSocketLost
  <2>1. UNCHANGED guest /\ cut' = {"out", "in"}
    BY <1>1, <1>9, ResetEffect, WebSocketLostEffect
  <2>. QED
    BY <1>4, <2>1 DEF WriterSame
<1>10. CASE \/ FromGuest \/ OnPacket \/ OnRelayPacket \/ Connects \/ DialFails \/ OnData \/ Flush \/ OnClose
            \/ PeerWrites \/ PeerEnds \/ PeerReadsEnd \/ UNCHANGED vars
  <2>1. UNCHANGED guest /\ ("out" \in cut => "out" \in cut')
    BY <1>10 DEF FromGuest, OnPacket, OnRelayPacket, Connects, DialFails, OnData, Flush, OnClose,
                 PeerWrites, PeerEnds, PeerReadsEnd, vars, vmVars
  <2>. QED
    BY <1>4, <2>1 DEF WriterSame
<1>. QED
  BY <1>2, <1>3, <1>5, <1>6, <1>7, <1>8, <1>9, <1>10 DEF Next, Guest, Relay, Peer

LEMMA PeerWriting ==
  ASSUME IInv, [Next]_vars PROVE Writing(peer.sent, InWriter, peer'.sent, InWriter')
<1>1. TypeOK
  BY DEF IInv
<1>2. CASE PeerWrites \/ PeerEnds \/ PeerReadsEnd
  BY <1>1, <1>2, PeerEffect DEF Writing, InWriter
<1>3. ASSUME peer'.sent = peer.sent, peer'.writer = peer.writer, "in" \in cut => "in" \in cut'
      PROVE  Writing(peer.sent, InWriter, peer'.sent, InWriter')
  BY <1>3 DEF Writing, InWriter
<1>4. CASE Flush
  BY <1>1, <1>3, <1>4, FlushEffect DEF TypeOK, Program
<1>5. CASE OnEnd
  <2>1. UNCHANGED peer /\ cut \subseteq cut'
    BY <1>1, <1>5, OnEndEffect
  <2>. QED
    BY <1>3, <2>1
<1>6. CASE Reset \/ WebSocketLost
  <2>1. UNCHANGED peer /\ cut' = {"out", "in"}
    BY <1>1, <1>6, ResetEffect, WebSocketLostEffect
  <2>. QED
    BY <1>3, <2>1
<1>7. CASE \/ Guest \/ FromGuest \/ OnPacket \/ OnRelayPacket \/ Connects \/ DialFails \/ OnData \/ OnClose
           \/ UNCHANGED vars
  <2>1. UNCHANGED peer /\ ("in" \in cut => "in" \in cut')
    BY <1>7 DEF Guest, Write, Shutdown, Close, Deliver, Dispatch, relayVars, FromGuest, OnPacket,
                OnRelayPacket, Connects, DialFails, OnData, OnClose, vars, vmVars
  <2>. QED
    BY <1>3, <2>1
<1>. QED
  BY <1>2, <1>4, <1>5, <1>6, <1>7 DEF Next, Relay, Peer

(* The peer takes the next chunk, and learns the end behind the last one.   *)
LEMMA PeerReading ==
  ASSUME IInv, [Next]_vars
  PROVE  Reading(guest.sent, OutWriter, peer.got, peer.reader, peer'.got, peer'.reader)
<1>1. TypeOK /\ OutFlow /\ OutCut /\ Sizes
  BY SizesType DEF IInv
<1>2. CASE Flush
  <2>1. /\ socket.exists /\ socket.out # <<>> /\ peer'.got = Head(socket.out) /\ peer'.reader = peer.reader
    BY <1>1, <1>2, FlushEffect DEF TypeOK, Program
  <2>2. peer.reader = "reading"
    BY <1>1, <2>1 DEF OutCut, TypeOK, Program
  <2>3. PICK b \in 0..guest.sent : Outwards(b)
    BY <1>1, <2>1 DEF OutFlow
  <2>4. peer'.got = peer.got + 1 /\ Len(socket.out) > 0
    BY <1>1, <2>1, <2>3, RunTaken DEF Outwards, Sizes
  <2>5. peer.got + Len(socket.out) <= b
    BY <2>3 DEF Outwards, Carries
  <2>6. peer.got < guest.sent
    BY <1>1, <2>3, <2>4, <2>5 DEF Sizes
  <2>. QED
    BY <2>1, <2>2, <2>4, <2>6 DEF Reading
<1>3. CASE PeerWrites \/ PeerEnds \/ PeerReadsEnd
  <2>1. \/ peer'.got = peer.got /\ peer'.reader = peer.reader
        \/ /\ socket.connected /\ socket.fin /\ socket.out = <<>> /\ peer.reader = "reading"
           /\ peer'.reader = "eof" /\ peer'.got = peer.got
    BY <1>1, <1>3, PeerEffect
  <2>2. socket.connected /\ socket.fin /\ socket.out = <<>> /\ "out" \notin cut =>
          guest.writer = "ended" /\ peer.got = guest.sent
    BY <1>1 DEF OutCut, Sizes
  <2>. QED
    BY <2>1, <2>2 DEF Reading, OutWriter
<1>4. CASE \/ Guest \/ FromGuest \/ OnPacket \/ OnRelayPacket \/ Connects \/ DialFails \/ OnData \/ OnEnd
           \/ OnClose \/ Reset \/ WebSocketLost \/ UNCHANGED vars
  <2>1. UNCHANGED peer
    BY <1>4 DEF Guest, Write, Shutdown, Close, Deliver, Dispatch, relayVars, FromGuest, OnPacket,
                OnRelayPacket, Connects, DialFails, OnData, OnEnd, OnClose, Reset, WebSocketLost, vars, vmVars
  <2>. QED
    BY <2>1 DEF Reading
<1>. QED
  BY <1>2, <1>3, <1>4 DEF Next, Relay, Peer

(* The guest takes the next chunk; it reads an end when it has everything,  *)
(* and an error only when the direction was cut.                            *)
LEMMA GuestReading ==
  ASSUME IInv, [Next]_vars
  PROVE  Reading(peer.sent, InWriter, guest.got, guest.reader, guest'.got, guest'.reader)
<1>1. TypeOK /\ Inner /\ Fresh /\ Window /\ InFlow /\ InEnds /\ InCut
  BY InnerType DEF IInv
<1>2. CASE guest'.got = guest.got /\ guest'.reader = guest.reader
  BY <1>2 DEF Reading
<1>3. CASE Deliver
  <2>1. PICK x : x = guest.inbox[1]
    OBVIOUS
  <2>2. /\ guest.st = "open" /\ guest.reader = "reading" /\ guest.inbox # <<>>
        /\ x \in Chunks => guest'.got = x /\ guest'.reader = "reading"
        /\ x \notin Chunks => guest'.got = guest.got
        /\ x = EOF => guest'.reader = "eof"
        /\ x = ERR => guest'.reader = "error"
        /\ x \in Chunks \/ x = EOF \/ x = ERR
    BY <1>1, <1>3, <2>1, DeliverEffect
  <2>3. "in" \notin cut => Orderly
    BY <1>1, <2>2 DEF InCut
  <2>4. CASE x \in Chunks
    <3>1. guest'.got = guest.got + 1 /\ guest.got + 1 <= socket.sent
      BY <1>3, <2>1, <2>2, <2>4, NextChunk
    <3>2. socket.sent <= peer.sent /\ peer.sent \in Nat
      BY <1>1, Numbers DEF Window, TypeOK, Program
    <3>3. guest.got < peer.sent
      BY <1>1, <3>1, <3>2 DEF Inner
    <3>. QED
      BY <2>2, <2>4, <3>1, <3>3 DEF Reading
  <2>5. CASE x = EOF
    <3>1. 1 \in 1..Len(guest.inbox)
      BY <1>1, <2>2, Taken DEF Inner
    <3>2. PICK k \in 0..Len(guest.inbox), b \in 0..socket.sent, h \in 0..socket.sent : Inwards(k, b, h)
      BY <1>1, <2>2 DEF InFlow
    <3>3. k = 0
      <4>1. guest.got + k <= b
        BY <3>2 DEF Inwards, Carries
      <4>2. k >= 1 => x = guest.got + 1
        BY <2>1, <3>1, <3>2 DEF Inwards
      <4>3. k >= 1 => guest.got + 1 \in Chunks
        <5>1. k \in Nat /\ b \in Nat /\ b <= MaxChunks /\ guest.got \in Nat
          BY <1>1, <3>2, Numbers DEF Inner
        <5>. QED
          BY <4>1, <5>1, Numbers DEF Chunks
      <4>. QED
        BY <1>1, <2>5, <3>2, <4>2, <4>3, Numbers DEF Inner
    <3>4. Told0
      BY <2>1, <2>5, <3>1 DEF Told0, Holds
    <3>5. ~Has(toClient, "DATA") /\ ~Has(toGuest, "pipe-data")
      <4>1. Marked /\ Ending
        BY <1>1, <2>2, <3>4 DEF Told0, Marked, InEnds
      <4>2. k < Len(guest.inbox)
        BY <1>1, <3>1, <3>3 DEF Inner
      <4>. QED
        BY <3>2, <4>1, <4>2 DEF Ending, Inwards
    <3>6. guest.got = b /\ b = h
      <4>1. guest.got + k = guest.got /\ guest.got \in Nat /\ b \in Nat /\ h \in Nat
        BY <1>1, <3>2, <3>3 DEF Inner
      <4>2. Carries(toGuest, "pipe-data", guest.got, b) /\ Carries(toClient, "DATA", b, h)
        BY <3>2, <4>1 DEF Inwards
      <4>3. guest.got = b
        BY <1>1, <3>5, <4>1, <4>2, Kinds, CarriesNone DEF Inner
      <4>4. b = h
        BY <1>1, <3>5, <4>1, <4>2, Kinds, CarriesNone DEF Inner
      <4>. QED
        BY <4>3, <4>4
    <3>7. "in" \notin cut => peer.writer = "ended" /\ guest.got = peer.sent
      BY <2>3, <3>2, <3>4, <3>6 DEF Inwards, Orderly, Told2, Told1
    <3>. QED
      BY <2>2, <2>5, <3>7, Numbers DEF Reading, InWriter
  <2>6. CASE x = ERR
    <3>1. socket.connected
      BY <1>1, <2>2 DEF Fresh
    <3>2. ASSUME "in" \notin cut PROVE FALSE
      <4>1. Behind(guest.inbox, ERR, EOF)
        BY <2>2, <2>3, <3>1, <3>2 DEF Orderly
      <4>. QED
        BY <1>1, <2>1, <2>2, <2>6, <4>1, BehindTaken DEF Inner
    <3>. QED
      BY <2>2, <2>6, <3>2, Numbers DEF Reading, InWriter
  <2>. QED
    BY <2>2, <2>4, <2>5, <2>6
<1>4. CASE Write \/ Shutdown \/ Close
  BY <1>1, <1>2, <1>4, WriteEffect, ShutdownEffect, CloseEffect DEF ReaderSame
<1>5. CASE Dispatch
  <2>1. PICK m : m = Head(toGuest)
    OBVIOUS
  <2>. QED
    BY <1>1, <1>2, <1>5, <2>1, DispatchEffect
<1>6. CASE FromGuest \/ OnPacket \/ Relay \/ Peer \/ WebSocketLost \/ UNCHANGED vars
  <2>1. UNCHANGED guest
    BY <1>6 DEF FromGuest, OnPacket, Relay, OnRelayPacket, Connects, DialFails, OnData, OnEnd, Flush, OnClose,
                Peer, PeerWrites, PeerEnds, PeerReadsEnd, Reset, WebSocketLost, vars, vmVars
  <2>. QED
    BY <1>2, <2>1
<1>. QED
  BY <1>3, <1>4, <1>5, <1>6 DEF Next, Guest

(* One relayed connection is two streams: chunks arrive in order, none      *)
(* missing and none twice, and an end is told behind the last of them,      *)
(* unless the direction was cut.                                            *)
THEOREM Refinement == Spec => ImplementsStream
<1>1. Init => Abstract!Init
  <2> SUFFICES ASSUME Init PROVE Abstract!Init
    OBVIOUS
  <2>1. /\ guest.sent = 0 /\ guest.writer = "open" /\ guest.got = 0 /\ guest.reader = "reading"
        /\ peer.sent = 0 /\ peer.writer = "open" /\ peer.got = 0 /\ peer.reader = "reading" /\ cut = {}
    BY DEF Init
  <2>. QED
    BY <2>1 DEF Abstract!Init
<1>2. IInv /\ [Next]_vars => Abstract!Next
  <2> SUFFICES ASSUME IInv, [Next]_vars PROVE Abstract!Next
    OBVIOUS
  <2>1. /\ Writing(guest.sent, OutWriter, guest'.sent, OutWriter')
        /\ Writing(peer.sent, InWriter, peer'.sent, InWriter')
        /\ Reading(guest.sent, OutWriter, peer.got, peer.reader, peer'.got, peer'.reader)
        /\ Reading(peer.sent, InWriter, guest.got, guest.reader, guest'.got, guest'.reader)
    BY GuestWrites, PeerWriting, PeerReading, GuestReading
  <2>2. Abstract!Writes("out") /\ Abstract!Reads("out")
    BY <2>1 DEF Abstract!Writes, Abstract!Reads, Writing, Reading, OutWriter
  <2>3. Abstract!Writes("in") /\ Abstract!Reads("in")
    BY <2>1 DEF Abstract!Writes, Abstract!Reads, Writing, Reading, InWriter
  <2>. QED
    BY <2>2, <2>3 DEF Abstract!Next
<1>. QED
  BY <1>1, <1>2, Invariance, PTL DEF Spec, ImplementsStream, Abstract!Spec
==============================================================================
