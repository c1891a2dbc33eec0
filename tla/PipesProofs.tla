----------------------------- MODULE PipesProofs -----------------------------
(****************************************************************************)
(* Connections for any set of processes, ports and paths, any window of     *)
(* client ports and any number of connections: what a guest believes it     *)
(* serves is what the kernel routes to it, an endpoint in use has a peer or *)
(* the news that it has none on its way, two open connections never share a *)
(* client port, and every direction of a connection is a faithful stream.   *)
(*                                                                          *)
(* The first three need one invariant. A dial adds a connection and puts    *)
(* "pipe-open" in the server's queue; from then to the answer the kernel,   *)
(* the client and the queues each know a part of it, and any of the parties *)
(* may close, exit or be killed. Handshakes says what an offer still to be  *)
(* read entitles its reader to, HungUp what a close still to be read says   *)
(* about its sender.                                                        *)
(*                                                                          *)
(* For the streams a direction is a road of two queues, the writer's to the *)
(* kernel and the kernel's to the reader, that joins what the reader's      *)
(* inbox ends with to what was written last (Road, Flow); what is in the    *)
(* inbox is what comes next (InOrder, Arrives).  StreamInv says so of every *)
(* direction whose reader may still take something in.                      *)
(****************************************************************************)
EXTENDS Pipes, TLAPS, FiniteSetTheorems, WellFoundedInduction

(* A guest that runs is in the kernel's table, and one whose exit is still  *)
(* to be read no longer runs.                                               *)
Alive ==
  /\ running \subseteq procs
  /\ \A p \in Procs : \A i \in DOMAIN toKernel[p] : toKernel[p][i].type = "exit" => p \notin running

(* Between the two syscalls of one listen the port is already the caller's, *)
(* between the two of one close dials are no longer taken.                  *)
HalfDone ==
  \A p \in running : parked[p] # None =>
    \/ /\ parked[p].op = "listen" /\ listeners[parked[p].key] = p /\ parked[p].handle # 0
    \/ /\ parked[p].op = "close" /\ parked[p].key \notin pipeServers[p]

(* A key that leads to a running process is one it takes dials on, or is    *)
(* about to give back; and it takes dials only where it has a server.       *)
LeadsHome ==
  \A p \in running, k \in Keys :
    /\ k \in pipeServers[p] => serving[p][k] # 0
    /\ pipeListeners[k] = p =>
         \/ k \in pipeServers[p]
         \/ parked[p] # None /\ parked[p].op = "close" /\ parked[p].key = k

(* A connection is between two different processes; one that was never      *)
(* dialled has no endpoints.                                                *)
Pairs ==
  \A c \in Conns :
    /\ c < nextPipeConnId =>
         /\ end[c]["client"].owner \in Procs /\ end[c]["server"].owner \in Procs
         /\ end[c]["client"].owner # end[c]["server"].owner
    /\ c >= nextPipeConnId => \A e \in Ends : end[c][e] = NoEnd

(* The kernel's record of a connection names the owners of its two ends,    *)
(* and it has a record of both.                                             *)
Records ==
  \A c \in DOMAIN pipeConns :
    /\ c < nextPipeConnId
    /\ pipeConns[c].client = end[c]["client"].owner /\ pipeConns[c].server = end[c]["server"].owner
    /\ pipeConns[c].client \in procs /\ pipeConns[c].server \in procs

(* Every message is about a connection that its guest has an end of.        *)
PartyOf(p, c) == c < nextPipeConnId /\ \E e \in Ends : end[c][e].owner = p
Addressed ==
  \A p \in Procs :
    /\ \A i \in DOMAIN toGuest[p] : PartyOf(p, toGuest[p][i].conn)
    /\ \A i \in DOMAIN toKernel[p] :
         toKernel[p][i].type # "exit" => PartyOf(p, toKernel[p][i].conn)

(* What the i-th message still to be read by p says of c.                   *)
Opens(p, i, c) == toGuest[p][i].type = "pipe-open" /\ toGuest[p][i].conn = c
Parts(p, i, c) == toGuest[p][i].type = "pipe-close" /\ toGuest[p][i].conn = c

(* An offer still to be read: it is for the server, who has not used its    *)
(* end yet, it is the only one, and either the kernel keeps the connection  *)
(* or the close comes after the offer.                                      *)
Handshakes ==
  \A p \in Procs, c \in Conns : \A i \in DOMAIN toGuest[p] : Opens(p, i, c) =>
    /\ end[c]["server"].owner = p /\ end[c]["server"].st = "none" /\ ~end[c]["server"].mapped
    /\ \A j \in DOMAIN toGuest[p] : Opens(p, j, c) => j = i
    /\ c \in DOMAIN pipeConns \/ \E j \in DOMAIN toGuest[p] : j > i /\ Parts(p, j, c)

(* A close the kernel has not read yet: its sender has let go of its end,   *)
(* and no offer is on its way to it.                                        *)
HungUp ==
  \A p \in Procs, c \in Conns : \A i \in DOMAIN toKernel[p] :
    toKernel[p][i].type = "pipe-close" /\ toKernel[p][i].conn = c =>
      /\ \A e \in Ends : end[c][e].owner = p => ~end[c][e].mapped
      /\ \A j \in DOMAIN toGuest[p] : ~Opens(p, j, c)

(* ServersAgree without its type.                                           *)
Owned ==
  \A p \in running, k \in Keys :
    /\ serving[p][k] # 0 /\ k \in Ports => listeners[k] = p
    /\ k \in pipeServers[p] => pipeListeners[k] = p

IInv == TypeOK /\ Alive /\ HalfDone /\ LeadsHome /\ Owned /\ Pairs /\ Records /\ Addressed
        /\ Handshakes /\ HungUp /\ PeerOrFarewell /\ PortsApart

(* What a queue is after a message was put at its end, or taken from its    *)
(* front.                                                                   *)
LEMMA Queues ==
  ASSUME NEW T, NEW q \in Seq(T)
  PROVE  /\ \A m \in T :
              /\ Append(q, m) \in Seq(T)
              /\ DOMAIN Append(q, m) = 1..(Len(q) + 1)
              /\ \A i \in DOMAIN q : Append(q, m)[i] = q[i]
              /\ Append(q, m)[Len(q) + 1] = m
         /\ q # <<>> =>
              /\ Head(q) \in T /\ Head(q) = q[1] /\ 1 \in DOMAIN q
              /\ Tail(q) \in Seq(T)
              /\ \A i \in DOMAIN Tail(q) : i + 1 \in DOMAIN q /\ Tail(q)[i] = q[i + 1]
              /\ \A i \in DOMAIN q : i # 1 => i - 1 \in DOMAIN Tail(q)
         /\ DOMAIN q = 1..Len(q) /\ Len(q) \in Nat /\ \A i \in DOMAIN q : q[i] \in T
<1>1. ASSUME NEW m \in T
      PROVE  /\ Append(q, m) \in Seq(T)
             /\ DOMAIN Append(q, m) = 1..(Len(q) + 1)
             /\ \A i \in DOMAIN q : Append(q, m)[i] = q[i]
             /\ Append(q, m)[Len(q) + 1] = m
  OBVIOUS
<1>2. ASSUME q # <<>>
      PROVE  /\ Head(q) \in T /\ Head(q) = q[1] /\ 1 \in DOMAIN q
             /\ Tail(q) \in Seq(T)
             /\ \A i \in DOMAIN Tail(q) : i + 1 \in DOMAIN q /\ Tail(q)[i] = q[i + 1]
             /\ \A i \in DOMAIN q : i # 1 => i - 1 \in DOMAIN Tail(q)
  BY <1>2
<1>3. DOMAIN q = 1..Len(q) /\ Len(q) \in Nat /\ \A i \in DOMAIN q : q[i] \in T
  OBVIOUS
<1>. QED
  BY <1>1, <1>2, <1>3

(* A guest's queue of a step that took its first message.                   *)
LEMMA Taken ==
  ASSUME NEW T, NEW f \in [Procs -> Seq(T)], NEW g, NEW p \in Procs, f[p] # <<>>,
         g = [f EXCEPT ![p] = Tail(@)]
  PROVE  /\ \A q \in Procs : q # p => g[q] = f[q]
         /\ \A i \in DOMAIN g[p] : i \in Nat \ {0} /\ i + 1 \in DOMAIN f[p] /\ g[p][i] = f[p][i + 1]
         /\ \A i \in DOMAIN f[p] : i # 1 => i - 1 \in DOMAIN g[p] /\ g[p][i - 1] = f[p][i]
         /\ 1 \in DOMAIN f[p] /\ Head(f[p]) = f[p][1]
<1>1. g[p] = Tail(f[p]) /\ \A q \in Procs : q # p => g[q] = f[q]
  OBVIOUS
<1>2. f[p] \in Seq(T)
  OBVIOUS
<1>3. /\ \A i \in DOMAIN Tail(f[p]) : i \in Nat \ {0} /\ i + 1 \in DOMAIN f[p]
                                      /\ Tail(f[p])[i] = f[p][i + 1]
      /\ \A i \in DOMAIN f[p] : i # 1 => i - 1 \in DOMAIN Tail(f[p]) /\ Tail(f[p])[i - 1] = f[p][i]
      /\ 1 \in DOMAIN f[p] /\ Head(f[p]) = f[p][1]
  BY <1>2
<1>. QED
  BY <1>1, <1>3

(* The same, of a step that put one at the end.                             *)
LEMMA Added ==
  ASSUME NEW T, NEW f \in [Procs -> Seq(T)], NEW g, NEW p \in Procs, NEW m \in T,
         g = [f EXCEPT ![p] = Append(@, m)]
  PROVE  /\ \A q \in Procs : \A i \in DOMAIN f[q] : i \in DOMAIN g[q] /\ g[q][i] = f[q][i]
         /\ \A q \in Procs : \A i \in DOMAIN g[q] :
              i \in DOMAIN f[q] \/ (q = p /\ g[q][i] = m /\ \A j \in DOMAIN f[p] : i > j)
         /\ \E i \in DOMAIN g[p] : g[p][i] = m /\ \A j \in DOMAIN f[p] : i > j
         /\ \A i, j \in DOMAIN g[p] \ DOMAIN f[p] : i = j
<1>1. g[p] = Append(f[p], m) /\ \A q \in Procs : q # p => g[q] = f[q]
  OBVIOUS
<1>2. f[p] \in Seq(T)
  OBVIOUS
<1>3. /\ \A i \in DOMAIN f[p] : i \in DOMAIN Append(f[p], m) /\ Append(f[p], m)[i] = f[p][i]
      /\ \A i \in DOMAIN Append(f[p], m) :
           i \in DOMAIN f[p] \/ (Append(f[p], m)[i] = m /\ \A j \in DOMAIN f[p] : i > j)
      /\ \E i \in DOMAIN Append(f[p], m) : Append(f[p], m)[i] = m /\ \A j \in DOMAIN f[p] : i > j
      /\ \A i, j \in DOMAIN Append(f[p], m) \ DOMAIN f[p] : i = j
  <2>1. /\ DOMAIN f[p] = 1..Len(f[p]) /\ Len(f[p]) \in Nat
        /\ DOMAIN Append(f[p], m) = 1..(Len(f[p]) + 1)
        /\ \A i \in DOMAIN f[p] : Append(f[p], m)[i] = f[p][i]
        /\ Append(f[p], m)[Len(f[p]) + 1] = m
    BY <1>2, Queues
  <2>2. \A i \in 1..(Len(f[p]) + 1) : i \in 1..Len(f[p]) \/ i = Len(f[p]) + 1
    BY <2>1
  <2>3. \A j \in 1..Len(f[p]) : Len(f[p]) + 1 > j /\ j \in 1..(Len(f[p]) + 1)
    BY <2>1
  <2>4. Len(f[p]) + 1 \in 1..(Len(f[p]) + 1)
    BY <2>1
  <2>. QED
    BY <2>1, <2>2, <2>3, <2>4, Zenon
<1>. QED
  BY <1>1, <1>3

(* The messages there are, by their types.                                  *)
LEMMA Kinds ==
  /\ \A t \in {"pipe-data", "pipe-shutdown", "pipe-close"}, c \in Conns, n \in Nat :
       /\ Msg(t, c, n) \in Relayed /\ Msg(t, c, n).type = t /\ Msg(t, c, n).conn = c
       /\ Msg(t, c, n).n = n
  /\ \A c \in Conns, k \in Keys :
       /\ Msg("pipe-open", c, k) \in Opening /\ Msg("pipe-open", c, k).type = "pipe-open"
       /\ Msg("pipe-open", c, k).conn = c
  /\ Exit.type = "exit"
  /\ \A m \in Relayed : m.type \notin {"exit", "pipe-open"} /\ m.conn \in Conns /\ m.n \in Nat
  /\ \A m \in Opening : m.type = "pipe-open" /\ m.conn \in Conns /\ m.n \in Keys
  /\ \A m \in Relayed \union {Exit} : m.type # "exit" => m \in Relayed
  BY DEF Msg, Relayed, Opening, Exit

(* Connections and client ports are numbers.                                *)
LEMMA Numbers ==
  /\ Conns \subseteq Nat /\ Window \subseteq Nat
  /\ Size \in Nat \ {0} /\ Size = ClientPortMax - ClientPortMin + 1
<1>1. Size = IF ClientPortMin > ClientPortMax THEN 0 ELSE ClientPortMax - ClientPortMin + 1
  BY FS_Interval, PipesAssumption DEF PipesAssumption, Size, Window
<1>. QED
  BY <1>1, PipesAssumption DEF PipesAssumption, Conns, Window

(* A set of numbers that is not empty has a least one.                      *)
LEMMA LeastElement ==
  ASSUME NEW S \in SUBSET Nat, S # {}
  PROVE  \E i \in S : \A j \in S : i <= j
<1>1. PICK i \in S : \A j \in S : ~(<<j, i>> \in OpToRel(<, Nat))
  BY NatLessThanWellFounded, WFMin, Zenon
<1>2. \A j \in S : ~(j < i)
  BY <1>1, Zenon DEF OpToRel
<1>. QED
  BY <1>2

(* The allocator gives a port of its window that is free, or none.          *)
LEMMA Allocated ==
  ASSUME nextClientPort \in Window
  PROVE  allocClientPort = None \/ (allocClientPort \in Window /\ FreePort(allocClientPort))
<1> DEFINE ok == {i \in 0..(Size - 1) : FreePort(From(i))}
           least == CHOOSE i \in ok : \A j \in ok : i <= j
<1>1. CASE ok = {}
  BY <1>1 DEF allocClientPort
<1>2. CASE ok # {}
  <2>1. \E i \in ok : \A j \in ok : i <= j
    <3>1. ok \in SUBSET Nat
      BY Numbers
    <3>. QED
      BY <1>2, <3>1, LeastElement, Zenon
  <2>2. least \in ok
    BY <2>1
  <2>3. allocClientPort = From(least)
    BY <1>2 DEF allocClientPort
  <2>4. From(least) \in Window
    <3>1. \A i \in 0..(Size - 1) : (nextClientPort - ClientPortMin + i) % Size \in 0..(Size - 1)
      BY Numbers, PipesAssumption DEF PipesAssumption, Window
    <3>2. \A x \in 0..(Size - 1) : ClientPortMin + x \in Window
      BY Numbers, PipesAssumption DEF PipesAssumption, Window
    <3>. QED
      BY <2>2, <3>1, <3>2, Zenon DEF From
  <2>. QED
    BY <2>2, <2>3, <2>4
<1>. QED
  BY <1>1, <1>2

(* A table of connections with one more, and with some less.                *)
ConnTable(t) ==
  \E C \in SUBSET Conns :
    t \in [C -> [client : Procs, server : Procs, port : Window \union {None}]]

LEMMA Rows ==
  ASSUME NEW t, ConnTable(t)
  PROVE  /\ DOMAIN t \subseteq Conns
         /\ \A c \in DOMAIN t : /\ t[c].client \in Procs /\ t[c].server \in Procs
                                /\ t[c].port \in Window \union {None}
  BY DEF ConnTable

LEMMA FewerConns ==
  ASSUME NEW t, ConnTable(t), NEW S
  PROVE  ConnTable(Restrict(t, DOMAIN t \ S))
<1> DEFINE R == [client : Procs, server : Procs, port : Window \union {None}]
<1>1. PICK C \in SUBSET Conns : t \in [C -> R]
  BY DEF ConnTable
<1>2. Restrict(t, DOMAIN t \ S) \in [C \ S -> R]
  BY <1>1 DEF Restrict
<1>. QED
  BY <1>2 DEF ConnTable

LEMMA MoreConns ==
  ASSUME NEW t, ConnTable(t), NEW c \in Conns, NEW p \in Procs, NEW s \in Procs,
         NEW port \in Window \union {None}
  PROVE  ConnTable([x \in DOMAIN t \union {c} |->
           IF x = c THEN [client |-> p, server |-> s, port |-> port] ELSE t[x]])
<1> DEFINE R == [client : Procs, server : Procs, port : Window \union {None}]
<1>1. PICK C \in SUBSET Conns : t \in [C -> R]
  BY DEF ConnTable
<1>2. [client |-> p, server |-> s, port |-> port] \in R
  OBVIOUS
<1>3. [x \in DOMAIN t \union {c} |->
        IF x = c THEN [client |-> p, server |-> s, port |-> port] ELSE t[x]] \in [C \union {c} -> R]
  BY <1>1, <1>2
<1>. QED
  BY <1>3 DEF ConnTable

(* SetToSeq lists each element of a finite set.                             *)
LEMMA Listed ==
  ASSUME NEW S, IsFiniteSet(S)
  PROVE  /\ Cardinality(S) \in Nat
         /\ SetToSeq(S) \in [1..Cardinality(S) -> S]
         /\ \A x \in S : \E i \in 1..Cardinality(S) : SetToSeq(S)[i] = x
<1> DEFINE I == 1..Cardinality(S)
<1>1. Cardinality(S) \in Nat /\ ExistsBijection(I, S)
  BY FS_CardinalityType
<1>2. SetToSeq(S) \in [I -> S] /\ IsInjective(SetToSeq(S))
  <2>1. \E f \in [I -> S] : IsInjective(f)
    BY <1>1 DEF ExistsBijection, Bijection, Injection
  <2>. QED
    BY <2>1 DEF SetToSeq
<1>3. SetToSeq(S) \in Surjection(I, S)
  <2>1. SetToSeq(S) \in Injection(I, S)
    BY <1>2 DEF Injection
  <2>2. IsFiniteSet(I) /\ Cardinality(I) = Cardinality(S)
    BY <1>1, FS_Interval
  <2>. QED
    BY <2>1, <2>2, FS_Injection
<1>. QED
  BY <1>1, <1>2, <1>3 DEF Surjection

(* What finalize tells each process is the end of what they had in common.  *)
LEMMA Goodbyes ==
  ASSUME ConnTable(pipeConns), NEW p \in Procs, NEW q \in Procs
  PROVE  /\ Farewells(p, q) \in Seq(Relayed)
         /\ \A i \in DOMAIN Farewells(p, q) :
              /\ Farewells(p, q)[i].type = "pipe-close"
              /\ Farewells(p, q)[i].conn \in ConnsOf(p)
              /\ q \in {pipeConns[Farewells(p, q)[i].conn].client,
                        pipeConns[Farewells(p, q)[i].conn].server}
         /\ \A c \in ConnsOf(p) : q \in {pipeConns[c].client, pipeConns[c].server} =>
              \E i \in DOMAIN Farewells(p, q) : Farewells(p, q)[i].conn = c
<1> DEFINE cs == {c \in ConnsOf(p) : q \in {pipeConns[c].client, pipeConns[c].server}}
           f == SetToSeq(cs)
           I == 1..Cardinality(cs)
<1>1. cs \subseteq Conns
  BY Rows DEF ConnsOf
<1>2. IsFiniteSet(cs)
  <2>1. IsFiniteSet(Conns)
    BY FS_Interval, PipesAssumption DEF Conns, PipesAssumption
  <2>. QED
    BY <1>1, <2>1, FS_Subset
<1>3. /\ Cardinality(cs) \in Nat /\ f \in [I -> cs]
      /\ \A x \in cs : \E i \in I : f[i] = x
  BY <1>2, Listed, Zenon
<1>4. Farewells(p, q) = [i \in I |-> Msg("pipe-close", f[i], 0)]
  BY DEF Farewells
<1> HIDE DEF f, I
<1>5. \A i \in I : f[i] \in cs /\ f[i] \in Conns
  BY <1>1, <1>3
<1> HIDE DEF cs
<1>6. \A i \in I : /\ Farewells(p, q)[i] \in Relayed
                   /\ Farewells(p, q)[i].type = "pipe-close"
                   /\ Farewells(p, q)[i].conn = f[i]
  BY <1>4, <1>5, Kinds
<1>7. DOMAIN Farewells(p, q) = I
  BY <1>4
<1>8. Farewells(p, q) \in Seq(Relayed)
  BY <1>3, <1>6, <1>7, <1>4 DEF I
<1>. QED
  BY <1>3, <1>5, <1>6, <1>7, <1>8 DEF cs

(* Nothing is dialled, posted or served at the start.                       *)
LEMMA InitIInv == Init => IInv
<1> SUFFICES ASSUME Init PROVE IInv
  OBVIOUS
<1> USE PipesAssumption DEF PipesAssumption
<1>1. TypeOK
  <2>1. end \in [Conns -> [Ends -> Endpoint]]
    BY DEF Init, NoEnd, Endpoint
  <2>2. nextClientPort \in Window /\ nextPipeConnId \in 1..(MaxConns + 1)
    BY DEF Init, Window
  <2>3. pipeConns \in [{} -> [client : Procs, server : Procs, port : Window \union {None}]]
    BY DEF Init
  <2>4. /\ toGuest \in [Procs -> Seq(Opening \union Relayed)]
        /\ toKernel \in [Procs -> Seq(Relayed \union {Exit})]
        /\ ticks \in [Procs -> Seq(Callbacks)]
    BY DEF Init
  <2>5. \E C \in SUBSET Conns :
          pipeConns \in [C -> [client : Procs, server : Procs, port : Window \union {None}]]
    BY <2>3, Zenon
  <2>6. /\ procs \subseteq Procs /\ running \subseteq Procs
        /\ listeners \in [Ports -> Procs \union {None}]
        /\ pipeListeners \in [Keys -> Procs \union {None}]
        /\ parked \in [Procs -> Calls \union {None}]
        /\ serving \in [Procs -> [Keys -> Nat]]
        /\ pipeServers \in [Procs -> SUBSET Keys]
        /\ nextHandle \in Nat \ {0}
    BY DEF Init
  <2>. QED
    BY <2>1, <2>2, <2>4, <2>5, <2>6, Zenon DEF TypeOK
<1>2. Owned
  BY DEF Init, Owned
<1>3. DOMAIN pipeConns = {}
  BY DEF Init
<1>4. Alive /\ HalfDone /\ LeadsHome
  BY DEF Init, Alive, HalfDone, LeadsHome
<1>5. Pairs
  BY DEF Init, Pairs, Conns, Ends
<1>6. Records /\ PortsApart
  BY <1>3 DEF Records, PortsApart
<1>7. Addressed /\ Handshakes /\ HungUp
  BY DEF Init, Addressed, Handshakes, HungUp
<1>8. PeerOrFarewell
  BY DEF Init, PeerOrFarewell, NoEnd
<1>. QED
  BY <1>1, <1>2, <1>4, <1>5, <1>6, <1>7, <1>8 DEF IInv

(* What becomes of an endpoint is an endpoint.                              *)
LEMMA Endpoints ==
  ASSUME NEW x \in Endpoint
  PROVE  /\ [x EXCEPT !.sent = @ + 1] \in Endpoint
         /\ [x EXCEPT !.writer = "ended"] \in Endpoint
         /\ [x EXCEPT !.writer = "ended", !.shut = TRUE] \in Endpoint
         /\ [x EXCEPT !.st = "connecting", !.mapped = TRUE] \in Endpoint
         /\ \A p \in Procs : /\ [x EXCEPT !.owner = p] \in Endpoint
                             /\ [x EXCEPT !.st = "connecting", !.mapped = TRUE, !.owner = p] \in Endpoint
         /\ \A s \in {"open", x.st} : [x EXCEPT !.st = s] \in Endpoint
         /\ \A q \in Seq(Nat) :
              /\ [x EXCEPT !.inbox = q, !.mapped = FALSE] \in Endpoint
              /\ [x EXCEPT !.writer = "cut", !.inbox = q, !.mapped = FALSE] \in Endpoint
              /\ [x EXCEPT !.st = "closed", !.mapped = FALSE, !.inbox = q, !.writer = "ended"] \in Endpoint
              /\ [x EXCEPT !.inbox = q, !.reader = "eof"] \in Endpoint
              /\ \A n \in Nat : [x EXCEPT !.inbox = q, !.got = n] \in Endpoint
              /\ \A b \in BOOLEAN : [x EXCEPT !.inbox = q, !.mapped = b] \in Endpoint
<1> USE DEF Endpoint
<1>1. [x EXCEPT !.sent = @ + 1] \in Endpoint
  OBVIOUS
<1>2. [x EXCEPT !.writer = "ended"] \in Endpoint
  OBVIOUS
<1>3. [x EXCEPT !.writer = "ended", !.shut = TRUE] \in Endpoint
  OBVIOUS
<1>4. [x EXCEPT !.st = "connecting", !.mapped = TRUE] \in Endpoint
  OBVIOUS
<1>5. ASSUME NEW p \in Procs
      PROVE  [x EXCEPT !.owner = p] \in Endpoint
  OBVIOUS
<1>6. ASSUME NEW p \in Procs
      PROVE  [x EXCEPT !.st = "connecting", !.mapped = TRUE, !.owner = p] \in Endpoint
  OBVIOUS
<1>7. ASSUME NEW s \in {"open", x.st}
      PROVE  [x EXCEPT !.st = s] \in Endpoint
  OBVIOUS
<1>8. ASSUME NEW q \in Seq(Nat)
      PROVE  [x EXCEPT !.inbox = q, !.mapped = FALSE] \in Endpoint
  OBVIOUS
<1>9. ASSUME NEW q \in Seq(Nat)
      PROVE  [x EXCEPT !.writer = "cut", !.inbox = q, !.mapped = FALSE] \in Endpoint
  OBVIOUS
<1>10. ASSUME NEW q \in Seq(Nat)
       PROVE  [x EXCEPT !.st = "closed", !.mapped = FALSE, !.inbox = q, !.writer = "ended"] \in Endpoint
  OBVIOUS
<1>11. ASSUME NEW q \in Seq(Nat)
       PROVE  [x EXCEPT !.inbox = q, !.reader = "eof"] \in Endpoint
  OBVIOUS
<1>12. ASSUME NEW q \in Seq(Nat), NEW n \in Nat
       PROVE  [x EXCEPT !.inbox = q, !.got = n] \in Endpoint
  OBVIOUS
<1>13. ASSUME NEW q \in Seq(Nat), NEW b \in BOOLEAN
       PROVE  [x EXCEPT !.inbox = q, !.mapped = b] \in Endpoint
  OBVIOUS
<1> HIDE DEF Endpoint
<1>. QED
  BY <1>1, <1>2, <1>3, <1>4, <1>5, <1>6, <1>7, <1>8, <1>9, <1>10, <1>11, <1>12, <1>13, Zenon

(* An update of one endpoint, and a message posted.                         *)
LEMMA EndStep ==
  ASSUME end \in [Conns -> [Ends -> Endpoint]],
         NEW c \in Conns, NEW e \in Ends, NEW ep \in Endpoint, Becomes(c, e, ep)
  PROVE  /\ end' \in [Conns -> [Ends -> Endpoint]]
         /\ end'[c][e] = ep
         /\ \A d \in Conns, x \in Ends : d # c \/ x # e => end'[d][x] = end[d][x]
  BY DEF Becomes

LEMMA PostStep ==
  ASSUME toKernel \in [Procs -> Seq(Relayed \union {Exit})],
         NEW p \in Procs, NEW m \in Relayed \union {Exit}, Post(p, m)
  PROVE  /\ toKernel' \in [Procs -> Seq(Relayed \union {Exit})]
         /\ toKernel'[p] = Append(toKernel[p], m)
         /\ \A q \in Procs : q # p => toKernel'[q] = toKernel[q]
         /\ \A q \in Procs : \A i \in DOMAIN toKernel'[q] :
              \/ q = p /\ i = Len(toKernel[p]) + 1 /\ toKernel'[q][i] = m
              \/ i \in DOMAIN toKernel[q] /\ toKernel'[q][i] = toKernel[q][i]
<1>1. /\ toKernel' \in [Procs -> Seq(Relayed \union {Exit})]
      /\ toKernel'[p] = Append(toKernel[p], m)
      /\ \A q \in Procs : q # p => toKernel'[q] = toKernel[q]
  BY DEF Post
<1>2. ASSUME NEW i \in DOMAIN toKernel'[p]
      PROVE  \/ i = Len(toKernel[p]) + 1 /\ toKernel'[p][i] = m
             \/ i \in DOMAIN toKernel[p] /\ toKernel'[p][i] = toKernel[p][i]
  BY <1>1, <1>2, Queues
<1>. QED
  BY <1>1, <1>2, Zenon

(* A message from the kernel finds the one end its process has.            *)
EndOf(p, c) == CHOOSE x \in Ends : end[c][x].owner = p

LEMMA Recipient ==
  ASSUME TypeOK, Pairs, Addressed, NEW p \in Procs, toGuest[p] # <<>>
  PROVE  /\ Head(toGuest[p]) \in Opening \union Relayed
         /\ Head(toGuest[p]).conn \in Conns
         /\ Head(toGuest[p]).type = "pipe-open" <=> Head(toGuest[p]) \in Opening
         /\ Tail(toGuest[p]) \in Seq(Opening \union Relayed)
         /\ EndOf(p, Head(toGuest[p]).conn) \in Ends
         /\ \A x \in Ends : end[Head(toGuest[p]).conn][x].owner = p <=> x = EndOf(p, Head(toGuest[p]).conn)
<1> DEFINE m == Head(toGuest[p])
<1>1. /\ m \in Opening \union Relayed /\ m = toGuest[p][1] /\ 1 \in DOMAIN toGuest[p]
      /\ Tail(toGuest[p]) \in Seq(Opening \union Relayed)
  BY Queues DEF TypeOK
<1>2. m.conn \in Conns /\ (m.type = "pipe-open" <=> m \in Opening)
  BY <1>1, Kinds
<1>3. m.conn < nextPipeConnId /\ \E x \in Ends : end[m.conn][x].owner = p
  BY <1>1 DEF Addressed, PartyOf
<1>4. end[m.conn]["client"].owner # end[m.conn]["server"].owner
  BY <1>2, <1>3, Zenon DEF Pairs
<1> HIDE DEF m
<1>5. \A x, y \in Ends : end[m.conn][x].owner = p /\ end[m.conn][y].owner = p => x = y
  BY <1>4 DEF Ends
<1>6. EndOf(p, m.conn) \in Ends /\ end[m.conn][EndOf(p, m.conn)].owner = p
  BY <1>3, Zenon DEF EndOf
<1>. QED
  BY <1>1, <1>2, <1>5, <1>6, Zenon DEF m

(* Types, and the number of the next connection, survive every step.        *)
LEMMA TypeStep ==
  ASSUME TypeOK, Pairs, Addressed, [Next]_vars
  PROVE  TypeOK'
<1> USE PipesAssumption DEF PipesAssumption, kernelVars, guestVars
<1>0. ConnTable(pipeConns)
  BY Zenon DEF TypeOK, ConnTable
<1>1. ASSUME NEW p \in Procs, NEW k \in Keys, ListenPath(p, k)
      PROVE  TypeOK'
  <2>1. /\ pipeListeners' \in [Keys -> Procs \union {None}]
        /\ pipeServers' \in [Procs -> SUBSET Keys] /\ serving' \in [Procs -> [Keys -> Nat]]
    BY <1>1 DEF ListenPath, PipeListen, TypeOK
  <2>2. /\ UNCHANGED <<procs, listeners, pipeConns, nextPipeConnId, nextClientPort,
                       toGuest, toKernel, running, parked, ticks, end>>
        /\ nextHandle' = nextHandle + 1
    BY <1>1 DEF ListenPath
  <2>. QED
    BY <2>1, <2>2 DEF TypeOK
<1>2. ASSUME NEW p \in Procs, NEW k \in Keys, ListenPort(p, k)
      PROVE  TypeOK'
  <2>1. [op |-> "listen", key |-> k, handle |-> nextHandle] \in Calls
    BY <1>2 DEF ListenPort, Calls, TypeOK
  <2>2. parked' \in [Procs -> Calls \union {None}] /\ listeners' \in [Ports -> Procs \union {None}]
    BY <1>2, <2>1, Zenon DEF ListenPort, TypeOK
  <2>3. /\ UNCHANGED <<procs, pipeListeners, pipeConns, nextPipeConnId, nextClientPort,
                       toGuest, toKernel, running, serving, pipeServers, ticks, end>>
        /\ nextHandle' = nextHandle + 1
    BY <1>2 DEF ListenPort
  <2>. QED
    BY <2>2, <2>3, SMTT(30) DEF TypeOK
<1>3. ASSUME NEW p \in Procs, ListenPortPath(p)
      PROVE  TypeOK'
  <2>1. parked[p].key \in Keys /\ parked[p].handle \in Nat
    BY <1>3 DEF ListenPortPath, Calls, Keys, TypeOK
  <2>2. /\ pipeListeners' \in [Keys -> Procs \union {None}]
        /\ pipeServers' \in [Procs -> SUBSET Keys] /\ serving' \in [Procs -> [Keys -> Nat]]
    BY <1>3, <2>1, Zenon DEF ListenPortPath, PipeListen, TypeOK
  <2>. QED
    BY <1>3, <2>2, Zenon DEF ListenPortPath, TypeOK
<1>4. ASSUME NEW p \in Procs, NEW k \in Keys, ClosePath(p, k)
      PROVE  TypeOK'
  BY <1>4, Zenon DEF ClosePath, Released, TypeOK
<1>5. ASSUME NEW p \in Procs, NEW k \in Keys, ClosePort(p, k)
      PROVE  TypeOK'
  <2>1. k \in Ports
    BY <1>5 DEF ClosePort
  <2>2. [op |-> "close", key |-> k, handle |-> 0] \in Calls
    BY <2>1 DEF Calls
  <2>3. parked' \in [Procs -> Calls \union {None}]
    BY <1>5, <2>2 DEF ClosePort, TypeOK
  <2>. QED
    BY <1>5, <2>3, Zenon DEF ClosePort, Released, TypeOK
<1>6. ASSUME NEW p \in Procs, ClosePortPath(p)
      PROVE  TypeOK'
  BY <1>6, Zenon DEF ClosePortPath, Released, TypeOK
<1>7. ASSUME NEW p \in Procs, NEW k \in Keys, Dial(p, k)
      PROVE  TypeOK'
  <2> DEFINE s == pipeListeners[k]
             c == nextPipeConnId
             port == IF k \in Ports THEN allocClientPort ELSE None
  <2>1. s \in Procs /\ c \in Conns /\ c + 1 \in 1..(MaxConns + 1)
    <3>1. s \in procs /\ c <= MaxConns
      BY <1>7, Zenon DEF Dial
    <3>. QED
      BY <3>1 DEF Conns, TypeOK
  <2>2. port \in Window \union {None} /\ (k \in Ports => port \in Window)
    BY <1>7, Allocated, ZenonT(60) DEF Dial, TypeOK
  <2>3. nextClientPort' \in Window
    <3>1. \A n \in Window : After(n) \in Window
      BY DEF After, Window
    <3>. QED
      BY <1>7, <2>2, <3>1, Zenon DEF Dial, TypeOK
  <2>4. ConnTable(pipeConns')
    <3>1. pipeConns' = [x \in DOMAIN pipeConns \union {c} |->
             IF x = c THEN [client |-> p, server |-> s, port |-> port] ELSE pipeConns[x]]
      BY <1>7, Zenon DEF Dial
    <3> HIDE DEF s, c, port
    <3>2. ConnTable([x \in DOMAIN pipeConns \union {c} |->
             IF x = c THEN [client |-> p, server |-> s, port |-> port] ELSE pipeConns[x]])
      BY <1>0, <2>1, <2>2, MoreConns
    <3>. QED
      BY <3>1, <3>2
  <2>5. toGuest' \in [Procs -> Seq(Opening \union Relayed)]
    <3>1. toGuest' = [toGuest EXCEPT ![s] = Append(@, Msg("pipe-open", c, k))]
      BY <1>7, Zenon DEF Dial
    <3>2. Msg("pipe-open", c, k) \in Opening \union Relayed
      BY <2>1, Kinds
    <3>3. toGuest \in [Procs -> Seq(Opening \union Relayed)]
      BY DEF TypeOK
    <3> HIDE DEF c
    <3>4. Append(toGuest[s], Msg("pipe-open", c, k)) \in Seq(Opening \union Relayed)
      BY <2>1, <3>2, <3>3
    <3>. QED
      BY <2>1, <3>1, <3>3, <3>4
  <2>6. ticks' \in [Procs -> Seq(Callbacks)]
    <3> DEFINE t == [conn |-> c, end |-> "client", key |-> k, handle |-> 0]
    <3>1. t \in Callbacks
      BY <2>1 DEF Callbacks, Ends
    <3>2. ticks' = [ticks EXCEPT ![p] = Append(@, t)]
      BY <1>7, ZenonT(60) DEF Dial
    <3>. QED
      BY <3>1, <3>2 DEF TypeOK
  <2>7. end' \in [Conns -> [Ends -> Endpoint]]
    <3> DEFINE both == [e \in Ends |->
                          IF e = "server" THEN [end[c][e] EXCEPT !.owner = s]
                          ELSE [end[c][e] EXCEPT !.st = "connecting", !.mapped = TRUE, !.owner = p]]
    <3>1. end' = [end EXCEPT ![c] = both]
      BY <1>7, Zenon DEF Dial
    <3>2. \A e \in Ends : end[c][e] \in Endpoint
      BY <2>1 DEF TypeOK
    <3>3. both \in [Ends -> Endpoint]
      BY <2>1, <3>2, Endpoints, ZenonT(60)
    <3>. QED
      BY <2>1, <3>1, <3>3, ZenonT(60) DEF TypeOK
  <2>8. UNCHANGED <<procs, listeners, pipeListeners, toKernel, running, parked, serving,
                    pipeServers, nextHandle>> /\ nextPipeConnId' = c + 1
    BY <1>7, Zenon DEF Dial
  <2>. QED
    BY <2>1, <2>3, <2>4, <2>5, <2>6, <2>7, <2>8, Zenon DEF ConnTable, TypeOK
<1>8. ASSUME NEW p \in Procs, NEW c \in Conns, NEW e \in Ends,
             Write(p, c, e) \/ Shutdown(p, c, e) \/ Close(p, c, e)
      PROVE  TypeOK'
  <2>1. end[c][e] \in Endpoint /\ end[c][e].sent + 1 \in Nat
    BY DEF TypeOK, Endpoint
  <2>2. PICK m \in Relayed : Post(p, m)
    <3>1. Msg("pipe-data", c, end[c][e].sent + 1) \in Relayed
      BY <2>1, Kinds
    <3>2. Msg("pipe-shutdown", c, 0) \in Relayed /\ Msg("pipe-close", c, 0) \in Relayed
      BY Kinds
    <3>. QED
      BY <1>8, <3>1, <3>2 DEF Write, Shutdown, Close
  <2>3. PICK ep \in Endpoint : Becomes(c, e, ep)
    <3>1. <<>> \in Seq(Nat)
      OBVIOUS
    <3>2. CASE Write(p, c, e)
      BY <2>1, <3>2, Endpoints, ZenonT(60) DEF Write
    <3>3. CASE Shutdown(p, c, e)
      BY <2>1, <3>3, Endpoints, ZenonT(60) DEF Shutdown
    <3>4. CASE Close(p, c, e)
      BY <2>1, <3>1, <3>4, Endpoints, Zenon DEF Close
    <3>. QED
      BY <1>8, <3>2, <3>3, <3>4
  <2>4. UNCHANGED <<kernelVars, toGuest, running, parked, serving, pipeServers, nextHandle, ticks>>
    BY <1>8 DEF Write, Shutdown, Close
  <2>5. /\ toKernel' \in [Procs -> Seq(Relayed \union {Exit})]
        /\ end' \in [Conns -> [Ends -> Endpoint]]
    BY <2>2, <2>3, PostStep, EndStep, Zenon DEF TypeOK
  <2>. QED
    BY <2>4, <2>5, Zenon DEF TypeOK
<1>9. ASSUME NEW p \in Procs, NEW c \in Conns, NEW e \in Ends, Deliver(p, c, e)
      PROVE  TypeOK'
  <2>1. /\ end[c][e] \in Endpoint /\ end[c][e].inbox \in Seq(Nat)
        /\ end[c][e].inbox # <<>>
    BY <1>9 DEF Deliver, TypeOK, Endpoint
  <2>2. Head(end[c][e].inbox) \in Nat /\ Tail(end[c][e].inbox) \in Seq(Nat)
    BY <2>1
  <2>3. PICK ep \in Endpoint : Becomes(c, e, ep)
    BY <1>9, <2>1, <2>2, Endpoints, Zenon DEF Deliver
  <2>4. end' \in [Conns -> [Ends -> Endpoint]]
    BY <2>3, EndStep DEF TypeOK
  <2>. QED
    BY <1>9, <2>4, Zenon DEF Deliver, TypeOK
<1>10. ASSUME NEW p \in Procs, Tick(p)
       PROVE  TypeOK'
  <2> DEFINE t == Head(ticks[p])
  <2>1. t \in Callbacks /\ Tail(ticks[p]) \in Seq(Callbacks)
    <3>1. ticks[p] \in Seq(Callbacks) /\ ticks[p] # <<>>
      BY <1>10, Zenon DEF Tick, TypeOK
    <3>. QED
      BY <3>1
  <2>2. t.conn \in Conns /\ t.end \in Ends /\ end[t.conn][t.end] \in Endpoint
    BY <2>1 DEF Callbacks, TypeOK
  <2>3. PICK ep \in Endpoint : Becomes(t.conn, t.end, ep)
    BY <1>10, <2>2, Endpoints, Zenon DEF Tick
  <2>4. end' \in [Conns -> [Ends -> Endpoint]]
    BY <2>2, <2>3, EndStep, Zenon DEF TypeOK
  <2>5. ticks' \in [Procs -> Seq(Callbacks)]
    BY <1>10, <2>1, Zenon DEF Tick, TypeOK
  <2>. QED
    BY <1>10, <2>4, <2>5, Zenon DEF Tick, TypeOK
<1>11. ASSUME NEW p \in Procs, ExitGuest(p)
       PROVE  TypeOK'
  <2>1. end' \in [Conns -> [Ends -> Endpoint]]
    <3>1. \A x \in Endpoint : [x EXCEPT !.inbox = <<>>, !.mapped = FALSE] \in Endpoint
      <4>1. <<>> \in Seq(Nat)
        OBVIOUS
      <4>. QED
        BY <4>1, Endpoints, Zenon
    <3>2. end' = [c \in Conns |-> [e \in Ends |->
            IF end[c][e].owner = p THEN [end[c][e] EXCEPT !.inbox = <<>>, !.mapped = FALSE]
            ELSE end[c][e]]]
      BY <1>11, Zenon DEF ExitGuest
    <3>. QED
      BY <3>1, <3>2, ZenonT(60) DEF TypeOK
  <2>2. toKernel' \in [Procs -> Seq(Relayed \union {Exit})]
    BY <1>11, PostStep, Zenon DEF ExitGuest, TypeOK
  <2>. QED
    <3>0. Stops(p) /\ UNCHANGED <<kernelVars, toGuest, parked>>
      BY <1>11, Zenon DEF ExitGuest
    <3>1. /\ UNCHANGED <<kernelVars, toGuest, parked, nextHandle>>
          /\ running' \subseteq Procs
          /\ serving' \in [Procs -> [Keys -> Nat]] /\ pipeServers' \in [Procs -> SUBSET Keys]
          /\ ticks' \in [Procs -> Seq(Callbacks)]
      BY <3>0 DEF Stops, TypeOK
    <3>. QED
      BY <2>1, <2>2, <3>1, Zenon DEF TypeOK
<1>12. ASSUME NEW p \in Procs, Dispatch(p)
       PROVE  TypeOK'
  <2> DEFINE m == Head(toGuest[p])
             e == EndOf(p, m.conn)
  <2>1. /\ toGuest[p] # <<>> /\ toGuest' = [toGuest EXCEPT ![p] = Tail(@)]
        /\ UNCHANGED <<kernelVars, running, parked, serving, pipeServers, nextHandle>>
    BY <1>12, Zenon DEF Dispatch
  <2>2. /\ m \in Opening \union Relayed /\ m.conn \in Conns /\ e \in Ends
        /\ Tail(toGuest[p]) \in Seq(Opening \union Relayed)
        /\ end[m.conn][e] \in Endpoint
        /\ m.type = "pipe-open" <=> m \in Opening
    BY <2>1, Recipient DEF TypeOK
  <2>3. toGuest' \in [Procs -> Seq(Opening \union Relayed)]
    BY <2>1, <2>2, Zenon DEF TypeOK
  <2>4. CASE m.type = "pipe-open" /\ m.n \in pipeServers[p]
    <3> DEFINE t == [conn |-> m.conn, end |-> e, key |-> m.n, handle |-> serving[p][m.n]]
    <3>1. /\ Becomes(m.conn, e, [end[m.conn][e] EXCEPT !.st = "connecting", !.mapped = TRUE])
          /\ ticks' = [ticks EXCEPT ![p] = Append(@, t)]
          /\ UNCHANGED toKernel
      BY <1>12, <2>4, Zenon DEF Dispatch, EndOf
    <3>2. end' \in [Conns -> [Ends -> Endpoint]]
      BY <2>2, <3>1, Endpoints, EndStep, Zenon DEF TypeOK
    <3>3. t \in Callbacks
      BY <2>2, <2>4, Kinds DEF Callbacks, TypeOK
    <3>4. ticks' \in [Procs -> Seq(Callbacks)]
      BY <3>1, <3>3 DEF TypeOK
    <3>. QED
      BY <2>1, <2>3, <3>1, <3>2, <3>4, ZenonT(60) DEF TypeOK
  <2>5. CASE m.type = "pipe-open" /\ m.n \notin pipeServers[p]
    <3>1. /\ Becomes(m.conn, e, [end[m.conn][e] EXCEPT !.writer = "ended"])
          /\ Post(p, Msg("pipe-close", m.conn, 0))
          /\ UNCHANGED ticks
      BY <1>12, <2>5, Zenon DEF Dispatch, EndOf
    <3>2. end' \in [Conns -> [Ends -> Endpoint]]
      BY <2>2, <3>1, Endpoints, EndStep, Zenon DEF TypeOK
    <3>3. toKernel' \in [Procs -> Seq(Relayed \union {Exit})]
      <4>1. Msg("pipe-close", m.conn, 0) \in Relayed
        BY <2>2, Kinds
      <4>. QED
        BY <3>1, <4>1, PostStep, Zenon DEF TypeOK
    <3>. QED
      BY <2>1, <2>3, <3>1, <3>2, <3>3, ZenonT(60) DEF TypeOK
  <2>6. CASE m.type # "pipe-open"
    <3> DEFINE ep == end[m.conn][e]
               x == IF m.type = "pipe-data" THEN m.n ELSE EOF
               after == IF ~ep.mapped THEN ep
                        ELSE [ep EXCEPT !.inbox = Append(@, x), !.mapped = (m.type # "pipe-close")]
    <3>1. Becomes(m.conn, e, after) /\ UNCHANGED <<toKernel, ticks>>
      BY <1>12, <2>6, Zenon DEF Dispatch, EndOf
    <3>2. after \in Endpoint
      <4>1. x \in Nat
        BY <2>2, <2>6, Kinds, Zenon DEF EOF
      <4>2. Append(ep.inbox, x) \in Seq(Nat)
        BY <2>2, <4>1 DEF Endpoint
      <4>. QED
        BY <2>2, <4>2, Endpoints, ZenonT(60)
    <3>3. end' \in [Conns -> [Ends -> Endpoint]]
      BY <2>2, <3>1, <3>2, EndStep, Zenon DEF TypeOK
    <3>. QED
      BY <2>1, <2>3, <3>1, <3>3, ZenonT(60) DEF TypeOK
  <2>. QED
    BY <2>4, <2>5, <2>6
<1>13. ASSUME NEW p \in Procs, Relay(p)
       PROVE  TypeOK'
  <2> DEFINE m == Message(p)
             conn == pipeConns[m.conn]
             other == IF p = conn.client THEN conn.server ELSE conn.client
  <2>1. toKernel[p] \in Seq(Relayed \union {Exit}) /\ toKernel[p] # <<>> /\ m.type # "exit"
    BY <1>13 DEF Relay, TypeOK
  <2>2. m \in Relayed /\ Tail(toKernel[p]) \in Seq(Relayed \union {Exit})
    BY <2>1, Queues, Kinds DEF Message
  <2>3. toKernel' \in [Procs -> Seq(Relayed \union {Exit})]
    BY <1>13, <2>2 DEF Relay, Consumed, TypeOK
  <2>4. toGuest' \in [Procs -> Seq(Opening \union Relayed)]
    <3>1. toGuest' = toGuest \/ toGuest' = Told(toGuest, other, m)
      BY <1>13 DEF Relay
    <3>2. Told(toGuest, other, m) \in [Procs -> Seq(Opening \union Relayed)]
      <4>1. \A q \in Procs : toGuest[q] \in Seq(Opening \union Relayed)
        BY DEF TypeOK
      <4>2. \A q \in Procs : Append(toGuest[q], m) \in Seq(Opening \union Relayed)
        BY <2>2, <4>1
      <4>3. CASE other \in procs
        BY <4>2, <4>3, Zenon DEF Told, TypeOK
      <4>4. CASE other \notin procs
        BY <4>4 DEF Told, TypeOK
      <4>. QED
        BY <4>3, <4>4, Zenon
    <3>. QED
      BY <3>1, <3>2, Zenon DEF TypeOK
  <2>5. ConnTable(pipeConns')
    <3>1. pipeConns' = pipeConns \/ pipeConns' = Restrict(pipeConns, DOMAIN pipeConns \ {m.conn})
      BY <1>13 DEF Relay
    <3>2. ConnTable(Restrict(pipeConns, DOMAIN pipeConns \ {m.conn}))
      BY <1>0, FewerConns, Zenon
    <3>. QED
      BY <1>0, <3>1, <3>2
  <2>6. UNCHANGED <<procs, listeners, pipeListeners, nextPipeConnId, nextClientPort, guestVars>>
    BY <1>13 DEF Relay
  <2>. QED
    BY <2>3, <2>4, <2>5, <2>6, Zenon DEF ConnTable, TypeOK
<1>14. ASSUME NEW p \in Procs, Finalize(p)
       PROVE  /\ procs' \subseteq Procs
              /\ listeners' \in [Ports -> Procs \union {None}]
              /\ pipeListeners' \in [Keys -> Procs \union {None}]
              /\ ConnTable(pipeConns')
              /\ toGuest' \in [Procs -> Seq(Opening \union Relayed)]
              /\ toKernel' \in [Procs -> Seq(Relayed \union {Exit})]
              /\ UNCHANGED <<nextPipeConnId, nextClientPort>>
  <2>1. /\ procs' \subseteq Procs
        /\ listeners' \in [Ports -> Procs \union {None}]
        /\ pipeListeners' \in [Keys -> Procs \union {None}]
        /\ UNCHANGED <<nextPipeConnId, nextClientPort>>
    BY <1>14 DEF Finalize, Without, TypeOK
  <2>2. ConnTable(pipeConns')
    BY <1>0, <1>14, FewerConns, Zenon DEF Finalize
  <2>3. toGuest' \in [Procs -> Seq(Opening \union Relayed)]
    <3>1. \A q \in Procs : toGuest[q] \o Farewells(p, q) \in Seq(Opening \union Relayed)
      <4>1. \A q \in Procs : Farewells(p, q) \in Seq(Relayed)
        BY <1>0, Goodbyes
      <4>2. \A q \in Procs : Farewells(p, q) \in Seq(Opening \union Relayed)
        BY <4>1
      <4>. QED
        BY <4>2 DEF TypeOK
    <3>2. toGuest' = [q \in Procs |-> IF q \in procs \ {p} THEN toGuest[q] \o Farewells(p, q) ELSE <<>>]
      BY <1>14 DEF Finalize
    <3>. QED
      BY <3>1, <3>2
  <2>4. toKernel' \in [Procs -> Seq(Relayed \union {Exit})]
    BY <1>14 DEF Finalize, TypeOK
  <2>. QED
    BY <2>1, <2>2, <2>3, <2>4
<1>15. ASSUME NEW p \in Procs, Exited(p)
       PROVE  TypeOK'
  <2>1. Finalize(p) /\ UNCHANGED guestVars
    BY <1>15 DEF Exited
  <2>. QED
    BY <1>14, <2>1, Zenon DEF ConnTable, TypeOK
<1>16. ASSUME NEW p \in Procs, Kill(p)
       PROVE  TypeOK'
  <2>1. end' \in [Conns -> [Ends -> Endpoint]]
    <3>1. \A x \in Endpoint : [x EXCEPT !.writer = "cut", !.inbox = <<>>, !.mapped = FALSE] \in Endpoint
      <4>1. <<>> \in Seq(Nat)
        OBVIOUS
      <4>. QED
        BY <4>1, Endpoints, Zenon
    <3>2. end' = [c \in Conns |-> [e \in Ends |->
            IF end[c][e].owner = p
            THEN [end[c][e] EXCEPT !.writer = "cut", !.inbox = <<>>, !.mapped = FALSE]
            ELSE end[c][e]]]
      BY <1>16, Zenon DEF Kill
    <3>. QED
      BY <3>1, <3>2, Zenon DEF TypeOK
  <2>2. /\ Finalize(p) /\ UNCHANGED nextHandle
        /\ running' \subseteq Procs /\ parked' \in [Procs -> Calls \union {None}]
    BY <1>16, Zenon DEF Kill, Stops, TypeOK
  <2>3. /\ serving' \in [Procs -> [Keys -> Nat]] /\ pipeServers' \in [Procs -> SUBSET Keys]
        /\ ticks' \in [Procs -> Seq(Callbacks)]
    <3>1. Stops(p)
      BY <1>16, Zenon DEF Kill
    <3>. QED
      BY <3>1 DEF Stops, TypeOK
  <2>. QED
    BY <1>14, <2>1, <2>2, <2>3, Zenon DEF ConnTable, TypeOK
<1>17. ASSUME UNCHANGED vars
       PROVE  TypeOK'
  BY <1>17 DEF vars, TypeOK
<1>. QED
  BY <1>1, <1>2, <1>3, <1>4, <1>5, <1>6, <1>7, <1>8, <1>9, <1>10, <1>11, <1>12, <1>13, <1>15, <1>16,
     <1>17
  DEF Next, Syscalls, Guest

(* Which steps touch what: the syscalls that serve, and all that is not     *)
(* about messages or processes.                                             *)
Serves(p) ==
  \/ \E k \in Keys : ListenPath(p, k) \/ ListenPort(p, k) \/ ClosePath(p, k) \/ ClosePort(p, k)
  \/ ListenPortPath(p) \/ ClosePortPath(p)
Quiet(p) ==
  \/ \E c \in Conns, e \in Ends : Write(p, c, e) \/ Shutdown(p, c, e) \/ Deliver(p, c, e)
  \/ Tick(p)
Stirs(p) ==
  \/ Quiet(p) \/ Dispatch(p)
  \/ \E c \in Conns, e \in Ends : Close(p, c, e)
  \/ \E k \in Keys : Dial(p, k)

serverVars == <<listeners, pipeListeners, parked, serving, pipeServers>>

(* Next, by who moves.                                                      *)
LEMMA Split ==
  Next <=> \E p \in Procs : \/ Serves(p) \/ Stirs(p) \/ ExitGuest(p)
                            \/ Relay(p) \/ Exited(p) \/ Kill(p)
  BY Zenon DEF Next, Syscalls, Guest, Serves, Stirs, Quiet

(* What the two groups leave alone.                                         *)
LEMMA ServesFrame ==
  ASSUME NEW p \in Procs, Serves(p)
  PROVE  UNCHANGED <<procs, pipeConns, nextPipeConnId, nextClientPort, toGuest, toKernel,
                     running, ticks, end>>
  BY Zenon DEF Serves, ListenPath, ListenPort, ClosePath, ClosePort, ListenPortPath, ClosePortPath

LEMMA StirsFrame ==
  ASSUME NEW p \in Procs, Stirs(p)
  PROVE  UNCHANGED <<procs, listeners, pipeListeners, running, parked, serving, pipeServers,
                     nextHandle>>
  BY ZenonT(60) DEF Stirs, Quiet, Write, Shutdown, Close, Deliver, Tick, Dispatch, Dial, kernelVars

(* What a step may not change of the connections there are.                 *)
SameParties ==
  /\ nextPipeConnId' = nextPipeConnId
  /\ \A c \in Conns, e \in Ends :
       /\ end'[c][e].owner = end[c][e].owner
       /\ c >= nextPipeConnId => end'[c][e] = end[c][e]

(* An endpoint has an owner only from its dial on.                          *)
LEMMA Owners ==
  ASSUME TypeOK, Pairs, NEW p \in Procs, NEW c \in Conns, NEW e \in Ends, end[c][e].owner = p
  PROVE  c < nextPipeConnId /\ PartyOf(p, c)
<1>1. ~(c >= nextPipeConnId)
  BY PipesAssumption DEF Pairs, NoEnd, PipesAssumption
<1>. QED
  BY <1>1, Numbers DEF TypeOK, PartyOf

(* An update of one endpoint leaves the owners as they are.                 *)
LEMMA OneEnd ==
  ASSUME TypeOK, Pairs, NEW p \in Procs, NEW c \in Conns, NEW e \in Ends, end[c][e].owner = p,
         NEW ep \in Endpoint, Becomes(c, e, ep), ep.owner = p, UNCHANGED nextPipeConnId
  PROVE  SameParties
<1>1. /\ end'[c][e] = ep
      /\ \A d \in Conns, x \in Ends : d # c \/ x # e => end'[d][x] = end[d][x]
  BY EndStep DEF TypeOK
<1>2. c < nextPipeConnId
  BY Owners
<1>. QED
  BY <1>1, <1>2, Numbers DEF SameParties, TypeOK

(* Writing, half-closing, reading and ticking: endpoints stay where they    *)
(* are, and no close is posted.                                             *)
LEMMA QuietEffect ==
  ASSUME TypeOK, Pairs, NEW p \in Procs, Quiet(p)
  PROVE  /\ SameParties /\ UNCHANGED <<procs, pipeConns, toGuest>>
         /\ \A c \in Conns, e \in Ends :
              /\ end'[c][e].mapped = end[c][e].mapped
              /\ end[c][e].st = "none" => end'[c][e].st = "none"
         /\ \/ toKernel' = toKernel
            \/ \E m \in Relayed : Post(p, m) /\ PartyOf(p, m.conn) /\ m.type # "pipe-close"
<1> USE DEF kernelVars
<1>1. ASSUME NEW c \in Conns, NEW e \in Ends, Write(p, c, e)
      PROVE  /\ SameParties /\ UNCHANGED <<procs, pipeConns, toGuest>>
             /\ \A d \in Conns, x \in Ends :
                  end'[d][x].mapped = end[d][x].mapped /\ end'[d][x].st = end[d][x].st
             /\ \E m \in Relayed : Post(p, m) /\ PartyOf(p, m.conn) /\ m.type # "pipe-close"
  <2> DEFINE x == end[c][e]
             ep == [x EXCEPT !.sent = @ + 1]
  <2>0. x \in Endpoint
    BY DEF TypeOK
  <2>1. x \in Endpoint /\ ep \in Endpoint /\ x.sent + 1 \in Nat
    <3>1. x.sent + 1 \in Nat
      BY <2>0 DEF Endpoint
    <3>. QED
      BY <2>0, <3>1, Endpoints, Zenon
  <2>2. ep.owner = x.owner /\ ep.mapped = x.mapped /\ ep.st = x.st
    BY <2>1 DEF Endpoint
  <2>3. /\ Becomes(c, e, ep) /\ x.owner = p /\ UNCHANGED <<kernelVars, toGuest>>
        /\ Post(p, Msg("pipe-data", c, x.sent + 1))
    BY <1>1 DEF Write, Mine
  <2>4. /\ Msg("pipe-data", c, x.sent + 1) \in Relayed
        /\ Msg("pipe-data", c, x.sent + 1).type = "pipe-data"
        /\ Msg("pipe-data", c, x.sent + 1).conn = c
    BY <2>1, Kinds
  <2> HIDE DEF ep
  <2>5. SameParties /\ PartyOf(p, c)
    BY <2>1, <2>2, <2>3, OneEnd, Owners
  <2>6. \A d \in Conns, y \in Ends : end'[d][y].mapped = end[d][y].mapped /\ end'[d][y].st = end[d][y].st
    <3>1. end'[c][e] = ep /\ \A d \in Conns, y \in Ends : d # c \/ y # e => end'[d][y] = end[d][y]
      BY <2>1, <2>3, EndStep DEF TypeOK
    <3>. QED
      BY <2>2, <3>1
  <2>. QED
    BY <2>3, <2>4, <2>5, <2>6, Zenon
<1>2. ASSUME NEW c \in Conns, NEW e \in Ends, Shutdown(p, c, e)
      PROVE  /\ SameParties /\ UNCHANGED <<procs, pipeConns, toGuest>>
             /\ \A d \in Conns, x \in Ends :
                  end'[d][x].mapped = end[d][x].mapped /\ end'[d][x].st = end[d][x].st
             /\ \E m \in Relayed : Post(p, m) /\ PartyOf(p, m.conn) /\ m.type # "pipe-close"
  <2> DEFINE x == end[c][e]
             ep == [x EXCEPT !.writer = "ended", !.shut = TRUE]
  <2>0. x \in Endpoint
    BY DEF TypeOK
  <2>1. x \in Endpoint /\ ep \in Endpoint
    BY <2>0, Endpoints, Zenon
  <2>2. ep.owner = x.owner /\ ep.mapped = x.mapped /\ ep.st = x.st
    BY <2>1 DEF Endpoint
  <2>3. /\ Becomes(c, e, ep) /\ x.owner = p /\ UNCHANGED <<kernelVars, toGuest>>
        /\ Post(p, Msg("pipe-shutdown", c, 0))
    BY <1>2 DEF Shutdown, Mine
  <2>4. /\ Msg("pipe-shutdown", c, 0) \in Relayed
        /\ Msg("pipe-shutdown", c, 0).type = "pipe-shutdown"
        /\ Msg("pipe-shutdown", c, 0).conn = c
    BY Kinds
  <2> HIDE DEF ep
  <2>5. SameParties /\ PartyOf(p, c)
    BY <2>1, <2>2, <2>3, OneEnd, Owners
  <2>6. \A d \in Conns, y \in Ends : end'[d][y].mapped = end[d][y].mapped /\ end'[d][y].st = end[d][y].st
    <3>1. end'[c][e] = ep /\ \A d \in Conns, y \in Ends : d # c \/ y # e => end'[d][y] = end[d][y]
      BY <2>1, <2>3, EndStep DEF TypeOK
    <3>. QED
      BY <2>2, <3>1
  <2>. QED
    BY <2>3, <2>4, <2>5, <2>6
<1>3. ASSUME NEW c \in Conns, NEW e \in Ends, Deliver(p, c, e)
      PROVE  /\ SameParties /\ UNCHANGED <<procs, pipeConns, toGuest, toKernel>>
             /\ \A d \in Conns, x \in Ends :
                  end'[d][x].mapped = end[d][x].mapped /\ end'[d][x].st = end[d][x].st
  <2> DEFINE x == end[c][e]
             n == Head(x.inbox)
             ep == IF n = EOF THEN [x EXCEPT !.inbox = Tail(@), !.reader = "eof"]
                   ELSE [x EXCEPT !.inbox = Tail(@), !.got = n]
  <2>1. /\ Becomes(c, e, ep) /\ x.owner = p /\ UNCHANGED <<kernelVars, toGuest, toKernel>>
        /\ x.inbox # <<>>
    BY <1>3, Zenon DEF Deliver, Mine
  <2>2. x \in Endpoint
    BY DEF TypeOK
  <2>3. n \in Nat /\ Tail(x.inbox) \in Seq(Nat)
    BY <2>1, <2>2 DEF Endpoint
  <2>4. ep \in Endpoint
    BY <2>2, <2>3, Endpoints, Zenon
  <2>5. ep.owner = x.owner /\ ep.mapped = x.mapped /\ ep.st = x.st
    BY <2>2 DEF Endpoint
  <2> HIDE DEF ep
  <2>6. SameParties
    BY <2>1, <2>2, <2>4, <2>5, OneEnd
  <2>7. \A d \in Conns, y \in Ends : end'[d][y].mapped = end[d][y].mapped /\ end'[d][y].st = end[d][y].st
    <3>1. end'[c][e] = ep /\ \A d \in Conns, y \in Ends : d # c \/ y # e => end'[d][y] = end[d][y]
      BY <2>1, <2>4, EndStep DEF TypeOK
    <3>. QED
      BY <2>5, <3>1
  <2>. QED
    BY <2>1, <2>6, <2>7
<1>4. ASSUME Tick(p)
      PROVE  /\ SameParties /\ UNCHANGED <<procs, pipeConns, toGuest, toKernel>>
             /\ \A d \in Conns, x \in Ends :
                  /\ end'[d][x].mapped = end[d][x].mapped
                  /\ end[d][x].st = "none" => end'[d][x].st = "none"
  <2> DEFINE t == Head(ticks[p])
             x == end[t.conn][t.end]
             taken == t.end = "client" \/ serving[p][t.key] = t.handle
             st == IF x.st = "connecting" /\ taken THEN "open" ELSE x.st
             ep == [x EXCEPT !.st = st]
  <2>1. /\ Becomes(t.conn, t.end, ep) /\ UNCHANGED <<kernelVars, toGuest, toKernel>>
        /\ ticks[p] # <<>>
    BY <1>4, Zenon DEF Tick
  <2>2. t.conn \in Conns /\ t.end \in Ends
    <3>1. t \in Callbacks
      BY <2>1, Queues, Zenon DEF TypeOK
    <3>. QED
      BY <3>1 DEF Callbacks
  <2>3. x \in Endpoint
    BY <2>2 DEF TypeOK
  <2>4. ep \in Endpoint
    BY <2>3, Endpoints, ZenonT(60)
  <2>5. /\ ep.owner = x.owner /\ ep.mapped = x.mapped
        /\ x.st # "connecting" => ep.st = x.st /\ ep = x
    BY <2>3, Zenon DEF Endpoint
  <2> HIDE DEF ep
  <2>6. /\ end'[t.conn][t.end] = ep
        /\ \A d \in Conns, y \in Ends : d # t.conn \/ y # t.end => end'[d][y] = end[d][y]
    BY <2>1, <2>2, <2>4, EndStep DEF TypeOK
  <2>7. NoEnd.st = "none"
    BY DEF NoEnd
  <2>8. t.conn >= nextPipeConnId => x = NoEnd
    BY <2>2 DEF Pairs
  <2> HIDE DEF t
  <2>9. SameParties
    BY <2>1, <2>5, <2>6, <2>7, <2>8, Zenon DEF SameParties
  <2>10. \A d \in Conns, y \in Ends :
           /\ end'[d][y].mapped = end[d][y].mapped
           /\ end[d][y].st = "none" => end'[d][y].st = "none"
    BY <2>5, <2>6, Zenon
  <2>. QED
    BY <2>1, <2>9, <2>10
<1>. QED
  BY <1>1, <1>2, <1>3, <1>4 DEF Quiet

(* A close lets go of one end that had been in use, and posts the news.     *)
LEMMA CloseEffect ==
  ASSUME TypeOK, Pairs, NEW p \in Procs, NEW c \in Conns, NEW e \in Ends, Close(p, c, e)
  PROVE  /\ SameParties /\ UNCHANGED <<procs, pipeConns, toGuest>>
         /\ end[c][e].owner = p /\ end[c][e].st # "none" /\ ~end'[c][e].mapped
         /\ end'[c][e].st # "none"
         /\ \A d \in Conns, y \in Ends : d # c \/ y # e => end'[d][y] = end[d][y]
         /\ \E m \in Relayed : Post(p, m) /\ PartyOf(p, m.conn) /\ m.type = "pipe-close" /\ m.conn = c
<1> DEFINE x == end[c][e]
           ep == [x EXCEPT !.st = "closed", !.mapped = FALSE, !.inbox = <<>>, !.writer = "ended"]
<1>1. x \in Endpoint /\ <<>> \in Seq(Nat)
  BY DEF TypeOK
<1>2. ep \in Endpoint
  BY <1>1, Endpoints, Zenon
<1>3. ep.owner = x.owner /\ ~ep.mapped /\ ep.st = "closed"
  BY <1>1 DEF Endpoint
<1>4. /\ Becomes(c, e, ep) /\ x.owner = p /\ UNCHANGED <<kernelVars, toGuest>>
      /\ x.st \in {"open", "connecting"}
      /\ Post(p, Msg("pipe-close", c, 0))
  BY DEF Close, Mine
<1>5. /\ Msg("pipe-close", c, 0) \in Relayed
      /\ Msg("pipe-close", c, 0).type = "pipe-close" /\ Msg("pipe-close", c, 0).conn = c
  BY Kinds
<1> HIDE DEF ep
<1>6. SameParties /\ PartyOf(p, c)
  BY <1>1, <1>2, <1>3, <1>4, OneEnd, Owners DEF kernelVars
<1>7. end'[c][e] = ep /\ \A d \in Conns, y \in Ends : d # c \/ y # e => end'[d][y] = end[d][y]
  BY <1>2, <1>4, EndStep DEF TypeOK
<1>. QED
  BY <1>3, <1>4, <1>5, <1>6, <1>7 DEF kernelVars

(* A message is taken from the queue and changes the one end it is for.     *)
LEMMA DispatchEffect ==
  ASSUME TypeOK, Pairs, Addressed, NEW p \in Procs, Dispatch(p),
         NEW m, m = Head(toGuest[p]), NEW e, e = EndOf(p, m.conn)
  PROVE  /\ SameParties /\ UNCHANGED <<procs, pipeConns>>
         /\ toGuest[p] # <<>> /\ m.conn \in Conns /\ e \in Ends /\ end[m.conn][e].owner = p
         /\ toGuest' = [toGuest EXCEPT ![p] = Tail(@)]
         /\ \A d \in Conns, y \in Ends : d # m.conn \/ y # e => end'[d][y] = end[d][y]
         /\ \/ /\ m.type = "pipe-open" /\ end'[m.conn][e].st # "none"
               /\ toKernel' = toKernel
            \/ /\ m.type = "pipe-open"
               /\ end'[m.conn][e].mapped = end[m.conn][e].mapped
               /\ end'[m.conn][e].st = end[m.conn][e].st
               /\ \E x \in Relayed : Post(p, x) /\ x.type = "pipe-close" /\ x.conn = m.conn
            \/ /\ m.type # "pipe-open"
               /\ end'[m.conn][e].mapped => end[m.conn][e].mapped /\ m.type # "pipe-close"
               /\ end'[m.conn][e].st = end[m.conn][e].st
               /\ toKernel' = toKernel
<1> DEFINE x == end[m.conn][e]
<1>1. /\ toGuest[p] # <<>> /\ toGuest' = [toGuest EXCEPT ![p] = Tail(@)]
      /\ UNCHANGED kernelVars
  BY Zenon DEF Dispatch
<1>2. /\ m \in Opening \union Relayed /\ m.conn \in Conns /\ e \in Ends
      /\ x.owner = p
      /\ m.type = "pipe-open" <=> m \in Opening
  BY <1>1, Recipient, Zenon
<1>3. x \in Endpoint
  BY <1>2 DEF TypeOK
<1>4. UNCHANGED <<procs, pipeConns, nextPipeConnId>>
  BY <1>1 DEF kernelVars
<1>5. ASSUME NEW ep \in Endpoint, Becomes(m.conn, e, ep), ep.owner = x.owner
      PROVE  /\ SameParties
             /\ end'[m.conn][e] = ep
             /\ \A d \in Conns, y \in Ends : d # m.conn \/ y # e => end'[d][y] = end[d][y]
  <2>1. SameParties
    BY <1>2, <1>4, <1>5, OneEnd, Zenon
  <2>. QED
    BY <1>2, <1>5, <2>1, EndStep DEF TypeOK
<1>6. CASE m.type = "pipe-open" /\ m.n \in pipeServers[p]
  <2> DEFINE ep == [x EXCEPT !.st = "connecting", !.mapped = TRUE]
  <2>1. Becomes(m.conn, e, ep) /\ toKernel' = toKernel
    BY <1>6, ZenonT(60) DEF Dispatch, EndOf
  <2>2. ep \in Endpoint
    BY <1>3, Endpoints, Zenon
  <2>3. ep.owner = x.owner /\ ep.st = "connecting"
    BY <1>3, Zenon DEF Endpoint
  <2> HIDE DEF ep
  <2>. QED
    BY <1>1, <1>2, <1>4, <1>5, <1>6, <2>1, <2>2, <2>3, Zenon
<1>7. CASE m.type = "pipe-open" /\ m.n \notin pipeServers[p]
  <2> DEFINE ep == [x EXCEPT !.writer = "ended"]
             close == Msg("pipe-close", m.conn, 0)
  <2>1. Becomes(m.conn, e, ep) /\ Post(p, close)
    BY <1>7, ZenonT(60) DEF Dispatch, EndOf
  <2>2. ep \in Endpoint
    BY <1>3, Endpoints, Zenon
  <2>3. ep.owner = x.owner /\ ep.mapped = x.mapped /\ ep.st = x.st
    BY <1>3, Zenon DEF Endpoint
  <2>4. close \in Relayed /\ close.type = "pipe-close" /\ close.conn = m.conn
    BY <1>2, Kinds
  <2> HIDE DEF ep, close
  <2>. QED
    BY <1>1, <1>2, <1>4, <1>5, <1>7, <2>1, <2>2, <2>3, <2>4, Zenon
<1>8. CASE m.type # "pipe-open"
  <2> DEFINE n == IF m.type = "pipe-data" THEN m.n ELSE EOF
             ep == IF ~x.mapped THEN x
                   ELSE [x EXCEPT !.inbox = Append(@, n), !.mapped = (m.type # "pipe-close")]
  <2>1. Becomes(m.conn, e, ep) /\ toKernel' = toKernel
    <3> DEFINE M == Head(toGuest[p])
               y == end[M.conn][EndOf(p, M.conn)]
    <3>1. M.type # "pipe-open"
      BY <1>8
    <3>2. /\ Becomes(M.conn, EndOf(p, M.conn), IF ~y.mapped THEN y
                ELSE [y EXCEPT !.inbox = Append(@, IF M.type = "pipe-data" THEN M.n ELSE EOF),
                               !.mapped = (M.type # "pipe-close")])
          /\ toKernel' = toKernel
      BY <3>1, Zenon DEF Dispatch, EndOf
    <3>3. M = m
      OBVIOUS
    <3> HIDE DEF M
    <3>. QED
      BY <3>2, <3>3, Zenon
  <2>2. ep \in Endpoint
    <3>1. n \in Nat
      BY <1>2, <1>8, Kinds, Zenon DEF EOF
    <3>2. Append(x.inbox, n) \in Seq(Nat)
      BY <1>3, <3>1 DEF Endpoint
    <3>. QED
      BY <1>3, <3>2, Endpoints, ZenonT(60)
  <2>3. ep.owner = x.owner /\ ep.st = x.st
    BY <1>3, Zenon DEF Endpoint
  <2>4. ep.mapped => x.mapped /\ m.type # "pipe-close"
    BY <1>3, Zenon DEF Endpoint
  <2> HIDE DEF ep
  <2>. QED
    BY <1>1, <1>2, <1>4, <1>5, <1>8, <2>1, <2>2, <2>3, <2>4, Zenon
<1>. QED
  BY <1>6, <1>7, <1>8, ZenonT(60)

(* The same in terms of what a guest has still to read: the first message   *)
(* is gone, about an end of its own.                                        *)
Answered(p, d, e) ==
  /\ SameParties /\ UNCHANGED <<procs, pipeConns>>
  /\ end[d][e].owner = p /\ 1 \in DOMAIN toGuest[p]
  /\ \A c \in Conns, y \in Ends : c # d \/ y # e => end'[c][y] = end[c][y]
  /\ \A q \in Procs : q # p => toGuest'[q] = toGuest[q]
  /\ \A i \in DOMAIN toGuest'[p] : i \in Nat \ {0} /\ i + 1 \in DOMAIN toGuest[p]
                                   /\ toGuest'[p][i] = toGuest[p][i + 1]
  /\ \A i \in DOMAIN toGuest[p] : i # 1 => i - 1 \in DOMAIN toGuest'[p]
                                           /\ toGuest'[p][i - 1] = toGuest[p][i]
  /\ \/ Opens(p, 1, d) /\ toKernel' = toKernel
     \/ /\ Opens(p, 1, d)
        /\ end'[d][e].mapped = end[d][e].mapped /\ end'[d][e].st = end[d][e].st
        /\ \E x \in Relayed : Post(p, x) /\ x.type = "pipe-close" /\ x.conn = d
     \/ /\ toGuest[p][1].type # "pipe-open" /\ toGuest[p][1].conn = d
        /\ end'[d][e].mapped => end[d][e].mapped /\ ~Parts(p, 1, d)
        /\ end'[d][e].st = end[d][e].st
        /\ toKernel' = toKernel

LEMMA AnswerEffect ==
  ASSUME TypeOK, Pairs, Addressed, NEW p \in Procs, Dispatch(p)
  PROVE  \E d \in Conns, e \in Ends : Answered(p, d, e)
<1>0. PICK m : m = Head(toGuest[p])
  OBVIOUS
<1>1. PICK d, e : d = m.conn /\ e = EndOf(p, m.conn)
  OBVIOUS
<1>2. /\ SameParties /\ UNCHANGED <<procs, pipeConns>>
      /\ toGuest[p] # <<>> /\ end[d][e].owner = p /\ d \in Conns /\ e \in Ends
      /\ toGuest' = [toGuest EXCEPT ![p] = Tail(@)]
      /\ \A c \in Conns, y \in Ends : c # d \/ y # e => end'[c][y] = end[c][y]
  BY <1>0, <1>1, DispatchEffect
<1>3. /\ \A q \in Procs : q # p => toGuest'[q] = toGuest[q]
      /\ \A i \in DOMAIN toGuest'[p] : i \in Nat \ {0} /\ i + 1 \in DOMAIN toGuest[p]
                                       /\ toGuest'[p][i] = toGuest[p][i + 1]
      /\ \A i \in DOMAIN toGuest[p] : i # 1 => i - 1 \in DOMAIN toGuest'[p]
                                               /\ toGuest'[p][i - 1] = toGuest[p][i]
      /\ 1 \in DOMAIN toGuest[p] /\ Head(toGuest[p]) = toGuest[p][1]
  <2>1. toGuest \in [Procs -> Seq(Opening \union Relayed)]
    BY DEF TypeOK
  <2>. QED
    BY <1>2, <2>1, Taken
<1>4. \/ Opens(p, 1, d) /\ toKernel' = toKernel
      \/ /\ Opens(p, 1, d)
         /\ end'[d][e].mapped = end[d][e].mapped /\ end'[d][e].st = end[d][e].st
         /\ \E x \in Relayed : Post(p, x) /\ x.type = "pipe-close" /\ x.conn = d
      \/ /\ toGuest[p][1].type # "pipe-open" /\ toGuest[p][1].conn = d
         /\ end'[d][e].mapped => end[d][e].mapped /\ ~Parts(p, 1, d)
         /\ end'[d][e].st = end[d][e].st
         /\ toKernel' = toKernel
  <2>1. /\ toGuest[p][1] = m /\ (Opens(p, 1, d) <=> m.type = "pipe-open")
        /\ Parts(p, 1, d) <=> m.type = "pipe-close"
    BY <1>0, <1>1, <1>3 DEF Opens, Parts
  <2>2. \/ m.type = "pipe-open" /\ toKernel' = toKernel
        \/ /\ m.type = "pipe-open"
           /\ end'[d][e].mapped = end[d][e].mapped /\ end'[d][e].st = end[d][e].st
           /\ \E x \in Relayed : Post(p, x) /\ x.type = "pipe-close" /\ x.conn = d
        \/ /\ m.type # "pipe-open"
           /\ end'[d][e].mapped => end[d][e].mapped /\ m.type # "pipe-close"
           /\ end'[d][e].st = end[d][e].st
           /\ toKernel' = toKernel
    <3>1. \/ m.type = "pipe-open" /\ toKernel' = toKernel
          \/ /\ m.type = "pipe-open"
             /\ end'[m.conn][e].mapped = end[m.conn][e].mapped
             /\ end'[m.conn][e].st = end[m.conn][e].st
             /\ \E x \in Relayed : Post(p, x) /\ x.type = "pipe-close" /\ x.conn = m.conn
          \/ /\ m.type # "pipe-open"
             /\ end'[m.conn][e].mapped => end[m.conn][e].mapped /\ m.type # "pipe-close"
             /\ end'[m.conn][e].st = end[m.conn][e].st
             /\ toKernel' = toKernel
      BY <1>0, <1>1, DispatchEffect
    <3>. QED
      BY <1>1, <3>1, ZenonT(30)
  <2>. QED
    BY <1>1, <2>1, <2>2, Zenon
<1>5. Answered(p, d, e)
  BY <1>2, <1>3, <1>4, ZenonT(60) DEF Answered
<1>. QED
  BY <1>2, <1>5

(* A dial adds a connection of two different processes, and tells the       *)
(* server of it.                                                            *)
Dialled(p, c, s) ==
  /\ c = nextPipeConnId /\ nextPipeConnId' = c + 1
  /\ p \in procs /\ s \in procs /\ s # p /\ UNCHANGED <<procs, toKernel>>
  /\ DOMAIN pipeConns' = DOMAIN pipeConns \union {c}
  /\ pipeConns'[c].client = p /\ pipeConns'[c].server = s
  /\ pipeConns'[c].port # None => FreePort(pipeConns'[c].port)
  /\ \A d \in DOMAIN pipeConns : d # c => pipeConns'[d] = pipeConns[d]
  /\ \E m \in Opening : /\ toGuest' = [toGuest EXCEPT ![s] = Append(@, m)]
                        /\ m.conn = c /\ m.type = "pipe-open"
  /\ end'[c]["client"].owner = p
  /\ end'[c]["server"].owner = s /\ end'[c]["server"].st = "none"
  /\ ~end'[c]["server"].mapped
  /\ \A d \in Conns : d # c => end'[d] = end[d]

LEMMA DialEffect ==
  ASSUME TypeOK, Alive, LeadsHome, Pairs, NEW p \in Procs, NEW k \in Keys, Dial(p, k)
  PROVE  \E c \in Conns, s \in Procs : Dialled(p, c, s)
<1> DEFINE c == nextPipeConnId
           s == pipeListeners[k]
           port == IF k \in Ports THEN allocClientPort ELSE None
           m == Msg("pipe-open", c, k)
<1>1. /\ p \in running /\ p \in procs /\ parked[p] = None /\ serving[p][k] = 0
      /\ s \in procs /\ nextPipeConnId <= MaxConns
  BY Zenon DEF Dial, Free, CanCall
<1>2. c \in Conns /\ s \in Procs
  BY <1>1, PipesAssumption DEF Conns, PipesAssumption, TypeOK
<1>3. s # p
  BY <1>1 DEF LeadsHome
<1>4. /\ nextPipeConnId' = c + 1
      /\ pipeConns' = [x \in DOMAIN pipeConns \union {c} |->
           IF x = c THEN [client |-> p, server |-> s, port |-> port] ELSE pipeConns[x]]
      /\ toGuest' = [toGuest EXCEPT ![s] = Append(@, m)]
      /\ UNCHANGED <<procs, toKernel>>
  BY Zenon DEF Dial
<1>5. end' = [end EXCEPT ![c] = [e \in Ends |->
                IF e = "server" THEN [end[c][e] EXCEPT !.owner = s]
                ELSE [end[c][e] EXCEPT !.st = "connecting", !.mapped = TRUE, !.owner = p]]]
  BY Zenon DEF Dial
<1>6. m \in Opening /\ m.conn = c /\ m.type = "pipe-open"
  BY <1>2, Kinds
<1>7. port # None => FreePort(port)
  BY Allocated DEF TypeOK
<1>8. end[c]["client"] = NoEnd /\ end[c]["server"] = NoEnd
  BY <1>2, Numbers DEF Pairs, Ends
<1>9. /\ end'[c]["client"] = [NoEnd EXCEPT !.st = "connecting", !.mapped = TRUE, !.owner = p]
      /\ end'[c]["server"] = [NoEnd EXCEPT !.owner = s]
      /\ \A d \in Conns : d # c => end'[d] = end[d]
  BY <1>2, <1>5, <1>8, Zenon DEF TypeOK, Ends
<1>10. /\ [NoEnd EXCEPT !.st = "connecting", !.mapped = TRUE, !.owner = p].owner = p
       /\ [NoEnd EXCEPT !.owner = s].owner = s
       /\ [NoEnd EXCEPT !.owner = s].st = "none" /\ ~[NoEnd EXCEPT !.owner = s].mapped
  BY DEF NoEnd
<1>11. /\ pipeConns'[c].client = p /\ pipeConns'[c].server = s /\ pipeConns'[c].port = port
       /\ DOMAIN pipeConns' = DOMAIN pipeConns \union {c}
       /\ \A d \in DOMAIN pipeConns : d # c => pipeConns'[d] = pipeConns[d]
  BY <1>4
<1>12. c = nextPipeConnId
  OBVIOUS
<1> HIDE DEF c, s, port, m
<1>13. pipeConns'[c].port # None => FreePort(pipeConns'[c].port)
  BY <1>7, <1>11
<1>14. /\ end'[c]["client"].owner = p
       /\ end'[c]["server"].owner = s /\ end'[c]["server"].st = "none"
       /\ ~end'[c]["server"].mapped
  BY <1>9, <1>10
<1>15. \E x \in Opening : /\ toGuest' = [toGuest EXCEPT ![s] = Append(@, x)]
                          /\ x.conn = c /\ x.type = "pipe-open"
  BY <1>4, <1>6, Zenon
<1>16. nextPipeConnId' = c + 1 /\ UNCHANGED <<procs, toKernel>>
  BY <1>4
<1>17. \A d \in Conns : d # c => end'[d] = end[d]
  BY <1>9
<1>18. Dialled(p, c, s)
  BY <1>1, <1>2, <1>3, <1>11, <1>12, <1>13, <1>14, <1>15, <1>16, <1>17, Zenon DEF Dialled
<1>. QED
  BY <1>2, <1>18

(* A guest posts one message at a time, about a connection of its own.      *)
LEMMA StirsMail ==
  ASSUME TypeOK, Pairs, Addressed, NEW p \in Procs, Stirs(p)
  PROVE  toKernel' = toKernel \/ \E m \in Relayed : Post(p, m) /\ PartyOf(p, m.conn)
<1>1. CASE Quiet(p)
  BY <1>1, QuietEffect
<1>2. CASE Dispatch(p)
  <2>1. PICK d \in Conns, e \in Ends : Answered(p, d, e)
    BY <1>2, AnswerEffect
  <2>2. PartyOf(p, d)
    BY <2>1, Owners, Zenon DEF Answered
  <2>. QED
    BY <2>1, <2>2 DEF Answered
<1>3. ASSUME NEW c \in Conns, NEW e \in Ends, Close(p, c, e)
      PROVE  \E m \in Relayed : Post(p, m) /\ PartyOf(p, m.conn)
  BY <1>3, CloseEffect
<1>4. ASSUME NEW k \in Keys, Dial(p, k)
      PROVE  toKernel' = toKernel
  BY <1>4, Zenon DEF Dial
<1>. QED
  BY <1>1, <1>2, <1>3, <1>4 DEF Stirs

(* An exit is posted when the guest stops, and nothing after it.            *)
LEMMA AliveStep ==
  ASSUME TypeOK, Pairs, Addressed, Alive, [Next]_vars
  PROVE  Alive'
<1>1. ASSUME NEW p \in Procs, Serves(p)
      PROVE  Alive'
  BY <1>1, ServesFrame DEF Alive
<1>2. ASSUME NEW p \in Procs, Stirs(p)
      PROVE  Alive'
  <2>1. CASE toKernel' = toKernel
    BY <1>2, <2>1, StirsFrame DEF Alive
  <2>2. ASSUME NEW m \in Relayed, Post(p, m)
        PROVE  Alive'
    <3>1. m.type # "exit"
      BY Kinds
    <3>2. \A q \in Procs : \A i \in DOMAIN toKernel'[q] : 
            toKernel'[q][i] = m \/ (i \in DOMAIN toKernel[q] /\ toKernel'[q][i] = toKernel[q][i])
      BY <2>2, PostStep DEF TypeOK
    <3>. QED
      BY <1>2, <3>1, <3>2, StirsFrame DEF Alive
  <2>. QED
    BY <1>2, <2>1, <2>2, StirsMail
<1>3. ASSUME NEW p \in Procs, ExitGuest(p)
      PROVE  Alive'
  <2>1. Post(p, Exit) /\ running' = running \ {p} /\ procs' = procs
    BY <1>3, Zenon DEF ExitGuest, Stops, kernelVars
  <2>2. \A q \in Procs : q # p => toKernel'[q] = toKernel[q]
    BY <2>1, PostStep, Zenon DEF TypeOK
  <2>. QED
    BY <2>1, <2>2 DEF Alive
<1>4. ASSUME NEW p \in Procs, Relay(p)
      PROVE  Alive'
  <2>1. toKernel' = [toKernel EXCEPT ![p] = Tail(@)] /\ toKernel[p] # <<>>
        /\ UNCHANGED <<procs, running>>
    BY <1>4 DEF Relay, Consumed, guestVars
  <2>2. \A i \in DOMAIN Tail(toKernel[p]) : i + 1 \in DOMAIN toKernel[p]
                                            /\ Tail(toKernel[p])[i] = toKernel[p][i + 1]
    BY <2>1, Queues DEF TypeOK
  <2>3. \A q \in Procs : q # p => toKernel'[q] = toKernel[q]
    BY <2>1 DEF TypeOK
  <2>4. toKernel'[p] = Tail(toKernel[p])
    BY <2>1 DEF TypeOK
  <2>. QED
    BY <2>1, <2>2, <2>3, <2>4 DEF Alive
<1>5. ASSUME NEW p \in Procs, Finalize(p), running' = running \ {p}
      PROVE  Alive'
  <2>1. procs' = procs \ {p} /\ toKernel' = [toKernel EXCEPT ![p] = <<>>]
    BY <1>5 DEF Finalize
  <2>2. toKernel'[p] = <<>> /\ \A q \in Procs : q # p => toKernel'[q] = toKernel[q]
    BY <2>1 DEF TypeOK
  <2>. QED
    BY <1>5, <2>1, <2>2 DEF Alive
<1>6. ASSUME NEW p \in Procs, Exited(p)
      PROVE  Alive'
  <2>1. /\ toKernel[p] # <<>> /\ Head(toKernel[p]).type = "exit"
        /\ Finalize(p) /\ running' = running
    BY <1>6 DEF Exited, Takes, Message, guestVars
  <2>2. p \notin running
    BY <2>1, Queues DEF TypeOK, Alive
  <2>. QED
    BY <1>5, <2>1, <2>2
<1>7. ASSUME NEW p \in Procs, Kill(p)
      PROVE  Alive'
  BY <1>5, <1>7, Zenon DEF Kill, Stops
<1>8. ASSUME UNCHANGED vars
      PROVE  Alive'
  BY <1>8 DEF Alive, vars, kernelVars, guestVars
<1>. QED
  BY <1>1, <1>2, <1>3, <1>4, <1>6, <1>7, <1>8, Split

(* A path that is granted was nobody's who could still lose it, and is the  *)
(* process's from then on; one that is refused leaves everything but the    *)
(* handle of a TCP server.                                                  *)
LEMMA Granted ==
  ASSUME TypeOK, Alive, Owned, NEW p \in Procs, NEW k \in Keys, NEW h \in Nat,
         PipeListen(p, k, h), ~TakenByOther(pipeListeners, p, k)
  PROVE  /\ pipeListeners'[k] = p
         /\ \A x \in Keys : x # k => pipeListeners'[x] = pipeListeners[x]
         /\ pipeServers'[p] = pipeServers[p] \union {k}
         /\ serving'[p][k] = h
         /\ \A x \in Keys : x # k => serving'[p][x] = serving[p][x]
         /\ \A q \in Procs : q # p => serving'[q] = serving[q] /\ pipeServers'[q] = pipeServers[q]
         /\ \A q \in running : q # p => k \notin pipeServers[q]
<1>1. /\ pipeListeners' = [pipeListeners EXCEPT ![k] = p]
      /\ pipeServers' = [pipeServers EXCEPT ![p] = @ \union {k}]
      /\ serving' = [serving EXCEPT ![p][k] = h]
  BY DEF PipeListen
<1>2. \A q \in running : q # p => k \notin pipeServers[q]
  BY PipesAssumption DEF PipesAssumption, TakenByOther, Alive, Owned, TypeOK
<1>. QED
  BY <1>1, <1>2 DEF TypeOK

LEMMA Refused ==
  ASSUME TypeOK, NEW p \in Procs, NEW k \in Keys, NEW h \in Nat,
         PipeListen(p, k, h), TakenByOther(pipeListeners, p, k)
  PROVE  /\ UNCHANGED <<pipeListeners, pipeServers>>
         /\ \A x \in Keys : x # k => serving'[p][x] = serving[p][x]
         /\ serving'[p][k] = IF k \in Paths THEN serving[p][k] ELSE h
         /\ \A q \in Procs : q # p => serving'[q] = serving[q]
<1>1. /\ UNCHANGED <<pipeListeners, pipeServers>>
      /\ serving' = IF k \in Paths THEN serving ELSE [serving EXCEPT ![p][k] = h]
  BY DEF PipeListen
<1>. QED
  BY <1>1 DEF TypeOK

(* Who serves what, through every syscall, close, exit and kill.            *)
LEMMA ServerStep ==
  ASSUME TypeOK, Alive, HalfDone, LeadsHome, Owned, [Next]_vars
  PROVE  HalfDone' /\ LeadsHome' /\ Owned'
<1> DEFINE Good == HalfDone /\ LeadsHome /\ Owned
<1>0. \A q \in running : q \in Procs /\ q # None /\ q \in procs
  BY PipesAssumption DEF PipesAssumption, TypeOK, Alive
<1>1. ASSUME NEW p \in Procs, NEW k \in Keys, ListenPath(p, k)
      PROVE  Good'
  <2>1. /\ UNCHANGED <<procs, listeners, running, parked>> /\ p \in running /\ parked[p] = None
        /\ k \in Paths /\ k \notin Ports /\ PipeListen(p, k, nextHandle)
        /\ nextHandle \in Nat \ {0}
    BY <1>1, PipesAssumption DEF ListenPath, Free, PipesAssumption, TypeOK
  <2>2. CASE TakenByOther(pipeListeners, p, k)
    <3>1. UNCHANGED <<listeners, pipeListeners, running, parked, serving, pipeServers>>
      BY <2>1, <2>2 DEF PipeListen
    <3>. QED
      BY <3>1 DEF HalfDone, LeadsHome, Owned
  <2>3. CASE ~TakenByOther(pipeListeners, p, k)
    <3>1. HalfDone'
      BY <1>0, <2>1, <2>3, Granted DEF HalfDone
    <3>2. LeadsHome'
      BY <1>0, <2>1, <2>3, Granted DEF LeadsHome
    <3>3. Owned'
      BY <1>0, <2>1, <2>3, Granted DEF Owned
    <3>. QED
      BY <3>1, <3>2, <3>3
  <2>. QED
    BY <2>2, <2>3
<1>2. ASSUME NEW p \in Procs, NEW k \in Keys, ListenPort(p, k)
      PROVE  Good'
  <2> DEFINE call == [op |-> "listen", key |-> k, handle |-> nextHandle]
  <2>1. /\ UNCHANGED <<procs, pipeListeners, running, serving, pipeServers>>
        /\ p \in running /\ parked[p] = None /\ k \in Ports
        /\ ~TakenByOther(listeners, p, k)
        /\ listeners' = [listeners EXCEPT ![k] = p] /\ parked' = [parked EXCEPT ![p] = call]
        /\ nextHandle \in Nat \ {0}
    BY <1>2 DEF ListenPort, Free, TypeOK
  <2>2. /\ listeners'[k] = p /\ \A x \in Ports : x # k => listeners'[x] = listeners[x]
        /\ parked'[p] = call /\ \A q \in Procs : q # p => parked'[q] = parked[q]
    BY <2>1 DEF TypeOK
  <2>3. \A q \in running : q # p => listeners[k] # q
    BY <1>0, <2>1 DEF TakenByOther
  <2>4. \A q \in running : parked[q] # None => parked[q].key \in Ports
    <3>1. \A q \in running : parked[q] # None => parked[q] \in Calls
      BY <1>0 DEF TypeOK
    <3>. QED
      BY <3>1 DEF Calls
  <2>5. HalfDone'
    BY <1>0, <2>1, <2>2, <2>3, <2>4 DEF HalfDone
  <2>6. LeadsHome' /\ Owned'
    BY <1>0, <2>1, <2>2, <2>3 DEF LeadsHome, Owned
  <2>. QED
    BY <2>5, <2>6
<1>3. ASSUME NEW p \in Procs, ListenPortPath(p)
      PROVE  Good'
  <2> DEFINE k == parked[p].key
             h == parked[p].handle
  <2>1. /\ UNCHANGED <<procs, listeners, running>> /\ p \in running
        /\ parked[p] # None /\ parked[p].op = "listen"
        /\ PipeListen(p, k, h) /\ parked' = [parked EXCEPT ![p] = None]
    BY <1>3 DEF ListenPortPath, CanCall
  <2>2. k \in Ports /\ k \in Keys /\ k \notin Paths /\ h \in Nat /\ h # 0 /\ listeners[k] = p
    <3>1. parked[p] \in Calls
      BY <2>1 DEF TypeOK
    <3>2. h # 0 /\ listeners[k] = p
      BY <2>1 DEF HalfDone
    <3>. QED
      BY <3>1, <3>2, PipesAssumption DEF Calls, Keys, PipesAssumption
  <2>3. parked'[p] = None /\ \A q \in Procs : q # p => parked'[q] = parked[q]
    BY <2>1 DEF TypeOK
  <2> HIDE DEF k, h
  <2>4. CASE TakenByOther(pipeListeners, p, k)
    <3>1. HalfDone'
      BY <1>0, <2>1, <2>2, <2>3, <2>4, Refused DEF HalfDone
    <3>2. LeadsHome'
      BY <1>0, <2>1, <2>2, <2>3, <2>4, Refused DEF LeadsHome
    <3>3. Owned'
      BY <1>0, <2>1, <2>2, <2>3, <2>4, Refused DEF Owned
    <3>. QED
      BY <3>1, <3>2, <3>3
  <2>5. CASE ~TakenByOther(pipeListeners, p, k)
    <3>1. HalfDone'
      BY <1>0, <2>1, <2>2, <2>3, <2>5, Granted DEF HalfDone
    <3>2. LeadsHome'
      BY <1>0, <2>1, <2>2, <2>3, <2>5, Granted DEF LeadsHome
    <3>3. Owned'
      BY <1>0, <2>1, <2>2, <2>3, <2>5, Granted DEF Owned
    <3>. QED
      BY <3>1, <3>2, <3>3
  <2>. QED
    BY <2>4, <2>5
<1>4. ASSUME NEW p \in Procs, NEW k \in Keys, ClosePath(p, k)
      PROVE  Good'
  <2>1. /\ UNCHANGED <<procs, listeners, running, parked>> /\ p \in running /\ parked[p] = None
        /\ serving' = [serving EXCEPT ![p][k] = 0]
        /\ pipeServers' = [pipeServers EXCEPT ![p] = @ \ {k}]
        /\ pipeListeners' = Released(pipeListeners, p, k)
    BY <1>4 DEF ClosePath, Free
  <2>2. /\ serving'[p][k] = 0 /\ \A x \in Keys : x # k => serving'[p][x] = serving[p][x]
        /\ pipeServers'[p] = pipeServers[p] \ {k}
        /\ \A q \in Procs : q # p => serving'[q] = serving[q] /\ pipeServers'[q] = pipeServers[q]
    BY <2>1 DEF TypeOK
  <2>3. /\ pipeListeners'[k] = IF pipeListeners[k] = p THEN None ELSE pipeListeners[k]
        /\ \A x \in Keys : x # k => pipeListeners'[x] = pipeListeners[x]
    BY <2>1 DEF Released, TypeOK
  <2>4. HalfDone'
    BY <1>0, <2>1, <2>2 DEF HalfDone
  <2>5. LeadsHome'
    BY <1>0, <2>1, <2>2, <2>3 DEF LeadsHome
  <2>6. Owned'
    BY <1>0, <2>1, <2>2, <2>3 DEF Owned
  <2>. QED
    BY <2>4, <2>5, <2>6
<1>5. ASSUME NEW p \in Procs, NEW k \in Keys, ClosePort(p, k)
      PROVE  Good'
  <2> DEFINE call == [op |-> "close", key |-> k, handle |-> 0]
  <2>1. /\ UNCHANGED <<procs, pipeListeners, running>>
        /\ p \in running /\ parked[p] = None /\ k \in Ports
        /\ serving' = [serving EXCEPT ![p][k] = 0]
        /\ pipeServers' = [pipeServers EXCEPT ![p] = @ \ {k}]
        /\ listeners' = Released(listeners, p, k)
        /\ parked' = IF k \in pipeServers[p] THEN [parked EXCEPT ![p] = call] ELSE parked
    BY <1>5 DEF ClosePort, Free
  <2>2. /\ serving'[p][k] = 0 /\ \A x \in Keys : x # k => serving'[p][x] = serving[p][x]
        /\ pipeServers'[p] = pipeServers[p] \ {k}
        /\ \A q \in Procs : q # p => serving'[q] = serving[q] /\ pipeServers'[q] = pipeServers[q]
    BY <2>1 DEF TypeOK
  <2>3. /\ listeners'[k] = IF listeners[k] = p THEN None ELSE listeners[k]
        /\ \A x \in Ports : x # k => listeners'[x] = listeners[x]
    BY <2>1 DEF Released, TypeOK
  <2>4. /\ parked'[p] = IF k \in pipeServers[p] THEN call ELSE None
        /\ \A q \in Procs : q # p => parked'[q] = parked[q]
    BY <2>1 DEF TypeOK
  <2>5. \A q \in running : parked[q] # None => parked[q].key \in Ports
    <3>1. \A q \in running : parked[q] # None => parked[q] \in Calls
      BY <1>0 DEF TypeOK
    <3>. QED
      BY <3>1 DEF Calls
  <2>6. call # None /\ call.op = "close" /\ call.key = k
    <3>1. call \in Calls
      BY <2>1 DEF Calls
    <3>2. None \notin Calls
      BY PipesAssumption DEF PipesAssumption, Calls
    <3>. QED
      BY <3>1, <3>2
  <2> HIDE DEF call
  <2>7. HalfDone'
    BY <1>0, <2>1, <2>2, <2>3, <2>4, <2>5, <2>6 DEF HalfDone
  <2>8. LeadsHome'
    BY <1>0, <2>1, <2>2, <2>4, <2>6 DEF LeadsHome
  <2>9. Owned'
    BY <1>0, <2>1, <2>2, <2>3 DEF Owned
  <2>. QED
    BY <2>7, <2>8, <2>9
<1>6. ASSUME NEW p \in Procs, ClosePortPath(p)
      PROVE  Good'
  <2> DEFINE k == parked[p].key
  <2>1. /\ UNCHANGED <<procs, listeners, running, serving, pipeServers>> /\ p \in running
        /\ parked[p] # None /\ parked[p].op = "close"
        /\ pipeListeners' = Released(pipeListeners, p, k)
        /\ parked' = [parked EXCEPT ![p] = None]
    BY <1>6 DEF ClosePortPath, CanCall
  <2>2. k \in Keys /\ k \notin pipeServers[p]
    <3>1. parked[p] \in Calls
      BY <2>1 DEF TypeOK
    <3>. QED
      BY <2>1, <3>1 DEF Calls, Keys, HalfDone
  <2>3. parked'[p] = None /\ \A q \in Procs : q # p => parked'[q] = parked[q]
    BY <2>1 DEF TypeOK
  <2>4. /\ pipeListeners'[k] = IF pipeListeners[k] = p THEN None ELSE pipeListeners[k]
        /\ \A x \in Keys : x # k => pipeListeners'[x] = pipeListeners[x]
    BY <2>1, <2>2 DEF Released, TypeOK
  <2>5. HalfDone'
    BY <1>0, <2>1, <2>3 DEF HalfDone
  <2>6. LeadsHome'
    BY <1>0, <2>1, <2>2, <2>3, <2>4 DEF LeadsHome
  <2>7. Owned'
    BY <1>0, <2>1, <2>2, <2>4 DEF Owned
  <2>. QED
    BY <2>5, <2>6, <2>7
<1>7. ASSUME NEW p \in Procs, Stirs(p) \/ Relay(p)
      PROVE  Good'
  <2>1. UNCHANGED <<listeners, pipeListeners, running, parked, serving, pipeServers>>
    BY <1>7, StirsFrame DEF Relay, guestVars
  <2>. QED
    BY <2>1 DEF HalfDone, LeadsHome, Owned
<1>8. ASSUME NEW p \in Procs, Stops(p), UNCHANGED <<listeners, pipeListeners, parked>>
      PROVE  Good'
  <2>1. /\ running' = running \ {p}
        /\ \A q \in Procs : q # p => serving'[q] = serving[q] /\ pipeServers'[q] = pipeServers[q]
    BY <1>8 DEF Stops, TypeOK
  <2>2. \A q \in running' : q \in running /\ q # p /\ q \in Procs
    BY <2>1 DEF TypeOK
  <2>. QED
    BY <1>8, <2>1, <2>2 DEF HalfDone, LeadsHome, Owned
<1>9. ASSUME NEW p \in Procs, Finalize(p), p \notin running',
             \A q \in running' :
               /\ q \in running /\ parked'[q] = parked[q]
               /\ serving'[q] = serving[q] /\ pipeServers'[q] = pipeServers[q]
      PROVE  Good'
  <2>1. /\ \A n \in Ports : listeners'[n] = IF listeners[n] = p THEN None ELSE listeners[n]
        /\ \A k \in Keys : pipeListeners'[k] = IF pipeListeners[k] = p THEN None ELSE pipeListeners[k]
    BY <1>9 DEF Finalize, Without, TypeOK
  <2>2. \A q \in running' : q # p /\ q # None /\ q \in Procs
    BY <1>9, PipesAssumption DEF PipesAssumption, TypeOK
  <2>3. \A q \in running' : parked[q] # None => parked[q] \in Calls
    BY <2>2 DEF TypeOK
  <2>4. \A q \in running' : parked[q] # None => parked[q].key \in Ports
    BY <2>3 DEF Calls
  <2>. QED
    BY <1>9, <2>1, <2>2, <2>4 DEF HalfDone, LeadsHome, Owned
<1>10. ASSUME NEW p \in Procs, Exited(p)
       PROVE  Good'
  <2>1. /\ toKernel[p] # <<>> /\ Head(toKernel[p]).type = "exit"
        /\ Finalize(p) /\ UNCHANGED <<running, parked, serving, pipeServers>>
    BY <1>10 DEF Exited, Takes, Message, guestVars
  <2>2. p \notin running
    BY <2>1, Queues DEF TypeOK, Alive
  <2>. QED
    BY <1>9, <2>1, <2>2
<1>11. ASSUME NEW p \in Procs, Kill(p)
       PROVE  Good'
  <2>1. /\ Finalize(p) /\ running' = running \ {p}
        /\ parked' = [parked EXCEPT ![p] = None]
        /\ serving' = [serving EXCEPT ![p] = [k \in Keys |-> 0]]
        /\ pipeServers' = [pipeServers EXCEPT ![p] = {}]
    BY <1>11, Zenon DEF Kill, Stops
  <2>2. \A q \in Procs : q # p => parked'[q] = parked[q] /\ serving'[q] = serving[q]
                                  /\ pipeServers'[q] = pipeServers[q]
    BY <2>1 DEF TypeOK
  <2>. QED
    BY <1>9, <2>1, <2>2 DEF TypeOK
<1>12. ASSUME UNCHANGED vars
       PROVE  Good'
  BY <1>12 DEF HalfDone, LeadsHome, Owned, vars, kernelVars, guestVars
<1>. QED
  <2>1. ASSUME NEW p \in Procs, ExitGuest(p)
        PROVE  Good'
    BY <1>8, <2>1, Zenon DEF ExitGuest, kernelVars
  <2>2. Good'
    BY <1>1, <1>2, <1>3, <1>4, <1>5, <1>6, <1>7, <1>10, <1>11, <1>12, <2>1, Split DEF Serves
  <2>. QED
    BY <2>2

-----------------------------------------------------------------------------

(* A process that stops lets go of its endpoints.                           *)
EndsCut(p) ==
  /\ SameParties
  /\ \A c \in Conns, e \in Ends :
       /\ end'[c][e].st = end[c][e].st
       /\ end'[c][e].mapped => end[c][e].mapped /\ end[c][e].owner # p

LEMMA ExitEffect ==
  ASSUME TypeOK, Pairs, NEW p \in Procs, ExitGuest(p)
  PROVE  /\ EndsCut(p) /\ Post(p, Exit)
         /\ UNCHANGED <<procs, pipeConns, toGuest>>
<1>1. /\ Post(p, Exit) /\ UNCHANGED <<kernelVars, toGuest>>
      /\ end' = [c \in Conns |-> [e \in Ends |->
           IF end[c][e].owner = p THEN [end[c][e] EXCEPT !.inbox = <<>>, !.mapped = FALSE]
           ELSE end[c][e]]]
  BY Zenon DEF ExitGuest
<1>2. \A x \in Endpoint :
        /\ [x EXCEPT !.inbox = <<>>, !.mapped = FALSE].owner = x.owner
        /\ [x EXCEPT !.inbox = <<>>, !.mapped = FALSE].st = x.st
        /\ ~[x EXCEPT !.inbox = <<>>, !.mapped = FALSE].mapped
  BY DEF Endpoint
<1>3. \A c \in Conns, e \in Ends : end[c][e] \in Endpoint
  BY DEF TypeOK
<1>4. \A c \in Conns, e \in Ends : end[c][e].owner = p => c < nextPipeConnId
  BY Owners
<1>5. \A c \in Conns, e \in Ends :
        /\ end'[c][e].st = end[c][e].st /\ end'[c][e].owner = end[c][e].owner
        /\ end'[c][e].mapped => end[c][e].mapped /\ end[c][e].owner # p
        /\ end[c][e].owner # p => end'[c][e] = end[c][e]
  BY <1>1, <1>2, <1>3, Zenon
<1>6. UNCHANGED <<procs, pipeConns, nextPipeConnId, toGuest>>
  BY <1>1, Zenon DEF kernelVars
<1>7. EndsCut(p)
  BY <1>4, <1>5, <1>6, Numbers DEF EndsCut, SameParties, TypeOK
<1>. QED
  BY <1>1, <1>6, <1>7, Zenon

(* The same when it is killed, which the kernel settles at once.            *)
LEMMA KillEffect ==
  ASSUME TypeOK, Pairs, NEW p \in Procs, Kill(p)
  PROVE  EndsCut(p) /\ Finalize(p)
<1>1. /\ Finalize(p)
      /\ end' = [c \in Conns |-> [e \in Ends |->
           IF end[c][e].owner = p
           THEN [end[c][e] EXCEPT !.writer = "cut", !.inbox = <<>>, !.mapped = FALSE]
           ELSE end[c][e]]]
  BY Zenon DEF Kill
<1>2. \A x \in Endpoint :
        /\ [x EXCEPT !.writer = "cut", !.inbox = <<>>, !.mapped = FALSE].owner = x.owner
        /\ [x EXCEPT !.writer = "cut", !.inbox = <<>>, !.mapped = FALSE].st = x.st
        /\ ~[x EXCEPT !.writer = "cut", !.inbox = <<>>, !.mapped = FALSE].mapped
  BY DEF Endpoint
<1>3. \A c \in Conns, e \in Ends : end[c][e] \in Endpoint
  BY DEF TypeOK
<1>4. \A c \in Conns, e \in Ends : end[c][e].owner = p => c < nextPipeConnId
  BY Owners
<1>5. \A c \in Conns, e \in Ends :
        /\ end'[c][e].st = end[c][e].st /\ end'[c][e].owner = end[c][e].owner
        /\ end'[c][e].mapped => end[c][e].mapped /\ end[c][e].owner # p
        /\ end[c][e].owner # p => end'[c][e] = end[c][e]
  <2>1. \A c \in Conns, e \in Ends : end'[c][e] =
          IF end[c][e].owner = p
          THEN [end[c][e] EXCEPT !.writer = "cut", !.inbox = <<>>, !.mapped = FALSE]
          ELSE end[c][e]
    BY <1>1, Zenon
  <2>2. ASSUME NEW c \in Conns, NEW e \in Ends, end[c][e].owner = p
        PROVE  /\ end'[c][e].st = end[c][e].st /\ end'[c][e].owner = end[c][e].owner
               /\ ~end'[c][e].mapped
    BY <1>2, <1>3, <2>1, <2>2, Zenon
  <2>3. ASSUME NEW c \in Conns, NEW e \in Ends, end[c][e].owner # p
        PROVE  end'[c][e] = end[c][e]
    BY <2>1, <2>3, Zenon
  <2>. QED
    BY <2>2, <2>3
<1>6. nextPipeConnId' = nextPipeConnId
  BY <1>1, Zenon DEF Finalize
<1>7. SameParties
  <2>1. \A c \in Conns : c < nextPipeConnId => ~(c >= nextPipeConnId)
    BY Numbers DEF TypeOK
  <2>. QED
    BY <1>4, <1>5, <1>6, <2>1 DEF SameParties
<1>8. EndsCut(p)
  BY <1>5, <1>7 DEF EndsCut
<1>. QED
  BY <1>1, <1>8, Zenon

(* The kernel passes a message on to the other party of its connection, and *)
(* with a close forgets the connection.                                     *)
LEMMA RelayEffect ==
  ASSUME TypeOK, Pairs, Records, Addressed, NEW p \in Procs, Relay(p)
  PROVE  LET m == Head(toKernel[p])
         IN /\ toKernel[p] # <<>> /\ m \in Relayed /\ PartyOf(p, m.conn)
            /\ toKernel' = [toKernel EXCEPT ![p] = Tail(@)]
            /\ UNCHANGED <<procs, nextPipeConnId, end>>
            /\ \/ m.conn \notin DOMAIN pipeConns /\ UNCHANGED <<pipeConns, toGuest>>
               \/ \E other \in procs :
                    /\ m.conn \in DOMAIN pipeConns
                    /\ other # p
                    /\ {p, other} = {pipeConns[m.conn].client, pipeConns[m.conn].server}
                    /\ toGuest' = [toGuest EXCEPT ![other] = Append(@, m)]
                    /\ pipeConns' = IF m.type = "pipe-close"
                                    THEN Restrict(pipeConns, DOMAIN pipeConns \ {m.conn})
                                    ELSE pipeConns
<1> DEFINE m == Head(toKernel[p])
           conn == pipeConns[m.conn]
           other == IF p = conn.client THEN conn.server ELSE conn.client
<1>1. /\ toKernel[p] # <<>> /\ m.type # "exit"
      /\ toKernel' = [toKernel EXCEPT ![p] = Tail(@)]
      /\ UNCHANGED <<procs, nextPipeConnId, end>>
  BY Zenon DEF Relay, Consumed, Message, guestVars
<1>2. m \in Relayed /\ PartyOf(p, m.conn)
  BY <1>1, Queues, Kinds DEF TypeOK, Addressed
<1>3. CASE m.conn \notin DOMAIN pipeConns
  <2>1. UNCHANGED <<pipeConns, toGuest>>
    BY <1>3 DEF Relay, Message
  <2>. QED
    BY <1>1, <1>2, <1>3, <2>1, Zenon
<1>4. CASE m.conn \in DOMAIN pipeConns
  <2>1. /\ conn.client = end[m.conn]["client"].owner /\ conn.server = end[m.conn]["server"].owner
        /\ conn.client \in procs /\ conn.server \in procs /\ m.conn < nextPipeConnId
    BY <1>4, Zenon DEF Records
  <2>2. p = conn.client \/ p = conn.server
    BY <1>2, <2>1, Zenon DEF PartyOf, Ends
  <2>3. conn.client # conn.server
    BY <1>2, <2>1, Kinds DEF Pairs
  <2>4. other \in procs /\ other # p /\ {p, other} = {conn.client, conn.server}
    BY <2>1, <2>2, <2>3, Zenon
  <2>5. /\ toGuest' = Told(toGuest, other, m)
        /\ pipeConns' = IF m.type = "pipe-close"
                        THEN Restrict(pipeConns, DOMAIN pipeConns \ {m.conn}) ELSE pipeConns
    BY <1>4, Zenon DEF Relay, Message
  <2>6. toGuest' = [toGuest EXCEPT ![other] = Append(@, m)]
    BY <2>4, <2>5, Zenon DEF Told
  <2>7. \E x \in procs :
          /\ m.conn \in DOMAIN pipeConns
          /\ x # p
          /\ {p, x} = {pipeConns[m.conn].client, pipeConns[m.conn].server}
          /\ toGuest' = [toGuest EXCEPT ![x] = Append(@, m)]
          /\ pipeConns' = IF m.type = "pipe-close"
                          THEN Restrict(pipeConns, DOMAIN pipeConns \ {m.conn})
                          ELSE pipeConns
    <3> HIDE DEF m, other
    <3>. QED
      BY <1>4, <2>4, <2>5, <2>6, Zenon
  <2>. QED
    BY <1>1, <1>2, <2>7, Zenon
<1>. QED
  BY <1>3, <1>4, Zenon

(* finalize: whoever had a connection with the process finds a close behind *)
(* what it was told before.                                                 *)
LEMMA FinalizeEffect ==
  ASSUME TypeOK, NEW p \in Procs, Finalize(p)
  PROVE  /\ procs' = procs \ {p} /\ nextPipeConnId' = nextPipeConnId
         /\ pipeConns' = Restrict(pipeConns, DOMAIN pipeConns \ ConnsOf(p))
         /\ toKernel'[p] = <<>> /\ \A q \in Procs : q # p => toKernel'[q] = toKernel[q]
         /\ \A q \in Procs : q \notin procs' => toGuest'[q] = <<>>
         /\ \A q \in procs' :
              /\ \A i \in DOMAIN toGuest[q] : /\ i \in DOMAIN toGuest'[q]
                                              /\ toGuest'[q][i] = toGuest[q][i]
              /\ \A i \in DOMAIN toGuest'[q] :
                   \/ i \in DOMAIN toGuest[q]
                   \/ /\ toGuest'[q][i].type = "pipe-close"
                      /\ toGuest'[q][i].conn \in ConnsOf(p)
                      /\ q \in {pipeConns[toGuest'[q][i].conn].client,
                                pipeConns[toGuest'[q][i].conn].server}
              /\ \A c \in ConnsOf(p) : q \in {pipeConns[c].client, pipeConns[c].server} =>
                   \E j \in DOMAIN toGuest'[q] :
                     /\ \A i \in DOMAIN toGuest[q] : j > i
                     /\ toGuest'[q][j].type = "pipe-close" /\ toGuest'[q][j].conn = c
<1>1. /\ procs' = procs \ {p} /\ nextPipeConnId' = nextPipeConnId
      /\ pipeConns' = Restrict(pipeConns, DOMAIN pipeConns \ ConnsOf(p))
      /\ toKernel' = [toKernel EXCEPT ![p] = <<>>]
      /\ toGuest' = [q \in Procs |-> IF q \in procs \ {p} THEN toGuest[q] \o Farewells(p, q) ELSE <<>>]
  BY DEF Finalize
<1>2. toKernel'[p] = <<>> /\ \A q \in Procs : q # p => toKernel'[q] = toKernel[q]
  BY <1>1 DEF TypeOK
<1>3. \A q \in Procs : q \notin procs' => toGuest'[q] = <<>>
  BY <1>1
<1>4. ASSUME NEW q \in procs'
      PROVE  /\ \A i \in DOMAIN toGuest[q] : /\ i \in DOMAIN toGuest'[q]
                                             /\ toGuest'[q][i] = toGuest[q][i]
             /\ \A i \in DOMAIN toGuest'[q] :
                  \/ i \in DOMAIN toGuest[q]
                  \/ /\ toGuest'[q][i].type = "pipe-close"
                     /\ toGuest'[q][i].conn \in ConnsOf(p)
                     /\ q \in {pipeConns[toGuest'[q][i].conn].client,
                               pipeConns[toGuest'[q][i].conn].server}
             /\ \A c \in ConnsOf(p) : q \in {pipeConns[c].client, pipeConns[c].server} =>
                  \E j \in DOMAIN toGuest'[q] :
                    /\ \A i \in DOMAIN toGuest[q] : j > i
                    /\ toGuest'[q][j].type = "pipe-close" /\ toGuest'[q][j].conn = c
  <2> DEFINE old == toGuest[q]
             f == Farewells(p, q)
  <2>1. q \in Procs /\ toGuest'[q] = old \o f
    BY <1>1, Zenon DEF TypeOK
  <2>2. old \in Seq(Opening \union Relayed)
    BY <2>1 DEF TypeOK
  <2>3. ConnTable(pipeConns)
    BY Zenon DEF TypeOK, ConnTable
  <2>4. /\ f \in Seq(Relayed)
        /\ \A i \in DOMAIN f : /\ f[i].type = "pipe-close" /\ f[i].conn \in ConnsOf(p)
                               /\ q \in {pipeConns[f[i].conn].client, pipeConns[f[i].conn].server}
        /\ \A c \in ConnsOf(p) : q \in {pipeConns[c].client, pipeConns[c].server} =>
             \E i \in DOMAIN f : f[i].conn = c
    BY <2>1, <2>3, Goodbyes
  <2> HIDE DEF f, old
  <2>5. /\ DOMAIN old = 1..Len(old) /\ Len(old) \in Nat
        /\ DOMAIN f = 1..Len(f) /\ Len(f) \in Nat
        /\ DOMAIN (old \o f) = 1..(Len(old) + Len(f))
        /\ \A i \in 1..Len(old) : (old \o f)[i] = old[i]
        /\ \A i \in 1..(Len(old) + Len(f)) : i > Len(old) => (old \o f)[i] = f[i - Len(old)]
    BY <2>2, <2>4
  <2>6. \A i \in DOMAIN old : i \in DOMAIN (old \o f) /\ (old \o f)[i] = old[i]
    BY <2>5
  <2>7. ASSUME NEW i \in DOMAIN (old \o f), i \notin DOMAIN old
        PROVE  i - Len(old) \in DOMAIN f /\ (old \o f)[i] = f[i - Len(old)]
    BY <2>5, <2>7
  <2>8. ASSUME NEW i \in DOMAIN f
        PROVE  /\ i + Len(old) \in DOMAIN (old \o f) /\ (old \o f)[i + Len(old)] = f[i]
               /\ \A x \in DOMAIN old : i + Len(old) > x
    <3>1. i + Len(old) \in 1..(Len(old) + Len(f)) /\ i + Len(old) > Len(old)
          /\ (i + Len(old)) - Len(old) = i
      BY <2>5, <2>8
    <3>. QED
      BY <2>5, <3>1
  <2>9. \A i \in DOMAIN (old \o f) : i \in DOMAIN old \/ \E x \in DOMAIN f : (old \o f)[i] = f[x]
    BY <2>7
  <2>10. ASSUME NEW c \in ConnsOf(p), q \in {pipeConns[c].client, pipeConns[c].server}
         PROVE  \E j \in DOMAIN (old \o f) :
                  /\ \A i \in DOMAIN old : j > i
                  /\ (old \o f)[j].type = "pipe-close" /\ (old \o f)[j].conn = c
    <3>1. PICK i \in DOMAIN f : f[i].conn = c
      BY <2>4, <2>10
    <3>2. f[i].type = "pipe-close"
      BY <2>4
    <3>3. /\ i + Len(old) \in DOMAIN (old \o f) /\ (old \o f)[i + Len(old)] = f[i]
          /\ \A x \in DOMAIN old : i + Len(old) > x
      BY <2>8
    <3>. QED
      BY <3>1, <3>2, <3>3
  <2> DEFINE g == old \o f
  <2>11. \A i \in DOMAIN g :
           \/ i \in DOMAIN old
           \/ /\ g[i].type = "pipe-close"
              /\ g[i].conn \in ConnsOf(p)
              /\ q \in {pipeConns[g[i].conn].client, pipeConns[g[i].conn].server}
    BY <2>4, <2>9
  <2>12. toGuest'[q] = g
    BY <2>1
  <2>13. \A i \in DOMAIN toGuest[q] : i \in DOMAIN g /\ g[i] = toGuest[q][i]
    BY <2>6 DEF old
  <2>14. \A c \in ConnsOf(p) : q \in {pipeConns[c].client, pipeConns[c].server} =>
           \E j \in DOMAIN g :
             /\ \A i \in DOMAIN toGuest[q] : j > i
             /\ g[j].type = "pipe-close" /\ g[j].conn = c
    BY <2>10 DEF old
  <2> HIDE DEF g
  <2>. QED
    BY <2>11, <2>12, <2>13, <2>14 DEF old
<1>. QED
  BY <1>1, <1>2, <1>3, <1>4, Zenon

(* The table of connections grows by dials only.                            *)
LEMMA TableStep ==
  ASSUME [Next]_vars
  PROVE  \/ \E p \in Procs, k \in Keys : Dial(p, k)
         \/ pipeConns' = pipeConns
         \/ \E S : pipeConns' = Restrict(pipeConns, DOMAIN pipeConns \ S)
<1> USE DEF kernelVars
<1>1. ASSUME NEW p \in Procs, Serves(p)
      PROVE  pipeConns' = pipeConns
  BY <1>1, ServesFrame
<1>2. ASSUME NEW p \in Procs, Quiet(p) \/ Dispatch(p) \/ \E c \in Conns, e \in Ends : Close(p, c, e)
      PROVE  pipeConns' = pipeConns
  BY <1>2, ZenonT(60) DEF Quiet, Write, Shutdown, Deliver, Tick, Dispatch, Close
<1>3. ASSUME NEW p \in Procs, ExitGuest(p)
      PROVE  pipeConns' = pipeConns
  BY <1>3, Zenon DEF ExitGuest
<1>4. ASSUME NEW p \in Procs, Relay(p)
      PROVE  pipeConns' = pipeConns \/ \E S : pipeConns' = Restrict(pipeConns, DOMAIN pipeConns \ S)
  BY <1>4 DEF Relay
<1>5. ASSUME NEW p \in Procs, Exited(p) \/ Kill(p)
      PROVE  \E S : pipeConns' = Restrict(pipeConns, DOMAIN pipeConns \ S)
  BY <1>5, Zenon DEF Exited, Kill, Finalize
<1>6. ASSUME UNCHANGED vars
      PROVE  pipeConns' = pipeConns
  BY <1>6 DEF vars
<1>. QED
  BY <1>1, <1>2, <1>3, <1>4, <1>5, <1>6, Split DEF Stirs

(* A dial takes a port nobody holds, and nothing else gives one.            *)
LEMMA PortStep ==
  ASSUME TypeOK, Alive, LeadsHome, Pairs, Records, PortsApart, [Next]_vars
  PROVE  PortsApart'
<1>1. ASSUME NEW p \in Procs, NEW k \in Keys, Dial(p, k)
      PROVE  PortsApart'
  <2>0. PICK c \in Conns, s \in Procs : Dialled(p, c, s)
    BY <1>1, DialEffect
  <2>1. /\ c = nextPipeConnId
        /\ DOMAIN pipeConns' = DOMAIN pipeConns \union {c}
        /\ pipeConns'[c].port # None => FreePort(pipeConns'[c].port)
        /\ \A d \in DOMAIN pipeConns : d # c => pipeConns'[d] = pipeConns[d]
    BY <2>0 DEF Dialled
  <2>2. c \notin DOMAIN pipeConns
    BY <2>1, Numbers DEF Records
  <2>3. \A d \in DOMAIN pipeConns : d # c /\ pipeConns'[d] = pipeConns[d]
    BY <2>1, <2>2
  <2>4. pipeConns'[c].port # None => \A d \in DOMAIN pipeConns : pipeConns[d].port # pipeConns'[c].port
    BY <2>1 DEF FreePort, Held
  <2>. QED
    BY <2>1, <2>3, <2>4 DEF PortsApart
<1>2. CASE pipeConns' = pipeConns
  BY <1>2 DEF PortsApart
<1>3. ASSUME NEW S, pipeConns' = Restrict(pipeConns, DOMAIN pipeConns \ S)
      PROVE  PortsApart'
  <2>1. DOMAIN pipeConns' \subseteq DOMAIN pipeConns
    BY <1>3 DEF Restrict
  <2>2. \A c \in DOMAIN pipeConns' : pipeConns'[c] = pipeConns[c]
    BY <1>3 DEF Restrict
  <2>. QED
    BY <2>1, <2>2 DEF PortsApart
<1>. QED
  BY <1>1, <1>2, <1>3, TableStep, Zenon

(* Where the parties stay, so do the records and the addresses.             *)
LEMMA PartiesKept ==
  ASSUME TypeOK, Pairs, SameParties
  PROVE  /\ Pairs'
         /\ \A p \in Procs, c \in Conns : PartyOf(p, c) => PartyOf(p, c)'
<1>1. Pairs'
  BY DEF Pairs, SameParties, Ends
<1>2. \A p \in Procs, c \in Conns : PartyOf(p, c) => PartyOf(p, c)'
  BY DEF PartyOf, SameParties
<1>. QED
  BY <1>1, <1>2

LEMMA RecordsKept ==
  ASSUME TypeOK, Records, SameParties,
         \A c \in DOMAIN pipeConns' :
           /\ c \in DOMAIN pipeConns /\ pipeConns'[c] = pipeConns[c]
           /\ pipeConns[c].client \in procs' /\ pipeConns[c].server \in procs'
  PROVE  Records'
<1>1. \A c \in DOMAIN pipeConns : c \in Conns
  BY DEF TypeOK
<1>2. nextPipeConnId' = nextPipeConnId
  BY DEF SameParties
<1>3. \A c \in DOMAIN pipeConns : end'[c]["client"].owner = end[c]["client"].owner
                                   /\ end'[c]["server"].owner = end[c]["server"].owner
  BY <1>1 DEF SameParties, Ends
<1>. QED
  BY <1>1, <1>2, <1>3 DEF Records

LEMMA AddressedKept ==
  ASSUME TypeOK, Addressed,
         \A p \in Procs, c \in Conns : PartyOf(p, c) => PartyOf(p, c)',
         \A p \in Procs : \A i \in DOMAIN toGuest'[p] :
           \/ \E j \in DOMAIN toGuest[p] : toGuest'[p][i] = toGuest[p][j]
           \/ \E c \in Conns : toGuest'[p][i].conn = c /\ PartyOf(p, c)',
         \A p \in Procs : \A i \in DOMAIN toKernel'[p] :
           \/ \E j \in DOMAIN toKernel[p] : toKernel'[p][i] = toKernel[p][j]
           \/ toKernel'[p][i].type = "exit"
           \/ \E c \in Conns : toKernel'[p][i].conn = c /\ PartyOf(p, c)'
  PROVE  Addressed'
<1>1. \A p \in Procs : \A i \in DOMAIN toGuest[p] : toGuest[p][i].conn \in Conns
  <2>1. \A p \in Procs : \A i \in DOMAIN toGuest[p] : toGuest[p][i] \in Opening \union Relayed
    BY Queues DEF TypeOK
  <2>. QED
    BY <2>1, Kinds
<1>2. \A p \in Procs : \A i \in DOMAIN toKernel[p] :
        toKernel[p][i].type # "exit" => toKernel[p][i].conn \in Conns
  <2>1. \A p \in Procs : \A i \in DOMAIN toKernel[p] : toKernel[p][i] \in Relayed \union {Exit}
    BY Queues DEF TypeOK
  <2>. QED
    BY <2>1, Kinds
<1>3. \A p \in Procs : \A i \in DOMAIN toGuest'[p] :
        \E c \in Conns : toGuest'[p][i].conn = c /\ PartyOf(p, c)'
  BY <1>1 DEF Addressed
<1>4. \A p \in Procs : \A i \in DOMAIN toKernel'[p] : toKernel'[p][i].type # "exit" =>
        \E c \in Conns : toKernel'[p][i].conn = c /\ PartyOf(p, c)'
  BY <1>2 DEF Addressed
<1>. QED
  BY <1>3, <1>4 DEF Addressed, PartyOf

(* Both ends, the record and the messages of a connection go on naming the  *)
(* same two processes.                                                      *)
LEMMA ConnStep ==
  ASSUME TypeOK, Alive, LeadsHome, Pairs, Records, Addressed, [Next]_vars
  PROVE  Pairs' /\ Records' /\ Addressed'
<1> DEFINE Good == Pairs /\ Records /\ Addressed
<1>a. /\ toGuest \in [Procs -> Seq(Opening \union Relayed)]
      /\ toKernel \in [Procs -> Seq(Relayed \union {Exit})]
  BY DEF TypeOK
<1>b. ASSUME SameParties, UNCHANGED <<procs, pipeConns>>
      PROVE  Pairs' /\ Records' /\ \A p \in Procs, c \in Conns : PartyOf(p, c) => PartyOf(p, c)'
  <2>1. \A c \in DOMAIN pipeConns :
          pipeConns[c].client \in procs' /\ pipeConns[c].server \in procs'
    BY <1>b DEF Records
  <2>. QED
    BY <1>b, <2>1, PartiesKept, RecordsKept
<1>1. ASSUME NEW p \in Procs, Serves(p)
      PROVE  Good'
  BY <1>1, ServesFrame DEF Pairs, Records, Addressed, PartyOf
<1>2. ASSUME NEW p \in Procs, NEW m \in Relayed, PartyOf(p, m.conn), Post(p, m), SameParties,
             UNCHANGED <<procs, pipeConns, toGuest>>
      PROVE  Good'
  <2>1. m.conn \in Conns
    BY Kinds
  <2>2. \A q \in Procs : \A i \in DOMAIN toKernel'[q] :
          \/ q = p /\ toKernel'[q][i] = m
          \/ i \in DOMAIN toKernel[q] /\ toKernel'[q][i] = toKernel[q][i]
    BY <1>a, <1>2, PostStep
  <2>3. PartyOf(p, m.conn)'
    BY <1>2, <2>1, <1>b
  <2>4. \A q \in Procs : \A i \in DOMAIN toKernel'[q] :
           \/ \E j \in DOMAIN toKernel[q] : toKernel'[q][i] = toKernel[q][j]
           \/ toKernel'[q][i].type = "exit"
           \/ \E c \in Conns : toKernel'[q][i].conn = c /\ PartyOf(q, c)'
    BY <2>1, <2>2, <2>3
  <2>. QED
    BY <1>2, <1>b, <2>4, AddressedKept
<1>3. ASSUME NEW p \in Procs, Quiet(p)
      PROVE  Good'
  <2>1. CASE toKernel' = toKernel
    BY <1>3, <1>b, <2>1, QuietEffect, AddressedKept
  <2>2. CASE toKernel' # toKernel
    BY <1>2, <1>3, <2>2, QuietEffect
  <2>. QED
    BY <2>1, <2>2
<1>4. ASSUME NEW p \in Procs, NEW c \in Conns, NEW e \in Ends, Close(p, c, e)
      PROVE  Good'
  BY <1>2, <1>4, CloseEffect
<1>5. ASSUME NEW p \in Procs, NEW k \in Keys, Dial(p, k)
      PROVE  Good'
  <2>1. PICK c \in Conns, s \in Procs : Dialled(p, c, s)
    BY <1>5, DialEffect
  <2>2. /\ c = nextPipeConnId /\ nextPipeConnId' = c + 1 /\ s # p
        /\ end'[c]["client"].owner = p /\ end'[c]["server"].owner = s
        /\ \A d \in Conns : d # c => end'[d] = end[d]
    BY <2>1 DEF Dialled
  <2>3. \A d \in Conns : (d < c + 1 <=> d < c \/ d = c) /\ (d >= c + 1 => d >= c /\ d # c)
    BY Numbers
  <2>4. Pairs'
    BY <2>2, <2>3 DEF Pairs
  <2>5. /\ p \in procs /\ s \in procs /\ procs' = procs
        /\ DOMAIN pipeConns' = DOMAIN pipeConns \union {c}
        /\ pipeConns'[c].client = p /\ pipeConns'[c].server = s
        /\ \A d \in DOMAIN pipeConns : d # c => pipeConns'[d] = pipeConns[d]
    BY <2>1 DEF Dialled
  <2>6. \A d \in DOMAIN pipeConns : d \in Conns /\ d # c /\ d < c + 1
    <3>1. ASSUME NEW d \in DOMAIN pipeConns
          PROVE  d \in Conns /\ d < c
      BY <2>2, Zenon DEF Records, TypeOK
    <3>2. \A d \in Conns : d < c => d # c /\ d < c + 1
      BY Numbers
    <3>. QED
      BY <3>1, <3>2
  <2>7. c < c + 1
    BY Numbers
  <2>8. Records'
    BY <2>2, <2>5, <2>6, <2>7 DEF Records
  <2>9. \A q \in Procs, d \in Conns : PartyOf(q, d) => PartyOf(q, d)'
    BY <2>2, <2>3, Numbers DEF PartyOf
  <2>10. PartyOf(s, c)'
    BY <2>2, <2>7 DEF PartyOf, Ends
  <2>11. PICK m \in Opening : toGuest' = [toGuest EXCEPT ![s] = Append(@, m)] /\ m.conn = c
    BY <2>1, Zenon DEF Dialled
  <2>12. \A q \in Procs : \A i \in DOMAIN toGuest'[q] :
           \/ i \in DOMAIN toGuest[q] /\ toGuest'[q][i] = toGuest[q][i]
           \/ q = s /\ toGuest'[q][i] = m
    <3>1. m \in Opening \union Relayed
      OBVIOUS
    <3>. QED
      BY <1>a, <2>11, <3>1, Added
  <2>13. \A q \in Procs : \A i \in DOMAIN toGuest'[q] :
           \/ \E j \in DOMAIN toGuest[q] : toGuest'[q][i] = toGuest[q][j]
           \/ \E d \in Conns : toGuest'[q][i].conn = d /\ PartyOf(q, d)'
    BY <2>10, <2>11, <2>12
  <2>14. toKernel' = toKernel
    BY <2>1 DEF Dialled
  <2>15. Addressed'
    BY <2>9, <2>13, <2>14, AddressedKept
  <2>. QED
    BY <2>4, <2>8, <2>15
<1>6. ASSUME NEW p \in Procs, Dispatch(p)
      PROVE  Good'
  <2>0. PICK d \in Conns, e \in Ends : Answered(p, d, e)
    BY <1>6, AnswerEffect
  <2>1. /\ SameParties /\ UNCHANGED <<procs, pipeConns>>
        /\ end[d][e].owner = p
        /\ toKernel' = toKernel \/ \E x \in Relayed : Post(p, x) /\ x.conn = d
    BY <2>0 DEF Answered
  <2>2. /\ \A q \in Procs : q # p => toGuest'[q] = toGuest[q]
        /\ \A i \in DOMAIN toGuest'[p] : i + 1 \in DOMAIN toGuest[p]
                                         /\ toGuest'[p][i] = toGuest[p][i + 1]
    BY <2>0, Zenon DEF Answered
  <2>3. PartyOf(p, d)
    BY <2>1, Owners
  <2>4. Pairs' /\ Records' /\ \A q \in Procs, c \in Conns : PartyOf(q, c) => PartyOf(q, c)'
    BY <1>b, <2>1
  <2>5. \A q \in Procs : \A i \in DOMAIN toGuest'[q] :
          \E j \in DOMAIN toGuest[q] : toGuest'[q][i] = toGuest[q][j]
    BY <2>2
  <2>6. PartyOf(p, d)'
    BY <2>3, <2>4
  <2>7. \A q \in Procs : \A i \in DOMAIN toKernel'[q] :
           \/ \E j \in DOMAIN toKernel[q] : toKernel'[q][i] = toKernel[q][j]
           \/ \E c \in Conns : toKernel'[q][i].conn = c /\ PartyOf(q, c)'
    <3>1. ASSUME NEW x \in Relayed, Post(p, x), x.conn = d
          PROVE  \A q \in Procs : \A i \in DOMAIN toKernel'[q] :
                   \/ q = p /\ toKernel'[q][i] = x
                   \/ i \in DOMAIN toKernel[q] /\ toKernel'[q][i] = toKernel[q][i]
      BY <1>a, <3>1, PostStep
    <3>. QED
      BY <2>1, <2>6, <3>1
  <2>. QED
    BY <2>4, <2>5, <2>7, AddressedKept
<1>7. ASSUME NEW p \in Procs, ExitGuest(p)
      PROVE  Good'
  <2>1. SameParties /\ Post(p, Exit) /\ UNCHANGED <<procs, pipeConns, toGuest>>
    BY <1>7, ExitEffect DEF EndsCut
  <2>2. \A q \in Procs : \A i \in DOMAIN toKernel'[q] :
           \/ \E j \in DOMAIN toKernel[q] : toKernel'[q][i] = toKernel[q][j]
           \/ toKernel'[q][i].type = "exit"
    BY <1>a, <2>1, PostStep, Kinds
  <2>. QED
    BY <1>b, <2>1, <2>2, AddressedKept
<1>8. ASSUME NEW p \in Procs, Relay(p)
      PROVE  Good'
  <2>0. PICK m \in Relayed : m = Head(toKernel[p])
    BY <1>8, RelayEffect, Zenon
  <2>1. /\ toKernel[p] # <<>> /\ PartyOf(p, m.conn)
        /\ toKernel' = [toKernel EXCEPT ![p] = Tail(@)]
        /\ UNCHANGED <<procs, nextPipeConnId, end>>
    BY <1>8, <2>0, RelayEffect, Zenon
  <2>2. \/ UNCHANGED <<pipeConns, toGuest>>
        \/ \E other \in procs :
             /\ m.conn \in DOMAIN pipeConns
             /\ {p, other} = {pipeConns[m.conn].client, pipeConns[m.conn].server}
             /\ toGuest' = [toGuest EXCEPT ![other] = Append(@, m)]
             /\ \/ pipeConns' = pipeConns
                \/ pipeConns' = Restrict(pipeConns, DOMAIN pipeConns \ {m.conn})
    BY <1>8, <2>0, RelayEffect, Zenon
  <2>3. m.conn \in Conns
    BY Kinds
  <2>4. \A q \in Procs : \A i \in DOMAIN toKernel'[q] :
          \E j \in DOMAIN toKernel[q] : toKernel'[q][i] = toKernel[q][j]
    <3>1. /\ \A q \in Procs : q # p => toKernel'[q] = toKernel[q]
          /\ \A i \in DOMAIN toKernel'[p] : i + 1 \in DOMAIN toKernel[p]
                                            /\ toKernel'[p][i] = toKernel[p][i + 1]
      BY <1>a, <2>1, Taken
    <3>. QED
      BY <3>1
  <2>5. SameParties
    BY <2>1 DEF SameParties
  <2>6. Pairs' /\ \A q \in Procs, c \in Conns : PartyOf(q, c) => PartyOf(q, c)'
    BY <2>5, PartiesKept
  <2>7. \A c \in DOMAIN pipeConns' : c \in DOMAIN pipeConns /\ pipeConns'[c] = pipeConns[c]
    BY <2>2 DEF Restrict
  <2>8. Records'
    BY <2>1, <2>5, <2>7, RecordsKept DEF Records
  <2>9. \A q \in Procs : \A i \in DOMAIN toGuest'[q] :
          \/ \E j \in DOMAIN toGuest[q] : toGuest'[q][i] = toGuest[q][j]
          \/ \E c \in Conns : toGuest'[q][i].conn = c /\ PartyOf(q, c)'
    <3>1. CASE toGuest' = toGuest
      BY <3>1
    <3>2. ASSUME NEW other \in procs, m.conn \in DOMAIN pipeConns,
                 {p, other} = {pipeConns[m.conn].client, pipeConns[m.conn].server},
                 toGuest' = [toGuest EXCEPT ![other] = Append(@, m)]
          PROVE  \A q \in Procs : \A i \in DOMAIN toGuest'[q] :
                   \/ \E j \in DOMAIN toGuest[q] : toGuest'[q][i] = toGuest[q][j]
                   \/ \E c \in Conns : toGuest'[q][i].conn = c /\ PartyOf(q, c)'
      <4>0. PICK r \in Procs : r = other
        BY DEF TypeOK
      <4>1. m \in Opening \union Relayed
        OBVIOUS
      <4>2. \A q \in Procs : \A i \in DOMAIN toGuest'[q] :
              \/ i \in DOMAIN toGuest[q] /\ toGuest'[q][i] = toGuest[q][i]
              \/ q = r /\ toGuest'[q][i] = m
        BY <1>a, <3>2, <4>0, <4>1, Added
      <4>3. PartyOf(r, m.conn)
        BY <3>2, <4>0, Zenon DEF Records, PartyOf, Ends
      <4>4. PartyOf(r, m.conn)'
        BY <2>3, <2>6, <4>3
      <4>. QED
        BY <2>3, <4>2, <4>4
    <3>. QED
      BY <2>2, <3>1, <3>2, Zenon
  <2>10. Addressed'
    BY <2>4, <2>6, <2>9, AddressedKept
  <2>. QED
    BY <2>6, <2>8, <2>10
<1>9. ASSUME NEW p \in Procs, Finalize(p), SameParties
      PROVE  Good'
  <2>1. /\ procs' = procs \ {p} /\ nextPipeConnId' = nextPipeConnId
        /\ pipeConns' = Restrict(pipeConns, DOMAIN pipeConns \ ConnsOf(p))
        /\ toKernel'[p] = <<>> /\ \A q \in Procs : q # p => toKernel'[q] = toKernel[q]
        /\ \A q \in Procs : q \notin procs' => toGuest'[q] = <<>>
        /\ \A q \in procs' :
             /\ \A i \in DOMAIN toGuest[q] : /\ i \in DOMAIN toGuest'[q]
                                             /\ toGuest'[q][i] = toGuest[q][i]
             /\ \A i \in DOMAIN toGuest'[q] :
                  \/ i \in DOMAIN toGuest[q]
                  \/ /\ toGuest'[q][i].type = "pipe-close"
                     /\ toGuest'[q][i].conn \in ConnsOf(p)
                     /\ q \in {pipeConns[toGuest'[q][i].conn].client,
                               pipeConns[toGuest'[q][i].conn].server}
             /\ \A c \in ConnsOf(p) : q \in {pipeConns[c].client, pipeConns[c].server} =>
                  \E j \in DOMAIN toGuest'[q] :
                    /\ \A i \in DOMAIN toGuest[q] : j > i
                    /\ toGuest'[q][j].type = "pipe-close" /\ toGuest'[q][j].conn = c
    BY <1>9, FinalizeEffect, Zenon
  <2>2. Pairs' /\ \A q \in Procs, c \in Conns : PartyOf(q, c) => PartyOf(q, c)'
    BY <1>9, PartiesKept
  <2>3. \A c \in DOMAIN pipeConns' :
          /\ c \in DOMAIN pipeConns /\ pipeConns'[c] = pipeConns[c]
          /\ pipeConns[c].client # p /\ pipeConns[c].server # p
    BY <2>1, Zenon DEF Restrict, ConnsOf
  <2>4. Records'
    <3>1. \A c \in DOMAIN pipeConns' : pipeConns[c].client \in procs' /\ pipeConns[c].server \in procs'
      BY <2>1, <2>3, Zenon DEF Records
    <3>. QED
      BY <1>9, <2>3, <3>1, RecordsKept
  <2>5. \A q \in Procs : \A i \in DOMAIN toKernel'[q] :
          \E j \in DOMAIN toKernel[q] : toKernel'[q][i] = toKernel[q][j]
    BY <2>1
  <2>6. \A c \in ConnsOf(p) :
          c \in Conns /\ \A q \in {pipeConns[c].client, pipeConns[c].server} : PartyOf(q, c)'
    <3>1. \A c \in ConnsOf(p) : c \in DOMAIN pipeConns /\ c \in Conns
      BY DEF ConnsOf, TypeOK
    <3>2. \A c \in ConnsOf(p) : \A q \in {pipeConns[c].client, pipeConns[c].server} :
            q \in Procs /\ PartyOf(q, c)
      BY <3>1, Zenon DEF Records, PartyOf, Ends, TypeOK
    <3>. QED
      BY <2>2, <3>1, <3>2
  <2>7. \A q \in Procs : \A i \in DOMAIN toGuest'[q] :
          \/ \E j \in DOMAIN toGuest[q] : toGuest'[q][i] = toGuest[q][j]
          \/ \E c \in Conns : toGuest'[q][i].conn = c /\ PartyOf(q, c)'
    BY <2>1, <2>6
  <2>8. Addressed'
    BY <2>2, <2>5, <2>7, AddressedKept
  <2>. QED
    BY <2>2, <2>4, <2>8
<1>10. ASSUME NEW p \in Procs, Exited(p)
       PROVE  Good'
  <2>1. Finalize(p) /\ end' = end
    BY <1>10 DEF Exited, guestVars
  <2>2. SameParties
    BY <2>1 DEF SameParties, Finalize
  <2>. QED
    BY <1>9, <2>1, <2>2
<1>11. ASSUME NEW p \in Procs, Kill(p)
       PROVE  Good'
  BY <1>9, <1>11, KillEffect DEF EndsCut
<1>12. ASSUME UNCHANGED vars
       PROVE  Good'
  BY <1>12 DEF vars, kernelVars, guestVars, Pairs, Records, Addressed, PartyOf
<1>. QED
  <2>1. Good'
    BY <1>1, <1>3, <1>4, <1>5, <1>6, <1>7, <1>8, <1>10, <1>11, <1>12, Split DEF Stirs
  <2>. QED
    BY <2>1

-----------------------------------------------------------------------------

(* The indices of what waits for a guest are positive.                      *)
LEMMA Places ==
  ASSUME TypeOK, NEW p \in Procs
  PROVE  /\ \A i \in DOMAIN toGuest[p] : i \in Nat \ {0}
         /\ \A c : OnTheWay(p, c) <=> \E i \in DOMAIN toGuest[p] : Parts(p, i, c)
<1>1. DOMAIN toGuest[p] = 1..Len(toGuest[p]) /\ Len(toGuest[p]) \in Nat
  <2>1. toGuest[p] \in Seq(Opening \union Relayed)
    BY DEF TypeOK
  <2>. QED
    BY <2>1, Queues
<1>. QED
  BY <1>1 DEF OnTheWay, Parts

(* An end that nobody has opened yet.                                       *)
Fresh(c) == end[c]["server"].st = "none" /\ ~end[c]["server"].mapped

(* A step that leaves the table, the queues and the fresh ends alone.       *)
LEMMA HandshakesKept ==
  ASSUME TypeOK, Handshakes, UNCHANGED <<pipeConns, toGuest>>,
         \A c \in Conns : Fresh(c) => Fresh(c)' /\ end'[c]["server"].owner = end[c]["server"].owner
  PROVE  Handshakes'
<1>1. \A p \in Procs, c \in Conns : \A i \in DOMAIN toGuest[p] :
        /\ Opens(p, i, c)' <=> Opens(p, i, c)
        /\ Parts(p, i, c)' <=> Parts(p, i, c)
  BY DEF Opens, Parts
<1>. QED
  BY <1>1 DEF Handshakes, Fresh

(* An offer keeps its promise until it is read.                             *)
LEMMA HandshakesStep ==
  ASSUME TypeOK, Alive, LeadsHome, Pairs, Records, Addressed, Handshakes, HungUp, [Next]_vars
  PROVE  Handshakes'
<1>1. ASSUME NEW p \in Procs, Serves(p)
      PROVE  Handshakes'
  BY <1>1, ServesFrame, HandshakesKept DEF Fresh
<1>2. ASSUME NEW p \in Procs, Quiet(p)
      PROVE  Handshakes'
  BY <1>2, QuietEffect, HandshakesKept DEF Fresh, SameParties, Ends
<1>3. ASSUME NEW p \in Procs, NEW c \in Conns, NEW e \in Ends, Close(p, c, e)
      PROVE  Handshakes'
  BY <1>3, CloseEffect, HandshakesKept DEF Fresh, SameParties, Ends
<1>4. ASSUME NEW p \in Procs, ExitGuest(p)
      PROVE  Handshakes'
  BY <1>4, ExitEffect, HandshakesKept DEF Fresh, EndsCut, SameParties, Ends
<1>5. ASSUME NEW p \in Procs, NEW k \in Keys, Dial(p, k)
      PROVE  Handshakes'
  <2>1. PICK n \in Conns, s \in Procs : Dialled(p, n, s)
    BY <1>5, DialEffect
  <2>2. /\ n = nextPipeConnId /\ DOMAIN pipeConns' = DOMAIN pipeConns \union {n}
        /\ end'[n]["server"].owner = s /\ Fresh(n)'
        /\ \A c \in Conns : c # n => end'[c] = end[c]
    BY <2>1 DEF Dialled, Fresh
  <2>3. PICK m \in Opening : toGuest' = [toGuest EXCEPT ![s] = Append(@, m)] /\ m.conn = n
    BY <2>1, Zenon DEF Dialled
  <2>4. /\ \A q \in Procs : \A i \in DOMAIN toGuest[q] : i \in DOMAIN toGuest'[q]
                                                         /\ toGuest'[q][i] = toGuest[q][i]
        /\ \A q \in Procs : \A i \in DOMAIN toGuest'[q] :
             i \in DOMAIN toGuest[q] \/ (q = s /\ toGuest'[q][i] = m)
        /\ \A i, j \in DOMAIN toGuest'[s] \ DOMAIN toGuest[s] : i = j
    <3>1. m \in Opening \union Relayed
      OBVIOUS
    <3>2. toGuest \in [Procs -> Seq(Opening \union Relayed)]
      BY Zenon DEF TypeOK
    <3>. QED
      BY <2>3, <3>1, <3>2, Added
  <2>5. \A q \in Procs, c \in Conns : \A i \in DOMAIN toGuest[q] :
          /\ Opens(q, i, c)' <=> Opens(q, i, c)
          /\ Parts(q, i, c)' <=> Parts(q, i, c)
          /\ Opens(q, i, c) => c # n
    <3>1. \A q \in Procs, c \in Conns : \A i \in DOMAIN toGuest[q] :
            Opens(q, i, c) => c < nextPipeConnId
      BY Zenon DEF Addressed, PartyOf, Opens
    <3>2. \A c \in Conns : c < n => c # n
      BY Numbers
    <3>3. \A q \in Procs, c \in Conns : \A i \in DOMAIN toGuest[q] :
            /\ Opens(q, i, c)' <=> Opens(q, i, c)
            /\ Parts(q, i, c)' <=> Parts(q, i, c)
      BY <2>4 DEF Opens, Parts
    <3>. QED
      BY <2>2, <3>1, <3>2, <3>3
  <2>6. \A q \in Procs, c \in Conns : \A i \in DOMAIN toGuest'[q] :
          Opens(q, i, c)' => i \in DOMAIN toGuest[q] \/ (q = s /\ c = n)
    BY <2>3, <2>4 DEF Opens
  <2>7. ASSUME NEW q \in Procs, NEW c \in Conns, NEW i \in DOMAIN toGuest[q], Opens(q, i, c)
        PROVE  /\ end'[c]["server"].owner = q /\ Fresh(c)'
               /\ \A j \in DOMAIN toGuest'[q] : Opens(q, j, c)' => j = i
               /\ c \in DOMAIN pipeConns' \/ \E j \in DOMAIN toGuest'[q] : j > i /\ Parts(q, j, c)'
    <3>1. c # n
      BY <2>5, <2>7
    <3>2. end'[c]["server"].owner = q /\ Fresh(c)'
      BY <2>2, <2>7, <3>1 DEF Handshakes, Fresh
    <3>3. \A j \in DOMAIN toGuest'[q] : Opens(q, j, c)' => j = i
      BY <2>5, <2>6, <2>7, <3>1 DEF Handshakes
    <3>4. c \in DOMAIN pipeConns' \/ \E j \in DOMAIN toGuest'[q] : j > i /\ Parts(q, j, c)'
      <4>1. CASE c \in DOMAIN pipeConns
        BY <2>2, <4>1
      <4>2. ASSUME NEW j \in DOMAIN toGuest[q], j > i, Parts(q, j, c)
            PROVE  j \in DOMAIN toGuest'[q] /\ Parts(q, j, c)'
        BY <2>4, <2>5, <4>2
      <4>. QED
        BY <2>7, <4>1, <4>2 DEF Handshakes
    <3>. QED
      BY <3>2, <3>3, <3>4
  <2>8. \A i, j \in DOMAIN toGuest'[s] : Opens(s, i, n)' /\ Opens(s, j, n)' => i = j
    BY <2>4, <2>5, <2>6
  <2>9. n \in DOMAIN pipeConns'
    BY <2>2
  <2>10. \A q \in Procs, c \in Conns : \A i \in DOMAIN toGuest'[q] : Opens(q, i, c)' =>
           /\ end'[c]["server"].owner = q /\ Fresh(c)'
           /\ \A j \in DOMAIN toGuest'[q] : Opens(q, j, c)' => j = i
           /\ c \in DOMAIN pipeConns' \/ \E j \in DOMAIN toGuest'[q] : j > i /\ Parts(q, j, c)'
    BY <2>2, <2>5, <2>6, <2>7, <2>8, <2>9
  <2>. QED
    BY <2>10 DEF Handshakes, Fresh
<1>6. ASSUME NEW p \in Procs, Dispatch(p)
      PROVE  Handshakes'
  <2>1. PICK d \in Conns, e \in Ends : Answered(p, d, e)
    BY <1>6, AnswerEffect
  <2>2. ASSUME NEW q \in Procs, q # p, NEW c \in Conns, NEW i \in DOMAIN toGuest'[q], Opens(q, i, c)'
        PROVE  /\ end'[c]["server"].owner = q /\ Fresh(c)'
               /\ \A j \in DOMAIN toGuest'[q] : Opens(q, j, c)' => j = i
               /\ c \in DOMAIN pipeConns' \/ \E j \in DOMAIN toGuest'[q] : j > i /\ Parts(q, j, c)'
    <3>1. /\ toGuest'[q] = toGuest[q] /\ pipeConns' = pipeConns
          /\ end[d][e].owner = p
          /\ c # d \/ "server" # e => end'[c]["server"] = end[c]["server"]
      BY <2>1, <2>2, Zenon DEF Answered, Ends
    <3>2. \A j \in DOMAIN toGuest[q] : (Opens(q, j, c)' <=> Opens(q, j, c))
                                       /\ (Parts(q, j, c)' <=> Parts(q, j, c))
      BY <3>1 DEF Opens, Parts
    <3>. QED
      BY <2>2, <3>1, <3>2 DEF Handshakes, Fresh
  <2>3. ASSUME NEW c \in Conns, NEW i \in DOMAIN toGuest'[p], Opens(p, i, c)'
        PROVE  /\ end'[c]["server"].owner = p /\ Fresh(c)'
               /\ \A j \in DOMAIN toGuest'[p] : Opens(p, j, c)' => j = i
               /\ c \in DOMAIN pipeConns' \/ \E j \in DOMAIN toGuest'[p] : j > i /\ Parts(p, j, c)'
    <3>1. /\ \A j \in DOMAIN toGuest'[p] :
               /\ j \in Nat \ {0} /\ j + 1 \in DOMAIN toGuest[p]
               /\ Opens(p, j, c)' <=> Opens(p, j + 1, c)
          /\ \A j \in DOMAIN toGuest[p] : j # 1 =>
               j - 1 \in DOMAIN toGuest'[p] /\ (Parts(p, j - 1, c)' <=> Parts(p, j, c))
      BY <2>1 DEF Answered, Opens, Parts
    <3>2. /\ end[c]["server"].owner = p /\ Fresh(c)
          /\ \A j \in DOMAIN toGuest[p] : Opens(p, j, c) => j = i + 1
          /\ c \in DOMAIN pipeConns \/ \E j \in DOMAIN toGuest[p] : j > i + 1 /\ Parts(p, j, c)
      BY <2>3, <3>1 DEF Handshakes, Fresh
    <3>3. i \in Nat \ {0} /\ 1 # i + 1
      BY <2>3, <3>1
    <3>4. ~Opens(p, 1, c)
      BY <2>1, <3>2, <3>3, Zenon DEF Answered
    <3>5. end'[c]["server"].owner = p /\ Fresh(c)'
      BY <2>1, <3>2, <3>4 DEF Answered, Fresh, SameParties, Ends
    <3>6. \A j \in DOMAIN toGuest'[p] : Opens(p, j, c)' => j = i
      BY <3>1, <3>2, <3>3
    <3>7. ASSUME NEW j \in DOMAIN toGuest[p], j > i + 1, Parts(p, j, c)
          PROVE  j - 1 \in DOMAIN toGuest'[p] /\ j - 1 > i /\ Parts(p, j - 1, c)'
      <4>1. j \in Nat \ {0}
        BY Places
      <4>. QED
        BY <3>1, <3>3, <3>7, <4>1
    <3>8. c \in DOMAIN pipeConns' \/ \E j \in DOMAIN toGuest'[p] : j > i /\ Parts(p, j, c)'
      <4>1. CASE c \in DOMAIN pipeConns
        BY <2>1, <4>1 DEF Answered
      <4>. QED
        BY <3>2, <3>7, <4>1
    <3>. QED
      BY <3>5, <3>6, <3>8
  <2>. QED
    BY <2>2, <2>3 DEF Handshakes, Fresh
<1>7. ASSUME NEW p \in Procs, Relay(p)
      PROVE  Handshakes'
  <2>1. PICK m \in Relayed : m = Head(toKernel[p])
    BY <1>7, RelayEffect, Zenon
  <2>2. m.conn \in Conns /\ m.type # "pipe-open"
    BY Kinds
  <2>3. toKernel[p] # <<>> /\ end' = end
    BY <1>7, <2>1, RelayEffect, Zenon
  <2>4. CASE UNCHANGED <<pipeConns, toGuest>>
    BY <2>3, <2>4, HandshakesKept DEF Fresh
  <2>5. ASSUME NEW other \in procs, m.conn \in DOMAIN pipeConns, other # p,
               {p, other} = {pipeConns[m.conn].client, pipeConns[m.conn].server},
               toGuest' = [toGuest EXCEPT ![other] = Append(@, m)],
               pipeConns' = IF m.type = "pipe-close"
                            THEN Restrict(pipeConns, DOMAIN pipeConns \ {m.conn}) ELSE pipeConns
        PROVE  Handshakes'
    <3>0. PICK r \in Procs : r = other
      BY DEF TypeOK
    <3>1. /\ \A q \in Procs : \A i \in DOMAIN toGuest[q] : i \in DOMAIN toGuest'[q]
                                                           /\ toGuest'[q][i] = toGuest[q][i]
          /\ \A q \in Procs : \A i \in DOMAIN toGuest'[q] :
               i \in DOMAIN toGuest[q] \/ (q = r /\ toGuest'[q][i] = m)
          /\ \E i \in DOMAIN toGuest'[r] :
               toGuest'[r][i] = m /\ \A j \in DOMAIN toGuest[r] : i > j
      <4>1. m \in Opening \union Relayed
        OBVIOUS
      <4>2. toGuest \in [Procs -> Seq(Opening \union Relayed)]
        BY Zenon DEF TypeOK
      <4>. QED
        BY <2>5, <3>0, <4>1, <4>2, Added
    <3>2. \A q \in Procs, c \in Conns : \A i \in DOMAIN toGuest[q] :
            /\ Opens(q, i, c)' <=> Opens(q, i, c)
            /\ Parts(q, i, c) => Parts(q, i, c)'
      BY <3>1 DEF Opens, Parts
    <3>3. \A q \in Procs, c \in Conns : \A i \in DOMAIN toGuest'[q] :
            Opens(q, i, c)' => i \in DOMAIN toGuest[q]
      BY <2>2, <3>1 DEF Opens
    <3>4. ASSUME m.type = "pipe-close", NEW q \in Procs, NEW i \in DOMAIN toGuest[q],
                 Opens(q, i, m.conn)
          PROVE  q = r
      <4>1. 1 \in DOMAIN toKernel[p] /\ toKernel[p][1] = m
        BY <2>1, <2>3, Queues DEF TypeOK
      <4>2. \A j \in DOMAIN toGuest[p] : ~Opens(p, j, m.conn)
        BY <2>2, <3>4, <4>1 DEF HungUp
      <4>3. q # p
        BY <3>4, <4>2
      <4>4. end[m.conn]["server"].owner = q
        BY <2>2, <3>4 DEF Handshakes
      <4>5. pipeConns[m.conn].server = q
        BY <2>5, <4>4 DEF Records
      <4>. QED
        BY <2>5, <3>0, <4>3, <4>5, Zenon
    <3>5. ASSUME NEW q \in Procs, NEW c \in Conns, NEW i \in DOMAIN toGuest[q], Opens(q, i, c)
          PROVE  c \in DOMAIN pipeConns' \/ \E j \in DOMAIN toGuest'[q] : j > i /\ Parts(q, j, c)'
      <4>1. CASE c \in DOMAIN pipeConns /\ ~(m.type = "pipe-close" /\ c = m.conn)
        BY <2>5, <4>1 DEF Restrict
      <4>2. CASE m.type = "pipe-close" /\ c = m.conn
        <5>1. q = r
          BY <3>4, <3>5, <4>2
        <5>. QED
          BY <3>1, <4>2, <5>1 DEF Parts
      <4>3. ASSUME NEW j \in DOMAIN toGuest[q], j > i, Parts(q, j, c)
            PROVE  j \in DOMAIN toGuest'[q] /\ Parts(q, j, c)'
        BY <3>1, <3>2, <4>3
      <4>. QED
        BY <3>5, <4>1, <4>2, <4>3 DEF Handshakes
    <3>6. \A c \in Conns : (Fresh(c)' <=> Fresh(c)) /\ end'[c]["server"].owner = end[c]["server"].owner
      BY <2>3 DEF Fresh
    <3>. QED
      BY <3>2, <3>3, <3>5, <3>6 DEF Handshakes, Fresh
  <2>. QED
    BY <1>7, <2>1, <2>4, <2>5, RelayEffect, Zenon
<1>8. ASSUME NEW p \in Procs, Finalize(p), SameParties, \A c \in Conns : Fresh(c) => Fresh(c)'
      PROVE  Handshakes'
  <2>1. /\ procs' = procs \ {p}
        /\ pipeConns' = Restrict(pipeConns, DOMAIN pipeConns \ ConnsOf(p))
        /\ \A q \in Procs : q \notin procs' => toGuest'[q] = <<>>
        /\ \A q \in procs' :
             /\ \A i \in DOMAIN toGuest[q] : /\ i \in DOMAIN toGuest'[q]
                                             /\ toGuest'[q][i] = toGuest[q][i]
             /\ \A i \in DOMAIN toGuest'[q] :
                  \/ i \in DOMAIN toGuest[q]
                  \/ /\ toGuest'[q][i].type = "pipe-close"
                     /\ toGuest'[q][i].conn \in ConnsOf(p)
                     /\ q \in {pipeConns[toGuest'[q][i].conn].client,
                               pipeConns[toGuest'[q][i].conn].server}
             /\ \A c \in ConnsOf(p) : q \in {pipeConns[c].client, pipeConns[c].server} =>
                  \E j \in DOMAIN toGuest'[q] :
                    /\ \A i \in DOMAIN toGuest[q] : j > i
                    /\ toGuest'[q][j].type = "pipe-close" /\ toGuest'[q][j].conn = c
    BY <1>8, FinalizeEffect, Zenon
  <2>2. ASSUME NEW q \in Procs, q \in procs', NEW c \in Conns, NEW i \in DOMAIN toGuest'[q],
               Opens(q, i, c)'
        PROVE  /\ end'[c]["server"].owner = q /\ Fresh(c)'
               /\ \A j \in DOMAIN toGuest'[q] : Opens(q, j, c)' => j = i
               /\ c \in DOMAIN pipeConns' \/ \E j \in DOMAIN toGuest'[q] : j > i /\ Parts(q, j, c)'
    <3>1. \A j \in DOMAIN toGuest[q] : (Opens(q, j, c)' <=> Opens(q, j, c))
                                       /\ (Parts(q, j, c)' <=> Parts(q, j, c))
      BY <2>1, <2>2 DEF Opens, Parts
    <3>2. \A j \in DOMAIN toGuest'[q] : Opens(q, j, c)' => j \in DOMAIN toGuest[q]
      BY <2>1, <2>2, Zenon DEF Opens
    <3>3. i \in DOMAIN toGuest[q] /\ Opens(q, i, c)
      BY <2>2, <3>1, <3>2
    <3>4. /\ end[c]["server"].owner = q /\ Fresh(c)
          /\ \A j \in DOMAIN toGuest[q] : Opens(q, j, c) => j = i
          /\ c \in DOMAIN pipeConns \/ \E j \in DOMAIN toGuest[q] : j > i /\ Parts(q, j, c)
      BY <3>3 DEF Handshakes, Fresh
    <3>5. end'[c]["server"].owner = q /\ Fresh(c)'
      BY <1>8, <3>4 DEF SameParties, Ends
    <3>6. CASE c \in ConnsOf(p)
      <4>1. q = pipeConns[c].server
        BY <3>4, <3>6 DEF Records, ConnsOf
      <4>2. PICK j \in DOMAIN toGuest'[q] :
              /\ \A h \in DOMAIN toGuest[q] : j > h
              /\ toGuest'[q][j].type = "pipe-close" /\ toGuest'[q][j].conn = c
        BY <2>1, <2>2, <3>6, <4>1
      <4>3. j > i /\ Parts(q, j, c)'
        BY <3>3, <4>2 DEF Parts
      <4>. QED
        BY <3>1, <3>2, <3>4, <3>5, <4>3
    <3>7. CASE c \in DOMAIN pipeConns /\ c \notin ConnsOf(p)
      <4>1. c \in DOMAIN pipeConns'
        BY <2>1, <3>7, Zenon DEF Restrict
      <4>. QED
        BY <3>1, <3>2, <3>4, <3>5, <4>1
    <3>8. CASE \E j \in DOMAIN toGuest[q] : j > i /\ Parts(q, j, c)
      <4>1. \A j \in DOMAIN toGuest[q] : j \in DOMAIN toGuest'[q]
        BY <2>1, <2>2, Zenon
      <4>. QED
        BY <3>1, <3>2, <3>4, <3>5, <3>8, <4>1
    <3>. QED
      BY <3>4, <3>6, <3>7, <3>8
  <2>3. \A q \in Procs : q \notin procs' => DOMAIN toGuest'[q] = {}
    BY <2>1
  <2>. QED
    BY <2>2, <2>3 DEF Handshakes, Fresh
<1>9. ASSUME NEW p \in Procs, Exited(p)
      PROVE  Handshakes'
  <2>1. Finalize(p) /\ end' = end
    BY <1>9 DEF Exited, guestVars
  <2>. QED
    BY <1>8, <2>1, Zenon DEF SameParties, Finalize, Fresh
<1>10. ASSUME NEW p \in Procs, Kill(p)
       PROVE  Handshakes'
  BY <1>8, <1>10, KillEffect DEF EndsCut, Fresh, Ends
<1>11. ASSUME UNCHANGED vars
       PROVE  Handshakes'
  BY <1>11, HandshakesKept DEF vars, kernelVars, guestVars, Fresh
<1>. QED
  BY <1>1, <1>2, <1>3, <1>4, <1>5, <1>6, <1>7, <1>9, <1>10, <1>11, Split DEF Stirs

(* A process that said it closed an end of c has let go of it, and has been *)
(* offered none.                                                            *)
Closes(q, c) == \E i \in DOMAIN toKernel[q] :
  toKernel[q][i].type = "pipe-close" /\ toKernel[q][i].conn = c
Gone(q, c) ==
  /\ \A e \in Ends : end[c][e].owner = q => ~end[c][e].mapped
  /\ \A j \in DOMAIN toGuest[q] : ~Opens(q, j, c)

(* No new close and nothing new for whoever closed.                         *)
LEMMA HungUpKept ==
  ASSUME HungUp,
         \A q \in Procs, c \in Conns : Closes(q, c)' => Closes(q, c) \/ Gone(q, c)',
         \A q \in Procs, c \in Conns : Closes(q, c) /\ Gone(q, c) => Gone(q, c)'
  PROVE  HungUp'
<1>1. \A q \in Procs, c \in Conns : Closes(q, c) => Gone(q, c)
  BY DEF HungUp, Closes, Gone
<1>2. \A q \in Procs, c \in Conns : Closes(q, c)' => Gone(q, c)'
  BY <1>1
<1>. QED
  BY <1>2, Zenon DEF HungUp, Closes, Gone

(* Where no end comes into use and nothing is offered, it stays so.         *)
LEMMA GoneKept ==
  ASSUME SameParties, \A c \in Conns, e \in Ends : end'[c][e].mapped => end[c][e].mapped,
         \A q \in Procs, c \in Conns : \A i \in DOMAIN toGuest'[q] :
           Opens(q, i, c)' => \E j \in DOMAIN toGuest[q] : Opens(q, j, c)
  PROVE  \A q \in Procs, c \in Conns : Gone(q, c) => Gone(q, c)'
  BY DEF SameParties, Gone

(* One more message, at most one more close.                                *)
LEMMA PostCloses ==
  ASSUME TypeOK, NEW p \in Procs, NEW m \in Relayed \union {Exit}, Post(p, m)
  PROVE  \A q \in Procs, c \in Conns : Closes(q, c)' =>
           Closes(q, c) \/ (q = p /\ m.type = "pipe-close" /\ m.conn = c)
<1>1. \A q \in Procs : \A i \in DOMAIN toKernel'[q] :
        \/ q = p /\ toKernel'[q][i] = m
        \/ i \in DOMAIN toKernel[q] /\ toKernel'[q][i] = toKernel[q][i]
  BY PostStep DEF TypeOK
<1>. QED
  BY <1>1 DEF Closes

(* Nothing comes to whoever has hung up.                                    *)
LEMMA HungUpStep ==
  ASSUME TypeOK, Alive, LeadsHome, Pairs, Records, Addressed, Handshakes, HungUp, [Next]_vars
  PROVE  HungUp'
<1>1. ASSUME NEW p \in Procs, Serves(p)
      PROVE  HungUp'
  BY <1>1, ServesFrame DEF HungUp, Opens
<1>2. ASSUME NEW p \in Procs, Quiet(p)
      PROVE  HungUp'
  <2>1. \A q \in Procs, c \in Conns : Gone(q, c) => Gone(q, c)'
    BY <1>2, QuietEffect, GoneKept DEF Opens
  <2>2. \A q \in Procs, c \in Conns : Closes(q, c)' => Closes(q, c)
    <3>1. CASE toKernel' = toKernel
      BY <3>1 DEF Closes
    <3>2. ASSUME NEW m \in Relayed, Post(p, m), m.type # "pipe-close"
          PROVE  \A q \in Procs, c \in Conns : Closes(q, c)' => Closes(q, c)
      BY <3>2, PostCloses
    <3>. QED
      BY <1>2, <3>1, <3>2, QuietEffect
  <2>. QED
    BY <2>1, <2>2, HungUpKept
<1>3. ASSUME NEW p \in Procs, NEW c \in Conns, NEW e \in Ends, Close(p, c, e)
      PROVE  HungUp'
  <2>1. /\ SameParties /\ toGuest' = toGuest
        /\ end[c][e].owner = p /\ end[c][e].st # "none" /\ ~end'[c][e].mapped
        /\ \A d \in Conns, y \in Ends : d # c \/ y # e => end'[d][y] = end[d][y]
    BY <1>3, CloseEffect
  <2>2. PICK m \in Relayed : Post(p, m) /\ m.conn = c
    BY <1>3, CloseEffect
  <2>3. \A q \in Procs, d \in Conns : Gone(q, d) => Gone(q, d)'
    BY <2>1, GoneKept DEF Opens
  <2>4. c < nextPipeConnId
    BY <2>1, Owners
  <2>5. end[c]["client"].owner # end[c]["server"].owner
    BY <2>4 DEF Pairs
  <2>6. \A y \in Ends : y # e => end[c][y].owner # p
    BY <2>1, <2>5 DEF Ends
  <2>7. \A j \in DOMAIN toGuest[p] : ~Opens(p, j, c)
    BY <2>1, <2>6 DEF Handshakes, Ends
  <2>8. Gone(p, c)'
    BY <2>1, <2>6, <2>7 DEF Gone, Opens, SameParties
  <2>9. \A q \in Procs, d \in Conns : Closes(q, d)' => Closes(q, d) \/ (q = p /\ d = c)
    BY <2>2, PostCloses
  <2>. QED
    BY <2>3, <2>8, <2>9, HungUpKept
<1>4. ASSUME NEW p \in Procs, ExitGuest(p)
      PROVE  HungUp'
  <2>1. \A q \in Procs, c \in Conns : Gone(q, c) => Gone(q, c)'
    BY <1>4, ExitEffect, GoneKept DEF Opens, EndsCut
  <2>2. \A q \in Procs, c \in Conns : Closes(q, c)' => Closes(q, c)
    BY <1>4, ExitEffect, PostCloses, Kinds
  <2>. QED
    BY <2>1, <2>2, HungUpKept
<1>5. ASSUME NEW p \in Procs, NEW k \in Keys, Dial(p, k)
      PROVE  HungUp'
  <2>1. PICK n \in Conns, s \in Procs : Dialled(p, n, s)
    BY <1>5, DialEffect
  <2>2. n = nextPipeConnId /\ toKernel' = toKernel /\ \A c \in Conns : c # n => end'[c] = end[c]
    BY <2>1 DEF Dialled
  <2>3. PICK m \in Opening : toGuest' = [toGuest EXCEPT ![s] = Append(@, m)] /\ m.conn = n
    BY <2>1, Zenon DEF Dialled
  <2>4. \A q \in Procs : \A i \in DOMAIN toGuest'[q] :
          \/ i \in DOMAIN toGuest[q] /\ toGuest'[q][i] = toGuest[q][i]
          \/ q = s /\ toGuest'[q][i] = m
    <3>1. m \in Opening \union Relayed
      OBVIOUS
    <3>2. toGuest \in [Procs -> Seq(Opening \union Relayed)]
      BY Zenon DEF TypeOK
    <3>. QED
      BY <2>3, <3>1, <3>2, Added
  <2>5. \A q \in Procs, c \in Conns : Closes(q, c) => c # n
    <3>1. \A q \in Procs, c \in Conns : Closes(q, c) => c < nextPipeConnId
      BY Zenon DEF Addressed, PartyOf, Closes
    <3>. QED
      BY <2>2, <3>1, Numbers
  <2>6. \A q \in Procs, c \in Conns : c # n /\ Gone(q, c) => Gone(q, c)'
    BY <2>2, <2>3, <2>4 DEF Gone, Opens
  <2>7. \A q \in Procs, c \in Conns : Closes(q, c)' => Closes(q, c)
    BY <2>2 DEF Closes
  <2>. QED
    BY <2>5, <2>6, <2>7, HungUpKept
<1>6. ASSUME NEW p \in Procs, Dispatch(p)
      PROVE  HungUp'
  <2>1. PICK d \in Conns, e \in Ends : Answered(p, d, e)
    BY <1>6, AnswerEffect
  <2>2. \A q \in Procs, c \in Conns : \A i \in DOMAIN toGuest'[q] :
          Opens(q, i, c)' => \E j \in DOMAIN toGuest[q] : Opens(q, j, c)
    BY <2>1 DEF Answered, Opens
  <2>3. SameParties /\ end[d][e].owner = p
    BY <2>1 DEF Answered
  <2>4. \A q \in Procs, c \in Conns : Closes(q, c) /\ Gone(q, c) => Gone(q, c)'
    <3>1. CASE Opens(p, 1, d)
      <4>1. ~Gone(p, d)
        BY <2>1, <3>1, Zenon DEF Answered, Gone
      <4>2. ASSUME NEW q \in Procs, NEW c \in Conns, Gone(q, c), NEW y \in Ends, end[c][y].owner = q
            PROVE  ~end'[c][y].mapped
        <5>1. c # d \/ y # e
          BY <2>3, <4>1, <4>2
        <5>2. end'[c][y] = end[c][y]
          BY <2>1, <5>1 DEF Answered
        <5>. QED
          BY <4>2, <5>2 DEF Gone
      <4>. QED
        BY <2>2, <2>3, <4>2 DEF Gone, SameParties
    <3>2. CASE ~Opens(p, 1, d)
      <4>1. \A c \in Conns, y \in Ends : end'[c][y].mapped => end[c][y].mapped
        BY <2>1, <3>2 DEF Answered
      <4>. QED
        BY <2>2, <2>3, <4>1, GoneKept
    <3>. QED
      BY <3>1, <3>2
  <2>5. CASE toKernel' = toKernel
    BY <2>4, <2>5, HungUpKept DEF Closes
  <2>6. ASSUME NEW m \in Relayed, Post(p, m), m.conn = d, Opens(p, 1, d),
               end'[d][e].mapped = end[d][e].mapped
        PROVE  HungUp'
    <3>1. 1 \in DOMAIN toGuest[p]
      BY <2>1 DEF Answered
    <3>2. /\ end[d]["server"].owner = p /\ ~end[d]["server"].mapped
          /\ \A j \in DOMAIN toGuest[p] : Opens(p, j, d) => j = 1
      BY <2>6, <3>1 DEF Handshakes
    <3>3. d < nextPipeConnId
      BY <2>3, Owners
    <3>4. end[d]["client"].owner # p /\ e = "server"
      BY <2>3, <3>2, <3>3 DEF Pairs, Ends
    <3>5. \A y \in Ends : end'[d][y].owner = p => ~end'[d][y].mapped
      BY <2>3, <2>6, <3>2, <3>4 DEF SameParties, Ends
    <3>6. \A j \in DOMAIN toGuest'[p] : ~Opens(p, j, d)'
      <4>1. \A j \in DOMAIN toGuest'[p] : /\ j \in Nat \ {0} /\ j + 1 \in DOMAIN toGuest[p]
                                          /\ Opens(p, j, d)' => Opens(p, j + 1, d)
        BY <2>1, Zenon DEF Answered, Opens
      <4>2. \A j \in Nat \ {0} : j + 1 # 1
        OBVIOUS
      <4>. QED
        BY <3>2, <4>1, <4>2
    <3>7. Gone(p, d)'
      BY <3>5, <3>6 DEF Gone
    <3>8. \A q \in Procs, c \in Conns : Closes(q, c)' => Closes(q, c) \/ (q = p /\ c = d)
      BY <2>6, PostCloses
    <3>. QED
      BY <2>4, <3>7, <3>8, HungUpKept
  <2>. QED
    BY <2>1, <2>5, <2>6, Zenon DEF Answered
<1>7. ASSUME NEW p \in Procs, Relay(p)
      PROVE  HungUp'
  <2>1. PICK m \in Relayed : m = Head(toKernel[p])
    BY <1>7, RelayEffect, Zenon
  <2>2. /\ toKernel[p] # <<>> /\ toKernel' = [toKernel EXCEPT ![p] = Tail(@)]
        /\ end' = end /\ nextPipeConnId' = nextPipeConnId
        /\ toGuest' = toGuest \/ \E r \in procs : toGuest' = [toGuest EXCEPT ![r] = Append(@, m)]
    BY <1>7, <2>1, RelayEffect, Zenon
  <2>3. m.type # "pipe-open"
    BY Kinds
  <2>4. \A q \in Procs, c \in Conns : \A i \in DOMAIN toGuest'[q] :
          Opens(q, i, c)' => \E j \in DOMAIN toGuest[q] : Opens(q, j, c)
    <3>1. CASE toGuest' = toGuest
      BY <3>1 DEF Opens
    <3>2. ASSUME NEW r \in procs, toGuest' = [toGuest EXCEPT ![r] = Append(@, m)]
          PROVE  \A q \in Procs, c \in Conns : \A i \in DOMAIN toGuest'[q] :
                   Opens(q, i, c)' => \E j \in DOMAIN toGuest[q] : Opens(q, j, c)
      <4>1. m \in Opening \union Relayed /\ r \in Procs
        BY DEF TypeOK
      <4>2. toGuest \in [Procs -> Seq(Opening \union Relayed)]
        BY DEF TypeOK
      <4>3. \A q \in Procs : \A i \in DOMAIN toGuest'[q] :
              \/ i \in DOMAIN toGuest[q] /\ toGuest'[q][i] = toGuest[q][i]
              \/ toGuest'[q][i] = m
        BY <3>2, <4>1, <4>2, Added
      <4>. QED
        BY <2>3, <4>3 DEF Opens
    <3>. QED
      BY <2>2, <3>1, <3>2
  <2>5. SameParties
    BY <2>2 DEF SameParties
  <2>6. \A q \in Procs, c \in Conns : Gone(q, c) => Gone(q, c)'
    BY <2>2, <2>4, <2>5, GoneKept
  <2>7. \A q \in Procs, c \in Conns : Closes(q, c)' => Closes(q, c)
    <3>1. toKernel \in [Procs -> Seq(Relayed \union {Exit})]
      BY DEF TypeOK
    <3>2. /\ \A q \in Procs : q # p => toKernel'[q] = toKernel[q]
          /\ \A i \in DOMAIN toKernel'[p] : i + 1 \in DOMAIN toKernel[p]
                                            /\ toKernel'[p][i] = toKernel[p][i + 1]
      BY <2>2, <3>1, Taken
    <3>. QED
      BY <3>2 DEF Closes
  <2>. QED
    BY <2>6, <2>7, HungUpKept
<1>8. ASSUME NEW p \in Procs, Finalize(p), SameParties,
             \A c \in Conns, e \in Ends : end'[c][e].mapped => end[c][e].mapped
      PROVE  HungUp'
  <2>1. /\ toKernel'[p] = <<>> /\ \A q \in Procs : q # p => toKernel'[q] = toKernel[q]
        /\ \A q \in Procs : q \notin procs' => toGuest'[q] = <<>>
        /\ \A q \in procs' :
             /\ \A i \in DOMAIN toGuest[q] : /\ i \in DOMAIN toGuest'[q]
                                             /\ toGuest'[q][i] = toGuest[q][i]
             /\ \A i \in DOMAIN toGuest'[q] :
                  \/ i \in DOMAIN toGuest[q]
                  \/ /\ toGuest'[q][i].type = "pipe-close"
                     /\ toGuest'[q][i].conn \in ConnsOf(p)
                     /\ q \in {pipeConns[toGuest'[q][i].conn].client,
                               pipeConns[toGuest'[q][i].conn].server}
             /\ \A c \in ConnsOf(p) : q \in {pipeConns[c].client, pipeConns[c].server} =>
                  \E j \in DOMAIN toGuest'[q] :
                    /\ \A i \in DOMAIN toGuest[q] : j > i
                    /\ toGuest'[q][j].type = "pipe-close" /\ toGuest'[q][j].conn = c
    BY <1>8, FinalizeEffect, Zenon
  <2>2. \A q \in Procs, c \in Conns : \A i \in DOMAIN toGuest'[q] :
          Opens(q, i, c)' => \E j \in DOMAIN toGuest[q] : Opens(q, j, c)
    BY <2>1 DEF Opens
  <2>3. \A q \in Procs, c \in Conns : Gone(q, c) => Gone(q, c)'
    BY <1>8, <2>2, GoneKept
  <2>4. \A q \in Procs, c \in Conns : Closes(q, c)' => Closes(q, c)
    BY <2>1 DEF Closes
  <2>. QED
    BY <2>3, <2>4, HungUpKept
<1>9. ASSUME NEW p \in Procs, Exited(p)
      PROVE  HungUp'
  <2>1. Finalize(p) /\ end' = end
    BY <1>9 DEF Exited, guestVars
  <2>. QED
    BY <1>8, <2>1, Zenon DEF SameParties, Finalize
<1>10. ASSUME NEW p \in Procs, Kill(p)
       PROVE  HungUp'
  BY <1>8, <1>10, KillEffect DEF EndsCut
<1>11. ASSUME UNCHANGED vars
       PROVE  HungUp'
  BY <1>11 DEF vars, kernelVars, guestVars, HungUp, Opens
<1>. QED
  BY <1>1, <1>2, <1>3, <1>4, <1>5, <1>6, <1>7, <1>9, <1>10, <1>11, Split DEF Stirs

(* An end in use has its connection, or will hear that it has none.         *)
Served(q, c) ==
  c \in DOMAIN pipeConns \/ \E i \in DOMAIN toGuest[q] : Parts(q, i, c)

Line == \A q \in procs, c \in Conns, e \in Ends :
          end[c][e].owner = q /\ end[c][e].mapped => Served(q, c)

LEMMA LineMeans == TypeOK /\ Records => (PeerOrFarewell <=> Line)
<1> SUFFICES ASSUME TypeOK, Records PROVE PeerOrFarewell <=> Line
  OBVIOUS
<1>1. \A c \in DOMAIN pipeConns : {pipeConns[c].client, pipeConns[c].server} \subseteq procs
  BY DEF Records
<1>2. \A q \in procs, c \in Conns :
        Served(q, c) <=> \/ /\ c \in DOMAIN pipeConns
                            /\ {pipeConns[c].client, pipeConns[c].server} \subseteq procs
                         \/ OnTheWay(q, c)
  <2>1. \A q \in procs : q \in Procs
    BY DEF TypeOK
  <2>. QED
    BY <1>1, <2>1, Places DEF Served
<1>3. PeerOrFarewell <=>
        \A c \in Conns, e \in Ends : end[c][e].mapped /\ end[c][e].owner \in procs =>
          \/ /\ c \in DOMAIN pipeConns
             /\ {pipeConns[c].client, pipeConns[c].server} \subseteq procs
          \/ OnTheWay(end[c][e].owner, c)
  BY DEF PeerOrFarewell
<1>. QED
  BY <1>2, <1>3 DEF Line

(* Whoever waits goes on having a peer, or goes on being told.              *)
LEMMA LineStep ==
  ASSUME TypeOK, Alive, LeadsHome, Pairs, Records, Addressed, Handshakes, HungUp,
         PeerOrFarewell, [Next]_vars, TypeOK', Records'
  PROVE  PeerOrFarewell'
<1>0. Line
  BY LineMeans
<1> USE DEF Line
<1>a. ASSUME UNCHANGED <<procs, pipeConns, toGuest>>,
             \A c \in Conns, e \in Ends : /\ end'[c][e].owner = end[c][e].owner
                                          /\ end'[c][e].mapped => end[c][e].mapped
      PROVE  Line'
  BY <1>0, <1>a DEF Served, Parts
<1>1. ASSUME NEW p \in Procs, Serves(p)
      PROVE  Line'
  BY <1>1, <1>a, ServesFrame
<1>2. ASSUME NEW p \in Procs, Quiet(p)
      PROVE  Line'
  BY <1>2, <1>a, QuietEffect DEF SameParties
<1>3. ASSUME NEW p \in Procs, NEW c \in Conns, NEW e \in Ends, Close(p, c, e)
      PROVE  Line'
  BY <1>3, <1>a, CloseEffect DEF SameParties
<1>4. ASSUME NEW p \in Procs, ExitGuest(p)
      PROVE  Line'
  BY <1>4, <1>a, ExitEffect DEF EndsCut, SameParties
<1>5. ASSUME NEW p \in Procs, NEW k \in Keys, Dial(p, k)
      PROVE  Line'
  <2>1. PICK n \in Conns, s \in Procs : Dialled(p, n, s)
    BY <1>5, DialEffect
  <2>2. /\ DOMAIN pipeConns' = DOMAIN pipeConns \union {n} /\ procs' = procs
        /\ \A c \in Conns : c # n => end'[c] = end[c]
    BY <2>1 DEF Dialled
  <2>3. PICK m \in Opening : toGuest' = [toGuest EXCEPT ![s] = Append(@, m)] /\ m.conn = n
    BY <2>1, Zenon DEF Dialled
  <2>4. \A q \in Procs : \A i \in DOMAIN toGuest[q] : i \in DOMAIN toGuest'[q]
                                                      /\ toGuest'[q][i] = toGuest[q][i]
    <3>1. m \in Opening \union Relayed
      OBVIOUS
    <3>2. toGuest \in [Procs -> Seq(Opening \union Relayed)]
      BY Zenon DEF TypeOK
    <3>. QED
      BY <2>3, <3>1, <3>2, Added
  <2>5. \A q \in procs : q \in Procs
    BY DEF TypeOK
  <2>6. \A q \in procs, c \in Conns : Served(q, c) => Served(q, c)'
    BY <2>2, <2>4, <2>5 DEF Served, Parts
  <2>7. \A q \in procs : Served(q, n)'
    BY <2>2 DEF Served
  <2>. QED
    BY <1>0, <2>2, <2>6, <2>7
<1>6. ASSUME NEW p \in Procs, Dispatch(p)
      PROVE  Line'
  <2>1. PICK d \in Conns, e \in Ends : Answered(p, d, e)
    BY <1>6, AnswerEffect
  <2>2. /\ SameParties /\ UNCHANGED <<procs, pipeConns>>
        /\ end[d][e].owner = p /\ 1 \in DOMAIN toGuest[p]
        /\ \A c \in Conns, y \in Ends : c # d \/ y # e => end'[c][y] = end[c][y]
        /\ \A q \in Procs : q # p => toGuest'[q] = toGuest[q]
    BY <2>1, Zenon DEF Answered
  <2>3. \A c \in Conns : \A i \in DOMAIN toGuest[p] : i # 1 /\ Parts(p, i, c) =>
          i - 1 \in DOMAIN toGuest'[p] /\ Parts(p, i - 1, c)'
    BY <2>1, Zenon DEF Answered, Parts
  <2>4. ASSUME NEW q \in procs, NEW c \in Conns, NEW y \in Ends,
               end'[c][y].owner = q, end'[c][y].mapped
        PROVE  Served(q, c)'
    <3>1. q \in Procs /\ end[c][y].owner = q
      BY <2>2, <2>4, Zenon DEF TypeOK, SameParties
    <3>2. CASE q # p
      <4>1. end[c][y].mapped
        BY <2>2, <2>4, <3>1, <3>2
      <4>. QED
        BY <1>0, <2>2, <3>1, <3>2, <4>1 DEF Served, Parts
    <3>3. CASE q = p /\ Opens(p, 1, d) /\ c = d
      <4>1. d \in DOMAIN pipeConns \/ \E j \in DOMAIN toGuest[p] : j > 1 /\ Parts(p, j, d)
        BY <2>2, <3>3 DEF Handshakes
      <4>2. \A j \in DOMAIN toGuest[p] : j > 1 => j # 1
        BY Places
      <4>. QED
        BY <2>2, <2>3, <3>3, <4>1, <4>2 DEF Served
    <3>4. CASE q = p /\ ~(Opens(p, 1, d) /\ c = d)
      <4>1. d < nextPipeConnId
        BY <2>2, Owners
      <4>2. c = d => y = e
        BY <2>2, <3>1, <3>4, <4>1 DEF Pairs, Ends
      <4>3. end[c][y].mapped /\ ~Parts(p, 1, c)
        BY <2>1, <2>4, <3>4, <4>2 DEF Answered, Opens, Parts
      <4>4. Served(p, c)
        BY <1>0, <2>4, <3>1, <3>4, <4>3
      <4>. QED
        BY <2>2, <2>3, <3>4, <4>3, <4>4 DEF Served
    <3>. QED
      BY <3>2, <3>3, <3>4
  <2>. QED
    BY <2>2, <2>4
<1>7. ASSUME NEW p \in Procs, Relay(p)
      PROVE  Line'
  <2>1. PICK m \in Relayed : m = Head(toKernel[p])
    BY <1>7, RelayEffect, Zenon
  <2>2. m.conn \in Conns
    BY Kinds
  <2>3. toKernel[p] # <<>> /\ end' = end /\ procs' = procs
    BY <1>7, <2>1, RelayEffect, Zenon
  <2>4. CASE UNCHANGED <<pipeConns, toGuest>>
    BY <1>a, <2>3, <2>4
  <2>5. ASSUME NEW other \in procs, m.conn \in DOMAIN pipeConns, other # p,
               {p, other} = {pipeConns[m.conn].client, pipeConns[m.conn].server},
               toGuest' = [toGuest EXCEPT ![other] = Append(@, m)],
               pipeConns' = IF m.type = "pipe-close"
                            THEN Restrict(pipeConns, DOMAIN pipeConns \ {m.conn}) ELSE pipeConns
        PROVE  Line'
    <3>0. PICK r \in Procs : r = other
      BY DEF TypeOK
    <3>1. /\ \A q \in Procs : \A i \in DOMAIN toGuest[q] : i \in DOMAIN toGuest'[q]
                                                           /\ toGuest'[q][i] = toGuest[q][i]
          /\ \E i \in DOMAIN toGuest'[r] : toGuest'[r][i] = m
      <4>1. m \in Opening \union Relayed
        OBVIOUS
      <4>2. toGuest \in [Procs -> Seq(Opening \union Relayed)]
        BY Zenon DEF TypeOK
      <4>. QED
        BY <2>5, <3>0, <4>1, <4>2, Added
    <3>2. \A q \in procs : q \in Procs
      BY DEF TypeOK
    <3>3. ASSUME NEW q \in procs, NEW c \in Conns, Served(q, c), ~(m.type = "pipe-close" /\ c = m.conn)
          PROVE  Served(q, c)'
      <4>1. c \in DOMAIN pipeConns => c \in DOMAIN pipeConns'
        BY <2>5, <3>3 DEF Restrict
      <4>. QED
        BY <3>1, <3>2, <3>3, <4>1 DEF Served, Parts
    <3>4. ASSUME m.type = "pipe-close", NEW y \in Ends, end[m.conn][y].mapped
          PROVE  end[m.conn][y].owner = r
      <4>1. 1 \in DOMAIN toKernel[p] /\ toKernel[p][1] = m
        BY <2>1, <2>3, Queues DEF TypeOK
      <4>2. end[m.conn][y].owner # p
        BY <2>2, <3>4, <4>1 DEF HungUp
      <4>3. end[m.conn][y].owner \in {p, r}
        BY <2>5, <3>0 DEF Records, Ends
      <4>. QED
        BY <4>2, <4>3
    <3>5. m.type = "pipe-close" => Served(r, m.conn)'
      BY <3>1 DEF Served, Parts
    <3>6. ASSUME NEW q \in procs, NEW c \in Conns, NEW y \in Ends,
                 end[c][y].owner = q, end[c][y].mapped
          PROVE  Served(q, c)'
      <4>1. CASE m.type = "pipe-close" /\ c = m.conn
        <5>1. q = r
          BY <3>4, <3>6, <4>1
        <5>. QED
          BY <3>5, <4>1, <5>1
      <4>2. CASE ~(m.type = "pipe-close" /\ c = m.conn)
        BY <1>0, <3>3, <3>6, <4>2
      <4>. QED
        BY <4>1, <4>2
    <3>. QED
      BY <2>3, <3>6
  <2>. QED
    BY <1>7, <2>1, <2>4, <2>5, RelayEffect, Zenon
<1>8. ASSUME NEW p \in Procs, Finalize(p), SameParties,
             \A c \in Conns, e \in Ends : end'[c][e].mapped => end[c][e].mapped
      PROVE  Line'
  <2>1. /\ procs' = procs \ {p}
        /\ pipeConns' = Restrict(pipeConns, DOMAIN pipeConns \ ConnsOf(p))
        /\ \A q \in procs' :
             /\ \A i \in DOMAIN toGuest[q] : /\ i \in DOMAIN toGuest'[q]
                                             /\ toGuest'[q][i] = toGuest[q][i]
             /\ \A i \in DOMAIN toGuest'[q] :
                  \/ i \in DOMAIN toGuest[q]
                  \/ /\ toGuest'[q][i].type = "pipe-close"
                     /\ toGuest'[q][i].conn \in ConnsOf(p)
                     /\ q \in {pipeConns[toGuest'[q][i].conn].client,
                               pipeConns[toGuest'[q][i].conn].server}
             /\ \A c \in ConnsOf(p) : q \in {pipeConns[c].client, pipeConns[c].server} =>
                  \E j \in DOMAIN toGuest'[q] :
                    /\ \A i \in DOMAIN toGuest[q] : j > i
                    /\ toGuest'[q][j].type = "pipe-close" /\ toGuest'[q][j].conn = c
    BY <1>8, FinalizeEffect, Zenon
  <2>2. ASSUME NEW q \in procs', NEW c \in Conns, NEW y \in Ends,
               end'[c][y].owner = q, end'[c][y].mapped
        PROVE  Served(q, c)'
    <3>1. q \in procs /\ end[c][y].owner = q /\ end[c][y].mapped
      BY <1>8, <2>1, <2>2 DEF SameParties
    <3>2. CASE c \in ConnsOf(p)
      <4>1. q \in {pipeConns[c].client, pipeConns[c].server}
        BY <3>1, <3>2 DEF Records, ConnsOf, Ends
      <4>. QED
        BY <2>1, <2>2, <3>2, <4>1 DEF Served, Parts
    <3>3. CASE c \in DOMAIN pipeConns /\ c \notin ConnsOf(p)
      BY <2>1, <3>3, Zenon DEF Served, Restrict
    <3>4. CASE \E i \in DOMAIN toGuest[q] : Parts(q, i, c)
      BY <2>1, <2>2, <3>4 DEF Served, Parts
    <3>. QED
      BY <1>0, <3>1, <3>2, <3>3, <3>4 DEF Served
  <2>. QED
    BY <2>2
<1>9. ASSUME NEW p \in Procs, Exited(p)
      PROVE  Line'
  <2>1. Finalize(p) /\ end' = end
    BY <1>9 DEF Exited, guestVars
  <2>. QED
    BY <1>8, <2>1, Zenon DEF SameParties, Finalize
<1>10. ASSUME NEW p \in Procs, Kill(p)
       PROVE  Line'
  BY <1>8, <1>10, KillEffect DEF EndsCut
<1>11. ASSUME UNCHANGED vars
       PROVE  Line'
  BY <1>a, <1>11 DEF vars, kernelVars, guestVars
<1> HIDE DEF Line
<1>12. Line'
  BY <1>1, <1>2, <1>3, <1>4, <1>5, <1>6, <1>7, <1>9, <1>10, <1>11, Split DEF Stirs
<1>13. (TypeOK /\ Records => (PeerOrFarewell <=> Line))'
  BY LineMeans, PTL
<1>. QED
  BY <1>12, <1>13

-----------------------------------------------------------------------------

(* All of it together is inductive, and so holds throughout.                *)
LEMMA IInvStep == IInv /\ [Next]_vars => IInv'
<1> SUFFICES ASSUME IInv, [Next]_vars PROVE IInv'
  OBVIOUS
<1>1. /\ TypeOK /\ Alive /\ HalfDone /\ LeadsHome /\ Owned /\ Pairs /\ Records /\ Addressed
      /\ Handshakes /\ HungUp /\ PeerOrFarewell /\ PortsApart
  BY DEF IInv
<1>2. TypeOK'
  BY <1>1, TypeStep
<1>3. Alive'
  BY <1>1, AliveStep
<1>4. HalfDone' /\ LeadsHome' /\ Owned'
  BY <1>1, ServerStep
<1>5. Pairs' /\ Records' /\ Addressed'
  BY <1>1, ConnStep
<1>6. Handshakes'
  BY <1>1, HandshakesStep
<1>7. HungUp'
  BY <1>1, HungUpStep
<1>8. PeerOrFarewell'
  BY <1>1, <1>2, <1>5, LineStep
<1>9. PortsApart'
  BY <1>1, PortStep
<1>. QED
  BY <1>2, <1>3, <1>4, <1>5, <1>6, <1>7, <1>8, <1>9 DEF IInv

LEMMA Inductive == Spec => []IInv
  BY InitIInv, IInvStep, PTL DEF Spec

(* A live server handle owns its port, and a key whose dials a process takes *)
(* leads to it (handleNet, handlePipe, TCP.listen, TCP.close).              *)
THEOREM RoutesAgree == Spec => []ServersAgree
<1>1. IInv => ServersAgree
  BY DEF IInv, Owned, ServersAgree
<1>. QED
  BY <1>1, Inductive, PTL

(* Whoever closes, refuses, exits or is killed, and wherever the handshake  *)
(* was: an endpoint in use has a connection between two live processes in   *)
(* the kernel's table, or a close of it in its process's queue              *)
(* (handlePipeRelay, finalize, dispatchPipe).                               *)
THEOREM FarewellsSent == Spec => []PeerOrFarewell
<1>1. IInv => PeerOrFarewell
  BY DEF IInv
<1>. QED
  BY <1>1, Inductive, PTL

(* What a dial gives is nobody's to serve: the allocator looked.            *)
LEMMA PortGranted ==
  ASSUME TypeOK, Alive, LeadsHome, Pairs, Records, [Next]_vars
  PROVE  \A c \in DOMAIN pipeConns' \ DOMAIN pipeConns :
           pipeConns'[c].port \in Ports => listeners[pipeConns'[c].port] = None
<1> SUFFICES ASSUME NEW c \in DOMAIN pipeConns', c \notin DOMAIN pipeConns,
                    pipeConns'[c].port \in Ports
             PROVE  listeners[pipeConns'[c].port] = None
  OBVIOUS
<1>1. ASSUME NEW p \in Procs, NEW k \in Keys, Dial(p, k)
      PROVE  listeners[pipeConns'[c].port] = None
  <2>0. PICK d \in Conns, s \in Procs : Dialled(p, d, s)
    BY <1>1, DialEffect
  <2>1. c = d /\ (pipeConns'[c].port # None => FreePort(pipeConns'[c].port))
    BY <2>0 DEF Dialled
  <2>2. pipeConns'[c].port # None
    BY PipesAssumption
  <2>. QED
    BY <2>1, <2>2 DEF FreePort
<1>2. ASSUME NEW S
      PROVE  pipeConns' # pipeConns /\ pipeConns' # Restrict(pipeConns, DOMAIN pipeConns \ S)
  BY DEF Restrict
<1>. QED
  BY <1>1, <1>2, TableStep, Zenon

(* No client port is given twice while its connection is open, nor while    *)
(* somebody serves it, for every size of the window and every position of   *)
(* the cursor (allocClientPort).                                            *)
THEOREM PortsDiffer == Spec => ClientPortsDiffer
<1>1. IInv /\ [Next]_vars => [/\ PortsApart'
                              /\ \A c \in DOMAIN pipeConns' \ DOMAIN pipeConns :
                                   pipeConns'[c].port \in Ports =>
                                     listeners[pipeConns'[c].port] = None]_vars
  BY PortStep, PortGranted DEF IInv
<1>. QED
  BY <1>1, Inductive, PTL DEF Spec, ClientPortsDiffer

-----------------------------------------------------------------------------
(* The chunks of a connection on their way.                                 *)

(* Chunk n of c, and an end of its stream, in a queue of messages.          *)
DataOf(m, c) == m.type = "pipe-data" /\ m.conn = c
FinOf(m, c) == m.type \in {"pipe-shutdown", "pipe-close"} /\ m.conn = c
Ended(q, c) == \E i \in DOMAIN q : FinOf(q[i], c)

(* The chunks of c in q are exactly lo+1..hi, in that order, and every end  *)
(* of c is behind them.                                                     *)
Carries(q, c, lo, hi) ==
  /\ lo <= hi
  /\ \A i \in DOMAIN q : DataOf(q[i], c) => lo < q[i].n /\ q[i].n <= hi
  /\ \A n \in (lo + 1)..hi : \E i \in DOMAIN q : DataOf(q[i], c) /\ q[i].n = n
  /\ \A i, j \in DOMAIN q : i < j /\ DataOf(q[i], c) /\ DataOf(q[j], c) => q[i].n < q[j].n
  /\ \A i, j \in DOMAIN q : FinOf(q[i], c) /\ DataOf(q[j], c) => j < i

(* The road of a direction of c: from the chunk the reader's inbox ends     *)
(* with (has) to the last one written (snt), over the reader's queue (qr)   *)
(* and the writer's (qw).  An end in the reader's queue is true.            *)
Joins(c, snt, wr, has, qr, qw, mid) ==
  /\ Carries(qr, c, has, mid)
  /\ wr # "cut" => Carries(qw, c, mid, snt)
  /\ Ended(qr, c) => wr = "cut" \/ (wr = "ended" /\ mid = snt)
  /\ Ended(qw, c) => wr = "ended"
Road(c, snt, wr, has, qr, qw) == \E mid \in 0..snt : Joins(c, snt, wr, has, qr, qw, mid)

(* The inbox of a reader that has taken in got chunks, up to the first end. *)
InOrder(q, g, snt, wr) ==
  \A i \in DOMAIN q : (\A j \in DOMAIN q : j < i => q[j] # EOF) =>
    IF q[i] = EOF THEN wr = "cut" \/ (wr = "ended" /\ snt = g + i - 1)
    ELSE q[i] = g + i /\ q[i] <= snt

Offered(p, c) == \E i \in DOMAIN toGuest[p] : Opens(p, i, c)

(* The reader's side may still take in what is on the road.                 *)
Expects(c, e) ==
  /\ end[c][e].owner \in running
  /\ end[c][e].reader = "reading"
  /\ \A i \in DOMAIN end[c][e].inbox : end[c][e].inbox[i] # EOF
  /\ end[c][e].mapped \/ Offered(end[c][e].owner, c)

(* A worker that was killed posts nothing, and what it posted is gone.      *)
CutOff ==
  \A c \in Conns, e \in Ends : end[c][e].writer = "cut" =>
    /\ end[c][e].owner \in Procs \ running
    /\ toKernel[end[c][e].owner] = <<>>

(* An exit is the last thing a process posts.                               *)
ExitLast ==
  \A p \in Procs : \A i, j \in DOMAIN toKernel[p] : toKernel[p][i].type = "exit" => j <= i

(* An offer is the first thing the server hears of a connection.            *)
OpenFirst ==
  \A p \in Procs, c \in Conns : \A i, j \in DOMAIN toGuest[p] :
    Opens(p, i, c) /\ toGuest[p][j].conn = c => i <= j

(* Messages whose chunks are numbered.                                      *)
Numbered(T) == \A x \in T : x.type = "pipe-data" => x.n \in Nat

LEMMA Mail ==
  /\ Numbered(Opening \union Relayed) /\ Numbered(Relayed \union {Exit})
  /\ \A c : ~DataOf(Exit, c) /\ ~FinOf(Exit, c)
  /\ \A c, d \in Conns, k \in Keys :
       ~DataOf(Msg("pipe-open", d, k), c) /\ ~FinOf(Msg("pipe-open", d, k), c)
  /\ \A c, d \in Conns, n \in Nat :
       /\ DataOf(Msg("pipe-data", d, n), c) <=> d = c
       /\ ~FinOf(Msg("pipe-data", d, n), c)
  /\ \A c, d \in Conns, n \in Nat, t \in {"pipe-shutdown", "pipe-close"} :
       /\ FinOf(Msg(t, d, n), c) <=> d = c
       /\ ~DataOf(Msg(t, d, n), c)
  BY DEF Numbered, DataOf, FinOf, Msg, Opening, Relayed, Exit

(* A message at the end of a queue.                                         *)
LEMMA CarriesAdded ==
  ASSUME NEW T, Numbered(T), NEW q \in Seq(T), NEW m \in T, NEW c,
         NEW lo \in Nat, NEW hi \in Nat, Carries(q, c, lo, hi)
  PROVE  /\ ~DataOf(m, c) => Carries(Append(q, m), c, lo, hi)
         /\ DataOf(m, c) /\ m.n = hi + 1 /\ ~Ended(q, c) => Carries(Append(q, m), c, lo, hi + 1)
<1> DEFINE r == Append(q, m)
<1>1. /\ DOMAIN r = 1..(Len(q) + 1) /\ DOMAIN q = 1..Len(q) /\ Len(q) \in Nat
      /\ \A i \in DOMAIN q : r[i] = q[i]
      /\ r[Len(q) + 1] = m
      /\ \A i \in DOMAIN q : DataOf(q[i], c) => q[i].n \in Nat
  BY Queues DEF Numbered, DataOf
<1> HIDE DEF r
<1>2. /\ \A i \in DOMAIN r : i \in DOMAIN q \/ i = Len(q) + 1
      /\ \A i \in DOMAIN q : i \in DOMAIN r /\ i < Len(q) + 1 /\ r[i] = q[i]
      /\ Len(q) + 1 \in DOMAIN r /\ ~(Len(q) + 1 < Len(q) + 1)
      /\ \A i, j \in DOMAIN r : i < j => i \in DOMAIN q
  BY <1>1
<1>3. ASSUME ~DataOf(m, c)
      PROVE  Carries(r, c, lo, hi)
  BY <1>1, <1>2, <1>3 DEF Carries
<1>4. ASSUME DataOf(m, c), m.n = hi + 1, ~Ended(q, c)
      PROVE  Carries(r, c, lo, hi + 1)
  <2>1. \A i \in DOMAIN q : DataOf(q[i], c) => lo < q[i].n /\ q[i].n <= hi /\ q[i].n < hi + 1
    BY <1>1 DEF Carries
  <2>2. \A n \in (lo + 1)..(hi + 1) : \E i \in DOMAIN r : DataOf(r[i], c) /\ r[i].n = n
    <3> TAKE n \in (lo + 1)..(hi + 1)
    <3>1. n \in (lo + 1)..hi \/ n = hi + 1
      OBVIOUS
    <3>. QED
      BY <1>1, <1>2, <1>4, <3>1, Zenon DEF Carries
  <2>3. \A i \in DOMAIN r : DataOf(r[i], c) => lo < r[i].n /\ r[i].n <= hi + 1
    BY <1>1, <1>2, <1>4, <2>1 DEF Carries
  <2>4. \A i, j \in DOMAIN r : i < j /\ DataOf(r[i], c) /\ DataOf(r[j], c) => r[i].n < r[j].n
    BY <1>1, <1>2, <1>4, <2>1 DEF Carries
  <2>5. \A i \in DOMAIN r : ~FinOf(r[i], c)
    <3>1. ~FinOf(m, c)
      BY <1>4 DEF FinOf, DataOf
    <3>. QED
      BY <1>1, <1>2, <1>4, <3>1 DEF Ended
  <2>6. lo <= hi + 1
    BY DEF Carries
  <2>. QED
    BY <2>2, <2>3, <2>4, <2>5, <2>6 DEF Carries
<1>. QED
  BY <1>3, <1>4 DEF r

LEMMA EndedAdded ==
  ASSUME NEW T, NEW q \in Seq(T), NEW m \in T, NEW c
  PROVE  Ended(Append(q, m), c) <=> Ended(q, c) \/ FinOf(m, c)
<1> DEFINE r == Append(q, m)
<1>1. /\ DOMAIN r = 1..(Len(q) + 1) /\ DOMAIN q = 1..Len(q) /\ Len(q) \in Nat
      /\ \A i \in DOMAIN q : r[i] = q[i]
      /\ r[Len(q) + 1] = m
  BY Queues
<1> HIDE DEF r
<1>2. /\ \A i \in DOMAIN r : i \in DOMAIN q \/ i = Len(q) + 1
      /\ \A i \in DOMAIN q : i \in DOMAIN r
      /\ Len(q) + 1 \in DOMAIN r
  BY <1>1
<1>3. Ended(r, c) <=> Ended(q, c) \/ FinOf(m, c)
  BY <1>1, <1>2 DEF Ended
<1>. QED
  BY <1>3 DEF r

(* A message taken from the front.                                          *)
LEMMA CarriesTaken ==
  ASSUME NEW T, Numbered(T), NEW q \in Seq(T), q # <<>>, NEW c,
         NEW lo \in Nat, NEW hi \in Nat, Carries(q, c, lo, hi)
  PROVE  /\ ~DataOf(Head(q), c) => Carries(Tail(q), c, lo, hi)
         /\ DataOf(Head(q), c) => /\ Head(q).n = lo + 1 /\ lo + 1 <= hi
                                  /\ Carries(Tail(q), c, lo + 1, hi)
         /\ FinOf(Head(q), c) => lo = hi
<1> DEFINE r == Tail(q)
           h == Head(q)
<1>1. /\ h = q[1] /\ 1 \in DOMAIN q
      /\ \A i \in DOMAIN r : i + 1 \in DOMAIN q /\ r[i] = q[i + 1]
      /\ \A i \in DOMAIN q : i # 1 => i - 1 \in DOMAIN r
      /\ DOMAIN q = 1..Len(q) /\ Len(q) \in Nat
      /\ \A i \in DOMAIN q : q[i] \in T
      /\ r \in Seq(T)
  BY Queues
<1>2. DOMAIN r \subseteq Nat
  BY <1>1, Queues
<1> HIDE DEF r, h
<1>3. /\ \A i \in DOMAIN q : i \in Nat /\ (i # 1 => 1 < i /\ i - 1 \in DOMAIN r /\ r[i - 1] = q[i])
      /\ \A i, j \in DOMAIN r : i < j => i + 1 < j + 1
      /\ \A i, j \in DOMAIN r : i + 1 < j + 1 => i < j
      /\ \A i \in DOMAIN r : i \in Nat /\ 1 < i + 1
      /\ \A i \in DOMAIN q : DataOf(q[i], c) => q[i].n \in Nat
  <2>1. \A i \in DOMAIN q : DataOf(q[i], c) => q[i].n \in Nat
    BY <1>1 DEF Numbered, DataOf
  <2>2. \A i \in DOMAIN q : i # 1 => i - 1 \in DOMAIN r /\ r[i - 1] = q[i] /\ 1 < i
    <3> TAKE i \in DOMAIN q
    <3> HAVE i # 1
    <3>1. i \in Nat /\ i - 1 \in DOMAIN r /\ (i - 1) + 1 = i /\ 1 < i
      BY <1>1
    <3>. QED
      BY <1>1, <3>1
  <2>. QED
    BY <1>1, <1>2, <2>1, <2>2
<1>4. /\ \A i \in DOMAIN r : DataOf(r[i], c) => lo < r[i].n /\ r[i].n <= hi /\ r[i].n \in Nat
      /\ \A i, j \in DOMAIN r : i < j /\ DataOf(r[i], c) /\ DataOf(r[j], c) => r[i].n < r[j].n
      /\ \A i, j \in DOMAIN r : FinOf(r[i], c) /\ DataOf(r[j], c) => j < i
  <2>1. ASSUME NEW i \in DOMAIN r, NEW j \in DOMAIN r, i < j, DataOf(r[i], c), DataOf(r[j], c)
        PROVE  r[i].n < r[j].n
    <3>1. i + 1 \in DOMAIN q /\ j + 1 \in DOMAIN q /\ i + 1 < j + 1 /\ r[i] = q[i + 1] /\ r[j] = q[j + 1]
      BY <1>1, <1>3, <2>1
    <3>. QED
      BY <2>1, <3>1 DEF Carries
  <2>2. ASSUME NEW i \in DOMAIN r, NEW j \in DOMAIN r, FinOf(r[i], c), DataOf(r[j], c)
        PROVE  j < i
    <3>1. i + 1 \in DOMAIN q /\ j + 1 \in DOMAIN q /\ r[i] = q[i + 1] /\ r[j] = q[j + 1]
      BY <1>1
    <3>2. j + 1 < i + 1
      BY <2>2, <3>1 DEF Carries
    <3>. QED
      BY <1>3, <3>2
  <2>. QED
    BY <1>1, <1>3, <2>1, <2>2 DEF Carries
<1>5. ASSUME ~DataOf(h, c)
      PROVE  Carries(r, c, lo, hi)
  <2>1. \A n \in (lo + 1)..hi : \E i \in DOMAIN r : DataOf(r[i], c) /\ r[i].n = n
    <3> TAKE n \in (lo + 1)..hi
    <3>1. PICK i \in DOMAIN q : DataOf(q[i], c) /\ q[i].n = n
      BY DEF Carries
    <3>2. i # 1
      BY <1>1, <1>5, <3>1
    <3>. QED
      BY <1>3, <3>1, <3>2
  <2>2. lo <= hi
    BY DEF Carries
  <2>. QED
    BY <1>4, <2>1, <2>2 DEF Carries
<1>6. ASSUME DataOf(h, c)
      PROVE  h.n = lo + 1 /\ lo + 1 <= hi /\ Carries(r, c, lo + 1, hi)
  <2>1. lo < h.n /\ h.n <= hi /\ h.n \in Nat
    BY <1>1, <1>3, <1>6 DEF Carries
  <2>2. \A i \in DOMAIN r : DataOf(r[i], c) => h.n < r[i].n
    <3> TAKE i \in DOMAIN r
    <3> HAVE DataOf(r[i], c)
    <3>1. i + 1 \in DOMAIN q /\ 1 < i + 1 /\ r[i] = q[i + 1]
      BY <1>1, <1>3
    <3>. QED
      BY <1>1, <1>6, <3>1, Zenon DEF Carries
  <2>3. h.n = lo + 1
    <3>1. lo + 1 \in (lo + 1)..hi
      BY <2>1
    <3>2. PICK i \in DOMAIN q : DataOf(q[i], c) /\ q[i].n = lo + 1
      BY <3>1 DEF Carries
    <3>3. CASE i = 1
      BY <1>1, <3>2, <3>3
    <3>4. CASE i # 1
      <4>1. i - 1 \in DOMAIN r /\ r[i - 1] = q[i]
        BY <1>3, <3>4
      <4>2. h.n < lo + 1
        BY <2>2, <3>2, <4>1
      <4>. QED
        BY <2>1, <4>2
    <3>. QED
      BY <3>3, <3>4
  <2>4. \A n \in (lo + 1 + 1)..hi : \E i \in DOMAIN r : DataOf(r[i], c) /\ r[i].n = n
    <3> TAKE n \in (lo + 1 + 1)..hi
    <3>0. n \in (lo + 1)..hi /\ n # lo + 1
      OBVIOUS
    <3>1. PICK i \in DOMAIN q : DataOf(q[i], c) /\ q[i].n = n
      BY <3>0 DEF Carries
    <3>2. i # 1
      BY <1>1, <2>3, <3>0, <3>1
    <3>. QED
      BY <1>3, <3>1, <3>2
  <2>. QED
    BY <1>4, <2>1, <2>2, <2>3, <2>4 DEF Carries
<1>7. ASSUME FinOf(h, c)
      PROVE  lo = hi
  <2>1. \A i \in DOMAIN q : ~DataOf(q[i], c)
    <3>1. \A i \in DOMAIN q : DataOf(q[i], c) => i < 1
      BY <1>1, <1>7, Zenon DEF Carries
    <3>2. \A i \in DOMAIN q : ~(i < 1)
      BY <1>1
    <3>. QED
      BY <3>1, <3>2
  <2>2. ~(lo < hi)
    <3>1. lo < hi => hi \in (lo + 1)..hi
      OBVIOUS
    <3>. QED
      BY <2>1, <3>1 DEF Carries
  <2>3. lo <= hi
    BY DEF Carries
  <2>. QED
    BY <2>2, <2>3
<1>. QED
  BY <1>5, <1>6, <1>7 DEF r, h

LEMMA EndedTaken ==
  ASSUME NEW T, NEW q \in Seq(T), q # <<>>, NEW c
  PROVE  Ended(q, c) <=> FinOf(Head(q), c) \/ Ended(Tail(q), c)
<1> DEFINE r == Tail(q)
           h == Head(q)
<1>1. /\ h = q[1] /\ 1 \in DOMAIN q
      /\ \A i \in DOMAIN r : i + 1 \in DOMAIN q /\ r[i] = q[i + 1]
      /\ \A i \in DOMAIN q : i # 1 => i - 1 \in DOMAIN r
      /\ DOMAIN q = 1..Len(q) /\ Len(q) \in Nat
  BY Queues
<1> HIDE DEF r, h
<1>2. \A i \in DOMAIN q : i # 1 => i - 1 \in DOMAIN r /\ r[i - 1] = q[i]
  <2> TAKE i \in DOMAIN q
  <2> HAVE i # 1
  <2>1. i - 1 \in DOMAIN r /\ (i - 1) + 1 = i
    BY <1>1
  <2>. QED
    BY <1>1, <2>1
<1>3. Ended(q, c) <=> FinOf(h, c) \/ Ended(r, c)
  BY <1>1, <1>2 DEF Ended
<1>. QED
  BY <1>3 DEF r, h

(* A queue with nothing of the connection in it, and one with no chunk left.*)
LEMMA CarriesNone ==
  ASSUME NEW q, NEW c, NEW n \in Nat, \A i \in DOMAIN q : ~DataOf(q[i], c)
  PROVE  /\ Carries(q, c, n, n)
         /\ \A m \in Nat : Carries(q, c, n, m) => n = m
<1>1. \A m \in (n + 1)..n : FALSE
  OBVIOUS
<1>2. ASSUME NEW m \in Nat, Carries(q, c, n, m)
      PROVE  n = m
  <2>1. n < m => m \in (n + 1)..m
    OBVIOUS
  <2>2. n <= m
    BY <1>2 DEF Carries
  <2>. QED
    BY <1>2, <2>1, <2>2 DEF Carries
<1>. QED
  BY <1>1, <1>2 DEF Carries

LEMMA CarriesDone ==
  ASSUME NEW T, Numbered(T), NEW q \in Seq(T), NEW c, NEW n \in Nat, Carries(q, c, n, n)
  PROVE  \A i \in DOMAIN q : ~DataOf(q[i], c)
<1> SUFFICES ASSUME NEW i \in DOMAIN q, DataOf(q[i], c) PROVE FALSE
  OBVIOUS
<1>1. q[i] \in T
  BY Queues
<1>2. q[i].n \in Nat /\ n < q[i].n /\ q[i].n <= n
  BY <1>1 DEF Numbered, DataOf, Carries
<1>. QED
  BY <1>2

(* The news of several ends behind a queue.                                 *)
LEMMA CarriesFarewell ==
  ASSUME NEW T, Numbered(T), NEW q \in Seq(T), NEW f \in Seq(T), NEW c,
         \A i \in DOMAIN f : ~DataOf(f[i], c)
  PROVE  /\ \A lo, hi \in Nat : Carries(q, c, lo, hi) => Carries(q \o f, c, lo, hi)
         /\ Ended(q \o f, c) <=> Ended(q, c) \/ Ended(f, c)
<1> DEFINE r == q \o f
<1>1. /\ DOMAIN r = 1..(Len(q) + Len(f)) /\ DOMAIN q = 1..Len(q) /\ DOMAIN f = 1..Len(f)
      /\ Len(q) \in Nat /\ Len(f) \in Nat
      /\ \A i \in DOMAIN r : r[i] = IF i <= Len(q) THEN q[i] ELSE f[i - Len(q)]
  OBVIOUS
<1> HIDE DEF r
<1>2. /\ \A i \in DOMAIN r : i \in DOMAIN q \/ (i - Len(q) \in DOMAIN f /\ i > Len(q) /\ r[i] = f[i - Len(q)])
      /\ \A i \in DOMAIN q : i \in DOMAIN r /\ r[i] = q[i]
      /\ \A i \in DOMAIN f : i + Len(q) \in DOMAIN r /\ r[i + Len(q)] = f[i]
  <2>1. ASSUME NEW i \in DOMAIN r, i \notin DOMAIN q
        PROVE  i - Len(q) \in DOMAIN f /\ i > Len(q) /\ r[i] = f[i - Len(q)]
    BY <1>1, <2>1
  <2>2. ASSUME NEW i \in DOMAIN q
        PROVE  i \in DOMAIN r /\ r[i] = q[i]
    BY <1>1, <2>2
  <2>3. ASSUME NEW i \in DOMAIN f
        PROVE  i + Len(q) \in DOMAIN r /\ r[i + Len(q)] = f[i]
    <3>1. /\ i + Len(q) \in 1..(Len(q) + Len(f)) /\ ~(i + Len(q) <= Len(q))
          /\ (i + Len(q)) - Len(q) = i
      BY <1>1, <2>3
    <3>. QED
      BY <1>1, <3>1
  <2>. QED
    BY <2>1, <2>2, <2>3
<1>3. \A i \in DOMAIN r : DataOf(r[i], c) => i \in DOMAIN q /\ r[i] = q[i]
  BY <1>2
<1>4. \A i \in DOMAIN r, j \in DOMAIN q : i \notin DOMAIN q => j < i
  BY <1>1
<1>5. ASSUME NEW lo \in Nat, NEW hi \in Nat, Carries(q, c, lo, hi)
      PROVE  Carries(r, c, lo, hi)
  <2>1. \A i, j \in DOMAIN r : FinOf(r[i], c) /\ DataOf(r[j], c) => j < i
    BY <1>2, <1>3, <1>4, <1>5 DEF Carries
  <2>. QED
    BY <1>2, <1>3, <1>5, <2>1 DEF Carries
<1>6. Ended(r, c) <=> Ended(q, c) \/ Ended(f, c)
  BY <1>2 DEF Ended
<1>. QED
  BY <1>5, <1>6 DEF r

(* What a step does to the road of a direction. Messages that are not about *)
(* its connection leave it as it is.                                        *)
Foreign(m, c) == ~DataOf(m, c) /\ ~FinOf(m, c)

LEMMA RoadForeign ==
  ASSUME NEW T, Numbered(T), NEW U, Numbered(U), NEW c, NEW snt \in Nat, NEW wr, NEW has \in Nat,
         NEW qr \in Seq(T), NEW qw \in Seq(U), Road(c, snt, wr, has, qr, qw)
  PROVE  /\ \A m \in T : Foreign(m, c) => Road(c, snt, wr, has, Append(qr, m), qw)
         /\ \A m \in U : Foreign(m, c) => Road(c, snt, wr, has, qr, Append(qw, m))
         /\ qr # <<>> /\ Foreign(Head(qr), c) => Road(c, snt, wr, has, Tail(qr), qw)
         /\ qw # <<>> /\ Foreign(Head(qw), c) => Road(c, snt, wr, has, qr, Tail(qw))
<1>1. PICK mid \in 0..snt : Joins(c, snt, wr, has, qr, qw, mid)
  BY DEF Road
<1>2. mid \in Nat
  BY <1>1
<1>3. ASSUME NEW m \in T, Foreign(m, c)
      PROVE  Joins(c, snt, wr, has, Append(qr, m), qw, mid)
  BY <1>1, <1>2, <1>3, CarriesAdded, EndedAdded DEF Joins, Foreign
<1>4. ASSUME NEW m \in U, Foreign(m, c)
      PROVE  Joins(c, snt, wr, has, qr, Append(qw, m), mid)
  BY <1>1, <1>2, <1>4, CarriesAdded, EndedAdded DEF Joins, Foreign
<1>5. ASSUME qr # <<>>, Foreign(Head(qr), c)
      PROVE  Joins(c, snt, wr, has, Tail(qr), qw, mid)
  BY <1>1, <1>2, <1>5, CarriesTaken, EndedTaken DEF Joins, Foreign
<1>6. ASSUME qw # <<>>, Foreign(Head(qw), c)
      PROVE  Joins(c, snt, wr, has, qr, Tail(qw), mid)
  BY <1>1, <1>2, <1>6, CarriesTaken, EndedTaken DEF Joins, Foreign
<1>. QED
  BY <1>1, <1>3, <1>4, <1>5, <1>6 DEF Road

(* The writer: a chunk, an end, its own end without a word.                 *)
LEMMA RoadWritten ==
  ASSUME NEW T, Numbered(T), NEW U, Numbered(U), NEW c, NEW snt \in Nat, NEW has \in Nat,
         NEW qr \in Seq(T), NEW qw \in Seq(U), Road(c, snt, "open", has, qr, qw),
         NEW m \in U, DataOf(m, c), m.n = snt + 1
  PROVE  Road(c, snt + 1, "open", has, qr, Append(qw, m))
<1>1. PICK mid \in 0..snt : Joins(c, snt, "open", has, qr, qw, mid)
  BY DEF Road
<1>2. mid \in Nat /\ mid \in 0..(snt + 1)
  BY <1>1
<1>3. ~Ended(qr, c) /\ ~Ended(qw, c) /\ Carries(qr, c, has, mid) /\ Carries(qw, c, mid, snt)
  BY <1>1 DEF Joins
<1>4. Carries(Append(qw, m), c, mid, snt + 1)
  BY <1>2, <1>3, CarriesAdded
<1>5. ~Ended(Append(qw, m), c)
  <2>1. ~FinOf(m, c)
    BY DEF DataOf, FinOf
  <2>. QED
    BY <1>3, <2>1, EndedAdded
<1>6. Joins(c, snt + 1, "open", has, qr, Append(qw, m), mid)
  BY <1>3, <1>4, <1>5 DEF Joins
<1>. QED
  BY <1>2, <1>6 DEF Road

LEMMA RoadEnded ==
  ASSUME NEW c, NEW snt \in Nat, NEW wr, wr # "cut", NEW has \in Nat, NEW qr, NEW qw,
         Road(c, snt, wr, has, qr, qw)
  PROVE  Road(c, snt, "ended", has, qr, qw)
  BY DEF Road, Joins

LEMMA RoadFin ==
  ASSUME NEW U, Numbered(U), NEW c, NEW snt \in Nat, NEW has \in Nat,
         NEW qr, NEW qw \in Seq(U), Road(c, snt, "ended", has, qr, qw),
         NEW m \in U, FinOf(m, c)
  PROVE  Road(c, snt, "ended", has, qr, Append(qw, m))
<1>1. PICK mid \in 0..snt : Joins(c, snt, "ended", has, qr, qw, mid)
  BY DEF Road
<1>2. mid \in Nat
  BY <1>1
<1>3. ~DataOf(m, c)
  BY DEF DataOf, FinOf
<1>4. Carries(Append(qw, m), c, mid, snt)
  BY <1>1, <1>2, <1>3, CarriesAdded DEF Joins
<1>. QED
  BY <1>1, <1>4 DEF Joins, Road

(* The kernel passes a message on, or drops it for a connection that ended. *)
LEMMA RoadRelayed ==
  ASSUME NEW T, Numbered(T), NEW U, Numbered(U), NEW c, NEW snt \in Nat, NEW wr, wr # "cut",
         NEW has \in Nat, NEW qr \in Seq(T), NEW qw \in Seq(U), qw # <<>>, Head(qw) \in T,
         ~Foreign(Head(qw), c), Road(c, snt, wr, has, qr, qw)
  PROVE  /\ Road(c, snt, wr, has, Append(qr, Head(qw)), Tail(qw))
         /\ Ended(qr, c) => Road(c, snt, wr, has, qr, Tail(qw))
<1> DEFINE h == Head(qw)
<1>1. PICK mid \in 0..snt : Joins(c, snt, wr, has, qr, qw, mid)
  BY DEF Road
<1>2. mid \in Nat /\ h \in T
  BY <1>1
<1>3. /\ Carries(qr, c, has, mid) /\ Carries(qw, c, mid, snt)
      /\ Ended(qr, c) => wr = "ended" /\ mid = snt
      /\ Ended(qw, c) => wr = "ended"
  BY <1>1 DEF Joins
<1>4. Ended(qw, c) <=> FinOf(h, c) \/ Ended(Tail(qw), c)
  BY EndedTaken
<1>5. Ended(Append(qr, h), c) <=> Ended(qr, c) \/ FinOf(h, c)
  BY <1>2, EndedAdded
<1>6. /\ ~DataOf(h, c) => Carries(Tail(qw), c, mid, snt)
      /\ DataOf(h, c) => h.n = mid + 1 /\ mid + 1 <= snt /\ Carries(Tail(qw), c, mid + 1, snt)
      /\ FinOf(h, c) => mid = snt
  BY <1>2, <1>3, CarriesTaken
<1>7. /\ ~DataOf(h, c) => Carries(Append(qr, h), c, has, mid)
      /\ DataOf(h, c) /\ h.n = mid + 1 /\ ~Ended(qr, c) => Carries(Append(qr, h), c, has, mid + 1)
  BY <1>2, <1>3, CarriesAdded
<1>8. DataOf(h, c) => ~Ended(qr, c) /\ ~FinOf(h, c)
  <2>1. DataOf(h, c) => mid < snt
    BY <1>2, <1>6
  <2>. QED
    BY <1>2, <1>3, <2>1 DEF DataOf, FinOf
<1> HIDE DEF h
<1>9. CASE DataOf(h, c)
  <2>1. Joins(c, snt, wr, has, Append(qr, h), Tail(qw), mid + 1)
    BY <1>3, <1>4, <1>5, <1>6, <1>7, <1>8, <1>9 DEF Joins
  <2>2. mid + 1 \in 0..snt
    BY <1>2, <1>6, <1>9
  <2>. QED
    BY <1>8, <1>9, <2>1, <2>2 DEF Road, h
<1>10. CASE ~DataOf(h, c)
  <2>1. FinOf(h, c)
    BY <1>10 DEF Foreign, h
  <2>2. /\ Joins(c, snt, wr, has, Append(qr, h), Tail(qw), mid)
        /\ Ended(qr, c) => Joins(c, snt, wr, has, qr, Tail(qw), mid)
    BY <1>3, <1>4, <1>5, <1>6, <1>7, <1>10, <2>1 DEF Joins
  <2>. QED
    BY <1>1, <2>2 DEF Road, h
<1>. QED
  BY <1>9, <1>10

(* The reader's process takes a message in: the next chunk, or a true end.  *)
LEMMA RoadTaken ==
  ASSUME NEW T, Numbered(T), NEW c, NEW snt \in Nat, NEW wr,
         NEW has \in Nat, NEW qr \in Seq(T), NEW qw, qr # <<>>,
         Road(c, snt, wr, has, qr, qw)
  PROVE  /\ DataOf(Head(qr), c) => /\ Head(qr).n = has + 1 /\ has + 1 <= snt
                                   /\ Road(c, snt, wr, has + 1, Tail(qr), qw)
         /\ FinOf(Head(qr), c) => wr = "cut" \/ (wr = "ended" /\ has = snt)
<1> DEFINE h == Head(qr)
<1>1. PICK mid \in 0..snt : Joins(c, snt, wr, has, qr, qw, mid)
  BY DEF Road
<1>2. mid \in Nat /\ mid <= snt
  BY <1>1
<1>3. /\ DataOf(h, c) => h.n = has + 1 /\ has + 1 <= mid /\ Carries(Tail(qr), c, has + 1, mid)
      /\ FinOf(h, c) => has = mid
  BY <1>1, <1>2, CarriesTaken DEF Joins
<1>4. Ended(qr, c) <=> FinOf(h, c) \/ Ended(Tail(qr), c)
  BY EndedTaken
<1> HIDE DEF h
<1>5. ASSUME DataOf(h, c)
      PROVE  h.n = has + 1 /\ has + 1 <= snt /\ Road(c, snt, wr, has + 1, Tail(qr), qw)
  <2>1. Joins(c, snt, wr, has + 1, Tail(qr), qw, mid)
    BY <1>1, <1>3, <1>4, <1>5 DEF Joins
  <2>. QED
    BY <1>1, <1>2, <1>3, <1>5, <2>1 DEF Road
<1>6. ASSUME FinOf(h, c)
      PROVE  wr = "cut" \/ (wr = "ended" /\ has = snt)
  BY <1>1, <1>3, <1>4, <1>6 DEF Joins
<1>. QED
  BY <1>5, <1>6 DEF h

(* finalize: the writer's queue is gone, the reader hears of ends.          *)
LEMMA RoadFinal ==
  ASSUME NEW T, Numbered(T), NEW U, Numbered(U), NEW c, NEW snt \in Nat, NEW wr,
         NEW has \in Nat, NEW qr \in Seq(T), NEW qw \in Seq(U), NEW f \in Seq(T),
         \A i \in DOMAIN f : ~DataOf(f[i], c), Road(c, snt, wr, has, qr, qw)
  PROVE  /\ Road(c, snt, "cut", has, qr \o f, <<>>)
         /\ wr = "ended" /\ (\A i \in DOMAIN qw : ~DataOf(qw[i], c)) => Road(c, snt, wr, has, qr \o f, <<>>)
         /\ (\A i \in DOMAIN f : ~FinOf(f[i], c)) => Road(c, snt, wr, has, qr \o f, qw)
<1>1. PICK mid \in 0..snt : Joins(c, snt, wr, has, qr, qw, mid)
  BY DEF Road
<1>2. mid \in Nat
  BY <1>1
<1>3. /\ Carries(qr \o f, c, has, mid)
      /\ Ended(qr \o f, c) <=> Ended(qr, c) \/ Ended(f, c)
  BY <1>1, <1>2, CarriesFarewell DEF Joins
<1>4. ~Ended(<<>>, c)
  BY DEF Ended
<1>5. Joins(c, snt, "cut", has, qr \o f, <<>>, mid)
  BY <1>3, <1>4 DEF Joins
<1>6. ASSUME wr = "ended", \A i \in DOMAIN qw : ~DataOf(qw[i], c)
      PROVE  Joins(c, snt, wr, has, qr \o f, <<>>, mid)
  <2>1. mid = snt
    BY <1>1, <1>2, <1>6, CarriesNone, Zenon DEF Joins
  <2>2. Carries(<<>>, c, snt, snt)
    BY CarriesNone
  <2>. QED
    BY <1>3, <1>4, <1>6, <2>1, <2>2 DEF Joins
<1>7. ASSUME \A i \in DOMAIN f : ~FinOf(f[i], c)
      PROVE  Joins(c, snt, wr, has, qr \o f, qw, mid)
  BY <1>1, <1>3, <1>7, Zenon DEF Joins, Ended
<1>. QED
  BY <1>1, <1>5, <1>6, <1>7 DEF Road

(* A connection just dialled.                                               *)
LEMMA RoadNew ==
  ASSUME NEW c, NEW wr, NEW qr, NEW qw,
         \A i \in DOMAIN qr : Foreign(qr[i], c), \A i \in DOMAIN qw : Foreign(qw[i], c)
  PROVE  Road(c, 0, wr, 0, qr, qw)
<1>1. Carries(qr, c, 0, 0) /\ Carries(qw, c, 0, 0) /\ ~Ended(qr, c) /\ ~Ended(qw, c)
  BY CarriesNone DEF Foreign, Ended
<1>2. Joins(c, 0, wr, 0, qr, qw, 0)
  BY <1>1 DEF Joins
<1>. QED
  BY <1>2 DEF Road

(* What a step does to an inbox.                                            *)
LEMMA OrderWriter ==
  ASSUME NEW q \in Seq(Nat), NEW g \in Nat, NEW snt \in Nat, NEW wr, InOrder(q, g, snt, wr)
  PROVE  /\ wr = "open" => InOrder(q, g, snt + 1, wr)
         /\ wr # "cut" => InOrder(q, g, snt, "ended")
         /\ InOrder(q, g, snt, "cut")
<1>1. \A i \in DOMAIN q : q[i] \in Nat
  OBVIOUS
<1>2. wr = "open" => InOrder(q, g, snt + 1, wr)
  BY <1>1 DEF InOrder
<1>3. wr # "cut" => InOrder(q, g, snt, "ended")
  BY DEF InOrder
<1>4. InOrder(q, g, snt, "cut")
  BY DEF InOrder
<1>. QED
  BY <1>2, <1>3, <1>4

LEMMA OrderTold ==
  ASSUME NEW q \in Seq(Nat), NEW g \in Nat, NEW snt \in Nat, NEW wr, InOrder(q, g, snt, wr),
         NEW x \in Nat,
         \/ \E i \in DOMAIN q : q[i] = EOF
         \/ x # EOF /\ x = g + Len(q) + 1 /\ x <= snt
         \/ x = EOF /\ (wr = "cut" \/ (wr = "ended" /\ snt = g + Len(q)))
  PROVE  InOrder(Append(q, x), g, snt, wr)
<1> DEFINE r == Append(q, x)
<1>1. /\ DOMAIN r = 1..(Len(q) + 1) /\ DOMAIN q = 1..Len(q) /\ Len(q) \in Nat
      /\ \A i \in DOMAIN q : r[i] = q[i]
      /\ r[Len(q) + 1] = x
  BY Queues
<1> HIDE DEF r
<1>2. /\ \A i \in DOMAIN r : i \in DOMAIN q \/ i = Len(q) + 1
      /\ \A i \in DOMAIN q : i \in DOMAIN r /\ i < Len(q) + 1
      /\ g + (Len(q) + 1) = g + Len(q) + 1 /\ g + (Len(q) + 1) - 1 = g + Len(q)
  BY <1>1
<1> SUFFICES ASSUME NEW i \in DOMAIN r, \A j \in DOMAIN r : j < i => r[j] # EOF
             PROVE  IF r[i] = EOF THEN wr = "cut" \/ (wr = "ended" /\ snt = g + i - 1)
                    ELSE r[i] = g + i /\ r[i] <= snt
  BY Zenon DEF InOrder, r
<1>3. CASE i \in DOMAIN q
  <2>1. \A j \in DOMAIN q : j < i => q[j] # EOF
    BY <1>1, <1>2
  <2>. QED
    BY <1>1, <1>3, <2>1 DEF InOrder
<1>4. CASE i = Len(q) + 1
  <2>1. \A j \in DOMAIN q : q[j] # EOF
    BY <1>1, <1>2, <1>4
  <2>. QED
    BY <1>1, <1>2, <1>4, <2>1
<1>. QED
  BY <1>2, <1>3, <1>4

LEMMA OrderRead ==
  ASSUME NEW q \in Seq(Nat), NEW g \in Nat, NEW snt \in Nat, NEW wr, InOrder(q, g, snt, wr), q # <<>>
  PROVE  /\ Head(q) = EOF => wr = "cut" \/ (wr = "ended" /\ snt = g)
         /\ Head(q) # EOF => /\ Head(q) = g + 1 /\ g + 1 <= snt
                             /\ InOrder(Tail(q), g + 1, snt, wr)
<1> DEFINE r == Tail(q)
           h == Head(q)
<1>1. /\ h = q[1] /\ 1 \in DOMAIN q
      /\ \A i \in DOMAIN r : i + 1 \in DOMAIN q /\ r[i] = q[i + 1]
      /\ \A i \in DOMAIN q : i # 1 => i - 1 \in DOMAIN r
      /\ DOMAIN q = 1..Len(q) /\ Len(q) \in Nat /\ r \in Seq(Nat)
  BY Queues
<1>2. DOMAIN r \subseteq Nat
  BY <1>1, Queues
<1> HIDE DEF r, h
<1>3. \A j \in DOMAIN q : ~(j < 1)
  BY <1>1
<1>4. IF h = EOF THEN wr = "cut" \/ (wr = "ended" /\ snt = g + 1 - 1) ELSE h = g + 1 /\ h <= snt
  BY <1>1, <1>3 DEF InOrder
<1>5. ASSUME h # EOF
      PROVE  InOrder(r, g + 1, snt, wr)
  <2> SUFFICES ASSUME NEW i \in DOMAIN r, \A j \in DOMAIN r : j < i => r[j] # EOF
               PROVE  IF r[i] = EOF THEN wr = "cut" \/ (wr = "ended" /\ snt = g + 1 + i - 1)
                      ELSE r[i] = g + 1 + i /\ r[i] <= snt
    BY DEF InOrder
  <2>1. /\ i \in Nat /\ i + 1 \in DOMAIN q /\ r[i] = q[i + 1]
        /\ g + 1 + i - 1 = g + (i + 1) - 1 /\ g + 1 + i = g + (i + 1)
    <3>1. \A a \in Nat : g + 1 + a - 1 = g + (a + 1) - 1 /\ g + 1 + a = g + (a + 1)
      OBVIOUS
    <3>2. i \in Nat
      BY <1>2
    <3>. QED
      BY <1>1, <3>1, <3>2, Zenon
  <2>2. \A j \in DOMAIN q : j < i + 1 => q[j] # EOF
    <3> TAKE j \in DOMAIN q
    <3> HAVE j < i + 1
    <3>1. CASE j = 1
      BY <1>1, <1>5, <3>1
    <3>2. CASE j # 1
      <4>1. j - 1 \in DOMAIN r /\ j \in Nat
        BY <1>1, <3>2
      <4>2. j - 1 < i /\ (j - 1) + 1 = j
        <5>1. \A a, b \in Nat : b < a + 1 => b - 1 < a /\ (b - 1) + 1 = b
          OBVIOUS
        <5>. QED
          BY <2>1, <4>1, <5>1
      <4>. QED
        BY <1>1, <4>1, <4>2
    <3>. QED
      BY <3>1, <3>2
  <2>. QED
    BY <2>1, <2>2, Zenon DEF InOrder
<1>. QED
  BY <1>4, <1>5 DEF h, r

LEMMA OrderNone == \A g, snt, wr : InOrder(<<>>, g, snt, wr)
  BY DEF InOrder

-----------------------------------------------------------------------------
(* One direction of a connection, from its writer's end e.                  *)
Arrives(c, e) ==
  LET rd == end[c][Other(e)]
  IN /\ rd.got <= end[c][e].sent
     /\ rd.reader = "reading" => InOrder(rd.inbox, rd.got, end[c][e].sent, WriterOf(c, e))

Flow(c, e) ==
  LET wr == end[c][e]
      rd == end[c][Other(e)]
  IN Expects(c, Other(e)) =>
       Road(c, wr.sent, WriterOf(c, e), rd.got + Len(rd.inbox), toGuest[rd.owner], toKernel[wr.owner])

StreamInv ==
  /\ IInv /\ CutOff /\ ExitLast /\ OpenFirst
  /\ \A c \in Conns, e \in Ends : Arrives(c, e) /\ Flow(c, e)

LEMMA Sides ==
  /\ \A e \in Ends : Other(e) \in Ends /\ Other(e) # e /\ Other(Other(e)) = e
  /\ \A e, f \in Ends : f = e \/ f = Other(e)
  BY DEF Ends, Other

LEMMA Fields ==
  ASSUME TypeOK, NEW c \in Conns, NEW e \in Ends
  PROVE  /\ end[c][e] \in Endpoint
         /\ end[c][e].sent \in Nat /\ end[c][e].got \in Nat /\ end[c][e].inbox \in Seq(Nat)
         /\ Len(end[c][e].inbox) \in Nat /\ end[c][e].owner \in Procs \union {None}
         /\ end[c][e].mapped \in BOOLEAN
         /\ end[c][e].writer \in {"open", "ended", "cut"}
         /\ WriterOf(c, e) \in {"open", "ended", "cut"}
<1>1. end[c][e] \in Endpoint
  BY DEF TypeOK
<1>2. /\ end[c][e].sent \in Nat /\ end[c][e].got \in Nat /\ end[c][e].inbox \in Seq(Nat)
      /\ end[c][e].owner \in Procs \union {None} /\ end[c][e].mapped \in BOOLEAN
      /\ end[c][e].writer \in {"open", "ended", "cut"}
  BY <1>1 DEF Endpoint
<1>3. Len(end[c][e].inbox) \in Nat
  BY <1>2
<1>. QED
  BY <1>1, <1>2, <1>3 DEF WriterOf

(* A connection that has a reader has two owners.                           *)
LEMMA BothOwners ==
  ASSUME TypeOK, Pairs, NEW c \in Conns, NEW e \in Ends, end[c][e].owner \in Procs
  PROVE  /\ end[c][Other(e)].owner \in Procs /\ end[c][Other(e)].owner # end[c][e].owner
         /\ \A f \in Ends : end[c][f].owner = end[c][e].owner => f = e
<1>1. c < nextPipeConnId
  BY Owners
<1>. QED
  BY <1>1 DEF Pairs, Ends, Other

(* A step that passes the connection by: what it does to the two queues.    *)
QuietR(c, p) ==
  \/ toGuest'[p] = toGuest[p]
  \/ \E m \in Opening \union Relayed : m.conn # c /\ toGuest'[p] = Append(toGuest[p], m)
  \/ toGuest[p] # <<>> /\ Foreign(Head(toGuest[p]), c) /\ toGuest'[p] = Tail(toGuest[p])
QuietW(c, p) ==
  \/ toKernel'[p] = toKernel[p]
  \/ \E m \in Relayed \union {Exit} : Foreign(m, c) /\ toKernel'[p] = Append(toKernel[p], m)
  \/ toKernel[p] # <<>> /\ Foreign(Head(toKernel[p]), c) /\ toKernel'[p] = Tail(toKernel[p])

LEMMA Passes ==
  ASSUME NEW T, Numbered(T), NEW U, Numbered(U), NEW c, NEW snt \in Nat, NEW wr, NEW has \in Nat,
         NEW qr \in Seq(T), NEW qw \in Seq(U), Road(c, snt, wr, has, qr, qw),
         NEW r, \/ r = qr
                \/ \E m \in T : Foreign(m, c) /\ r = Append(qr, m)
                \/ qr # <<>> /\ Foreign(Head(qr), c) /\ r = Tail(qr),
         NEW w, \/ w = qw
                \/ \E m \in U : Foreign(m, c) /\ w = Append(qw, m)
                \/ qw # <<>> /\ Foreign(Head(qw), c) /\ w = Tail(qw)
  PROVE  Road(c, snt, wr, has, r, w)
<1>1. r \in Seq(T) /\ Road(c, snt, wr, has, r, qw)
  <2>1. ASSUME NEW m \in T, Foreign(m, c), r = Append(qr, m)
        PROVE  r \in Seq(T) /\ Road(c, snt, wr, has, r, qw)
    <3>1. Append(qr, m) \in Seq(T)
      BY Queues
    <3>. QED
      BY <2>1, <3>1, RoadForeign, Zenon
  <2>2. ASSUME qr # <<>>, Foreign(Head(qr), c), r = Tail(qr)
        PROVE  r \in Seq(T) /\ Road(c, snt, wr, has, r, qw)
    <3>1. Tail(qr) \in Seq(T)
      BY <2>2
    <3>. QED
      BY <2>2, <3>1, RoadForeign, Zenon
  <2>. QED
    BY <2>1, <2>2, Zenon
<1>2. ASSUME NEW m \in U, Foreign(m, c), w = Append(qw, m)
      PROVE  Road(c, snt, wr, has, r, w)
  BY <1>1, <1>2, RoadForeign, Zenon
<1>3. ASSUME qw # <<>>, Foreign(Head(qw), c), w = Tail(qw)
      PROVE  Road(c, snt, wr, has, r, w)
  BY <1>1, <1>3, RoadForeign, Zenon
<1>. QED
  BY <1>1, <1>2, <1>3, Zenon

(* What a step may do to a writer besides writing, and to a reader it does  *)
(* not concern.                                                             *)
WriterKept(c, e) ==
  /\ end'[c][e].owner = end[c][e].owner /\ end'[c][e].sent = end[c][e].sent
  /\ \/ WriterOf(c, e)' = WriterOf(c, e)
     \/ WriterOf(c, e) # "cut" /\ WriterOf(c, e)' = "ended"
ReaderKept(c, e) ==
  /\ end'[c][e].got = end[c][e].got /\ end'[c][e].inbox = end[c][e].inbox
  /\ end'[c][e].owner = end[c][e].owner
  /\ Expects(c, e)' => Expects(c, e)

(* An offer does not appear by itself, so neither does a reader.            *)
LEMMA OfferedKept ==
  ASSUME TypeOK, NEW p \in Procs, NEW c, QuietR(c, p)
  PROVE  Offered(p, c)' => Offered(p, c)
<1> SUFFICES ASSUME NEW i \in DOMAIN toGuest'[p],
                    toGuest'[p][i].type = "pipe-open", toGuest'[p][i].conn = c
             PROVE  \E j \in DOMAIN toGuest[p] : toGuest[p][j].type = "pipe-open" /\ toGuest[p][j].conn = c
  BY DEF Offered, Opens
<1>1. PICK old, new : old = toGuest[p] /\ new = toGuest'[p]
  OBVIOUS
<1>2. old \in Seq(Opening \union Relayed)
  BY <1>1 DEF TypeOK
<1>3. i \in DOMAIN new /\ new[i].type = "pipe-open" /\ new[i].conn = c
  BY <1>1
<1>4. ASSUME NEW m \in Opening \union Relayed, m.conn # c, new = Append(old, m)
      PROVE  i \in DOMAIN old /\ old[i] = new[i]
  BY <1>2, <1>3, <1>4
<1>5. ASSUME old # <<>>, new = Tail(old)
      PROVE  i + 1 \in DOMAIN old /\ old[i + 1] = new[i]
  BY <1>2, <1>3, <1>5
<1>6. \/ new = old
      \/ \E m \in Opening \union Relayed : m.conn # c /\ new = Append(old, m)
      \/ old # <<>> /\ new = Tail(old)
  BY <1>1 DEF QuietR
<1>. QED
  BY <1>1, <1>3, <1>4, <1>5, <1>6

LEMMA ExpectsKept ==
  ASSUME TypeOK, NEW c \in Conns, NEW e \in Ends, running' \subseteq running,
         end'[c][e].owner = end[c][e].owner, end'[c][e].reader = end[c][e].reader,
         end'[c][e].inbox = end[c][e].inbox, end'[c][e].mapped => end[c][e].mapped,
         \A q \in Procs : q = end[c][e].owner => QuietR(c, q)
  PROVE  Expects(c, e)' => Expects(c, e)
<1> SUFFICES ASSUME Expects(c, e)' PROVE Expects(c, e)
  OBVIOUS
<1>1. PICK p : p = end[c][e].owner
  OBVIOUS
<1>2. p \in running /\ p \in Procs
  BY <1>1, Zenon DEF Expects, TypeOK
<1>3. Offered(p, c)' => Offered(p, c)
  BY <1>1, <1>2, OfferedKept
<1>. QED
  BY <1>1, <1>2, <1>3, Zenon DEF Expects

LEMMA FlowKept ==
  ASSUME TypeOK, Pairs, NEW c \in Conns, NEW e \in Ends, Flow(c, e), WriterKept(c, e),
         ReaderKept(c, Other(e)),
         \A q \in Procs : /\ q = end[c][Other(e)].owner => QuietR(c, q)
                          /\ q = end[c][e].owner => QuietW(c, q)
  PROVE  Flow(c, e)'
<1> SUFFICES ASSUME Expects(c, Other(e))'
             PROVE  Road(c, end'[c][e].sent, WriterOf(c, e)',
                         end'[c][Other(e)].got + Len(end'[c][Other(e)].inbox),
                         toGuest'[end'[c][Other(e)].owner], toKernel'[end'[c][e].owner])
  BY Zenon DEF Flow
<1>1. Expects(c, Other(e))
  BY DEF ReaderKept
<1>2. PICK s, h, r, w, p, q : /\ s = end[c][e].sent
                              /\ h = end[c][Other(e)].got + Len(end[c][Other(e)].inbox)
                              /\ p = end[c][Other(e)].owner /\ q = end[c][e].owner
                              /\ r = toGuest[p] /\ w = toKernel[q]
  OBVIOUS
<1>3. Road(c, s, WriterOf(c, e), h, r, w)
  BY <1>1, <1>2, Zenon DEF Flow
<1>4. p \in Procs /\ q \in Procs
  <2>1. p \in Procs
    BY <1>1, <1>2, Zenon DEF Expects, TypeOK
  <2>. QED
    BY <1>2, <2>1, BothOwners, Sides, Zenon
<1>5. /\ s \in Nat /\ h \in Nat
      /\ r \in Seq(Opening \union Relayed) /\ w \in Seq(Relayed \union {Exit})
  <2>1. /\ end[c][e].sent \in Nat /\ end[c][Other(e)].got \in Nat
        /\ Len(end[c][Other(e)].inbox) \in Nat
    BY Fields, Sides
  <2>2. s \in Nat /\ h \in Nat
    BY <1>2, <2>1
  <2>. QED
    BY <1>2, <1>4, <2>2, Zenon DEF TypeOK
<1>6. /\ end'[c][e].sent = s /\ end'[c][e].owner = q /\ end'[c][Other(e)].owner = p
      /\ end'[c][Other(e)].got + Len(end'[c][Other(e)].inbox) = h
  BY <1>2, Zenon DEF WriterKept, ReaderKept
<1>7. PICK v : v = WriterOf(c, e)'
  OBVIOUS
<1>8. Road(c, s, v, h, r, w)
  <2>1. CASE v = WriterOf(c, e)
    BY <1>3, <2>1
  <2>2. CASE WriterOf(c, e) # "cut" /\ v = "ended"
    BY <1>3, <1>5, <2>2, RoadEnded
  <2>. QED
    BY <1>7, <2>1, <2>2 DEF WriterKept
<1>9. PICK r1, w1 : r1 = toGuest'[p] /\ w1 = toKernel'[q]
  BY Zenon
<1>10. /\ \/ r1 = r
          \/ \E m \in Opening \union Relayed : Foreign(m, c) /\ r1 = Append(r, m)
          \/ r # <<>> /\ Foreign(Head(r), c) /\ r1 = Tail(r)
       /\ \/ w1 = w
          \/ \E m \in Relayed \union {Exit} : Foreign(m, c) /\ w1 = Append(w, m)
          \/ w # <<>> /\ Foreign(Head(w), c) /\ w1 = Tail(w)
  <2>1. QuietR(c, p) /\ QuietW(c, q)
    BY <1>2, <1>4
  <2>2. \A m : m.conn # c => Foreign(m, c)
    BY DEF Foreign, DataOf, FinOf
  <2>. QED
    BY <1>2, <1>9, <2>1, <2>2, Zenon DEF QuietR, QuietW
<1>11. Road(c, s, v, h, r1, w1)
  BY <1>5, <1>8, <1>10, Passes, Mail
<1>. QED
  BY <1>6, <1>7, <1>9, <1>11

LEMMA ArrivesKept ==
  ASSUME TypeOK, NEW c \in Conns, NEW e \in Ends, Arrives(c, e),
         end'[c][e].sent = end[c][e].sent,
         \/ WriterOf(c, e)' = WriterOf(c, e)
         \/ WriterOf(c, e) # "cut" /\ WriterOf(c, e)' = "ended"
         \/ WriterOf(c, e)' = "cut",
         end'[c][Other(e)].got = end[c][Other(e)].got,
         end'[c][Other(e)].reader = end[c][Other(e)].reader,
         end'[c][Other(e)].inbox \in {end[c][Other(e)].inbox, <<>>}
  PROVE  Arrives(c, e)'
<1>1. PICK s, v, v1, g, q, q1 :
        /\ s = end[c][e].sent /\ v = WriterOf(c, e) /\ v1 = WriterOf(c, e)'
        /\ g = end[c][Other(e)].got /\ q = end[c][Other(e)].inbox
        /\ q1 = end'[c][Other(e)].inbox
  OBVIOUS
<1>2. s \in Nat /\ g \in Nat /\ q \in Seq(Nat)
  BY <1>1, Fields, Sides, Zenon
<1>3. g <= s /\ (end[c][Other(e)].reader = "reading" => InOrder(q, g, s, v))
  BY <1>1, Zenon DEF Arrives
<1>4. end[c][Other(e)].reader = "reading" => InOrder(q, g, s, v1)
  BY <1>1, <1>2, <1>3, OrderWriter, Zenon
<1>5. end[c][Other(e)].reader = "reading" => InOrder(q1, g, s, v1)
  BY <1>1, <1>4, OrderNone, Zenon
<1>. QED
  BY <1>1, <1>3, <1>5, Zenon DEF Arrives

-----------------------------------------------------------------------------
(* What each action does to the endpoints, field by field, and to the queues*)
Rest(c, e) == \A d \in Conns, x \in Ends : d # c \/ x # e => end'[d][x] = end[d][x]
SameReader(c, e) ==
  /\ end'[c][e].got = end[c][e].got /\ end'[c][e].reader = end[c][e].reader
  /\ end'[c][e].inbox = end[c][e].inbox /\ end'[c][e].mapped = end[c][e].mapped
SameWriter(c, e) ==
  end'[c][e].sent = end[c][e].sent /\ end'[c][e].writer = end[c][e].writer

LEMMA WriteMeans ==
  ASSUME TypeOK, NEW p \in Procs, NEW c \in Conns, NEW e \in Ends, Write(p, c, e)
  PROVE  /\ p \in running /\ end[c][e].owner = p /\ end[c][e].writer = "open"
         /\ Rest(c, e) /\ SameReader(c, e) /\ end'[c][e].owner = p
         /\ end'[c][e].sent = end[c][e].sent + 1 /\ end'[c][e].writer = "open"
         /\ Post(p, Msg("pipe-data", c, end[c][e].sent + 1))
         /\ UNCHANGED <<toGuest, running>>
<1> DEFINE x == end[c][e]
           ep == [x EXCEPT !.sent = @ + 1]
<1>1. x \in Endpoint /\ ep \in Endpoint
  <2>1. x \in Endpoint
    BY DEF TypeOK
  <2>. QED
    BY <2>1, Endpoints, Zenon
<1>2. /\ ep.owner = x.owner /\ ep.sent = x.sent + 1 /\ ep.writer = x.writer
      /\ ep.got = x.got /\ ep.reader = x.reader /\ ep.inbox = x.inbox /\ ep.mapped = x.mapped
  BY <1>1 DEF Endpoint
<1>3. /\ p \in running /\ x.owner = p /\ x.writer = "open" /\ Becomes(c, e, ep)
      /\ Post(p, Msg("pipe-data", c, x.sent + 1)) /\ UNCHANGED <<toGuest, running>>
  BY DEF Write, Mine, Free
<1> HIDE DEF ep
<1>4. end'[c][e] = ep /\ Rest(c, e)
  BY <1>1, <1>3, EndStep DEF TypeOK, Rest
<1>. QED
  BY <1>2, <1>3, <1>4 DEF SameReader

LEMMA ShutdownMeans ==
  ASSUME TypeOK, NEW p \in Procs, NEW c \in Conns, NEW e \in Ends, Shutdown(p, c, e)
  PROVE  /\ p \in running /\ end[c][e].owner = p /\ end[c][e].writer = "open"
         /\ Rest(c, e) /\ SameReader(c, e) /\ end'[c][e].owner = p
         /\ end'[c][e].sent = end[c][e].sent /\ end'[c][e].writer = "ended"
         /\ Post(p, Msg("pipe-shutdown", c, 0))
         /\ UNCHANGED <<toGuest, running>>
<1> DEFINE x == end[c][e]
           ep == [x EXCEPT !.writer = "ended", !.shut = TRUE]
<1>1. x \in Endpoint /\ ep \in Endpoint
  <2>1. x \in Endpoint
    BY DEF TypeOK
  <2>. QED
    BY <2>1, Endpoints, Zenon
<1>2. /\ ep.owner = x.owner /\ ep.sent = x.sent /\ ep.writer = "ended"
      /\ ep.got = x.got /\ ep.reader = x.reader /\ ep.inbox = x.inbox /\ ep.mapped = x.mapped
  BY <1>1 DEF Endpoint
<1>3. /\ p \in running /\ x.owner = p /\ x.writer = "open" /\ Becomes(c, e, ep)
      /\ Post(p, Msg("pipe-shutdown", c, 0)) /\ UNCHANGED <<toGuest, running>>
  BY DEF Shutdown, Mine, Free
<1> HIDE DEF ep
<1>4. end'[c][e] = ep /\ Rest(c, e)
  BY <1>1, <1>3, EndStep DEF TypeOK, Rest
<1>. QED
  BY <1>2, <1>3, <1>4 DEF SameReader

LEMMA CloseMeans ==
  ASSUME TypeOK, NEW p \in Procs, NEW c \in Conns, NEW e \in Ends, Close(p, c, e)
  PROVE  /\ p \in running /\ end[c][e].owner = p /\ (end[c][e].st = "open" \/ e = "client")
         /\ Rest(c, e) /\ end'[c][e].owner = p
         /\ end'[c][e].got = end[c][e].got /\ end'[c][e].reader = end[c][e].reader
         /\ end'[c][e].inbox = <<>> /\ ~end'[c][e].mapped
         /\ end'[c][e].sent = end[c][e].sent /\ end'[c][e].writer = "ended"
         /\ Post(p, Msg("pipe-close", c, 0))
         /\ UNCHANGED <<toGuest, running>>
<1> DEFINE x == end[c][e]
           ep == [x EXCEPT !.st = "closed", !.mapped = FALSE, !.inbox = <<>>, !.writer = "ended"]
<1>1. x \in Endpoint /\ ep \in Endpoint
  <2>1. x \in Endpoint /\ <<>> \in Seq(Nat)
    BY DEF TypeOK
  <2>. QED
    BY <2>1, Endpoints, Zenon
<1>2. /\ ep.owner = x.owner /\ ep.sent = x.sent /\ ep.writer = "ended"
      /\ ep.got = x.got /\ ep.reader = x.reader /\ ep.inbox = <<>> /\ ~ep.mapped
  BY <1>1 DEF Endpoint
<1>3. /\ p \in running /\ x.owner = p /\ (x.st = "open" \/ e = "client") /\ Becomes(c, e, ep)
      /\ Post(p, Msg("pipe-close", c, 0)) /\ UNCHANGED <<toGuest, running>>
  BY DEF Close, Mine, Free
<1> HIDE DEF ep
<1>4. end'[c][e] = ep /\ Rest(c, e)
  BY <1>1, <1>3, EndStep DEF TypeOK, Rest
<1>. QED
  BY <1>2, <1>3, <1>4

LEMMA DeliverMeans ==
  ASSUME TypeOK, NEW p \in Procs, NEW c \in Conns, NEW e \in Ends, Deliver(p, c, e)
  PROVE  /\ end[c][e].reader = "reading" /\ end[c][e].inbox # <<>>
         /\ Rest(c, e) /\ end'[c][e].owner = end[c][e].owner
         /\ end'[c][e].inbox = Tail(end[c][e].inbox) /\ end'[c][e].mapped = end[c][e].mapped
         /\ SameWriter(c, e)
         /\ \/ /\ Head(end[c][e].inbox) = EOF
               /\ end'[c][e].reader = "eof" /\ end'[c][e].got = end[c][e].got
            \/ /\ Head(end[c][e].inbox) # EOF
               /\ end'[c][e].reader = "reading" /\ end'[c][e].got = Head(end[c][e].inbox)
         /\ UNCHANGED <<toGuest, toKernel, running>>
<1> DEFINE x == end[c][e]
           h == Head(x.inbox)
           q == Tail(x.inbox)
           ep == IF h = EOF THEN [x EXCEPT !.inbox = q, !.reader = "eof"]
                 ELSE [x EXCEPT !.inbox = q, !.got = h]
<1>1. x \in Endpoint
  BY DEF TypeOK
<1>2. /\ x.reader = "reading" /\ x.inbox # <<>> /\ Becomes(c, e, ep)
      /\ UNCHANGED <<toGuest, toKernel, running>>
  BY Zenon DEF Deliver, kernelVars
<1>3. q \in Seq(Nat) /\ h \in Nat
  <2>1. x.inbox \in Seq(Nat)
    BY <1>1 DEF Endpoint
  <2>. QED
    BY <1>2, <2>1
<1> HIDE DEF q, h
<1>4. ep \in Endpoint
  BY <1>1, <1>3, Endpoints, Zenon
<1>5. /\ ep.owner = x.owner /\ ep.sent = x.sent /\ ep.writer = x.writer
      /\ ep.inbox = q /\ ep.mapped = x.mapped
      /\ \/ h = EOF /\ ep.reader = "eof" /\ ep.got = x.got
         \/ h # EOF /\ ep.reader = x.reader /\ ep.got = h
  BY <1>1 DEF Endpoint
<1> HIDE DEF ep
<1>6. end'[c][e] = ep /\ Rest(c, e)
  BY <1>1, <1>2, <1>4, EndStep DEF TypeOK, Rest
<1>. QED
  BY <1>2, <1>5, <1>6, Zenon DEF SameWriter, q, h

LEMMA TickMeans ==
  ASSUME TypeOK, NEW p \in Procs, Tick(p)
  PROVE  /\ \A c \in Conns, e \in Ends :
              SameReader(c, e) /\ SameWriter(c, e) /\ end'[c][e].owner = end[c][e].owner
         /\ UNCHANGED <<toGuest, toKernel, running>>
<1> DEFINE t == Head(ticks[p])
           x == end[t.conn][t.end]
           s == IF x.st = "connecting" /\ (t.end = "client" \/ serving[p][t.key] = t.handle)
                THEN "open" ELSE x.st
           ep == [x EXCEPT !.st = s]
<1>1. t.conn \in Conns /\ t.end \in Ends
  <2>1. ticks[p] \in Seq(Callbacks) /\ ticks[p] # <<>>
    BY Zenon DEF Tick, TypeOK
  <2>2. t \in Callbacks
    BY <2>1
  <2>. QED
    BY <2>2 DEF Callbacks
<1>2. x \in Endpoint
  BY <1>1, Zenon DEF TypeOK
<1>3. Becomes(t.conn, t.end, ep) /\ UNCHANGED <<toGuest, toKernel, running>>
  BY Zenon DEF Tick, kernelVars
<1> HIDE DEF t, s
<1>4. s \in {"open", x.st}
  BY DEF s
<1>5. ep \in Endpoint
  BY <1>2, <1>4, Endpoints, Zenon
<1>6. /\ ep.owner = x.owner /\ ep.sent = x.sent /\ ep.writer = x.writer
      /\ ep.got = x.got /\ ep.reader = x.reader /\ ep.inbox = x.inbox /\ ep.mapped = x.mapped
  BY <1>2, Zenon DEF Endpoint
<1> HIDE DEF ep
<1>7. /\ end'[t.conn][t.end] = ep
      /\ \A d \in Conns, y \in Ends : d # t.conn \/ y # t.end => end'[d][y] = end[d][y]
  BY <1>1, <1>3, <1>5, EndStep DEF TypeOK
<1>. QED
  BY <1>3, <1>6, <1>7, Zenon DEF SameReader, SameWriter

(* The four ways a guest takes a message for its end e of c.                *)
Accepts(m, c, e) ==
  /\ m.type = "pipe-open"
  /\ end'[c][e].writer = end[c][e].writer /\ end'[c][e].inbox = end[c][e].inbox
  /\ toKernel' = toKernel
Refuses(p, m, c, e) ==
  /\ m.type = "pipe-open" /\ SameReader(c, e) /\ end'[c][e].writer = "ended"
  /\ Post(p, Msg("pipe-close", c, 0))
Drops(m, c, e) ==
  /\ m.type # "pipe-open" /\ ~end[c][e].mapped
  /\ SameReader(c, e) /\ SameWriter(c, e) /\ toKernel' = toKernel
Keeps(m, c, e) ==
  /\ m.type # "pipe-open" /\ end[c][e].mapped
  /\ end'[c][e].inbox = Append(end[c][e].inbox, IF m.type = "pipe-data" THEN m.n ELSE EOF)
  /\ SameWriter(c, e) /\ toKernel' = toKernel

LEMMA DispatchMeans ==
  ASSUME TypeOK, Pairs, Addressed, NEW p \in Procs, Dispatch(p),
         NEW m, m = Head(toGuest[p]), NEW c, c = m.conn, NEW e, e = EndOf(p, m.conn)
  PROVE  /\ toGuest[p] # <<>> /\ m \in Opening \union Relayed /\ c \in Conns /\ e \in Ends
         /\ p \in running /\ end[c][e].owner = p /\ running' = running
         /\ toGuest' = [toGuest EXCEPT ![p] = Tail(@)]
         /\ Rest(c, e) /\ end'[c][e].owner = p
         /\ end'[c][e].sent = end[c][e].sent
         /\ end'[c][e].got = end[c][e].got /\ end'[c][e].reader = end[c][e].reader
         /\ Accepts(m, c, e) \/ Refuses(p, m, c, e) \/ Drops(m, c, e) \/ Keeps(m, c, e)
<1> DEFINE x == end[c][e]
<1>1. /\ toGuest[p] # <<>> /\ toGuest' = [toGuest EXCEPT ![p] = Tail(@)]
      /\ p \in running /\ running' = running
  BY Zenon DEF Dispatch, Free
<1>2. /\ m \in Opening \union Relayed /\ c \in Conns /\ e \in Ends /\ x.owner = p
      /\ m.type = "pipe-open" <=> m \in Opening
  BY <1>1, Recipient, Zenon
<1>3. x \in Endpoint
  BY <1>2 DEF TypeOK
<1>4. ASSUME NEW ep \in Endpoint, Becomes(c, e, ep)
      PROVE  end'[c][e] = ep /\ Rest(c, e)
  <2>1. end \in [Conns -> [Ends -> Endpoint]]
    BY DEF TypeOK
  <2>. QED
    BY <1>2, <1>4, <2>1, EndStep, Zenon DEF Rest
<1>5. CASE m.type = "pipe-open" /\ m.n \in pipeServers[p]
  <2> DEFINE ep == [x EXCEPT !.st = "connecting", !.mapped = TRUE]
  <2>1. Becomes(c, e, ep) /\ toKernel' = toKernel
    BY <1>5, ZenonT(60) DEF Dispatch, EndOf
  <2>2. ep \in Endpoint
    BY <1>3, Endpoints, Zenon
  <2>3. /\ ep.owner = x.owner /\ ep.sent = x.sent /\ ep.got = x.got /\ ep.reader = x.reader
        /\ ep.writer = x.writer /\ ep.inbox = x.inbox
    BY <1>3, Zenon DEF Endpoint
  <2> HIDE DEF ep
  <2>4. end'[c][e] = ep /\ Rest(c, e)
    BY <1>4, <2>1, <2>2, Zenon
  <2>. QED
    BY <1>1, <1>2, <1>5, <2>1, <2>3, <2>4, Zenon DEF Accepts
<1>6. CASE m.type = "pipe-open" /\ m.n \notin pipeServers[p]
  <2> DEFINE ep == [x EXCEPT !.writer = "ended"]
  <2>1. Becomes(c, e, ep) /\ Post(p, Msg("pipe-close", c, 0))
    BY <1>6, ZenonT(60) DEF Dispatch, EndOf
  <2>2. ep \in Endpoint
    BY <1>3, Endpoints, Zenon
  <2>3. /\ ep.owner = x.owner /\ ep.sent = x.sent /\ ep.got = x.got /\ ep.reader = x.reader
        /\ ep.writer = "ended" /\ ep.inbox = x.inbox /\ ep.mapped = x.mapped
    BY <1>3, Zenon DEF Endpoint
  <2> HIDE DEF ep
  <2>4. end'[c][e] = ep /\ Rest(c, e)
    BY <1>4, <2>1, <2>2, Zenon
  <2>. QED
    BY <1>1, <1>2, <1>6, <2>1, <2>3, <2>4, Zenon DEF SameReader, Refuses
<1>7. CASE m.type # "pipe-open"
  <2> DEFINE n == IF m.type = "pipe-data" THEN m.n ELSE EOF
             ep == IF ~x.mapped THEN x
                   ELSE [x EXCEPT !.inbox = Append(@, n), !.mapped = (m.type # "pipe-close")]
  <2>1. Becomes(c, e, ep) /\ toKernel' = toKernel
    <3> DEFINE M == Head(toGuest[p])
               y == end[M.conn][EndOf(p, M.conn)]
    <3>1. M.type # "pipe-open"
      BY <1>7
    <3>2. /\ Becomes(M.conn, EndOf(p, M.conn), IF ~y.mapped THEN y
                ELSE [y EXCEPT !.inbox = Append(@, IF M.type = "pipe-data" THEN M.n ELSE EOF),
                               !.mapped = (M.type # "pipe-close")])
          /\ toKernel' = toKernel
      BY <3>1, Zenon DEF Dispatch, EndOf
    <3>3. M = m
      OBVIOUS
    <3> HIDE DEF M
    <3>. QED
      BY <3>2, <3>3, Zenon
  <2>2. ep \in Endpoint
    <3>1. n \in Nat
      BY <1>2, <1>7, Kinds, Zenon DEF EOF
    <3>2. Append(x.inbox, n) \in Seq(Nat)
      BY <1>3, <3>1 DEF Endpoint
    <3>3. (m.type # "pipe-close") \in BOOLEAN
      OBVIOUS
    <3>4. [x EXCEPT !.inbox = Append(@, n), !.mapped = (m.type # "pipe-close")] \in Endpoint
      <4>1. \A q \in Seq(Nat), b \in BOOLEAN : [x EXCEPT !.inbox = q, !.mapped = b] \in Endpoint
        BY <1>3, Endpoints, Zenon
      <4>. QED
        BY <3>2, <3>3, <4>1, Zenon
    <3>. QED
      BY <1>3, <3>4, Zenon
  <2>3. /\ ep.owner = x.owner /\ ep.sent = x.sent /\ ep.got = x.got /\ ep.reader = x.reader
        /\ ep.writer = x.writer
        /\ ~x.mapped => ep = x
        /\ x.mapped => ep.inbox = Append(x.inbox, n)
    <3>1. CASE ~x.mapped
      BY <3>1, Zenon
    <3>2. CASE x.mapped
      <4>1. ep = [x EXCEPT !.inbox = Append(@, n), !.mapped = (m.type # "pipe-close")]
        BY <3>2, Zenon
      <4>. QED
        BY <1>3, <3>2, <4>1, Zenon DEF Endpoint
    <3>. QED
      BY <3>1, <3>2, Zenon
  <2> HIDE DEF ep
  <2>4. end'[c][e] = ep /\ Rest(c, e)
    BY <1>4, <2>1, <2>2, Zenon
  <2>5. CASE ~x.mapped
    <3>1. Drops(m, c, e)
      BY <1>7, <2>1, <2>3, <2>4, <2>5, Zenon DEF SameReader, SameWriter, Drops
    <3>. QED
      BY <1>1, <1>2, <2>3, <2>4, <3>1, Zenon
  <2>6. CASE x.mapped
    <3>1. Keeps(m, c, e)
      BY <1>7, <2>1, <2>3, <2>4, <2>6, Zenon DEF SameWriter, Keeps
    <3>. QED
      BY <1>1, <1>2, <2>3, <2>4, <3>1, Zenon
  <2>. QED
    BY <2>5, <2>6, Zenon
<1>. QED
  BY <1>5, <1>6, <1>7, ZenonT(60)

(* In all of them the writer goes on, or has ended.                         *)
LEMMA DispatchWrites ==
  ASSUME TypeOK, Pairs, Addressed, NEW p \in Procs, Dispatch(p),
         NEW m, m = Head(toGuest[p]), NEW c, c = m.conn, NEW e, e = EndOf(p, m.conn)
  PROVE  /\ c \in Conns /\ e \in Ends /\ p \in running /\ running' = running /\ Rest(c, e)
         /\ end[c][e].owner = p /\ end'[c][e].owner = p /\ end'[c][e].sent = end[c][e].sent
         /\ end'[c][e].writer \in {end[c][e].writer, "ended"}
<1>1. /\ c \in Conns /\ e \in Ends /\ p \in running /\ running' = running /\ Rest(c, e)
      /\ end[c][e].owner = p /\ end'[c][e].owner = p /\ end'[c][e].sent = end[c][e].sent
  BY DispatchMeans
<1>2. Accepts(m, c, e) \/ Refuses(p, m, c, e) \/ Drops(m, c, e) \/ Keeps(m, c, e)
  BY DispatchMeans
<1>3. end'[c][e].writer = end[c][e].writer \/ end'[c][e].writer = "ended"
  BY <1>2, Zenon DEF SameWriter, Accepts, Refuses, Drops, Keeps
<1>. QED
  BY <1>1, <1>3, Zenon

LEMMA DialMeans ==
  ASSUME TypeOK, Alive, LeadsHome, Pairs, NEW p \in Procs, NEW k \in Keys, Dial(p, k)
  PROVE  \E c \in Conns, s \in Procs :
           /\ c = nextPipeConnId /\ p # s
           /\ end[c]["client"] = NoEnd /\ end[c]["server"] = NoEnd
           /\ \A d \in Conns : d # c => end'[d] = end[d]
           /\ end'[c]["client"].owner = p /\ end'[c]["server"].owner = s
           /\ \A e \in Ends : /\ SameWriter(c, e)
                              /\ end'[c][e].got = 0 /\ end'[c][e].reader = "reading"
                              /\ end'[c][e].inbox = <<>>
           /\ toGuest' = [toGuest EXCEPT ![s] = Append(@, Msg("pipe-open", c, k))]
           /\ UNCHANGED <<toKernel, running>>
<1> DEFINE c == nextPipeConnId
           s == pipeListeners[k]
           m == Msg("pipe-open", c, k)
<1>1. /\ p \in running /\ serving[p][k] = 0
      /\ s \in procs /\ nextPipeConnId <= MaxConns
  BY Zenon DEF Dial, Free, CanCall
<1>2. c \in Conns /\ s \in Procs
  BY <1>1, PipesAssumption DEF Conns, PipesAssumption, TypeOK
<1>3. s # p
  <2>1. parked[p] = None
    BY Zenon DEF Dial, Free
  <2>. QED
    BY <1>1, <2>1 DEF LeadsHome
<1>4. /\ toGuest' = [toGuest EXCEPT ![s] = Append(@, m)]
      /\ UNCHANGED <<toKernel, running>>
  BY Zenon DEF Dial
<1>5. end' = [end EXCEPT ![c] = [e \in Ends |->
                IF e = "server" THEN [end[c][e] EXCEPT !.owner = s]
                ELSE [end[c][e] EXCEPT !.st = "connecting", !.mapped = TRUE, !.owner = p]]]
  BY Zenon DEF Dial
<1>6. end[c]["client"] = NoEnd /\ end[c]["server"] = NoEnd
  BY <1>2, Numbers DEF Pairs, Ends
<1>7. /\ end'[c]["client"] = [NoEnd EXCEPT !.st = "connecting", !.mapped = TRUE, !.owner = p]
      /\ end'[c]["server"] = [NoEnd EXCEPT !.owner = s]
      /\ \A d \in Conns : d # c => end'[d] = end[d]
  BY <1>2, <1>5, <1>6, Zenon DEF TypeOK, Ends
<1>8. \A x \in {[NoEnd EXCEPT !.st = "connecting", !.mapped = TRUE, !.owner = p], [NoEnd EXCEPT !.owner = s]} :
        /\ x.sent = NoEnd.sent /\ x.writer = NoEnd.writer
        /\ x.got = 0 /\ x.reader = "reading" /\ x.inbox = <<>>
  BY Zenon DEF NoEnd
<1>9. /\ [NoEnd EXCEPT !.st = "connecting", !.mapped = TRUE, !.owner = p].owner = p
      /\ [NoEnd EXCEPT !.owner = s].owner = s
  BY DEF NoEnd
<1> HIDE DEF s, m
<1>10. \A e \in Ends : /\ SameWriter(c, e)
                       /\ end'[c][e].got = 0 /\ end'[c][e].reader = "reading"
                       /\ end'[c][e].inbox = <<>>
  BY <1>6, <1>7, <1>8, Zenon DEF SameWriter, Ends
<1>. QED
  BY <1>2, <1>3, <1>4, <1>6, <1>7, <1>9, <1>10, ZenonT(30) DEF m

(* A process that ends: what it had still to read is gone.                  *)
Stopped(p, c, e) ==
  /\ end'[c][e].owner = end[c][e].owner /\ end'[c][e].sent = end[c][e].sent
  /\ end'[c][e].got = end[c][e].got /\ end'[c][e].reader = end[c][e].reader
  /\ end'[c][e].inbox \in {end[c][e].inbox, <<>>}
  /\ end[c][e].owner # p => end'[c][e] = end[c][e]

LEMMA ExitMeans ==
  ASSUME TypeOK, NEW p \in Procs, ExitGuest(p)
  PROVE  /\ p \in running /\ running' = running \ {p}
         /\ \A c \in Conns, e \in Ends : Stopped(p, c, e) /\ end'[c][e].writer = end[c][e].writer
         /\ Post(p, Exit) /\ toGuest' = toGuest
<1>1. /\ Post(p, Exit) /\ UNCHANGED toGuest /\ p \in running /\ running' = running \ {p}
      /\ end' = [c \in Conns |-> [e \in Ends |->
           IF end[c][e].owner = p THEN [end[c][e] EXCEPT !.inbox = <<>>, !.mapped = FALSE]
           ELSE end[c][e]]]
  BY Zenon DEF ExitGuest, Free, Stops
<1>2. ASSUME NEW x \in Endpoint, NEW y, y = [x EXCEPT !.inbox = <<>>, !.mapped = FALSE]
      PROVE  /\ y.owner = x.owner /\ y.sent = x.sent /\ y.got = x.got /\ y.reader = x.reader
             /\ y.inbox = <<>> /\ y.writer = x.writer
  BY <1>2 DEF Endpoint
<1>3. ASSUME NEW c \in Conns, NEW e \in Ends
      PROVE  Stopped(p, c, e) /\ end'[c][e].writer = end[c][e].writer
  <2>1. end[c][e] \in Endpoint
    BY DEF TypeOK
  <2>2. end'[c][e] = IF end[c][e].owner = p THEN [end[c][e] EXCEPT !.inbox = <<>>, !.mapped = FALSE]
                     ELSE end[c][e]
    BY <1>1, Zenon
  <2>3. CASE end[c][e].owner = p
    BY <1>2, <2>1, <2>2, <2>3, Zenon DEF Stopped
  <2>4. CASE end[c][e].owner # p
    BY <2>2, <2>4 DEF Stopped
  <2>. QED
    BY <2>3, <2>4
<1>. QED
  BY <1>1, <1>3, Zenon

LEMMA KillMeans ==
  ASSUME TypeOK, NEW p \in Procs, Kill(p)
  PROVE  /\ running' = running \ {p}
         /\ \A c \in Conns, e \in Ends :
              /\ Stopped(p, c, e)
              /\ end[c][e].owner = p => end'[c][e].writer = "cut"
         /\ Finalize(p)
<1>1. /\ running' = running \ {p} /\ Finalize(p)
      /\ end' = [c \in Conns |-> [e \in Ends |->
           IF end[c][e].owner = p THEN [end[c][e] EXCEPT !.writer = "cut", !.inbox = <<>>, !.mapped = FALSE]
           ELSE end[c][e]]]
  BY Zenon DEF Kill, Stops
<1>2. ASSUME NEW x \in Endpoint, NEW y, y = [x EXCEPT !.writer = "cut", !.inbox = <<>>, !.mapped = FALSE]
      PROVE  /\ y.owner = x.owner /\ y.sent = x.sent /\ y.got = x.got /\ y.reader = x.reader
             /\ y.inbox = <<>> /\ y.writer = "cut"
  BY <1>2 DEF Endpoint
<1>3. ASSUME NEW c \in Conns, NEW e \in Ends
      PROVE  Stopped(p, c, e) /\ (end[c][e].owner = p => end'[c][e].writer = "cut")
  <2>1. end[c][e] \in Endpoint
    BY DEF TypeOK
  <2>2. end'[c][e] = IF end[c][e].owner = p
                     THEN [end[c][e] EXCEPT !.writer = "cut", !.inbox = <<>>, !.mapped = FALSE]
                     ELSE end[c][e]
    BY <1>1, Zenon
  <2>3. CASE end[c][e].owner = p
    BY <1>2, <2>1, <2>2, <2>3 DEF Stopped
  <2>4. CASE end[c][e].owner # p
    BY <2>2, <2>4 DEF Stopped
  <2>. QED
    BY <2>3, <2>4
<1>. QED
  BY <1>1, <1>3, Zenon

-----------------------------------------------------------------------------
(* What a process has posted, by who may post.                              *)
LEMMA PostedStep ==
  ASSUME TypeOK, Pairs, Records, Addressed, [Next]_vars, NEW q \in Procs
  PROVE  \/ toKernel'[q] = toKernel[q] \/ toKernel'[q] = <<>>
         \/ toKernel[q] # <<>> /\ toKernel'[q] = Tail(toKernel[q])
         \/ q \in running /\ \E m \in Relayed \union {Exit} : toKernel'[q] = Append(toKernel[q], m)
<1>1. CASE UNCHANGED vars
  BY <1>1 DEF vars
<1>2. ASSUME NEW p \in Procs, Serves(p)
      PROVE  toKernel' = toKernel
  BY <1>2, ServesFrame
<1>3. ASSUME NEW p \in Procs, NEW m \in Relayed \union {Exit}, Post(p, m), p \in running
      PROVE  \/ toKernel'[q] = toKernel[q]
             \/ q \in running /\ \E x \in Relayed \union {Exit} : toKernel'[q] = Append(toKernel[q], x)
  BY <1>3, PostStep, Zenon DEF TypeOK
<1>4. ASSUME NEW p \in Procs, Stirs(p)
      PROVE  \/ toKernel'[q] = toKernel[q]
             \/ q \in running /\ \E x \in Relayed \union {Exit} : toKernel'[q] = Append(toKernel[q], x)
  <2>1. p \in running
    BY <1>4, Zenon
       DEF Stirs, Quiet, Write, Shutdown, Close, Deliver, Tick, Dispatch, Dial, Mine, Free
  <2>2. toKernel' = toKernel \/ \E m \in Relayed : Post(p, m)
    BY <1>4, StirsMail
  <2>. QED
    BY <1>3, <2>1, <2>2, Zenon
<1>5. ASSUME NEW p \in Procs, ExitGuest(p)
      PROVE  \/ toKernel'[q] = toKernel[q]
             \/ q \in running /\ \E x \in Relayed \union {Exit} : toKernel'[q] = Append(toKernel[q], x)
  BY <1>3, <1>5, ExitMeans
<1>6. ASSUME NEW p \in Procs, Relay(p)
      PROVE  \/ toKernel'[q] = toKernel[q]
             \/ toKernel[q] # <<>> /\ toKernel'[q] = Tail(toKernel[q])
  <2>1. toKernel[p] # <<>> /\ toKernel' = [toKernel EXCEPT ![p] = Tail(@)]
    BY <1>6, RelayEffect, Zenon
  <2>. QED
    BY <2>1 DEF TypeOK
<1>7. ASSUME NEW p \in Procs, Finalize(p)
      PROVE  toKernel'[q] = toKernel[q] \/ toKernel'[q] = <<>>
  BY <1>7, FinalizeEffect, Zenon
<1>8. ASSUME NEW p \in Procs, Exited(p) \/ Kill(p)
      PROVE  Finalize(p)
  BY <1>8, Zenon DEF Exited, Kill
<1>. QED
  BY <1>1, <1>2, <1>4, <1>5, <1>6, <1>7, <1>8, Split, Zenon

LEMMA ExitLastStep ==
  ASSUME TypeOK, Pairs, Records, Addressed, Alive, ExitLast, [Next]_vars
  PROVE  ExitLast'
<1> SUFFICES ASSUME NEW q \in Procs, NEW i \in DOMAIN toKernel'[q], NEW j \in DOMAIN toKernel'[q],
                    toKernel'[q][i].type = "exit"
             PROVE  j <= i
  BY DEF ExitLast
<1>1. PICK old, new : old = toKernel[q] /\ new = toKernel'[q]
  OBVIOUS
<1>2. old \in Seq(Relayed \union {Exit})
  BY <1>1 DEF TypeOK
<1>3. \A x, y \in DOMAIN old : old[x].type = "exit" => y <= x /\ q \notin running
  BY <1>1 DEF ExitLast, Alive
<1>4. \/ new = old \/ new = <<>>
      \/ old # <<>> /\ new = Tail(old)
      \/ q \in running /\ \E m \in Relayed \union {Exit} : new = Append(old, m)
  BY <1>1, PostedStep, Zenon
<1>5. i \in DOMAIN new /\ j \in DOMAIN new /\ new[i].type = "exit"
  BY <1>1
<1>6. CASE new = old \/ new = <<>>
  BY <1>3, <1>5, <1>6
<1>7. CASE old # <<>> /\ new = Tail(old)
  <2>1. i + 1 \in DOMAIN old /\ j + 1 \in DOMAIN old /\ new[i] = old[i + 1] /\ i \in Nat /\ j \in Nat
    BY <1>2, <1>5, <1>7
  <2>2. j + 1 <= i + 1
    BY <1>3, <1>5, <2>1
  <2>. QED
    BY <2>1, <2>2
<1>8. ASSUME q \in running, NEW m \in Relayed \union {Exit}, new = Append(old, m)
      PROVE  j <= i
  <2>1. /\ DOMAIN new = 1..(Len(old) + 1) /\ DOMAIN old = 1..Len(old) /\ Len(old) \in Nat
        /\ \A x \in DOMAIN old : new[x] = old[x]
    BY <1>2, <1>8
  <2>2. i \notin DOMAIN old
    BY <1>3, <1>5, <1>8, <2>1
  <2>. QED
    BY <1>5, <2>1, <2>2
<1>. QED
  BY <1>4, <1>6, <1>7, <1>8

(* A writer is cut off by the kill of its process only.                     *)
LEMMA CutOffStep ==
  ASSUME TypeOK, Alive, LeadsHome, Pairs, Records, Addressed, CutOff, [Next]_vars
  PROVE  CutOff'
<1>1. ASSUME running' \subseteq running,
             \A c \in Conns, e \in Ends : end'[c][e].writer = "cut" =>
               end[c][e].writer = "cut" /\ end'[c][e].owner = end[c][e].owner
      PROVE  CutOff'
  <2> SUFFICES ASSUME NEW c \in Conns, NEW e \in Ends, end'[c][e].writer = "cut"
               PROVE  end'[c][e].owner \in Procs \ running' /\ toKernel'[end'[c][e].owner] = <<>>
    BY DEF CutOff
  <2>1. PICK q : q = end[c][e].owner
    OBVIOUS
  <2>2. q \in Procs /\ q \notin running /\ toKernel[q] = <<>> /\ end'[c][e].owner = q
    BY <1>1, <2>1 DEF CutOff
  <2>3. toKernel'[q] = <<>>
    BY <2>2, PostedStep
  <2>. QED
    BY <1>1, <2>2, <2>3
<1>2. CASE UNCHANGED vars
  BY <1>1, <1>2 DEF vars, guestVars
<1>3. ASSUME NEW p \in Procs, Serves(p)
      PROVE  CutOff'
  BY <1>1, <1>3, ServesFrame
<1>4. ASSUME NEW p \in Procs, NEW c \in Conns, NEW e \in Ends, Rest(c, e), running' = running,
             end'[c][e].owner = end[c][e].owner, end'[c][e].writer \in {end[c][e].writer, "open", "ended"}
      PROVE  CutOff'
  BY <1>1, <1>4, Zenon DEF Rest
<1>5. ASSUME NEW p \in Procs, Stirs(p)
      PROVE  CutOff'
  <2>1. ASSUME NEW c \in Conns, NEW e \in Ends, Write(p, c, e)
        PROVE  CutOff'
    BY <1>4, <2>1, WriteMeans
  <2>2. ASSUME NEW c \in Conns, NEW e \in Ends, Shutdown(p, c, e)
        PROVE  CutOff'
    BY <1>4, <2>2, ShutdownMeans
  <2>3. ASSUME NEW c \in Conns, NEW e \in Ends, Close(p, c, e)
        PROVE  CutOff'
    <3>1. /\ Rest(c, e) /\ running' = running
          /\ end'[c][e].owner = end[c][e].owner /\ end'[c][e].writer = "ended"
      BY <2>3, CloseMeans
    <3>. QED
      BY <1>4, <3>1
  <2>4. ASSUME NEW c \in Conns, NEW e \in Ends, Deliver(p, c, e)
        PROVE  CutOff'
    BY <1>4, <2>4, DeliverMeans, Zenon DEF SameWriter
  <2>5. ASSUME Tick(p)
        PROVE  CutOff'
    BY <1>1, <2>5, TickMeans DEF SameWriter
  <2>6. ASSUME Dispatch(p)
        PROVE  CutOff'
    <3>1. PICK m, c, e : m = Head(toGuest[p]) /\ c = m.conn /\ e = EndOf(p, m.conn)
      BY Zenon
    <3>2. /\ c \in Conns /\ e \in Ends /\ running' = running /\ Rest(c, e)
          /\ end'[c][e].owner = end[c][e].owner
          /\ end'[c][e].writer \in {end[c][e].writer, "ended"}
      BY <2>6, <3>1, DispatchWrites
    <3>. QED
      BY <1>4, <3>2, Zenon
  <2>7. ASSUME NEW k \in Keys, Dial(p, k)
        PROVE  CutOff'
    <3>1. PICK c \in Conns :
            /\ end[c]["client"] = NoEnd /\ end[c]["server"] = NoEnd
            /\ \A d \in Conns : d # c => end'[d] = end[d]
            /\ \A e \in Ends : SameWriter(c, e)
            /\ running' = running
      BY <2>7, DialMeans
    <3>2. \A e \in Ends : end'[c][e].writer = "open"
      BY <3>1 DEF SameWriter, NoEnd, Ends
    <3>. QED
      BY <1>1, <3>1, <3>2
  <2>. QED
    BY <1>5, <2>1, <2>2, <2>3, <2>4, <2>5, <2>6, <2>7, Zenon DEF Stirs, Quiet
<1>6. ASSUME NEW p \in Procs, ExitGuest(p)
      PROVE  CutOff'
  BY <1>1, <1>6, ExitMeans DEF Stopped
<1>7. ASSUME NEW p \in Procs, Relay(p)
      PROVE  CutOff'
  <2>1. UNCHANGED <<end, running>>
    BY <1>7 DEF Relay, guestVars
  <2>. QED
    BY <1>1, <2>1
<1>8. ASSUME NEW p \in Procs, Exited(p)
      PROVE  CutOff'
  <2>1. UNCHANGED <<end, running>>
    BY <1>8 DEF Exited, guestVars
  <2>. QED
    BY <1>1, <2>1
<1>9. ASSUME NEW p \in Procs, Kill(p)
      PROVE  CutOff'
  <2> SUFFICES ASSUME NEW c \in Conns, NEW e \in Ends, end'[c][e].writer = "cut"
               PROVE  end'[c][e].owner \in Procs \ running' /\ toKernel'[end'[c][e].owner] = <<>>
    BY DEF CutOff
  <2>1. /\ running' = running \ {p} /\ Stopped(p, c, e) /\ Finalize(p)
    BY <1>9, KillMeans
  <2>2. /\ toKernel'[p] = <<>> /\ \A q \in Procs : q # p => toKernel'[q] = toKernel[q]
    BY <2>1, FinalizeEffect, Zenon
  <2>3. CASE end[c][e].owner = p
    BY <2>1, <2>2, <2>3 DEF Stopped
  <2>4. CASE end[c][e].owner # p
    <3>1. end'[c][e] = end[c][e]
      BY <2>1, <2>4 DEF Stopped
    <3>. QED
      BY <2>1, <2>2, <2>4, <3>1 DEF CutOff
  <2>. QED
    BY <2>3, <2>4
<1>. QED
  BY <1>2, <1>3, <1>5, <1>6, <1>7, <1>8, <1>9, Split

(* What a guest has been told, by who may tell it.                          *)
LEMMA OpenFirstStep ==
  ASSUME TypeOK, Alive, LeadsHome, Pairs, Records, Addressed, OpenFirst, [Next]_vars
  PROVE  OpenFirst'
<1> SUFFICES ASSUME NEW q \in Procs, NEW c \in Conns,
                    NEW i \in DOMAIN toGuest'[q], NEW j \in DOMAIN toGuest'[q],
                    toGuest'[q][i].type = "pipe-open", toGuest'[q][i].conn = c, toGuest'[q][j].conn = c
             PROVE  i <= j
  BY DEF OpenFirst, Opens
<1>1. PICK old, new : old = toGuest[q] /\ new = toGuest'[q]
  OBVIOUS
<1>2. old \in Seq(Opening \union Relayed)
  BY <1>1 DEF TypeOK
<1>3. /\ i \in DOMAIN new /\ j \in DOMAIN new
      /\ new[i].type = "pipe-open" /\ new[i].conn = c /\ new[j].conn = c
  BY <1>1
<1>4. \A x, y \in DOMAIN old : old[x].type = "pipe-open" /\ old[x].conn = c /\ old[y].conn = c => x <= y
  BY <1>1 DEF OpenFirst, Opens
<1>5. CASE new = old
  BY <1>3, <1>4, <1>5
<1>6. CASE new = <<>>
  BY <1>3, <1>6
<1>7. ASSUME old # <<>>, new = Tail(old)
      PROVE  i <= j
  <2>1. /\ i + 1 \in DOMAIN old /\ j + 1 \in DOMAIN old /\ i \in Nat /\ j \in Nat
        /\ new[i] = old[i + 1] /\ new[j] = old[j + 1]
    BY <1>2, <1>3, <1>7
  <2>2. i + 1 <= j + 1
    BY <1>3, <1>4, <2>1
  <2>. QED
    BY <2>1, <2>2
<1>8. ASSUME NEW m \in Opening \union Relayed, new = Append(old, m),
             m.type = "pipe-open" => \A x \in DOMAIN old : old[x].conn # m.conn
      PROVE  i <= j
  <2>1. /\ DOMAIN new = 1..(Len(old) + 1) /\ DOMAIN old = 1..Len(old) /\ Len(old) \in Nat
        /\ \A x \in DOMAIN old : new[x] = old[x]
        /\ new[Len(old) + 1] = m
    BY <1>2, <1>8
  <2>2. CASE i \in DOMAIN old
    BY <1>3, <1>4, <2>1, <2>2
  <2>3. CASE i \notin DOMAIN old
    <3>1. i = Len(old) + 1
      BY <1>3, <2>1, <2>3
    <3>2. j \notin DOMAIN old
      BY <1>3, <1>8, <2>1, <3>1
    <3>. QED
      BY <1>3, <2>1, <3>1, <3>2
  <2>. QED
    BY <2>2, <2>3
<1>9. CASE UNCHANGED toGuest
  BY <1>1, <1>5, <1>9
<1>10. ASSUME NEW p \in Procs, Serves(p) \/ ExitGuest(p)
       PROVE  UNCHANGED toGuest
  BY <1>10, ServesFrame, ExitMeans
<1>11. ASSUME NEW p \in Procs, Stirs(p)
       PROVE  i <= j
  <2>1. CASE Dispatch(p)
    <3>1. toGuest[p] # <<>> /\ toGuest' = [toGuest EXCEPT ![p] = Tail(@)]
      BY <2>1, Zenon DEF Dispatch
    <3>2. new = old \/ (old # <<>> /\ new = Tail(old))
      BY <1>1, <3>1, Zenon DEF TypeOK
    <3>. QED
      BY <1>5, <1>7, <3>2
  <2>2. ASSUME NEW k \in Keys, Dial(p, k)
        PROVE  i <= j
    <3>1. PICK d \in Conns, s \in Procs :
            /\ d = nextPipeConnId
            /\ toGuest' = [toGuest EXCEPT ![s] = Append(@, Msg("pipe-open", d, k))]
      BY <2>2, DialMeans
    <3>2. PICK m : m = Msg("pipe-open", d, k)
      OBVIOUS
    <3>3. m \in Opening \union Relayed /\ m.conn = d
      BY <3>2, Kinds
    <3>4. \A x \in DOMAIN old : old[x].conn # d
      <4>1. \A x \in DOMAIN old : old[x].conn < nextPipeConnId
        BY <1>1, Zenon DEF Addressed, PartyOf
      <4>2. nextPipeConnId \in Nat
        BY Numbers, <3>1
      <4>. QED
        BY <3>1, <4>1, <4>2
    <3>5. new = old \/ new = Append(old, m)
      BY <1>1, <3>1, <3>2, Zenon DEF TypeOK
    <3>. QED
      BY <1>5, <1>8, <3>3, <3>4, <3>5
  <2>3. ASSUME Quiet(p)
        PROVE  UNCHANGED toGuest
    BY <2>3, QuietEffect
  <2>4. ASSUME NEW d \in Conns, NEW e \in Ends, Close(p, d, e)
        PROVE  UNCHANGED toGuest
    BY <2>4, CloseMeans
  <2>. QED
    BY <1>9, <1>11, <2>1, <2>2, <2>3, <2>4 DEF Stirs
<1>12. ASSUME NEW p \in Procs, Relay(p)
       PROVE  i <= j
  <2>1. PICK m : m = Head(toKernel[p])
    OBVIOUS
  <2>2. /\ m \in Relayed
        /\ \/ UNCHANGED toGuest
           \/ \E other \in procs : toGuest' = [toGuest EXCEPT ![other] = Append(@, m)]
    BY <1>12, <2>1, RelayEffect, Zenon
  <2>3. new = old \/ new = Append(old, m)
    BY <1>1, <2>2, Zenon DEF TypeOK
  <2>4. m.type # "pipe-open"
    BY <2>2, Kinds
  <2>. QED
    BY <1>5, <1>8, <2>2, <2>3, <2>4
<1>13. ASSUME NEW p \in Procs, Finalize(p)
       PROVE  i <= j
  <2>1. CASE q \notin procs'
    BY <1>1, <1>6, <1>13, <2>1, FinalizeEffect, Zenon
  <2>2. CASE q \in procs'
    <3>1. /\ \A x \in DOMAIN old : x \in DOMAIN new /\ new[x] = old[x]
          /\ \A x \in DOMAIN new : x \in DOMAIN old \/ new[x].type = "pipe-close"
      BY <1>1, <1>13, <2>2, FinalizeEffect, ZenonT(30)
    <3>2. i \in DOMAIN old /\ old[i] = new[i]
      BY <1>3, <3>1
    <3>3. CASE j \in DOMAIN old
      BY <1>3, <1>4, <3>1, <3>2, <3>3
    <3>4. CASE j \notin DOMAIN old
      <4>1. DOMAIN old = 1..Len(old) /\ Len(old) \in Nat
        BY <1>2
      <4>2. DOMAIN new \subseteq Nat \ {0}
        <5>1. toGuest' \in [Procs -> Seq(Opening \union Relayed)]
          BY TypeStep, Zenon DEF TypeOK
        <5>2. new \in Seq(Opening \union Relayed)
          BY <1>1, <5>1
        <5>. QED
          BY <5>2
      <4>. QED
        BY <1>3, <3>2, <3>4, <4>1, <4>2
    <3>. QED
      BY <3>3, <3>4
  <2>. QED
    BY <2>1, <2>2
<1>14. ASSUME NEW p \in Procs, Exited(p) \/ Kill(p)
       PROVE  Finalize(p)
  BY <1>14, Zenon DEF Exited, Kill
<1>15. CASE UNCHANGED vars
  BY <1>9, <1>15 DEF vars
<1>. QED
  BY <1>9, <1>10, <1>11, <1>12, <1>13, <1>14, <1>15, Split

-----------------------------------------------------------------------------
(* A step that is about other connections.                                  *)
LEMMA Elsewhere ==
  ASSUME TypeOK, Pairs, NEW c \in Conns, NEW e \in Ends, Flow(c, e), Arrives(c, e),
         running' = running, \A x \in Ends : end'[c][x] = end[c][x],
         \A q \in Procs : QuietR(c, q) /\ QuietW(c, q)
  PROVE  Flow(c, e)' /\ Arrives(c, e)'
<1>1. Other(e) \in Ends
  BY Sides
<1>2. WriterOf(c, e)' = WriterOf(c, e)
  BY DEF WriterOf
<1>3. WriterKept(c, e)
  BY <1>2 DEF WriterKept
<1>4. Expects(c, Other(e))' => Expects(c, Other(e))
  BY <1>1, ExpectsKept
<1>5. ReaderKept(c, Other(e))
  BY <1>1, <1>4 DEF ReaderKept
<1>6. Flow(c, e)'
  BY <1>3, <1>5, FlowKept
<1>7. Arrives(c, e)'
  BY <1>1, <1>2, ArrivesKept
<1>. QED
  BY <1>6, <1>7

(* The direction a step reads from, when it only writes to the other.       *)
LEMMA Backwards ==
  ASSUME TypeOK, Pairs, NEW c \in Conns, NEW e \in Ends, Flow(c, Other(e)), Arrives(c, Other(e)),
         running' = running, Rest(c, e), SameReader(c, e), end'[c][e].owner = end[c][e].owner,
         \A q \in Procs : /\ q = end[c][e].owner => QuietR(c, q)
                          /\ q = end[c][Other(e)].owner => QuietW(c, q)
  PROVE  Flow(c, Other(e))' /\ Arrives(c, Other(e))'
<1>1. Other(e) \in Ends /\ Other(Other(e)) = e /\ end'[c][Other(e)] = end[c][Other(e)]
  BY Sides DEF Rest
<1>2. WriterOf(c, Other(e))' = WriterOf(c, Other(e))
  BY <1>1 DEF WriterOf
<1>3. WriterKept(c, Other(e))
  BY <1>1, <1>2 DEF WriterKept
<1>4. Expects(c, e)' => Expects(c, e)
  BY ExpectsKept, Zenon DEF SameReader
<1>5. ReaderKept(c, e)
  BY <1>4 DEF ReaderKept, SameReader
<1>6. Flow(c, Other(e))'
  BY <1>1, <1>3, <1>5, FlowKept
<1>7. Arrives(c, Other(e))'
  BY <1>1, <1>2, ArrivesKept, Zenon DEF SameReader
<1>. QED
  BY <1>6, <1>7

LEMMA PostQuiet ==
  ASSUME TypeOK, NEW p \in Procs, NEW m \in Relayed \union {Exit}, Post(p, m)
  PROVE  /\ toKernel'[p] = Append(toKernel[p], m)
         /\ \A c, q \in Procs : q # p => QuietW(c, q)
         /\ \A q \in Procs, c \in Conns : q # p \/ Foreign(m, c) => QuietW(c, q)
  BY PostStep DEF TypeOK, QuietW

(* The direction a step writes to: what the message does to the road.       *)
LEMMA FlowPosted ==
  ASSUME TypeOK, Pairs, NEW c \in Conns, NEW e \in Ends, Flow(c, e),
         NEW p \in Procs, end[c][e].owner = p, NEW m \in Relayed \union {Exit}, Post(p, m),
         Rest(c, e), end'[c][e].owner = p, running' = running,
         \A q \in Procs : q # p => toGuest'[q] = toGuest[q],
         \A has \in Nat, qr \in Seq(Opening \union Relayed), qw \in Seq(Relayed \union {Exit}) :
           Road(c, end[c][e].sent, WriterOf(c, e), has, qr, qw) =>
             Road(c, end'[c][e].sent, WriterOf(c, e)', has, qr, Append(qw, m))
  PROVE  Flow(c, e)'
<1> DEFINE o == Other(e)
<1>1. o \in Ends /\ end'[c][o] = end[c][o]
  BY Sides DEF Rest
<1> SUFFICES ASSUME Expects(c, o)'
             PROVE  Road(c, end'[c][e].sent, WriterOf(c, e)',
                         end'[c][o].got + Len(end'[c][o].inbox),
                         toGuest'[end'[c][o].owner], toKernel'[end'[c][e].owner])
  BY Zenon DEF Flow
<1>2. PICK r, h, qr, qw : /\ r = end[c][o].owner /\ h = end[c][o].got + Len(end[c][o].inbox)
                          /\ qr = toGuest[r] /\ qw = toKernel[p]
  OBVIOUS
<1>3. r \in Procs /\ r # p
  BY <1>1, <1>2, BothOwners
<1>4. QuietR(c, r)
  BY <1>3 DEF QuietR
<1>5. Expects(c, o)
  <2>1. \A q \in Procs : q = end[c][o].owner => QuietR(c, q)
    BY <1>2, <1>4, Zenon
  <2>. QED
    BY <1>1, <2>1, ExpectsKept, Zenon
<1>6. Road(c, end[c][e].sent, WriterOf(c, e), h, qr, qw)
  BY <1>2, <1>5, Zenon DEF Flow
<1>7. h \in Nat /\ qr \in Seq(Opening \union Relayed) /\ qw \in Seq(Relayed \union {Exit})
  <2>1. end[c][o].got \in Nat /\ Len(end[c][o].inbox) \in Nat
    BY <1>1, Fields, Zenon
  <2>2. h \in Nat
    BY <1>2, <2>1
  <2>. QED
    BY <1>2, <1>3, <2>2, Zenon DEF TypeOK
<1>8. Road(c, end'[c][e].sent, WriterOf(c, e)', h, qr, Append(qw, m))
  BY <1>6, <1>7
<1>9. toGuest'[r] = qr /\ toKernel'[p] = Append(qw, m)
  BY <1>2, <1>3, PostQuiet, Zenon
<1>. QED
  BY <1>1, <1>2, <1>8, <1>9, Zenon

(* An end posted, by a writer that has not been cut off.                    *)
LEMMA FlowEnded ==
  ASSUME TypeOK, Pairs, NEW c \in Conns, NEW e \in Ends, Flow(c, e), Arrives(c, e),
         NEW p \in Procs, p \in running, end[c][e].owner = p, end[c][e].writer # "cut",
         NEW t \in {"pipe-shutdown", "pipe-close"}, Post(p, Msg(t, c, 0)),
         Rest(c, e), end'[c][e].owner = p, running' = running,
         \A q \in Procs : q # p => toGuest'[q] = toGuest[q],
         end'[c][e].sent = end[c][e].sent, end'[c][e].writer = "ended"
  PROVE  Flow(c, e)' /\ Arrives(c, e)'
<1>1. PICK m, s, wr : m = Msg(t, c, 0) /\ s = end[c][e].sent /\ wr = WriterOf(c, e)
  OBVIOUS
<1>2. m \in Relayed /\ FinOf(m, c) /\ Post(p, m)
  BY <1>1, Kinds, Mail
<1>3. s \in Nat /\ wr # "cut" /\ end'[c][e].sent = s /\ WriterOf(c, e)' = "ended"
  BY <1>1, Fields, Zenon DEF WriterOf
<1>4. ASSUME NEW has \in Nat, NEW qr \in Seq(Opening \union Relayed), NEW qw \in Seq(Relayed \union {Exit}),
             Road(c, s, wr, has, qr, qw)
      PROVE  Road(c, s, "ended", has, qr, Append(qw, m))
  <2>1. Road(c, s, "ended", has, qr, qw)
    BY <1>3, <1>4, RoadEnded
  <2>2. m \in Relayed \union {Exit}
    BY <1>2
  <2>. QED
    BY <1>2, <1>3, <2>1, <2>2, RoadFin, Mail
<1>5. Flow(c, e)'
  BY <1>1, <1>2, <1>3, <1>4, FlowPosted, Zenon
<1>6. Arrives(c, e)'
  <2>1. Other(e) \in Ends /\ end'[c][Other(e)] = end[c][Other(e)]
    BY Sides DEF Rest
  <2>. QED
    BY <1>1, <1>3, <2>1, ArrivesKept, Zenon
<1>. QED
  BY <1>5, <1>6

LEMMA WriteFlow ==
  ASSUME TypeOK, Pairs, NEW p \in Procs, NEW c \in Conns, NEW e \in Ends, Write(p, c, e),
         NEW d \in Conns, NEW f \in Ends, Flow(d, f), Arrives(d, f)
  PROVE  Flow(d, f)' /\ Arrives(d, f)'
<1>0. /\ p \in running /\ end[c][e].owner = p /\ end[c][e].writer = "open"
      /\ Rest(c, e) /\ SameReader(c, e) /\ end'[c][e].owner = p
      /\ end'[c][e].sent = end[c][e].sent + 1 /\ end'[c][e].writer = "open"
      /\ Post(p, Msg("pipe-data", c, end[c][e].sent + 1))
      /\ UNCHANGED <<toGuest, running>>
  BY WriteMeans
<1>1. PICK m, s : m = Msg("pipe-data", c, end[c][e].sent + 1) /\ s = end[c][e].sent
  OBVIOUS
<1>2. /\ s \in Nat /\ s + 1 \in Nat /\ m \in Relayed /\ m.n = s + 1 /\ Post(p, m)
      /\ \A x \in Conns : DataOf(m, x) <=> x = c
      /\ \A x \in Conns : ~FinOf(m, x)
  <2>1. s \in Nat /\ s + 1 \in Nat
    BY <1>1, Fields
  <2>. QED
    BY <1>0, <1>1, <2>1, Kinds, Mail
<1>3. \A q \in Procs, x \in Conns : q # p \/ x # c => QuietW(x, q)
  BY <1>2, PostQuiet DEF Foreign
<1>4. \A q \in Procs, x \in Conns : QuietR(x, q)
  BY <1>0 DEF QuietR
<1>5. CASE d # c
  <2>1. \A x \in Ends : end'[d][x] = end[d][x]
    BY <1>0, <1>5 DEF Rest
  <2>. QED
    BY <1>0, <1>3, <1>4, <1>5, <2>1, Elsewhere
<1>6. CASE d = c /\ f = e
  <2>1. WriterOf(c, e) = "open" /\ WriterOf(c, e)' = "open"
    BY <1>0 DEF WriterOf
  <2>2. ASSUME NEW has \in Nat, NEW qr \in Seq(Opening \union Relayed), NEW qw \in Seq(Relayed \union {Exit}),
               Road(c, s, "open", has, qr, qw)
        PROVE  Road(c, s + 1, "open", has, qr, Append(qw, m))
    <3>1. m \in Relayed \union {Exit} /\ DataOf(m, c)
      BY <1>2
    <3>. QED
      BY <1>2, <2>2, <3>1, RoadWritten, Mail
  <2>3. Flow(c, e)'
    <3>1. running' = running /\ \A q \in Procs : q # p => toGuest'[q] = toGuest[q]
      BY <1>0
    <3>2. Flow(c, e) /\ m \in Relayed \union {Exit}
      BY <1>2, <1>6
    <3>3. \A has \in Nat, qr \in Seq(Opening \union Relayed), qw \in Seq(Relayed \union {Exit}) :
            Road(c, end[c][e].sent, WriterOf(c, e), has, qr, qw) =>
              Road(c, end'[c][e].sent, WriterOf(c, e)', has, qr, Append(qw, m))
      BY <1>0, <1>1, <2>1, <2>2, Zenon
    <3>. QED
      BY <1>0, <1>2, <3>1, <3>2, <3>3, FlowPosted, Zenon
  <2>4. Arrives(c, e)'
    <3>1. Other(e) \in Ends /\ end'[c][Other(e)] = end[c][Other(e)]
      BY <1>0, Sides DEF Rest
    <3>2. PICK q, g : q = end[c][Other(e)].inbox /\ g = end[c][Other(e)].got
      OBVIOUS
    <3>3. q \in Seq(Nat) /\ g \in Nat
      BY <3>1, <3>2, Fields
    <3>4. g <= s /\ (end[c][Other(e)].reader = "reading" => InOrder(q, g, s, "open"))
      BY <1>1, <1>6, <2>1, <3>2 DEF Arrives
    <3>5. g <= s + 1 /\ (end[c][Other(e)].reader = "reading" => InOrder(q, g, s + 1, "open"))
      BY <1>2, <3>3, <3>4, OrderWriter
    <3>. QED
      BY <1>0, <1>1, <2>1, <3>1, <3>2, <3>5, Zenon DEF Arrives
  <2>. QED
    BY <1>6, <2>3, <2>4
<1>7. CASE d = c /\ f = Other(e)
  <2>1. \A q \in Procs : q = end[c][Other(e)].owner => QuietW(c, q)
    BY <1>0, <1>3, BothOwners
  <2>. QED
    BY <1>0, <1>4, <1>7, <2>1, Backwards, Zenon
<1>. QED
  BY <1>5, <1>6, <1>7, Sides

(* The direction a step leaves the writer of alone.                         *)
LEMMA Forwards ==
  ASSUME TypeOK, Pairs, NEW c \in Conns, NEW e \in Ends, Flow(c, e), Arrives(c, e),
         running' = running, Rest(c, e), SameWriter(c, e), end'[c][e].owner = end[c][e].owner,
         \A q \in Procs : /\ q = end[c][Other(e)].owner => QuietR(c, q)
                          /\ q = end[c][e].owner => QuietW(c, q)
  PROVE  Flow(c, e)' /\ Arrives(c, e)'
<1>1. Other(e) \in Ends /\ end'[c][Other(e)] = end[c][Other(e)]
  BY Sides DEF Rest
<1>2. WriterOf(c, e)' = WriterOf(c, e)
  BY DEF WriterOf, SameWriter
<1>3. WriterKept(c, e)
  BY <1>2 DEF WriterKept, SameWriter
<1>4. Expects(c, Other(e))' => Expects(c, Other(e))
  BY <1>1, ExpectsKept, Zenon
<1>5. ReaderKept(c, Other(e))
  BY <1>1, <1>4 DEF ReaderKept
<1>6. Flow(c, e)'
  BY <1>3, <1>5, FlowKept
<1>7. Arrives(c, e)'
  BY <1>1, <1>2, ArrivesKept, Zenon DEF SameWriter
<1>. QED
  BY <1>6, <1>7

LEMMA ShutdownFlow ==
  ASSUME TypeOK, Pairs, NEW p \in Procs, NEW c \in Conns, NEW e \in Ends, Shutdown(p, c, e),
         NEW d \in Conns, NEW f \in Ends, Flow(d, f), Arrives(d, f)
  PROVE  Flow(d, f)' /\ Arrives(d, f)'
<1>0. /\ p \in running /\ end[c][e].owner = p /\ end[c][e].writer = "open"
      /\ Rest(c, e) /\ SameReader(c, e) /\ end'[c][e].owner = p
      /\ end'[c][e].sent = end[c][e].sent /\ end'[c][e].writer = "ended"
      /\ Post(p, Msg("pipe-shutdown", c, 0))
      /\ running' = running /\ toGuest' = toGuest
  BY ShutdownMeans
<1>1. \A q \in Procs, x \in Conns : q # p \/ x # c => QuietW(x, q)
  <2>1. PICK m : m = Msg("pipe-shutdown", c, 0)
    OBVIOUS
  <2>2. m \in Relayed \union {Exit} /\ Post(p, m) /\ \A x \in Conns : x # c => Foreign(m, x)
    BY <1>0, <2>1, Kinds, Mail DEF Foreign
  <2>. QED
    BY <2>2, PostQuiet
<1>2. \A q \in Procs, x \in Conns : QuietR(x, q)
  BY <1>0 DEF QuietR
<1>3. CASE d # c
  <2>1. \A x \in Ends : end'[d][x] = end[d][x]
    BY <1>0, <1>3 DEF Rest
  <2>. QED
    BY <1>0, <1>1, <1>2, <1>3, <2>1, Elsewhere
<1>4. CASE d = c /\ f = e
  <2>1. \A q \in Procs : q # p => toGuest'[q] = toGuest[q]
    BY <1>0
  <2>2. Flow(c, e) /\ Arrives(c, e) /\ end[c][e].writer # "cut"
    BY <1>0, <1>4
  <2>3. Flow(c, e)' /\ Arrives(c, e)'
    BY <1>0, <2>1, <2>2, FlowEnded, Zenon
  <2>. QED
    BY <1>4, <2>3
<1>5. CASE d = c /\ f = Other(e)
  <2>1. \A q \in Procs : q = end[c][Other(e)].owner => QuietW(c, q)
    BY <1>0, <1>1, BothOwners
  <2>. QED
    BY <1>0, <1>2, <1>5, <2>1, Backwards
<1>. QED
  BY <1>3, <1>4, <1>5, Sides

LEMMA CloseFlow ==
  ASSUME TypeOK, Pairs, Handshakes, CutOff,
         NEW p \in Procs, NEW c \in Conns, NEW e \in Ends, Close(p, c, e),
         NEW d \in Conns, NEW f \in Ends, Flow(d, f), Arrives(d, f)
  PROVE  Flow(d, f)' /\ Arrives(d, f)'
<1>0. /\ p \in running /\ end[c][e].owner = p /\ (end[c][e].st = "open" \/ e = "client")
      /\ Rest(c, e) /\ end'[c][e].owner = p
      /\ end'[c][e].got = end[c][e].got /\ end'[c][e].reader = end[c][e].reader
      /\ end'[c][e].inbox = <<>> /\ ~end'[c][e].mapped
      /\ end'[c][e].sent = end[c][e].sent /\ end'[c][e].writer = "ended"
      /\ Post(p, Msg("pipe-close", c, 0))
      /\ running' = running /\ toGuest' = toGuest
  BY CloseMeans
<1>1. \A q \in Procs, x \in Conns : q # p \/ x # c => QuietW(x, q)
  <2>1. PICK m : m = Msg("pipe-close", c, 0)
    OBVIOUS
  <2>2. m \in Relayed \union {Exit} /\ Post(p, m) /\ \A x \in Conns : x # c => Foreign(m, x)
    BY <1>0, <2>1, Kinds, Mail DEF Foreign
  <2>. QED
    BY <2>2, PostQuiet
<1>2. \A q \in Procs, x \in Conns : QuietR(x, q)
  BY <1>0 DEF QuietR
<1>3. CASE d # c
  <2>1. \A x \in Ends : end'[d][x] = end[d][x]
    BY <1>0, <1>3 DEF Rest
  <2>. QED
    BY <1>0, <1>1, <1>2, <1>3, <2>1, Elsewhere
<1>4. CASE d = c /\ f = e
  <2>1. \A q \in Procs : q # p => toGuest'[q] = toGuest[q]
    BY <1>0
  <2>2. Flow(c, e) /\ Arrives(c, e) /\ end[c][e].writer # "cut"
    BY <1>0, <1>4, Zenon DEF CutOff
  <2>3. Flow(c, e)' /\ Arrives(c, e)'
    BY <1>0, <2>1, <2>2, FlowEnded, Zenon
  <2>. QED
    BY <1>4, <2>3
<1>5. CASE d = c /\ f = Other(e)
  <2>1. Other(Other(e)) = e /\ Other(e) \in Ends /\ end'[c][Other(e)] = end[c][Other(e)]
    BY <1>0, Sides DEF Rest
  <2>2. ~Offered(p, c)
    <3> SUFFICES ASSUME NEW i \in DOMAIN toGuest[p], Opens(p, i, c) PROVE FALSE
      BY DEF Offered
    <3>1. end[c]["server"].owner = p /\ end[c]["server"].st = "none"
      BY DEF Handshakes
    <3>2. e = "server"
      BY <1>0, <3>1, BothOwners, Zenon DEF Ends
    <3>. QED
      BY <1>0, <3>1, <3>2
  <2>3. ~Expects(c, e)'
    BY <1>0, <2>2, Zenon DEF Expects, Offered, Opens
  <2>4. Flow(c, Other(e))'
    BY <2>1, <2>3 DEF Flow
  <2>5. WriterOf(c, Other(e))' = WriterOf(c, Other(e))
    BY <1>0, <2>1 DEF WriterOf
  <2>6. Arrives(c, Other(e))'
    BY <1>0, <1>5, <2>1, <2>5, ArrivesKept, Zenon
  <2>. QED
    BY <1>5, <2>4, <2>6
<1>. QED
  BY <1>3, <1>4, <1>5, Sides

LEMMA DeliverFlow ==
  ASSUME TypeOK, Pairs, NEW p \in Procs, NEW c \in Conns, NEW e \in Ends, Deliver(p, c, e),
         NEW d \in Conns, NEW f \in Ends, Flow(d, f), Arrives(d, f)
  PROVE  Flow(d, f)' /\ Arrives(d, f)'
<1>0. /\ end[c][e].reader = "reading" /\ end[c][e].inbox # <<>>
      /\ Rest(c, e) /\ end'[c][e].owner = end[c][e].owner
      /\ end'[c][e].inbox = Tail(end[c][e].inbox) /\ end'[c][e].mapped = end[c][e].mapped
      /\ SameWriter(c, e)
      /\ \/ /\ Head(end[c][e].inbox) = EOF
            /\ end'[c][e].reader = "eof" /\ end'[c][e].got = end[c][e].got
         \/ /\ Head(end[c][e].inbox) # EOF
            /\ end'[c][e].reader = "reading" /\ end'[c][e].got = Head(end[c][e].inbox)
      /\ toGuest' = toGuest /\ toKernel' = toKernel /\ running' = running
  BY DeliverMeans
<1>1. \A q \in Procs, x \in Conns : QuietR(x, q) /\ QuietW(x, q)
  BY <1>0 DEF QuietR, QuietW
<1>2. CASE d # c
  <2>1. \A x \in Ends : end'[d][x] = end[d][x]
    BY <1>0, <1>2 DEF Rest
  <2>. QED
    BY <1>0, <1>1, <2>1, Elsewhere, Zenon
<1>3. CASE d = c /\ f = e
  BY <1>0, <1>1, <1>3, Forwards, Zenon
<1>4. CASE d = c /\ f = Other(e)
  <2>1. Other(Other(e)) = e /\ Other(e) \in Ends /\ end'[c][Other(e)] = end[c][Other(e)]
    BY <1>0, Sides, Zenon DEF Rest
  <2>2. PICK q, g, s, wr : /\ q = end[c][e].inbox /\ g = end[c][e].got
                           /\ s = end[c][Other(e)].sent /\ wr = WriterOf(c, Other(e))
    OBVIOUS
  <2>3. q \in Seq(Nat) /\ g \in Nat /\ s \in Nat /\ q # <<>>
    BY <1>0, <2>1, <2>2, Fields, Zenon
  <2>4. g <= s /\ InOrder(q, g, s, wr)
    BY <1>0, <1>4, <2>1, <2>2, Zenon DEF Arrives
  <2>5. WriterOf(c, Other(e))' = wr /\ end'[c][Other(e)].sent = s
    BY <1>0, <2>1, <2>2, Zenon DEF WriterOf
  <2>6. CASE Head(q) = EOF
    <3>1. end'[c][e].reader = "eof" /\ end'[c][e].got = g
      BY <1>0, <2>2, <2>6, Zenon
    <3>2. Arrives(c, Other(e))'
      BY <2>1, <2>4, <2>5, <3>1 DEF Arrives
    <3>3. Flow(c, Other(e))'
      BY <2>1, <3>1, Zenon DEF Flow, Expects
    <3>. QED
      BY <1>4, <3>2, <3>3
  <2>7. CASE Head(q) # EOF
    <3>1. /\ end'[c][e].reader = "reading" /\ end'[c][e].got = Head(q)
          /\ end'[c][e].inbox = Tail(q)
      BY <1>0, <2>2, <2>7, Zenon
    <3>2. Head(q) = g + 1 /\ g + 1 <= s /\ InOrder(Tail(q), g + 1, s, wr)
      BY <2>3, <2>4, <2>7, OrderRead
    <3>3. Arrives(c, Other(e))'
      BY <2>1, <2>5, <3>1, <3>2 DEF Arrives
    <3>4. (g + 1) + Len(Tail(q)) = g + Len(q)
      <4>1. Len(q) \in Nat /\ Len(Tail(q)) = Len(q) - 1
        BY <2>3
      <4>2. \A n, x \in Nat : (n + 1) + (x - 1) = n + x
        OBVIOUS
      <4>. QED
        BY <2>3, <4>1, <4>2, Zenon
    <3>5. Expects(c, e)' => Expects(c, e)
      <4>1. (\A i \in DOMAIN Tail(q) : Tail(q)[i] # EOF) => \A i \in DOMAIN q : q[i] # EOF
        <5> SUFFICES ASSUME \A i \in DOMAIN Tail(q) : Tail(q)[i] # EOF, NEW i \in DOMAIN q
                     PROVE  q[i] # EOF
          OBVIOUS
        <5>1. CASE i = 1
          BY <2>3, <2>7, <5>1
        <5>2. CASE i # 1
          <6>1. i - 1 \in DOMAIN Tail(q) /\ Tail(q)[i - 1] = q[i]
            BY <2>3, <5>2
          <6>. QED
            BY <6>1
        <5>. QED
          BY <5>1, <5>2
      <4>. QED
        BY <1>0, <2>2, <3>1, <4>1, Zenon DEF Expects, Offered, Opens
    <3>6. Expects(c, e) => Road(c, s, wr, g + Len(q), toGuest[end[c][e].owner], toKernel[end[c][Other(e)].owner])
      BY <1>4, <2>1, <2>2, Zenon DEF Flow
    <3>7. Expects(c, e)' => Road(c, s, wr, (g + 1) + Len(Tail(q)), toGuest[end[c][e].owner],
                                 toKernel[end[c][Other(e)].owner])
      BY <3>4, <3>5, <3>6, Zenon
    <3>8. Flow(c, Other(e))'
      BY <1>0, <2>1, <2>5, <3>1, <3>2, <3>7, Zenon DEF Flow
    <3>. QED
      BY <1>4, <3>3, <3>8
  <2>. QED
    BY <2>6, <2>7
<1>. QED
  BY <1>2, <1>3, <1>4, Sides

(* Steps that touch neither the ends nor the queues.                        *)
LEMMA StillFlow ==
  ASSUME TypeOK, Pairs, NEW d \in Conns, NEW f \in Ends, Flow(d, f), Arrives(d, f),
         \A c \in Conns, e \in Ends :
           SameReader(c, e) /\ SameWriter(c, e) /\ end'[c][e].owner = end[c][e].owner,
         running' = running, toGuest' = toGuest, toKernel' = toKernel
  PROVE  Flow(d, f)' /\ Arrives(d, f)'
<1>1. \A q \in Procs, x \in Conns : QuietR(x, q) /\ QuietW(x, q)
  BY DEF QuietR, QuietW
<1>2. Other(f) \in Ends
  BY Sides
<1>3. WriterOf(d, f)' = WriterOf(d, f)
  BY DEF WriterOf, SameWriter
<1>4. WriterKept(d, f)
  BY <1>3 DEF WriterKept, SameWriter
<1>5. Expects(d, Other(f))' => Expects(d, Other(f))
  BY <1>1, <1>2, ExpectsKept DEF SameReader
<1>6. ReaderKept(d, Other(f))
  BY <1>2, <1>5 DEF ReaderKept, SameReader
<1>7. Flow(d, f)'
  BY <1>1, <1>4, <1>6, FlowKept
<1>8. Arrives(d, f)'
  BY <1>2, <1>3, ArrivesKept, Zenon DEF SameReader, SameWriter
<1>. QED
  BY <1>7, <1>8

(* The message a guest takes in is about the direction it reads.            *)
LEMMA DispatchFlow ==
  ASSUME TypeOK, Pairs, Addressed, CutOff, OpenFirst, NEW p \in Procs, Dispatch(p),
         NEW d \in Conns, NEW f \in Ends, \A x \in Conns, y \in Ends : Flow(x, y) /\ Arrives(x, y)
  PROVE  Flow(d, f)' /\ Arrives(d, f)'
<1>1. PICK m, c, e : m = Head(toGuest[p]) /\ c = m.conn /\ e = EndOf(p, m.conn)
  BY Zenon
<1>2. /\ toGuest[p] # <<>> /\ m \in Opening \union Relayed /\ c \in Conns /\ e \in Ends
      /\ p \in running /\ end[c][e].owner = p /\ running' = running
      /\ toGuest' = [toGuest EXCEPT ![p] = Tail(@)]
      /\ Rest(c, e) /\ end'[c][e].owner = p
      /\ end'[c][e].sent = end[c][e].sent
      /\ end'[c][e].got = end[c][e].got /\ end'[c][e].reader = end[c][e].reader
  BY <1>1, DispatchMeans
<1>3. Accepts(m, c, e) \/ Refuses(p, m, c, e) \/ Drops(m, c, e) \/ Keeps(m, c, e)
  BY <1>1, DispatchMeans
<1>4. /\ toGuest'[p] = Tail(toGuest[p])
      /\ \A q \in Procs : q # p => toGuest'[q] = toGuest[q]
  <2>1. toGuest \in [Procs -> Seq(Opening \union Relayed)]
    BY DEF TypeOK
  <2>. QED
    BY <1>2, <2>1
<1>5. \A q \in Procs, x \in Conns : q # p \/ x # c \/ m.type = "pipe-open" => QuietR(x, q)
  BY <1>1, <1>2, <1>4, Zenon DEF QuietR, Foreign, DataOf, FinOf
<1>6. \A q \in Procs, x \in Conns : q # p \/ x # c => QuietW(x, q)
  <2>1. CASE toKernel' = toKernel
    BY <2>1 DEF QuietW
  <2>2. CASE Refuses(p, m, c, e)
    <3>1. PICK n : n = Msg("pipe-close", c, 0)
      OBVIOUS
    <3>2. n \in Relayed \union {Exit} /\ Post(p, n) /\ \A x \in Conns : x # c => Foreign(n, x)
      BY <1>2, <2>2, <3>1, Kinds, Mail DEF Foreign, Refuses
    <3>. QED
      BY <3>2, PostQuiet
  <2>. QED
    BY <1>3, <2>1, <2>2, Zenon DEF Accepts, Drops, Keeps
<1>7. end[c][Other(e)].owner \in Procs /\ end[c][Other(e)].owner # p
  BY <1>2, BothOwners
<1>8. Other(Other(e)) = e /\ Other(e) \in Ends /\ end'[c][Other(e)] = end[c][Other(e)]
  BY <1>2, Sides DEF Rest
<1>9. CASE d # c
  <2>1. \A x \in Ends : end'[d][x] = end[d][x]
    BY <1>2, <1>9 DEF Rest
  <2>. QED
    BY <1>2, <1>5, <1>6, <1>9, <2>1, Elsewhere, Zenon
<1>10. CASE d = c /\ f = e
  <2>1. \A q \in Procs : q = end[c][Other(e)].owner => QuietR(c, q)
    BY <1>2, <1>5, <1>7, Zenon
  <2>2. CASE ~Refuses(p, m, c, e)
    <3>1. SameWriter(c, e) /\ toKernel' = toKernel
      BY <1>2, <1>3, <2>2, Zenon DEF Accepts, Drops, Keeps, SameWriter
    <3>2. \A q \in Procs : QuietW(c, q)
      BY <3>1 DEF QuietW
    <3>3. Flow(c, e)' /\ Arrives(c, e)'
      BY <1>2, <2>1, <3>1, <3>2, Forwards, Zenon
    <3>. QED
      BY <1>10, <3>3
  <2>3. CASE Refuses(p, m, c, e)
    <3>1. end'[c][e].writer = "ended" /\ Post(p, Msg("pipe-close", c, 0)) /\ end[c][e].writer # "cut"
      BY <1>2, <2>3, Zenon DEF Refuses, CutOff
    <3>2. Flow(c, e)' /\ Arrives(c, e)'
      BY <1>2, <1>4, <3>1, FlowEnded, Zenon
    <3>. QED
      BY <1>10, <3>2
  <2>. QED
    BY <2>2, <2>3
<1>11. CASE d = c /\ f = Other(e)
  <2>1. \A q \in Procs : q = end[c][Other(e)].owner => QuietW(c, q)
    BY <1>2, <1>6, <1>7, Zenon
  <2>2. WriterOf(c, Other(e))' = WriterOf(c, Other(e))
    BY <1>2, <1>8 DEF WriterOf
  <2>3. Flow(c, Other(e)) /\ Arrives(c, Other(e))
    BY <1>2, <1>8, Zenon
  <2>4. CASE Accepts(m, c, e)
    <3>1. Offered(p, c)
      <4>1. 1 \in DOMAIN toGuest[p] /\ toGuest[p][1] = m
        <5>1. toGuest[p] \in Seq(Opening \union Relayed)
          BY DEF TypeOK
        <5>. QED
          BY <1>1, <1>2, <5>1, Queues, Zenon
      <4>. QED
        BY <1>1, <2>4, <4>1, Zenon DEF Offered, Opens, Accepts
    <3>2. Expects(c, e)' => Expects(c, e)
      BY <1>2, <2>4, <3>1, Zenon DEF Expects, Accepts
    <3>3. ReaderKept(c, e) /\ WriterKept(c, Other(e))
      BY <1>2, <1>8, <2>2, <2>4, <3>2, Zenon DEF ReaderKept, WriterKept, Accepts
    <3>4. \A q \in Procs : QuietR(c, q)
      BY <1>2, <1>5, <2>4 DEF Accepts
    <3>5. Flow(c, Other(e))'
      BY <1>2, <1>8, <2>1, <2>3, <3>3, <3>4, FlowKept, Zenon
    <3>6. Arrives(c, Other(e))'
      BY <1>2, <1>8, <2>2, <2>3, <2>4, ArrivesKept, Zenon DEF Accepts
    <3>. QED
      BY <1>11, <3>5, <3>6
  <2>5. CASE Refuses(p, m, c, e)
    <3>1. SameReader(c, e) /\ \A q \in Procs : QuietR(c, q)
      BY <1>2, <1>5, <2>5 DEF Refuses
    <3>2. Flow(c, Other(e))' /\ Arrives(c, Other(e))'
      BY <1>2, <2>1, <2>3, <3>1, Backwards, Zenon
    <3>. QED
      BY <1>11, <3>2
  <2>6. CASE Drops(m, c, e)
    <3>1. ~Offered(p, c)'
      <4> SUFFICES ASSUME NEW i \in DOMAIN toGuest'[p],
                          toGuest'[p][i].type = "pipe-open", toGuest'[p][i].conn = c
                   PROVE  FALSE
        BY Zenon DEF Offered, Opens
      <4>1. /\ i + 1 \in DOMAIN toGuest[p] /\ toGuest'[p][i] = toGuest[p][i + 1] /\ i \in Nat \ {0}
            /\ 1 \in DOMAIN toGuest[p] /\ toGuest[p][1] = m
        <5>1. toGuest \in [Procs -> Seq(Opening \union Relayed)]
          BY Zenon DEF TypeOK
        <5>2. toGuest[p] # <<>> /\ toGuest' = [toGuest EXCEPT ![p] = Tail(@)] /\ m = Head(toGuest[p])
          BY <1>1, <1>2, Zenon
        <5>. QED
          BY <5>1, <5>2, Taken
      <4>2. i + 1 <= 1
        <5>1. toGuest[p][i + 1].type = "pipe-open" /\ toGuest[p][i + 1].conn = c /\ toGuest[p][1].conn = c
          BY <1>1, <4>1
        <5>. QED
          BY <1>2, <4>1, <5>1, Zenon DEF OpenFirst, Opens
      <4>. QED
        BY <4>1, <4>2
    <3>2. ~Expects(c, e)'
      BY <1>2, <2>6, <3>1, Zenon DEF Expects, Drops, SameReader
    <3>3. Flow(c, Other(e))'
      BY <1>8, <3>2 DEF Flow
    <3>4. Arrives(c, Other(e))'
      BY <1>2, <1>8, <2>2, <2>3, <2>6, ArrivesKept, Zenon DEF Drops, SameReader
    <3>. QED
      BY <1>11, <3>3, <3>4
  <2>7. CASE Keeps(m, c, e)
    <3>1. PICK q, g, s, wr, x, qr, qw :
            /\ q = end[c][e].inbox /\ g = end[c][e].got
            /\ s = end[c][Other(e)].sent /\ wr = WriterOf(c, Other(e))
            /\ x = (IF m.type = "pipe-data" THEN m.n ELSE EOF)
            /\ qr = toGuest[p] /\ qw = toKernel[end[c][Other(e)].owner]
      OBVIOUS
    <3>2. /\ q \in Seq(Nat) /\ g \in Nat /\ s \in Nat /\ Len(q) \in Nat /\ g + Len(q) \in Nat
          /\ qr \in Seq(Opening \union Relayed)
      <4>1. /\ end[c][e].inbox \in Seq(Nat) /\ end[c][e].got \in Nat
            /\ Len(end[c][e].inbox) \in Nat /\ end[c][Other(e)].sent \in Nat
        BY <1>2, <1>8, Fields, Zenon
      <4>2. q \in Seq(Nat) /\ g \in Nat /\ s \in Nat /\ Len(q) \in Nat
        BY <3>1, <4>1
      <4>3. qr \in Seq(Opening \union Relayed)
        BY <3>1 DEF TypeOK
      <4>. QED
        BY <4>2, <4>3
    <3>3. /\ end'[c][e].inbox = Append(q, x) /\ toKernel' = toKernel
          /\ m \in Relayed /\ x \in Nat
      <4>1. m \in Relayed
        BY <1>2, <2>7, Kinds, Zenon DEF Keeps
      <4>. QED
        BY <2>7, <3>1, <4>1, Kinds, Zenon DEF Keeps, EOF
    <3>4. DataOf(m, c) \/ FinOf(m, c)
      BY <1>1, <3>3, Zenon DEF DataOf, FinOf, Relayed
    <3>5. /\ g <= s
          /\ end[c][e].reader = "reading" => InOrder(q, g, s, wr)
      BY <1>8, <2>3, <3>1, Zenon DEF Arrives
    <3>6. Expects(c, e) => Road(c, s, wr, g + Len(q), qr, qw)
      BY <1>2, <1>8, <2>3, <3>1, Zenon DEF Flow
    <3>7. Expects(c, e) =>
            /\ DataOf(m, c) => /\ m.n = g + Len(q) + 1 /\ g + Len(q) + 1 <= s
                               /\ Road(c, s, wr, g + Len(q) + 1, Tail(qr), qw)
            /\ FinOf(m, c) => wr = "cut" \/ (wr = "ended" /\ g + Len(q) = s)
      <4>1. qr # <<>> /\ m = Head(qr)
        BY <1>1, <1>2, <3>1, Zenon
      <4>2. PICK h : h = g + Len(q)
        OBVIOUS
      <4>3. h \in Nat /\ (Expects(c, e) => Road(c, s, wr, h, qr, qw))
        BY <3>2, <3>6, <4>2
      <4>4. Expects(c, e) /\ DataOf(m, c) =>
              m.n = h + 1 /\ h + 1 <= s /\ Road(c, s, wr, h + 1, Tail(qr), qw)
        <5>1. Numbered(Opening \union Relayed)
          BY Mail
        <5>. QED
          BY <3>2, <4>1, <4>3, <5>1, RoadTaken
      <4>5. Expects(c, e) /\ FinOf(m, c) => wr = "cut" \/ (wr = "ended" /\ h = s)
        BY <3>2, <4>1, <4>3, RoadTaken, Mail, Zenon
      <4>. QED
        BY <4>2, <4>4, <4>5, Zenon
    <3>8. end[c][e].reader = "reading" /\ (\A i \in DOMAIN q : q[i] # EOF) => Expects(c, e)
      BY <1>2, <2>7, <3>1, Zenon DEF Expects, Keeps
    <3>9. DataOf(m, c) => x = m.n
      BY <3>1 DEF DataOf
    <3>10. FinOf(m, c) => x = EOF
      BY <3>1 DEF FinOf
    <3>11. Arrives(c, Other(e))'
      <4>1. CASE end[c][e].reader = "reading"
        <5>1. \/ \E i \in DOMAIN q : q[i] = EOF
              \/ x # EOF /\ x = g + Len(q) + 1 /\ x <= s
              \/ x = EOF /\ (wr = "cut" \/ (wr = "ended" /\ s = g + Len(q)))
          <6>1. CASE Expects(c, e)
            <7>1. g + Len(q) + 1 # EOF
              BY <3>2 DEF EOF
            <7>. QED
              BY <3>4, <3>7, <3>9, <3>10, <6>1, <7>1
          <6>. QED
            BY <3>8, <4>1, <6>1
        <5>2. InOrder(Append(q, x), g, s, wr)
          BY <3>2, <3>3, <3>5, <4>1, <5>1, OrderTold
        <5>. QED
          BY <1>2, <1>8, <2>2, <3>1, <3>3, <3>5, <5>2, Zenon DEF Arrives
      <4>2. CASE end[c][e].reader # "reading"
        BY <1>2, <1>8, <2>2, <3>1, <3>5, <4>2, Zenon DEF Arrives
      <4>. QED
        BY <4>1, <4>2
    <3>12. Flow(c, Other(e))'
      <4>1. SUFFICES ASSUME Expects(c, e)'
                     PROVE  Road(c, s, wr, g + Len(Append(q, x)), Tail(qr), qw)
        BY <1>2, <1>4, <1>8, <2>2, <3>1, <3>3 DEF Flow
      <4>2. /\ DOMAIN Append(q, x) = 1..(Len(q) + 1) /\ DOMAIN q = 1..Len(q)
            /\ \A i \in DOMAIN q : Append(q, x)[i] = q[i]
            /\ Append(q, x)[Len(q) + 1] = x /\ Len(Append(q, x)) = Len(q) + 1
        BY <3>2, <3>3
      <4>3. end[c][e].reader = "reading" /\ \A i \in DOMAIN Append(q, x) : Append(q, x)[i] # EOF
        BY <1>2, <3>3, <4>1, Zenon DEF Expects
      <4>4. x # EOF /\ \A i \in DOMAIN q : q[i] # EOF
        BY <3>2, <4>2, <4>3
      <4>5. Expects(c, e) /\ DataOf(m, c)
        BY <3>4, <3>8, <3>10, <4>3, <4>4
      <4>6. Road(c, s, wr, g + Len(q) + 1, Tail(qr), qw) /\ g + Len(Append(q, x)) = g + Len(q) + 1
        BY <3>2, <3>7, <4>2, <4>5
      <4>. QED
        BY <4>6, Zenon
    <3>. QED
      BY <1>11, <3>11, <3>12
  <2>. QED
    BY <1>3, <2>4, <2>5, <2>6, <2>7
<1>. QED
  BY <1>2, <1>9, <1>10, <1>11, Sides

LEMMA DialFlow ==
  ASSUME TypeOK, Alive, LeadsHome, Pairs, Addressed, NEW p \in Procs, NEW k \in Keys, Dial(p, k),
         NEW d \in Conns, NEW f \in Ends, Flow(d, f), Arrives(d, f)
  PROVE  Flow(d, f)' /\ Arrives(d, f)'
<1>1. PICK c \in Conns, s \in Procs :
        /\ c = nextPipeConnId /\ p # s
        /\ end[c]["client"] = NoEnd /\ end[c]["server"] = NoEnd
        /\ \A x \in Conns : x # c => end'[x] = end[x]
        /\ end'[c]["client"].owner = p /\ end'[c]["server"].owner = s
        /\ \A e \in Ends : /\ SameWriter(c, e)
                           /\ end'[c][e].got = 0 /\ end'[c][e].reader = "reading"
                           /\ end'[c][e].inbox = <<>>
        /\ toGuest' = [toGuest EXCEPT ![s] = Append(@, Msg("pipe-open", c, k))]
        /\ toKernel' = toKernel /\ running' = running
  BY DialMeans
<1>2. PICK m : m = Msg("pipe-open", c, k)
  OBVIOUS
<1>3. m \in Opening \union Relayed /\ m.conn = c /\ Foreign(m, c)
  BY <1>2, Kinds, Mail DEF Foreign
<1>4. \A q \in Procs : toGuest'[q] = toGuest[q] \/ toGuest'[q] = Append(toGuest[q], m)
  BY <1>1, <1>2, Zenon DEF TypeOK
<1>5. CASE d # c
  <2>1. \A q \in Procs : QuietR(d, q) /\ QuietW(d, q)
    BY <1>1, <1>3, <1>4, <1>5, Zenon DEF QuietR, QuietW
  <2>2. \A x \in Ends : end'[d][x] = end[d][x]
    BY <1>1, <1>5
  <2>. QED
    BY <1>1, <2>1, <2>2, Elsewhere
<1>6. CASE d = c
  <2>1. Other(f) \in Ends
    BY Sides
  <2>2. /\ end'[d][f].sent = 0 /\ end'[d][Other(f)].got = 0
        /\ end'[d][Other(f)].reader = "reading" /\ end'[d][Other(f)].inbox = <<>>
    BY <1>1, <1>6, <2>1 DEF SameWriter, NoEnd, Ends
  <2>3. Arrives(d, f)'
    <3>1. \A wr : InOrder(<<>>, 0, 0, wr)
      BY OrderNone
    <3>. QED
      BY <2>2, <3>1 DEF Arrives
  <2>4. \A q \in Procs : \A i \in DOMAIN toGuest[q] : Foreign(toGuest[q][i], d)
    <3>1. \A q \in Procs : \A i \in DOMAIN toGuest[q] : toGuest[q][i].conn < d
      BY <1>1, <1>6, Zenon DEF Addressed, PartyOf
    <3>. QED
      BY <3>1, Numbers DEF Foreign, DataOf, FinOf
  <2>5. \A q \in Procs : \A i \in DOMAIN toKernel[q] : Foreign(toKernel[q][i], d)
    <3>1. \A q \in Procs : \A i \in DOMAIN toKernel[q] :
            toKernel[q][i].type # "exit" => toKernel[q][i].conn < d
      BY <1>1, <1>6, Zenon DEF Addressed, PartyOf
    <3>. QED
      BY <3>1, Numbers DEF Foreign, DataOf, FinOf
  <2>6. \A q \in Procs : \A i \in DOMAIN toGuest'[q] : Foreign(toGuest'[q][i], d)
    <3> TAKE q \in Procs
    <3>1. PICK old, new : old = toGuest[q] /\ new = toGuest'[q]
      OBVIOUS
    <3>2. old \in Seq(Opening \union Relayed) /\ (new = old \/ new = Append(old, m))
      BY <1>4, <3>1, Zenon DEF TypeOK
    <3>3. \A i \in DOMAIN old : Foreign(old[i], d)
      BY <2>4, <3>1
    <3>4. \A i \in DOMAIN new : Foreign(new[i], d)
      <4>1. CASE new = old
        BY <3>3, <4>1
      <4>2. CASE new = Append(old, m)
        <5>1. \A i \in DOMAIN new : (i \in DOMAIN old /\ new[i] = old[i]) \/ new[i] = m
          BY <1>3, <3>2, <4>2
        <5>. QED
          BY <1>3, <1>6, <3>3, <5>1
      <4>. QED
        BY <3>2, <4>1, <4>2
    <3>. QED
      BY <3>1, <3>4
  <2>7. \A e \in Ends : end'[d][e].owner \in Procs
    BY <1>1, <1>6 DEF Ends
  <2>8. PICK qr, qw, wr : /\ qr = toGuest'[end'[d][Other(f)].owner]
                          /\ qw = toKernel'[end'[d][f].owner] /\ wr = WriterOf(d, f)'
    OBVIOUS
  <2>9. (\A i \in DOMAIN qr : Foreign(qr[i], d)) /\ (\A i \in DOMAIN qw : Foreign(qw[i], d))
    BY <1>1, <2>1, <2>5, <2>6, <2>7, <2>8, Zenon
  <2>10. Road(d, 0, wr, 0, qr, qw)
    BY <2>9, RoadNew
  <2>11. Flow(d, f)'
    <3>1. 0 + Len(<<>>) = 0
      OBVIOUS
    <3>. QED
      BY <2>2, <2>8, <2>10, <3>1, Zenon DEF Flow
  <2>. QED
    BY <2>3, <2>11
<1>. QED
  BY <1>5, <1>6

(* The end of a process that stops by itself is the end of what it wrote.   *)
LEMMA ExitFlow ==
  ASSUME TypeOK, Pairs, NEW p \in Procs, ExitGuest(p),
         NEW d \in Conns, NEW f \in Ends, Flow(d, f), Arrives(d, f)
  PROVE  Flow(d, f)' /\ Arrives(d, f)'
<1>1. /\ p \in running /\ running' = running \ {p}
      /\ \A c \in Conns, e \in Ends : Stopped(p, c, e) /\ end'[c][e].writer = end[c][e].writer
      /\ Post(p, Exit) /\ toGuest' = toGuest
  BY ExitMeans
<1>2. Other(f) \in Ends
  BY Sides
<1>3. \A q \in Procs, x \in Conns : QuietR(x, q) /\ QuietW(x, q)
  <2>1. \A x \in Conns : Foreign(Exit, x)
    BY Mail DEF Foreign
  <2>. QED
    BY <1>1, <2>1, PostQuiet DEF QuietR
<1>4. \/ WriterOf(d, f)' = WriterOf(d, f)
      \/ WriterOf(d, f) # "cut" /\ WriterOf(d, f)' = "ended"
  <2>1. end'[d][f].owner = end[d][f].owner /\ end'[d][f].writer = end[d][f].writer
    BY <1>1, Zenon DEF Stopped
  <2>. QED
    BY <1>1, <2>1, Zenon DEF WriterOf
<1>5. WriterKept(d, f)
  BY <1>1, <1>4, Zenon DEF WriterKept, Stopped
<1>6. Flow(d, f)'
  <2>1. CASE end[d][Other(f)].owner = p
    <3>1. ~Expects(d, Other(f))'
      BY <1>1, <1>2, <2>1, Zenon DEF Expects, Stopped
    <3>. QED
      BY <3>1 DEF Flow
  <2>2. CASE end[d][Other(f)].owner # p
    <3>1. end'[d][Other(f)] = end[d][Other(f)]
      BY <1>1, <1>2, <2>2, Zenon DEF Stopped
    <3>2. Expects(d, Other(f))' => Expects(d, Other(f))
      BY <1>1, <1>2, <1>3, <3>1, ExpectsKept, Zenon
    <3>3. ReaderKept(d, Other(f))
      BY <3>1, <3>2 DEF ReaderKept
    <3>. QED
      BY <1>3, <1>5, <3>3, FlowKept
  <2>. QED
    BY <2>1, <2>2
<1>7. Arrives(d, f)'
  <2>1. /\ end'[d][f].sent = end[d][f].sent
        /\ end'[d][Other(f)].got = end[d][Other(f)].got
        /\ end'[d][Other(f)].reader = end[d][Other(f)].reader
        /\ end'[d][Other(f)].inbox \in {end[d][Other(f)].inbox, <<>>}
    BY <1>1, <1>2, Zenon DEF Stopped
  <2>. QED
    BY <1>4, <2>1, ArrivesKept, Zenon
<1>. QED
  BY <1>6, <1>7


(* What the kernel forwards takes the same place on the road; it drops only *)
(* what comes behind an end that the reader is still to hear.               *)
LEMMA RelayFlow ==
  ASSUME TypeOK, Alive, Pairs, Records, Addressed, Handshakes, PeerOrFarewell, CutOff,
         NEW p \in Procs, Relay(p),
         NEW d \in Conns, NEW f \in Ends, Flow(d, f), Arrives(d, f)
  PROVE  Flow(d, f)' /\ Arrives(d, f)'
<1>1. PICK m, c : m = Head(toKernel[p]) /\ c = m.conn
  OBVIOUS
<1>2. /\ toKernel[p] # <<>> /\ m \in Relayed /\ PartyOf(p, c)
      /\ toKernel' = [toKernel EXCEPT ![p] = Tail(@)] /\ end' = end
      /\ \/ c \notin DOMAIN pipeConns /\ toGuest' = toGuest
         \/ \E other \in procs :
              /\ c \in DOMAIN pipeConns /\ other # p
              /\ {p, other} = {pipeConns[c].client, pipeConns[c].server}
              /\ toGuest' = [toGuest EXCEPT ![other] = Append(@, m)]
  BY <1>1, RelayEffect, Zenon
<1>3. running' = running
  BY DEF Relay, guestVars
<1>4. PICK e \in Ends : end[c][e].owner = p
  BY <1>2 DEF PartyOf
<1>5. c \in Conns /\ m.type # "pipe-open" /\ ~Foreign(m, c) /\ (DataOf(m, c) \/ FinOf(m, c))
  BY <1>1, <1>2, Zenon DEF Relayed, Foreign, DataOf, FinOf
<1>6. PICK r : r = end[c][Other(e)].owner
  OBVIOUS
<1>7. r \in Procs /\ r # p /\ Other(e) \in Ends /\ Other(Other(e)) = e
  BY <1>4, <1>5, <1>6, BothOwners, Sides
<1>8. toKernel'[p] = Tail(toKernel[p]) /\ \A q \in Procs : q # p => toKernel'[q] = toKernel[q]
  BY <1>2 DEF TypeOK
<1>9. \/ c \notin DOMAIN pipeConns /\ toGuest' = toGuest
      \/ toGuest'[r] = Append(toGuest[r], m) /\ \A q \in Procs : q # r => toGuest'[q] = toGuest[q]
  <2>1. ASSUME NEW other \in procs, c \in DOMAIN pipeConns, other # p,
               {p, other} = {pipeConns[c].client, pipeConns[c].server}
        PROVE  other = r
    <3>1. {pipeConns[c].client, pipeConns[c].server} = {p, r}
      BY <1>4, <1>6, <2>1, Sides DEF Records, Ends, Other
    <3>. QED
      BY <2>1, <3>1
  <2>. QED
    BY <1>2, <1>7, <2>1, Zenon DEF TypeOK
<1>10. CASE d # c
  <2>1. Foreign(m, d)
    BY <1>1, <1>10 DEF Foreign, DataOf, FinOf
  <2>2. \A q \in Procs : QuietW(d, q)
    BY <1>1, <1>2, <1>8, <2>1, Zenon DEF QuietW
  <2>3. \A q \in Procs : QuietR(d, q)
    BY <1>1, <1>2, <1>9, <1>10, Zenon DEF QuietR
  <2>4. \A x \in Ends : end'[d][x] = end[d][x]
    BY <1>2
  <2>. QED
    BY <1>3, <2>2, <2>3, <2>4, Elsewhere
<1>11. CASE d = c /\ f = Other(e)
  <2>1. Rest(c, e) /\ SameReader(c, e) /\ end'[c][e].owner = end[c][e].owner
    BY <1>2 DEF Rest, SameReader
  <2>2. \A q \in Procs : q = end[c][e].owner => QuietR(c, q)
    BY <1>4, <1>7, <1>9 DEF QuietR
  <2>3. \A q \in Procs : q = end[c][Other(e)].owner => QuietW(c, q)
    BY <1>6, <1>7, <1>8, Zenon DEF QuietW
  <2>4. Flow(c, Other(e))' /\ Arrives(c, Other(e))'
    BY <1>3, <1>5, <1>11, <2>1, <2>2, <2>3, Backwards, Zenon
  <2>. QED
    BY <1>11, <2>4
<1>12. CASE d = c /\ f = e
  <2>1. WriterOf(c, e)' = WriterOf(c, e)
    BY <1>2, <1>3 DEF WriterOf
  <2>2. Arrives(c, e)'
    BY <1>2, <1>12, <2>1, Zenon DEF Arrives
  <2>3. PICK s, h, wr, qr, qw, new :
          /\ s = end[c][e].sent /\ wr = WriterOf(c, e)
          /\ h = end[c][Other(e)].got + Len(end[c][Other(e)].inbox)
          /\ qr = toGuest[r] /\ qw = toKernel[p] /\ new = toGuest'[r]
    OBVIOUS
  <2>4. s \in Nat /\ h \in Nat
    <3>1. /\ end[c][e].sent \in Nat /\ end[c][Other(e)].got \in Nat
          /\ Len(end[c][Other(e)].inbox) \in Nat
      BY <1>5, <1>7, Fields
    <3>. QED
      <4>1. end[c][Other(e)].got + Len(end[c][Other(e)].inbox) \in Nat
        BY <3>1
      <4>. QED
        BY <2>3, <3>1, <4>1, Zenon
  <2>5. qr \in Seq(Opening \union Relayed) /\ qw \in Seq(Relayed \union {Exit})
    BY <1>7, <2>3, Zenon DEF TypeOK
  <2>6. qw # <<>> /\ Head(qw) = m /\ m \in Opening \union Relayed
    BY <1>1, <1>2, <2>3, Zenon
  <2>7. wr # "cut"
    BY <1>2, <1>4, <1>5, <2>3, Zenon DEF WriterOf, CutOff
  <2>8. SUFFICES ASSUME Expects(c, Other(e))'
                 PROVE  Road(c, s, wr, h, new, Tail(qw))
    <3>1. /\ end'[c][e].sent = s /\ end'[c][e].owner = p /\ end'[c][Other(e)].owner = r
          /\ end'[c][Other(e)].got + Len(end'[c][Other(e)].inbox) = h
          /\ toKernel'[p] = Tail(qw)
      BY <1>2, <1>4, <1>6, <1>8, <2>3, Zenon
    <3>. QED
      BY <1>12, <2>1, <2>2, <2>3, <3>1, Zenon DEF Flow
  <2>9. /\ end[c][Other(e)].owner \in running
        /\ end[c][Other(e)].reader = "reading"
        /\ \A i \in DOMAIN end[c][Other(e)].inbox : end[c][Other(e)].inbox[i] # EOF
        /\ end[c][Other(e)].mapped \/ Offered(r, c)'
    BY <1>2, <1>3, <1>6, <2>8, Zenon DEF Expects, Offered, Opens
  <2>10. Offered(r, c)' => Offered(r, c)
    <3>1. CASE toGuest' = toGuest
      BY <3>1 DEF Offered, Opens
    <3>2. CASE new = Append(qr, m)
      <4>1. \A i \in DOMAIN new : (i \in DOMAIN qr /\ new[i] = qr[i]) \/ new[i] = m
        BY <2>5, <2>6, <3>2
      <4>. QED
        BY <1>5, <2>3, <4>1 DEF Offered, Opens
    <3>. QED
      BY <1>9, <2>3, <3>1, <3>2
  <2>11. Expects(c, Other(e))
    BY <1>6, <2>9, <2>10, Zenon DEF Expects
  <2>12. Road(c, s, wr, h, qr, qw)
    BY <1>4, <1>6, <1>12, <2>3, <2>11, Zenon DEF Flow
  <2>13. CASE new = Append(qr, m)
    BY <1>5, <2>4, <2>5, <2>6, <2>7, <2>12, <2>13, RoadRelayed, Mail, Zenon
  <2>14. CASE c \notin DOMAIN pipeConns /\ toGuest' = toGuest
    <3>1. Ended(qr, c)
      <4>1. CASE end[c][Other(e)].mapped
        <5>1. r \in procs
          BY <1>6, <2>9 DEF Alive
        <5>2. OnTheWay(r, c)
          BY <1>5, <1>6, <1>7, <2>14, <4>1, <5>1 DEF PeerOrFarewell
        <5>3. PICK i \in 1..Len(qr) : qr[i].type = "pipe-close" /\ qr[i].conn = c
          BY <2>3, <5>2 DEF OnTheWay
        <5>4. i \in DOMAIN qr
          BY <2>5
        <5>. QED
          BY <5>3, <5>4 DEF Ended, FinOf
      <4>2. CASE Offered(r, c)
        <5>1. PICK i \in DOMAIN toGuest[r] : Opens(r, i, c)
          BY <4>2 DEF Offered
        <5>2. \E j \in DOMAIN toGuest[r] : Parts(r, j, c)
          BY <1>5, <1>7, <2>14, <5>1 DEF Handshakes
        <5>. QED
          BY <2>3, <5>2 DEF Parts, Ended, FinOf
      <4>. QED
        BY <2>9, <2>10, <4>1, <4>2
    <3>2. new = qr
      BY <2>3, <2>14
    <3>. QED
      BY <1>5, <2>4, <2>5, <2>6, <2>7, <2>12, <3>1, <3>2, RoadRelayed, Mail
  <2>. QED
    BY <1>9, <2>3, <2>13, <2>14
<1>. QED
  BY <1>4, <1>10, <1>11, <1>12, Sides


(* A process is gone: to whoever reads from it this is the end, true if it  *)
(* had been cut off or had written everything it was to write.              *)
LEMMA FinalFlow ==
  ASSUME TypeOK, Alive, Pairs, Records, NEW p \in Procs, Finalize(p), running' = running \ {p},
         \A c \in Conns, e \in Ends :
           /\ Stopped(p, c, e)
           /\ end[c][e].owner = p =>
                \/ WriterOf(c, e)' = "cut"
                \/ /\ WriterOf(c, e) = "ended" /\ WriterOf(c, e)' = "ended"
                   /\ \A i \in DOMAIN toKernel[p] : toKernel[p][i].type = "exit",
         NEW d \in Conns, NEW f \in Ends, Flow(d, f), Arrives(d, f)
  PROVE  Flow(d, f)' /\ Arrives(d, f)'
<1>1. Other(f) \in Ends /\ Stopped(p, d, f) /\ Stopped(p, d, Other(f))
  BY Sides
<1>2. end[d][f].owner # p => WriterOf(d, f)' = WriterOf(d, f)
  BY <1>1, Zenon DEF WriterOf, Stopped
<1>3. \/ WriterOf(d, f)' = WriterOf(d, f)
      \/ WriterOf(d, f)' = "cut"
  BY <1>2
<1>4. Arrives(d, f)'
  <2>1. /\ end'[d][f].sent = end[d][f].sent
        /\ end'[d][Other(f)].got = end[d][Other(f)].got
        /\ end'[d][Other(f)].reader = end[d][Other(f)].reader
        /\ end'[d][Other(f)].inbox \in {end[d][Other(f)].inbox, <<>>}
    BY <1>1, Zenon DEF Stopped
  <2>. QED
    BY <1>3, <2>1, ArrivesKept, Zenon
<1>5. Flow(d, f)'
  <2>1. PICK r, w : r = end[d][Other(f)].owner /\ w = end[d][f].owner
    OBVIOUS
  <2>2. /\ end'[d][Other(f)].owner = r /\ end'[d][f].owner = w /\ end'[d][f].sent = end[d][f].sent
    BY <1>1, <2>1, Zenon DEF Stopped
  <2>3. SUFFICES ASSUME Expects(d, Other(f))'
                 PROVE  Road(d, end[d][f].sent, WriterOf(d, f)',
                             end'[d][Other(f)].got + Len(end'[d][Other(f)].inbox),
                             toGuest'[r], toKernel'[w])
    BY <2>2, Zenon DEF Flow
  <2>4. r \in Procs /\ r \in procs /\ r # p /\ r \in running
    BY <2>2, <2>3, Zenon DEF Expects, Alive, TypeOK
  <2>5. w \in Procs /\ w # r
    BY <1>1, <2>1, <2>4, BothOwners, Sides, Zenon
  <2>6. end'[d][Other(f)] = end[d][Other(f)]
    BY <1>1, <2>1, <2>4, Zenon DEF Stopped
  <2>7. PICK g : g = Farewells(p, r)
    OBVIOUS
  <2>8. /\ g \in Seq(Relayed)
        /\ \A i \in DOMAIN g : /\ g[i].type = "pipe-close" /\ g[i].conn \in ConnsOf(p)
                               /\ r \in {pipeConns[g[i].conn].client, pipeConns[g[i].conn].server}
    <3>1. ConnTable(pipeConns)
      BY DEF TypeOK, ConnTable
    <3>. QED
      BY <2>4, <2>7, <3>1, Goodbyes
  <2>9. PICK s, h, wr, qr, qw, new :
          /\ s = end[d][f].sent /\ wr = WriterOf(d, f)
          /\ h = end[d][Other(f)].got + Len(end[d][Other(f)].inbox)
          /\ qr = toGuest[r] /\ qw = toKernel[w] /\ new = toGuest'[r]
    OBVIOUS
  <2>10. s \in Nat /\ h \in Nat
    <3>1. /\ end[d][f].sent \in Nat /\ end[d][Other(f)].got \in Nat
          /\ Len(end[d][Other(f)].inbox) \in Nat
      BY <1>1, Fields
    <3>. QED
      BY <2>9, <3>1
  <2>11. qr \in Seq(Opening \union Relayed) /\ qw \in Seq(Relayed \union {Exit})
    BY <2>4, <2>5, <2>9, Zenon DEF TypeOK
  <2>12. new = qr \o g
    BY <2>4, <2>7, <2>9, Zenon DEF Finalize
  <2>13. Expects(d, Other(f))
    <3>1. Offered(r, d)' => Offered(r, d)
      <4>1. \A i \in DOMAIN toGuest'[r] : \/ i \in DOMAIN toGuest[r] /\ toGuest'[r][i] = toGuest[r][i]
                                          \/ toGuest'[r][i].type = "pipe-close"
        <5>1. \A i \in DOMAIN new : \/ i \in DOMAIN qr /\ new[i] = qr[i]
                                    \/ \E j \in DOMAIN g : new[i] = g[j]
          <6> SUFFICES ASSUME NEW i \in DOMAIN (qr \o g), i \notin DOMAIN qr
                       PROVE  i - Len(qr) \in DOMAIN g /\ (qr \o g)[i] = g[i - Len(qr)]
            BY <2>8, <2>11, <2>12
          <6>1. /\ Len(qr) \in Nat /\ Len(g) \in Nat /\ DOMAIN qr = 1..Len(qr) /\ DOMAIN g = 1..Len(g)
                /\ i \in 1..(Len(qr) + Len(g)) /\ (i > Len(qr) => (qr \o g)[i] = g[i - Len(qr)])
            BY <2>8, <2>11
          <6>. QED
            BY <6>1
        <5>. QED
          BY <2>8, <2>9, <5>1
      <4>. QED
        BY <4>1 DEF Offered, Opens
    <3>2. end[d][Other(f)].mapped \/ Offered(r, d)'
      BY <2>1, <2>3, <2>6, Zenon DEF Expects, Offered, Opens
    <3>3. /\ end[d][Other(f)].reader = "reading"
          /\ \A i \in DOMAIN end[d][Other(f)].inbox : end[d][Other(f)].inbox[i] # EOF
      BY <2>3, <2>6, Zenon DEF Expects
    <3>. QED
      BY <2>1, <2>4, <3>1, <3>2, <3>3, Zenon DEF Expects
  <2>14. Road(d, s, wr, h, qr, qw)
    BY <2>1, <2>9, <2>13, Zenon DEF Flow
  <2>15. /\ g \in Seq(Opening \union Relayed)
         /\ \A i \in DOMAIN g : ~DataOf(g[i], d)
    BY <2>8 DEF DataOf
  <2>16. CASE WriterOf(d, f)' = "cut" /\ w = p
    <3>1. toKernel'[w] = <<>>
      BY <2>16, FinalizeEffect, Zenon
    <3>2. Road(d, s, "cut", h, new, <<>>)
      BY <2>10, <2>11, <2>12, <2>14, <2>15, RoadFinal, Mail, Zenon
    <3>. QED
      BY <2>6, <2>9, <2>16, <3>1, <3>2, Zenon
  <2>17. CASE /\ wr = "ended" /\ WriterOf(d, f)' = "ended" /\ w = p
              /\ \A i \in DOMAIN toKernel[p] : toKernel[p][i].type = "exit"
    <3>1. toKernel'[w] = <<>>
      BY <2>17, FinalizeEffect, Zenon
    <3>2. \A i \in DOMAIN qw : ~DataOf(qw[i], d)
      BY <2>9, <2>17 DEF DataOf
    <3>3. Road(d, s, wr, h, new, <<>>)
      <4>1. Numbered(Opening \union Relayed) /\ Numbered(Relayed \union {Exit})
        BY Mail
      <4>2. Road(d, s, wr, h, qr \o g, <<>>)
        BY <2>10, <2>11, <2>14, <2>15, <2>17, <3>2, <4>1, RoadFinal, Zenon
      <4>. QED
        BY <2>12, <4>2
    <3>. QED
      BY <2>6, <2>9, <2>17, <3>1, <3>3, Zenon
  <2>18. CASE w # p
    <3>1. toKernel'[w] = qw
      <4>1. toKernel' = [toKernel EXCEPT ![p] = <<>>]
        BY DEF Finalize
      <4>. QED
        BY <2>5, <2>9, <2>18, <4>1 DEF TypeOK
    <3>2. \A i \in DOMAIN g : ~FinOf(g[i], d)
      <4> SUFFICES ASSUME NEW i \in DOMAIN g, g[i].conn = d PROVE FALSE
        BY DEF FinOf
      <4>1. d \in DOMAIN pipeConns /\ {p, r} \subseteq {pipeConns[d].client, pipeConns[d].server}
        BY <2>8 DEF ConnsOf
      <4>2. {pipeConns[d].client, pipeConns[d].server} = {w, r}
        BY <2>1, <4>1 DEF Records, Ends, Other
      <4>. QED
        BY <2>4, <2>18, <4>1, <4>2
    <3>3. Road(d, s, wr, h, new, qw)
      BY <2>10, <2>11, <2>12, <2>14, <2>15, <3>2, RoadFinal, Mail, Zenon
    <3>. QED
      BY <1>2, <2>1, <2>6, <2>9, <2>18, <3>1, <3>3, Zenon
  <2>. QED
    BY <2>1, <2>9, <2>16, <2>17, <2>18, Zenon
<1>. QED
  BY <1>4, <1>5

LEMMA ExitedFlow ==
  ASSUME TypeOK, Alive, Pairs, Records, ExitLast, NEW p \in Procs, Exited(p),
         NEW d \in Conns, NEW f \in Ends, Flow(d, f), Arrives(d, f)
  PROVE  Flow(d, f)' /\ Arrives(d, f)'
<1>1. /\ toKernel[p] # <<>> /\ Head(toKernel[p]).type = "exit" /\ Finalize(p)
      /\ end' = end /\ running' = running
  BY DEF Exited, Takes, Message, guestVars
<1>2. 1 \in DOMAIN toKernel[p] /\ toKernel[p][1].type = "exit"
  BY <1>1 DEF TypeOK
<1>3. p \notin running /\ running' = running \ {p}
  BY <1>1, <1>2 DEF Alive
<1>4. \A i \in DOMAIN toKernel[p] : toKernel[p][i].type = "exit"
  <2> SUFFICES ASSUME NEW i \in DOMAIN toKernel[p] PROVE i = 1
    BY <1>2
  <2>1. i <= 1
    BY <1>2 DEF ExitLast
  <2>. QED
    BY <2>1 DEF TypeOK
<1>5. ASSUME NEW c \in Conns, NEW e \in Ends
      PROVE  /\ Stopped(p, c, e)
             /\ end[c][e].owner = p =>
                  \/ WriterOf(c, e)' = "cut"
                  \/ WriterOf(c, e) = "ended" /\ WriterOf(c, e)' = "ended"
  <2>1. Stopped(p, c, e)
    BY <1>1 DEF Stopped
  <2>2. end[c][e].writer \in {"open", "ended", "cut"}
    BY Fields
  <2>3. p # None
    BY PipesAssumption DEF PipesAssumption
  <2>. QED
    BY <1>1, <1>3, <2>1, <2>2, <2>3 DEF WriterOf
<1>. QED
  BY <1>1, <1>3, <1>4, <1>5, FinalFlow

LEMMA KillFlow ==
  ASSUME TypeOK, Alive, Pairs, Records, NEW p \in Procs, Kill(p),
         NEW d \in Conns, NEW f \in Ends, Flow(d, f), Arrives(d, f)
  PROVE  Flow(d, f)' /\ Arrives(d, f)'
<1>1. /\ running' = running \ {p} /\ Finalize(p)
      /\ \A c \in Conns, e \in Ends :
           Stopped(p, c, e) /\ (end[c][e].owner = p => end'[c][e].writer = "cut")
  BY KillMeans
<1>2. \A c \in Conns, e \in Ends : end[c][e].owner = p => WriterOf(c, e)' = "cut"
  BY <1>1 DEF WriterOf
<1>. QED
  BY <1>1, <1>2, FinalFlow


LEMMA DirectionsStep ==
  ASSUME StreamInv, [Next]_vars
  PROVE  \A d \in Conns, f \in Ends : Flow(d, f)' /\ Arrives(d, f)'
<1> SUFFICES ASSUME NEW d \in Conns, NEW f \in Ends PROVE Flow(d, f)' /\ Arrives(d, f)'
  OBVIOUS
<1>0. /\ TypeOK /\ Alive /\ LeadsHome /\ Pairs /\ Records /\ Addressed
      /\ Handshakes /\ PeerOrFarewell /\ CutOff /\ ExitLast /\ OpenFirst
      /\ Flow(d, f) /\ Arrives(d, f) /\ \A x \in Conns, y \in Ends : Flow(x, y) /\ Arrives(x, y)
  BY DEF StreamInv, IInv
<1>1. ASSUME end' = end, running' = running, toGuest' = toGuest, toKernel' = toKernel
      PROVE  Flow(d, f)' /\ Arrives(d, f)'
  BY <1>0, <1>1, StillFlow DEF SameReader, SameWriter
<1>2. CASE UNCHANGED vars
  BY <1>1, <1>2 DEF vars, guestVars
<1>3. ASSUME NEW p \in Procs, Serves(p)
      PROVE  Flow(d, f)' /\ Arrives(d, f)'
  BY <1>1, <1>3, ServesFrame
<1>4. ASSUME NEW p \in Procs, Stirs(p)
      PROVE  Flow(d, f)' /\ Arrives(d, f)'
  <2>1. ASSUME NEW c \in Conns, NEW e \in Ends, Write(p, c, e)
        PROVE  Flow(d, f)' /\ Arrives(d, f)'
    BY <1>0, <2>1, WriteFlow
  <2>2. ASSUME NEW c \in Conns, NEW e \in Ends, Shutdown(p, c, e)
        PROVE  Flow(d, f)' /\ Arrives(d, f)'
    BY <1>0, <2>2, ShutdownFlow
  <2>3. ASSUME NEW c \in Conns, NEW e \in Ends, Close(p, c, e)
        PROVE  Flow(d, f)' /\ Arrives(d, f)'
    BY <1>0, <2>3, CloseFlow
  <2>4. ASSUME NEW c \in Conns, NEW e \in Ends, Deliver(p, c, e)
        PROVE  Flow(d, f)' /\ Arrives(d, f)'
    BY <1>0, <2>4, DeliverFlow
  <2>5. ASSUME Tick(p)
        PROVE  Flow(d, f)' /\ Arrives(d, f)'
    BY <1>0, <2>5, TickMeans, StillFlow
  <2>6. ASSUME Dispatch(p)
        PROVE  Flow(d, f)' /\ Arrives(d, f)'
    BY <1>0, <2>6, DispatchFlow
  <2>7. ASSUME NEW k \in Keys, Dial(p, k)
        PROVE  Flow(d, f)' /\ Arrives(d, f)'
    BY <1>0, <2>7, DialFlow
  <2>. QED
    BY <1>4, <2>1, <2>2, <2>3, <2>4, <2>5, <2>6, <2>7, Zenon DEF Stirs, Quiet
<1>5. ASSUME NEW p \in Procs, ExitGuest(p)
      PROVE  Flow(d, f)' /\ Arrives(d, f)'
  BY <1>0, <1>5, ExitFlow
<1>6. ASSUME NEW p \in Procs, Relay(p)
      PROVE  Flow(d, f)' /\ Arrives(d, f)'
  BY <1>0, <1>6, RelayFlow
<1>7. ASSUME NEW p \in Procs, Exited(p)
      PROVE  Flow(d, f)' /\ Arrives(d, f)'
  BY <1>0, <1>7, ExitedFlow
<1>8. ASSUME NEW p \in Procs, Kill(p)
      PROVE  Flow(d, f)' /\ Arrives(d, f)'
  BY <1>0, <1>8, KillFlow
<1>. QED
  BY <1>2, <1>3, <1>4, <1>5, <1>6, <1>7, <1>8, Split, Zenon

LEMMA StreamInvStep == StreamInv /\ [Next]_vars => StreamInv'
<1> SUFFICES ASSUME StreamInv, [Next]_vars PROVE StreamInv'
  OBVIOUS
<1>1. /\ IInv /\ CutOff /\ ExitLast /\ OpenFirst
      /\ TypeOK /\ Alive /\ LeadsHome /\ Pairs /\ Records /\ Addressed
  BY DEF StreamInv, IInv
<1>2. IInv'
  BY <1>1, IInvStep
<1>3. CutOff'
  BY <1>1, CutOffStep
<1>4. ExitLast'
  BY <1>1, ExitLastStep
<1>5. OpenFirst'
  BY <1>1, OpenFirstStep
<1>6. \A c \in Conns, e \in Ends : Arrives(c, e)' /\ Flow(c, e)'
  BY DirectionsStep
<1>. QED
  BY <1>2, <1>3, <1>4, <1>5, <1>6 DEF StreamInv

LEMMA InitStreamInv == Init => StreamInv
<1> SUFFICES ASSUME Init PROVE StreamInv
  OBVIOUS
<1>1. IInv
  BY InitIInv
<1>2. /\ \A p \in Procs : toKernel[p] = <<>> /\ toGuest[p] = <<>>
      /\ \A c \in Conns, e \in Ends : end[c][e] = NoEnd
  BY DEF Init
<1>3. CutOff /\ ExitLast /\ OpenFirst
  BY <1>2 DEF CutOff, ExitLast, OpenFirst, NoEnd
<1>4. ASSUME NEW c \in Conns, NEW e \in Ends
      PROVE  Arrives(c, e) /\ Flow(c, e)
  <2>1. Other(e) \in Ends
    BY Sides
  <2>2. /\ end[c][e].sent = 0 /\ end[c][Other(e)].got = 0 /\ end[c][Other(e)].inbox = <<>>
        /\ end[c][Other(e)].owner = None
    BY <1>2, <2>1 DEF NoEnd
  <2>3. Arrives(c, e)
    <3>1. \A wr : InOrder(<<>>, 0, 0, wr)
      BY OrderNone
    <3>. QED
      BY <2>2, <3>1 DEF Arrives
  <2>4. ~Expects(c, Other(e))
    <3>1. running \subseteq Procs /\ None \notin Procs
      BY <1>1, PipesAssumption DEF IInv, TypeOK, PipesAssumption
    <3>. QED
      BY <2>2, <3>1 DEF Expects
  <2>. QED
    BY <2>3, <2>4 DEF Flow
<1>. QED
  BY <1>1, <1>3, <1>4 DEF StreamInv

LEMMA StreamInvariant == Spec => []StreamInv
  BY InitStreamInv, StreamInvStep, PTL DEF Spec

(* What one step may do at the two ends of a direction.                     *)
WriterMoves(c, e) ==
  \/ end'[c][e].sent = end[c][e].sent /\ WriterOf(c, e)' = WriterOf(c, e)
  \/ /\ WriterOf(c, e) \in {"open", "cut"}
     /\ end'[c][e].sent = end[c][e].sent + 1 /\ WriterOf(c, e)' = WriterOf(c, e)
  \/ /\ WriterOf(c, e) = "open"
     /\ end'[c][e].sent = end[c][e].sent /\ WriterOf(c, e)' = "ended"
  \/ end'[c][e].sent = end[c][e].sent /\ WriterOf(c, e)' = "cut"
ReaderStays(c, e) ==
  end'[c][e].got = end[c][e].got /\ end'[c][e].reader = end[c][e].reader
ReaderMoves(c, e, s, wr) ==
  \/ ReaderStays(c, e)
  \/ /\ end[c][e].reader = "reading" /\ end'[c][e].reader = "reading"
     /\ end[c][e].got < s /\ end'[c][e].got = end[c][e].got + 1
  \/ /\ end[c][e].reader = "reading" /\ end'[c][e].reader = "eof"
     /\ end'[c][e].got = end[c][e].got
     /\ wr = "cut" \/ (wr = "ended" /\ end[c][e].got = s)

(* A step about one end: what its writer does, and the other ends nothing.  *)
LEMMA OneWriter ==
  ASSUME TypeOK, NEW c \in Conns, NEW e \in Ends, Rest(c, e), running' = running,
         end'[c][e].owner = end[c][e].owner, end'[c][e].sent = end[c][e].sent,
         \/ end'[c][e].writer = end[c][e].writer
         \/ end[c][e].writer # "cut" /\ end'[c][e].writer = "ended",
         NEW d \in Conns, NEW f \in Ends
  PROVE  WriterMoves(d, f)
<1>1. CASE d # c \/ f # e
  <2>1. end'[d][f] = end[d][f]
    BY <1>1 DEF Rest
  <2>. QED
    BY <2>1 DEF WriterMoves, WriterOf
<1>2. CASE d = c /\ f = e
  <2>1. end[c][e].writer \in {"open", "ended", "cut"}
    BY Fields, Zenon
  <2>. QED
    BY <1>2, <2>1, Zenon DEF WriterMoves, WriterOf
<1>. QED
  BY <1>1, <1>2

LEMMA Writing ==
  ASSUME StreamInv, [Next]_vars, NEW d \in Conns, NEW f \in Ends
  PROVE  WriterMoves(d, f)
<1>0. TypeOK /\ Alive /\ LeadsHome /\ Pairs /\ Records /\ Addressed /\ CutOff
  BY DEF StreamInv, IInv
<1>1. ASSUME end' = end, running' = running
      PROVE  WriterMoves(d, f)
  BY <1>1 DEF WriterMoves, WriterOf
<1>2. CASE UNCHANGED vars
  BY <1>1, <1>2 DEF vars, guestVars
<1>3. ASSUME NEW p \in Procs, Serves(p)
      PROVE  WriterMoves(d, f)
  BY <1>1, <1>3, ServesFrame
<1>4. ASSUME NEW p \in Procs, Stirs(p)
      PROVE  WriterMoves(d, f)
  <2>1. ASSUME NEW c \in Conns, NEW e \in Ends, Write(p, c, e)
        PROVE  WriterMoves(d, f)
    <3>1. /\ p \in running /\ end[c][e].owner = p /\ end[c][e].writer = "open"
          /\ Rest(c, e) /\ end'[c][e].owner = p /\ running' = running
          /\ end'[c][e].sent = end[c][e].sent + 1 /\ end'[c][e].writer = "open"
      BY <1>0, <2>1, WriteMeans
    <3>2. CASE d # c \/ f # e
      <4>1. end'[d][f] = end[d][f]
        BY <3>1, <3>2 DEF Rest
      <4>. QED
        BY <3>1, <4>1 DEF WriterMoves, WriterOf
    <3>3. CASE d = c /\ f = e
      BY <3>1, <3>3, Zenon DEF WriterMoves, WriterOf
    <3>. QED
      BY <3>2, <3>3
  <2>2. ASSUME NEW c \in Conns, NEW e \in Ends, Shutdown(p, c, e)
        PROVE  WriterMoves(d, f)
    <3>1. /\ end[c][e].owner = p /\ end[c][e].writer = "open" /\ Rest(c, e) /\ running' = running
          /\ end'[c][e].owner = p /\ end'[c][e].sent = end[c][e].sent /\ end'[c][e].writer = "ended"
      BY <1>0, <2>2, ShutdownMeans
    <3>. QED
      BY <1>0, <3>1, OneWriter
  <2>3. ASSUME NEW c \in Conns, NEW e \in Ends, Close(p, c, e)
        PROVE  WriterMoves(d, f)
    <3>1. /\ p \in running /\ end[c][e].owner = p /\ Rest(c, e) /\ running' = running
          /\ end'[c][e].owner = p /\ end'[c][e].sent = end[c][e].sent /\ end'[c][e].writer = "ended"
      BY <1>0, <2>3, CloseMeans
    <3>2. end[c][e].writer # "cut"
      BY <1>0, <3>1 DEF CutOff
    <3>. QED
      BY <1>0, <3>1, <3>2, OneWriter, Zenon
  <2>4. ASSUME NEW c \in Conns, NEW e \in Ends, Deliver(p, c, e)
        PROVE  WriterMoves(d, f)
    <3>1. /\ Rest(c, e) /\ running' = running /\ SameWriter(c, e)
          /\ end'[c][e].owner = end[c][e].owner
      BY <1>0, <2>4, DeliverMeans, Zenon
    <3>. QED
      BY <1>0, <3>1, OneWriter, Zenon DEF SameWriter
  <2>5. ASSUME Tick(p)
        PROVE  WriterMoves(d, f)
    BY <1>0, <2>5, TickMeans, Zenon DEF SameWriter, WriterMoves, WriterOf
  <2>6. ASSUME Dispatch(p)
        PROVE  WriterMoves(d, f)
    <3>1. PICK m, c, e : m = Head(toGuest[p]) /\ c = m.conn /\ e = EndOf(p, m.conn)
      BY Zenon
    <3>2. /\ c \in Conns /\ e \in Ends /\ p \in running /\ running' = running /\ Rest(c, e)
          /\ end[c][e].owner = p /\ end'[c][e].owner = p /\ end'[c][e].sent = end[c][e].sent
      BY <1>0, <2>6, <3>1, DispatchWrites
    <3>3. end'[c][e].writer = end[c][e].writer \/ end'[c][e].writer = "ended"
      BY <1>0, <2>6, <3>1, DispatchWrites
    <3>4. end[c][e].writer # "cut"
      BY <1>0, <3>2 DEF CutOff
    <3>. QED
      BY <1>0, <3>2, <3>3, <3>4, OneWriter, Zenon
  <2>7. ASSUME NEW k \in Keys, Dial(p, k)
        PROVE  WriterMoves(d, f)
    <3>1. PICK c \in Conns :
            /\ end[c]["client"] = NoEnd /\ end[c]["server"] = NoEnd
            /\ \A x \in Conns : x # c => end'[x] = end[x]
            /\ \A e \in Ends : SameWriter(c, e)
            /\ running' = running
      BY <1>0, <2>7, DialMeans
    <3>2. CASE d # c
      BY <3>1, <3>2, Zenon DEF WriterMoves, WriterOf
    <3>3. CASE d = c
      <4>1. end[d][f] = NoEnd /\ SameWriter(d, f)
        BY <3>1, <3>3 DEF Ends
      <4>. QED
        BY <4>1 DEF WriterMoves, WriterOf, SameWriter, NoEnd
    <3>. QED
      BY <3>2, <3>3
  <2>. QED
    BY <1>4, <2>1, <2>2, <2>3, <2>4, <2>5, <2>6, <2>7, Zenon DEF Stirs, Quiet
<1>5. ASSUME NEW p \in Procs, ExitGuest(p)
      PROVE  WriterMoves(d, f)
  <2>1. /\ running' = running \ {p} /\ end'[d][f].owner = end[d][f].owner
        /\ end'[d][f].sent = end[d][f].sent /\ end'[d][f].writer = end[d][f].writer
    BY <1>0, <1>5, ExitMeans DEF Stopped
  <2>2. end[d][f].writer \in {"open", "ended", "cut"}
    BY <1>0, Fields
  <2>. QED
    BY <2>1, <2>2, Zenon DEF WriterMoves, WriterOf
<1>6. ASSUME NEW p \in Procs, Relay(p)
      PROVE  WriterMoves(d, f)
  <2>1. UNCHANGED <<end, running>>
    BY <1>6 DEF Relay, guestVars
  <2>. QED
    BY <1>1, <2>1
<1>7. ASSUME NEW p \in Procs, Exited(p)
      PROVE  WriterMoves(d, f)
  <2>1. UNCHANGED <<end, running>>
    BY <1>7 DEF Exited, guestVars
  <2>. QED
    BY <1>1, <2>1
<1>8. ASSUME NEW p \in Procs, Kill(p)
      PROVE  WriterMoves(d, f)
  <2>1. /\ running' = running \ {p} /\ Stopped(p, d, f)
        /\ end[d][f].owner = p => end'[d][f].writer = "cut"
    BY <1>0, <1>8, KillMeans
  <2>. QED
    BY <2>1, Zenon DEF WriterMoves, WriterOf, Stopped
<1>. QED
  BY <1>2, <1>3, <1>4, <1>5, <1>6, <1>7, <1>8, Split, Zenon


LEMMA Reading ==
  ASSUME StreamInv, [Next]_vars, NEW d \in Conns, NEW f \in Ends
  PROVE  ReaderMoves(d, Other(f), end[d][f].sent, WriterOf(d, f))
<1>0. /\ TypeOK /\ Alive /\ LeadsHome /\ Pairs /\ Records /\ Addressed
      /\ Arrives(d, f) /\ Other(f) \in Ends
  BY Sides DEF StreamInv, IInv
<1>1. ASSUME ReaderStays(d, Other(f))
      PROVE  ReaderMoves(d, Other(f), end[d][f].sent, WriterOf(d, f))
  BY <1>1 DEF ReaderMoves
<1>2. ASSUME NEW p \in Procs, NEW c \in Conns, NEW e \in Ends, Deliver(p, c, e)
      PROVE  ReaderMoves(d, Other(f), end[d][f].sent, WriterOf(d, f))
  <2>1. /\ end[c][e].reader = "reading" /\ end[c][e].inbox # <<>> /\ Rest(c, e)
        /\ \/ /\ Head(end[c][e].inbox) = EOF
              /\ end'[c][e].reader = "eof" /\ end'[c][e].got = end[c][e].got
           \/ /\ Head(end[c][e].inbox) # EOF
              /\ end'[c][e].reader = "reading" /\ end'[c][e].got = Head(end[c][e].inbox)
    BY <1>0, <1>2, DeliverMeans, Zenon
  <2>2. CASE d # c \/ Other(f) # e
    BY <1>0, <1>1, <2>1, <2>2, Zenon DEF Rest, ReaderStays
  <2>3. CASE d = c /\ Other(f) = e
    <3>1. PICK q, g, s, wr : /\ q = end[c][e].inbox /\ g = end[c][e].got
                             /\ s = end[d][f].sent /\ wr = WriterOf(d, f)
      OBVIOUS
    <3>2. q \in Seq(Nat) /\ g \in Nat /\ s \in Nat /\ q # <<>>
      BY <1>0, <2>1, <3>1, Fields, Zenon
    <3>3. InOrder(q, g, s, wr)
      BY <1>0, <2>1, <2>3, <3>1, Zenon DEF Arrives
    <3>4. /\ Head(q) = EOF => wr = "cut" \/ (wr = "ended" /\ s = g)
          /\ Head(q) # EOF => Head(q) = g + 1 /\ g + 1 <= s
      BY <3>2, <3>3, OrderRead
    <3>5. Head(q) # EOF => g < s
      BY <3>2, <3>4
    <3>. QED
      BY <2>1, <2>3, <3>1, <3>4, <3>5, Zenon DEF ReaderMoves
  <2>. QED
    BY <2>2, <2>3
<1>3. CASE UNCHANGED vars
  BY <1>1, <1>3 DEF vars, guestVars, ReaderStays
<1>4. ASSUME NEW p \in Procs, Serves(p)
      PROVE  ReaderStays(d, Other(f))
  BY <1>4, ServesFrame DEF ReaderStays
<1>5. ASSUME NEW p \in Procs, NEW c \in Conns, NEW e \in Ends, Rest(c, e), ReaderStays(c, e)
      PROVE  ReaderStays(d, Other(f))
  <2>1. CASE d # c \/ Other(f) # e
    BY <1>0, <1>5, <2>1 DEF Rest, ReaderStays
  <2>. QED
    BY <1>5, <2>1
<1>6. ASSUME NEW p \in Procs, Stirs(p)
      PROVE  ReaderMoves(d, Other(f), end[d][f].sent, WriterOf(d, f))
  <2>1. ASSUME NEW c \in Conns, NEW e \in Ends, Write(p, c, e)
        PROVE  ReaderStays(d, Other(f))
    <3>1. Rest(c, e) /\ ReaderStays(c, e)
      BY <1>0, <2>1, WriteMeans DEF ReaderStays, SameReader
    <3>. QED
      BY <1>5, <3>1
  <2>2. ASSUME NEW c \in Conns, NEW e \in Ends, Shutdown(p, c, e)
        PROVE  ReaderStays(d, Other(f))
    <3>1. Rest(c, e) /\ ReaderStays(c, e)
      BY <1>0, <2>2, ShutdownMeans DEF ReaderStays, SameReader
    <3>. QED
      BY <1>5, <3>1
  <2>3. ASSUME NEW c \in Conns, NEW e \in Ends, Close(p, c, e)
        PROVE  ReaderStays(d, Other(f))
    <3>1. Rest(c, e) /\ ReaderStays(c, e)
      BY <1>0, <2>3, CloseMeans DEF ReaderStays
    <3>. QED
      BY <1>5, <3>1
  <2>4. ASSUME Tick(p)
        PROVE  ReaderStays(d, Other(f))
    BY <1>0, <2>4, TickMeans DEF ReaderStays, SameReader
  <2>5. ASSUME Dispatch(p)
        PROVE  ReaderStays(d, Other(f))
    <3>1. PICK m, c, e : m = Head(toGuest[p]) /\ c = m.conn /\ e = EndOf(p, m.conn)
      BY Zenon
    <3>2. c \in Conns /\ e \in Ends /\ Rest(c, e) /\ ReaderStays(c, e)
      BY <1>0, <2>5, <3>1, DispatchMeans DEF ReaderStays
    <3>. QED
      BY <1>5, <3>2
  <2>6. ASSUME NEW k \in Keys, Dial(p, k)
        PROVE  ReaderStays(d, Other(f))
    <3>1. PICK c \in Conns :
            /\ end[c]["client"] = NoEnd /\ end[c]["server"] = NoEnd
            /\ \A x \in Conns : x # c => end'[x] = end[x]
            /\ \A e \in Ends : end'[c][e].got = 0 /\ end'[c][e].reader = "reading"
      BY <1>0, <2>6, DialMeans
    <3>2. \A e \in Ends : end[c][e] = NoEnd
      BY <3>1 DEF Ends
    <3>3. \A e \in Ends : ReaderStays(c, e)
      BY <3>1, <3>2 DEF ReaderStays, NoEnd
    <3>4. CASE d # c
      BY <3>1, <3>4 DEF ReaderStays
    <3>. QED
      BY <1>0, <3>3, <3>4
  <2>. QED
    BY <1>1, <1>2, <1>6, <2>1, <2>2, <2>3, <2>4, <2>5, <2>6, Zenon DEF Stirs, Quiet
<1>7. ASSUME NEW p \in Procs, ExitGuest(p)
      PROVE  ReaderStays(d, Other(f))
  BY <1>0, <1>7, ExitMeans DEF Stopped, ReaderStays
<1>8. ASSUME NEW p \in Procs, Relay(p)
      PROVE  ReaderStays(d, Other(f))
  BY <1>8 DEF Relay, guestVars, ReaderStays
<1>9. ASSUME NEW p \in Procs, Exited(p)
      PROVE  ReaderStays(d, Other(f))
  BY <1>9 DEF Exited, guestVars, ReaderStays
<1>10. ASSUME NEW p \in Procs, Kill(p)
       PROVE  ReaderStays(d, Other(f))
  BY <1>0, <1>10, KillMeans, Zenon DEF Stopped, ReaderStays
<1>. QED
  BY <1>1, <1>3, <1>4, <1>6, <1>7, <1>8, <1>9, <1>10, Split, Zenon

(* Both directions of every connection are faithful streams: for any number *)
(* of processes and connections, every order of the messages between the    *)
(* event loops, and every moment a process may close, exit or be killed, a  *)
(* reader takes in exactly the chunks that were written, in their order, and*)
(* is told the end only after the last of them, unless the writer was cut   *)
(* off (TCP.writeBuffer, shutdown, close, dispatchPipe, handlePipeRelay,    *)
(* finalize).                                                               *)
THEOREM Refinement == Spec => ImplementsStream
<1>1. Init => Abstract!Init
  <2> SUFFICES ASSUME Init PROVE Abstract!Init
    OBVIOUS
  <2>1. \A c \in Conns, e \in Ends : end[c][e] = NoEnd /\ Other(e) \in Ends
    BY Sides DEF Init
  <2>2. \A i \in StreamIds : i[1] \in Conns /\ i[2] \in Ends
    BY DEF StreamIds
  <2>3. \A i \in StreamIds :
          /\ end[i[1]][i[2]].sent = 0 /\ WriterOf(i[1], i[2]) = "open"
          /\ end[i[1]][Other(i[2])].got = 0 /\ end[i[1]][Other(i[2])].reader = "reading"
    BY <2>1, <2>2 DEF NoEnd, WriterOf
  <2>. QED
    BY <2>3, Zenon DEF Abstract!Init
<1>2. StreamInv /\ [Next]_vars => Abstract!Next
  <2> SUFFICES ASSUME StreamInv, [Next]_vars, NEW i \in StreamIds
               PROVE  Abstract!Writes(i) /\ Abstract!Reads(i)
    BY DEF Abstract!Next
  <2>1. i[1] \in Conns /\ i[2] \in Ends
    BY DEF StreamIds
  <2>2. WriterMoves(i[1], i[2])
    BY <2>1, Writing
  <2>3. ReaderMoves(i[1], Other(i[2]), end[i[1]][i[2]].sent, WriterOf(i[1], i[2]))
    BY <2>1, Reading
  <2>4. Abstract!Writes(i)
    BY <2>2, Zenon DEF WriterMoves, Abstract!Writes
  <2>5. Abstract!Reads(i)
    BY <2>3, Zenon DEF ReaderMoves, ReaderStays, Abstract!Reads
  <2>. QED
    BY <2>4, <2>5
<1>. QED
  BY <1>1, <1>2, StreamInvariant, PTL DEF Spec, ImplementsStream, Abstract!Spec

=============================================================================
