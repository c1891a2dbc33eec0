-------------------------------- MODULE Pipes ---------------------------------
(***************************************************************************)
(* Connections between two processes of the VM: the kernel's tables of     *)
(* listeners and connections and the relaying of bytes                     *)
(* (packages/kernel-host/kernel.js: handleNet, handlePipe, allocClientPort,*)
(* handlePipeRelay, finalize) and the endpoints in the guests              *)
(* (packages/runtime/node/bindings/net.js: TCP, Pipe, dispatchPipe).       *)
(*                                                                         *)
(* A guest and the kernel exchange messages, each way in the order they    *)
(* were posted.  A syscall is such a message, and the guest is parked until*)
(* the kernel has read all before it and answers: here it is one step of   *)
(* both, taken when nothing the guest posted is left to read.  Inside one  *)
(* process a guest runs one callback at a time, with the callbacks it owes *)
(* itself (process.nextTick) in a queue.                                   *)
(*                                                                         *)
(* A TCP port is served under two names, one after the other: its number   *)
(* (the routing table of the preview) and a synthetic pipe path (what      *)
(* other processes dial).  Here the path of a port is the port itself.     *)
(***************************************************************************)
EXTENDS Naturals, Sequences, FiniteSets, Functions, SequencesExt, Folds

CONSTANTS
  Procs,         (* the processes                                          *)
  Ports,         (* TCP ports a program may serve                          *)
  Paths,         (* UNIX socket paths a program may serve                  *)
  None,          (* undefined: no owner, no client port                    *)
  ClientPortMin, ClientPortMax,  (* the kernel's window of client ports    *)
  MaxConns,      (* bound: connections ever opened                         *)
  MaxWork        (* bound: listens, chunks, half-closes and twice the dials*)

ASSUME PipesAssumption ==
  /\ Ports \subseteq Nat /\ Ports \intersect Paths = {}
  /\ None \notin Procs \union Nat \union Paths
  /\ None \notin [op : {"listen", "close"}, key : Ports, handle : Nat]
  /\ ClientPortMin \in Nat /\ ClientPortMax \in Nat
  /\ ClientPortMin <= ClientPortMax
  /\ MaxConns \in Nat /\ MaxWork \in Nat

Keys == Ports \union Paths
Window == ClientPortMin..ClientPortMax
Conns == 1..MaxConns
Ends == {"client", "server"}
Other(e) == IF e = "client" THEN "server" ELSE "client"

VARIABLES
  (* the kernel *)
  procs,           (* processes it has a record of                         *)
  listeners,       (* port -> the process that serves it                   *)
  pipeListeners,   (* path -> the process that serves it                   *)
  pipeConns,       (* connId -> its two processes and its client port      *)
  nextPipeConnId, nextClientPort,
  (* messages *)
  toGuest, toKernel,
  (* the guests *)
  running,         (* guests that still run code                           *)
  parked,          (* between two syscalls of one call: what is left   *)
  serving,         (* key -> the live server handle, 0 for none            *)
  pipeServers,     (* the keys whose server takes dials of other processes *)
  nextHandle,
  ticks,           (* nextTick callbacks that connect or accept            *)
  end              (* the two endpoint handles of each connection          *)

kernelVars == <<procs, listeners, pipeListeners, pipeConns, nextPipeConnId,
                nextClientPort>>
guestVars == <<running, parked, serving, pipeServers, nextHandle, ticks, end>>
vars == <<kernelVars, toGuest, toKernel, guestVars>>

(* A handle nobody has made yet. *)
NoEnd == [st |-> "none", owner |-> None, mapped |-> FALSE, inbox |-> <<>>,
          sent |-> 0, shut |-> FALSE, writer |-> "open", got |-> 0, reader |-> "reading"]

EOF == 0    (* the end-of-stream mark in an inbox; chunks are 1, 2, ... *)

Endpoint == [
  st : {"none", "connecting", "open", "closed"}, owner : Procs \union {None},
  mapped : BOOLEAN, inbox : Seq(Nat), sent : Nat, shut : BOOLEAN,
  writer : {"open", "ended", "cut"}, got : Nat, reader : {"reading", "eof"}]

(* What passes between a guest and the kernel; n is a key, or a chunk.      *)
Opening == [type : {"pipe-open"}, conn : Conns, n : Keys]
Relayed == [type : {"pipe-data", "pipe-shutdown", "pipe-close"}, conn : Conns, n : Nat]
Msg(t, c, n) == [type |-> t, conn |-> c, n |-> n]
Exit == [type |-> "exit"]

Calls == [op : {"listen", "close"}, key : Ports, handle : Nat]
Callbacks == [conn : Conns, end : Ends, key : Keys, handle : Nat]

TypeOK ==
  /\ procs \subseteq Procs
  /\ listeners \in [Ports -> Procs \union {None}]
  /\ pipeListeners \in [Keys -> Procs \union {None}]
  /\ \E C \in SUBSET Conns :
       pipeConns \in [C -> [client : Procs, server : Procs, port : Window \union {None}]]
  /\ nextPipeConnId \in 1..(MaxConns + 1)
  /\ nextClientPort \in Window
  /\ running \subseteq Procs
  /\ toGuest \in [Procs -> Seq(Opening \union Relayed)]
  /\ toKernel \in [Procs -> Seq(Relayed \union {Exit})]
  /\ parked \in [Procs -> Calls \union {None}]
  /\ serving \in [Procs -> [Keys -> Nat]]
  /\ pipeServers \in [Procs -> SUBSET Keys]
  /\ nextHandle \in Nat \ {0}
  /\ ticks \in [Procs -> Seq(Callbacks)]
  /\ end \in [Conns -> [Ends -> Endpoint]]

Init ==
  /\ procs = Procs
  /\ listeners = [n \in Ports |-> None]
  /\ pipeListeners = [k \in Keys |-> None]
  /\ pipeConns = <<>> /\ nextPipeConnId = 1
  /\ nextClientPort = ClientPortMin
  /\ toGuest = [p \in Procs |-> <<>>] /\ toKernel = [p \in Procs |-> <<>>]
  /\ running = Procs /\ parked = [p \in Procs |-> None]
  /\ serving = [p \in Procs |-> [k \in Keys |-> 0]] /\ nextHandle = 1
  /\ pipeServers = [p \in Procs |-> {}]
  /\ ticks = [p \in Procs |-> <<>>]
  /\ end = [c \in Conns |-> [e \in Ends |-> NoEnd]]

-----------------------------------------------------------------------------
(* Messages.                                                                *)

Post_EndFirst(p, m) ==    (* mutant: an end of stream overtakes the chunks before it *)
  toKernel' = [toKernel EXCEPT ![p] =
    IF m.type = "pipe-shutdown" THEN <<m>> \o @ ELSE Append(@, m)]

(* postRaw: a guest's message takes its place behind what it posted before. *)
Post(p, m) == toKernel' = [toKernel EXCEPT ![p] = Append(@, m)]

(* postToProc, to a process the kernel still knows. *)
Told(mail, p, m) == IF p \in procs THEN [mail EXCEPT ![p] = Append(@, m)] ELSE mail

Free(p) == p \in running /\ parked[p] = None
CanCall(p) == p \in running /\ p \in procs /\ toKernel[p] = <<>>

-----------------------------------------------------------------------------
(* Syscalls.                                                                *)

(* The bound on what the programs ask for: a dial, which brings a whole     *)
(* connection, counts twice.                                                *)
Work == (nextHandle - 1) + 2 * (nextPipeConnId - 1)
        + MapThenFoldSet(+, 0,
            LAMBDA i : end[i[1]][i[2]].sent + (IF end[i[1]][i[2]].shut THEN 1 ELSE 0),
            LAMBDA S : CHOOSE i \in S : TRUE, Conns \X Ends)
Affords(n) == Work + n <= MaxWork

TakenByOther_Never(table, p, k) == FALSE    (* mutant: the last listener wins *)

(* Held by another process that is still there. *)
TakenByOther(table, p, k) == table[k] \notin {None, p} /\ table[k] \in procs

(* OP_PIPE_LISTEN.  A TCP server that is refused its path still serves its  *)
(* own process and the preview; a UNIX socket server is not made.           *)
PipeListen(p, k, h) ==
  LET refused == TakenByOther(pipeListeners, p, k)
  IN /\ pipeListeners' = IF refused THEN pipeListeners ELSE [pipeListeners EXCEPT ![k] = p]
     /\ pipeServers' = IF refused THEN pipeServers ELSE [pipeServers EXCEPT ![p] = @ \union {k}]
     /\ serving' = IF refused /\ k \in Paths THEN serving ELSE [serving EXCEPT ![p][k] = h]

(* net.Server.listen on a UNIX socket. *)
ListenPath(p, k) ==
  /\ Free(p) /\ CanCall(p)
  /\ k \in Paths /\ serving[p][k] = 0
  /\ Affords(1)
  /\ nextHandle' = nextHandle + 1
  /\ PipeListen(p, k, nextHandle)
  /\ UNCHANGED <<procs, listeners, pipeConns, nextPipeConnId, nextClientPort,
                 toGuest, toKernel, running, parked, ticks, end>>

(* net.Server.listen on a port: OP_LISTEN (handleNet), and once the port is *)
(* granted, its path.                                                       *)
ListenPort(p, k) ==
  /\ Free(p) /\ CanCall(p)
  /\ k \in Ports /\ serving[p][k] = 0
  /\ Affords(1)
  /\ ~TakenByOther(listeners, p, k)
  /\ nextHandle' = nextHandle + 1
  /\ listeners' = [listeners EXCEPT ![k] = p]
  /\ parked' = [parked EXCEPT ![p] = [op |-> "listen", key |-> k, handle |-> nextHandle]]
  /\ UNCHANGED <<procs, pipeListeners, pipeConns, nextPipeConnId, nextClientPort,
                 toGuest, toKernel, running, serving, pipeServers, ticks, end>>

ListenPortPath(p) ==
  /\ CanCall(p)
  /\ parked[p] # None /\ parked[p].op = "listen"
  /\ PipeListen(p, parked[p].key, parked[p].handle)
  /\ parked' = [parked EXCEPT ![p] = None]
  /\ UNCHANGED <<procs, listeners, pipeConns, nextPipeConnId, nextClientPort,
                 toGuest, toKernel, running, nextHandle, ticks, end>>

(* OP_PIPE_CLOSE_SERVER and OP_CLOSE_SERVER take a key from its owner only. *)
Released(table, p, k) == [table EXCEPT ![k] = IF @ = p THEN None ELSE @]

(* net.Server.close on a UNIX socket. *)
ClosePath(p, k) ==
  /\ Free(p) /\ CanCall(p)
  /\ k \in Paths /\ serving[p][k] # 0
  /\ serving' = [serving EXCEPT ![p][k] = 0]
  /\ pipeServers' = [pipeServers EXCEPT ![p] = @ \ {k}]
  /\ pipeListeners' = Released(pipeListeners, p, k)
  /\ UNCHANGED <<procs, listeners, pipeConns, nextPipeConnId, nextClientPort,
                 toGuest, toKernel, running, parked, nextHandle, ticks, end>>

(* net.Server.close on a port: the number, then the path if it had been     *)
(* granted.  Whoever captured the handle finds it closed from the start.    *)
ClosePort(p, k) ==
  /\ Free(p) /\ CanCall(p)
  /\ k \in Ports /\ serving[p][k] # 0
  /\ serving' = [serving EXCEPT ![p][k] = 0]
  /\ listeners' = Released(listeners, p, k)
  /\ pipeServers' = [pipeServers EXCEPT ![p] = @ \ {k}]
  /\ parked' = IF k \in pipeServers[p]
               THEN [parked EXCEPT ![p] = [op |-> "close", key |-> k, handle |-> 0]] ELSE parked
  /\ UNCHANGED <<procs, pipeListeners, pipeConns, nextPipeConnId, nextClientPort,
                 toGuest, toKernel, running, nextHandle, ticks, end>>

ClosePortPath(p) ==
  /\ CanCall(p)
  /\ parked[p] # None /\ parked[p].op = "close"
  /\ pipeListeners' = Released(pipeListeners, p, parked[p].key)
  /\ parked' = [parked EXCEPT ![p] = None]
  /\ UNCHANGED <<procs, listeners, pipeConns, nextPipeConnId, nextClientPort,
                 toGuest, toKernel, running, serving, pipeServers, nextHandle, ticks, end>>

(* allocClientPort: from the cursor around the window, the first port that  *)
(* no open connection holds and nobody serves; None when there is none.     *)
Size == Cardinality(Window)
From(i) == ClientPortMin + ((nextClientPort - ClientPortMin + i) % Size)
Held == {pipeConns[c].port : c \in DOMAIN pipeConns}
FreePort_Reused(n) == n \in Ports => listeners[n] = None    (* mutant: held ports forgotten *)
FreePort_Served(n) == n \notin Held    (* mutant: served ports forgotten *)
FreePort(n) == n \notin Held /\ (n \in Ports => listeners[n] = None)

allocClientPort ==
  LET ok == {i \in 0..(Size - 1) : FreePort(From(i))}
  IN IF ok = {} THEN None
     ELSE From(CHOOSE i \in ok : \A j \in ok : i <= j)

After(n) == IF n >= ClientPortMax THEN ClientPortMin ELSE n + 1

(* net.connect to a key this process does not serve itself, OP_PIPE_CONNECT: *)
(* refused when nobody serves the key (ENOENT) or every client port is      *)
(* taken (EADDRNOTAVAIL), which changes nothing.  Else the server hears of  *)
(* the connection and the client has its endpoint.                          *)
Dial(p, k) ==
  /\ Free(p) /\ CanCall(p)
  /\ serving[p][k] = 0
  /\ pipeListeners[k] \in procs
  /\ nextPipeConnId <= MaxConns /\ Affords(2)
  /\ LET s == pipeListeners[k]
         port == IF k \in Ports THEN allocClientPort ELSE None
         c == nextPipeConnId
     IN /\ k \in Ports => port # None
        /\ nextPipeConnId' = c + 1
        /\ nextClientPort' = IF k \in Ports THEN After(port) ELSE nextClientPort
        /\ pipeConns' = [x \in DOMAIN pipeConns \union {c} |->
             IF x = c THEN [client |-> p, server |-> s, port |-> port] ELSE pipeConns[x]]
        /\ toGuest' = [toGuest EXCEPT ![s] = Append(@, Msg("pipe-open", c, k))]
        /\ end' = [end EXCEPT ![c] =
             [e \in Ends |->
                IF e = "server" THEN [end[c][e] EXCEPT !.owner = s]
                ELSE [end[c][e] EXCEPT !.st = "connecting", !.mapped = TRUE, !.owner = p]]]
        /\ ticks' = [ticks EXCEPT ![p] =
             Append(@, [conn |-> c, end |-> "client", key |-> k, handle |-> 0])]
  /\ UNCHANGED <<procs, listeners, pipeListeners, toKernel, running, parked, serving,
                 pipeServers, nextHandle>>

-----------------------------------------------------------------------------
(* What a guest does on its own.                                            *)

Mine(p, c, e) == Free(p) /\ end[c][e].owner = p
Becomes(c, e, ep) == end' = [end EXCEPT ![c][e] = ep]

(* socket.write: the chunk is copied and posted. *)
Write(p, c, e) ==
  /\ Mine(p, c, e)
  /\ end[c][e].st = "open" /\ end[c][e].writer = "open"
  /\ Affords(1)
  /\ Becomes(c, e, [end[c][e] EXCEPT !.sent = @ + 1])
  /\ Post(p, Msg("pipe-data", c, end[c][e].sent + 1))
  /\ UNCHANGED <<kernelVars, toGuest, running, parked, serving, pipeServers, nextHandle, ticks>>

(* socket.end: nothing is written after it. *)
Shutdown(p, c, e) ==
  /\ Mine(p, c, e)
  /\ end[c][e].st = "open" /\ end[c][e].writer = "open"
  /\ Affords(1)
  /\ Becomes(c, e, [end[c][e] EXCEPT !.writer = "ended", !.shut = TRUE])
  /\ Post(p, Msg("pipe-shutdown", c, 0))
  /\ UNCHANGED <<kernelVars, toGuest, running, parked, serving, pipeServers, nextHandle, ticks>>

(* socket.destroy: handle.close tells the other side, and what waits in the *)
(* inbox is never read.  Node runs it by itself once both directions ended. *)
Close(p, c, e) ==
  /\ Mine(p, c, e)
  /\ end[c][e].st = "open" \/ (e = "client" /\ end[c][e].st = "connecting")
  /\ Becomes(c, e, [end[c][e] EXCEPT !.st = "closed", !.mapped = FALSE,
                                     !.inbox = <<>>, !.writer = "ended"])
  /\ Post(p, Msg("pipe-close", c, 0))
  /\ UNCHANGED <<kernelVars, toGuest, running, parked, serving, pipeServers, nextHandle, ticks>>

(* deliver: the stream takes the next chunk, or the end of the stream. *)
Deliver(p, c, e) ==
  /\ Mine(p, c, e)
  /\ end[c][e].st = "open" /\ end[c][e].reader = "reading"
  /\ end[c][e].inbox # <<>>
  /\ LET x == Head(end[c][e].inbox)
     IN Becomes(c, e, IF x = EOF THEN [end[c][e] EXCEPT !.inbox = Tail(@), !.reader = "eof"]
                      ELSE [end[c][e] EXCEPT !.inbox = Tail(@), !.got = x])
  /\ UNCHANGED <<kernelVars, toGuest, toKernel, running, parked, serving, pipeServers, nextHandle, ticks>>

(* The next callback of process.nextTick: a dial is connected, or the       *)
(* server takes the accepted endpoint.  A server closed since takes nothing.*)
Tick(p) ==
  /\ Free(p)
  /\ ticks[p] # <<>>
  /\ LET t == Head(ticks[p])
         taken == \/ t.end = "client"
                  \/ serving[p][t.key] = t.handle
     IN Becomes(t.conn, t.end, [end[t.conn][t.end] EXCEPT !.st =
                                  IF @ = "connecting" /\ taken THEN "open" ELSE @])
  /\ ticks' = [ticks EXCEPT ![p] = Tail(@)]
  /\ UNCHANGED <<kernelVars, toGuest, toKernel, running, parked, serving, pipeServers, nextHandle>>

(* A worker that has ended keeps nothing, and nothing more reaches it. *)
Stops(p) ==
  /\ running' = running \ {p}
  /\ serving' = [serving EXCEPT ![p] = [k \in Keys |-> 0]]
  /\ pipeServers' = [pipeServers EXCEPT ![p] = {}]
  /\ ticks' = [ticks EXCEPT ![p] = <<>>]
  /\ UNCHANGED nextHandle

(* The program ends: its last message. *)
ExitGuest(p) ==
  /\ Free(p)
  /\ Stops(p)
  /\ Post(p, Exit)
  /\ end' = [c \in Conns |-> [e \in Ends |->
       IF end[c][e].owner = p THEN [end[c][e] EXCEPT !.inbox = <<>>, !.mapped = FALSE]
       ELSE end[c][e]]]
  /\ UNCHANGED <<kernelVars, toGuest, parked>>

(* dispatchPipe, on a message from the kernel.  A connection opens only if  *)
(* its server still listens; it is accepted on a later tick.  Messages for  *)
(* an endpoint that is gone are dropped.                                    *)
Dispatch(p) ==
  /\ Free(p)
  /\ toGuest[p] # <<>>
  /\ toGuest' = [toGuest EXCEPT ![p] = Tail(@)]
  /\ LET m == Head(toGuest[p])
         e == CHOOSE x \in Ends : end[m.conn][x].owner = p
         ep == end[m.conn][e]
     IN \/ /\ m.type = "pipe-open" /\ m.n \in pipeServers[p]
           /\ Becomes(m.conn, e, [ep EXCEPT !.st = "connecting", !.mapped = TRUE])
           /\ ticks' = [ticks EXCEPT ![p] =
                Append(@, [conn |-> m.conn, end |-> e, key |-> m.n, handle |-> serving[p][m.n]])]
           /\ UNCHANGED toKernel
        \/ /\ m.type = "pipe-open" /\ m.n \notin pipeServers[p]
           /\ Becomes(m.conn, e, [ep EXCEPT !.writer = "ended"])
           /\ Post(p, Msg("pipe-close", m.conn, 0))
           /\ UNCHANGED ticks
        \/ /\ m.type # "pipe-open"
           /\ Becomes(m.conn, e, IF ~ep.mapped THEN ep
                ELSE [ep EXCEPT !.inbox = Append(@, IF m.type = "pipe-data" THEN m.n ELSE EOF),
                                !.mapped = (m.type # "pipe-close")])
           /\ UNCHANGED <<toKernel, ticks>>
  /\ UNCHANGED <<kernelVars, running, parked, serving, pipeServers, nextHandle>>

-----------------------------------------------------------------------------
(* The kernel, on the next message of a process.                            *)

Message(p) == Head(toKernel[p])
Takes(p, t) == p \in procs /\ toKernel[p] # <<>> /\ Message(p).type = t
Consumed(p) == toKernel' = [toKernel EXCEPT ![p] = Tail(@)]

(* handlePipeRelay: forwarded as it is; a close also ends the record.       *)
Relay(p) ==
  /\ p \in procs /\ toKernel[p] # <<>>
  /\ Message(p).type # "exit"
  /\ Consumed(p)
  /\ LET m == Message(p)
         conn == pipeConns[m.conn]
         other == IF p = conn.client THEN conn.server ELSE conn.client
     IN IF m.conn \notin DOMAIN pipeConns
        THEN UNCHANGED <<pipeConns, toGuest>>
        ELSE /\ toGuest' = Told(toGuest, other, m)
             /\ pipeConns' = IF m.type = "pipe-close"
                             THEN Restrict(pipeConns, DOMAIN pipeConns \ {m.conn})
                             ELSE pipeConns
  /\ UNCHANGED <<procs, listeners, pipeListeners, nextPipeConnId, nextClientPort, guestVars>>

(* finalize, for sockets: what the process served is free again, and the    *)
(* other end of each of its connections hears that it closed.  In which     *)
(* order a process hears of different connections makes no difference.      *)
Without(table, p) == [k \in DOMAIN table |-> IF table[k] = p THEN None ELSE table[k]]
ConnsOf_Dialled(p) ==    (* mutant: accepted connections are forgotten *)
  {c \in DOMAIN pipeConns : pipeConns[c].client = p}
ConnsOf(p) == {c \in DOMAIN pipeConns : p \in {pipeConns[c].client, pipeConns[c].server}}
Farewells(p, q) ==
  LET cs == {c \in ConnsOf(p) : q \in {pipeConns[c].client, pipeConns[c].server}}
  IN [i \in 1..Cardinality(cs) |-> Msg("pipe-close", SetToSeq(cs)[i], 0)]

Finalize(p) ==
  /\ procs' = procs \ {p}
  /\ listeners' = Without(listeners, p)
  /\ pipeListeners' = Without(pipeListeners, p)
  /\ pipeConns' = Restrict(pipeConns, DOMAIN pipeConns \ ConnsOf(p))
  /\ toGuest' = [q \in Procs |-> IF q \in procs \ {p} THEN toGuest[q] \o Farewells(p, q) ELSE <<>>]
  /\ toKernel' = [toKernel EXCEPT ![p] = <<>>]
  /\ UNCHANGED <<nextPipeConnId, nextClientPort>>

(* The process's own exit message. *)
Exited(p) ==
  /\ Takes(p, "exit")
  /\ Finalize(p)
  /\ UNCHANGED guestVars

(* A kill: the worker is terminated wherever it is, and what it posted and  *)
(* the kernel has not read yet goes nowhere.                                *)
Kill(p) ==
  /\ p \in procs
  /\ Finalize(p)
  /\ Stops(p)
  /\ parked' = [parked EXCEPT ![p] = None]
  /\ end' = [c \in Conns |-> [e \in Ends |->
       IF end[c][e].owner = p THEN [end[c][e] EXCEPT !.writer = "cut", !.inbox = <<>>, !.mapped = FALSE]
       ELSE end[c][e]]]

-----------------------------------------------------------------------------

Syscalls(p) ==
  \/ \E k \in Keys : ListenPath(p, k) \/ ListenPort(p, k) \/ ClosePath(p, k)
                     \/ ClosePort(p, k) \/ Dial(p, k)
  \/ ListenPortPath(p) \/ ClosePortPath(p)

Guest(p) ==
  \/ \E c \in Conns, e \in Ends :
       Write(p, c, e) \/ Shutdown(p, c, e) \/ Close(p, c, e) \/ Deliver(p, c, e)
  \/ Tick(p) \/ ExitGuest(p) \/ Dispatch(p)

Next == \E p \in Procs : Syscalls(p) \/ Guest(p) \/ Relay(p) \/ Exited(p) \/ Kill(p)

Spec == Init /\ [][Next]_vars

-----------------------------------------------------------------------------
(* Properties.                                                              *)

(* Who a guest believes it is and who the kernel routes to are the same: a  *)
(* live server handle owns its port, and a key its process takes dials on   *)
(* leads to that process, whatever races for the key and whoever died       *)
(* holding it (handleNet, handlePipe, TCP.listen, TCP.close).               *)
ServersAgree ==
  /\ TypeOK
  /\ \A p \in running, k \in Keys :
       /\ serving[p][k] # 0 /\ k \in Ports => listeners[k] = p
       /\ k \in pipeServers[p] => pipeListeners[k] = p

(* The peer of an endpoint in use cannot go away unnoticed: the kernel has  *)
(* the connection with both its processes, and so relays what comes, or a   *)
(* close of it is in the queue of the endpoint's own process; through a     *)
(* close, a refusal, an exit or a kill at any point (handlePipeRelay,       *)
(* finalize, dispatchPipe).  Whether the program at the other end takes the *)
(* connection it has is another matter: NobodyStranded, below.              *)
OnTheWay(p, c) == \E i \in 1..Len(toGuest[p]) :
  toGuest[p][i].type = "pipe-close" /\ toGuest[p][i].conn = c
PeerOrFarewell ==
  \A c \in Conns, e \in Ends :
    LET p == end[c][e].owner
    IN end[c][e].mapped /\ p \in procs =>
         \/ c \in DOMAIN pipeConns /\ {pipeConns[c].client, pipeConns[c].server} \subseteq procs
         \/ OnTheWay(p, c)

(* A connection's client port tells it apart from all that are open with it, *)
(* however the cursor went round the window; and when it was given it was   *)
(* nobody's to serve (allocClientPort).  A program may listen on it later.  *)
PortsApart ==
  \A c, d \in DOMAIN pipeConns :
    c # d /\ pipeConns[c].port # None => pipeConns[c].port # pipeConns[d].port
ClientPortsDiffer ==
  [][/\ PortsApart'
     /\ \A c \in DOMAIN pipeConns' \ DOMAIN pipeConns :
          pipeConns'[c].port \in Ports => listeners[pipeConns'[c].port] = None]_vars

(* The writer's side of an end, its process's exit included. *)
WriterOf(c, e) ==
  IF end[c][e].writer = "open" /\ end[c][e].owner \notin running \union {None}
  THEN "ended" ELSE end[c][e].writer

(* A connection the server's process has answered is given to the server,   *)
(* or is about to be, or is closed again ("Server vanished between listen   *)
(* and connect - tell the client it closed", dispatchPipe).  The code does  *)
(* not keep it: a server closed before the tick leaves the endpoint         *)
(* registered, nobody closes it, and the client waits for ever.             *)
NobodyStranded ==
  \A c \in Conns :
    LET p == end[c]["server"].owner
    IN end[c]["server"].mapped /\ end[c]["server"].st = "connecting" =>
         \E i \in 1..Len(ticks[p]) : ticks[p][i].conn = c /\ ticks[p][i].end = "server"

(* Both directions of every connection are faithful streams (Stream), for   *)
(* every order of the messages between three event loops and every moment a *)
(* process may end.                                                         *)
StreamIds == Conns \X Ends
Abstract == INSTANCE Stream WITH
  Ids <- StreamIds,
  sent <- [i \in StreamIds |-> end[i[1]][i[2]].sent],
  writer <- [i \in StreamIds |-> WriterOf(i[1], i[2])],
  got <- [i \in StreamIds |-> end[i[1]][Other(i[2])].got],
  reader <- [i \in StreamIds |-> end[i[1]][Other(i[2])].reader]
ImplementsStream == Abstract!Spec
===============================================================================
