------------------------------- MODULE NetRelay -------------------------------
(***************************************************************************)
(* The VM's way out: the kernel's tables of relayed connections            *)
(* (packages/kernel-host/kernel.js: setNetRelay, netAccept, netDeliverClose*)
(* netFromProc, handleNet, handlePipe, finalize), its client of the relay  *)
(* (packages/kernel-host/net-relay.js) over a WebSocket that may fail at   *)
(* any time, and a session of the reference relay (scripts/net-relay.mjs). *)
(*                                                                         *)
(* This module is about which streams exist and which ports are forwarded; *)
(* what flows on one stream is in RelayStream.  The kernel handles one     *)
(* message, packet or timer at a time; the relay runs beside it, and       *)
(* packets travel between them in order, each way.                         *)
(***************************************************************************)
EXTENDS Naturals, Sequences, FiniteSets, SequencesExt, Functions

CONSTANTS
  Procs,       (* the processes                                            *)
  Ports,       (* the ports they may serve                                 *)
  None,
  MaxConns,    (* bound: relayed connections ever made                     *)
  MaxWork      (* bound: connections, ports granted, binds another program *)
               (* defeats, WebSockets lost and relays replaced, in all     *)

ASSUME NetRelayAssumption ==
  /\ None \notin Procs \union Ports /\ IsFiniteSet(Ports)
  /\ MaxConns \in Nat /\ MaxWork \in Nat

VARIABLES
  (* the kernel *)
  procs,            (* processes it has a record of                        *)
  listeners,        (* port -> the process that serves it                  *)
  pipeListeners,    (* port -> the process that takes dials on it          *)
  pipeConns,        (* relayed connection -> its process                   *)
  netStreamByConn, netConnByStream,
  netPending,       (* dials not yet answered                              *)
  nextPipeConnId,
  told,             (* what the guest last heard of each connection        *)
  (* its client of the relay *)
  netRelay,         (* is a relay configured                               *)
  ws,               (* "none", "connecting" or "open"                      *)
  queue,            (* packets that wait for the socket to open            *)
  streams,          (* ids of the streams it knows                         *)
  nextId,
  listening,        (* ports it asked the relay to bind                    *)
  confirmed,        (* ports the relay said it has bound                   *)
  retryTimer,       (* is a reconnection scheduled                         *)
  (* the wire and the relay *)
  toRelay, toClient,
  sockets,          (* TCP sockets of the session, by stream id            *)
  reached,          (* those of them whose dial has succeeded              *)
  servers,          (* ports its map has a server for                      *)
  binding,          (* those of them whose server is still to bind         *)
  late,             (* port -> servers that left the map before they bound *)
  bound,            (* ports a server of the session listens on            *)
  refused,          (* ports it last said it could not bind                *)
  nextAcceptId,
  made, work        (* counters of the bounds                              *)

tables == <<pipeConns, netStreamByConn, netConnByStream, netPending, told>>
kernelVars == <<procs, listeners, pipeListeners, tables, nextPipeConnId>>
socketVars == <<ws, queue, retryTimer, toRelay>>
clientVars == <<netRelay, socketVars, streams, nextId, listening, confirmed>>
portVars == <<servers, binding, late, bound, refused>>
sessionVars == <<sockets, reached, portVars, nextAcceptId>>
bounds == <<made, work>>
vars == <<kernelVars, clientVars, toClient, sessionVars, bounds>>

(* Streams are numbered apart by who made them (ACCEPT_ID_FLAG). *)
Dialled == {"dial"} \X (1..MaxConns)
Accepted == {"accept"} \X (1..MaxConns)
Streams == Dialled \union Accepted
Conns == 1..MaxConns

Bounded == work < MaxWork /\ work' = work + 1

Pkt(t, x) == [type |-> t, of |-> x]
ToRelay == [type : {"CONNECT", "CLOSE"}, of : Streams] \union [type : {"LISTEN", "UNLISTEN"}, of : Ports]
ToClient == [type : {"CONNECTED"}, of : Dialled] \union [type : {"CLOSE"}, of : Streams]
            \union [type : {"ACCEPT"}, of : Accepted, port : Ports]
            \union [type : {"LISTENING"}, of : Ports, ok : BOOLEAN]

TypeOK ==
  /\ procs \subseteq Procs
  /\ listeners \in [Ports -> Procs \union {None}]
  /\ pipeListeners \in [Ports -> Procs \union {None}]
  /\ \E C \in SUBSET Conns :
       pipeConns \in [C -> Procs] /\ netStreamByConn \in [C -> Streams]
  /\ \E S \in SUBSET Streams : netConnByStream \in [S -> Conns]
  /\ netPending \subseteq Conns
  /\ told \in [Conns -> {"nothing", "dialing", "connected", "closed"}]
  /\ ws \in {"none", "connecting", "open"}
  /\ streams \subseteq Streams /\ sockets \subseteq Streams
  /\ listening \subseteq Ports /\ confirmed \subseteq listening
  /\ servers \subseteq Ports /\ binding \subseteq servers /\ late \in [Ports -> Nat]
  /\ bound \subseteq Ports /\ refused \subseteq Ports /\ reached \subseteq sockets
  /\ netRelay \in BOOLEAN /\ retryTimer \in BOOLEAN
  /\ {queue, toRelay} \subseteq Seq(ToRelay) /\ toClient \in Seq(ToClient)
  /\ {nextPipeConnId, nextId, nextAcceptId} \subseteq 1..MaxConns + 1
  /\ made \in 0..MaxConns /\ work \in 0..MaxWork

Init ==
  /\ procs = Procs
  /\ listeners = [n \in Ports |-> None] /\ pipeListeners = [n \in Ports |-> None]
  /\ pipeConns = <<>> /\ netStreamByConn = <<>> /\ netConnByStream = <<>>
  /\ netPending = {} /\ nextPipeConnId = 1
  /\ told = [c \in Conns |-> "nothing"]
  /\ netRelay \in BOOLEAN
  /\ ws = "none" /\ queue = <<>> /\ retryTimer = FALSE
  /\ streams = {} /\ nextId = 1 /\ listening = {} /\ confirmed = {}
  /\ toRelay = <<>> /\ toClient = <<>>
  /\ sockets = {} /\ reached = {}
  /\ servers = {} /\ binding = {} /\ late = [n \in Ports |-> 0] /\ bound = {} /\ refused = {}
  /\ nextAcceptId = 1
  /\ made = 0 /\ work = 0

-----------------------------------------------------------------------------
(* The client's socket.                                                     *)

(* _send, of several packets in a row: the first one opens a socket if      *)
(* there is none (_ensure); until it is open they wait.                     *)
Send(ps) ==
  IF ps = <<>> THEN UNCHANGED socketVars
  ELSE /\ ws' = IF ws = "none" THEN "connecting" ELSE ws
       /\ retryTimer' = (retryTimer /\ ws # "none")
       /\ queue' = IF ws = "open" THEN queue ELSE queue \o ps
       /\ toRelay' = IF ws = "open" THEN toRelay \o ps ELSE toRelay

(* The session ends with its socket (Session.destroy).  A server it leaves  *)
(* behind is a program of the host like any other: whom it reports to is    *)
(* gone, and it may hold its port against a later session.                  *)
NoSession ==
  /\ toClient' = <<>>
  /\ sockets' = {} /\ reached' = {}
  /\ servers' = {} /\ binding' = {} /\ late' = [n \in Ports |-> 0] /\ bound' = {} /\ refused' = {}
  /\ nextAcceptId' = 1

Forget_StillMapped(cs) ==    (* mutant: netConnByStream keeps its entries *)
  /\ pipeConns' = Restrict(pipeConns, DOMAIN pipeConns \ cs)
  /\ netStreamByConn' = Restrict(netStreamByConn, DOMAIN pipeConns \ cs)
  /\ netPending' = netPending \ cs
  /\ told' = [c \in Conns |-> IF c \in cs THEN "closed" ELSE told[c]]
  /\ UNCHANGED netConnByStream

(* netDeliverClose and netStreamClosed, of several connections. *)
Forget(cs) ==
  /\ pipeConns' = Restrict(pipeConns, DOMAIN pipeConns \ cs)
  /\ netStreamByConn' = Restrict(netStreamByConn, DOMAIN pipeConns \ cs)
  /\ netConnByStream' = Restrict(netConnByStream,
       {s \in DOMAIN netConnByStream : netConnByStream[s] \notin cs})
  /\ netPending' = netPending \ cs
  /\ told' = [c \in Conns |-> IF c \in cs THEN "closed" ELSE told[c]]

Known == DOMAIN netStreamByConn

(* ws.onopen: every port is announced again, then what waited goes out. *)
Announced(ns) == [i \in 1..Cardinality(ns) |-> Pkt("LISTEN", SetToSeq(ns)[i])]
Opens ==
  /\ ws = "connecting"
  /\ ws' = "open"
  /\ toRelay' = Announced(listening) \o queue
  /\ queue' = <<>>
  /\ UNCHANGED <<kernelVars, netRelay, streams, nextId, listening, confirmed,
                 retryTimer, toClient, sessionVars, bounds>>

(* ws.onclose, or onerror before it opened, and _down: every stream died    *)
(* with the socket, and the kernel is told once per stream.  While a port   *)
(* is forwarded a reconnection is scheduled.                                *)
Rearmed_ForDials == netPending # {}    (* mutant: only dials reconnect *)
Rearmed == listening # {}
Lost ==
  /\ ws \in {"connecting", "open"}
  /\ Bounded
  /\ ws' = "none" /\ toRelay' = <<>> /\ queue' = <<>>
  /\ streams' = {} /\ confirmed' = {}
  /\ Forget(Known)
  /\ retryTimer' = (retryTimer \/ Rearmed)
  /\ NoSession
  /\ UNCHANGED <<procs, listeners, pipeListeners, nextPipeConnId, netRelay, nextId,
                 listening, made>>

(* The timer of _scheduleReconnect. *)
Retry ==
  /\ retryTimer
  /\ retryTimer' = FALSE
  /\ ws' = IF ws = "none" /\ listening # {} THEN "connecting" ELSE ws
  /\ UNCHANGED <<kernelVars, netRelay, queue, toRelay, streams, nextId, listening,
                 confirmed, toClient, sessionVars, bounds>>

(* setNetRelay: the relay in use is dropped with its connections; a new one *)
(* is told the ports that are being served.                                 *)
SetNetRelay(on) ==
  /\ on \/ netRelay
  /\ Bounded
  /\ netRelay' = on
  /\ Forget(Known)
  /\ NoSession
  /\ LET ns == IF on THEN {n \in Ports : listeners[n] # None} ELSE {}
     IN /\ listening' = ns
        /\ queue' = Announced(ns)
        /\ ws' = IF ns = {} THEN "none" ELSE "connecting"
  /\ streams' = {} /\ confirmed' = {} /\ nextId' = 1
  /\ toRelay' = <<>> /\ retryTimer' = FALSE
  /\ UNCHANGED <<procs, listeners, pipeListeners, nextPipeConnId, made>>

-----------------------------------------------------------------------------
(* Calls of the guests.                                                     *)

TakenByOther(p, n) == listeners[n] \notin {None, p} /\ listeners[n] \in procs

(* OP_LISTEN *)
Listen(p, n) ==
  /\ p \in procs
  /\ listeners[n] # p /\ pipeListeners[n] # p
  /\ ~TakenByOther(p, n)
  /\ Bounded
  /\ listeners' = [listeners EXCEPT ![n] = p]
  /\ IF netRelay THEN listening' = listening \union {n} /\ Send(<<Pkt("LISTEN", n)>>)
     ELSE UNCHANGED <<listening, socketVars>>
  /\ UNCHANGED <<procs, pipeListeners, tables, nextPipeConnId, netRelay, streams, nextId,
                 confirmed, toClient, sessionVars, made>>

(* OP_PIPE_LISTEN on the path of a port, right after it was granted. *)
PipeListen(p, n) ==
  /\ p \in procs /\ listeners[n] = p
  /\ pipeListeners[n] \in {None, p} \/ pipeListeners[n] \notin procs
  /\ pipeListeners' = [pipeListeners EXCEPT ![n] = p]
  /\ UNCHANGED <<procs, listeners, tables, nextPipeConnId, clientVars, toClient, sessionVars, bounds>>

(* unlisten, for each of several ports. *)
Withdrawn(ns) == [i \in 1..Cardinality(ns) |-> Pkt("UNLISTEN", SetToSeq(ns)[i])]
Unlisten_StillConfirmed(ns) ==    (* mutant: the relay's word outlives the request *)
  /\ listening' = IF netRelay THEN listening \ ns ELSE listening
  /\ UNCHANGED confirmed
Unlisten(ns) ==
  /\ listening' = IF netRelay THEN listening \ ns ELSE listening
  /\ confirmed' = IF netRelay THEN confirmed \ ns ELSE confirmed

(* OP_CLOSE_SERVER *)
CloseServer(p, n) ==
  /\ p \in procs /\ listeners[n] = p
  /\ listeners' = [listeners EXCEPT ![n] = None]
  /\ Unlisten({n})
  /\ Send(IF netRelay THEN Withdrawn({n}) ELSE <<>>)
  /\ UNCHANGED <<procs, pipeListeners, tables, nextPipeConnId, netRelay, streams,
                 nextId, toClient, sessionVars, bounds>>

(* OP_PIPE_CLOSE_SERVER, right after it. *)
PipeCloseServer(p, n) ==
  /\ p \in procs /\ pipeListeners[n] = p /\ listeners[n] # p
  /\ pipeListeners' = [pipeListeners EXCEPT ![n] = None]
  /\ UNCHANGED <<procs, listeners, tables, nextPipeConnId, clientVars, toClient, sessionVars, bounds>>

(* A connection and its stream enter the tables together. *)
Opened(p, s, how) ==
  LET c == nextPipeConnId
  IN /\ nextPipeConnId' = c + 1
     /\ pipeConns' = [x \in Known \union {c} |-> IF x = c THEN p ELSE pipeConns[x]]
     /\ netStreamByConn' = [x \in Known \union {c} |-> IF x = c THEN s ELSE netStreamByConn[x]]
     /\ netConnByStream' = [x \in DOMAIN netConnByStream \union {s} |->
                              IF x = s THEN c ELSE netConnByStream[x]]
     /\ netPending' = IF how = "dialing" THEN netPending \union {c} ELSE netPending
     /\ told' = [told EXCEPT ![c] = how]

(* OP_PIPE_CONNECT to a host outside; without a relay it is refused. *)
Dial(p) ==
  /\ p \in procs /\ netRelay
  /\ Bounded /\ made < MaxConns /\ made' = made + 1
  /\ nextId' = nextId + 1
  /\ streams' = streams \union {<<"dial", nextId>>}
  /\ Send(<<Pkt("CONNECT", <<"dial", nextId>>)>>)
  /\ Opened(p, <<"dial", nextId>>, "dialing")
  /\ UNCHANGED <<procs, listeners, pipeListeners, netRelay, listening, confirmed,
                 toClient, sessionVars>>

(* netFromProc, for the pipe-close of each of several connections: those of *)
(* which the client still knows the stream are closed on the relay.         *)
StreamsOf(cs) == {netStreamByConn[c] : c \in cs} \intersect streams
Closing_Untold(cs) == <<>>    (* mutant: the relay is not told *)
Closing(cs) == [i \in 1..Cardinality(StreamsOf(cs)) |->
                  Pkt("CLOSE", SetToSeq(StreamsOf(cs))[i])]

GuestCloses(c) ==
  /\ c \in Known
  /\ Forget({c})
  /\ streams' = streams \ StreamsOf({c})
  /\ Send(Closing({c}))
  /\ UNCHANGED <<procs, listeners, pipeListeners, nextPipeConnId, netRelay, nextId,
                 listening, confirmed, toClient, sessionVars, bounds>>

(* finalize: the ports of a dead process are withdrawn and its connections  *)
(* closed.                                                                  *)
Finalize(p) ==
  /\ p \in procs
  /\ LET ns == {n \in Ports : listeners[n] = p}
         cs == {c \in Known : pipeConns[c] = p}
     IN /\ listeners' = [n \in Ports |-> IF n \in ns THEN None ELSE listeners[n]]
        /\ Unlisten(ns)
        /\ Forget(cs)
        /\ streams' = streams \ StreamsOf(cs)
        /\ Send(IF netRelay THEN Withdrawn(ns) \o Closing(cs) ELSE <<>>)
  /\ pipeListeners' = [n \in Ports |-> IF pipeListeners[n] = p THEN None ELSE pipeListeners[n]]
  /\ procs' = procs \ {p}
  /\ UNCHANGED <<nextPipeConnId, netRelay, nextId, toClient, sessionVars, bounds>>

-----------------------------------------------------------------------------
(* _onPacket, in the client.                                                *)

Takes(t) ==
  /\ toClient # <<>> /\ Head(toClient).type = t
  /\ toClient' = Tail(toClient)

OnClose ==
  /\ Takes("CLOSE")
  /\ LET s == Head(toClient).of
     IN /\ streams' = streams \ {s}
        /\ Forget({c \in Known : s \in streams /\ netStreamByConn[c] = s})
  /\ UNCHANGED <<procs, listeners, pipeListeners, nextPipeConnId, netRelay, socketVars,
                 nextId, listening, confirmed, sessionVars, bounds>>

OnConnected ==
  /\ Takes("CONNECTED")
  /\ LET s == Head(toClient).of
         cs == {c \in netPending : s \in streams /\ netStreamByConn[c] = s}
     IN /\ netPending' = netPending \ cs
        /\ told' = [c \in Conns |-> IF c \in cs THEN "connected" ELSE told[c]]
  /\ UNCHANGED <<procs, listeners, pipeListeners, pipeConns, netStreamByConn, netConnByStream,
                 nextPipeConnId, clientVars, sessionVars, bounds>>

(* netAccept: only on a port that is confirmed and served. *)
Welcome(n) ==
  /\ n \in confirmed
  /\ listeners[n] # None /\ listeners[n] \in procs
  /\ pipeListeners[n] # None

OnAccept ==
  /\ Takes("ACCEPT")
  /\ LET s == Head(toClient).of
         n == Head(toClient).port
     IN IF Welcome(n)
        THEN /\ streams' = streams \union {s}
             /\ Opened(listeners[n], s, "connected")
             /\ UNCHANGED socketVars
        ELSE /\ Send(<<Pkt("CLOSE", s)>>)
             /\ UNCHANGED <<streams, tables, nextPipeConnId>>
  /\ UNCHANGED <<procs, listeners, pipeListeners, netRelay, nextId, listening, confirmed,
                 sessionVars, bounds>>

OnListening ==
  /\ Takes("LISTENING")
  /\ LET n == Head(toClient).of
     IN confirmed' = IF Head(toClient).ok /\ n \in listening
                     THEN confirmed \union {n} ELSE confirmed \ {n}
  /\ UNCHANGED <<kernelVars, netRelay, socketVars, streams, nextId, listening, sessionVars, bounds>>

-----------------------------------------------------------------------------
(* The session of the relay, on the client's packets and on TCP.            *)

Receives(t) ==
  /\ toRelay # <<>> /\ Head(toRelay).type = t
  /\ toRelay' = Tail(toRelay)
  /\ UNCHANGED <<kernelVars, netRelay, ws, queue, retryTimer, streams, nextId, listening,
                 confirmed, bounds>>
Replies(p) == toClient' = Append(toClient, p)

RelayConnect ==
  /\ Receives("CONNECT")
  /\ sockets' = sockets \union {Head(toRelay).of}
  /\ UNCHANGED <<toClient, reached, portVars, nextAcceptId>>

RelayClose ==
  /\ Receives("CLOSE")
  /\ sockets' = sockets \ {Head(toRelay).of}
  /\ reached' = reached \ {Head(toRelay).of}
  /\ UNCHANGED <<toClient, portVars, nextAcceptId>>

(* A server is entered in the map at once and binds later.  A port the map  *)
(* has is confirmed on the spot, bound or not.                              *)
Listening(n, ok) == [type |-> "LISTENING", of |-> n, ok |-> ok]
RelayListen ==
  /\ Receives("LISTEN")
  /\ LET n == Head(toRelay).of
     IN \/ /\ n \in servers
           /\ refused' = refused \ {n}
           /\ Replies(Listening(n, TRUE))
           /\ UNCHANGED <<servers, binding>>
        \/ /\ n \notin servers
           /\ servers' = servers \union {n} /\ binding' = binding \union {n}
           /\ UNCHANGED <<refused, toClient>>
  /\ UNCHANGED <<sockets, reached, late, bound, nextAcceptId>>

(* The server in the map is closed and forgotten.  One that has not bound   *)
(* yet has nothing to close; whether it then still binds is up to the net   *)
(* module under the relay.                                                  *)
RelayUnlisten ==
  /\ Receives("UNLISTEN")
  /\ LET n == Head(toRelay).of
     IN /\ servers' = servers \ {n} /\ binding' = binding \ {n}
        /\ bound' = IF n \in servers \ binding THEN bound \ {n} ELSE bound
        /\ \/ UNCHANGED late
           \/ n \in binding /\ late' = [late EXCEPT ![n] = @ + 1]
  /\ UNCHANGED <<toClient, sockets, reached, refused, nextAcceptId>>

(* A bind succeeds, of the server in the map or of one that has left it.    *)
Binds(n) ==
  /\ n \notin bound
  /\ \/ n \in binding /\ binding' = binding \ {n} /\ UNCHANGED late
     \/ late[n] > 0 /\ late' = [late EXCEPT ![n] = @ - 1] /\ UNCHANGED binding
  /\ bound' = bound \union {n} /\ refused' = refused \ {n}
  /\ Replies(Listening(n, TRUE))
  /\ UNCHANGED <<kernelVars, clientVars, sockets, reached, servers, nextAcceptId, bounds>>

AfterError_Kept(n) == servers    (* mutant: the map keeps the port *)
AfterError(n) == servers \ {n}
(* A bind fails: another program of the host has the port, or a server of   *)
(* this session.  Whichever server the map has for the port leaves it, and  *)
(* if that one is another and still to bind it is one of the late.          *)
BindFails(n) ==
  /\ IF n \in bound THEN UNCHANGED work ELSE Bounded
  /\ \/ n \in binding /\ UNCHANGED late
     \/ late[n] > 0 /\ late' = [late EXCEPT ![n] = IF n \in binding THEN @ ELSE @ - 1]
  /\ servers' = AfterError(n) /\ binding' = binding \ {n}
  /\ refused' = refused \union {n}
  /\ Replies(Listening(n, FALSE))
  /\ UNCHANGED <<kernelVars, clientVars, sockets, reached, bound, nextAcceptId, made>>

TCP == UNCHANGED <<kernelVars, clientVars, portVars>>

(* The host's connect succeeded. *)
Connects(s) ==
  /\ s \in sockets \intersect Dialled /\ s \notin reached
  /\ reached' = reached \union {s}
  /\ Replies(Pkt("CONNECTED", s))
  /\ UNCHANGED <<sockets, nextAcceptId, bounds>> /\ TCP

(* The dial failed, or the connection ended or died. *)
Ends(s) ==
  /\ s \in sockets
  /\ sockets' = sockets \ {s} /\ reached' = reached \ {s}
  /\ Replies(Pkt("CLOSE", s))
  /\ UNCHANGED <<nextAcceptId, bounds>> /\ TCP

(* Somebody connects to a bound port of the host. *)
Accepts(n) ==
  /\ n \in bound
  /\ Bounded /\ made < MaxConns /\ made' = made + 1
  /\ nextAcceptId' = nextAcceptId + 1
  /\ LET s == <<"accept", nextAcceptId>>
     IN /\ sockets' = sockets \union {s}
        /\ Replies([type |-> "ACCEPT", of |-> s, port |-> n])
  /\ UNCHANGED reached /\ TCP

-----------------------------------------------------------------------------

Calls ==
  \E p \in Procs :
    \/ \E n \in Ports : Listen(p, n) \/ PipeListen(p, n) \/ CloseServer(p, n)
                        \/ PipeCloseServer(p, n)
    \/ Dial(p) \/ Finalize(p)

OnPacket == OnClose \/ OnConnected \/ OnAccept \/ OnListening
Session == RelayConnect \/ RelayClose \/ RelayListen \/ RelayUnlisten

Next ==
  \/ Opens \/ Lost \/ Retry
  \/ \E on \in BOOLEAN : SetNetRelay(on)
  \/ Calls
  \/ \E c \in Conns : GuestCloses(c)
  \/ OnPacket \/ Session
  \/ \E s \in Streams : Connects(s) \/ Ends(s)
  \/ \E n \in Ports : Accepts(n) \/ Binds(n) \/ BindFails(n)

(* A relay that is up takes the socket and answers, a bind settles one way  *)
(* or the other, the kernel reads what arrives, and timers fire.            *)
Fairness ==
  /\ WF_vars(Retry) /\ WF_vars(Opens)
  /\ WF_vars(OnPacket) /\ WF_vars(Session)
  /\ WF_vars(\E n \in Ports : Binds(n) \/ BindFails(n))

Spec == Init /\ [][Next]_vars /\ Fairness

-----------------------------------------------------------------------------
(* Properties.                                                              *)

Packets(q, t) == {q[i].of : i \in {j \in 1..Len(q) : q[j].type = t}}

(* The kernel's three tables, the client's streams and what the guests were *)
(* told are one relation, between any two handlers: no table keeps an entry *)
(* of a connection another has forgotten (netDeliverClose, netFromProc,     *)
(* netAccept, setNetRelay, _down).                                          *)
TablesAgree ==
  /\ TypeOK
  /\ DOMAIN pipeConns = Known
  /\ netConnByStream = [s \in Range(netStreamByConn) |->
                          CHOOSE c \in Known : netStreamByConn[c] = s]
  /\ streams = DOMAIN netConnByStream
  /\ Cardinality(streams) = Cardinality(Known)
  /\ \A c \in Conns : told[c] \in {"dialing", "connected"} <=> c \in Known
  /\ netPending = {c \in Conns : told[c] = "dialing"}

(* The client and the relay agree on the streams, up to the packets between *)
(* them: no TCP socket of the host is left that nobody in the VM owns, and  *)
(* no guest waits for a stream the relay has given up.                      *)
StreamsAgree ==
  /\ \A s \in sockets :
       \/ s \in streams
       \/ s \in Packets(toClient, "ACCEPT")
       \/ s \in Packets(toRelay, "CLOSE")
  /\ \A s \in streams :
       \/ s \in sockets
       \/ s \in Packets(queue, "CONNECT") \union Packets(toRelay, "CONNECT")
       \/ s \in Packets(toClient, "CLOSE")

(* Whatever the order in which ports changed hands, sockets broke, binds    *)
(* settled and late LISTENINGs arrived: once all that was said has been     *)
(* heard and no server in the relay's map is still to bind, the client      *)
(* counts as forwarded exactly the served ports that the relay's last word  *)
(* did not refuse, each has a server that really listens, and the relay's   *)
(* map has no other (NetRelay.listen, unlisten, _onPacket; Session.listen,  *)
(* unlisten).  That nothing else listens is NothingElseBound.               *)
AllHeard == ws = "open" /\ toRelay = <<>> /\ toClient = <<>> /\ binding = {}
BindingsSettle ==
  AllHeard =>
    /\ listening = {n \in Ports : listeners[n] # None}
    /\ confirmed = listening \ refused
    /\ servers \subseteq confirmed /\ confirmed \subseteq bound

(* A port that is given up is closed on the host ("- closed", unlisten of   *)
(* the relay): no server of the session listens on a port that the VM does  *)
(* not forward.  The code does not keep it where a server that is closed    *)
(* before it has bound binds all the same: the relay reads LISTEN and       *)
(* UNLISTEN of a port in one batch, and the server listens on, in no map;   *)
(* a later LISTEN of the port fails because of it.                          *)
NothingElseBound ==
  AllHeard /\ late = [n \in Ports |-> 0] => bound \subseteq confirmed

(* A served port is forwarded sooner or later, through lost sockets and     *)
(* relays that are replaced, unless the relay cannot bind it ("a relay      *)
(* restarted on the same URL gets the VM's servers back").                  *)
ForwardingResumes ==
  \A n \in Ports :
    []<>(n \in confirmed \union refused \/ listeners[n] = None \/ ~netRelay)
===============================================================================
