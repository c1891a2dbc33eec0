------------------------------ MODULE RelayStream ------------------------------
(***************************************************************************)
(* One TCP connection that leaves the VM, from the guest's socket to the   *)
(* program at the other end: the guest's handle (bindings/net.js), the     *)
(* kernel and its relay client (kernel.js: netFromProc, netDeliverClose;   *)
(* net-relay.js: send, consumed, shutdown, close, _drain, _onPacket), and  *)
(* the relay's end of the stream with its TCP socket (scripts/             *)
(* net-relay.mjs: Session).  Which streams there are is in NetRelay.       *)
(*                                                                         *)
(* Four queues lie between them: guest and kernel post messages, client    *)
(* and relay send packets.  Both directions are paced: the relay grants    *)
(* the client credit for packets (CONTINUE), and the client acknowledges   *)
(* what the guest took in (ACK).                                           *)
(***************************************************************************)
EXTENDS Naturals, Sequences, FiniteSets

CONSTANTS
  CREDIT,        (* packets the relay grants at a time                     *)
  RELAY_WINDOW,  (* packets it leaves unacknowledged                       *)
  ACK_EVERY,     (* packets consumed before the client acknowledges        *)
  MaxChunks      (* bound: chunks both sides ever write                    *)

ASSUME RelayStreamAssumption ==
  /\ CREDIT \in Nat /\ CREDIT > 1
  /\ ACK_EVERY \in Nat \ {0} /\ RELAY_WINDOW \in Nat /\ ACK_EVERY <= RELAY_WINDOW
  /\ MaxChunks \in Nat

VARIABLES
  guest,      (* the guest's handle: state, inbox, what it wrote and read  *)
  toKernel, toGuest,
  mapped,     (* the kernel's tables know the connection                   *)
  pending,    (* its dial is not answered                                  *)
  stream,     (* the client's record of the stream                         *)
  toRelay, toClient,
  socket,     (* the relay's record, with its TCP socket                   *)
  peer,       (* the program at the other end                              *)
  cut         (* directions that were cut off                              *)

vars == <<guest, toKernel, toGuest, mapped, pending, stream, toRelay, toClient, socket, peer, cut>>

EOF == 0
Chunks == 1..MaxChunks
ERR == MaxChunks + 1    (* a read error in an inbox *)

Pkt(t, n) == [type |-> t, n |-> n]

(* What the queues carry.  A close tells an orderly end (EOF) or an error.  *)
ToKernel == [type : {"pipe-data"}, n : Chunks]
            \union [type : {"pipe-read"}, n : {1}]
            \union [type : {"pipe-shutdown", "pipe-close"}, n : {0}]
ToGuest == [type : {"pipe-data"}, n : Chunks]
           \union [type : {"pipe-connected", "pipe-shutdown"}, n : {0}]
           \union [type : {"pipe-close"}, n : {EOF, ERR}]
ToRelay == [type : {"DATA"}, n : Chunks]
           \union [type : {"ACK"}, n : Nat]
           \union [type : {"CONNECT", "SHUTDOWN", "CLOSE"}, n : {0}]
ToClient == [type : {"DATA"}, n : Chunks]
            \union [type : {"CONTINUE"}, n : {CREDIT}]
            \union [type : {"CONNECTED", "SHUTDOWN"}, n : {0}]
            \union [type : {"CLOSE"}, n : {EOF, ERR}]

Handle == [st : {"dialing", "open", "closed"}, inbox : Seq(0..ERR), sent : 0..MaxChunks,
           writer : {"open", "ended"}, got : 0..MaxChunks, reader : {"reading", "eof", "error"}]
Record == [exists : BOOLEAN, credit : 0..CREDIT, sendq : Seq(Chunks), shutdownPending : BOOLEAN,
           connected : BOOLEAN, consumed : Nat, acked : Nat]
Session == [exists : BOOLEAN, connected : BOOLEAN, used : Nat, needDrain : BOOLEAN, sent : 0..MaxChunks,
            acked : Nat, paused : BOOLEAN, out : Seq(Chunks), fin : BOOLEAN, ended : BOOLEAN]
Program == [sent : 0..MaxChunks, writer : {"open", "ended"}, got : 0..MaxChunks,
            reader : {"reading", "eof"}]

TypeOK ==
  /\ guest \in Handle /\ stream \in Record /\ socket \in Session /\ peer \in Program
  /\ toKernel \in Seq(ToKernel) /\ toGuest \in Seq(ToGuest)
  /\ toRelay \in Seq(ToRelay) /\ toClient \in Seq(ToClient)
  /\ mapped \in BOOLEAN /\ pending \in BOOLEAN
  /\ cut \subseteq {"out", "in"}

NoSocket == [exists |-> FALSE, connected |-> FALSE, used |-> 0, needDrain |-> FALSE,
             sent |-> 0, acked |-> 0, paused |-> FALSE,
             out |-> <<>>,      (* written, and not yet taken by TCP        *)
             fin |-> FALSE,     (* socket.end was called, by SHUTDOWN or by  *)
                                (* Node once the peer's end was read         *)
             ended |-> FALSE]   (* the peer's end was read                   *)

(* A dial whose CONNECT has been sent, or an accepted connection whose      *)
(* ACCEPT the kernel has handled, with the CONTINUE that follows it.        *)
Init ==
  /\ \E dial \in BOOLEAN :
       /\ guest = [st |-> IF dial THEN "dialing" ELSE "open", inbox |-> <<>>,
                   sent |-> 0, writer |-> "open", got |-> 0, reader |-> "reading"]
       /\ pending = dial
       /\ stream = [exists |-> TRUE, credit |-> CREDIT, sendq |-> <<>>, shutdownPending |-> FALSE,
                    connected |-> ~dial, consumed |-> 0, acked |-> 0]
       /\ toRelay = IF dial THEN <<Pkt("CONNECT", 0)>> ELSE <<>>
       /\ toClient = IF dial THEN <<>> ELSE <<Pkt("CONTINUE", CREDIT)>>
       /\ socket = IF dial THEN NoSocket
                   ELSE [NoSocket EXCEPT !.exists = TRUE, !.connected = TRUE]
  /\ mapped = TRUE
  /\ toKernel = <<>> /\ toGuest = <<>>
  /\ peer = [sent |-> 0, writer |-> "open", got |-> 0, reader |-> "reading"]
  /\ cut = {}

-----------------------------------------------------------------------------
(* The guest.                                                               *)

relayVars == <<mapped, pending, stream, toRelay, toClient, socket, peer>>
Posts(t, n) == toKernel' = Append(toKernel, Pkt(t, n))

(* doWrite *)
Write ==
  /\ guest.st = "open" /\ guest.writer = "open" /\ guest.sent + peer.sent < MaxChunks
  /\ guest' = [guest EXCEPT !.sent = @ + 1]
  /\ Posts("pipe-data", guest.sent + 1)
  /\ UNCHANGED <<toGuest, relayVars, cut>>

(* shutdown *)
Shutdown ==
  /\ guest.st = "open" /\ guest.writer = "open"
  /\ guest' = [guest EXCEPT !.writer = "ended"]
  /\ Posts("pipe-shutdown", 0)
  /\ UNCHANGED <<toGuest, relayVars, cut>>

(* close, at any time: what was written and has not left is lost.           *)
Close ==
  /\ guest.st \in {"dialing", "open"}
  /\ guest' = [guest EXCEPT !.st = "closed", !.inbox = <<>>]
  /\ Posts("pipe-close", 0)
  /\ cut' = cut \union {"out"}
  /\ UNCHANGED <<toGuest, relayVars>>

(* deliver: a chunk the stream takes in is acknowledged to the kernel. *)
Deliver ==
  /\ guest.st = "open" /\ guest.reader = "reading" /\ guest.inbox # <<>>
  /\ LET x == Head(guest.inbox)
     IN /\ guest' = [guest EXCEPT !.inbox = Tail(@),
             !.got = IF x \in Chunks THEN x ELSE @,
             !.reader = IF x = EOF THEN "eof" ELSE IF x = ERR THEN "error" ELSE "reading"]
        /\ IF x \in Chunks THEN Posts("pipe-read", 1) ELSE UNCHANGED toKernel
  /\ UNCHANGED <<toGuest, relayVars, cut>>

(* dispatchPipe; an endpoint that was closed is no longer known.            *)
Dispatch ==
  /\ toGuest # <<>>
  /\ toGuest' = Tail(toGuest)
  /\ LET m == Head(toGuest)
         refused == guest.st = "dialing" /\ m.type = "pipe-close"
     IN \/ guest.st = "closed" /\ UNCHANGED guest
        \/ /\ guest.st # "closed" /\ m.type = "pipe-connected"
           /\ guest' = [guest EXCEPT !.st = "open"]
        \/ refused /\ guest' = [guest EXCEPT !.st = "closed"]
        \/ /\ guest.st # "closed" /\ m.type # "pipe-connected" /\ ~refused
           /\ guest' = [guest EXCEPT !.inbox = Append(@, m.n)]
  /\ UNCHANGED <<toKernel, relayVars, cut>>

-----------------------------------------------------------------------------
(* The kernel and its client.                                               *)

(* _drain: what credit allows leaves, then the half-close that waited.      *)
Least(a, b) == IF a < b THEN a ELSE b
Leaving(st) == Least(Len(st.sendq), st.credit)
Drained(st) ==
  LET k == Leaving(st)
  IN [st EXCEPT !.sendq = SubSeq(@, k + 1, Len(@)), !.credit = @ - k,
                !.shutdownPending = @ /\ k < Len(st.sendq)]
Packets_EndFirst(st) ==    (* mutant: the half-close does not wait for the data *)
  LET data == [i \in 1..Leaving(st) |-> Pkt("DATA", st.sendq[i])]
  IN IF st.shutdownPending THEN <<Pkt("SHUTDOWN", 0)>> \o data ELSE data
Packets(st) ==
  LET k == Leaving(st)
      data == [i \in 1..k |-> Pkt("DATA", st.sendq[i])]
  IN IF st.shutdownPending /\ k = Len(st.sendq) THEN Append(data, Pkt("SHUTDOWN", 0)) ELSE data

Drains(st) == stream' = Drained(st) /\ toRelay' = toRelay \o Packets(st)

(* consumed: acknowledged in batches. *)
AckDue(st) == st.consumed - st.acked >= ACK_EVERY
Consumed(st) ==
  /\ stream' = IF AckDue(st) THEN [st EXCEPT !.acked = st.consumed] ELSE st
  /\ toRelay' = IF AckDue(st) THEN Append(toRelay, Pkt("ACK", st.consumed)) ELSE toRelay

(* netFromProc *)
FromGuest ==
  /\ toKernel # <<>>
  /\ toKernel' = Tail(toKernel)
  /\ LET m == Head(toKernel)
     IN IF ~mapped THEN UNCHANGED <<stream, toRelay, mapped, pending>>
        ELSE \/ /\ m.type = "pipe-data"
                /\ Drains([stream EXCEPT !.sendq = Append(@, m.n)])
                /\ UNCHANGED <<mapped, pending>>
             \/ /\ m.type = "pipe-read"
                /\ Consumed([stream EXCEPT !.consumed = @ + m.n])
                /\ UNCHANGED <<mapped, pending>>
             \/ /\ m.type = "pipe-shutdown"
                /\ Drains([stream EXCEPT !.shutdownPending = TRUE])
                /\ UNCHANGED <<mapped, pending>>
             \/ /\ m.type = "pipe-close"
                /\ stream' = [stream EXCEPT !.exists = FALSE, !.sendq = <<>>]
                /\ toRelay' = Append(toRelay, Pkt("CLOSE", 0))
                /\ mapped' = FALSE /\ pending' = FALSE
  /\ UNCHANGED <<guest, toGuest, toClient, socket, peer, cut>>

Tells(t, n) == toGuest' = Append(toGuest, Pkt(t, n))

(* netDeliverClose: an error (ERR) or an orderly end.                       *)
Closed(n) ==
  /\ Tells("pipe-close", n)
  /\ mapped' = FALSE /\ pending' = FALSE
  /\ stream' = [stream EXCEPT !.exists = FALSE, !.sendq = <<>>]

(* _onPacket; packets of a stream the client has forgotten are dropped. *)
OnPacket ==
  /\ toClient # <<>>
  /\ toClient' = Tail(toClient)
  /\ LET m == Head(toClient)
     IN IF ~stream.exists THEN UNCHANGED <<stream, toRelay, toGuest, mapped, pending>>
        ELSE \/ /\ m.type = "CONTINUE"
                /\ Drains([stream EXCEPT !.credit = m.n])
                /\ UNCHANGED <<toGuest, mapped, pending>>
             \/ /\ m.type = "DATA" /\ Tells("pipe-data", m.n)
                /\ UNCHANGED <<stream, toRelay, mapped, pending>>
             \/ /\ m.type = "SHUTDOWN" /\ Tells("pipe-shutdown", EOF)
                /\ UNCHANGED <<stream, toRelay, mapped, pending>>
             \/ /\ m.type = "CONNECTED" /\ Tells("pipe-connected", 0)
                /\ stream' = [stream EXCEPT !.connected = TRUE]
                /\ pending' = FALSE
                /\ UNCHANGED <<toRelay, mapped>>
             \/ /\ m.type = "CLOSE" /\ Closed(m.n)
                /\ UNCHANGED toRelay
  /\ UNCHANGED <<guest, toKernel, socket, peer, cut>>

-----------------------------------------------------------------------------
(* The relay's session.                                                     *)

Sends(ps) == toClient' = toClient \o ps

(* topUp: more credit once half is used and TCP has room.                   *)
Topped_WhenSpent(s) == ~s.needDrain /\ s.used > CREDIT    (* mutant: off by one *)
Topped(s) == ~s.needDrain /\ s.used >= CREDIT \div 2
ToppedUp(s) ==
  /\ socket' = IF Topped(s) THEN [s EXCEPT !.used = 0] ELSE s
  /\ Sends(IF Topped(s) THEN <<Pkt("CONTINUE", CREDIT)>> ELSE <<>>)

(* The window is full: the peer's socket is paused, until an ACK makes room.*)
Full_OffByOne(sent, acked) == sent - acked > RELAY_WINDOW    (* mutant *)
Full(sent, acked) == sent - acked >= RELAY_WINDOW
Acked(s, n) == [s EXCEPT !.acked = n, !.paused = @ /\ Full(s.sent, n)]

(* Session.onPacket.  A socket that Node has ended because the peer had     *)
(* ended takes no more writes: it is destroyed (writeAfterFIN, EPIPE).      *)
Gone == [NoSocket EXCEPT !.connected = socket.connected, !.fin = TRUE,
                         !.sent = socket.sent, !.acked = socket.acked]
OnRelayPacket ==
  /\ toRelay # <<>>
  /\ toRelay' = Tail(toRelay)
  /\ LET m == Head(toRelay)
     IN \/ /\ m.type = "CONNECT"
           /\ socket' = [NoSocket EXCEPT !.exists = TRUE]
           /\ UNCHANGED <<toClient, cut>>
        \/ /\ m.type # "CONNECT" /\ ~socket.exists
           /\ UNCHANGED <<socket, toClient, cut>>
        \/ /\ m.type = "DATA" /\ socket.exists /\ ~socket.fin
           /\ \E full \in BOOLEAN :
                ToppedUp([socket EXCEPT !.used = @ + 1, !.out = Append(@, m.n),
                                        !.needDrain = @ \/ full])
           /\ UNCHANGED cut
        \/ /\ m.type = "DATA" /\ socket.exists /\ socket.fin
           /\ socket' = Gone
           /\ Sends(<<Pkt("CLOSE", ERR)>>)
           /\ UNCHANGED cut
        \/ /\ m.type = "SHUTDOWN" /\ socket.exists
           /\ socket' = [socket EXCEPT !.fin = TRUE]
           /\ UNCHANGED <<toClient, cut>>
        \/ /\ m.type = "ACK" /\ socket.exists
           /\ socket' = Acked(socket, m.n)
           /\ UNCHANGED <<toClient, cut>>
        \/ /\ m.type = "CLOSE" /\ socket.exists
           /\ socket' = Gone
           /\ UNCHANGED <<toClient, cut>>
  /\ UNCHANGED <<guest, toKernel, toGuest, mapped, pending, stream, peer>>

vmVars == <<guest, toKernel, toGuest, mapped, pending, stream, toRelay>>

(* The host's connect succeeds, or fails. *)
Connects ==
  /\ socket.exists /\ ~socket.connected
  /\ socket' = [socket EXCEPT !.connected = TRUE]
  /\ Sends(<<Pkt("CONNECTED", 0)>>)
  /\ UNCHANGED <<vmVars, peer, cut>>

DialFails ==
  /\ socket.exists /\ ~socket.connected
  /\ socket' = Gone
  /\ Sends(<<Pkt("CLOSE", ERR)>>)
  /\ UNCHANGED <<vmVars, peer, cut>>

Live == socket.exists /\ socket.connected

(* 'data': one packet per chunk; a full window pauses the socket. *)
OnData ==
  /\ Live /\ ~socket.paused /\ socket.sent < peer.sent
  /\ Sends(<<Pkt("DATA", socket.sent + 1)>>)
  /\ socket' = [socket EXCEPT !.sent = @ + 1,
                              !.paused = Full(socket.sent + 1, socket.acked)]
  /\ UNCHANGED <<vmVars, peer, cut>>

(* 'end': the half-close goes on; Node then ends the other direction too,   *)
(* for the sockets are made without allowHalfOpen.                          *)
OnEnd ==
  /\ Live /\ ~socket.paused /\ socket.sent = peer.sent
  /\ peer.writer = "ended" /\ ~socket.ended
  /\ Sends(<<Pkt("SHUTDOWN", 0)>>)
  /\ socket' = [socket EXCEPT !.ended = TRUE, !.fin = TRUE]
  /\ cut' = IF socket.fin THEN cut ELSE cut \union {"out"}
  /\ UNCHANGED <<vmVars, peer>>

(* TCP takes a written chunk; when the last one has gone, 'drain'.          *)
Flush ==
  /\ Live /\ socket.out # <<>>
  /\ peer' = [peer EXCEPT !.got = Head(socket.out)]
  /\ LET s == [socket EXCEPT !.out = Tail(@)]
     IN IF s.needDrain /\ s.out = <<>> THEN ToppedUp([s EXCEPT !.needDrain = FALSE])
        ELSE socket' = s /\ UNCHANGED toClient
  /\ UNCHANGED <<vmVars, cut>>

(* 'close', once both directions have ended. *)
OnClose ==
  /\ Live /\ socket.ended /\ socket.fin /\ socket.out = <<>>
  /\ socket' = Gone
  /\ Sends(<<Pkt("CLOSE", EOF)>>)
  /\ UNCHANGED <<vmVars, peer, cut>>

-----------------------------------------------------------------------------
(* The peer, and what can go wrong.                                         *)

PeerWrites ==
  /\ Live /\ peer.writer = "open" /\ guest.sent + peer.sent < MaxChunks
  /\ peer' = [peer EXCEPT !.sent = @ + 1]
  /\ UNCHANGED <<vmVars, socket, toClient, cut>>

PeerEnds ==
  /\ Live /\ peer.writer = "open"
  /\ peer' = [peer EXCEPT !.writer = "ended"]
  /\ UNCHANGED <<vmVars, socket, toClient, cut>>

(* The peer learns that the stream has ended. *)
PeerReadsEnd ==
  /\ peer.reader = "reading"
  /\ socket.connected /\ socket.fin /\ socket.out = <<>>
  /\ peer' = [peer EXCEPT !.reader = "eof"]
  /\ UNCHANGED <<vmVars, socket, toClient, cut>>

(* The TCP connection dies: 'error'. *)
Reset ==
  /\ Live
  /\ socket' = Gone
  /\ Sends(<<Pkt("CLOSE", ERR)>>)
  /\ cut' = {"out", "in"}
  /\ UNCHANGED <<vmVars, peer>>

(* The WebSocket is lost: _down tells the guest, and the session ends. *)
WebSocketLost ==
  /\ stream.exists
  /\ Closed(ERR)
  /\ toRelay' = <<>> /\ toClient' = <<>>
  /\ socket' = Gone
  /\ cut' = {"out", "in"}
  /\ UNCHANGED <<guest, toKernel, peer>>

-----------------------------------------------------------------------------

Guest == Write \/ Shutdown \/ Close \/ Deliver \/ Dispatch
Relay == OnRelayPacket \/ Connects \/ DialFails \/ OnData \/ OnEnd \/ Flush \/ OnClose
Peer == PeerWrites \/ PeerEnds \/ PeerReadsEnd \/ Reset

Next == Guest \/ FromGuest \/ OnPacket \/ Relay \/ Peer \/ WebSocketLost

(* Event loops turn and TCP moves; nobody has to write, end or close.  The  *)
(* guest reads (a flowing socket), and so does the peer.                    *)
Fairness ==
  /\ WF_vars(Deliver) /\ WF_vars(Dispatch) /\ WF_vars(FromGuest) /\ WF_vars(OnPacket)
  /\ WF_vars(OnRelayPacket) /\ WF_vars(Connects \/ DialFails)
  /\ WF_vars(OnData) /\ WF_vars(OnEnd) /\ WF_vars(Flush) /\ WF_vars(OnClose)
  /\ WF_vars(PeerReadsEnd)

Spec == Init /\ [][Next]_vars /\ Fairness

-----------------------------------------------------------------------------
(* Properties.                                                              *)

(* However slowly the guest reads, what the relay has sent it and it has    *)
(* not taken in stays within the window: a fast peer is held back at TCP.   *)
InboundBounded ==
  /\ TypeOK
  /\ stream.acked <= stream.consumed /\ stream.consumed <= guest.got
  /\ socket.acked <= socket.sent /\ socket.sent <= peer.sent
  /\ socket.exists /\ guest.st # "closed" => socket.sent - guest.got <= RELAY_WINDOW

(* Both directions are faithful streams, through credit, acknowledgement,   *)
(* half-closes, a lost WebSocket and a reset: nothing is reordered or       *)
(* doubled, and an end is told only behind the last chunk, unless the       *)
(* direction was cut.                                                       *)
Abstract == INSTANCE Stream WITH
  Ids <- {"out", "in"},
  sent <- [i \in {"out", "in"} |-> IF i = "out" THEN guest.sent ELSE peer.sent],
  writer <- [i \in {"out", "in"} |-> IF i \in cut THEN "cut"
                                     ELSE IF i = "out" THEN guest.writer ELSE peer.writer],
  got <- [i \in {"out", "in"} |-> IF i = "out" THEN peer.got ELSE guest.got],
  reader <- [i \in {"out", "in"} |-> IF i = "out" THEN peer.reader ELSE guest.reader]
ImplementsStream == Abstract!Spec

(* Pacing never stops a stream for good: what one side wrote the other      *)
(* reads, and an end is told, unless the direction is cut or the guest goes.*)
EverythingArrives ==
  /\ []<>(peer.got = guest.sent \/ "out" \in cut)
  /\ []<>(guest.got = peer.sent \/ "in" \in cut \/ guest.st = "closed")
  /\ []<>(guest.writer = "ended" => peer.reader = "eof" \/ "out" \in cut)
  /\ []<>(peer.writer = "ended" => guest.reader = "eof" \/ "in" \in cut \/ guest.st = "closed")
===============================================================================
