----------------------------- MODULE VirtualNet -----------------------------
(***************************************************************************)
(* The virtual network's HTTP path: the host asks the kernel for a port,   *)
(* the kernel puts the request in the inbox of the process that listens    *)
(* there and nudges its event loop, the loop drains the inbox with         *)
(* non-blocking accepts and the response comes back in frames              *)
(* (packages/kernel-host/kernel.js, packages/runtime/index.js, loop.js,    *)
(* node/bindings/net.js).  A body too large for the syscall window goes    *)
(* through a file, and the kernel awaits its write.                        *)
(*                                                                         *)
(* A guest parks in each syscall: the kernel's step and the guest's next   *)
(* are separate, and what a guest does before the kernel serves it is not  *)
(* seen by anyone.                                                         *)
(***************************************************************************)
EXTENDS Integers, Sequences

CONSTANTS
  Proc,   (* processes that may serve                                      *)
  Port,
  Req,    (* requests the host makes, once each                            *)
  Large,  (* the ones whose body is spilled to a file                      *)
  Total,  (* how many frames the response to each takes                    *)
  None

ASSUME VirtualNetAssumption ==
  /\ Large \subseteq Req /\ Total \in [Req -> Nat \ {0}]
  /\ None \notin Proc \union Port \union Req

VARIABLES
  procs,      (* kernel.procs                                              *)
  listeners,  (* kernel.listeners: port -> pid                             *)
  owner,      (* the pid a request was routed to                           *)
  request,    (* what the host's call has come to                          *)
  inbox,      (* proc.serverInbox                                          *)
  got,        (* pend.acc: frames of the response the kernel has           *)
  spilled,    (* requests with a body file nobody has unlinked: an unlink  *)
              (* that fails is not tried again and counts as done          *)
  serving,    (* the guest: ports with a listening handle; netServers      *)
  woken,      (* the guest: a net message or a wake it has not acted upon  *)
  pc,         (* the guest's loop: parked, in callbacks, draining          *)
  reply,      (* the guest: the answer of the syscall it is parked in      *)
  bridged     (* the guest: requests accepted and not answered yet         *)

kernel == <<procs, listeners, owner, request, got>>
guest == <<serving, pc, reply, bridged>>
vars == <<kernel, inbox, spilled, woken, guest>>

NoReply == [op |-> "none"]
Reply ==
  {NoReply} \union [op : {"listen"}, port : Port, ok : BOOLEAN]
  \union [op : {"close", "respond"}] \union [op : {"accept"}, req : Req \union {None}]

TypeOK ==
  /\ procs \subseteq Proc
  /\ listeners \in [Port -> Proc \union {None}]
  /\ owner \in [Req -> Proc \union {None}]
  /\ request \in [Req -> {"new", "staging", "pending", "answered", "502", "bridge502", "rejected"}]
  /\ inbox \in [Proc -> Seq(Req)]
  /\ got \in [Req -> Nat] /\ \A r \in Req : got[r] <= Total[r]
  /\ spilled \subseteq Large
  /\ serving \in [Proc -> SUBSET Port]
  /\ woken \in [Proc -> BOOLEAN]
  /\ pc \in [Proc -> {"parked", "callbacks", "draining"}]
  /\ reply \in [Proc -> Reply]
  /\ bridged \in [Proc -> SUBSET Req]

Init ==
  /\ procs = Proc /\ listeners = [t \in Port |-> None]
  /\ owner = [r \in Req |-> None] /\ request = [r \in Req |-> "new"]
  /\ inbox = [p \in Proc |-> <<>>] /\ got = [r \in Req |-> 0] /\ spilled = {}
  /\ serving = [p \in Proc |-> {}] /\ woken = [p \in Proc |-> FALSE]
  /\ pc = [p \in Proc |-> "callbacks"] /\ reply = [p \in Proc |-> NoReply]
  /\ bridged = [p \in Proc |-> {}]

(***************************************************************************)
(* The host's request.                                                     *)
(***************************************************************************)
Routed(t) == listeners[t] # None /\ listeners[t] \in procs

(* Mutant: a process is nudged only when it is parked. *)
Deliver_NudgesParked(r, p) ==
  /\ request' = [request EXCEPT ![r] = "pending"]
  /\ owner' = [owner EXCEPT ![r] = p]
  /\ inbox' = [inbox EXCEPT ![p] = Append(@, r)]
  /\ woken' = [woken EXCEPT ![p] = @ \/ pc[p] = "parked"]

(* The inbox and the nudge: postMessage to a worker that has ended does    *)
(* nothing.                                                                *)
Deliver(r, p) ==
  /\ request' = [request EXCEPT ![r] = "pending"]
  /\ owner' = [owner EXCEPT ![r] = p]
  /\ inbox' = [inbox EXCEPT ![p] = Append(@, r)]
  /\ woken' = [woken EXCEPT ![p] = TRUE]

(* handleHttpRequest, with no server. *)
NoServer(r, t) ==
  /\ request[r] = "new" /\ ~Routed(t)
  /\ request' = [request EXCEPT ![r] = "502"]
  /\ UNCHANGED <<procs, listeners, owner, got, inbox, spilled, woken, guest>>

(* ... with a body that crosses inline: nothing comes between the check    *)
(* and the inbox.                                                          *)
RequestInline(r, t) ==
  /\ request[r] = "new" /\ Routed(t) /\ r \notin Large
  /\ Deliver(r, listeners[t])
  /\ UNCHANGED <<procs, listeners, got, spilled, guest>>

(* ... up to the await in _stageInboundBody ...                            *)
RequestSpills(r, t) ==
  /\ request[r] = "new" /\ Routed(t) /\ r \in Large
  /\ request' = [request EXCEPT ![r] = "staging"]
  /\ owner' = [owner EXCEPT ![r] = listeners[t]]
  /\ UNCHANGED <<procs, listeners, got, inbox, spilled, woken, guest>>

(* ... and from there on: the process is not looked up again.              *)
Staged(r) ==
  /\ request[r] = "staging"
  /\ spilled' = spilled \union {r}
  /\ Deliver(r, owner[r])
  /\ UNCHANGED <<procs, listeners, got, guest>>

StageFails(r) ==
  /\ request[r] = "staging"
  /\ request' = [request EXCEPT ![r] = "rejected"]
  /\ UNCHANGED <<procs, listeners, owner, got, inbox, spilled, woken, guest>>

(***************************************************************************)
(* Syscalls: the kernel's step, then the guest's.                          *)
(***************************************************************************)
InCallbacks(p) == p \in procs /\ pc[p] = "callbacks" /\ reply[p] = NoReply
Answer(p, a) == reply' = [reply EXCEPT ![p] = a]

(* Mutant: the port's owner is not looked up. *)
Taken_Unchecked(p, t) == FALSE

(* handleNet, OP_LISTEN. *)
Taken(p, t) == listeners[t] # None /\ listeners[t] # p /\ listeners[t] \in procs

SysListen(p, t) ==
  /\ InCallbacks(p) /\ t \notin serving[p]
  /\ listeners' = IF Taken(p, t) THEN listeners ELSE [listeners EXCEPT ![t] = p]
  /\ Answer(p, [op |-> "listen", port |-> t, ok |-> ~Taken(p, t)])
  /\ UNCHANGED <<procs, owner, request, got, inbox, spilled, woken, serving, pc, bridged>>

(* TCP.listen goes on; 'listening' is emitted on a tick, which wakes the loop. *)
Listening(p) ==
  /\ reply[p].op = "listen"
  /\ serving' = IF reply[p].ok THEN [serving EXCEPT ![p] = @ \union {reply[p].port}] ELSE serving
  /\ woken' = [woken EXCEPT ![p] = TRUE]
  /\ Answer(p, NoReply)
  /\ UNCHANGED <<kernel, inbox, spilled, pc, bridged>>

(* TCP.close and handleNet, OP_CLOSE_SERVER.  The guest drops the handle   *)
(* before the call; it is parked until the answer.                         *)
SysClose(p, t) ==
  /\ InCallbacks(p) /\ t \in serving[p]
  /\ serving' = [serving EXCEPT ![p] = @ \ {t}]
  /\ listeners' = IF listeners[t] = p THEN [listeners EXCEPT ![t] = None] ELSE listeners
  /\ Answer(p, [op |-> "close"])
  /\ UNCHANGED <<procs, owner, request, got, inbox, spilled, woken, pc, bridged>>

(* handleRespond: one frame; the last one resolves the host's call. *)
Frame(r) ==
  /\ got' = [got EXCEPT ![r] = IF request[r] = "pending" THEN @ + 1 ELSE @]
  /\ request' = [request EXCEPT ![r] =
                   IF @ = "pending" /\ got[r] + 1 >= Total[r] THEN "answered" ELSE @]

SysRespond(p, r) ==
  /\ InCallbacks(p) /\ r \in bridged[p]
  /\ Frame(r)
  /\ Answer(p, [op |-> "respond"])
  /\ UNCHANGED <<procs, listeners, owner, inbox, spilled, woken, serving, pc, bridged>>

(* The frames of one response are sent in one stretch of the guest's code. *)
SysRespondRest(p, r) ==
  /\ p \in procs /\ reply[p].op = "respond" /\ r \in bridged[p]
  /\ 0 < got[r] /\ got[r] < Total[r]
  /\ Frame(r)
  /\ UNCHANGED <<procs, listeners, owner, inbox, spilled, woken, guest>>

Responded(p) ==
  /\ \/ reply[p].op = "respond" /\ \A r \in bridged[p] : got[r] \in {0, Total[r]}
     \/ reply[p].op = "close"
  /\ Answer(p, NoReply)
  /\ bridged' = [bridged EXCEPT ![p] = {r \in @ : got[r] = 0}]
  /\ UNCHANGED <<kernel, inbox, spilled, woken, serving, pc>>

(* handleAccept, from doNet's loop. *)
SysAccept(p) ==
  /\ p \in procs /\ pc[p] = "draining" /\ reply[p] = NoReply
  /\ IF inbox[p] = <<>>
     THEN Answer(p, [op |-> "accept", req |-> None]) /\ UNCHANGED inbox
     ELSE /\ Answer(p, [op |-> "accept", req |-> Head(inbox[p])])
          /\ inbox' = [inbox EXCEPT ![p] = Tail(@)]
  /\ UNCHANGED <<kernel, spilled, woken, serving, pc, bridged>>

(***************************************************************************)
(* The guest's event loop.                                                 *)
(***************************************************************************)
(* doNet: no server of its own, no accept. *)
DoNet(p) ==
  /\ InCallbacks(p)
  /\ pc' = [pc EXCEPT ![p] = IF serving[p] = {} THEN "parked" ELSE "draining"]
  /\ UNCHANGED <<kernel, inbox, spilled, woken, serving, reply, bridged>>

(* Mutant: the body file is read and not unlinked. *)
Accepted_KeepsFile(p) ==
  /\ reply[p].op = "accept" /\ reply[p].req # None
  /\ bridged' = [bridged EXCEPT ![p] = @ \union {reply[p].req}]
  /\ Answer(p, NoReply)
  /\ UNCHANGED <<kernel, inbox, spilled, woken, serving, pc>>

(* bridgeHttp(ev): the body file is read and unlinked, and the request is  *)
(* with the guest's own http stack, which answers it.                      *)
Accepted(p) ==
  /\ reply[p].op = "accept" /\ reply[p].req # None
  /\ bridged' = [bridged EXCEPT ![p] = @ \union {reply[p].req}]
  /\ spilled' = spilled \ {reply[p].req}
  /\ Answer(p, NoReply)
  /\ UNCHANGED <<kernel, inbox, woken, serving, pc>>

(* ... or http.request throws, or the body cannot be read: a 502 is sent at *)
(* once, in one frame, and bridgeHttp returns before the unlink.           *)
BridgeFails(p) ==
  /\ reply[p].op = "accept" /\ reply[p].req # None
  /\ request' = [request EXCEPT ![reply[p].req] = IF @ = "pending" THEN "bridge502" ELSE @]
  /\ Answer(p, [op |-> "respond"])
  /\ UNCHANGED <<procs, listeners, owner, got, inbox, spilled, woken, serving, pc, bridged>>

(* The inbox is empty: on to the rest of the turn and to waitForNext. *)
Drained(p) ==
  /\ reply[p] = [op |-> "accept", req |-> None]
  /\ pc' = [pc EXCEPT ![p] = "parked"]
  /\ Answer(p, NoReply)
  /\ UNCHANGED <<kernel, inbox, spilled, woken, serving, bridged>>

(* A new turn: for a net message, or for a timer or another handle.        *)
Turn(p) ==
  /\ p \in procs /\ pc[p] = "parked"
  /\ pc' = [pc EXCEPT ![p] = "callbacks"]
  /\ woken' = [woken EXCEPT ![p] = FALSE]
  /\ UNCHANGED <<kernel, inbox, spilled, serving, reply, bridged>>

(***************************************************************************)
(* The end of a process, at any point.                                     *)
(***************************************************************************)
(* Mutant: only the requests the process had accepted are settled. *)
OwedBy_Accepted(p) == {r \in Req : request[r] = "pending" /\ r \in bridged[p]}

OwedBy(p) == {r \in Req : request[r] = "pending" /\ owner[r] = p}

Finalize(p) ==
  /\ p \in procs
  /\ procs' = procs \ {p}
  /\ listeners' = [t \in Port |-> IF listeners[t] = p THEN None ELSE listeners[t]]
  /\ request' = [r \in Req |-> IF r \in OwedBy(p) THEN "502" ELSE request[r]]
  /\ spilled' = spilled \ OwedBy(p)
  /\ inbox' = [inbox EXCEPT ![p] = <<>>]
  /\ serving' = [serving EXCEPT ![p] = {}] /\ woken' = [woken EXCEPT ![p] = FALSE]
  /\ pc' = [pc EXCEPT ![p] = "parked"] /\ Answer(p, NoReply)
  /\ bridged' = [bridged EXCEPT ![p] = {}]
  /\ UNCHANGED <<owner, got>>

Host == \E r \in Req, t \in Port : NoServer(r, t) \/ RequestInline(r, t) \/ RequestSpills(r, t)
Returns(p) == Listening(p) \/ Responded(p) \/ Accepted(p) \/ Drained(p)
Syscall(p) ==
  \/ \E t \in Port : SysListen(p, t) \/ SysClose(p, t)
  \/ \E r \in Req : SysRespond(p, r) \/ SysRespondRest(p, r)
  \/ SysAccept(p)

Next ==
  \/ Host
  \/ \E r \in Req : Staged(r) \/ StageFails(r)
  \/ \E p \in Proc : Syscall(p) \/ Returns(p) \/ BridgeFails(p) \/ DoNet(p) \/ Turn(p) \/ Finalize(p)

Spec == Init /\ [][Next]_vars

(***************************************************************************)
(* Fairness: the kernel serves, a parked guest's thread goes on when it is *)
(* answered, and the file system settles a write.  A turn's callbacks      *)
(* return (SF: other callbacks may keep coming).  A bridged request is     *)
(* work in the guest's own http stack, on ticks and immediates that keep   *)
(* the loop turning.  The program served answers what it accepts: an       *)
(* assumption about it, not about the runtime.                             *)
(***************************************************************************)
ServerFair ==
  /\ \A p \in Proc : WF_vars(Returns(p) \/ BridgeFails(p)) /\ WF_vars(SysAccept(p)) /\ SF_vars(DoNet(p))
                     /\ WF_vars((woken[p] \/ bridged[p] # {}) /\ Turn(p))
  /\ \A p \in Proc, r \in Req : SF_vars(SysRespond(p, r)) /\ WF_vars(SysRespondRest(p, r))
  /\ \A r \in Req : WF_vars(Staged(r) \/ StageFails(r))

SpecServed == Spec /\ ServerFair

(***************************************************************************)
(* Properties.                                                             *)
(***************************************************************************)
(* The kernel's port table and the guests agree: a server that listens is  *)
(* the one requests are routed to, so no two processes serve one port, and *)
(* no port stays bound to a process that does not serve it or has ended.   *)
PortTableAgrees ==
  \A p \in Proc, t \in Port :
    /\ t \in serving[p] => listeners[t] = p
    /\ listeners[t] = p => p \in procs /\ (t \in serving[p] \/ reply[p] = [op |-> "listen", port |-> t, ok |-> TRUE])

(* A request without a spilled body never waits for a process that has     *)
(* ended: finalize settles everything it owed.                             *)
InlineRequestSettledAtExit ==
  \A r \in Req \ Large : request[r] = "pending" => owner[r] \in procs

(* The same for every request: "so a fetch that was waiting on a now-dead  *)
(* server does not hang forever".                                          *)
RequestSettledAtExit == \A r \in Req : request[r] = "pending" => owner[r] \in procs

(* A pending request is in one place of the live process that owes it: its *)
(* inbox, an accept's answer, or its http server.                          *)
Held(p, r) ==
  \/ \E i \in DOMAIN inbox[p] : inbox[p][i] = r
  \/ reply[p] = [op |-> "accept", req |-> r]
  \/ r \in bridged[p]
RequestHeld == \A r \in Req : request[r] = "pending" /\ owner[r] \in procs => Held(owner[r], r)

(* No lost wakeup: a server with a request in its inbox never sleeps       *)
(* without a wake on its way.                                              *)
NoLostNudge ==
  \A p \in procs : inbox[p] # <<>> /\ serving[p] # {} /\ pc[p] = "parked" => woken[p]

(* A body file belongs to a request that is still owed, or to one the      *)
(* guest's bridge gave up before it took the body; nobody else leaves one. *)
SpilledFileOwed == \A r \in spilled : request[r] \in {"pending", "bridge502"}

(* What is pending is held by who owes it, and only a pending request or   *)
(* one the bridge refused keeps its file.                                  *)
RequestsAccounted == RequestHeld /\ SpilledFileOwed

(* "The VFS lives in Wasm RAM, so an upload abandoned mid-flight would     *)
(* hold onto it for the rest of the session": that no settled request      *)
(* keeps its file is finalize's promise, and not true of bridgeHttp's 502. *)
FileGoneOnceSettled == \A r \in spilled : request[r] = "pending"

(* A request is answered, unless its server stops listening or ends while  *)
(* the body is staged.                                                     *)
RequestAnswered ==
  \A r \in Req : request[r] \in {"staging", "pending"} ~>
    \/ request[r] \in {"answered", "502", "bridge502", "rejected"}
    \/ \E p \in Proc : owner[r] = p /\ serving[p] = {}
=============================================================================
