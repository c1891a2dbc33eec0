------------------------------- MODULE Signals -------------------------------
(***************************************************************************)
(* Signal delivery to one process: Kernel#signal and its grace window      *)
(* (packages/kernel-host/kernel.js), the pending bits and the park in the  *)
(* process's syscall window (packages/protocol/syscall.js,                 *)
(* packages/runtime/fs-client.js), and the guest's delivery on event-loop  *)
(* turns (packages/runtime/signals.js, packages/runtime/loop.js).          *)
(*                                                                         *)
(* The kernel and the process are two threads.  They share the syscall     *)
(* window and exchange messages, which arrive in the order they were sent. *)
(* A finalized worker is terminated, so nothing the guest does after that  *)
(* is visible to anyone: guest actions are guarded by alive.               *)
(***************************************************************************)
EXTENDS Naturals, Sequences, Folds

CONSTANTS
  Sig,        (* the catchable signals in play                             *)
  KILL,       (* an uncatchable one                                        *)
  None,       (* null                                                      *)
  MaxPosts,   (* bound: how many signals the kernel posts in all           *)
  MaxQueue    (* bound: messages to the kernel that may be in flight       *)

ASSUME SignalsAssumption ==
  /\ KILL # None /\ {KILL, None} \intersect Sig = {}
  /\ MaxPosts \in Nat \ {0}
  /\ MaxQueue \in Nat \ {0}

VARIABLES
  (* the kernel's process record *)
  alive,        (* procs.has(pid) and not finalized                        *)
  sigHandlers,  (* signals the guest announced a listener for              *)
  sigUnhandled, (* the delivered signal the guest has not answered         *)
  gracePending, (* the signal the armed grace timer belongs to, or None    *)
  (* messages in flight *)
  toGuest, toKernel,
  (* the shared window *)
  bits,         (* control[I_SIGNAL]                                       *)
  state,        (* control[I_STATE]: a request is waiting, or it is not    *)
  notified,     (* an Atomics.notify reached the parked guest              *)
  (* the guest *)
  listeners,    (* signals with process.listenerCount > 0 (= announced)    *)
  pending,      (* signals.js's pending set                                *)
  draining,     (* names drain() copied and has not got to yet             *)
  pc,           (* where the event loop is                                 *)
  sys,          (* where fs-client's call() is                             *)
  netPending,   (* the loop's wake-up flag                                 *)
  exiting,      (* loop.requestExit was called                             *)
  (* history *)
  posts,        (* how often the kernel posted each signal                 *)
  runs,         (* how often each handler ran                              *)
  owed,         (* posted, and neither handled nor defaulted since         *)
  dropped,      (* was behind a handler that threw, and not posted since   *)
  stoodDown     (* the guest ever stood a window down                      *)

kernelVars == <<alive, sigHandlers, sigUnhandled, gracePending>>
windowVars == <<bits, state, notified>>
loopVars == <<pending, draining, netPending, exiting>>
history == <<posts, runs, owed, dropped, stoodDown>>
vars == <<kernelVars, toGuest, toKernel, windowVars, listeners, loopVars,
          pc, sys, history>>

Listen(s, active) == [type |-> "signal-listen", sig |-> s, active |-> active]
Handled(s) == [type |-> "signal-handled", sig |-> s]
Exit == [type |-> "exit"]

Messages == {Listen(s, a) : s \in Sig, a \in BOOLEAN} \union {Handled(s) : s \in Sig} \union {Exit}

TypeOK ==
  /\ alive \in BOOLEAN
  /\ sigHandlers \subseteq Sig
  /\ sigUnhandled \in Sig \union {None}
  /\ gracePending \in Sig \union {None}
  /\ toGuest \in Seq(Sig)
  /\ toKernel \in Seq(Messages) /\ Len(toKernel) <= MaxQueue + 1
  /\ bits \subseteq Sig
  /\ state \in {"idle", "request", "answered"}
  /\ notified \in BOOLEAN
  /\ listeners \subseteq Sig
  /\ pending \subseteq Sig
  /\ draining \subseteq Sig
  /\ pc \in {"work", "handler", "drain", "turn", "phases", "asleep", "ended"}
  /\ sys \in {"none", "entering", "waiting", "woken"}
  /\ sys # "none" => pc \in {"work", "handler"}
  /\ netPending \in BOOLEAN
  /\ exiting \in BOOLEAN
  /\ posts \in [Sig -> Nat]
  /\ runs \in [Sig -> Nat]
  /\ owed \subseteq Sig
  /\ dropped \subseteq Sig
  /\ stoodDown \in BOOLEAN

(* The main module is running; the guest has told the kernel nothing yet. *)
Init ==
  /\ alive = TRUE /\ sigHandlers = {} /\ sigUnhandled = None /\ gracePending = None
  /\ toGuest = <<>> /\ toKernel = <<>>
  /\ bits = {} /\ state = "idle" /\ notified = FALSE
  /\ listeners = {} /\ pending = {} /\ draining = {}
  /\ pc = "work" /\ sys = "none" /\ netPending = FALSE /\ exiting = FALSE
  /\ posts = [s \in Sig |-> 0] /\ runs = [s \in Sig |-> 0]
  /\ owed = {} /\ dropped = {} /\ stoodDown = FALSE

-----------------------------------------------------------------------------
(* The kernel.                                                              *)

(* finalize, for what it does to signal delivery: the grace timer is moot   *)
(* and the record is gone.                                                  *)
Finalize ==
  /\ alive' = FALSE
  /\ gracePending' = None
  /\ UNCHANGED <<sigHandlers, sigUnhandled>>

(* Mutants: the window only; nothing while a grace window is open. *)
Post_WindowOnly(s) ==
  /\ bits' = bits \union {s}
  /\ notified' = (notified \/ sys = "waiting")
  /\ UNCHANGED <<state, toGuest>>

Post_OncePerWindow(s) ==
  /\ IF gracePending = None
     THEN /\ bits' = bits \union {s}
          /\ notified' = (notified \/ sys = "waiting")
          /\ toGuest' = Append(toGuest, s)
     ELSE UNCHANGED <<bits, notified, toGuest>>
  /\ UNCHANGED state

(* postSignal and the message: both inbound paths, always. *)
Post(s) ==
  /\ bits' = bits \union {s}
  /\ notified' = (notified \/ sys = "waiting")
  /\ toGuest' = Append(toGuest, s)
  /\ UNCHANGED state

TotalPosts == MapThenFoldSet(+, 0, LAMBDA s : posts[s], LAMBDA S : CHOOSE s \in S : TRUE, Sig)

(* A signal with a handler that the guest is not already late with. *)
Signal(s) ==
  /\ alive
  /\ s \in sigHandlers /\ sigUnhandled # s
  /\ TotalPosts < MaxPosts
  /\ Post(s)
  /\ sigUnhandled' = s
  /\ gracePending' = IF gracePending = None THEN s ELSE gracePending
  /\ posts' = [posts EXCEPT ![s] = @ + 1]
  /\ owed' = owed \union {s}
  /\ dropped' = dropped \ {s}
  /\ UNCHANGED <<alive, sigHandlers, toKernel, listeners, loopVars, pc, sys, runs, stoodDown>>

(* No handler, uncatchable, or a repeat of the unanswered one: finalize now. *)
SignalApplied(s) ==
  /\ alive
  /\ s \notin sigHandlers \/ sigUnhandled = s
  /\ Finalize
  /\ UNCHANGED <<toGuest, toKernel, windowVars, listeners, loopVars, pc, sys, history>>

(* Mutant: a window that expires after the handler was removed is ignored. *)
GraceExpires_OnlyIfHandled ==
  /\ alive
  /\ gracePending # None
  /\ IF gracePending \in sigHandlers THEN Finalize
     ELSE gracePending' = None /\ UNCHANGED <<alive, sigHandlers, sigUnhandled>>
  /\ UNCHANGED <<toGuest, toKernel, windowVars, listeners, loopVars, pc, sys, history>>

GraceExpires ==
  /\ alive
  /\ gracePending # None
  /\ Finalize
  /\ UNCHANGED <<toGuest, toKernel, windowVars, listeners, loopVars, pc, sys, history>>

HandleSignalListen(m) ==
  /\ m.type = "signal-listen"
  /\ sigHandlers' = IF m.active THEN sigHandlers \union {m.sig} ELSE sigHandlers \ {m.sig}
  /\ UNCHANGED <<alive, sigUnhandled, gracePending>>

HandleSignalHandled(m) ==
  /\ m.type = "signal-handled"
  /\ sigUnhandled' = IF sigUnhandled = m.sig THEN None ELSE sigUnhandled
  /\ gracePending' = IF gracePending = m.sig THEN None ELSE gracePending
  /\ UNCHANGED <<alive, sigHandlers>>

KernelReceives ==
  /\ alive
  /\ toKernel # <<>>
  /\ LET m == Head(toKernel) IN
       \/ HandleSignalListen(m)
       \/ HandleSignalHandled(m)
       \/ m.type = "exit" /\ Finalize
  /\ toKernel' = Tail(toKernel)
  /\ UNCHANGED <<toGuest, windowVars, listeners, loopVars, pc, sys, history>>

(* respondOk / respondErr, by the kernel or the FS worker. *)
Answer ==
  /\ alive
  /\ state = "request"
  /\ state' = "answered"
  /\ notified' = (notified \/ sys = "waiting")
  /\ UNCHANGED <<kernelVars, toGuest, toKernel, bits, listeners, loopVars, pc, sys, history>>

-----------------------------------------------------------------------------
(* The guest's syscalls: call() in fs-client.js.                            *)

Syscall ==
  /\ alive
  /\ pc \in {"work", "handler"} /\ sys = "none"
  /\ state' = "request"
  /\ sys' = "entering"
  /\ UNCHANGED <<kernelVars, toGuest, toKernel, bits, notified, listeners, loopVars, pc, history>>

(* Atomics.wait: returns at once when the word is no longer REQUEST. *)
EnterWait ==
  /\ alive
  /\ sys = "entering"
  /\ sys' = IF state = "request" THEN "waiting" ELSE "woken"
  /\ notified' = FALSE
  /\ UNCHANGED <<kernelVars, toGuest, toKernel, bits, state, listeners, loopVars, pc, history>>

WakeUp ==
  /\ alive
  /\ sys = "waiting" /\ notified
  /\ sys' = "woken"
  /\ notified' = FALSE
  /\ UNCHANGED <<kernelVars, toGuest, toKernel, bits, state, listeners, loopVars, pc, history>>

(* takePendingSignals, onPending, and the re-check of the state word. *)
Harvest ==
  /\ alive
  /\ sys = "woken"
  /\ bits' = {}
  /\ pending' = pending \union bits
  /\ netPending' = (netPending \/ bits # {})
  /\ sys' = IF state = "request" THEN "entering" ELSE "none"
  /\ UNCHANGED <<kernelVars, toGuest, toKernel, state, notified, listeners, draining, exiting, pc, history>>

-----------------------------------------------------------------------------
(* The guest's JavaScript: a callback or a signal handler.                  *)

InJS == alive /\ pc \in {"work", "handler"} /\ sys = "none"

AddListener(s) ==
  /\ InJS /\ s \notin listeners /\ Len(toKernel) < MaxQueue
  /\ listeners' = listeners \union {s}
  /\ toKernel' = Append(toKernel, Listen(s, TRUE))
  /\ UNCHANGED <<kernelVars, toGuest, windowVars, loopVars, pc, sys, history>>

RemoveListener(s) ==
  /\ InJS /\ s \in listeners /\ Len(toKernel) < MaxQueue
  /\ listeners' = listeners \ {s}
  /\ toKernel' = Append(toKernel, Listen(s, FALSE))
  /\ UNCHANGED <<kernelVars, toGuest, windowVars, loopVars, pc, sys, history>>

(* standDown, which the runtime and the REPLs call as a handler finishes. *)
StandDown(s) ==
  /\ InJS /\ pc = "handler" /\ runs[s] > 0 /\ Len(toKernel) < MaxQueue
  /\ toKernel' = Append(toKernel, Handled(s))
  /\ stoodDown' = TRUE
  /\ UNCHANGED <<kernelVars, toGuest, windowVars, listeners, loopVars, pc, sys, posts, runs, owed, dropped>>

(* process.exit(): the sentinel unwinds whatever was running, and the exit *)
(* message is the last thing the guest sends.                              *)
ProcessExit ==
  /\ InJS
  /\ toKernel' = Append(toKernel, Exit)
  /\ pc' = "ended"
  /\ UNCHANGED <<kernelVars, toGuest, windowVars, listeners, loopVars, sys, history>>

(* A callback returns to its phase of the turn, a handler to the drain.    *)
EndJS ==
  /\ InJS
  /\ pc' = IF pc = "handler" THEN "drain" ELSE "phases"
  /\ UNCHANGED <<kernelVars, toGuest, toKernel, windowVars, listeners, loopVars, sys, history>>

(* Or it throws: runCallback catches, and with it ends the drain a handler *)
(* was called from, whose names had all left the pending set.  raise() runs *)
(* the 'uncaughtException' listeners and the process goes on, unless it has *)
(* none, they throw too, or it was leaving already.                         *)
Throw ==
  /\ InJS
  /\ draining' = {}
  /\ dropped' = dropped \union draining
  /\ \/ ~exiting /\ pc' = "work" /\ UNCHANGED <<exiting, toKernel>>
     \/ exiting' = TRUE /\ pc' = "ended" /\ toKernel' = Append(toKernel, Exit)
  /\ UNCHANGED <<kernelVars, toGuest, windowVars, listeners, pending, netPending, sys, posts, runs, owed, stoodDown>>

-----------------------------------------------------------------------------
(* The guest's event loop: drive() in loop.js.  Messages are dispatched     *)
(* where the loop yields a macrotask or sleeps, never inside a callback.    *)

Enqueue(s) ==
  /\ pending' = pending \union {s}
  /\ IF pc = "asleep" THEN pc' = "turn" /\ UNCHANGED netPending
     ELSE netPending' = TRUE /\ UNCHANGED pc

Dispatch ==
  /\ alive
  /\ pc \in {"turn", "phases", "asleep"}
  /\ toGuest # <<>>
  /\ Enqueue(Head(toGuest))
  /\ toGuest' = Tail(toGuest)
  /\ UNCHANGED <<kernelVars, toKernel, windowVars, listeners, draining, exiting, sys, history>>

BeginDrain ==
  /\ alive
  /\ pc = "turn"
  /\ draining' = pending
  /\ pending' = {}
  /\ pc' = "drain"
  /\ UNCHANGED <<kernelVars, toGuest, toKernel, windowVars, listeners, netPending, exiting, sys, history>>

(* The last listener was removed after the kernel posted: default action. *)
DrainDefault(s) ==
  /\ s \notin listeners
  /\ exiting' = TRUE
  /\ owed' = owed \ {s}
  /\ UNCHANGED <<pc, runs>>

RunHandler(s) ==
  /\ s \in listeners
  /\ runs' = [runs EXCEPT ![s] = @ + 1]
  /\ owed' = owed \ {s}
  /\ pc' = "handler"
  /\ UNCHANGED exiting

(* The names come out in the order they were added, which is not tracked. *)
DrainNext ==
  /\ alive
  /\ pc = "drain"
  /\ \E s \in draining :
       /\ RunHandler(s) \/ DrainDefault(s)
       /\ draining' = draining \ {s}
  /\ UNCHANGED <<kernelVars, toGuest, toKernel, windowVars, listeners, pending, netPending, sys, posts, dropped, stoodDown>>

EndDrain ==
  /\ alive
  /\ pc = "drain" /\ draining = {}
  /\ IF exiting
     THEN pc' = "ended" /\ toKernel' = Append(toKernel, Exit)
     ELSE pc' = "phases" /\ UNCHANGED toKernel
  /\ UNCHANGED <<kernelVars, toGuest, windowVars, listeners, loopVars, sys, history>>

(* Timers, sockets, children, stdin: the rest of the turn runs callbacks. *)
BeginWork ==
  /\ alive
  /\ pc = "phases"
  /\ pc' = "work"
  /\ UNCHANGED <<kernelVars, toGuest, toKernel, windowVars, listeners, loopVars, sys, history>>

(* waitForNext: a wake-up that came before it makes it return at once. *)
EndTurn ==
  /\ alive
  /\ pc = "phases"
  /\ pc' = IF netPending THEN "turn" ELSE "asleep"
  /\ netPending' = FALSE
  /\ UNCHANGED <<kernelVars, toGuest, toKernel, windowVars, listeners, pending, draining, exiting, sys, history>>

(* A timer, a socket or a child wakes the loop. *)
OtherWake ==
  /\ alive
  /\ pc = "asleep"
  /\ pc' = "turn"
  /\ UNCHANGED <<kernelVars, toGuest, toKernel, windowVars, listeners, loopVars, sys, history>>

(* No ref'd work is left: a listener or a pending signal does not count. *)
LoopEmpty ==
  /\ alive
  /\ pc = "phases"
  /\ pc' = "ended"
  /\ toKernel' = Append(toKernel, Exit)
  /\ UNCHANGED <<kernelVars, toGuest, windowVars, listeners, loopVars, sys, history>>

-----------------------------------------------------------------------------

Next ==
  \/ \E s \in Sig : Signal(s)
  \/ \E s \in Sig \union {KILL} : SignalApplied(s)
  \/ GraceExpires \/ KernelReceives \/ Answer
  \/ Syscall \/ EnterWait \/ WakeUp \/ Harvest
  \/ \E s \in Sig : AddListener(s) \/ RemoveListener(s) \/ StandDown(s)
  \/ ProcessExit \/ EndJS \/ Throw
  \/ Dispatch \/ BeginDrain \/ DrainNext \/ EndDrain
  \/ BeginWork \/ EndTurn \/ OtherWake \/ LoopEmpty

Spec == Init /\ [][Next]_vars

(* The guest's thread runs; its callbacks and handlers return; a loop that  *)
(* keeps yielding gets the messages that wait for it.                       *)
GuestFairness ==
  /\ WF_vars(EnterWait) /\ WF_vars(WakeUp) /\ WF_vars(Harvest)
  /\ SF_vars(EndJS) /\ SF_vars(Dispatch)
  /\ WF_vars(BeginDrain) /\ WF_vars(DrainNext) /\ WF_vars(EndDrain)
  /\ SF_vars(EndTurn)

(* The guest behaves, and no timer helps. *)
SpecGuestFair == Spec /\ GuestFairness /\ WF_vars(KernelReceives)

-----------------------------------------------------------------------------

(* An accepted signal that has not run yet is still on its way by one of    *)
(* the two inbound paths, whatever the guest was doing when it was posted;  *)
(* only a handler that throws can take from the guest what it has, and only *)
(* the names of its own drain.  The loop does not sleep over a signal.      *)
SignalNotLost ==
  /\ TypeOK
  /\ alive /\ pc = "asleep" => pending = {}
  /\ alive /\ pc # "ended" =>
       \A s \in owed \ dropped :
         s \in bits \union pending \union draining \/ \E i \in DOMAIN toGuest : toGuest[i] = s

(* Until the guest stands a window down, one is open from the first signal  *)
(* it was posted: a guest that catches a signal and never answers is always *)
(* one timer away from termination, whatever it does to its listeners.      *)
WindowOpenUntilStoodDown == alive /\ ~stoodDown /\ (\E s \in Sig : posts[s] > 0) => gracePending # None

(* With no timer running at all, an accepted signal reaches its handler (or *)
(* its default action) on a guest whose callbacks return and whose syscalls *)
(* are answered, unless it stood behind a handler that threw.               *)
SignalReachesHandler ==
  \A s \in Sig : ([]<>(sys = "none")) => []<>(s \notin owed \ dropped \/ ~alive \/ pc = "ended")

(* --- what the comments promise and the code does not -------------------- *)

(* signals.js: the pending set makes the two inbound paths idempotent, so a *)
(* handler runs at most once for each time its signal was posted.           *)
HandlerRunsOncePerPost == \A s \in Sig : runs[s] <= posts[s]

(* loop.js: an error a listener takes is emitted, and the process keeps     *)
(* running; but not with the signals it was given: the names behind the     *)
(* handler that threw reach neither their handler nor the default action.   *)
ThrowDropsNothing == alive /\ pc # "ended" => owed \intersect dropped \subseteq bits \union pending \union {toGuest[i] : i \in DOMAIN toGuest}

(* Kernel#signal: a caught signal has a grace window after which the        *)
(* process is terminated regardless; the window is open while it is unmet.  *)
WindowCoversUnanswered == alive /\ sigUnhandled # None => gracePending # None
==============================================================================
