------------------------------ MODULE GuestInput ------------------------------
(***************************************************************************)
(* What reaches a process that may be parked: its standard input and the   *)
(* commands of the debugger.  A running guest takes both from its message  *)
(* queue, on turns of its loop; a parked one cannot, so each has a second  *)
(* route through shared memory: OP_READ_STDIN answers in the syscall       *)
(* window, and a command rides the one slot of packages/protocol/debug.js. *)
(* Which route is taken is the kernel's belief, and the kernel learns late *)
(* what the guest does (packages/kernel-host/kernel.js; debugger.js and    *)
(* index.js of packages/runtime; debug-session.ts of packages/studio).     *)
(*                                                                         *)
(* The guest is one that uses both: a Python program that is debugged and  *)
(* calls input().  Commands are numbered, but for run, which opens the     *)
(* start gate, and resume, which stands for every way to leave a pause;    *)
(* what the numbered ones do is left out, and a pause may come at any time.*)
(***************************************************************************)
EXTENDS Naturals, Sequences, SequencesExt, FiniteSets

CONSTANTS
  Oversized,   (* the numbered commands that exceed DBG_DATA_BYTES         *)
  run, resume, (* the commands that end a wait                             *)
  None,        (* no command                                               *)
  MaxCmds,     (* bound: numbered commands the studio sends                *)
  MaxClicks,   (* bound: resumes it sends for one pause it shows           *)
  MaxPauses,   (* bound: times the guest pauses                            *)
  MaxChunks    (* bound: chunks of input                                   *)

ASSUME GuestInputAssumption ==
  /\ {MaxCmds, MaxPauses, MaxClicks} \subseteq Nat /\ MaxChunks \in Nat \ {0}
  /\ Oversized \subseteq 1..MaxCmds
  /\ run # resume /\ {run, resume} \intersect 1..MaxCmds = {}
  /\ None \notin 1..MaxCmds \union {run, resume}

VARIABLES
  (* the studio: the pause it shows, its clicks for it, commands sent *)
  shown, clicks, sentCmds, attached,
  (* channels: studio to kernel and back, guest to kernel, kernel to guest *)
  toKernel, toStudio, fromGuest, mailbox,
  (* the kernel: who runs, who is captured, and the debugger's routing *)
  alive, capture, debugPaused, debugQueue, retry,
  syncStdin, stdinWaiting, stdinQueue, stdinEnded,
  (* shared memory: the command slot and the syscall window *)
  slot, window,
  (* the guest: what its thread does, how often it paused *)
  thread, pauses,
  (* history: input sent, input seen by either reader, commands carried out, *)
  (* and that the studio let the news of the present pause pass             *)
  typed, flowed, returned, handled, missed

studio == <<shown, clicks, sentCmds, attached, missed>>
channels == <<toKernel, toStudio, fromGuest, mailbox>>
debug == <<debugPaused, debugQueue, retry, slot>>
stdin == <<syncStdin, stdinWaiting, stdinQueue, stdinEnded, window, returned>>
guest == <<thread, pauses>>
vars == <<studio, channels, alive, capture, debug, stdin, guest, typed, flowed, handled>>

Cmds == 1..MaxCmds \union {run, resume}
EOF == 0                  (* the null chunk *)
Chunks == 0..MaxChunks
Cmd(c) == [type |-> "dbg-cmd", of |-> c]
Input(c) == [type |-> "stdin", of |-> c]
Idle == [st |-> "idle", chunk |-> EOF]
Requested == [st |-> "request", chunk |-> EOF]
Answered(c) == [st |-> "answered", chunk |-> c]
Empty == [st |-> "end", chunk |-> EOF]      (* zero bytes, with no chunk behind them *)

TypeOK ==
  /\ {shown, attached, missed, alive, capture, debugPaused, retry, syncStdin, stdinWaiting, stdinEnded} \subseteq BOOLEAN
  /\ clicks \in 0..MaxClicks /\ sentCmds \in 0..MaxCmds /\ pauses \in 0..MaxPauses
  /\ {toKernel, debugQueue} \subseteq Seq(Cmds)
  /\ {toStudio, fromGuest} \subseteq Seq({"paused", "resumed", "gone"})
  /\ mailbox \in Seq({Cmd(c) : c \in Cmds} \union {Input(c) : c \in Chunks})
  /\ slot \in Cmds \union {None}
  /\ window \in {Idle, Requested, Empty} \union {Answered(c) : c \in Chunks}
  /\ thread \in {"gate", "run", "paused", "read", "ended"}
  /\ {typed, flowed, returned, stdinQueue} \subseteq Seq(Chunks)
  /\ handled \in Seq(1..MaxCmds)

-----------------------------------------------------------------------------
(* The debugger's commands, in the kernel.                                  *)

(* _drainDebugQueue: the slot takes one command if it is empty and the     *)
(* command fits; with more to come, or none that goes in, a timer tries    *)
(* again.                                                                   *)
GoesIn(q) == q # <<>> /\ slot = None /\ Head(q) \notin Oversized
Drain_ShiftsFirst(q) ==    (* mutant: shift() before the write is known to have worked *)
  /\ slot' = IF GoesIn(q) THEN Head(q) ELSE slot
  /\ debugQueue' = IF q # <<>> THEN Tail(q) ELSE q
  /\ retry' = (debugQueue' # <<>>)
Drain_NoTimer(q) ==    (* mutant: nobody tries again *)
  /\ slot' = IF GoesIn(q) THEN Head(q) ELSE slot
  /\ debugQueue' = IF GoesIn(q) THEN Tail(q) ELSE q
  /\ retry' = FALSE
Drain(q) ==
  /\ slot' = IF GoesIn(q) THEN Head(q) ELSE slot
  /\ debugQueue' = IF GoesIn(q) THEN Tail(q) ELSE q
  /\ retry' = (debugQueue' # <<>>)

(* debugCommand: by the slot while the kernel believes the guest parked,    *)
(* by message otherwise.                                                    *)
DebugCommand ==
  /\ toKernel # <<>>
  /\ toKernel' = Tail(toKernel)
  /\ IF alive /\ debugPaused
     THEN Drain(Append(debugQueue, Head(toKernel))) /\ UNCHANGED mailbox
     ELSE /\ mailbox' = IF alive THEN Append(mailbox, Cmd(Head(toKernel))) ELSE mailbox
          /\ UNCHANGED <<debugQueue, retry, slot>>
  /\ UNCHANGED <<studio, toStudio, fromGuest, alive, capture, debugPaused, stdin, guest, typed, flowed, handled>>

Retry ==
  /\ alive /\ retry /\ Drain(debugQueue)
  /\ UNCHANGED <<studio, channels, alive, capture, debugPaused, stdin, guest, typed, flowed, handled>>

(* handleDebugEvent, which also tells the studio. *)
HandleDebugEvent ==
  /\ alive /\ fromGuest # <<>>
  /\ fromGuest' = Tail(fromGuest)
  /\ toStudio' = Append(toStudio, Head(fromGuest))
  /\ debugPaused' = (Head(fromGuest) = "paused")
  /\ IF Head(fromGuest) = "resumed" THEN Drain(debugQueue) ELSE UNCHANGED <<debugQueue, retry, slot>>
  /\ UNCHANGED <<studio, toKernel, mailbox, alive, capture, stdin, guest, typed, flowed, handled>>

-----------------------------------------------------------------------------
(* Standard input, in the kernel.                                           *)

(* A chunk from the terminal or from the parent, EOF the last: to a reader  *)
(* that blocks through the window or its queue, to any other by message.    *)
SendStdin(c) ==
  /\ alive /\ ~capture
  /\ EOF \notin ToSet(typed) /\ c \in {EOF, Len(typed) + 1} \intersect Chunks
  /\ typed' = Append(typed, c)
  /\ IF syncStdin
     THEN /\ stdinEnded' = (stdinEnded \/ c = EOF)
          /\ IF stdinWaiting
             THEN window' = Answered(c) /\ stdinWaiting' = FALSE /\ UNCHANGED stdinQueue
             ELSE stdinQueue' = Append(stdinQueue, c) /\ UNCHANGED <<window, stdinWaiting>>
          /\ UNCHANGED mailbox
     ELSE /\ mailbox' = Append(mailbox, Input(c))
          /\ UNCHANGED <<stdinEnded, stdinWaiting, stdinQueue, window>>
  /\ UNCHANGED <<studio, toKernel, toStudio, fromGuest, alive, capture, debug, syncStdin, returned,
                 guest, flowed, handled>>

(* handleReadStdin: from now on input is kept for this reader; what is       *)
(* there is handed over, an end stays an end, and otherwise it parks.        *)
HandleReadStdin_EndFirst ==    (* mutant: the end is looked at before the queue *)
  /\ alive /\ window = Requested /\ ~stdinWaiting
  /\ syncStdin' = TRUE
  /\ CASE stdinEnded \/ capture -> window' = Empty /\ UNCHANGED <<stdinQueue, stdinWaiting>>
       [] ~(stdinEnded \/ capture) /\ stdinQueue # <<>> ->
            /\ window' = Answered(Head(stdinQueue)) /\ stdinQueue' = Tail(stdinQueue)
            /\ UNCHANGED stdinWaiting
       [] OTHER -> stdinWaiting' = TRUE /\ UNCHANGED <<window, stdinQueue>>
  /\ UNCHANGED <<studio, channels, alive, capture, debug, stdinEnded, returned, guest, typed, flowed, handled>>
HandleReadStdin ==
  /\ alive /\ window = Requested /\ ~stdinWaiting
  /\ syncStdin' = TRUE
  /\ CASE stdinQueue # <<>> ->
            /\ window' = Answered(Head(stdinQueue)) /\ stdinQueue' = Tail(stdinQueue)
            /\ UNCHANGED stdinWaiting
       [] stdinQueue = <<>> /\ (stdinEnded \/ capture) -> window' = Empty /\ UNCHANGED <<stdinQueue, stdinWaiting>>
       [] OTHER -> stdinWaiting' = TRUE /\ UNCHANGED <<window, stdinQueue>>
  /\ UNCHANGED <<studio, channels, alive, capture, debug, stdinEnded, returned, guest, typed, flowed, handled>>

(* finalize: the process and its debug channel are gone, the studio hears.  *)
Finalize ==
  /\ alive /\ alive' = FALSE /\ thread' = "ended"
  /\ debugPaused' = FALSE /\ debugQueue' = <<>> /\ retry' = FALSE /\ slot' = None
  /\ mailbox' = <<>> /\ fromGuest' = <<>> /\ toStudio' = Append(toStudio, "gone")
  /\ UNCHANGED <<studio, toKernel, capture, stdin, pauses, typed, flowed, handled>>

-----------------------------------------------------------------------------
(* The guest's thread.                                                      *)

Parked == thread \in {"gate", "paused"}
Resumes == thread' = "run" /\ fromGuest' = Append(fromGuest, "resumed")
Ends(c) == c = resume \/ (thread = "gate" /\ c = run)
CarriedOut(c) == handled' = IF c \in 1..MaxCmds THEN Append(handled, c) ELSE handled

(* readDebugCommandBlocking in the start gate (waitForStart) or in the pump *)
(* of a pause (doPause), and the command it returns.                        *)
TakeCommand ==
  /\ Parked /\ slot # None
  /\ slot' = None
  /\ CarriedOut(slot)
  /\ IF Ends(slot) THEN Resumes ELSE UNCHANGED <<thread, fromGuest>>
  /\ UNCHANGED <<studio, toKernel, toStudio, mailbox, alive, capture, debugPaused, debugQueue, retry, stdin,
                 pauses, typed, flowed>>

(* Nobody opened the gate in time. *)
GateTimesOut ==
  /\ thread = "gate" /\ Resumes
  /\ UNCHANGED <<studio, toKernel, toStudio, mailbox, alive, capture, debug, stdin, pauses, typed, flowed, handled>>

Pause ==
  /\ thread = "run" /\ pauses < MaxPauses
  /\ thread' = "paused" /\ pauses' = pauses + 1
  /\ fromGuest' = Append(fromGuest, "paused")
  /\ UNCHANGED <<studio, toKernel, toStudio, mailbox, alive, capture, debug, stdin, typed, flowed, handled>>

(* The next message, on a turn of the loop: dispatchStdin or                *)
(* dispatchDebugCommand, where a resume is acknowledged and does nothing.   *)
HandleMail ==
  /\ thread = "run" /\ mailbox # <<>>
  /\ LET m == Head(mailbox)
     IN IF m.type = "stdin" THEN flowed' = Append(flowed, m.of) /\ UNCHANGED handled
        ELSE CarriedOut(m.of) /\ UNCHANGED flowed
  /\ mailbox' = Tail(mailbox)
  /\ UNCHANGED <<studio, toKernel, toStudio, fromGuest, alive, capture, debug, stdin, guest, typed>>

(* input(): __ocReadStdin, the call and its return. *)
ReadStdin ==
  /\ thread = "run" /\ thread' = "read" /\ window' = Requested
  /\ UNCHANGED <<studio, channels, alive, capture, debug, syncStdin, stdinWaiting, stdinQueue, stdinEnded,
                 returned, pauses, typed, flowed, handled>>
Return ==
  /\ thread = "read" /\ window.st \in {"answered", "end"}
  /\ thread' = "run" /\ window' = Idle
  /\ returned' = IF window.st = "answered" THEN Append(returned, window.chunk) ELSE returned
  /\ UNCHANGED <<studio, channels, alive, capture, debug, syncStdin, stdinWaiting, stdinQueue, stdinEnded,
                 pauses, typed, flowed, handled>>

-----------------------------------------------------------------------------
(* The studio's session (DebugSession).                                     *)

(* attach: the breakpoints it has, then the word that opens the gate. *)
Attach ==
  /\ ~attached /\ attached' = TRUE
  /\ \E n \in 0..MaxCmds : sentCmds' = n /\ toKernel' = toKernel \o [i \in 1..n |-> i] \o <<run>>
  /\ UNCHANGED <<shown, clicks, missed, toStudio, fromGuest, mailbox, alive, capture, debug, stdin, guest, typed, flowed, handled>>

(* A breakpoint that is set later, an evaluation, a request to pause. *)
SendCmd ==
  /\ attached /\ sentCmds < MaxCmds
  /\ sentCmds' = sentCmds + 1 /\ toKernel' = Append(toKernel, sentCmds')
  /\ UNCHANGED <<shown, clicks, attached, missed, toStudio, fromGuest, mailbox, alive, capture, debug, stdin, guest,
                 typed, flowed, handled>>

(* ctrl: resume and the steps, while a pause is shown. *)
Click ==
  /\ shown /\ clicks < MaxClicks
  /\ clicks' = clicks + 1 /\ toKernel' = Append(toKernel, resume)
  /\ UNCHANGED <<shown, sentCmds, attached, missed, toStudio, fromGuest, mailbox, alive, capture, debug, stdin, guest,
                 typed, flowed, handled>>

(* onPaused, onResumed, detachState; of a target it is not attached to, the *)
(* studio hears nothing, and attach does not ask.                           *)
StudioHears ==
  /\ toStudio # <<>> /\ toStudio' = Tail(toStudio)
  /\ shown' = (attached /\ Head(toStudio) = "paused")
  /\ missed' = (~attached /\ Head(toStudio) = "paused")
  /\ clicks' = IF Head(toStudio) = "paused" THEN 0 ELSE clicks
  /\ UNCHANGED <<sentCmds, attached, toKernel, fromGuest, mailbox, alive, capture, debug, stdin, guest,
                 typed, flowed, handled>>

-----------------------------------------------------------------------------
(* A captured process has all its input at birth, sent like any other        *)
(* (closeCapturedStdin, handleSpawn); the debugger's route starts as the    *)
(* parked one, for the guest starts in the gate.                             *)
Init ==
  /\ shown = FALSE /\ clicks = 0 /\ sentCmds = 0 /\ attached = FALSE /\ missed = FALSE
  /\ toKernel = <<>> /\ toStudio = <<>> /\ fromGuest = <<>>
  /\ alive = TRUE /\ capture \in BOOLEAN
  /\ typed \in IF capture THEN {<<EOF>>, <<1, EOF>>} ELSE {<<>>}
  /\ mailbox = [i \in DOMAIN typed |-> Input(typed[i])]
  /\ debugPaused = TRUE /\ debugQueue = <<>> /\ retry = FALSE /\ slot = None
  /\ syncStdin = FALSE /\ stdinWaiting = FALSE /\ stdinQueue = <<>> /\ stdinEnded = FALSE
  /\ window = Idle /\ returned = <<>>
  /\ thread = "gate" /\ pauses = 0 /\ flowed = <<>> /\ handled = <<>>

Kernel == DebugCommand \/ Retry \/ HandleDebugEvent \/ HandleReadStdin \/ (\E c \in Chunks : SendStdin(c)) \/ Finalize
Guest == TakeCommand \/ GateTimesOut \/ Pause \/ HandleMail \/ ReadStdin \/ Return
Studio == Attach \/ SendCmd \/ Click \/ StudioHears
Next == Kernel \/ Guest \/ Studio

(* Threads that are not parked run, timers fire, and somebody sits at the   *)
(* studio who wants the program to go on.  Nothing is assumed of the gate's *)
(* timer, of who types, or of what the guest does when it runs.             *)
Fairness ==
  /\ WF_vars(DebugCommand) /\ WF_vars(Retry) /\ WF_vars(HandleDebugEvent)
  /\ WF_vars(TakeCommand)
  /\ WF_vars(StudioHears) /\ WF_vars(Attach) /\ WF_vars(shown /\ clicks = 0 /\ Click)

Spec == Init /\ [][Next]_vars /\ Fairness

-----------------------------------------------------------------------------
(* Properties.                                                              *)

(* The input among the first n messages of a queue, and among all of them. *)
Taking(s, msg) == IF msg.type = "stdin" THEN Append(s, msg.of) ELSE s
InputUpTo(q) ==
  LET F[n \in 0..Len(q)] == IF n = 0 THEN <<>> ELSE Taking(F[n-1], q[n]) IN F
InputIn(q) == InputUpTo(q)[Len(q)]
InWindow == IF window.st = "answered" THEN <<window.chunk>> ELSE <<>>

(* What was sent by message, and what was kept for a reader that blocks. *)
ByMessage == flowed \o InputIn(mailbox)
ByWindow == returned \o InWindow \o stdinQueue

(* Whenever the first blocking read falls, each chunk takes one of the two  *)
(* routes, once, and keeps its place on it: all that goes by message was    *)
(* sent before all that goes through the window.  The bare end is told to a *)
(* reader that had the end already, or that nobody can send anything, and   *)
(* with nothing left for it; none parks while something is kept for it, or  *)
(* after an end unless that end went by message (sendStdin,                 *)
(* handleReadStdin).  Between the two routes no order is promised: see      *)
(* NothingOvertaken.                                                        *)
InputKept ==
  /\ TypeOK
  /\ alive => ByMessage \o ByWindow = typed
  /\ window = Empty => stdinQueue = <<>> /\ (capture \/ EOF \in ToSet(returned))
  /\ alive /\ stdinWaiting =>
       stdinQueue = <<>> /\ ~capture /\ (EOF \in ToSet(typed) => EOF \in ToSet(ByMessage))

(* A command of the studio is in one place, until it is carried out once:   *)
(* the route may change under it, never lose it or double it (debugCommand, *)
(* _drainDebugQueue, readDebugCommandBlocking).                             *)
Positions(q, x) == {i \in DOMAIN q : q[i] = x}
Places(c) ==
  {"toKernel"} \X Positions(toKernel, c) \union {"debugQueue"} \X Positions(debugQueue, c)
    \union {"slot"} \X Positions(<<slot>>, c) \union {"mailbox"} \X Positions(mailbox, Cmd(c))
    \union {"handled"} \X Positions(handled, c)
CommandsKept ==
  alive => \A c \in 1..MaxCmds : Cardinality(Places(c)) = IF c <= sentCmds THEN 1 ELSE 0

(* A guest that is parked, in the gate or in a pause, goes on when the       *)
(* studio says so, although the kernel's belief lags behind both of them:    *)
(* unless a command that never fits stands before it, or the studio was not  *)
(* attached when the pause was told.                                         *)
Blocked == debugQueue # <<>> /\ Head(debugQueue) \in Oversized
ParkedGoesOn == []<>(~Parked \/ Blocked \/ missed)

(* "A running worker gets its commands as ordinary postMessages"             *)
(* (packages/protocol/debug.js): it does not, when they crossed its          *)
(* "resumed"; they wait for the next pause, and later ones overtake them.    *)
RunningGetsItsCommands ==
  alive /\ thread = "run" /\ fromGuest = <<>> => debugQueue = <<>> /\ slot = None

(* "Once input has ended it stays ended: a reader that parked here would     *)
(* never be woken by anything" (Kernel#handleReadStdin): it does park, when  *)
(* the end was sent before the first blocking read.                          *)
EndedReaderIsTold == EOF \in ToSet(typed) => ~stdinWaiting

(* The first blocking read switches the route so that nothing goes "to the   *)
(* flowing stream, where the synchronous reader will never look for it"      *)
(* (Kernel#handleReadStdin): what went there before the switch stays there,  *)
(* and the reader is given the next chunk, or an end, ahead of it.           *)
NothingOvertaken == window.st \in {"answered", "end"} => InputIn(mailbox) = <<>>
===============================================================================
