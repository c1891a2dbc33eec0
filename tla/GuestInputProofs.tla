--------------------------- MODULE GuestInputProofs ---------------------------
(***************************************************************************)
(* Input and commands of a process, for any number of either, any number   *)
(* of pauses and any set of commands that do not fit: none is lost or told *)
(* twice, whenever a route changes, and input keeps its order on its route.*)
(***************************************************************************)
EXTENDS GuestInput, FiniteSetTheorems, SequenceTheorems, WellFoundedInduction, TLAPS

Msgs == {Cmd(c) : c \in Cmds} \union {Input(c) : c \in Chunks}
Windows == {Idle, Requested, Empty} \union {Answered(c) : c \in Chunks}

(* A message is told by its type; so is the state of the window.           *)
LEMMA MsgParts ==
  /\ \A c \in Cmds : Cmd(c) \in Msgs /\ Cmd(c).type = "dbg-cmd" /\ Cmd(c).of = c
  /\ \A c \in Chunks : Input(c) \in Msgs /\ Input(c).type = "stdin" /\ Input(c).of = c
  /\ \A m \in Msgs : IF m.type = "stdin" THEN m.of \in Chunks /\ m = Input(m.of)
                                         ELSE m.of \in Cmds /\ m = Cmd(m.of)
<1>1. \A c : Cmd(c).type = "dbg-cmd" /\ Cmd(c).of = c /\ Input(c).type = "stdin" /\ Input(c).of = c
  BY DEF Cmd, Input
<1>2. \A m \in Msgs : (\E c \in Cmds : m = Cmd(c)) \/ \E c \in Chunks : m = Input(c)
  BY DEF Msgs
<1>3. (\A c \in Cmds : Cmd(c) \in Msgs) /\ \A c \in Chunks : Input(c) \in Msgs
  BY DEF Msgs
<1>. QED
  BY <1>1, <1>2, <1>3

LEMMA WindowParts ==
  /\ Idle.st = "idle" /\ Requested.st = "request" /\ Empty.st = "end"
  /\ \A c \in Chunks : Answered(c).st = "answered" /\ Answered(c).chunk = c
  /\ \A w \in Windows : w.st = "answered" => w.chunk \in Chunks
  /\ \A w \in Windows : w.st = "end" => w = Empty
BY DEF Windows, Idle, Requested, Empty, Answered

LEMMA Numbers == EOF \in Chunks /\ 1 \in Chunks /\ MaxCmds \in Nat /\ MaxClicks \in Nat /\ MaxPauses \in Nat
BY GuestInputAssumption DEF Chunks, EOF

(* What a queue that loses its head or gets one more consists of.          *)
LEMMA TailOf ==
  ASSUME NEW T, NEW q \in Seq(T), q # <<>>
  PROVE  Tail(q) \in Seq(T) /\ Head(q) \in T
OBVIOUS

LEMMA AppendOf ==
  ASSUME NEW T, NEW q \in Seq(T), NEW x \in T
  PROVE  Append(q, x) \in Seq(T)
OBVIOUS

TypeInv ==
  /\ shown \in BOOLEAN /\ attached \in BOOLEAN /\ missed \in BOOLEAN /\ alive \in BOOLEAN /\ capture \in BOOLEAN
  /\ debugPaused \in BOOLEAN /\ retry \in BOOLEAN
  /\ syncStdin \in BOOLEAN /\ stdinWaiting \in BOOLEAN /\ stdinEnded \in BOOLEAN
  /\ clicks \in 0..MaxClicks /\ sentCmds \in 0..MaxCmds /\ pauses \in 0..MaxPauses
  /\ toKernel \in Seq(Cmds) /\ debugQueue \in Seq(Cmds)
  /\ toStudio \in Seq({"paused", "resumed", "gone"}) /\ fromGuest \in Seq({"paused", "resumed", "gone"})
  /\ mailbox \in Seq(Msgs)
  /\ slot \in Cmds \union {None}
  /\ window \in Windows
  /\ thread \in {"gate", "run", "paused", "read", "ended"}
  /\ typed \in Seq(Chunks) /\ flowed \in Seq(Chunks) /\ returned \in Seq(Chunks) /\ stdinQueue \in Seq(Chunks)
  /\ handled \in Seq(1..MaxCmds)

LEMMA TypeInvIsTypeOK == TypeInv <=> TypeOK
BY DEF TypeInv, TypeOK, Msgs, Windows

LEMMA DrainType ==
  ASSUME TypeInv, NEW q \in Seq(Cmds), Drain(q)
  PROVE  slot' \in Cmds \union {None} /\ debugQueue' \in Seq(Cmds) /\ retry' \in BOOLEAN
<1>1. GoesIn(q) => Tail(q) \in Seq(Cmds) /\ Head(q) \in Cmds
  BY DEF GoesIn
<1>. QED
  BY <1>1 DEF Drain, TypeInv

LEMMA InitType == Init => TypeInv
<1>. SUFFICES ASSUME Init PROVE TypeInv
  OBVIOUS
<1>1. typed \in Seq(Chunks) /\ (typed = <<>> \/ typed = <<EOF>> \/ typed = <<1, EOF>>)
  BY Numbers DEF Init
<1>2. mailbox \in Seq(Msgs)
  <2>1. \A i \in DOMAIN typed : Input(typed[i]) \in Msgs
    BY <1>1, MsgParts
  <2>. QED
    BY <1>1, <2>1 DEF Init
<1>3. Idle \in Windows /\ 0 \in 0..MaxClicks /\ 0 \in 0..MaxCmds /\ 0 \in 0..MaxPauses
  BY Numbers DEF Windows
<1>. QED
  <2>1. /\ shown \in BOOLEAN /\ attached \in BOOLEAN /\ missed \in BOOLEAN /\ alive \in BOOLEAN /\ capture \in BOOLEAN
        /\ debugPaused \in BOOLEAN /\ retry \in BOOLEAN
        /\ syncStdin \in BOOLEAN /\ stdinWaiting \in BOOLEAN /\ stdinEnded \in BOOLEAN
        /\ clicks \in 0..MaxClicks /\ sentCmds \in 0..MaxCmds /\ pauses \in 0..MaxPauses
        /\ slot \in Cmds \union {None} /\ window \in Windows
        /\ thread \in {"gate", "run", "paused", "read", "ended"}
    BY <1>3 DEF Init
  <2>2. /\ toKernel \in Seq(Cmds) /\ debugQueue \in Seq(Cmds)
        /\ toStudio \in Seq({"paused", "resumed", "gone"}) /\ fromGuest \in Seq({"paused", "resumed", "gone"})
        /\ flowed \in Seq(Chunks) /\ returned \in Seq(Chunks) /\ stdinQueue \in Seq(Chunks)
        /\ handled \in Seq(1..MaxCmds)
    BY DEF Init
  <2>. QED
    BY <1>1, <1>2, <2>1, <2>2 DEF TypeInv

LEMMA NextType == TypeInv /\ [Next]_vars => TypeInv'
<1>. SUFFICES ASSUME TypeInv, [Next]_vars PROVE TypeInv'
  OBVIOUS
<1>. USE DEF studio, channels, debug, stdin, guest
<1>1. CASE DebugCommand
  <2>1. Tail(toKernel) \in Seq(Cmds) /\ Head(toKernel) \in Cmds
    BY <1>1, TailOf DEF DebugCommand, TypeInv
  <2>2. Append(mailbox, Cmd(Head(toKernel))) \in Seq(Msgs)
    BY <2>1, MsgParts, AppendOf DEF TypeInv
  <2>3. Append(debugQueue, Head(toKernel)) \in Seq(Cmds)
    BY <2>1, AppendOf DEF TypeInv
  <2>4. slot' \in Cmds \union {None} /\ debugQueue' \in Seq(Cmds) /\ retry' \in BOOLEAN
    BY <1>1, <2>3, DrainType DEF DebugCommand, TypeInv
  <2>5. mailbox' \in Seq(Msgs)
    BY <1>1, <2>2 DEF DebugCommand, TypeInv
  <2>. QED
    BY <1>1, <2>1, <2>4, <2>5 DEF DebugCommand, TypeInv
<1>2. CASE Retry
  <2>1. slot' \in Cmds \union {None} /\ debugQueue' \in Seq(Cmds) /\ retry' \in BOOLEAN
    BY <1>2, DrainType DEF Retry, TypeInv
  <2>. QED
    BY <1>2, <2>1 DEF Retry, TypeInv
<1>3. CASE HandleDebugEvent
  <2>1. slot' \in Cmds \union {None} /\ debugQueue' \in Seq(Cmds) /\ retry' \in BOOLEAN
    BY <1>3, DrainType DEF HandleDebugEvent, TypeInv
  <2>2. fromGuest' \in Seq({"paused", "resumed", "gone"}) /\ Head(fromGuest) \in {"paused", "resumed", "gone"}
    BY <1>3, TailOf DEF HandleDebugEvent, TypeInv
  <2>3. toStudio' \in Seq({"paused", "resumed", "gone"})
    BY <1>3, <2>2, AppendOf DEF HandleDebugEvent, TypeInv
  <2>. QED
    BY <1>3, <2>1, <2>2, <2>3 DEF HandleDebugEvent, TypeInv
<1>4. CASE HandleReadStdin
  <2>1. stdinQueue # <<>> => Tail(stdinQueue) \in Seq(Chunks) /\ Head(stdinQueue) \in Chunks
    BY TailOf DEF TypeInv
  <2>2. \A c \in Chunks : Answered(c) \in Windows
    BY DEF Windows
  <2>3. window' \in Windows /\ stdinQueue' \in Seq(Chunks) /\ stdinWaiting' \in BOOLEAN
    BY <1>4, <2>1, <2>2 DEF HandleReadStdin, TypeInv, Windows
  <2>. QED
    BY <1>4, <2>3 DEF HandleReadStdin, TypeInv
<1>5. ASSUME NEW c \in Chunks, SendStdin(c) PROVE TypeInv'
  <2>1. typed' \in Seq(Chunks) /\ Append(stdinQueue, c) \in Seq(Chunks) /\ Append(mailbox, Input(c)) \in Seq(Msgs)
    BY <1>5, MsgParts, AppendOf DEF SendStdin, TypeInv
  <2>2. Answered(c) \in Windows
    BY DEF Windows
  <2>3. mailbox' \in Seq(Msgs) /\ stdinQueue' \in Seq(Chunks) /\ window' \in Windows
    BY <1>5, <2>1, <2>2 DEF SendStdin, TypeInv
  <2>4. stdinEnded' \in BOOLEAN /\ stdinWaiting' \in BOOLEAN
    BY <1>5 DEF SendStdin, TypeInv
  <2>. QED
    BY <1>5, <2>1, <2>3, <2>4 DEF SendStdin, TypeInv
<1>6. CASE Finalize
  <2>1. toStudio' \in Seq({"paused", "resumed", "gone"})
    BY <1>6, AppendOf DEF Finalize, TypeInv
  <2>2. debugQueue' \in Seq(Cmds) /\ mailbox' \in Seq(Msgs) /\ fromGuest' \in Seq({"paused", "resumed", "gone"})
    BY <1>6 DEF Finalize
  <2>3. alive' \in BOOLEAN /\ debugPaused' \in BOOLEAN /\ retry' \in BOOLEAN /\ slot' \in Cmds \union {None}
        /\ thread' \in {"gate", "run", "paused", "read", "ended"}
    BY <1>6 DEF Finalize
  <2>. QED
    BY <1>6, <2>1, <2>2, <2>3 DEF Finalize, TypeInv
<1>7. CASE TakeCommand
  <2>1. slot \in Cmds /\ handled' \in Seq(1..MaxCmds)
    BY <1>7, AppendOf DEF TakeCommand, CarriedOut, TypeInv
  <2>2. thread' \in {"gate", "run", "paused", "read", "ended"} /\ fromGuest' \in Seq({"paused", "resumed", "gone"})
    BY <1>7, AppendOf DEF TakeCommand, Resumes, TypeInv
  <2>. QED
    BY <1>7, <2>1, <2>2 DEF TakeCommand, TypeInv
<1>8. CASE GateTimesOut
  <2>1. fromGuest' \in Seq({"paused", "resumed", "gone"})
    BY <1>8, AppendOf DEF GateTimesOut, Resumes, TypeInv
  <2>. QED
    BY <1>8, <2>1 DEF GateTimesOut, Resumes, TypeInv
<1>9. CASE Pause
  <2>1. fromGuest' \in Seq({"paused", "resumed", "gone"})
    BY <1>9, AppendOf DEF Pause, TypeInv
  <2>2. pauses' \in 0..MaxPauses
    BY <1>9, Numbers DEF Pause, TypeInv
  <2>. QED
    BY <1>9, <2>1, <2>2 DEF Pause, TypeInv
<1>10. CASE HandleMail
  <2>1. mailbox' \in Seq(Msgs) /\ Head(mailbox) \in Msgs
    BY <1>10, TailOf DEF HandleMail, TypeInv
  <2>2. flowed' \in Seq(Chunks)
    <3>. PICK m : m = Head(mailbox)
      OBVIOUS
    <3>1. flowed' = flowed \/ (flowed' = Append(flowed, m.of) /\ m.type = "stdin")
      BY <1>10 DEF HandleMail
    <3>2. m.type = "stdin" => m.of \in Chunks
      BY <2>1, MsgParts
    <3>. QED
      BY <3>1, <3>2, AppendOf DEF TypeInv
  <2>3. handled' \in Seq(1..MaxCmds)
    BY <1>10, AppendOf DEF HandleMail, CarriedOut, TypeInv
  <2>. QED
    BY <1>10, <2>1, <2>2, <2>3 DEF HandleMail, TypeInv
<1>11. CASE ReadStdin
  BY <1>11 DEF ReadStdin, TypeInv, Windows
<1>12. CASE Return
  <2>1. returned' \in Seq(Chunks)
    BY <1>12, WindowParts, AppendOf DEF Return, TypeInv
  <2>2. window' \in Windows
    BY <1>12 DEF Return, Windows
  <2>. QED
    BY <1>12, <2>1, <2>2 DEF Return, TypeInv
<1>13. CASE Attach
  <2>1. PICK n \in 0..MaxCmds : sentCmds' = n /\ toKernel' = toKernel \o [i \in 1..n |-> i] \o <<run>>
    BY <1>13 DEF Attach
  <2>2. n \in Nat /\ [i \in 1..n |-> i] \in Seq(Cmds) /\ <<run>> \in Seq(Cmds)
    BY Numbers DEF Cmds
  <2>3. toKernel' \in Seq(Cmds)
    BY <2>1, <2>2 DEF TypeInv
  <2>. QED
    BY <1>13, <2>1, <2>3 DEF Attach, TypeInv
<1>14. CASE SendCmd
  <2>1. sentCmds' \in 1..MaxCmds /\ sentCmds' \in Cmds
    BY <1>14, Numbers DEF SendCmd, TypeInv, Cmds
  <2>2. toKernel' \in Seq(Cmds)
    BY <1>14, <2>1, AppendOf DEF SendCmd, TypeInv
  <2>. QED
    BY <1>14, <2>1, <2>2 DEF SendCmd, TypeInv
<1>15. CASE Click
  <2>1. toKernel' \in Seq(Cmds)
    BY <1>15, AppendOf DEF Click, TypeInv, Cmds
  <2>2. clicks' \in 0..MaxClicks
    BY <1>15, Numbers DEF Click, TypeInv
  <2>. QED
    BY <1>15, <2>1, <2>2 DEF Click, TypeInv
<1>16. CASE StudioHears
  <2>1. toStudio' \in Seq({"paused", "resumed", "gone"})
    BY <1>16, TailOf DEF StudioHears, TypeInv
  <2>2. clicks' \in 0..MaxClicks
    BY <1>16, Numbers DEF StudioHears, TypeInv
  <2>. QED
    BY <1>16, <2>1, <2>2 DEF StudioHears, TypeInv
<1>17. CASE UNCHANGED vars
  BY <1>17 DEF vars, TypeInv
<1>. QED
  BY <1>1, <1>2, <1>3, <1>4, <1>5, <1>6, <1>7, <1>8, <1>9, <1>10, <1>11, <1>12, <1>13, <1>14, <1>15, <1>16, <1>17
     DEF Next, Kernel, Guest, Studio

(* The queues, the slot and the window hold what they are meant to, and    *)
(* pauses, clicks and commands stay within their bounds.                   *)
THEOREM TypeCorrect == Spec => []TypeOK
<1>1. TypeInv <=> TypeOK
  BY TypeInvIsTypeOK
<1>. QED
  BY <1>1, InitType, NextType, PTL DEF Spec

-----------------------------------------------------------------------------
(* Commands.  One that is sent is in one of five places, once.             *)
Held(q, x) == Positions(q, x) # {}
Once(q, x) == \A i, j \in Positions(q, x) : i = j

InOnePlace(k, d, s, m, h) ==
  /\ k => ~d /\ ~s /\ ~m /\ ~h
  /\ d => ~s /\ ~m /\ ~h
  /\ s => ~m /\ ~h
  /\ m => ~h

Tracked(c) ==
  /\ Once(toKernel, c) /\ Once(debugQueue, c) /\ Once(mailbox, Cmd(c)) /\ Once(handled, c)
  /\ InOnePlace(Held(toKernel, c), Held(debugQueue, c), slot = c, Held(mailbox, Cmd(c)), Held(handled, c))
  /\ c <= sentCmds <=>
       Held(toKernel, c) \/ Held(debugQueue, c) \/ slot = c \/ Held(mailbox, Cmd(c)) \/ Held(handled, c)

CommandInv ==
  /\ alive => \A c \in 1..MaxCmds : Tracked(c)
  /\ ~attached => sentCmds = 0 /\ toKernel = <<>> /\ ~shown
  /\ alive <=> thread # "ended"

LEMMA Taken ==
  ASSUME NEW T, NEW q \in Seq(T), q # <<>>, NEW x, Once(q, x)
  PROVE  Once(Tail(q), x) /\ (Held(Tail(q), x) <=> Held(q, x) /\ Head(q) # x) /\ (Head(q) = x => Held(q, x))
<1>. DEFINE u == Tail(q)
<1>. PICK n : n = Len(u)
  OBVIOUS
<1>1. /\ n \in Nat /\ Len(q) = n + 1 /\ Head(q) = q[1]
      /\ DOMAIN q = 1..n + 1 /\ DOMAIN u = 1..n
      /\ \A i \in 1..n : u[i] = q[i + 1]
  OBVIOUS
<1>2. /\ \A i \in 1..n : i + 1 \in 1..n + 1 /\ i + 1 # 1
      /\ \A i \in 1..n + 1 : i = 1 \/ (i - 1 \in 1..n /\ (i - 1) + 1 = i)
      /\ 1 \in 1..n + 1 /\ \A i, j \in 1..n : i + 1 = j + 1 => i = j
  BY <1>1
<1>3. \A i, j \in 1..n + 1 : q[i] = x /\ q[j] = x => i = j
  BY <1>1 DEF Once, Positions
<1>. HIDE DEF u
<1>4. \A i, j \in 1..n : u[i] = x /\ u[j] = x => i = j
  BY <1>1, <1>2, <1>3
<1>5. (\E i \in 1..n : u[i] = x) <=> (\E i \in 1..n + 1 : q[i] = x) /\ q[1] # x
  <2>1. ASSUME NEW i \in 1..n, u[i] = x PROVE i + 1 \in 1..n + 1 /\ q[i + 1] = x /\ q[1] # x
    BY <2>1, <1>1, <1>2, <1>3
  <2>2. ASSUME NEW i \in 1..n + 1, q[i] = x, q[1] # x PROVE i - 1 \in 1..n /\ u[i - 1] = x
    BY <2>2, <1>1, <1>2
  <2>. QED
    BY <2>1, <2>2
<1>6. q[1] = x => \E i \in 1..n + 1 : q[i] = x
  BY <1>2
<1>7. Once(u, x) /\ (Held(u, x) <=> \E i \in 1..n : u[i] = x) /\ (Held(q, x) <=> \E i \in 1..n + 1 : q[i] = x)
  BY <1>1, <1>4 DEF Once, Held, Positions
<1>. QED
  BY <1>1, <1>5, <1>6, <1>7 DEF u

LEMMA Added ==
  ASSUME NEW T, NEW q \in Seq(T), NEW y \in T, NEW x, Once(q, x), y = x => ~Held(q, x)
  PROVE  Once(Append(q, y), x) /\ (Held(Append(q, y), x) <=> Held(q, x) \/ y = x)
<1>. DEFINE u == Append(q, y)
<1>. PICK n : n = Len(q)
  OBVIOUS
<1>1. /\ n \in Nat /\ DOMAIN q = 1..n /\ DOMAIN u = 1..n + 1
      /\ \A i \in 1..n : u[i] = q[i]
      /\ u[n + 1] = y
  OBVIOUS
<1>2. (\A i \in 1..n + 1 : i \in 1..n \/ i = n + 1) /\ (\A i \in 1..n : i \in 1..n + 1) /\ n + 1 \in 1..n + 1
  BY <1>1
<1>3. (\A i, j \in 1..n : q[i] = x /\ q[j] = x => i = j) /\ (y = x => \A i \in 1..n : q[i] # x)
  BY <1>1 DEF Once, Held, Positions
<1>. HIDE DEF u
<1>4. \A i, j \in 1..n + 1 : u[i] = x /\ u[j] = x => i = j
  BY <1>1, <1>2, <1>3
<1>5. (\E i \in 1..n + 1 : u[i] = x) <=> (\E i \in 1..n : q[i] = x) \/ y = x
  BY <1>1, <1>2
<1>6. Once(u, x) /\ (Held(u, x) <=> \E i \in 1..n + 1 : u[i] = x) /\ (Held(q, x) <=> \E i \in 1..n : q[i] = x)
  BY <1>1, <1>4 DEF Once, Held, Positions
<1>. QED
  BY <1>5, <1>6 DEF u

LEMMA NoneHeld == \A x : Once(<<>>, x) /\ ~Held(<<>>, x)
BY DEF Once, Held, Positions

LEMMA CmdsDiffer ==
  ASSUME NEW c \in 1..MaxCmds
  PROVE  /\ c \in Cmds /\ c # None /\ c # run /\ c # resume
         /\ \A x : (Cmd(x) = Cmd(c) <=> x = c) /\ Input(x) # Cmd(c)
<1>1. \A x : Cmd(x).of = x /\ Cmd(x).type = "dbg-cmd" /\ Input(x).type = "stdin"
  BY DEF Cmd, Input
<1>. QED
  BY <1>1, GuestInputAssumption DEF Cmds

(* The slot takes the head of the queue: the command is in either, ...     *)
LEMMA DrainTracks ==
  ASSUME NEW c \in 1..MaxCmds, NEW q \in Seq(Cmds), Once(q, c), Held(q, c) => slot # c, Drain(q)
  PROVE  /\ Once(debugQueue', c) /\ ~(Held(debugQueue', c) /\ slot' = c)
         /\ Held(debugQueue', c) \/ slot' = c <=> Held(q, c) \/ slot = c
<1>1. CASE GoesIn(q)
  <2>1. q # <<>> /\ slot = None /\ slot' = Head(q) /\ debugQueue' = Tail(q)
    BY <1>1 DEF GoesIn, Drain
  <2>2. Once(Tail(q), c) /\ (Held(Tail(q), c) <=> Held(q, c) /\ Head(q) # c) /\ (Head(q) = c => Held(q, c))
    BY <2>1, Taken
  <2>. QED
    BY <2>1, <2>2, CmdsDiffer
<1>2. CASE ~GoesIn(q)
  BY <1>2 DEF Drain
<1>. QED
  BY <1>1, <1>2

(* ... and one that is carried out is in neither.                          *)
LEMMA CarriedOutTracks ==
  ASSUME NEW c \in 1..MaxCmds, NEW x, TypeInv, Once(handled, c), x = c => ~Held(handled, c), CarriedOut(x)
  PROVE  Once(handled', c) /\ (Held(handled', c) <=> Held(handled, c) \/ x = c)
<1>1. CASE x \in 1..MaxCmds
  BY <1>1, Added DEF CarriedOut, TypeInv
<1>2. CASE x \notin 1..MaxCmds
  BY <1>2 DEF CarriedOut
<1>. QED
  BY <1>1, <1>2

LEMMA InitCommands == Init => CommandInv
<1>. SUFFICES ASSUME Init PROVE CommandInv
  OBVIOUS
<1>1. ASSUME NEW c \in 1..MaxCmds PROVE Tracked(c)
  <2>1. \A i \in DOMAIN mailbox : mailbox[i] # Cmd(c)
    BY CmdsDiffer DEF Init
  <2>2. Once(mailbox, Cmd(c)) /\ ~Held(mailbox, Cmd(c))
    BY <2>1 DEF Once, Held, Positions
  <2>3. slot # c /\ ~(c <= sentCmds)
    BY CmdsDiffer, Numbers DEF Init
  <2>. QED
    BY <2>2, <2>3, NoneHeld DEF Init, Tracked, InOnePlace
<1>. QED
  BY <1>1 DEF Init, CommandInv

(* What an action that moves no command leaves as it was.                  *)
Still(c) ==
  /\ toKernel' = toKernel /\ debugQueue' = debugQueue /\ slot' = slot /\ handled' = handled /\ sentCmds' = sentCmds
  /\ Once(mailbox, Cmd(c)) => Once(mailbox', Cmd(c)) /\ (Held(mailbox', Cmd(c)) <=> Held(mailbox, Cmd(c)))

LEMMA StillTracks == ASSUME NEW c, Tracked(c), Still(c) PROVE Tracked(c)'
BY DEF Tracked, Still, InOnePlace

LEMMA NextTracks ==
  ASSUME TypeInv, TypeInv', CommandInv, [Next]_vars, alive', NEW c \in 1..MaxCmds
  PROVE  Tracked(c)'
<1>. USE DEF studio, channels, debug, stdin, guest
<1>0. alive /\ Tracked(c)
  BY DEF CommandInv, Next, Kernel, Guest, Studio, DebugCommand, Retry, HandleDebugEvent, HandleReadStdin, SendStdin,
         Finalize, TakeCommand, GateTimesOut, Pause, HandleMail, ReadStdin, Return, Attach, SendCmd, Click, StudioHears,
         vars, TypeInv
<1>1. CASE DebugCommand
  <2>1. toKernel # <<>> /\ toKernel' = Tail(toKernel) /\ handled' = handled /\ sentCmds' = sentCmds
    BY <1>1 DEF DebugCommand
  <2>2. Head(toKernel) \in Cmds
    BY <2>1, TailOf DEF TypeInv
  <2>3. Once(toKernel', c) /\ (Held(toKernel', c) <=> Held(toKernel, c) /\ Head(toKernel) # c) /\ (Head(toKernel) = c => Held(toKernel, c))
    BY <1>0, <2>1, Taken DEF TypeInv, Tracked
  <2>4. CASE debugPaused
    <3>. DEFINE q == Append(debugQueue, Head(toKernel))
    <3>1. Drain(q) /\ mailbox' = mailbox
      BY <1>0, <1>1, <2>4 DEF DebugCommand
    <3>2. Once(q, c) /\ (Held(q, c) <=> Held(debugQueue, c) \/ Head(toKernel) = c)
      <4>1. Once(debugQueue, c) /\ (Head(toKernel) = c => ~Held(debugQueue, c)) /\ debugQueue \in Seq(Cmds)
        BY <1>0, <2>3 DEF TypeInv, Tracked, InOnePlace
      <4>. QED
        BY <2>2, <4>1, Added
    <3>3. q \in Seq(Cmds)
      BY <2>2, AppendOf DEF TypeInv
    <3>. HIDE DEF q
    <3>4. Held(q, c) => slot # c
      BY <1>0, <2>3, <3>2 DEF Tracked, InOnePlace
    <3>5. /\ Once(debugQueue', c) /\ ~(Held(debugQueue', c) /\ slot' = c)
          /\ Held(debugQueue', c) \/ slot' = c <=> Held(q, c) \/ slot = c
      BY <3>1, <3>2, <3>3, <3>4, DrainTracks
    <3>. QED
      BY <1>0, <2>1, <2>3, <3>1, <3>2, <3>5 DEF Tracked, InOnePlace
  <2>5. CASE ~debugPaused
    <3>1. mailbox' = Append(mailbox, Cmd(Head(toKernel))) /\ UNCHANGED <<debugQueue, slot>>
      BY <1>0, <1>1, <2>5 DEF DebugCommand
    <3>2. Cmd(Head(toKernel)) \in Msgs /\ (Cmd(Head(toKernel)) = Cmd(c) <=> Head(toKernel) = c)
      BY <2>2, MsgParts, CmdsDiffer
    <3>3. Once(mailbox, Cmd(c)) /\ (Cmd(Head(toKernel)) = Cmd(c) => ~Held(mailbox, Cmd(c)))
      BY <1>0, <2>3, <3>2 DEF Tracked, InOnePlace
    <3>4. Once(mailbox', Cmd(c)) /\ (Held(mailbox', Cmd(c)) <=> Held(mailbox, Cmd(c)) \/ Head(toKernel) = c)
      BY <3>1, <3>2, <3>3, Added DEF TypeInv
    <3>. QED
      BY <1>0, <2>1, <2>3, <3>1, <3>4 DEF Tracked, InOnePlace
  <2>. QED
    BY <2>4, <2>5
<1>2. ASSUME Drain(debugQueue), UNCHANGED <<toKernel, mailbox, handled, sentCmds>> PROVE Tracked(c)'
  <2>1. Once(debugQueue, c) /\ (Held(debugQueue, c) => slot # c) /\ debugQueue \in Seq(Cmds)
    BY <1>0 DEF Tracked, InOnePlace, TypeInv
  <2>2. /\ Once(debugQueue', c) /\ ~(Held(debugQueue', c) /\ slot' = c)
        /\ Held(debugQueue', c) \/ slot' = c <=> Held(debugQueue, c) \/ slot = c
    BY <1>2, <2>1, DrainTracks
  <2>. QED
    BY <1>0, <1>2, <2>2 DEF Tracked, InOnePlace
<1>3. CASE Retry
  BY <1>2, <1>3 DEF Retry
<1>4. CASE HandleDebugEvent
  <2>1. CASE Head(fromGuest) = "resumed"
    BY <1>2, <1>4, <2>1 DEF HandleDebugEvent
  <2>2. CASE Head(fromGuest) # "resumed"
    BY <1>0, <1>4, <2>2, StillTracks DEF HandleDebugEvent, Still
  <2>. QED
    BY <2>1, <2>2
<1>5. ASSUME NEW x \in Chunks, SendStdin(x) PROVE Tracked(c)'
  <2>1. mailbox' = mailbox \/ mailbox' = Append(mailbox, Input(x))
    BY <1>5 DEF SendStdin
  <2>2. Input(x) \in Msgs /\ Input(x) # Cmd(c) /\ mailbox \in Seq(Msgs)
    BY MsgParts, CmdsDiffer DEF TypeInv
  <2>3. Once(mailbox, Cmd(c)) => Once(Append(mailbox, Input(x)), Cmd(c)) /\ (Held(Append(mailbox, Input(x)), Cmd(c)) <=> Held(mailbox, Cmd(c)))
    BY <2>2, Added
  <2>4. Still(c)
    BY <1>5, <2>1, <2>3 DEF SendStdin, Still
  <2>. QED
    BY <1>0, <2>4, StillTracks
<1>6. CASE TakeCommand
  <2>1. slot # None /\ slot' = None /\ CarriedOut(slot) /\ UNCHANGED <<toKernel, debugQueue, mailbox, sentCmds>>
    BY <1>6 DEF TakeCommand
  <2>2. Once(handled', c) /\ (Held(handled', c) <=> Held(handled, c) \/ slot = c)
    BY <1>0, <2>1, CarriedOutTracks DEF Tracked, InOnePlace
  <2>. QED
    BY <1>0, <2>1, <2>2, CmdsDiffer DEF Tracked, InOnePlace
<1>7. CASE HandleMail
  <2>1. mailbox # <<>> /\ mailbox' = Tail(mailbox) /\ UNCHANGED <<toKernel, debugQueue, slot, sentCmds>>
    BY <1>7 DEF HandleMail
  <2>2. Head(mailbox) \in Msgs
    BY <2>1, TailOf DEF TypeInv
  <2>3. Once(mailbox', Cmd(c)) /\ (Held(mailbox', Cmd(c)) <=> Held(mailbox, Cmd(c)) /\ Head(mailbox) # Cmd(c))
          /\ (Head(mailbox) = Cmd(c) => Held(mailbox, Cmd(c)))
    BY <1>0, <2>1, Taken DEF TypeInv, Tracked
  <2>4. CASE Head(mailbox).type = "stdin"
    <3>1. handled' = handled /\ Head(mailbox) # Cmd(c)
      BY <1>7, <2>4, MsgParts, CmdsDiffer DEF HandleMail
    <3>. QED
      BY <1>0, <2>1, <2>3, <3>1 DEF Tracked, InOnePlace
  <2>5. CASE Head(mailbox).type # "stdin"
    <3>. DEFINE x == Head(mailbox).of
    <3>1. CarriedOut(x) /\ (Head(mailbox) = Cmd(c) <=> x = c)
      BY <1>7, <2>2, <2>5, MsgParts, CmdsDiffer DEF HandleMail
    <3>. HIDE DEF x
    <3>2. Once(handled', c) /\ (Held(handled', c) <=> Held(handled, c) \/ x = c)
      BY <1>0, <2>3, <3>1, CarriedOutTracks DEF Tracked, InOnePlace
    <3>. QED
      BY <1>0, <2>1, <2>3, <3>1, <3>2 DEF Tracked, InOnePlace
  <2>. QED
    BY <2>4, <2>5
<1>8. CASE Attach
  <2>1. PICK n \in 0..MaxCmds : sentCmds' = n /\ toKernel' = toKernel \o [i \in 1..n |-> i] \o <<run>>
    BY <1>8 DEF Attach
  <2>2. toKernel = <<>> /\ sentCmds = 0
    BY <1>8 DEF Attach, CommandInv
  <2>3. n \in Nat /\ [i \in 1..n |-> i] \in Seq(Cmds) /\ run \in Cmds
    BY Numbers DEF Cmds
  <2>. DEFINE q == [i \in 1..n |-> i]
  <2>4. DOMAIN q = 1..n /\ \A i \in 1..n : q[i] = i
    OBVIOUS
  <2>5. toKernel' = Append(q, run)
    BY <2>1, <2>2, <2>3
  <2>6. Once(q, c) /\ (Held(q, c) <=> c <= n)
    <3>1. c \in Nat /\ c >= 1 /\ (c \in 1..n <=> c <= n)
      BY <2>3, Numbers
    <3>. HIDE DEF q
    <3>. QED
      BY <2>4, <3>1 DEF Once, Held, Positions
  <2>. HIDE DEF q
  <2>7. q \in Seq(Cmds) /\ run # c
    BY <2>3, CmdsDiffer DEF q
  <2>8. Once(toKernel', c) /\ (Held(toKernel', c) <=> c <= n)
    BY <2>3, <2>5, <2>6, <2>7, Added
  <2>9. ~(c <= sentCmds)
    BY <2>2, Numbers
  <2>10. UNCHANGED <<debugQueue, slot, mailbox, handled>>
    BY <1>8 DEF Attach
  <2>. QED
    BY <1>0, <2>1, <2>8, <2>9, <2>10 DEF Tracked, InOnePlace
<1>9. CASE SendCmd
  <2>1. sentCmds' = sentCmds + 1 /\ toKernel' = Append(toKernel, sentCmds') /\ UNCHANGED <<debugQueue, slot, mailbox, handled>>
    BY <1>9 DEF SendCmd
  <2>2. /\ sentCmds' \in 1..MaxCmds /\ sentCmds' \in Cmds /\ (sentCmds' = c => ~(c <= sentCmds))
        /\ c <= sentCmds' <=> c <= sentCmds \/ sentCmds' = c
    BY <1>9, Numbers DEF SendCmd, TypeInv, Cmds
  <2>3. Once(toKernel', c) /\ (Held(toKernel', c) <=> Held(toKernel, c) \/ sentCmds' = c)
    <3>1. Once(toKernel, c) /\ (sentCmds' = c => ~Held(toKernel, c))
      BY <1>0, <2>2 DEF Tracked
    <3>2. PICK n : n = sentCmds'
      OBVIOUS
    <3>3. toKernel \in Seq(Cmds) /\ n \in Cmds /\ (n = c => ~Held(toKernel, c)) /\ toKernel' = Append(toKernel, n)
      BY <2>1, <2>2, <3>1, <3>2 DEF TypeInv
    <3>4. Once(Append(toKernel, n), c) /\ (Held(Append(toKernel, n), c) <=> Held(toKernel, c) \/ n = c)
      BY <3>1, <3>3, Added
    <3>. QED
      BY <3>2, <3>3, <3>4
  <2>. QED
    BY <1>0, <2>1, <2>2, <2>3 DEF Tracked, InOnePlace
<1>10. CASE Click
  <2>1. toKernel' = Append(toKernel, resume) /\ UNCHANGED <<sentCmds, debugQueue, slot, mailbox, handled>>
    BY <1>10 DEF Click
  <2>2. resume # c /\ resume \in Cmds
    BY CmdsDiffer DEF Cmds
  <2>3. Once(toKernel', c) /\ (Held(toKernel', c) <=> Held(toKernel, c))
    BY <1>0, <2>1, <2>2, Added DEF Tracked, TypeInv
  <2>. QED
    BY <1>0, <2>1, <2>3 DEF Tracked, InOnePlace
<1>11. CASE HandleReadStdin \/ GateTimesOut \/ Pause \/ ReadStdin \/ Return \/ StudioHears \/ UNCHANGED vars
  <2>1. Still(c)
    BY <1>11 DEF HandleReadStdin, GateTimesOut, Pause, ReadStdin, Return, StudioHears, vars, Still
  <2>. QED
    BY <1>0, <2>1, StillTracks
<1>12. CASE Finalize
  BY <1>12 DEF Finalize
<1>. QED
  BY <1>1, <1>3, <1>4, <1>5, <1>6, <1>7, <1>8, <1>9, <1>10, <1>11, <1>12 DEF Next, Kernel, Guest, Studio

LEMMA NextCommands == TypeInv /\ CommandInv /\ [Next]_vars => CommandInv'
<1>. SUFFICES ASSUME TypeInv, CommandInv, [Next]_vars PROVE CommandInv'
  OBVIOUS
<1>1. TypeInv'
  BY NextType
<1>2. alive' => \A c \in 1..MaxCmds : Tracked(c)'
  BY <1>1, NextTracks
<1>. USE DEF studio, channels, debug, stdin, guest
<1>3. ~attached' => sentCmds' = 0 /\ toKernel' = <<>> /\ ~shown'
  <2>1. ~attached' => ~attached
    BY DEF Next, Kernel, Guest, Studio, DebugCommand, Retry, HandleDebugEvent, HandleReadStdin, SendStdin, Finalize,
           TakeCommand, GateTimesOut, Pause, HandleMail, ReadStdin, Return, Attach, SendCmd, Click, StudioHears, vars
  <2>2. CASE attached
    BY <2>1, <2>2
  <2>3. CASE ~attached
    BY <2>3 DEF CommandInv, Next, Kernel, Guest, Studio, DebugCommand, Retry, HandleDebugEvent, HandleReadStdin,
           SendStdin, Finalize, TakeCommand, GateTimesOut, Pause, HandleMail, ReadStdin, Return, Attach, SendCmd,
           Click, StudioHears, vars
  <2>. QED
    BY <2>2, <2>3
<1>4. alive' <=> thread' # "ended"
  BY DEF CommandInv, TypeInv, Next, Kernel, Guest, Studio, DebugCommand, Retry, HandleDebugEvent, HandleReadStdin,
         SendStdin, Finalize, TakeCommand, Parked, Resumes, GateTimesOut, Pause, HandleMail, ReadStdin, Return, Attach,
         SendCmd, Click, StudioHears, vars
<1>. QED
  BY <1>2, <1>3, <1>4 DEF CommandInv

(* One that is tracked has one place, or none.                             *)
LEMMA TrackedIsInOnePlace ==
  ASSUME NEW c \in 1..MaxCmds, Tracked(c)
  PROVE  Cardinality(Places(c)) = IF c <= sentCmds THEN 1 ELSE 0
<1>1. (slot = c => Positions(<<slot>>, c) = {1}) /\ (slot # c => Positions(<<slot>>, c) = {})
  BY DEF Positions
<1>2. \A x, y \in Places(c) : x = y
  BY <1>1 DEF Places, Tracked, InOnePlace, Once, Held
<1>3. Places(c) # {} <=> c <= sentCmds
  <2>1. \A s, S : {s} \X S # {} <=> S # {}
    <3>1. ASSUME NEW s, NEW S, NEW i \in S PROVE <<s, i>> \in {s} \X S
      OBVIOUS
    <3>. QED
      BY <3>1
  <2>2. Places(c) # {} <=>
          Held(toKernel, c) \/ Held(debugQueue, c) \/ slot = c \/ Held(mailbox, Cmd(c)) \/ Held(handled, c)
    <3>1. \A A, B, C, D, E : A \union B \union C \union D \union E # {} <=> A # {} \/ B # {} \/ C # {} \/ D # {} \/ E # {}
      OBVIOUS
    <3>. DEFINE K == {"toKernel"} \X Positions(toKernel, c)
                D == {"debugQueue"} \X Positions(debugQueue, c)
                S == {"slot"} \X Positions(<<slot>>, c)
                M == {"mailbox"} \X Positions(mailbox, Cmd(c))
                H == {"handled"} \X Positions(handled, c)
    <3>2. Places(c) = K \union D \union S \union M \union H
      BY Zenon DEF Places
    <3>3. (S # {} <=> slot = c) /\ (K # {} <=> Held(toKernel, c)) /\ (D # {} <=> Held(debugQueue, c))
            /\ (M # {} <=> Held(mailbox, Cmd(c))) /\ (H # {} <=> Held(handled, c))
      BY <1>1, <2>1, Zenon DEF Held
    <3>. HIDE DEF K, D, S, M, H
    <3>. QED
      BY <3>1, <3>2, <3>3
  <2>. QED
    BY <2>2 DEF Tracked
<1>4. CASE c <= sentCmds
  <2>1. PICK x : x \in Places(c)
    BY <1>3, <1>4
  <2>2. Places(c) = {x}
    BY <1>2, <2>1
  <2>. QED
    BY <1>4, <2>2, FS_Singleton
<1>5. CASE ~(c <= sentCmds)
  BY <1>3, <1>5, FS_EmptySet
<1>. QED
  BY <1>4, <1>5

LEMMA InductiveCommands == Spec => [](TypeInv /\ CommandInv)
<1>1. Init => TypeInv /\ CommandInv
  BY InitType, InitCommands
<1>2. TypeInv /\ CommandInv /\ [Next]_vars => (TypeInv /\ CommandInv)'
  BY NextType, NextCommands
<1>. QED
  BY <1>1, <1>2, PTL DEF Spec

(* A command of the studio is in one place, whatever route it takes and    *)
(* however late the kernel learns that the guest goes on, until it is      *)
(* carried out, once (debugCommand, _drainDebugQueue,                      *)
(* readDebugCommandBlocking).                                              *)
THEOREM CommandsInOnePlace == Spec => []CommandsKept
<1>1. TypeInv /\ CommandInv => CommandsKept
  BY TrackedIsInOnePlace DEF CommandInv, CommandsKept
<1>. QED
  BY <1>1, InductiveCommands, PTL

-----------------------------------------------------------------------------
(* Input.  What a queue of messages holds of it is defined by recursion    *)
(* over the queue; induction over the numbers is a fact about sets here.   *)
Less == {x \in Nat \X Nat : x[1] < x[2]}

LEMMA LessWellFounded == IsWellFoundedOn(Less, Nat)
<1>1. OpToRel(<, Nat) = Less
  BY DEF OpToRel, Less
<1>. QED
  BY <1>1, NatLessThanWellFounded

LEMMA SetInduction ==
  ASSUME NEW S \in SUBSET Nat, 0 \in S, \A n \in S : n + 1 \in S
  PROVE  S = Nat
<1>1. SUFFICES ASSUME Nat \ S # {} PROVE FALSE
  OBVIOUS
<1>2. PICK n \in Nat \ S : \A m \in Nat \ S : ~(<<m, n>> \in Less)
  BY <1>1, WFMin, LessWellFounded, Zenon
<1>3. n # 0 /\ n - 1 \in Nat /\ <<n - 1, n>> \in Less
  BY DEF Less
<1>. QED
  BY <1>2, <1>3

LEMMA TakingType == ASSUME NEW s \in Seq(Chunks), NEW m \in Msgs PROVE Taking(s, m) \in Seq(Chunks)
BY MsgParts, AppendOf DEF Taking

(* The recursion, as far as the k-th message.                              *)
Follows(f, q, k) ==
  /\ f \in [0..k -> Seq(Chunks)]
  /\ f[0] = <<>>
  /\ \A n \in 1..k : f[n] = Taking(f[n-1], q[n])

LEMMA Followed ==
  ASSUME NEW q \in Seq(Msgs)
  PROVE  \A k \in 0..Len(q) : \E f : Follows(f, q, k)
<1>. DEFINE S == {k \in Nat : k <= Len(q) => \E f : Follows(f, q, k)}
<1>1. 0 \in S
  <2>. DEFINE f == [n \in 0..0 |-> <<>>]
  <2>1. f \in [0..0 -> Seq(Chunks)] /\ f[0] = <<>> /\ 1..0 = {}
    OBVIOUS
  <2>2. Follows(f, q, 0)
    BY <2>1 DEF Follows
  <2>. QED
    BY <2>2
<1>2. ASSUME NEW k \in S PROVE k + 1 \in S
  <2>. SUFFICES ASSUME k + 1 <= Len(q) PROVE \E f : Follows(f, q, k + 1)
    OBVIOUS
  <2>1. PICK f : Follows(f, q, k)
    OBVIOUS
  <2>. DEFINE g == [n \in 0..k + 1 |-> IF n = k + 1 THEN Taking(f[k], q[k + 1]) ELSE f[n]]
  <2>2. q[k + 1] \in Msgs /\ f[k] \in Seq(Chunks)
    BY <2>1 DEF Follows
  <2>3. Taking(f[k], q[k + 1]) \in Seq(Chunks)
    BY <2>2, TakingType
  <2>4. g \in [0..k + 1 -> Seq(Chunks)]
    <3>1. \A n \in 0..k + 1 : n = k + 1 \/ n \in 0..k
      OBVIOUS
    <3>2. \A n \in 0..k : f[n] \in Seq(Chunks)
      BY <2>1 DEF Follows
    <3>. QED
      BY <2>3, <3>1, <3>2
  <2>5. g[0] = <<>>
    BY <2>1 DEF Follows
  <2>6. ASSUME NEW n \in 1..k + 1 PROVE g[n] = Taking(g[n-1], q[n])
    <3>1. CASE n = k + 1
      <4>1. n - 1 = k /\ k \in 0..k + 1 /\ k # k + 1 /\ k + 1 \in 0..k + 1
        BY <3>1
      <4>. QED
        BY <3>1, <4>1
    <3>2. CASE n # k + 1
      <4>1. n \in 1..k /\ n - 1 # k + 1 /\ n \in 0..k + 1 /\ n - 1 \in 0..k + 1
        BY <3>2
      <4>2. f[n] = Taking(f[n-1], q[n])
        BY <2>1, <4>1 DEF Follows
      <4>. QED
        BY <3>2, <4>1, <4>2
    <3>. QED
      BY <3>1, <3>2
  <2>. HIDE DEF g
  <2>7. Follows(g, q, k + 1)
    BY <2>4, <2>5, <2>6 DEF Follows
  <2>. QED
    BY <2>7
<1>. HIDE DEF S
<1>3. S = Nat
  <2>1. S \in SUBSET Nat
    BY DEF S
  <2>. QED
    BY <1>1, <1>2, <2>1, SetInduction
<1>. QED
  BY <1>3 DEF S

LEMMA InputUpToFollows ==
  ASSUME NEW q \in Seq(Msgs)
  PROVE  Follows(InputUpTo(q), q, Len(q))
<1>. DEFINE IsF(F) == F = [n \in 0..Len(q) |-> IF n = 0 THEN <<>> ELSE Taking(F[n-1], q[n])]
<1>. PICK k : k = Len(q) /\ k \in Nat
  OBVIOUS
<1>1. PICK f : Follows(f, q, k)
  BY Followed
<1>2. f = [n \in 0..k |-> f[n]] /\ f[0] = <<>>
  BY <1>1 DEF Follows
<1>3. \A n \in 0..k : f[n] = IF n = 0 THEN <<>> ELSE Taking(f[n-1], q[n])
  BY <1>1 DEF Follows
<1>4. IsF(f)
  BY <1>2, <1>3
<1>5. InputUpTo(q) = CHOOSE F : IsF(F)
  BY DEF InputUpTo
<1>. DEFINE F == InputUpTo(q)
<1>6. IsF(F)
  BY <1>4, <1>5
<1>. HIDE DEF F
<1>7. DOMAIN F = 0..k /\ F[0] = <<>> /\ \A n \in 1..k : F[n] = Taking(F[n-1], q[n])
  BY <1>6
<1>. DEFINE S == {n \in Nat : n <= k => F[n] = f[n]}
<1>8. 0 \in S
  BY <1>2, <1>7
<1>9. ASSUME NEW n \in S PROVE n + 1 \in S
  <2>. SUFFICES ASSUME n + 1 <= k PROVE F[n + 1] = f[n + 1]
    OBVIOUS
  <2>1. n + 1 \in 1..k /\ (n + 1) - 1 = n /\ F[n] = f[n]
    OBVIOUS
  <2>. QED
    BY <1>1, <1>7, <2>1 DEF Follows
<1>. HIDE DEF S
<1>10. S = Nat
  <2>1. S \in SUBSET Nat
    BY DEF S
  <2>. QED
    BY <1>8, <1>9, <2>1, SetInduction
<1>11. \A n \in 0..k : F[n] = f[n]
  BY <1>10 DEF S
<1>12. F = [n \in 0..k |-> F[n]]
  BY <1>6
<1>13. F \in [0..k -> Seq(Chunks)]
  BY <1>1, <1>11, <1>12 DEF Follows
<1>. QED
  BY <1>7, <1>13 DEF Follows, F

LEMMA InputInType ==
  ASSUME NEW q \in Seq(Msgs)
  PROVE  InputIn(q) \in Seq(Chunks) /\ \A n \in 0..Len(q) : InputUpTo(q)[n] \in Seq(Chunks)
<1>1. Len(q) \in 0..Len(q)
  OBVIOUS
<1>. QED
  BY <1>1, InputUpToFollows DEF Follows, InputIn

LEMMA NoInput == InputIn(<<>>) = <<>>
<1>1. <<>> \in Seq(Msgs) /\ Len(<<>>) = 0
  OBVIOUS
<1>. QED
  BY <1>1, InputUpToFollows DEF Follows, InputIn

LEMMA InputOfAppend ==
  ASSUME NEW q \in Seq(Msgs), NEW m \in Msgs
  PROVE  InputIn(Append(q, m)) = Taking(InputIn(q), m)
<1>. DEFINE u == Append(q, m)
            F == InputUpTo(q)
            G == InputUpTo(u)
<1>. PICK k : k = Len(q) /\ k \in Nat
  OBVIOUS
<1>1. u \in Seq(Msgs) /\ Len(u) = k + 1 /\ u[k + 1] = m /\ \A i \in 1..k : u[i] = q[i]
  OBVIOUS
<1>2. Follows(F, q, k) /\ Follows(G, u, k + 1)
  BY <1>1, InputUpToFollows
<1>. HIDE DEF u, F, G
<1>. DEFINE S == {n \in Nat : n <= k => G[n] = F[n]}
<1>3. 0 \in S
  BY <1>2 DEF Follows
<1>4. ASSUME NEW n \in S PROVE n + 1 \in S
  <2>. SUFFICES ASSUME n + 1 <= k PROVE G[n + 1] = F[n + 1]
    OBVIOUS
  <2>1. n + 1 \in 1..k /\ n + 1 \in 1..k + 1 /\ (n + 1) - 1 = n /\ G[n] = F[n]
    OBVIOUS
  <2>2. G[n + 1] = Taking(G[n], u[n + 1])
    BY <1>2, <2>1 DEF Follows
  <2>3. F[n + 1] = Taking(F[n], q[n + 1])
    BY <1>2, <2>1 DEF Follows
  <2>. QED
    BY <1>1, <2>1, <2>2, <2>3
<1>. HIDE DEF S
<1>5. S = Nat
  <2>1. S \in SUBSET Nat
    BY DEF S
  <2>. QED
    BY <1>3, <1>4, <2>1, SetInduction
<1>6. G[k] = F[k]
  BY <1>5 DEF S
<1>7. G[k + 1] = Taking(G[k], m)
  <2>1. k + 1 \in 1..k + 1 /\ (k + 1) - 1 = k
    OBVIOUS
  <2>2. G[k + 1] = Taking(G[(k + 1) - 1], u[k + 1])
    BY <1>2, <2>1 DEF Follows
  <2>. QED
    BY <1>1, <2>1, <2>2
<1>. QED
  BY <1>1, <1>6, <1>7 DEF InputIn, u, F, G

LEMMA InputOfTail ==
  ASSUME NEW q \in Seq(Msgs), q # <<>>
  PROVE  InputIn(q) = Taking(<<>>, Head(q)) \o InputIn(Tail(q))
<1>. DEFINE u == Tail(q)
            h == Taking(<<>>, Head(q))
            F == InputUpTo(q)
            G == InputUpTo(u)
<1>. PICK k : k = Len(u) /\ k \in Nat
  OBVIOUS
<1>1. u \in Seq(Msgs) /\ Head(q) \in Msgs /\ Head(q) = q[1] /\ Len(q) = k + 1 /\ \A i \in 1..k : u[i] = q[i + 1]
  OBVIOUS
<1>2. Follows(F, q, k + 1) /\ Follows(G, u, k)
  BY <1>1, InputUpToFollows
<1>3. h \in Seq(Chunks)
  <2>1. <<>> \in Seq(Chunks)
    OBVIOUS
  <2>. QED
    BY <1>1, <2>1, TakingType
<1>. HIDE DEF u, F, G, h
<1>. DEFINE Agrees(n) == F[n + 1] = h \o G[n]
            S == {n \in Nat : n <= k => Agrees(n)}
<1>4. 0 \in S
  <2>1. F[1] = Taking(F[1 - 1], q[1]) /\ F[1 - 1] = <<>>
    BY <1>2 DEF Follows
  <2>2. F[1] = h
    BY <1>1, <2>1 DEF h
  <2>3. G[0] = <<>> /\ h \o <<>> = h
    BY <1>2, <1>3 DEF Follows
  <2>4. 0 + 1 = 1
    OBVIOUS
  <2>5. Agrees(0)
    BY <2>2, <2>3, <2>4, Zenon
  <2>. HIDE DEF Agrees
  <2>. QED
    BY <2>5
<1>5. ASSUME NEW n \in S PROVE n + 1 \in S
  <2>. SUFFICES ASSUME n + 1 <= k PROVE Agrees(n + 1)
    OBVIOUS
  <2>. PICK j : j = n + 1 /\ j \in 1..k /\ j - 1 = n /\ n \in 0..k
    OBVIOUS
  <2>1. j + 1 \in 1..k + 1 /\ (j + 1) - 1 = j /\ F[j] = h \o G[n]
    <3>1. Agrees(n)
      <4>. HIDE DEF Agrees
      <4>. QED
        OBVIOUS
    <3>2. F[j] = h \o G[n]
      BY <3>1
    <3>. QED
      BY <3>2
  <2>2. G[j] = Taking(G[n], u[j]) /\ G[n] \in Seq(Chunks)
    <3>1. G[j] = Taking(G[j - 1], u[j]) /\ G \in [0..k -> Seq(Chunks)]
      BY <1>2 DEF Follows
    <3>. QED
      BY <3>1
  <2>3. F[j + 1] = Taking(F[j], q[j + 1])
    <3>1. F[j + 1] = Taking(F[(j + 1) - 1], q[j + 1])
      BY <1>2, <2>1 DEF Follows
    <3>. QED
      BY <2>1, <3>1
  <2>4. u[j] = q[j + 1] /\ u[j] \in Msgs
    BY <1>1
  <2>5. Taking(h \o G[n], u[j]) = h \o Taking(G[n], u[j])
    <3>1. ASSUME NEW c \in Chunks, NEW s \in Seq(Chunks) PROVE Append(h \o s, c) = h \o Append(s, c)
      <4>1. <<c>> \in Seq(Chunks) /\ h \o s \in Seq(Chunks)
        BY <1>3, ConcatProperties
      <4>2. Append(h \o s, c) = (h \o s) \o <<c>> /\ Append(s, c) = s \o <<c>>
        BY <4>1, AppendIsConcat
      <4>3. (h \o s) \o <<c>> = h \o (s \o <<c>>)
        BY <1>3, <4>1, ConcatAssociative
      <4>. QED
        BY <4>2, <4>3
    <3>. QED
      BY <2>2, <2>4, <3>1, MsgParts DEF Taking
  <2>6. F[j + 1] = h \o G[j]
    BY <2>1, <2>2, <2>3, <2>4, <2>5
  <2>. QED
    BY <2>6, Zenon
<1>. HIDE DEF S, Agrees
<1>6. S = Nat
  <2>1. S \in SUBSET Nat
    BY DEF S
  <2>. QED
    BY <1>4, <1>5, <2>1, SetInduction
<1>7. Agrees(k)
  BY <1>6 DEF S
<1>. QED
  BY <1>1, <1>7, Zenon DEF InputIn, Agrees, u, F, G, h

(* What is there, in the order in which it was sent.                       *)
Before(a, b, c) == a \o b \o c
InOrder(a, b, c, d, e) == a \o b \o c \o d \o e

LEMMA Concat2 ==
  \A a, b \in Seq(Chunks) : a \o b \in Seq(Chunks) /\ <<>> \o b = b /\ a \o <<>> = a
BY ConcatProperties, ConcatEmptySeq

LEMMA Concat3 ==
  \A a, b, c \in Seq(Chunks) : a \o (b \o c) = (a \o b) \o c
BY ConcatAssociative

LEMMA ConcatAppend ==
  ASSUME NEW a \in Seq(Chunks), NEW x \in Chunks
  PROVE  <<x>> \in Seq(Chunks) /\ Append(a, x) = a \o <<x>>
<1>1. <<x>> \in Seq(Chunks)
  OBVIOUS
<1>. QED
  BY <1>1, AppendIsConcat

(* A chunk moves on, from the mailbox to the stream, ...                   *)
LEMMA LeavesMail ==
  ASSUME NEW a \in Seq(Chunks), NEW b \in Seq(Chunks), NEW c, NEW d, NEW e, NEW x \in Chunks
  PROVE  InOrder(a, <<x>> \o b, c, d, e) = InOrder(Append(a, x), b, c, d, e)
<1>1. <<x>> \in Seq(Chunks) /\ Append(a, x) = a \o <<x>>
  BY ConcatAppend
<1>2. a \o (<<x>> \o b) = (a \o <<x>>) \o b
  BY <1>1, Concat3
<1>. QED
  BY <1>1, <1>2, Zenon DEF InOrder

(* ... from the window to the reader, ...                                  *)
LEMMA LeavesWindow ==
  ASSUME NEW a \in Seq(Chunks), NEW b \in Seq(Chunks), NEW c \in Seq(Chunks), NEW e, NEW x \in Chunks
  PROVE  InOrder(a, b, c, <<x>>, e) = InOrder(a, b, Append(c, x), <<>>, e)
<1>1. <<x>> \in Seq(Chunks) /\ Append(c, x) = c \o <<x>> /\ a \o b \in Seq(Chunks)
  BY ConcatAppend, Concat2
<1>2. ((a \o b) \o c) \o <<x>> = (a \o b) \o (c \o <<x>>)
  BY <1>1, Concat3
<1>3. (a \o b) \o (c \o <<x>>) \in Seq(Chunks)
  BY <1>1, Concat2
<1>4. ((a \o b) \o (c \o <<x>>)) \o <<>> = (a \o b) \o (c \o <<x>>)
  BY <1>3, Concat2
<1>. QED
  BY <1>1, <1>2, <1>4, Zenon DEF InOrder

(* ... and from the queue into the window.                                 *)
LEMMA LeavesQueue ==
  ASSUME NEW s \in Seq(Chunks), NEW e \in Seq(Chunks), NEW x \in Chunks, NEW q, q = <<x>> \o e
  PROVE  (s \o <<>>) \o q = (s \o <<x>>) \o e
<1>1. <<x>> \in Seq(Chunks) /\ s \o <<>> = s
  BY Concat2, ConcatAppend
<1>2. s \o (<<x>> \o e) = (s \o <<x>>) \o e
  BY <1>1, Concat3
<1>. QED
  BY <1>1, <1>2, Zenon

(* A new chunk comes behind all the others, ...                            *)
LEMMA ComesBehindMail ==
  ASSUME NEW a \in Seq(Chunks), NEW b \in Seq(Chunks), NEW x \in Chunks
  PROVE  InOrder(a, Append(b, x), <<>>, <<>>, <<>>) = Append(InOrder(a, b, <<>>, <<>>, <<>>), x)
<1>1. <<x>> \in Seq(Chunks) /\ Append(b, x) = b \o <<x>> /\ a \o b \in Seq(Chunks)
  BY ConcatAppend, Concat2
<1>2. a \o (b \o <<x>>) = (a \o b) \o <<x>> /\ (a \o b) \o <<x>> \in Seq(Chunks)
  BY <1>1, Concat2, Concat3
<1>3. \A s \in Seq(Chunks) : s \o <<>> = s /\ Append(s, x) = s \o <<x>>
  BY Concat2, ConcatAppend
<1>4. InOrder(a, b \o <<x>>, <<>>, <<>>, <<>>) = (a \o b) \o <<x>> /\ InOrder(a, b, <<>>, <<>>, <<>>) = a \o b
  BY <1>1, <1>2, <1>3 DEF InOrder
<1>. QED
  BY <1>1, <1>3, <1>4

(* ... in the window, for a reader that waits, ...                         *)
LEMMA ComesIntoWindow ==
  ASSUME NEW a \in Seq(Chunks), NEW b \in Seq(Chunks), NEW c \in Seq(Chunks), NEW x \in Chunks
  PROVE  InOrder(a, b, c, <<x>>, <<>>) = Append(InOrder(a, b, c, <<>>, <<>>), x)
<1>1. <<x>> \in Seq(Chunks) /\ (a \o b) \o c \in Seq(Chunks) /\ ((a \o b) \o c) \o <<x>> \in Seq(Chunks)
  BY ConcatAppend, Concat2
<1>2. \A s \in Seq(Chunks) : s \o <<>> = s /\ Append(s, x) = s \o <<x>>
  BY Concat2, ConcatAppend
<1>3. InOrder(a, b, c, <<x>>, <<>>) = ((a \o b) \o c) \o <<x>> /\ InOrder(a, b, c, <<>>, <<>>) = (a \o b) \o c
  BY <1>1, <1>2 DEF InOrder
<1>. QED
  BY <1>1, <1>2, <1>3

(* ... or in the queue, for the next read.                                 *)
LEMMA ComesBehindQueue ==
  ASSUME NEW a, NEW b, NEW c, Before(a, b, c) \in Seq(Chunks), NEW d \in Seq(Chunks), NEW e \in Seq(Chunks),
         NEW x \in Chunks
  PROVE  InOrder(a, b, c, d, Append(e, x)) = Append(InOrder(a, b, c, d, e), x)
<1>. PICK s : s = Before(a, b, c)
  OBVIOUS
<1>. PICK t : t = s \o d
  OBVIOUS
<1>1. <<x>> \in Seq(Chunks) /\ Append(e, x) = e \o <<x>> /\ t \in Seq(Chunks)
  BY ConcatAppend, Concat2
<1>2. t \o (e \o <<x>>) = (t \o e) \o <<x>> /\ t \o e \in Seq(Chunks)
  BY <1>1, Concat2, Concat3
<1>3. Append(t \o e, x) = (t \o e) \o <<x>>
  BY <1>2, ConcatAppend
<1>. QED
  BY <1>1, <1>2, <1>3, Zenon DEF InOrder, Before

(* The route that input takes, and what the blocking reader was told.      *)
RouteInv ==
  /\ ~syncStdin => /\ returned = <<>> /\ stdinQueue = <<>> /\ window \in {Idle, Requested}
                   /\ ~stdinWaiting /\ ~stdinEnded
  /\ stdinWaiting => window = Requested /\ stdinQueue = <<>> /\ ~stdinEnded /\ ~capture
  /\ window = Empty => stdinQueue = <<>> /\ (stdinEnded \/ capture)
  /\ stdinEnded => EOF \in ToSet(typed)
  /\ alive <=> thread # "ended"
  /\ thread \in {"gate", "run", "paused"} => window = Idle

(* The kernel's flag tells of an end on the route through the window.      *)
EndIsKept == EOF \in ToSet(returned) \/ window = Answered(EOF) \/ EOF \in ToSet(stdinQueue)
EndInv == stdinEnded <=> EndIsKept

OrderInv == alive => InOrder(flowed, InputIn(mailbox), returned, InWindow, stdinQueue) = typed

LEMMA InitInput == Init => RouteInv /\ OrderInv
<1>. SUFFICES ASSUME Init PROVE RouteInv /\ OrderInv
  OBVIOUS
<1>1. Idle # Empty
  BY DEF Idle, Empty
<1>2. RouteInv
  BY <1>1 DEF Init, RouteInv
<1>3. InputIn(mailbox) = typed
  <2>1. Input(EOF) \in Msgs /\ Input(1) \in Msgs
    BY Numbers, MsgParts
  <2>2. \A s \in Seq(Chunks) : Taking(s, Input(EOF)) = Append(s, EOF) /\ Taking(s, Input(1)) = Append(s, 1)
    BY Numbers, MsgParts DEF Taking
  <2>3. InputIn(<<Input(EOF)>>) = <<EOF>>
    <3>1. <<Input(EOF)>> = Append(<<>>, Input(EOF)) /\ <<>> \in Seq(Msgs) /\ <<>> \in Seq(Chunks)
            /\ Append(<<>>, EOF) = <<EOF>>
      OBVIOUS
    <3>. QED
      BY <2>1, <2>2, <3>1, InputOfAppend, NoInput
  <2>4. InputIn(<<Input(1), Input(EOF)>>) = <<1, EOF>>
    <3>1. <<Input(1)>> = Append(<<>>, Input(1)) /\ <<>> \in Seq(Msgs) /\ <<>> \in Seq(Chunks)
            /\ Append(<<>>, 1) = <<1>>
      OBVIOUS
    <3>2. InputIn(<<Input(1)>>) = <<1>>
      BY <2>1, <2>2, <3>1, InputOfAppend, NoInput
    <3>3. \A x, y : <<x, y>> = Append(<<x>>, y)
      OBVIOUS
    <3>4. <<Input(1)>> \in Seq(Msgs) /\ <<1>> \in Seq(Chunks)
      BY <2>1, Numbers
    <3>5. InputIn(Append(<<Input(1)>>, Input(EOF))) = Append(<<1>>, EOF)
      BY <2>1, <2>2, <3>2, <3>4, InputOfAppend
    <3>. QED
      BY <3>3, <3>5
  <2>5. typed = <<>> \/ typed = <<EOF>> \/ typed = <<1, EOF>>
    BY DEF Init
  <2>6. CASE typed = <<>>
    <3>1. mailbox = <<>>
      BY <2>6 DEF Init
    <3>. QED
      BY <2>6, <3>1, NoInput
  <2>7. CASE typed = <<EOF>>
    <3>1. mailbox = <<Input(EOF)>>
      BY <2>7 DEF Init
    <3>. QED
      BY <2>7, <3>1, <2>3
  <2>8. CASE typed = <<1, EOF>>
    <3>1. mailbox = <<Input(1), Input(EOF)>>
      BY <2>8 DEF Init
    <3>. QED
      BY <2>8, <3>1, <2>4
  <2>. QED
    BY <2>5, <2>6, <2>7, <2>8
<1>4. flowed = <<>> /\ returned = <<>> /\ InWindow = <<>> /\ stdinQueue = <<>> /\ typed \in Seq(Chunks)
  BY WindowParts, InitType DEF Init, InWindow, TypeInv
<1>5. InOrder(<<>>, typed, <<>>, <<>>, <<>>) = typed
  <2>1. <<>> \in Seq(Chunks)
    OBVIOUS
  <2>. QED
    BY <1>4, <2>1, Concat2 DEF InOrder
<1>. QED
  BY <1>2, <1>3, <1>4, <1>5 DEF OrderInv

LEMMA ToSetOfAppend ==
  ASSUME NEW q \in Seq(Chunks), NEW x \in Chunks
  PROVE  ToSet(Append(q, x)) = ToSet(q) \union {x}
<1>. PICK n : n = Len(q) /\ n \in Nat
  OBVIOUS
<1>. DEFINE u == Append(q, x)
<1>1. DOMAIN q = 1..n /\ DOMAIN u = 1..n + 1 /\ u[n + 1] = x /\ \A i \in 1..n : u[i] = q[i]
  OBVIOUS
<1>2. n + 1 \in 1..n + 1 /\ (\A i \in 1..n : i \in 1..n + 1) /\ \A i \in 1..n + 1 : i \in 1..n \/ i = n + 1
  OBVIOUS
<1>. HIDE DEF u
<1>3. ToSet(u) = ToSet(q) \union {x}
  BY <1>1, <1>2 DEF ToSet
<1>. QED
  BY <1>3 DEF u

LEMMA WindowsDiffer ==
  /\ Idle # Empty /\ Idle # Requested /\ Requested # Empty
  /\ \A c \in Chunks : Answered(c) \notin {Idle, Requested, Empty}
BY WindowParts, Zenon

LEMMA NextRoute == TypeInv /\ RouteInv /\ [Next]_vars => RouteInv'
<1>. SUFFICES ASSUME TypeInv, RouteInv, [Next]_vars PROVE RouteInv'
  OBVIOUS
<1>. USE DEF studio, channels, debug, stdin, guest
<1>1. CASE DebugCommand \/ Retry \/ HandleDebugEvent \/ HandleMail \/ Attach \/ SendCmd \/ Click \/ StudioHears \/ UNCHANGED vars
  <2>1. UNCHANGED <<syncStdin, returned, stdinQueue, window, stdinWaiting, stdinEnded, capture, typed, alive, thread>>
    BY <1>1 DEF DebugCommand, Retry, HandleDebugEvent, HandleMail, Attach, SendCmd, Click, StudioHears, vars
  <2>. QED
    BY <2>1 DEF RouteInv
<1>2. ASSUME NEW c \in Chunks, SendStdin(c) PROVE RouteInv'
  <2>1. ToSet(typed) \subseteq ToSet(typed') /\ c \in ToSet(typed')
    BY <1>2, ToSetOfAppend DEF SendStdin, TypeInv
  <2>2. ~capture /\ ~stdinEnded /\ window # Empty /\ UNCHANGED <<syncStdin, returned, capture, alive, thread>>
    BY <1>2 DEF SendStdin, RouteInv
  <2>3. CASE ~syncStdin
    <3>1. UNCHANGED <<stdinQueue, window, stdinWaiting, stdinEnded>>
      BY <1>2, <2>3 DEF SendStdin
    <3>. QED
      BY <2>1, <2>2, <3>1 DEF RouteInv
  <2>4. CASE syncStdin /\ stdinWaiting
    <3>1. window' = Answered(c) /\ stdinWaiting' = FALSE /\ stdinQueue' = stdinQueue /\ stdinEnded' = (c = EOF)
      BY <1>2, <2>2, <2>4 DEF SendStdin
    <3>2. window = Requested /\ thread \notin {"gate", "run", "paused"}
      BY <2>4, WindowsDiffer DEF RouteInv
    <3>. QED
      BY <2>1, <2>2, <2>4, <3>1, <3>2, WindowsDiffer DEF RouteInv
  <2>5. CASE syncStdin /\ ~stdinWaiting
    <3>1. window' = window /\ stdinWaiting' = FALSE /\ stdinEnded' = (c = EOF)
      BY <1>2, <2>2, <2>5 DEF SendStdin
    <3>. QED
      BY <2>1, <2>2, <2>5, <3>1 DEF RouteInv
  <2>. QED
    BY <2>3, <2>4, <2>5
<1>3. CASE HandleReadStdin
  <2>1. window = Requested /\ ~stdinWaiting /\ syncStdin' = TRUE /\ thread \notin {"gate", "run", "paused"}
          /\ UNCHANGED <<returned, stdinEnded, capture, typed, alive, thread>>
    BY <1>3, WindowsDiffer DEF HandleReadStdin, RouteInv
  <2>2. CASE stdinQueue # <<>>
    <3>1. window' = Answered(Head(stdinQueue)) /\ stdinWaiting' = stdinWaiting /\ Head(stdinQueue) \in Chunks
      BY <1>3, <2>2, TailOf DEF HandleReadStdin, TypeInv
    <3>. QED
      BY <2>1, <3>1, WindowsDiffer DEF RouteInv
  <2>3. CASE stdinQueue = <<>> /\ (stdinEnded \/ capture)
    <3>1. window' = Empty /\ UNCHANGED <<stdinQueue, stdinWaiting>>
      BY <1>3, <2>3 DEF HandleReadStdin
    <3>. QED
      BY <2>1, <2>3, <3>1 DEF RouteInv
  <2>4. CASE stdinQueue = <<>> /\ ~(stdinEnded \/ capture)
    <3>1. stdinWaiting' = TRUE /\ UNCHANGED <<window, stdinQueue>>
      BY <1>3, <2>4 DEF HandleReadStdin
    <3>. QED
      BY <2>1, <2>4, <3>1, WindowsDiffer DEF RouteInv
  <2>. QED
    BY <2>2, <2>3, <2>4
<1>4. CASE Finalize
  <2>1. alive' = FALSE /\ thread' = "ended"
          /\ UNCHANGED <<syncStdin, returned, stdinQueue, window, stdinWaiting, stdinEnded, capture, typed>>
    BY <1>4 DEF Finalize
  <2>. QED
    BY <2>1 DEF RouteInv
<1>5. CASE TakeCommand \/ GateTimesOut \/ Pause
  <2>1. /\ thread \in {"gate", "run", "paused"} /\ thread' \in {"gate", "run", "paused"}
        /\ UNCHANGED <<syncStdin, returned, stdinQueue, window, stdinWaiting, stdinEnded, capture, typed, alive>>
    BY <1>5 DEF TakeCommand, Parked, GateTimesOut, Resumes, Pause
  <2>. QED
    BY <2>1 DEF RouteInv
<1>6. CASE ReadStdin
  <2>1. thread = "run" /\ thread' = "read" /\ window' = Requested
          /\ UNCHANGED <<syncStdin, returned, stdinQueue, stdinWaiting, stdinEnded, capture, typed, alive>>
    BY <1>6 DEF ReadStdin
  <2>. QED
    BY <2>1, WindowsDiffer DEF RouteInv
<1>7. CASE Return
  <2>1. thread = "read" /\ thread' = "run" /\ window' = Idle /\ window.st \in {"answered", "end"}
          /\ UNCHANGED <<syncStdin, stdinQueue, stdinWaiting, stdinEnded, capture, typed, alive>>
    BY <1>7 DEF Return
  <2>2. window # Idle /\ window # Requested
    BY <2>1, WindowParts
  <2>3. syncStdin /\ ~stdinWaiting
    BY <2>2 DEF RouteInv
  <2>. QED
    BY <2>1, <2>3, WindowsDiffer DEF RouteInv
<1>. QED
  BY <1>1, <1>2, <1>3, <1>4, <1>5, <1>6, <1>7 DEF Next, Kernel, Guest, Studio

LEMMA ToSetOfConcat ==
  ASSUME NEW a \in Seq(Chunks), NEW b \in Seq(Chunks)
  PROVE  ToSet(a \o b) = ToSet(a) \union ToSet(b)
<1>. DEFINE u == a \o b
<1>. PICK n : n = Len(a) /\ n \in Nat
  OBVIOUS
<1>. PICK k : k = Len(b) /\ k \in Nat
  OBVIOUS
<1>1. /\ DOMAIN a = 1..n /\ DOMAIN b = 1..k /\ DOMAIN u = 1..n + k
      /\ (\A i \in 1..n : u[i] = a[i]) /\ \A i \in 1..k : u[n + i] = b[i]
  OBVIOUS
<1>2. /\ \A i \in 1..n + k : i \in 1..n \/ (i - n \in 1..k /\ n + (i - n) = i)
      /\ (\A i \in 1..n : i \in 1..n + k) /\ \A i \in 1..k : n + i \in 1..n + k
  OBVIOUS
<1>. HIDE DEF u
<1>3. \A x : (\E i \in 1..n + k : x = u[i]) <=> (\E i \in 1..n : x = a[i]) \/ (\E i \in 1..k : x = b[i])
  <2>1. ASSUME NEW i \in 1..n + k PROVE (\E j \in 1..n : u[i] = a[j]) \/ (\E j \in 1..k : u[i] = b[j])
    <3>1. i \in 1..n => u[i] = a[i]
      BY <1>1
    <3>2. i \notin 1..n => i - n \in 1..k /\ u[i] = b[i - n]
      BY <1>1, <1>2
    <3>. QED
      BY <3>1, <3>2, Zenon
  <2>2. ASSUME NEW i \in 1..n PROVE i \in 1..n + k /\ a[i] = u[i]
    BY <1>1, <1>2
  <2>3. ASSUME NEW i \in 1..k PROVE n + i \in 1..n + k /\ b[i] = u[n + i]
    BY <1>1, <1>2
  <2>4. ASSUME NEW x, \E i \in 1..n + k : x = u[i]
        PROVE  (\E i \in 1..n : x = a[i]) \/ \E i \in 1..k : x = b[i]
    BY <2>1, <2>4, Zenon
  <2>5. ASSUME NEW x, (\E i \in 1..n : x = a[i]) \/ \E i \in 1..k : x = b[i]
        PROVE  \E i \in 1..n + k : x = u[i]
    BY <2>2, <2>3, <2>5, Zenon
  <2>. QED
    BY <2>4, <2>5, Zenon
<1>4. /\ \A x : x \in ToSet(u) <=> \E i \in 1..n + k : x = u[i]
      /\ \A x : x \in ToSet(a) <=> \E i \in 1..n : x = a[i]
      /\ \A x : x \in ToSet(b) <=> \E i \in 1..k : x = b[i]
  BY <1>1 DEF ToSet
<1>5. ToSet(u) = ToSet(a) \union ToSet(b)
  <2>1. \A x : x \in ToSet(u) <=> x \in ToSet(a) \union ToSet(b)
    BY <1>3, <1>4
  <2>. QED
    BY <2>1
<1>. QED
  BY <1>5, Zenon DEF u

LEMMA InitEnd == Init => EndInv
<1>1. ToSet(<<>>) = {}
  BY DEF ToSet
<1>. QED
  BY <1>1, Numbers, WindowsDiffer DEF Init, EndInv, EndIsKept

LEMMA NextEnd == TypeInv /\ RouteInv /\ EndInv /\ [Next]_vars => EndInv'
<1>. SUFFICES ASSUME TypeInv, RouteInv, EndInv, [Next]_vars PROVE EndInv'
  OBVIOUS
<1>. USE DEF studio, channels, debug, stdin, guest
<1>1. CASE UNCHANGED <<returned, window, stdinQueue, stdinEnded>>
  BY <1>1, Zenon DEF EndInv, EndIsKept
<1>2. CASE DebugCommand \/ Retry \/ HandleDebugEvent \/ HandleMail \/ Attach \/ SendCmd \/ Click \/ StudioHears \/ Finalize
             \/ TakeCommand \/ GateTimesOut \/ Pause \/ UNCHANGED vars
  <2>1. UNCHANGED <<returned, window, stdinQueue, stdinEnded>>
    BY <1>2 DEF DebugCommand, Retry, HandleDebugEvent, HandleMail, Attach, SendCmd, Click, StudioHears, Finalize,
                TakeCommand, GateTimesOut, Pause, vars
  <2>. QED
    BY <1>1, <2>1
<1>3. ASSUME NEW c \in Chunks, SendStdin(c) PROVE EndInv'
  <2>1. returned' = returned
    BY <1>3 DEF SendStdin
  <2>2. CASE ~syncStdin
    <3>1. UNCHANGED <<window, stdinQueue, stdinEnded>>
      BY <1>3, <2>2 DEF SendStdin
    <3>. QED
      BY <1>1, <2>1, <3>1
  <2>3. CASE syncStdin /\ stdinWaiting
    <3>1. window' = Answered(c) /\ stdinQueue' = stdinQueue /\ (stdinEnded' <=> stdinEnded \/ c = EOF)
      BY <1>3, <2>3 DEF SendStdin
    <3>2. window # Answered(EOF)
      BY <2>3, Numbers, WindowsDiffer DEF RouteInv
    <3>3. Answered(c) = Answered(EOF) <=> c = EOF
      BY Numbers, WindowParts
    <3>. QED
      BY <2>1, <3>1, <3>2, <3>3, Zenon DEF EndInv, EndIsKept
  <2>4. CASE syncStdin /\ ~stdinWaiting
    <3>1. window' = window /\ stdinQueue' = Append(stdinQueue, c) /\ (stdinEnded' <=> stdinEnded \/ c = EOF)
      BY <1>3, <2>4 DEF SendStdin
    <3>2. EOF \in ToSet(stdinQueue') <=> EOF \in ToSet(stdinQueue) \/ c = EOF
      BY <3>1, ToSetOfAppend DEF TypeInv
    <3>. QED
      BY <2>1, <3>1, <3>2, Zenon DEF EndInv, EndIsKept
  <2>. QED
    BY <2>2, <2>3, <2>4 DEF TypeInv
<1>4. CASE HandleReadStdin
  <2>1. window = Requested /\ UNCHANGED <<returned, stdinEnded>>
    BY <1>4 DEF HandleReadStdin
  <2>2. window # Answered(EOF)
    BY <2>1, Numbers, WindowsDiffer
  <2>3. CASE stdinQueue # <<>>
    <3>. PICK x, t : x = Head(stdinQueue) /\ t = Tail(stdinQueue)
      OBVIOUS
    <3>1. window' = Answered(x) /\ stdinQueue' = t
      BY <1>4, <2>3 DEF HandleReadStdin
    <3>2. x \in Chunks /\ t \in Seq(Chunks) /\ <<x>> \in Seq(Chunks) /\ stdinQueue = <<x>> \o t
      BY <2>3 DEF TypeInv
    <3>3. ToSet(<<x>>) = {x}
      BY DEF ToSet
    <3>4. EOF \in ToSet(stdinQueue) <=> EOF = x \/ EOF \in ToSet(t)
      BY <3>2, <3>3, ToSetOfConcat
    <3>5. Answered(x) = Answered(EOF) <=> x = EOF
      BY <3>2, Numbers, WindowParts
    <3>. QED
      BY <2>1, <2>2, <3>1, <3>4, <3>5, Zenon DEF EndInv, EndIsKept
  <2>4. CASE stdinQueue = <<>>
    <3>1. window' \in {Requested, Empty} /\ stdinQueue' = stdinQueue
      BY <1>4, <2>1, <2>4 DEF HandleReadStdin
    <3>2. window' # Answered(EOF)
      BY <3>1, Numbers, WindowsDiffer
    <3>. QED
      BY <2>1, <2>2, <3>1, <3>2, Zenon DEF EndInv, EndIsKept
  <2>. QED
    BY <2>3, <2>4
<1>5. CASE ReadStdin
  <2>1. thread = "run" /\ window' = Requested /\ UNCHANGED <<returned, stdinQueue, stdinEnded>>
    BY <1>5 DEF ReadStdin
  <2>2. window # Answered(EOF) /\ window' # Answered(EOF)
    BY <2>1, Numbers, WindowsDiffer DEF RouteInv
  <2>. QED
    BY <2>1, <2>2, Zenon DEF EndInv, EndIsKept
<1>6. CASE Return
  <2>1. window' = Idle /\ UNCHANGED <<stdinQueue, stdinEnded>>
    BY <1>6 DEF Return
  <2>2. window' # Answered(EOF)
    BY <2>1, Numbers, WindowsDiffer
  <2>3. CASE window.st = "answered"
    <3>. PICK x : x = window.chunk
      OBVIOUS
    <3>1. x \in Chunks /\ returned' = Append(returned, x) /\ window = Answered(x)
      BY <1>6, <2>3, WindowParts DEF Return, TypeInv, Windows
    <3>2. EOF \in ToSet(returned') <=> EOF \in ToSet(returned) \/ x = EOF
      BY <3>1, ToSetOfAppend DEF TypeInv
    <3>3. window = Answered(EOF) <=> x = EOF
      BY <3>1, Numbers, WindowParts
    <3>. QED
      BY <2>1, <2>2, <3>2, <3>3, Zenon DEF EndInv, EndIsKept
  <2>4. CASE window.st # "answered"
    <3>1. returned' = returned /\ window # Answered(EOF)
      BY <1>6, <2>4, Numbers, WindowParts DEF Return
    <3>. QED
      BY <2>1, <2>2, <3>1, Zenon DEF EndInv, EndIsKept
  <2>. QED
    BY <2>3, <2>4
<1>. QED
  BY <1>2, <1>3, <1>4, <1>5, <1>6 DEF Next, Kernel, Guest, Studio

LEMMA WindowHolds ==
  /\ \A c \in Chunks : window = Answered(c) => InWindow = <<c>>
  /\ window \in {Idle, Requested, Empty} => InWindow = <<>>
BY WindowParts DEF InWindow

LEMMA WindowHoldsThen ==
  /\ \A c \in Chunks : window' = Answered(c) => InWindow' = <<c>>
  /\ window' \in {Idle, Requested, Empty} => InWindow' = <<>>
BY WindowParts DEF InWindow

LEMMA InWindowType == TypeInv => InWindow \in Seq(Chunks)
<1>. SUFFICES ASSUME TypeInv PROVE InWindow \in Seq(Chunks)
  OBVIOUS
<1>1. window \in {Idle, Requested, Empty} \/ \E c \in Chunks : window = Answered(c)
  BY DEF TypeInv, Windows
<1>2. <<>> \in Seq(Chunks) /\ \A c \in Chunks : <<c>> \in Seq(Chunks)
  OBVIOUS
<1>. QED
  BY <1>1, <1>2, WindowHolds

LEMMA NextOrder == TypeInv /\ RouteInv /\ OrderInv /\ [Next]_vars => OrderInv'
<1>. SUFFICES ASSUME TypeInv, RouteInv, OrderInv, [Next]_vars, alive' PROVE
       InOrder(flowed', InputIn(mailbox'), returned', InWindow', stdinQueue') = typed'
  BY DEF OrderInv
<1>. USE DEF studio, channels, debug, stdin, guest
<1>0. alive
  BY DEF Next, Kernel, Guest, Studio, DebugCommand, Retry, HandleDebugEvent, HandleReadStdin, SendStdin, Finalize,
         TakeCommand, GateTimesOut, Pause, HandleMail, ReadStdin, Return, Attach, SendCmd, Click, StudioHears, vars,
         TypeInv
<1>a. InOrder(flowed, InputIn(mailbox), returned, InWindow, stdinQueue) = typed
  BY <1>0 DEF OrderInv
<1>b. /\ flowed \in Seq(Chunks) /\ InputIn(mailbox) \in Seq(Chunks) /\ returned \in Seq(Chunks)
      /\ InWindow \in Seq(Chunks) /\ stdinQueue \in Seq(Chunks) /\ mailbox \in Seq(Msgs) /\ window \in Windows
  BY InputInType, InWindowType DEF TypeInv
<1>c. window' = window => InWindow' = InWindow
  BY DEF InWindow
<1>d. PICK f, m, r, w, s : f = flowed /\ m = InputIn(mailbox) /\ r = returned /\ w = InWindow /\ s = stdinQueue
  OBVIOUS
<1>e. f \in Seq(Chunks) /\ m \in Seq(Chunks) /\ r \in Seq(Chunks) /\ w \in Seq(Chunks) /\ s \in Seq(Chunks)
  BY <1>b, <1>d
<1>f. Before(f, m, r) \in Seq(Chunks)
  BY <1>e, Concat2 DEF Before
<1>1. CASE DebugCommand
  <2>1. UNCHANGED <<flowed, returned, window, stdinQueue, typed>>
    BY <1>1 DEF DebugCommand
  <2>2. mailbox' = mailbox \/ mailbox' = Append(mailbox, Cmd(Head(toKernel)))
    BY <1>1 DEF DebugCommand
  <2>3. Cmd(Head(toKernel)) \in Msgs /\ Cmd(Head(toKernel)).type = "dbg-cmd"
    BY <1>1, TailOf, MsgParts DEF DebugCommand, TypeInv
  <2>4. InputIn(Append(mailbox, Cmd(Head(toKernel)))) = InputIn(mailbox)
    BY <1>b, <2>3, InputOfAppend DEF Taking
  <2>. QED
    BY <1>a, <1>c, <2>1, <2>2, <2>4
<1>2. CASE Retry \/ HandleDebugEvent \/ TakeCommand \/ GateTimesOut \/ Pause \/ Attach \/ SendCmd \/ Click \/ StudioHears
             \/ UNCHANGED vars
  <2>1. UNCHANGED <<flowed, mailbox, returned, window, stdinQueue, typed>>
    BY <1>2 DEF Retry, HandleDebugEvent, TakeCommand, GateTimesOut, Pause, Attach, SendCmd, Click, StudioHears, vars
  <2>. QED
    BY <1>a, <1>c, <2>1
<1>3. ASSUME NEW c \in Chunks, SendStdin(c) PROVE
        InOrder(flowed', InputIn(mailbox'), returned', InWindow', stdinQueue') = typed'
  <2>1. typed' = Append(typed, c) /\ UNCHANGED <<flowed, returned>>
    BY <1>3 DEF SendStdin
  <2>2. CASE ~syncStdin
    <3>1. mailbox' = Append(mailbox, Input(c)) /\ UNCHANGED <<window, stdinQueue>>
      BY <1>3, <2>2 DEF SendStdin
    <3>2. returned = <<>> /\ stdinQueue = <<>> /\ InWindow = <<>>
      BY <2>2, WindowHolds DEF RouteInv
    <3>3. InputIn(mailbox') = Append(InputIn(mailbox), c)
      BY <1>b, <3>1, MsgParts, InputOfAppend DEF Taking
    <3>4. InOrder(f, Append(m, c), <<>>, <<>>, <<>>) = Append(InOrder(f, m, <<>>, <<>>, <<>>), c)
      BY <1>e, ComesBehindMail
    <3>. QED
      BY <1>a, <1>c, <1>d, <2>1, <3>1, <3>2, <3>3, <3>4
  <2>3. CASE syncStdin /\ stdinWaiting
    <3>1. window' = Answered(c) /\ UNCHANGED <<mailbox, stdinQueue>>
      BY <1>3, <2>3 DEF SendStdin
    <3>2. stdinQueue = <<>> /\ InWindow = <<>> /\ InWindow' = <<c>>
      BY <2>3, <3>1, WindowHolds, WindowHoldsThen DEF RouteInv
    <3>3. InOrder(f, m, r, <<c>>, <<>>) = Append(InOrder(f, m, r, <<>>, <<>>), c)
      BY <1>e, ComesIntoWindow
    <3>. QED
      BY <1>a, <1>d, <2>1, <3>1, <3>2, <3>3
  <2>4. CASE syncStdin /\ ~stdinWaiting
    <3>1. stdinQueue' = Append(stdinQueue, c) /\ UNCHANGED <<mailbox, window>>
      BY <1>3, <2>4 DEF SendStdin
    <3>2. InOrder(f, m, r, w, Append(s, c)) = Append(InOrder(f, m, r, w, s), c)
      BY <1>e, <1>f, ComesBehindQueue
    <3>. QED
      BY <1>a, <1>c, <1>d, <2>1, <3>1, <3>2
  <2>. QED
    BY <2>2, <2>3, <2>4 DEF TypeInv
<1>4. CASE HandleReadStdin
  <2>1. window = Requested /\ UNCHANGED <<flowed, mailbox, returned, typed>>
    BY <1>4 DEF HandleReadStdin
  <2>2. InWindow = <<>>
    BY <2>1, WindowHolds
  <2>3. CASE stdinQueue # <<>>
    <3>1. window' = Answered(Head(stdinQueue)) /\ stdinQueue' = Tail(stdinQueue)
      BY <1>4, <2>3 DEF HandleReadStdin
    <3>. PICK x, t : x = Head(stdinQueue) /\ t = Tail(stdinQueue)
      OBVIOUS
    <3>2. x \in Chunks /\ t \in Seq(Chunks)
      BY <1>b, <2>3
    <3>3. InWindow' = <<x>>
      BY <3>1, <3>2, WindowHoldsThen
    <3>4. s = <<x>> \o t
      BY <1>b, <1>d, <2>3
    <3>5. InOrder(f, m, r, <<>>, s) = InOrder(f, m, r, <<x>>, t)
      <4>. PICK p : p = Before(f, m, r)
        OBVIOUS
      <4>1. InOrder(f, m, r, <<>>, s) = (p \o <<>>) \o s /\ InOrder(f, m, r, <<x>>, t) = (p \o <<x>>) \o t
        BY Zenon DEF InOrder, Before
      <4>2. p \in Seq(Chunks)
        BY <1>f
      <4>3. (p \o <<>>) \o s = (p \o <<x>>) \o t
        BY <3>2, <3>4, <4>2, LeavesQueue
      <4>. QED
        BY <4>1, <4>3
    <3>. QED
      BY <1>a, <1>d, <2>1, <2>2, <3>1, <3>3, <3>5
  <2>4. CASE stdinQueue = <<>>
    <3>1. window' \in {Requested, Empty} /\ stdinQueue' = stdinQueue
      BY <1>4, <2>1, <2>4 DEF HandleReadStdin
    <3>2. InWindow' = <<>>
      BY <3>1, WindowHoldsThen
    <3>. QED
      BY <1>a, <2>1, <2>2, <3>1, <3>2
  <2>. QED
    BY <2>3, <2>4
<1>5. CASE HandleMail
  <2>1. mailbox # <<>> /\ mailbox' = Tail(mailbox) /\ UNCHANGED <<returned, window, stdinQueue, typed>>
    BY <1>5 DEF HandleMail
  <2>2. Head(mailbox) \in Msgs /\ Tail(mailbox) \in Seq(Msgs)
    BY <1>b, <2>1, TailOf
  <2>3. InputIn(mailbox) = Taking(<<>>, Head(mailbox)) \o InputIn(mailbox') /\ InputIn(mailbox') \in Seq(Chunks)
    BY <1>b, <2>1, <2>2, InputOfTail, InputInType
  <2>4. CASE Head(mailbox).type = "stdin"
    <3>. PICK x : x = Head(mailbox).of
      OBVIOUS
    <3>1. flowed' = Append(flowed, x) /\ x \in Chunks
      BY <1>5, <2>2, <2>4, MsgParts DEF HandleMail
    <3>2. Taking(<<>>, Head(mailbox)) = <<x>>
      BY <2>4, <3>1 DEF Taking
    <3>. PICK t : t = InputIn(mailbox')
      OBVIOUS
    <3>3. InOrder(f, <<x>> \o t, r, w, s) = InOrder(Append(f, x), t, r, w, s)
      BY <1>e, <2>3, <3>1, LeavesMail
    <3>. QED
      BY <1>a, <1>c, <1>d, <2>1, <2>3, <3>1, <3>2, <3>3
  <2>5. CASE Head(mailbox).type # "stdin"
    <3>1. flowed' = flowed
      BY <1>5, <2>5 DEF HandleMail
    <3>2. InputIn(mailbox) = InputIn(mailbox')
      BY <2>3, <2>5, Concat2 DEF Taking
    <3>. QED
      BY <1>a, <1>c, <2>1, <3>1, <3>2
  <2>. QED
    BY <2>4, <2>5
<1>6. CASE ReadStdin
  <2>1. thread = "run" /\ window' = Requested /\ UNCHANGED <<flowed, mailbox, returned, stdinQueue, typed>>
    BY <1>6 DEF ReadStdin
  <2>2. InWindow = <<>> /\ InWindow' = <<>>
    BY <2>1, WindowHolds, WindowHoldsThen DEF RouteInv
  <2>. QED
    BY <1>a, <2>1, <2>2
<1>7. CASE Return
  <2>1. window' = Idle /\ UNCHANGED <<flowed, mailbox, stdinQueue, typed>>
    BY <1>7 DEF Return
  <2>2. InWindow' = <<>>
    BY <2>1, WindowHoldsThen
  <2>3. CASE window.st = "answered"
    <3>. PICK x : x = window.chunk
      OBVIOUS
    <3>1. x \in Chunks /\ returned' = Append(returned, x) /\ InWindow = <<x>>
      BY <1>b, <1>7, <2>3, WindowParts DEF Return, InWindow
    <3>2. InOrder(f, m, r, <<x>>, s) = InOrder(f, m, Append(r, x), <<>>, s)
      BY <1>e, <3>1, LeavesWindow
    <3>. QED
      BY <1>a, <1>d, <2>1, <2>2, <3>1, <3>2
  <2>4. CASE window.st # "answered"
    <3>1. returned' = returned /\ InWindow = <<>>
      BY <1>7, <2>4 DEF Return, InWindow
    <3>. QED
      BY <1>a, <2>1, <2>2, <3>1
  <2>. QED
    BY <2>3, <2>4
<1>8. CASE Finalize
  BY <1>8 DEF Finalize
<1>. QED
  BY <1>1, <1>2, <1>3, <1>4, <1>5, <1>6, <1>7, <1>8 DEF Next, Kernel, Guest, Studio

LEMMA InductiveInput == Spec => [](TypeInv /\ RouteInv /\ EndInv /\ OrderInv)
<1>1. Init => TypeInv /\ RouteInv /\ EndInv /\ OrderInv
  BY InitType, InitInput, InitEnd
<1>2. TypeInv /\ RouteInv /\ EndInv /\ OrderInv /\ [Next]_vars => (TypeInv /\ RouteInv /\ EndInv /\ OrderInv)'
  BY NextType, NextRoute, NextEnd, NextOrder
<1>. QED
  BY <1>1, <1>2, PTL DEF Spec

(* The five places are the two routes, one behind the other.               *)
LEMMA TwoRoutes ==
  ASSUME TypeInv
  PROVE  /\ ByMessage \o ByWindow = InOrder(flowed, InputIn(mailbox), returned, InWindow, stdinQueue)
         /\ ByMessage \in Seq(Chunks) /\ ByWindow \in Seq(Chunks)
<1>. PICK m, r, w, q : m = ByMessage /\ r = returned /\ w = InWindow /\ q = stdinQueue
  OBVIOUS
<1>1. r \in Seq(Chunks) /\ w \in Seq(Chunks) /\ q \in Seq(Chunks) /\ m \in Seq(Chunks)
  BY InputInType, InWindowType, Concat2 DEF TypeInv, ByMessage
<1>2. r \o w \in Seq(Chunks) /\ (r \o w) \o q \in Seq(Chunks)
  BY <1>1, Concat2
<1>3. m \o ((r \o w) \o q) = (m \o (r \o w)) \o q /\ m \o (r \o w) = (m \o r) \o w
  BY <1>1, <1>2, Concat3
<1>4. InOrder(flowed, InputIn(mailbox), returned, InWindow, stdinQueue) = ((m \o r) \o w) \o q
  BY Zenon DEF InOrder, ByMessage
<1>. QED
  BY <1>1, <1>2, <1>3, <1>4, Zenon DEF ByWindow

(* A bare end follows an end, and one that parks was told of none.         *)
LEMMA EndIsTold ==
  ASSUME TypeInv, RouteInv, EndInv, OrderInv
  PROVE  /\ window = Empty => stdinQueue = <<>> /\ (capture \/ EOF \in ToSet(returned))
         /\ alive /\ stdinWaiting =>
              stdinQueue = <<>> /\ ~capture /\ (EOF \in ToSet(typed) => EOF \in ToSet(ByMessage))
<1>1. ToSet(<<>>) = {}
  BY DEF ToSet
<1>2. ASSUME window = Empty PROVE stdinQueue = <<>> /\ (capture \/ EOF \in ToSet(returned))
  <2>1. stdinQueue = <<>> /\ (stdinEnded \/ capture) /\ window # Answered(EOF)
    BY <1>2, Numbers, WindowsDiffer DEF RouteInv
  <2>. QED
    BY <1>1, <2>1 DEF EndInv, EndIsKept
<1>3. ASSUME alive, stdinWaiting PROVE
        stdinQueue = <<>> /\ ~capture /\ (EOF \in ToSet(typed) => EOF \in ToSet(ByMessage))
  <2>1. window = Requested /\ stdinQueue = <<>> /\ ~stdinEnded /\ ~capture /\ EOF \notin ToSet(returned)
    BY <1>3 DEF RouteInv, EndInv, EndIsKept
  <2>2. ByWindow = returned
    BY <2>1, WindowHolds, Concat2 DEF ByWindow, TypeInv
  <2>3. typed = ByMessage \o returned
    BY <1>3, <2>2, TwoRoutes DEF OrderInv
  <2>4. ToSet(typed) = ToSet(ByMessage) \union ToSet(returned)
    BY <2>3, TwoRoutes, ToSetOfConcat DEF TypeInv
  <2>. QED
    BY <2>1, <2>4
<1>. QED
  BY <1>2, <1>3

(* Input takes one of two routes, once, and keeps its order on it, the     *)
(* route by message first, whenever the first blocking read falls; a bare  *)
(* end follows the end on the reader's route, and no reader parks while    *)
(* something is kept for it, or after an end that came its way (sendStdin, *)
(* handleReadStdin).                                                       *)
THEOREM InputOnItsRoute == Spec => []InputKept
<1>1. TypeInv /\ RouteInv /\ EndInv /\ OrderInv => InputKept
  BY TypeInvIsTypeOK, TwoRoutes, EndIsTold DEF OrderInv, InputKept
<1>. QED
  BY <1>1, InductiveInput, PTL
===============================================================================
