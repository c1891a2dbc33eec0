---------------------------- MODULE SignalsProofs ----------------------------
(***************************************************************************)
(* Signal delivery for any set of signals and any number of posts: no      *)
(* accepted signal gets lost on the way to its handler but behind a handler*)
(* that throws, and a guest that never stands a window down always has one *)
(* open.                                                                   *)
(***************************************************************************)
EXTENDS Signals, TLAPS

(* The exit message is the last, so one place in the queue is kept for it.  *)
QueueInv == pc # "ended" => Len(toKernel) <= MaxQueue

(* drain() starts on an empty list and leaves it empty.                     *)
DrainInv == pc \notin {"drain", "handler", "ended"} => draining = {}

(* Whoever adds to the pending set outside the drain also leaves a wake-up, *)
(* and the loop uses it up only on its way to a turn.                       *)
WakeInv ==
  /\ pending # {} => netPending \/ pc \in {"turn", "ended"}
  /\ pc = "asleep" => pending = {}

(* Where an accepted signal is that no throwing handler cut off.            *)
OnItsWay(s) == s \in bits \union pending \union draining \/ \E i \in DOMAIN toGuest : toGuest[i] = s
KeptInv == pc # "ended" => \A s \in owed \ dropped : OnItsWay(s)

(* Only a guest that stood down has sent "signal-handled".                  *)
StandInv == ~stoodDown => \A i \in DOMAIN toKernel : toKernel[i].type # "signal-handled"

IInv == TypeOK /\ QueueInv /\ DrainInv /\ WakeInv /\ KeptInv /\ StandInv /\ WindowOpenUntilStoodDown

LEMMA MessageTypes ==
  /\ Exit \in Messages /\ Exit.type = "exit"
  /\ \A s \in Sig : /\ Handled(s) \in Messages /\ Handled(s).sig = s
                    /\ Handled(s).type = "signal-handled"
  /\ \A s \in Sig : /\ Listen(s, TRUE) \in Messages /\ Listen(s, TRUE).type = "signal-listen"
                    /\ Listen(s, FALSE) \in Messages /\ Listen(s, FALSE).type = "signal-listen"
  /\ \A m \in Messages : m.type \in {"signal-listen", "signal-handled"} => m.sig \in Sig
<1>1. Exit \in Messages /\ Exit.type = "exit"
  BY DEF Messages, Exit
<1>2. \A s \in Sig : Handled(s) \in Messages
  BY DEF Messages
<1>3. \A s \in Sig, a \in BOOLEAN : Listen(s, a) \in Messages
  BY DEF Messages
<1>4. \A s \in Sig : Handled(s).sig = s /\ Handled(s).type = "signal-handled"
  BY DEF Handled
<1>5. \A s \in Sig, a \in BOOLEAN : Listen(s, a).sig = s /\ Listen(s, a).type = "signal-listen"
  BY DEF Listen
<1>6. ASSUME NEW m \in Messages, m.type \in {"signal-listen", "signal-handled"}
      PROVE  m.sig \in Sig
  <2>1. m # Exit
    BY <1>6, <1>1
  <2>2. \/ \E s \in Sig, a \in BOOLEAN : m = Listen(s, a)
        \/ \E s \in Sig : m = Handled(s)
    BY <2>1 DEF Messages
  <2>. QED
    BY <2>2, <1>4, <1>5
<1>. QED
  BY <1>1, <1>2, <1>3, <1>4, <1>5, <1>6

(* What a message that is sent, or received, leaves of the queue.           *)
LEMMA QueueSteps ==
  ASSUME NEW q \in Seq(Messages)
  PROVE  /\ \A m \in Messages :
              /\ Append(q, m) \in Seq(Messages)
              /\ Len(Append(q, m)) = Len(q) + 1
              /\ \A i \in DOMAIN Append(q, m) : (i \in DOMAIN q /\ Append(q, m)[i] = q[i]) \/ Append(q, m)[i] = m
         /\ q # <<>> =>
              /\ Head(q) \in Messages /\ Head(q) = q[1] /\ 1 \in DOMAIN q
              /\ Tail(q) \in Seq(Messages)
              /\ Len(Tail(q)) = Len(q) - 1
              /\ \A i \in DOMAIN Tail(q) : i + 1 \in DOMAIN q /\ Tail(q)[i] = q[i + 1]
<1>1. ASSUME NEW m \in Messages
      PROVE  /\ Append(q, m) \in Seq(Messages)
             /\ Len(Append(q, m)) = Len(q) + 1
             /\ \A i \in DOMAIN Append(q, m) : (i \in DOMAIN q /\ Append(q, m)[i] = q[i]) \/ Append(q, m)[i] = m
  OBVIOUS
<1>2. ASSUME q # <<>>
      PROVE  /\ Head(q) \in Messages /\ Head(q) = q[1] /\ 1 \in DOMAIN q
             /\ Tail(q) \in Seq(Messages)
             /\ Len(Tail(q)) = Len(q) - 1
             /\ \A i \in DOMAIN Tail(q) : i + 1 \in DOMAIN q /\ Tail(q)[i] = q[i + 1]
  BY <1>2
<1>. QED
  BY <1>1, <1>2

LEMMA InitIInv == Init => IInv
<1> SUFFICES ASSUME Init PROVE IInv
  OBVIOUS
<1>1. TypeOK
  <2>1. toKernel \in Seq(Messages) /\ Len(toKernel) <= MaxQueue + 1 /\ toGuest \in Seq(Sig)
    BY SignalsAssumption DEF Init
  <2>2. posts \in [Sig -> Nat] /\ runs \in [Sig -> Nat]
    BY DEF Init
  <2>. QED
    BY <2>1, <2>2, SignalsAssumption DEF Init, TypeOK
<1>2. QueueInv /\ DrainInv /\ WakeInv /\ StandInv
  BY SignalsAssumption DEF Init, QueueInv, DrainInv, WakeInv, StandInv
<1>3. KeptInv
  BY DEF Init, KeptInv
<1>4. WindowOpenUntilStoodDown
  BY DEF Init, WindowOpenUntilStoodDown
<1>. QED
  BY <1>1, <1>2, <1>3, <1>4 DEF IInv

LEMMA TypeStep ==
  ASSUME TypeOK, QueueInv, [Next]_vars
  PROVE  TypeOK' /\ QueueInv'
<1> USE SignalsAssumption DEF TypeOK, QueueInv, kernelVars, windowVars, loopVars, history
<1>1. ASSUME NEW s \in Sig, Signal(s)
      PROVE TypeOK' /\ QueueInv'
  BY <1>1 DEF Signal, Post
<1>2. ASSUME NEW s \in Sig \union {KILL}, SignalApplied(s)
      PROVE TypeOK' /\ QueueInv'
  BY <1>2 DEF SignalApplied, Finalize
<1>3. ASSUME GraceExpires
      PROVE TypeOK' /\ QueueInv'
  BY <1>3 DEF GraceExpires, Finalize
<1>4. ASSUME KernelReceives
      PROVE TypeOK' /\ QueueInv'
  <2>1. Head(toKernel) \in Messages /\ Tail(toKernel) \in Seq(Messages)
        /\ Len(Tail(toKernel)) = Len(toKernel) - 1
    BY <1>4, QueueSteps DEF KernelReceives
  <2>2. /\ toKernel' = Tail(toKernel)
        /\ UNCHANGED <<toGuest, windowVars, listeners, loopVars, pc, sys, history>>
    BY <1>4 DEF KernelReceives
  <2>3. alive' \in BOOLEAN /\ sigHandlers' \subseteq Sig
        /\ sigUnhandled' \in Sig \union {None} /\ gracePending' \in Sig \union {None}
    <3> DEFINE m == Head(toKernel)
    <3>1. CASE HandleSignalListen(m)
      <4>1. m.sig \in Sig
        BY <2>1, <3>1, MessageTypes DEF HandleSignalListen
      <4>. QED
        BY <3>1, <4>1 DEF HandleSignalListen
    <3>2. CASE HandleSignalHandled(m)
      BY <3>2 DEF HandleSignalHandled
    <3>3. CASE Finalize
      BY <3>3 DEF Finalize
    <3>. QED
      BY <1>4, <3>1, <3>2, <3>3 DEF KernelReceives
  <2>. QED
    BY <2>1, <2>2, <2>3
<1>5. ASSUME Answer
      PROVE TypeOK' /\ QueueInv'
  BY <1>5 DEF Answer
<1>6. ASSUME Syscall
      PROVE TypeOK' /\ QueueInv'
  BY <1>6 DEF Syscall
<1>7. ASSUME EnterWait
      PROVE TypeOK' /\ QueueInv'
  BY <1>7 DEF EnterWait
<1>8. ASSUME WakeUp
      PROVE TypeOK' /\ QueueInv'
  BY <1>8 DEF WakeUp
<1>9. ASSUME Harvest
      PROVE TypeOK' /\ QueueInv'
  BY <1>9 DEF Harvest
<1>10. ASSUME NEW s \in Sig, AddListener(s)
      PROVE TypeOK' /\ QueueInv'
  <2>1. PICK m \in Messages : toKernel' = Append(toKernel, m)
    BY <1>10, MessageTypes, Zenon DEF AddListener
  <2>2. toKernel' \in Seq(Messages) /\ Len(toKernel') <= MaxQueue
    <3>1. Len(toKernel) < MaxQueue
      BY <1>10 DEF AddListener
    <3>. QED
      BY <2>1, <3>1, QueueSteps
  <2>3. listeners' \subseteq Sig
    BY <1>10 DEF AddListener
  <2>4. UNCHANGED <<kernelVars, toGuest, windowVars, loopVars, pc, sys, history>>
    BY <1>10 DEF AddListener
  <2>. QED
    BY <2>2, <2>3, <2>4
<1>11. ASSUME NEW s \in Sig, RemoveListener(s)
      PROVE TypeOK' /\ QueueInv'
  <2>1. PICK m \in Messages : toKernel' = Append(toKernel, m)
    BY <1>11, MessageTypes, Zenon DEF RemoveListener
  <2>2. toKernel' \in Seq(Messages) /\ Len(toKernel') <= MaxQueue
    <3>1. Len(toKernel) < MaxQueue
      BY <1>11 DEF RemoveListener
    <3>. QED
      BY <2>1, <3>1, QueueSteps
  <2>3. listeners' \subseteq Sig
    BY <1>11 DEF RemoveListener
  <2>4. UNCHANGED <<kernelVars, toGuest, windowVars, loopVars, pc, sys, history>>
    BY <1>11 DEF RemoveListener
  <2>. QED
    BY <2>2, <2>3, <2>4
<1>12. ASSUME NEW s \in Sig, StandDown(s)
      PROVE TypeOK' /\ QueueInv'
  BY <1>12, MessageTypes, QueueSteps DEF StandDown, InJS
<1>13. ASSUME ProcessExit
      PROVE TypeOK' /\ QueueInv'
  BY <1>13, MessageTypes, QueueSteps DEF ProcessExit, InJS
<1>14. ASSUME EndJS
      PROVE TypeOK' /\ QueueInv'
  BY <1>14 DEF EndJS, InJS
<1>15. ASSUME Dispatch
      PROVE TypeOK' /\ QueueInv'
  <2>1. Head(toGuest) \in Sig /\ Tail(toGuest) \in Seq(Sig)
    BY <1>15 DEF Dispatch
  <2>2. pending' \subseteq Sig /\ netPending' \in BOOLEAN /\ pc' \in {"turn", "phases"}
    BY <1>15, <2>1 DEF Dispatch, Enqueue
  <2>. QED
    BY <1>15, <2>1, <2>2 DEF Dispatch
<1>16. ASSUME BeginDrain
      PROVE TypeOK' /\ QueueInv'
  BY <1>16 DEF BeginDrain
<1>17. ASSUME DrainNext
      PROVE TypeOK' /\ QueueInv'
  <2>1. PICK s \in draining : (RunHandler(s) \/ DrainDefault(s)) /\ draining' = draining \ {s}
    BY <1>17 DEF DrainNext
  <2>2. runs' \in [Sig -> Nat] /\ owed' \subseteq Sig /\ exiting' \in BOOLEAN
        /\ pc' \in {"drain", "handler"}
    <3>1. CASE RunHandler(s)
      BY <3>1 DEF RunHandler
    <3>2. CASE DrainDefault(s)
      BY <1>17, <3>2 DEF DrainDefault, DrainNext
    <3>. QED
      BY <2>1, <3>1, <3>2
  <2>. QED
    BY <1>17, <2>1, <2>2 DEF DrainNext
<1>18. ASSUME EndDrain
      PROVE TypeOK' /\ QueueInv'
  <2>1. UNCHANGED <<kernelVars, toGuest, windowVars, listeners, loopVars, sys, history>> /\ sys' = "none"
    BY <1>18 DEF EndDrain
  <2>2. CASE exiting
    <3>1. toKernel' = Append(toKernel, Exit) /\ pc' = "ended" /\ Len(toKernel) <= MaxQueue
      BY <1>18, <2>2 DEF EndDrain
    <3>2. toKernel' \in Seq(Messages) /\ Len(toKernel') <= MaxQueue + 1
      BY <3>1, MessageTypes, QueueSteps
    <3>. QED
      BY <2>1, <3>1, <3>2
  <2>3. CASE ~exiting
    BY <1>18, <2>3 DEF EndDrain
  <2>. QED
    BY <2>2, <2>3
<1>19. ASSUME BeginWork
      PROVE TypeOK' /\ QueueInv'
  BY <1>19 DEF BeginWork
<1>20. ASSUME EndTurn
      PROVE TypeOK' /\ QueueInv'
  BY <1>20 DEF EndTurn
<1>21. ASSUME OtherWake
      PROVE TypeOK' /\ QueueInv'
  BY <1>21 DEF OtherWake
<1>22. ASSUME LoopEmpty
      PROVE TypeOK' /\ QueueInv'
  BY <1>22, MessageTypes, QueueSteps DEF LoopEmpty
<1>23. ASSUME Throw
      PROVE TypeOK' /\ QueueInv'
  <2>1. /\ UNCHANGED <<kernelVars, toGuest, windowVars, listeners, pending, netPending, sys, posts, runs, owed, stoodDown>>
        /\ draining' = {} /\ dropped' = dropped \union draining /\ sys' = "none"
    BY <1>23 DEF Throw, InJS
  <2>2. CASE pc' = "work" /\ UNCHANGED <<exiting, toKernel>>
    BY <1>23, <2>1, <2>2 DEF Throw, InJS
  <2>3. CASE exiting' = TRUE /\ pc' = "ended" /\ toKernel' = Append(toKernel, Exit)
    <3>1. toKernel' \in Seq(Messages) /\ Len(toKernel') <= MaxQueue + 1
      BY <1>23, <2>3, MessageTypes, QueueSteps DEF Throw, InJS
    <3>. QED
      BY <2>1, <2>3, <3>1
  <2>. QED
    BY <1>23, <2>2, <2>3 DEF Throw
<1>24. CASE UNCHANGED vars
  BY <1>24 DEF vars, kernelVars, windowVars, loopVars, history
<1>. QED
  BY <1>1, <1>2, <1>3, <1>4, <1>5, <1>6, <1>7, <1>8, <1>9, <1>10, <1>11, <1>12, <1>13, <1>14, <1>15, <1>16, <1>17, <1>18, <1>19, <1>20, <1>21, <1>22, <1>23, <1>24 DEF Next
(* What a signal that is posted, or a message that is dispatched, leaves of *)
(* the messages to the guest.                                               *)
LEMMA InboundSteps ==
  ASSUME TypeOK
  PROVE  /\ \A s \in Sig, i \in DOMAIN toGuest :
              i \in DOMAIN Append(toGuest, s) /\ Append(toGuest, s)[i] = toGuest[i]
         /\ toGuest # <<>> =>
              \A i \in DOMAIN toGuest :
                \/ toGuest[i] = Head(toGuest)
                \/ i - 1 \in DOMAIN Tail(toGuest) /\ Tail(toGuest)[i - 1] = toGuest[i]
<1>1. toGuest \in Seq(Sig)
  BY DEF TypeOK
<1>2. ASSUME NEW s \in Sig, NEW i \in DOMAIN toGuest
      PROVE  i \in DOMAIN Append(toGuest, s) /\ Append(toGuest, s)[i] = toGuest[i]
  BY <1>1
<1>3. ASSUME toGuest # <<>>, NEW i \in DOMAIN toGuest
      PROVE  \/ toGuest[i] = Head(toGuest)
             \/ i - 1 \in DOMAIN Tail(toGuest) /\ Tail(toGuest)[i - 1] = toGuest[i]
  BY <1>1, <1>3
<1>. QED
  BY <1>2, <1>3

(* The drain, the wake-ups and the signals under way. *)
LEMMA GuestStep ==
  ASSUME TypeOK, DrainInv, WakeInv, KeptInv, [Next]_vars
  PROVE  DrainInv' /\ WakeInv' /\ KeptInv'
<1> USE DEF windowVars, loopVars, history
<1>1. CASE UNCHANGED <<pc, netPending, pending, draining, toGuest, bits, owed, dropped>>
  BY <1>1 DEF DrainInv, WakeInv, KeptInv, OnItsWay
<1>2. ASSUME NEW s \in Sig, Signal(s)
      PROVE  DrainInv' /\ WakeInv' /\ KeptInv'
  <2>1. /\ UNCHANGED <<pc, netPending, pending, draining>>
        /\ bits' = bits \union {s} /\ owed' = owed \union {s} /\ dropped' = dropped \ {s}
        /\ toGuest' = Append(toGuest, s)
    BY <1>2 DEF Signal, Post
  <2>2. \A x \in Sig : OnItsWay(x) => OnItsWay(x)'
    BY <2>1, InboundSteps DEF OnItsWay
  <2>3. OnItsWay(s)'
    BY <2>1 DEF OnItsWay
  <2>. QED
    BY <2>1, <2>2, <2>3 DEF DrainInv, WakeInv, KeptInv, TypeOK
<1>3. ASSUME Harvest
      PROVE  DrainInv' /\ WakeInv' /\ KeptInv'
  <2>1. /\ UNCHANGED <<pc, draining, toGuest, owed, dropped>>
        /\ bits' = {} /\ pending' = pending \union bits
        /\ pc \in {"work", "handler"}
    BY <1>3 DEF Harvest, TypeOK
  <2>2. \A x \in Sig : OnItsWay(x) => OnItsWay(x)'
    BY <2>1 DEF OnItsWay
  <2>3. pending' # {} => netPending'
    BY <1>3 DEF Harvest, WakeInv, TypeOK
  <2>. QED
    BY <2>1, <2>2, <2>3 DEF DrainInv, WakeInv, KeptInv, TypeOK
<1>4. ASSUME Dispatch
      PROVE  DrainInv' /\ WakeInv' /\ KeptInv'
  <2>1. /\ UNCHANGED <<draining, bits, owed, dropped>> /\ toGuest # <<>>
        /\ toGuest' = Tail(toGuest) /\ pending' = pending \union {Head(toGuest)}
        /\ pc \in {"turn", "phases", "asleep"} /\ pc' \in {"turn", "phases"}
    BY <1>4 DEF Dispatch, Enqueue
  <2>2. netPending' \/ pc' = "turn"
    BY <1>4 DEF Dispatch, Enqueue
  <2>3. \A x \in Sig : OnItsWay(x) => OnItsWay(x)'
    BY <2>1, InboundSteps DEF OnItsWay
  <2>. QED
    BY <2>1, <2>2, <2>3 DEF DrainInv, WakeInv, KeptInv, TypeOK
<1>5. ASSUME BeginDrain
      PROVE  DrainInv' /\ WakeInv' /\ KeptInv'
  BY <1>5 DEF BeginDrain, DrainInv, WakeInv, KeptInv, OnItsWay
<1>6. ASSUME DrainNext
      PROVE  DrainInv' /\ WakeInv' /\ KeptInv'
  <2>1. PICK s \in draining : (RunHandler(s) \/ DrainDefault(s)) /\ draining' = draining \ {s}
    BY <1>6 DEF DrainNext
  <2>2. /\ UNCHANGED <<netPending, pending, bits, toGuest, dropped>>
        /\ owed' = owed \ {s} /\ pc = "drain" /\ pc' \in {"drain", "handler"}
    BY <1>6, <2>1 DEF DrainNext, RunHandler, DrainDefault
  <2>3. \A x \in Sig \ {s} : OnItsWay(x) => OnItsWay(x)'
    BY <2>1, <2>2 DEF OnItsWay
  <2>. QED
    BY <2>2, <2>3 DEF DrainInv, WakeInv, KeptInv, TypeOK
<1>7. ASSUME EndTurn
      PROVE  DrainInv' /\ WakeInv' /\ KeptInv'
  BY <1>7 DEF EndTurn, DrainInv, WakeInv, KeptInv, OnItsWay, TypeOK
<1>8. ASSUME ProcessExit \/ EndJS \/ EndDrain \/ BeginWork \/ OtherWake \/ LoopEmpty
      PROVE  DrainInv' /\ WakeInv' /\ KeptInv'
  <2>1. /\ UNCHANGED <<netPending, pending, draining, bits, toGuest, owed, dropped>>
        /\ pc \notin {"turn", "ended"}
        /\ pc' \in {"work", "phases", "turn"} => draining = {}
        /\ pc' \in {"work", "phases", "turn", "drain", "ended"}
    BY <1>8 DEF ProcessExit, EndJS, EndDrain, BeginWork, OtherWake, LoopEmpty, InJS, DrainInv, TypeOK
  <2>. QED
    BY <2>1 DEF DrainInv, WakeInv, KeptInv, OnItsWay, TypeOK
<1>9. ASSUME Throw
      PROVE  DrainInv' /\ WakeInv' /\ KeptInv'
  <2>1. /\ UNCHANGED <<netPending, pending, bits, toGuest, owed>>
        /\ draining' = {} /\ dropped' = dropped \union draining
        /\ pc \in {"work", "handler"} /\ pc' \in {"work", "ended"}
    BY <1>9 DEF Throw, InJS
  <2>2. owed \ dropped' \subseteq owed \ dropped /\ \A x \in owed \ dropped' : OnItsWay(x) => OnItsWay(x)'
    BY <2>1 DEF OnItsWay
  <2>. QED
    BY <2>1, <2>2 DEF DrainInv, WakeInv, KeptInv, TypeOK
<1>10. ASSUME \/ \E s \in Sig \union {KILL} : SignalApplied(s)
              \/ \E s \in Sig : AddListener(s) \/ RemoveListener(s) \/ StandDown(s)
              \/ GraceExpires \/ KernelReceives \/ Answer
              \/ Syscall \/ EnterWait \/ WakeUp
       PROVE  DrainInv' /\ WakeInv' /\ KeptInv'
  <2>1. UNCHANGED <<pc, netPending, pending, draining, toGuest, bits, owed, dropped>>
    BY <1>10 DEF SignalApplied, AddListener, RemoveListener, StandDown, GraceExpires, KernelReceives,
       Answer, Syscall, EnterWait, WakeUp
  <2>. QED
    BY <1>1, <2>1
<1>11. CASE UNCHANGED vars
  BY <1>1, <1>11 DEF vars
<1>. QED
  BY <1>2, <1>3, <1>4, <1>5, <1>6, <1>7, <1>8, <1>9, <1>10, <1>11 DEF Next

(* Who may have sent "signal-handled". *)
LEMMA StandStep ==
  ASSUME TypeOK, StandInv, [Next]_vars
  PROVE  StandInv'
<1> USE DEF kernelVars, windowVars, loopVars, history
<1>1. toKernel \in Seq(Messages)
  BY DEF TypeOK
<1>2. ASSUME NEW m \in Messages, m.type = "signal-handled" => stoodDown',
             toKernel' = Append(toKernel, m), stoodDown => stoodDown'
      PROVE  StandInv'
  BY <1>1, <1>2, QueueSteps DEF StandInv
<1>3. ASSUME toKernel # <<>>, toKernel' = Tail(toKernel), stoodDown' = stoodDown
      PROVE  StandInv'
  BY <1>1, <1>3, QueueSteps DEF StandInv
<1>4. CASE UNCHANGED <<toKernel, stoodDown>>
  BY <1>4 DEF StandInv
<1>5. ASSUME NEW s \in Sig, AddListener(s) \/ RemoveListener(s)
      PROVE  StandInv'
  <2>1. UNCHANGED stoodDown
    BY <1>5 DEF AddListener, RemoveListener
  <2>2. toKernel' = Append(toKernel, Listen(s, TRUE)) \/ toKernel' = Append(toKernel, Listen(s, FALSE))
    BY <1>5, Zenon DEF AddListener, RemoveListener
  <2>3. PICK m \in Messages : m.type = "signal-listen" /\ toKernel' = Append(toKernel, m)
    BY <2>2, MessageTypes, Zenon
  <2>. QED
    BY <1>2, <2>1, <2>3
<1>6. ASSUME NEW s \in Sig, StandDown(s)
      PROVE  StandInv'
  <2>1. toKernel' = Append(toKernel, Handled(s)) /\ stoodDown' = TRUE
    BY <1>6 DEF StandDown
  <2>. QED
    BY <1>2, <2>1, MessageTypes
<1>7. ASSUME ProcessExit \/ Throw \/ EndDrain \/ LoopEmpty
      PROVE  StandInv'
  <2>1. UNCHANGED stoodDown
    BY <1>7 DEF ProcessExit, Throw, EndDrain, LoopEmpty
  <2>2. toKernel' = toKernel \/ toKernel' = Append(toKernel, Exit)
    BY <1>7 DEF ProcessExit, Throw, EndDrain, LoopEmpty
  <2>3. Exit \in Messages /\ Exit.type # "signal-handled"
    BY MessageTypes
  <2>. QED
    BY <1>2, <1>4, <2>1, <2>2, <2>3
<1>8. ASSUME KernelReceives
      PROVE  StandInv'
  BY <1>3, <1>8 DEF KernelReceives
<1>9. ASSUME \/ \E s \in Sig \union {KILL} : SignalApplied(s)
             \/ \E s \in Sig : Signal(s)
             \/ GraceExpires \/ Answer
             \/ Syscall \/ EnterWait \/ WakeUp \/ Harvest
             \/ EndJS \/ Dispatch \/ BeginDrain \/ DrainNext
             \/ BeginWork \/ EndTurn \/ OtherWake
             \/ UNCHANGED vars
      PROVE  UNCHANGED <<toKernel, stoodDown>>
  BY <1>9 DEF SignalApplied, Signal, GraceExpires, Answer, Syscall, EnterWait, WakeUp, Harvest,
     EndJS, Dispatch, BeginDrain, DrainNext, BeginWork, EndTurn, OtherWake, vars
<1>. QED
  BY <1>4, <1>5, <1>6, <1>7, <1>8, <1>9 DEF Next

(* The window: it is closed by a stand-down and by the end of the process. *)
LEMMA WindowStep ==
  ASSUME TypeOK, StandInv, WindowOpenUntilStoodDown, [Next]_vars
  PROVE  WindowOpenUntilStoodDown'
<1> USE DEF kernelVars, history
<1>1. ASSUME NEW s \in Sig, Signal(s)
      PROVE  WindowOpenUntilStoodDown'
  <2>1. gracePending' # None
    BY <1>1, SignalsAssumption DEF Signal
  <2>. QED
    BY <2>1 DEF WindowOpenUntilStoodDown
<1>2. ASSUME GraceExpires \/ \E s \in Sig \union {KILL} : SignalApplied(s)
      PROVE  WindowOpenUntilStoodDown'
  BY <1>2 DEF GraceExpires, SignalApplied, Finalize, WindowOpenUntilStoodDown
<1>3. ASSUME KernelReceives
      PROVE  WindowOpenUntilStoodDown'
  <2> DEFINE m == Head(toKernel)
  <2>1. UNCHANGED <<posts, stoodDown>> /\ alive
    BY <1>3 DEF KernelReceives
  <2>2. CASE HandleSignalListen(m)
    BY <2>1, <2>2 DEF HandleSignalListen, WindowOpenUntilStoodDown
  <2>3. CASE HandleSignalHandled(m)
    <3>1. toKernel[1].type = "signal-handled" /\ 1 \in DOMAIN toKernel
      BY <1>3, <2>3, QueueSteps DEF KernelReceives, HandleSignalHandled, TypeOK
    <3>2. stoodDown
      BY <3>1 DEF StandInv
    <3>. QED
      BY <2>1, <3>2 DEF WindowOpenUntilStoodDown
  <2>4. CASE Finalize
    BY <2>4 DEF Finalize, WindowOpenUntilStoodDown
  <2>. QED
    BY <1>3, <2>2, <2>3, <2>4 DEF KernelReceives
<1>4. ASSUME NEW s \in Sig, StandDown(s)
      PROVE  WindowOpenUntilStoodDown'
  BY <1>4 DEF StandDown, WindowOpenUntilStoodDown
<1>5. ASSUME \/ \E s \in Sig : AddListener(s) \/ RemoveListener(s)
             \/ Answer \/ Syscall \/ EnterWait \/ WakeUp \/ Harvest
             \/ ProcessExit \/ EndJS \/ Throw \/ Dispatch \/ BeginDrain \/ DrainNext \/ EndDrain
             \/ BeginWork \/ EndTurn \/ OtherWake \/ LoopEmpty
             \/ UNCHANGED vars
      PROVE  UNCHANGED <<alive, gracePending, posts, stoodDown>>
  BY <1>5 DEF AddListener, RemoveListener, Answer, Syscall, EnterWait, WakeUp, Harvest,
     ProcessExit, EndJS, Throw, Dispatch, BeginDrain, DrainNext, EndDrain, BeginWork, EndTurn, OtherWake,
     LoopEmpty, vars
<1>6. CASE UNCHANGED <<alive, gracePending, posts, stoodDown>>
  BY <1>6 DEF WindowOpenUntilStoodDown
<1>. QED
  BY <1>1, <1>2, <1>3, <1>4, <1>5, <1>6 DEF Next

LEMMA Invariant == Spec => []IInv
<1>1. IInv /\ [Next]_vars => IInv'
  BY TypeStep, GuestStep, StandStep, WindowStep DEF IInv
<1>. QED
  BY InitIInv, <1>1, PTL DEF Spec

(* Every variable keeps its type, the two queues included; the exit message *)
(* always finds room (createProcess, signals.js, loop.js).                  *)
THEOREM TypeCorrect == Spec => []TypeOK
<1>1. IInv => TypeOK
  BY DEF IInv
<1>. QED
  BY Invariant, <1>1, PTL

(* An accepted signal is under way by one of its two routes until it was    *)
(* handled, whatever the guest did meanwhile, unless a handler that threw   *)
(* cut off the drain it was in; and the loop never sleeps over a signal     *)
(* (postSignal, call, createSignalDelivery, raise, waitForNext).            *)
THEOREM Delivered == Spec => []SignalNotLost
<1>1. IInv => SignalNotLost
  BY DEF IInv, SignalNotLost, KeptInv, OnItsWay, WakeInv
<1>. QED
  BY Invariant, <1>1, PTL

(* A guest that catches signals and stands nothing down always has a grace  *)
(* window open (Kernel.signal, handleSignalHandled).                        *)
THEOREM WindowOpen == Spec => []WindowOpenUntilStoodDown
<1>1. IInv => WindowOpenUntilStoodDown
  BY DEF IInv
<1>. QED
  BY Invariant, <1>1, PTL
===============================================================================
