-------------------------- MODULE VirtualNetProofs --------------------------
(***************************************************************************)
(* The HTTP path for any number of processes, ports and requests: the port *)
(* table and the guests agree, a request without a spilled body never      *)
(* waits for a process that has ended, no wakeup is lost, and what is      *)
(* pending is in one place of the process that owes it.                    *)
(***************************************************************************)
EXTENDS VirtualNet, TLAPS

(* How far a request has come bounds the frames the kernel has of its      *)
(* response, and tells whether it was routed.                              *)
FramesInv ==
  \A r \in Req :
    /\ request[r] \in {"new", "staging"} => got[r] = 0
    /\ request[r] = "pending" => got[r] < Total[r]
    /\ request[r] = "staging" => r \in Large
    /\ request[r] \in {"staging", "pending"} => owner[r] \in Proc

(* A port is granted in the kernel's step and held in the guest's.         *)
Grant(t) == [op |-> "listen", port |-> t, ok |-> TRUE]
PortInv ==
  \A p \in Proc, t \in Port :
    /\ t \in serving[p] => listeners[t] = p
    /\ reply[p] = Grant(t) => listeners[t] = p
    /\ listeners[t] = p => p \in procs
    /\ listeners[t] = p => t \in serving[p] \/ reply[p] = Grant(t)

(* The answer that found the inbox empty is outdated only when a nudge has *)
(* been posted since.                                                      *)
FoundEmpty == [op |-> "accept", req |-> None]
WakeInv ==
  \A p \in Proc :
    /\ reply[p] = FoundEmpty => pc[p] = "draining"
    /\ reply[p] = FoundEmpty => inbox[p] = <<>> \/ woken[p]
    /\ pc[p] = "parked" => inbox[p] = <<>> \/ serving[p] = {} \/ woken[p] \/ p \notin procs

TypeInv == TypeOK /\ FramesInv
IInv == TypeInv /\ PortInv /\ InlineRequestSettledAtExit /\ WakeInv

(* A granted port is told from every other answer ... *)
LEMMA AnswersDiffer ==
  ASSUME NEW t \in Port
  PROVE  /\ Grant(t) \notin {NoReply, FoundEmpty, [op |-> "close"], [op |-> "respond"]}
         /\ \A u \in Port : Grant(t) = Grant(u) => t = u
         /\ \A u \in Port : Grant(t) # [op |-> "listen", port |-> u, ok |-> FALSE]
         /\ \A r \in Req : Grant(t) # [op |-> "accept", req |-> r]
<1>1. Grant(t).op = "listen" /\ Grant(t).port = t /\ Grant(t).ok = TRUE
  BY DEF Grant
<1>2. NoReply.op = "none" /\ FoundEmpty.op = "accept"
  BY DEF NoReply, FoundEmpty
<1>3. \A u \in Port : Grant(u).port = u
  BY DEF Grant
<1>4. \A u \in Port : [op |-> "listen", port |-> u, ok |-> FALSE].ok = FALSE
  OBVIOUS
<1>5. \A r \in Req : [op |-> "accept", req |-> r].op = "accept"
  OBVIOUS
<1>6. [op |-> "close"].op = "close" /\ [op |-> "respond"].op = "respond"
  OBVIOUS
<1>. QED
  BY <1>1, <1>2, <1>3, <1>4, <1>5, <1>6

(* ... and so is the accept that found the inbox empty. *)
LEMMA EmptyDiffers ==
  /\ FoundEmpty \notin {NoReply, [op |-> "close"], [op |-> "respond"]}
  /\ \A u \in Port, b \in BOOLEAN : FoundEmpty # [op |-> "listen", port |-> u, ok |-> b]
  /\ \A r \in Req : FoundEmpty # [op |-> "accept", req |-> r]
<1>1. FoundEmpty.op = "accept" /\ FoundEmpty.req = None /\ NoReply.op = "none"
  BY DEF FoundEmpty, NoReply
<1>2. \A r \in Req : [op |-> "accept", req |-> r].req = r
  OBVIOUS
<1>3. \A u \in Port, b \in BOOLEAN : [op |-> "listen", port |-> u, ok |-> b].op = "listen"
  OBVIOUS
<1>4. [op |-> "close"].op = "close" /\ [op |-> "respond"].op = "respond"
  OBVIOUS
<1>. QED
  BY <1>1, <1>2, <1>3, <1>4, VirtualNetAssumption

(* The invariant holds at the start ... *)
LEMMA InitIInv == Init => IInv
<1> SUFFICES ASSUME Init PROVE IInv
  OBVIOUS
<1>1. TypeInv
  BY VirtualNetAssumption DEF Init, TypeInv, TypeOK, FramesInv, Reply, NoReply
<1>2. PortInv
  BY VirtualNetAssumption, AnswersDiffer DEF Init, PortInv
<1>3. InlineRequestSettledAtExit
  BY DEF Init, InlineRequestSettledAtExit
<1>4. WakeInv
  BY EmptyDiffers DEF Init, WakeInv
<1>. QED
  BY <1>1, <1>2, <1>3, <1>4 DEF IInv

(* Every action keeps the types and the bounds. *)
LEMMA TypeStep ==
  ASSUME TypeInv, [Next]_vars
  PROVE  TypeInv'
<1> USE VirtualNetAssumption DEF TypeInv, TypeOK, FramesInv, kernel, guest, Answer
<1>1. ASSUME NEW r \in Req, NEW t \in Port, NoServer(r, t)
      PROVE TypeInv'
  BY <1>1 DEF NoServer
<1>2. ASSUME NEW r \in Req, NEW t \in Port, RequestInline(r, t)
      PROVE TypeInv'
  BY <1>2 DEF RequestInline, Deliver, Routed
<1>3. ASSUME NEW r \in Req, NEW t \in Port, RequestSpills(r, t)
      PROVE TypeInv'
  BY <1>3 DEF RequestSpills, Routed
<1>4. ASSUME NEW r \in Req, Staged(r)
      PROVE TypeInv'
  BY <1>4 DEF Staged, Deliver
<1>5. ASSUME NEW r \in Req, StageFails(r)
      PROVE TypeInv'
  BY <1>5 DEF StageFails
<1>6. ASSUME NEW p \in Proc, NEW t \in Port, SysListen(p, t)
      PROVE TypeInv'
  BY <1>6 DEF SysListen, Reply
<1>7. ASSUME NEW p \in Proc, NEW t \in Port, SysClose(p, t)
      PROVE TypeInv'
  BY <1>7 DEF SysClose, Reply
<1>8. ASSUME NEW p \in Proc, NEW r \in Req, SysRespond(p, r)
      PROVE TypeInv'
  BY <1>8 DEF SysRespond, Frame, Reply
<1>9. ASSUME NEW p \in Proc, NEW r \in Req, SysRespondRest(p, r)
      PROVE TypeInv'
  BY <1>9 DEF SysRespondRest, Frame
<1>10. ASSUME NEW p \in Proc, SysAccept(p)
       PROVE TypeInv'
  <2>1. PICK a \in Reply, s \in Seq(Req) : reply' = [reply EXCEPT ![p] = a] /\ inbox' = [inbox EXCEPT ![p] = s]
    <3>1. CASE inbox[p] = <<>>
      <4>1. [op |-> "accept", req |-> None] \in Reply
        BY DEF Reply
      <4>2. inbox' = [inbox EXCEPT ![p] = inbox[p]]
        BY <1>10, <3>1 DEF SysAccept
      <4>. QED
        BY <1>10, <3>1, <4>1, <4>2 DEF SysAccept
    <3>2. CASE inbox[p] # <<>>
      <4>1. Head(inbox[p]) \in Req /\ Tail(inbox[p]) \in Seq(Req)
        BY <3>2
      <4>2. [op |-> "accept", req |-> Head(inbox[p])] \in Reply
        BY <4>1 DEF Reply
      <4>. QED
        BY <1>10, <3>2, <4>1, <4>2 DEF SysAccept
    <3>. QED
      BY <3>1, <3>2
  <2>2. reply' \in [Proc -> Reply] /\ inbox' \in [Proc -> Seq(Req)]
    BY <2>1
  <2>. QED
    BY <1>10, <2>2 DEF SysAccept
<1>11. ASSUME NEW p \in Proc, Listening(p)
       PROVE TypeInv'
  <2>1. reply[p].port \in Port
    <3>1. reply[p] \in Reply /\ reply[p].op = "listen"
      BY <1>11 DEF Listening
    <3>. QED
      BY <3>1 DEF Reply, NoReply
  <2>2. NoReply \in Reply
    BY DEF Reply
  <2>. QED
    BY <1>11, <2>1, <2>2 DEF Listening
<1>12. ASSUME NEW p \in Proc, Responded(p)
       PROVE TypeInv'
  BY <1>12 DEF Responded, Reply, NoReply
<1>13. ASSUME NEW p \in Proc, Accepted(p)
       PROVE TypeInv'
  <2>1. reply[p].req \in Req
    <3>1. reply[p] \in Reply /\ reply[p].op = "accept" /\ reply[p].req # None
      BY <1>13 DEF Accepted
    <3>. QED
      BY <3>1 DEF Reply, NoReply
  <2>2. NoReply \in Reply
    BY DEF Reply
  <2>. QED
    BY <1>13, <2>1, <2>2 DEF Accepted
<1>14. ASSUME NEW p \in Proc, Drained(p)
       PROVE TypeInv'
  BY <1>14 DEF Drained, Reply, NoReply
<1>15. ASSUME NEW p \in Proc, DoNet(p)
       PROVE TypeInv'
  BY <1>15 DEF DoNet
<1>16. ASSUME NEW p \in Proc, Turn(p)
       PROVE TypeInv'
  BY <1>16 DEF Turn
<1>17. ASSUME NEW p \in Proc, Finalize(p)
       PROVE TypeInv'
  BY <1>17 DEF Finalize, OwedBy, Reply, NoReply
<1>18. ASSUME NEW p \in Proc, BridgeFails(p)
       PROVE TypeInv'
  <2>1. [op |-> "respond"] \in Reply
    BY DEF Reply
  <2>. QED
    BY <1>18, <2>1 DEF BridgeFails
<1>19. CASE UNCHANGED vars
  BY <1>19 DEF vars
<1>. QED
  BY <1>1, <1>2, <1>3, <1>4, <1>5, <1>6, <1>7, <1>8, <1>9, <1>10, <1>11, <1>12, <1>13, <1>14,
     <1>15, <1>16, <1>17, <1>18, <1>19 DEF Next, Host, Syscall, Returns

(* Only listening, closing and the end of a process touch the port table   *)
(* and the handles; the other syscalls start from an empty answer.         *)
LEMMA PortStep ==
  ASSUME TypeInv, PortInv, [Next]_vars
  PROVE  PortInv'
<1> USE VirtualNetAssumption, AnswersDiffer DEF TypeInv, TypeOK, PortInv, kernel, guest, Answer
<1>1. ASSUME NEW p \in Proc, NEW t \in Port, SysListen(p, t)
      PROVE PortInv'
  <2>1. CASE Taken(p, t)
    <3>1. /\ UNCHANGED <<procs, listeners, serving>>
          /\ reply' = [reply EXCEPT ![p] = [op |-> "listen", port |-> t, ok |-> FALSE]]
          /\ reply[p] = NoReply
      BY <1>1, <2>1 DEF SysListen, InCallbacks
    <3>. QED
      BY <3>1
  <2>2. CASE ~ Taken(p, t)
    <3>1. /\ UNCHANGED <<procs, serving>>
          /\ listeners' = [listeners EXCEPT ![t] = p]
          /\ reply' = [reply EXCEPT ![p] = Grant(t)]
          /\ reply[p] = NoReply /\ p \in procs
      BY <1>1, <2>2 DEF SysListen, InCallbacks, Grant
    <3>2. listeners[t] \in {None, p}
      BY <2>2 DEF Taken
    <3>. QED
      BY <3>1, <3>2
  <2>. QED
    BY <2>1, <2>2
<1>2. ASSUME NEW p \in Proc, Listening(p)
      PROVE PortInv'
  <2>1. reply[p] \in Reply /\ reply[p].op = "listen"
    BY <1>2 DEF Listening
  <2>2. PICK u \in Port, ok \in BOOLEAN : reply[p] = [op |-> "listen", port |-> u, ok |-> ok]
    BY <2>1 DEF Reply, NoReply
  <2>3. UNCHANGED <<procs, listeners>> /\ reply' = [reply EXCEPT ![p] = NoReply]
    BY <1>2 DEF Listening
  <2>4. CASE ok
    <3>1. reply[p] = Grant(u) /\ serving' = [serving EXCEPT ![p] = @ \union {u}]
      BY <1>2, <2>2, <2>4 DEF Listening, Grant
    <3>. QED
      BY <2>3, <3>1
  <2>5. CASE ~ ok
    <3>1. serving' = serving
      BY <1>2, <2>2, <2>5 DEF Listening
    <3>2. reply[p] = [op |-> "listen", port |-> u, ok |-> FALSE]
      BY <2>2, <2>5
    <3>. QED
      BY <2>3, <3>1, <3>2
  <2>. QED
    BY <2>4, <2>5
<1>3. ASSUME NEW p \in Proc, NEW t \in Port, SysClose(p, t)
      PROVE PortInv'
  BY <1>3 DEF SysClose, InCallbacks
<1>4. ASSUME NEW p \in Proc, Finalize(p)
      PROVE PortInv'
  BY <1>4 DEF Finalize
<1>5. ASSUME NEW p \in Proc, NEW r \in Req, SysRespond(p, r)
      PROVE PortInv'
  BY <1>5 DEF SysRespond, InCallbacks
<1>6. ASSUME NEW p \in Proc, SysAccept(p)
      PROVE PortInv'
  <2>1. PICK a : reply' = [reply EXCEPT ![p] = a] /\ \A t \in Port : a # Grant(t)
    <3>1. CASE inbox[p] = <<>>
      BY <1>6, <3>1 DEF SysAccept, FoundEmpty
    <3>2. CASE inbox[p] # <<>>
      <4>1. Head(inbox[p]) \in Req
        BY <3>2
      <4>. QED
        BY <1>6, <3>2, <4>1 DEF SysAccept
    <3>. QED
      BY <3>1, <3>2
  <2>2. UNCHANGED <<procs, listeners, serving>> /\ reply[p] = NoReply
    BY <1>6 DEF SysAccept
  <2>. QED
    BY <2>1, <2>2
<1>7. ASSUME NEW p \in Proc, Responded(p) \/ Accepted(p) \/ Drained(p)
      PROVE PortInv'
  <2>1. /\ UNCHANGED <<procs, listeners, serving>>
        /\ reply' = [reply EXCEPT ![p] = NoReply]
        /\ reply[p].op \in {"respond", "close", "accept"}
    BY <1>7 DEF Responded, Accepted, Drained
  <2>2. \A t \in Port : reply[p] # Grant(t)
    BY <2>1 DEF Grant
  <2>. QED
    BY <2>1, <2>2
<1>8. ASSUME UNCHANGED <<procs, listeners, serving, reply>>
      PROVE PortInv'
  BY <1>8
<1>9. ASSUME NEW r \in Req, NEW t \in Port, NoServer(r, t) \/ RequestInline(r, t) \/ RequestSpills(r, t)
      PROVE PortInv'
  BY <1>8, <1>9 DEF NoServer, RequestInline, RequestSpills
<1>10. ASSUME NEW r \in Req, Staged(r) \/ StageFails(r)
       PROVE PortInv'
  BY <1>8, <1>10 DEF Staged, StageFails
<1>11. ASSUME NEW p \in Proc, NEW r \in Req, SysRespondRest(p, r)
       PROVE PortInv'
  BY <1>8, <1>11 DEF SysRespondRest
<1>12. ASSUME NEW p \in Proc, DoNet(p) \/ Turn(p)
       PROVE PortInv'
  BY <1>8, <1>12 DEF DoNet, Turn
<1>13. ASSUME NEW p \in Proc, BridgeFails(p)
       PROVE PortInv'
  <2>1. /\ UNCHANGED <<procs, listeners, serving>>
        /\ reply' = [reply EXCEPT ![p] = [op |-> "respond"]]
        /\ reply[p].op = "accept"
    BY <1>13 DEF BridgeFails
  <2>2. \A t \in Port : reply[p] # Grant(t)
    BY <2>1 DEF Grant
  <2>. QED
    BY <2>1, <2>2
<1>14. CASE UNCHANGED vars
  BY <1>8, <1>14 DEF vars
<1>. QED
  BY <1>1, <1>2, <1>3, <1>4, <1>5, <1>6, <1>7, <1>9, <1>10, <1>11, <1>12, <1>13, <1>14
     DEF Next, Host, Syscall, Returns

(* A request becomes pending for a process in the table, in one step       *)
(* unless its body is spilled; finalize settles what a process owes.       *)
LEMMA SettledStep ==
  ASSUME TypeInv, InlineRequestSettledAtExit, [Next]_vars
  PROVE  InlineRequestSettledAtExit'
<1> USE VirtualNetAssumption DEF TypeInv, TypeOK, InlineRequestSettledAtExit, kernel
<1>1. ASSUME NEW r \in Req, NEW t \in Port, RequestInline(r, t)
      PROVE InlineRequestSettledAtExit'
  BY <1>1 DEF RequestInline, Deliver, Routed
<1>2. ASSUME NEW r \in Req, Staged(r)
      PROVE InlineRequestSettledAtExit'
  BY <1>2 DEF Staged, Deliver, FramesInv
<1>3. ASSUME NEW p \in Proc, Finalize(p)
      PROVE InlineRequestSettledAtExit'
  BY <1>3 DEF Finalize, OwedBy
<1>4. ASSUME NEW r \in Req, NEW t \in Port, NoServer(r, t) \/ RequestSpills(r, t)
      PROVE InlineRequestSettledAtExit'
  BY <1>4 DEF NoServer, RequestSpills
<1>5. ASSUME NEW r \in Req, StageFails(r)
      PROVE InlineRequestSettledAtExit'
  BY <1>5 DEF StageFails
<1>6. ASSUME NEW p \in Proc, NEW r \in Req, SysRespond(p, r) \/ SysRespondRest(p, r)
      PROVE InlineRequestSettledAtExit'
  BY <1>6 DEF SysRespond, SysRespondRest, Frame
<1>7. ASSUME UNCHANGED <<procs, owner, request>>
      PROVE InlineRequestSettledAtExit'
  BY <1>7
<1>8. ASSUME NEW p \in Proc, NEW t \in Port, SysListen(p, t) \/ SysClose(p, t)
      PROVE InlineRequestSettledAtExit'
  BY <1>7, <1>8 DEF SysListen, SysClose
<1>9. ASSUME NEW p \in Proc, SysAccept(p) \/ Returns(p) \/ DoNet(p) \/ Turn(p)
      PROVE InlineRequestSettledAtExit'
  BY <1>7, <1>9 DEF SysAccept, Returns, Listening, Responded, Accepted, Drained, DoNet, Turn
<1>10. ASSUME NEW p \in Proc, BridgeFails(p)
       PROVE InlineRequestSettledAtExit'
  <2>1. /\ UNCHANGED <<procs, owner>>
        /\ \A r \in Req : request'[r] = "pending" => request[r] = "pending"
    BY <1>10 DEF BridgeFails
  <2>. QED
    BY <2>1
<1>11. CASE UNCHANGED vars
  BY <1>7, <1>11 DEF vars
<1>. QED
  BY <1>1, <1>2, <1>3, <1>4, <1>5, <1>6, <1>8, <1>9, <1>10, <1>11 DEF Next, Host, Syscall

(* A request that arrives sets the wake, and the loop sleeps only after an *)
(* accept that found the inbox empty, or without a server.                 *)
LEMMA WakeStep ==
  ASSUME TypeInv, WakeInv, [Next]_vars
  PROVE  WakeInv'
<1> USE EmptyDiffers DEF TypeInv, TypeOK, WakeInv, kernel, guest, Answer
<1>1. ASSUME NEW r \in Req, NEW q \in Proc, Deliver(r, q), UNCHANGED <<procs, guest>>
      PROVE WakeInv'
  BY <1>1 DEF Deliver
<1>2. ASSUME NEW r \in Req, NEW t \in Port, RequestInline(r, t)
      PROVE WakeInv'
  <2>1. listeners[t] \in Proc
    BY <1>2 DEF RequestInline, Routed
  <2>. QED
    BY <1>1, <1>2, <2>1 DEF RequestInline
<1>3. ASSUME NEW r \in Req, Staged(r)
      PROVE WakeInv'
  <2>1. owner[r] \in Proc
    BY <1>3 DEF Staged, FramesInv
  <2>. QED
    BY <1>1, <1>3, <2>1 DEF Staged
<1>4. ASSUME NEW p \in Proc, NEW t \in Port, SysListen(p, t) \/ SysClose(p, t)
      PROVE WakeInv'
  <2>1. CASE SysListen(p, t)
    BY <2>1 DEF SysListen, InCallbacks
  <2>2. CASE SysClose(p, t)
    BY <2>2 DEF SysClose, InCallbacks
  <2>. QED
    BY <1>4, <2>1, <2>2
<1>5. ASSUME NEW p \in Proc, Listening(p)
      PROVE WakeInv'
  BY <1>5 DEF Listening
<1>6. ASSUME NEW p \in Proc, NEW r \in Req, SysRespond(p, r)
      PROVE WakeInv'
  BY <1>6 DEF SysRespond
<1>7. ASSUME NEW p \in Proc, SysAccept(p)
      PROVE WakeInv'
  <2>1. CASE inbox[p] = <<>>
    BY <1>7, <2>1 DEF SysAccept
  <2>2. CASE inbox[p] # <<>>
    <3>1. Head(inbox[p]) \in Req
      BY <2>2
    <3>2. reply'[p] # FoundEmpty
      BY <1>7, <2>2, <3>1 DEF SysAccept
    <3>. QED
      BY <1>7, <2>2, <3>2 DEF SysAccept
  <2>. QED
    BY <2>1, <2>2
<1>8. ASSUME NEW p \in Proc, Responded(p) \/ Accepted(p)
      PROVE WakeInv'
  BY <1>8 DEF Responded, Accepted
<1>9. ASSUME NEW p \in Proc, Drained(p)
      PROVE WakeInv'
  <2>1. reply[p] = FoundEmpty
    BY <1>9 DEF Drained, FoundEmpty
  <2>. QED
    BY <1>9, <2>1 DEF Drained
<1>10. ASSUME NEW p \in Proc, DoNet(p)
       PROVE WakeInv'
  BY <1>10 DEF DoNet, InCallbacks
<1>11. ASSUME NEW p \in Proc, Turn(p)
       PROVE WakeInv'
  BY <1>11 DEF Turn
<1>12. ASSUME NEW p \in Proc, Finalize(p)
       PROVE WakeInv'
  BY <1>12 DEF Finalize
<1>13. ASSUME UNCHANGED <<procs, inbox, woken, serving, pc, reply>>
       PROVE WakeInv'
  BY <1>13
<1>14. ASSUME NEW r \in Req, NEW t \in Port, NoServer(r, t) \/ RequestSpills(r, t)
       PROVE WakeInv'
  BY <1>13, <1>14 DEF NoServer, RequestSpills
<1>15. ASSUME NEW r \in Req, StageFails(r)
       PROVE WakeInv'
  BY <1>13, <1>15 DEF StageFails
<1>16. ASSUME NEW p \in Proc, NEW r \in Req, SysRespondRest(p, r)
       PROVE WakeInv'
  BY <1>13, <1>16 DEF SysRespondRest
<1>17. ASSUME NEW p \in Proc, BridgeFails(p)
       PROVE WakeInv'
  BY <1>17 DEF BridgeFails
<1>18. CASE UNCHANGED vars
  BY <1>13, <1>18 DEF vars
<1>. QED
  BY <1>2, <1>3, <1>4, <1>5, <1>6, <1>7, <1>8, <1>9, <1>10, <1>11, <1>12, <1>14, <1>15, <1>16, <1>17, <1>18
     DEF Next, Host, Syscall, Returns

(***************************************************************************)
(* Where a request is.                                                     *)
(***************************************************************************)
Accept(r) == [op |-> "accept", req |-> r]
Queued(p, r) == \E i \in 1..Len(inbox[p]) : inbox[p][i] = r
Accepting(p, r) == reply[p] = Accept(r)
Has(p, r) == Queued(p, r) \/ Accepting(p, r) \/ r \in bridged[p]
Once(p) == \A i, j \in 1..Len(inbox[p]) : inbox[p][i] = inbox[p][j] => i = j

(* It is in one place, of the process it was routed to; its body file is   *)
(* there until it is bridged, and no frame of its response comes before;   *)
(* while a response has some of its frames the guest is about to send the  *)
(* others.                                                                 *)
Placed(p, r) ==
  /\ Has(p, r) => owner[r] = p /\ request[r] \notin {"new", "staging"}
  /\ Queued(p, r) => ~Accepting(p, r)
  /\ r \in bridged[p] => ~Queued(p, r) /\ ~Accepting(p, r) /\ r \notin spilled
  /\ Queued(p, r) \/ Accepting(p, r) => got[r] = 0
  /\ r \in bridged[p] /\ request[r] = "pending" /\ got[r] > 0 => reply[p].op = "respond"

OnceInv == \A p \in Proc : Once(p)
PlacedInv == \A p \in Proc, r \in Req : Placed(p, r)
HasInv == \A p \in procs, r \in Req : request[r] = "pending" /\ owner[r] = p => Has(p, r)
AccountInv == OnceInv /\ PlacedInv /\ HasInv /\ SpilledFileOwed

(* The answers that hand over a request are told from the others.          *)
LEMMA AcceptsDiffer ==
  /\ \A r \in Req : /\ Accept(r) \notin {NoReply, FoundEmpty, [op |-> "close"], [op |-> "respond"]}
                    /\ Accept(r).op = "accept" /\ Accept(r).req = r
  /\ \A r \in Req, t \in Port, b \in BOOLEAN : Accept(r) # [op |-> "listen", port |-> t, ok |-> b]
  /\ \A r, s \in Req : Accept(r) = Accept(s) => r = s
  /\ \A t \in Port, b \in BOOLEAN : [op |-> "listen", port |-> t, ok |-> b].op = "listen"
  /\ [op |-> "respond"].op = "respond" /\ [op |-> "close"].op = "close"
  /\ NoReply.op = "none" /\ FoundEmpty.op = "accept" /\ FoundEmpty.req = None
<1>1. \A r : Accept(r).op = "accept" /\ Accept(r).req = r
  BY DEF Accept
<1>2. NoReply.op = "none" /\ FoundEmpty.op = "accept" /\ FoundEmpty.req = None
  BY DEF NoReply, FoundEmpty
<1>3. \A t \in Port, b \in BOOLEAN : [op |-> "listen", port |-> t, ok |-> b].op = "listen"
  OBVIOUS
<1>4. [op |-> "respond"].op = "respond" /\ [op |-> "close"].op = "close"
  OBVIOUS
<1>. QED
  BY <1>1, <1>2, <1>3, <1>4, VirtualNetAssumption

(* An inbox that is left alone, ...                                        *)
LEMMA InboxSame ==
  ASSUME NEW p, inbox'[p] = inbox[p]
  PROVE  (Once(p)' <=> Once(p)) /\ \A s : Queued(p, s)' <=> Queued(p, s)
BY DEF Once, Queued

(* ... one that is emptied, ...                                            *)
LEMMA InboxEmptied ==
  ASSUME NEW p, inbox'[p] = <<>>
  PROVE  Once(p)' /\ \A s : ~Queued(p, s)'
BY DEF Once, Queued

(* ... gets a request, ...                                                 *)
LEMMA InboxAdded ==
  ASSUME NEW p, inbox[p] \in Seq(Req), NEW r \in Req, inbox'[p] = Append(inbox[p], r), ~Queued(p, r), Once(p)
  PROVE  Once(p)' /\ \A s : Queued(p, s)' <=> Queued(p, s) \/ s = r
<1>. DEFINE q == inbox[p]
            u == inbox'[p]
<1>. PICK n : n = Len(q)
  OBVIOUS
<1>1. /\ n \in Nat /\ Len(u) = n + 1 /\ u[n + 1] = r
      /\ \A i \in 1..n : u[i] = q[i]
  OBVIOUS
<1>2. (\A i, j \in 1..n : q[i] = q[j] => i = j) /\ \A i \in 1..n : q[i] # r
  BY DEF Once, Queued
<1>. HIDE DEF q, u
<1>3. /\ \A i \in 1..Len(u) : i \in 1..n \/ i = n + 1
      /\ \A i \in 1..n : i \in 1..Len(u)
      /\ n + 1 \in 1..Len(u)
  BY <1>1
<1>4. \A i, j \in 1..Len(u) : u[i] = u[j] => i = j
  BY <1>1, <1>2, <1>3
<1>5. \A s : (\E i \in 1..Len(u) : u[i] = s) <=> (\E i \in 1..n : q[i] = s) \/ s = r
  BY <1>1, <1>3
<1>. QED
  BY <1>4, <1>5 DEF Once, Queued, q, u

(* ... or gives one to an accept.                                          *)
LEMMA InboxTaken ==
  ASSUME NEW p, inbox[p] \in Seq(Req), inbox[p] # <<>>, inbox'[p] = Tail(inbox[p]), Once(p)
  PROVE  /\ Once(p)' /\ Queued(p, Head(inbox[p])) /\ Head(inbox[p]) \in Req
         /\ \A s : Queued(p, s)' <=> Queued(p, s) /\ s # Head(inbox[p])
<1>. DEFINE q == inbox[p]
            u == inbox'[p]
<1>. PICK n : n = Len(u)
  OBVIOUS
<1>1. /\ n \in Nat /\ Len(q) = n + 1 /\ Head(q) = q[1] /\ Head(q) \in Req
      /\ \A i \in 1..n : u[i] = q[i + 1]
  OBVIOUS
<1>2. \A i, j \in 1..n + 1 : q[i] = q[j] => i = j
  BY <1>1 DEF Once
<1>3. Queued(p, Head(inbox[p]))
  BY <1>1 DEF Queued
<1>4. Len(u) = n
  OBVIOUS
<1>. HIDE DEF q, u
<1>5. /\ \A i \in 1..n : i + 1 \in 1..n + 1 /\ i + 1 # 1
      /\ \A i \in 1..n + 1 : i = 1 \/ (i - 1 \in 1..n /\ (i - 1) + 1 = i)
      /\ 1 \in 1..n + 1 /\ \A i, j \in 1..n : i + 1 = j + 1 => i = j
  BY <1>1
<1>6. \A i, j \in 1..Len(u) : u[i] = u[j] => i = j
  BY <1>1, <1>2, <1>4, <1>5
<1>7. \A s : (\E i \in 1..n : u[i] = s) <=> (\E i \in 1..n + 1 : q[i] = s) /\ s # Head(q)
  <2>1. ASSUME NEW i \in 1..n PROVE (\E j \in 1..n + 1 : q[j] = u[i]) /\ u[i] # Head(q)
    BY <1>1, <1>2, <1>5
  <2>2. ASSUME NEW j \in 1..n + 1, q[j] # Head(q) PROVE \E i \in 1..n : u[i] = q[j]
    <3>1. j - 1 \in 1..n /\ (j - 1) + 1 = j
      BY <1>1, <1>5, <2>2
    <3>2. u[j - 1] = q[j]
      BY <1>1, <3>1
    <3>. QED
      BY <3>1, <3>2
  <2>3. \A s : (\E i \in 1..n : u[i] = s) => (\E i \in 1..n + 1 : q[i] = s) /\ s # Head(q)
    BY <2>1
  <2>4. \A s : (\E i \in 1..n + 1 : q[i] = s) /\ s # Head(q) => \E i \in 1..n : u[i] = s
    BY <2>2
  <2>. QED
    BY <2>3, <2>4
<1>. QED
  BY <1>1, <1>3, <1>4, <1>6, <1>7 DEF Once, Queued, q, u

(* A request that has not moved. *)
LEMMA PlacedKept ==
  ASSUME NEW p, NEW r, Placed(p, r), Queued(p, r)' <=> Queued(p, r), Accepting(p, r)' <=> Accepting(p, r),
         r \in bridged'[p] <=> r \in bridged[p],
         Has(p, r) => /\ owner'[r] = owner[r] /\ got'[r] = got[r]
                      /\ request'[r] \notin {"new", "staging"}
                      /\ request'[r] = "pending" => request[r] = "pending"
                      /\ r \in spilled' => r \in spilled,
         reply[p].op = "respond" => reply'[p].op = "respond"
  PROVE  Placed(p, r)' /\ (Has(p, r)' <=> Has(p, r))
BY DEF Placed, Has

(* A step that moves none. *)
LEMMA AccountSame ==
  ASSUME TypeInv, AccountInv, UNCHANGED <<procs, owner, request, got, inbox, spilled, bridged>>,
         \A p \in Proc : /\ \A r \in Req : Accepting(p, r)' <=> Accepting(p, r)
                         /\ reply[p].op = "respond" => reply'[p].op = "respond"
  PROVE  AccountInv'
<1>1. \A p : (Once(p)' <=> Once(p)) /\ \A s : Queued(p, s)' <=> Queued(p, s)
  BY InboxSame
<1>2. ASSUME NEW p \in Proc, NEW r \in Req PROVE Placed(p, r)' /\ (Has(p, r)' <=> Has(p, r))
  <2>1. Placed(p, r) /\ (Has(p, r) => request[r] \notin {"new", "staging"})
    BY DEF AccountInv, PlacedInv, Placed
  <2>. QED
    BY <1>1, <2>1, PlacedKept
<1>3. OnceInv'
  BY <1>1 DEF AccountInv, OnceInv
<1>4. PlacedInv'
  BY <1>2 DEF PlacedInv
<1>5. HasInv'
  BY <1>2 DEF AccountInv, HasInv, TypeInv, TypeOK
<1>6. SpilledFileOwed'
  BY DEF AccountInv, SpilledFileOwed
<1>. QED
  BY <1>3, <1>4, <1>5, <1>6 DEF AccountInv

(* The host settles a request that has not been delivered, or holds it. *)
LEMMA AccountUndelivered ==
  ASSUME TypeInv, AccountInv, NEW r \in Req,
         StageFails(r) \/ \E t \in Port : NoServer(r, t) \/ RequestSpills(r, t)
  PROVE  AccountInv'
<1>1. /\ request[r] \in {"new", "staging"} /\ request'[r] # "pending"
      /\ UNCHANGED <<procs, got, inbox, spilled, reply, bridged>>
      /\ \A s \in Req \ {r} : request'[s] = request[s] /\ owner'[s] = owner[s]
  BY DEF StageFails, NoServer, RequestSpills, guest, TypeInv, TypeOK
<1>2. \A p : (Once(p)' <=> Once(p)) /\ \A s : Queued(p, s)' <=> Queued(p, s)
  BY <1>1, InboxSame
<1>3. ASSUME NEW p \in Proc, NEW s \in Req PROVE Placed(p, s)' /\ (Has(p, s)' <=> Has(p, s))
  <2>1. Placed(p, s) /\ (Has(p, s) => s # r /\ request[s] \notin {"new", "staging"})
    BY <1>1 DEF AccountInv, PlacedInv, Placed
  <2>2. Accepting(p, s)' <=> Accepting(p, s)
    BY <1>1 DEF Accepting
  <2>. QED
    BY <1>1, <1>2, <2>1, <2>2, PlacedKept
<1>4. OnceInv'
  BY <1>2 DEF AccountInv, OnceInv
<1>5. HasInv'
  <2>1. ASSUME NEW p \in procs, NEW s \in Req, request'[s] = "pending", owner'[s] = p PROVE Has(p, s)'
    <3>1. s # r /\ p \in Proc
      BY <1>1, <2>1 DEF TypeInv, TypeOK
    <3>2. Has(p, s)
      BY <1>1, <2>1, <3>1 DEF AccountInv, HasInv
    <3>. QED
      BY <1>3, <3>1, <3>2
  <2>. QED
    BY <1>1, <2>1 DEF HasInv
<1>6. SpilledFileOwed'
  <2>1. \A s \in spilled : s \in Req /\ s # r
    BY <1>1, VirtualNetAssumption DEF AccountInv, SpilledFileOwed, TypeInv, TypeOK
  <2>. QED
    BY <1>1, <2>1 DEF AccountInv, SpilledFileOwed
<1>. QED
  BY <1>3, <1>4, <1>5, <1>6 DEF AccountInv, PlacedInv

(* A request arrives at an inbox. *)
LEMMA AccountArrival ==
  ASSUME TypeInv, AccountInv, NEW r \in Req, Staged(r) \/ \E t \in Port : RequestInline(r, t)
  PROVE  AccountInv'
<1>1. PICK q \in Proc :
        /\ request[r] \in {"new", "staging"} /\ Deliver(r, q)
        /\ UNCHANGED <<procs, got, reply, bridged>> /\ spilled \subseteq spilled' /\ spilled' \subseteq spilled \union {r}
  <2>1. CASE Staged(r)
    <3>1. owner[r] \in Proc
      BY <2>1 DEF Staged, TypeInv, FramesInv
    <3>. QED
      BY <2>1, <3>1 DEF Staged, guest
  <2>2. CASE \E t \in Port : RequestInline(r, t)
    BY <2>2 DEF RequestInline, Routed, guest, TypeInv, TypeOK
  <2>. QED
    BY <2>1, <2>2
<1>2. /\ request'[r] = "pending" /\ owner'[r] = q /\ got[r] = 0
      /\ \A s \in Req \ {r} : request'[s] = request[s] /\ owner'[s] = owner[s]
  BY <1>1 DEF Deliver, TypeInv, TypeOK, FramesInv
<1>3. \A p \in Proc : ~ Has(p, r)
  BY <1>1 DEF AccountInv, PlacedInv, Placed
<1>4. \A p \in Proc : Once(p)' /\ \A s \in Req : Queued(p, s)' <=> Queued(p, s) \/ (p = q /\ s = r)
  <2>1. ASSUME NEW p \in Proc, p # q
        PROVE  Once(p)' /\ \A s \in Req : Queued(p, s)' <=> Queued(p, s)
    <3>1. inbox'[p] = inbox[p]
      BY <1>1, <2>1 DEF Deliver, TypeInv, TypeOK
    <3>. QED
      BY <3>1, InboxSame DEF AccountInv, OnceInv
  <2>2. Once(q)' /\ \A s \in Req : Queued(q, s)' <=> Queued(q, s) \/ s = r
    <3>1. inbox[q] \in Seq(Req) /\ inbox'[q] = Append(inbox[q], r)
      BY <1>1 DEF Deliver, TypeInv, TypeOK
    <3>2. ~Queued(q, r) /\ Once(q)
      BY <1>3 DEF AccountInv, OnceInv, Has
    <3>. QED
      BY <3>1, <3>2, InboxAdded
  <2>. QED
    BY <2>1, <2>2
<1>5. \A p \in Proc, s \in Req : Accepting(p, s)' <=> Accepting(p, s)
  BY <1>1 DEF Accepting
<1>6. ASSUME NEW p \in Proc, NEW s \in Req, s # r PROVE Placed(p, s)' /\ (Has(p, s)' <=> Has(p, s))
  <2>1. Placed(p, s) /\ (Has(p, s) => request[s] \notin {"new", "staging"})
    BY DEF AccountInv, PlacedInv, Placed
  <2>2. s \in spilled' => s \in spilled
    BY <1>1, <1>6
  <2>. QED
    BY <1>1, <1>2, <1>4, <1>5, <1>6, <2>1, <2>2, PlacedKept
<1>7. ASSUME NEW p \in Proc PROVE Placed(p, r)' /\ (p = q => Has(p, r)')
  BY <1>1, <1>2, <1>3, <1>4, <1>5 DEF Placed, Has
<1>8. OnceInv'
  BY <1>4 DEF OnceInv
<1>9. PlacedInv'
  BY <1>6, <1>7 DEF PlacedInv
<1>10. HasInv'
  <2>1. ASSUME NEW p \in procs, NEW s \in Req, request'[s] = "pending", owner'[s] = p PROVE Has(p, s)'
    <3>1. p \in Proc
      BY DEF TypeInv, TypeOK
    <3>2. CASE s # r
      <4>1. Has(p, s)
        BY <1>2, <2>1, <3>2 DEF AccountInv, HasInv
      <4>. QED
        BY <1>6, <3>1, <3>2, <4>1
    <3>3. CASE s = r
      BY <1>2, <1>7, <2>1, <3>1, <3>3
    <3>. QED
      BY <3>2, <3>3
  <2>. QED
    BY <1>1, <2>1 DEF HasInv
<1>11. SpilledFileOwed'
  <2>1. \A s \in spilled : s \in Req
    BY VirtualNetAssumption DEF TypeInv, TypeOK
  <2>. QED
    BY <1>1, <1>2, <2>1 DEF AccountInv, SpilledFileOwed
<1>. QED
  BY <1>8, <1>9, <1>10, <1>11 DEF AccountInv

(* What hands over no request and ends no response moves none. *)
LEMMA AccountAside ==
  ASSUME TypeInv, AccountInv, NEW p \in Proc,
         \/ \E t \in Port : SysListen(p, t) \/ SysClose(p, t)
         \/ Listening(p) \/ Drained(p) \/ DoNet(p) \/ Turn(p)
  PROVE  AccountInv'
<1>1. UNCHANGED <<procs, owner, request, got, inbox, spilled, bridged>>
  BY DEF SysListen, SysClose, Listening, Drained, DoNet, Turn, kernel
<1>2. \A q \in Proc \ {p} : reply'[q] = reply[q]
  BY DEF SysListen, SysClose, Listening, Drained, DoNet, Turn, Answer, TypeInv, TypeOK
<1>3. \/ reply'[p] = reply[p]
      \/ /\ reply[p] = NoReply
         /\ \/ \E t \in Port, b \in BOOLEAN : reply'[p] = [op |-> "listen", port |-> t, ok |-> b]
            \/ reply'[p] = [op |-> "close"]
      \/ (reply[p].op = "listen" \/ reply[p] = FoundEmpty) /\ reply'[p] = NoReply
  <2>1. ASSUME NEW t \in Port, SysListen(p, t)
        PROVE  reply[p] = NoReply /\ reply'[p] = [op |-> "listen", port |-> t, ok |-> ~Taken(p, t)]
    BY <2>1 DEF SysListen, InCallbacks, Answer, TypeInv, TypeOK
  <2>2. ASSUME NEW t \in Port, SysClose(p, t)
        PROVE  reply[p] = NoReply /\ reply'[p] = [op |-> "close"]
    BY <2>2 DEF SysClose, InCallbacks, Answer, TypeInv, TypeOK
  <2>3. ASSUME Listening(p) \/ Drained(p)
        PROVE  (reply[p].op = "listen" \/ reply[p] = FoundEmpty) /\ reply'[p] = NoReply
    BY <2>3 DEF Listening, Drained, Answer, FoundEmpty, TypeInv, TypeOK
  <2>4. ASSUME DoNet(p) \/ Turn(p) PROVE reply'[p] = reply[p]
    BY <2>4 DEF DoNet, Turn
  <2>5. \A t \in Port : Taken(p, t) \in BOOLEAN
    BY DEF Taken
  <2>. QED
    BY <2>1, <2>2, <2>3, <2>4, <2>5
<1>4. /\ \A r \in Req : Accepting(p, r)' <=> Accepting(p, r)
      /\ reply[p].op = "respond" => reply'[p].op = "respond"
  <2>1. CASE reply'[p] = reply[p]
    BY <2>1 DEF Accepting
  <2>2. CASE reply[p] = NoReply /\ \E t \in Port, b \in BOOLEAN : reply'[p] = [op |-> "listen", port |-> t, ok |-> b]
    BY <2>2, AcceptsDiffer DEF Accepting
  <2>3. CASE reply[p] = NoReply /\ reply'[p] = [op |-> "close"]
    BY <2>3, AcceptsDiffer DEF Accepting
  <2>4. CASE (reply[p].op = "listen" \/ reply[p] = FoundEmpty) /\ reply'[p] = NoReply
    BY <2>4, AcceptsDiffer DEF Accepting
  <2>. QED
    BY <1>3, <2>1, <2>2, <2>3, <2>4
<1>5. \A q \in Proc : /\ \A r \in Req : Accepting(q, r)' <=> Accepting(q, r)
                      /\ reply[q].op = "respond" => reply'[q].op = "respond"
  BY <1>2, <1>4 DEF Accepting
<1>. QED
  BY <1>1, <1>5, AccountSame

(* A frame of a response. *)
LEMMA AccountFrame ==
  ASSUME TypeInv, AccountInv, NEW p \in Proc, NEW r \in Req, SysRespond(p, r) \/ SysRespondRest(p, r)
  PROVE  AccountInv'
<1>1. /\ r \in bridged[p] /\ Frame(r) /\ UNCHANGED <<procs, owner, inbox, spilled, bridged>>
      /\ \A q \in Proc \ {p} : reply'[q] = reply[q]
  BY DEF SysRespond, SysRespondRest, Answer, guest, TypeInv, TypeOK
<1>2. /\ reply'[p].op = "respond"
      /\ reply'[p] = reply[p] \/ (reply[p] = NoReply /\ reply'[p] = [op |-> "respond"])
  <2>1. CASE SysRespond(p, r)
    BY <2>1, AcceptsDiffer DEF SysRespond, InCallbacks, Answer, TypeInv, TypeOK
  <2>2. CASE SysRespondRest(p, r)
    BY <2>2 DEF SysRespondRest, guest
  <2>. QED
    BY <2>1, <2>2
<1>3. /\ \A s \in Req \ {r} : request'[s] = request[s] /\ got'[s] = got[s]
      /\ request'[r] = request[r] \/ (request[r] = "pending" /\ request'[r] = "answered")
  BY <1>1 DEF Frame, TypeInv, TypeOK
<1>4. \A q \in Proc : (Once(q)' <=> Once(q)) /\ \A s : Queued(q, s)' <=> Queued(q, s)
  BY <1>1, InboxSame
<1>5. \A q \in Proc, s \in Req : Accepting(q, s)' <=> Accepting(q, s)
  BY <1>1, <1>2, AcceptsDiffer DEF Accepting
<1>6. /\ owner[r] = p /\ request[r] \notin {"new", "staging"} /\ r \notin spilled
      /\ ~Queued(p, r) /\ ~Accepting(p, r)
      /\ \A q \in Proc : Has(q, r) => q = p
  BY <1>1 DEF AccountInv, PlacedInv, Placed, Has
<1>7. ASSUME NEW q \in Proc, NEW s \in Req PROVE Placed(q, s)' /\ (Has(q, s)' <=> Has(q, s))
  <2>1. Placed(q, s) /\ (Has(q, s) => request[s] \notin {"new", "staging"})
    BY DEF AccountInv, PlacedInv, Placed
  <2>2. reply[q].op = "respond" => reply'[q].op = "respond"
    BY <1>1, <1>2
  <2>3. CASE s # r
    BY <1>1, <1>3, <1>4, <1>5, <2>1, <2>2, <2>3, PlacedKept
  <2>4. CASE s = r
    BY <1>1, <1>2, <1>3, <1>4, <1>5, <1>6, <2>1, <2>4 DEF Placed, Has
  <2>. QED
    BY <2>3, <2>4
<1>8. OnceInv'
  BY <1>4 DEF AccountInv, OnceInv
<1>9. HasInv'
  BY <1>1, <1>3, <1>7 DEF AccountInv, HasInv, TypeInv, TypeOK
<1>10. SpilledFileOwed'
  BY <1>1, <1>3, <1>6, VirtualNetAssumption DEF AccountInv, SpilledFileOwed, TypeInv, TypeOK
<1>. QED
  BY <1>7, <1>8, <1>9, <1>10 DEF AccountInv, PlacedInv

(* The guest has sent a response, whole, and forgets its request. *)
LEMMA AccountResponded ==
  ASSUME TypeInv, AccountInv, NEW p \in Proc, Responded(p)
  PROVE  AccountInv'
<1>1. /\ reply[p].op \in {"respond", "close"} /\ reply'[p] = NoReply
      /\ \A q \in Proc \ {p} : reply'[q] = reply[q] /\ bridged'[q] = bridged[q]
      /\ bridged'[p] = {r \in bridged[p] : got[r] = 0}
      /\ UNCHANGED <<procs, owner, request, got, inbox, spilled>>
  BY DEF Responded, Answer, kernel, TypeInv, TypeOK
<1>2. \A q \in Proc : (Once(q)' <=> Once(q)) /\ \A s : Queued(q, s)' <=> Queued(q, s)
  BY <1>1, InboxSame
<1>3. \A q \in Proc, s \in Req : Accepting(q, s)' <=> Accepting(q, s)
  BY <1>1, AcceptsDiffer DEF Accepting
<1>4. ASSUME NEW q \in Proc, NEW s \in Req
      PROVE  Placed(q, s)' /\ (Has(q, s) /\ request[s] = "pending" => Has(q, s)')
  <2>1. Placed(q, s)
    BY DEF AccountInv, PlacedInv
  <2>2. CASE q # p
    <3>1. reply'[q] = reply[q] /\ bridged'[q] = bridged[q] /\ (Has(q, s) => request[s] \notin {"new", "staging"})
      BY <1>1, <2>1, <2>2 DEF Placed
    <3>. QED
      BY <1>1, <1>2, <1>3, <2>1, <3>1, PlacedKept
  <2>3. CASE q = p
    <3>1. Placed(p, s)'
      BY <1>1, <1>2, <1>3, <2>1, <2>3 DEF Placed, Has
    <3>2. ASSUME s \in bridged[p], request[s] = "pending" PROVE got[s] = 0
      <4>1. got[s] \in Nat /\ got[s] < Total[s]
        BY <3>2 DEF TypeInv, TypeOK, FramesInv
      <4>2. CASE reply[p].op = "respond"
        BY <3>2, <4>1, <4>2 DEF Responded
      <4>3. CASE reply[p].op = "close"
        BY <2>1, <2>3, <3>2, <4>1, <4>3 DEF Placed
      <4>. QED
        BY <1>1, <4>2, <4>3
    <3>3. Has(p, s) /\ request[s] = "pending" => Has(p, s)'
      BY <1>1, <1>2, <1>3, <3>2 DEF Has
    <3>. QED
      BY <2>3, <3>1, <3>3
  <2>. QED
    BY <2>2, <2>3
<1>5. OnceInv'
  BY <1>2 DEF AccountInv, OnceInv
<1>6. HasInv'
  BY <1>1, <1>4 DEF AccountInv, HasInv, TypeInv, TypeOK
<1>7. SpilledFileOwed'
  BY <1>1 DEF AccountInv, SpilledFileOwed
<1>. QED
  BY <1>4, <1>5, <1>6, <1>7 DEF AccountInv, PlacedInv

(* A request goes from the inbox to the answer of an accept ... *)
LEMMA AccountAccept ==
  ASSUME TypeInv, AccountInv, NEW p \in Proc, SysAccept(p)
  PROVE  AccountInv'
<1>1. /\ reply[p] = NoReply /\ UNCHANGED <<procs, owner, request, got, spilled, bridged>>
      /\ \A q \in Proc \ {p} : reply'[q] = reply[q] /\ inbox'[q] = inbox[q]
  BY DEF SysAccept, Answer, kernel, TypeInv, TypeOK
<1>2. CASE inbox[p] = <<>>
  <2>1. reply'[p] = FoundEmpty /\ inbox' = inbox
    BY <1>2 DEF SysAccept, Answer, FoundEmpty, TypeInv, TypeOK
  <2>2. \A q \in Proc : /\ \A r \in Req : Accepting(q, r)' <=> Accepting(q, r)
                        /\ reply[q].op = "respond" => reply'[q].op = "respond"
    BY <1>1, <2>1, AcceptsDiffer DEF Accepting
  <2>. QED
    BY <1>1, <2>1, <2>2, AccountSame
<1>3. CASE inbox[p] # <<>>
  <2>. PICK h : h = Head(inbox[p])
    OBVIOUS
  <2>1. inbox[p] \in Seq(Req) /\ Once(p)
    BY DEF AccountInv, OnceInv, TypeInv, TypeOK
  <2>2. reply'[p] = Accept(h) /\ inbox'[p] = Tail(inbox[p])
    BY <1>3 DEF SysAccept, Answer, Accept, TypeInv, TypeOK
  <2>3. /\ Once(p)' /\ Queued(p, h) /\ h \in Req
        /\ \A s : Queued(p, s)' <=> Queued(p, s) /\ s # h
    BY <1>3, <2>1, <2>2, InboxTaken
  <2>4. /\ \A s \in Req : ~Accepting(p, s) /\ (Accepting(p, s)' <=> s = h)
        /\ reply[p].op # "respond"
    BY <1>1, <2>2, <2>3, AcceptsDiffer DEF Accepting
  <2>5. ASSUME NEW q \in Proc, NEW s \in Req PROVE Placed(q, s)' /\ (Has(q, s)' <=> Has(q, s))
    <3>1. Placed(q, s) /\ (Has(q, s) => request[s] \notin {"new", "staging"})
      BY DEF AccountInv, PlacedInv, Placed
    <3>2. CASE q # p
      <4>1. reply'[q] = reply[q] /\ (Queued(q, s)' <=> Queued(q, s)) /\ (Accepting(q, s)' <=> Accepting(q, s))
        BY <1>1, <3>2, InboxSame DEF Accepting
      <4>. QED
        BY <1>1, <3>1, <4>1, PlacedKept
    <3>3. CASE q = p
      BY <1>1, <2>3, <2>4, <3>1, <3>3 DEF Placed, Has
    <3>. QED
      BY <3>2, <3>3
  <2>6. OnceInv'
    BY <1>1, <2>3, InboxSame DEF AccountInv, OnceInv
  <2>7. HasInv' /\ SpilledFileOwed'
    BY <1>1, <2>5 DEF AccountInv, HasInv, SpilledFileOwed, TypeInv, TypeOK
  <2>. QED
    BY <2>5, <2>6, <2>7 DEF AccountInv, PlacedInv
<1>. QED
  BY <1>2, <1>3

(* ... and from there to the guest's http server, which has its file.      *)
LEMMA AccountAccepted ==
  ASSUME TypeInv, AccountInv, NEW p \in Proc, Accepted(p)
  PROVE  AccountInv'
<1>. PICK h : h = reply[p].req
  OBVIOUS
<1>1. h \in Req /\ reply[p] = Accept(h)
  <2>1. reply[p] \in Reply /\ reply[p].op = "accept" /\ reply[p].req # None
    BY DEF Accepted, TypeInv, TypeOK
  <2>2. reply[p] \in [op : {"accept"}, req : Req \union {None}]
    BY <2>1, AcceptsDiffer DEF Reply
  <2>. QED
    BY <2>1, <2>2 DEF Accept
<1>2. /\ UNCHANGED <<procs, owner, request, got, inbox>> /\ spilled' = spilled \ {h}
      /\ reply'[p] = NoReply /\ bridged'[p] = bridged[p] \union {h}
      /\ \A q \in Proc \ {p} : reply'[q] = reply[q] /\ bridged'[q] = bridged[q]
  BY DEF Accepted, Answer, kernel, TypeInv, TypeOK
<1>3. \A q \in Proc : (Once(q)' <=> Once(q)) /\ \A s : Queued(q, s)' <=> Queued(q, s)
  BY <1>2, InboxSame
<1>4. /\ \A s \in Req : ~Accepting(p, s)' /\ (Accepting(p, s) <=> s = h)
      /\ reply[p].op # "respond"
  BY <1>1, <1>2, AcceptsDiffer DEF Accepting
<1>5. ASSUME NEW q \in Proc, NEW s \in Req PROVE Placed(q, s)' /\ (Has(q, s)' <=> Has(q, s))
  <2>1. Placed(q, s) /\ (Has(q, s) => request[s] \notin {"new", "staging"})
    BY DEF AccountInv, PlacedInv, Placed
  <2>2. CASE q # p
    <3>1. reply'[q] = reply[q] /\ (Accepting(q, s)' <=> Accepting(q, s)) /\ bridged'[q] = bridged[q]
      BY <1>2, <2>2 DEF Accepting
    <3>. QED
      BY <1>2, <1>3, <2>1, <3>1, PlacedKept
  <2>3. CASE q = p /\ s # h
    <3>1. /\ s \in bridged'[p] <=> s \in bridged[p]
          /\ Accepting(p, s)' <=> Accepting(p, s)
      BY <1>2, <1>4, <2>3
    <3>. QED
      BY <1>2, <1>3, <1>4, <2>1, <2>3, <3>1, PlacedKept
  <2>4. CASE q = p /\ s = h
    <3>1. /\ Has(p, h) /\ owner[h] = p /\ request[h] \notin {"new", "staging"}
          /\ ~Queued(p, h) /\ got[h] = 0
      BY <1>1, <1>4, <2>1, <2>4 DEF Placed, Has
    <3>2. ~Queued(p, h)' /\ ~Accepting(p, h)' /\ h \in bridged'[p] /\ h \notin spilled'
      BY <1>1, <1>2, <1>3, <1>4, <3>1
    <3>3. Has(p, h)' /\ owner'[h] = p /\ request'[h] \notin {"new", "staging"} /\ got'[h] = 0
      BY <1>2, <3>1, <3>2 DEF Has
    <3>. QED
      BY <2>4, <3>1, <3>2, <3>3 DEF Placed
  <2>. QED
    BY <2>2, <2>3, <2>4
<1>6. OnceInv'
  BY <1>3 DEF AccountInv, OnceInv
<1>7. HasInv' /\ SpilledFileOwed'
  BY <1>2, <1>5 DEF AccountInv, HasInv, SpilledFileOwed, TypeInv, TypeOK
<1>. QED
  BY <1>5, <1>6, <1>7 DEF AccountInv, PlacedInv

(* ... or no further: the bridge answers it at once.                       *)
LEMMA AccountRefused ==
  ASSUME TypeInv, AccountInv, NEW p \in Proc, BridgeFails(p)
  PROVE  AccountInv'
<1>. PICK h : h = reply[p].req
  OBVIOUS
<1>1. h \in Req /\ reply[p] = Accept(h)
  <2>1. reply[p] \in Reply /\ reply[p].op = "accept" /\ reply[p].req # None
    BY DEF BridgeFails, TypeInv, TypeOK
  <2>2. reply[p] \in [op : {"accept"}, req : Req \union {None}]
    BY <2>1, AcceptsDiffer DEF Reply
  <2>. QED
    BY <2>1, <2>2 DEF Accept
<1>2. /\ UNCHANGED <<procs, owner, got, inbox, spilled, bridged>> /\ reply'[p] = [op |-> "respond"]
      /\ \A q \in Proc \ {p} : reply'[q] = reply[q]
      /\ \A s \in Req \ {h} : request'[s] = request[s]
      /\ request'[h] = IF request[h] = "pending" THEN "bridge502" ELSE request[h]
  BY <1>1 DEF BridgeFails, Answer, TypeInv, TypeOK
<1>3. \A q \in Proc : (Once(q)' <=> Once(q)) /\ \A s : Queued(q, s)' <=> Queued(q, s)
  BY <1>2, InboxSame
<1>4. /\ \A s \in Req : ~Accepting(p, s)' /\ (Accepting(p, s) <=> s = h)
      /\ reply[p].op # "respond"
  BY <1>1, <1>2, AcceptsDiffer DEF Accepting
<1>5. /\ Has(p, h) /\ owner[h] = p /\ request[h] \notin {"new", "staging"}
      /\ ~Queued(p, h) /\ h \notin bridged[p] /\ request'[h] # "pending"
  <2>1. Placed(p, h) /\ Accepting(p, h)
    BY <1>1, <1>4 DEF AccountInv, PlacedInv
  <2>. QED
    BY <1>2, <2>1 DEF Placed, Has
<1>6. ASSUME NEW q \in Proc, NEW s \in Req PROVE Placed(q, s)' /\ (s # h => (Has(q, s)' <=> Has(q, s)))
  <2>1. Placed(q, s) /\ (Has(q, s) => request[s] \notin {"new", "staging"} /\ owner[s] = q)
    BY DEF AccountInv, PlacedInv, Placed
  <2>2. CASE s # h
    <3>1. /\ Accepting(q, s)' <=> Accepting(q, s)
          /\ reply[q].op = "respond" => reply'[q].op = "respond"
          /\ request'[s] = request[s]
      BY <1>2, <1>4, <2>2, AcceptsDiffer DEF Accepting
    <3>. QED
      BY <1>2, <1>3, <2>1, <2>2, <3>1, PlacedKept
  <2>3. CASE s = h
    <3>1. q # p => ~Has(q, h)
      BY <1>5, <2>1, <2>3
    <3>2. ~Has(q, h)'
      BY <1>2, <1>3, <1>4, <1>5, <3>1 DEF Has, Accepting
    <3>. QED
      BY <2>3, <3>2 DEF Placed, Has
  <2>. QED
    BY <2>2, <2>3
<1>7. OnceInv'
  BY <1>3 DEF AccountInv, OnceInv
<1>8. HasInv'
  BY <1>2, <1>5, <1>6 DEF AccountInv, HasInv, TypeInv, TypeOK
<1>9. SpilledFileOwed'
  BY <1>1, <1>2, VirtualNetAssumption DEF AccountInv, SpilledFileOwed, TypeInv, TypeOK
<1>. QED
  BY <1>6, <1>7, <1>8, <1>9 DEF AccountInv, PlacedInv

(* The end of a process settles what it has, and what it owes. *)
LEMMA AccountEnd ==
  ASSUME TypeInv, AccountInv, NEW p \in Proc, Finalize(p)
  PROVE  AccountInv'
<1>1. /\ procs' = procs \ {p} /\ spilled' = spilled \ OwedBy(p) /\ UNCHANGED <<owner, got>>
      /\ inbox'[p] = <<>> /\ reply'[p] = NoReply /\ bridged'[p] = {}
      /\ \A q \in Proc \ {p} : reply'[q] = reply[q] /\ bridged'[q] = bridged[q] /\ inbox'[q] = inbox[q]
      /\ \A s \in Req : request'[s] = IF s \in OwedBy(p) THEN "502" ELSE request[s]
  BY DEF Finalize, Answer, TypeInv, TypeOK
<1>2. \A s \in Req : s \in OwedBy(p) <=> request[s] = "pending" /\ owner[s] = p
  BY DEF OwedBy
<1>3. \A s \in Req : ~Has(p, s)' /\ ~Queued(p, s)' /\ ~Accepting(p, s)'
  BY <1>1, InboxEmptied, AcceptsDiffer DEF Has, Accepting
<1>4. \A q \in Proc : q # p => (Once(q)' <=> Once(q)) /\ \A s : Queued(q, s)' <=> Queued(q, s)
  BY <1>1, InboxSame
<1>5. ASSUME NEW q \in Proc, NEW s \in Req, q # p PROVE Placed(q, s)' /\ (Has(q, s)' <=> Has(q, s))
  <2>1. Placed(q, s) /\ (Has(q, s) => request[s] \notin {"new", "staging"} /\ owner[s] = q)
    BY DEF AccountInv, PlacedInv, Placed
  <2>2. reply'[q] = reply[q] /\ (Accepting(q, s)' <=> Accepting(q, s)) /\ bridged'[q] = bridged[q]
    BY <1>1, <1>5 DEF Accepting
  <2>3. Has(q, s) => request'[s] = request[s]
    BY <1>1, <1>2, <1>5, <2>1
  <2>. QED
    BY <1>1, <1>4, <1>5, <2>1, <2>2, <2>3, PlacedKept
<1>6. PlacedInv'
  <2>1. \A s \in Req : Placed(p, s)'
    BY <1>1, <1>3 DEF Placed
  <2>. QED
    BY <1>5, <2>1 DEF PlacedInv
<1>7. OnceInv'
  BY <1>1, <1>4, InboxEmptied DEF AccountInv, OnceInv
<1>8. HasInv'
  BY <1>1, <1>2, <1>5 DEF AccountInv, HasInv, TypeInv, TypeOK
<1>9. SpilledFileOwed'
  BY <1>1, VirtualNetAssumption DEF AccountInv, SpilledFileOwed, TypeInv, TypeOK
<1>. QED
  BY <1>6, <1>7, <1>8, <1>9 DEF AccountInv

(* A request stays accounted for in every step. *)
LEMMA AccountStep ==
  ASSUME TypeInv, AccountInv, [Next]_vars
  PROVE  AccountInv'
<1>1. ASSUME NEW r \in Req, StageFails(r) \/ \E t \in Port : NoServer(r, t) \/ RequestSpills(r, t)
      PROVE  AccountInv'
  BY <1>1, AccountUndelivered
<1>2. ASSUME NEW r \in Req, Staged(r) \/ \E t \in Port : RequestInline(r, t)
      PROVE  AccountInv'
  BY <1>2, AccountArrival
<1>3. ASSUME NEW p \in Proc,
             \/ \E t \in Port : SysListen(p, t) \/ SysClose(p, t)
             \/ Listening(p) \/ Drained(p) \/ DoNet(p) \/ Turn(p)
      PROVE  AccountInv'
  BY <1>3, AccountAside
<1>4. ASSUME NEW p \in Proc, NEW r \in Req, SysRespond(p, r) \/ SysRespondRest(p, r)
      PROVE  AccountInv'
  BY <1>4, AccountFrame
<1>5. ASSUME NEW p \in Proc, Responded(p) \/ SysAccept(p) \/ Accepted(p) \/ BridgeFails(p) \/ Finalize(p)
      PROVE  AccountInv'
  BY <1>5, AccountResponded, AccountAccept, AccountAccepted, AccountRefused, AccountEnd
<1>6. CASE UNCHANGED vars
  <2>1. UNCHANGED <<procs, owner, request, got, inbox, spilled, bridged, reply>>
    BY <1>6 DEF vars, kernel, guest
  <2>2. \A q \in Proc : /\ \A r \in Req : Accepting(q, r)' <=> Accepting(q, r)
                        /\ reply[q].op = "respond" => reply'[q].op = "respond"
    BY <2>1 DEF Accepting
  <2>. QED
    BY <2>1, <2>2, AccountSame
<1>. QED
  BY <1>1, <1>2, <1>3, <1>4, <1>5, <1>6 DEF Next, Host, Syscall, Returns

LEMMA InitAccount == Init => AccountInv
BY AcceptsDiffer
   DEF Init, AccountInv, OnceInv, Once, PlacedInv, Placed, HasInv, Has, Queued, Accepting, SpilledFileOwed

(* ... and every step keeps it. *)
LEMMA Inductive == Spec => []IInv
<1>1. Init => IInv
  BY InitIInv
<1>2. IInv /\ [Next]_vars => IInv'
  BY TypeStep, PortStep, SettledStep, WakeStep DEF IInv
<1>. QED
  BY <1>1, <1>2, PTL DEF Spec

(* The state stays well formed: a response never has more frames than it   *)
(* was announced with, and only requests with large bodies have files.     *)
THEOREM TypeCorrect == Spec => []TypeOK
<1>1. IInv => TypeOK
  BY DEF IInv, TypeInv
<1>. QED
  BY <1>1, Inductive, PTL

(* The kernel's port table and the guests' servers agree (handleNet and    *)
(* finalize against TCP.listen and TCP.close).                             *)
THEOREM PortsAgree == Spec => []PortTableAgrees
<1>1. IInv => PortTableAgrees
  BY DEF IInv, PortInv, PortTableAgrees, Grant
<1>. QED
  BY <1>1, Inductive, PTL

(* No two processes serve one port. *)
THEOREM OneServer == Spec => [](\A p, q \in Proc : p # q => serving[p] \intersect serving[q] = {})
<1>1. IInv => \A p, q \in Proc : p # q => serving[p] \intersect serving[q] = {}
  BY DEF IInv, TypeInv, TypeOK, PortInv
<1>. QED
  BY <1>1, Inductive, PTL

(* A request whose body crosses inline is settled when its server ends. *)
THEOREM InlineSettled == Spec => []InlineRequestSettledAtExit
<1>1. IInv => InlineRequestSettledAtExit
  BY DEF IInv
<1>. QED
  BY <1>1, Inductive, PTL

(* A server with a request in its inbox never sleeps without a wake. *)
THEOREM NudgeKept == Spec => []NoLostNudge
<1>1. IInv => NoLostNudge
  BY DEF IInv, TypeInv, TypeOK, WakeInv, NoLostNudge
<1>. QED
  BY <1>1, Inductive, PTL

(* A pending request is in one place of the live process that owes it, in  *)
(* its inbox, in the answer of an accept or with its http server, and no   *)
(* response is given up half sent; the body file of a request goes when    *)
(* the request is bridged or its server ends, so that a settled request    *)
(* that keeps one was refused by the bridge before it took the body        *)
(* (handleAccept, bridgeHttp, handleRespond, finalize).                    *)
THEOREM Accounted == Spec => []RequestsAccounted
<1>1. Init => AccountInv
  BY InitAccount
<1>2. IInv /\ AccountInv /\ [Next]_vars => AccountInv'
  BY AccountStep DEF IInv
<1>3. IInv /\ AccountInv => RequestsAccounted
  <2>1. SUFFICES ASSUME IInv, AccountInv PROVE RequestHeld
    BY DEF RequestsAccounted, AccountInv
  <2>2. ASSUME NEW p \in Proc, NEW r \in Req, Has(p, r) PROVE Held(p, r)
    <3>1. DOMAIN inbox[p] = 1..Len(inbox[p])
      BY <2>1 DEF IInv, TypeInv, TypeOK
    <3>. QED
      BY <2>2, <3>1 DEF Has, Held, Queued, Accepting, Accept
  <2>3. procs \subseteq Proc
    BY <2>1 DEF IInv, TypeInv, TypeOK
  <2>. QED
    BY <2>1, <2>2, <2>3 DEF RequestHeld, AccountInv, HasInv
<1>4. Spec => []IInv
  BY Inductive
<1>. QED
  BY <1>1, <1>2, <1>3, <1>4, PTL DEF Spec
=============================================================================
