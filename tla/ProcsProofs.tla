----------------------------- MODULE ProcsProofs -----------------------------
(***************************************************************************)
(* The process table for any number of processes.  No orphans: the cascade *)
(* of finalize enters every live descendant of what it completes, even     *)
(* when an exception unwinds it half way, because a process completes      *)
(* after everything below it and children are younger than their parents.  *)
(* Every end is told: the request of a process that waits is in one place, *)
(* a doorbell, a command that loads or a child, and what takes the child   *)
(* away answers it.                                                        *)
(***************************************************************************)
EXTENDS Procs, TLAPS

(* A child is created after its creator. *)
ParentOlder == \A c \in 1..nextPid - 1 : parent[c] < c

IInv == TypeOK /\ ParentOlder /\ NoOrphans

(***************************************************************************)
(* What the cascade reaches.                                               *)
(***************************************************************************)
(* The live children of what is reached are reached ... *)
LEMMA SubtreeClosed ==
  ASSUME TypeOK, NEW t, NEW c \in Live, parent[c] \in Subtree(t)
  PROVE  c \in Subtree(t)
<1>1. c \in Pid
  BY ProcsAssumption DEF Live, TypeOK, Pid
<1>. QED
  BY <1>1 DEF Subtree

(* ... nothing else is, but where it starts ... *)
LEMMA SubtreeLive ==
  ASSUME TypeOK, NEW t \in Pid
  PROVE  Subtree(t) \subseteq Live \union {t}
<1>1. Live \union {t} \in SUBSET Pid
  BY ProcsAssumption DEF Live, TypeOK, Pid
<1>. QED
  BY <1>1 DEF Subtree

(* ... and it is all as old as that or younger.                             *)
LEMMA SubtreeYounger ==
  ASSUME TypeOK, ParentOlder, NEW t \in Pid, NEW q \in Subtree(t)
  PROVE  t <= q
<1> DEFINE S == {u \in Pid : t <= u}
<1>1. S \in SUBSET Pid /\ t \in S
  BY DEF Pid
<1>2. ASSUME NEW c \in Live, parent[c] \in S
      PROVE  c \in S
  <2>1. c \in 1..nextPid - 1 /\ c \in Pid
    BY ProcsAssumption DEF Live, TypeOK, Pid
  <2>2. parent[c] < c /\ parent[c] \in Pid /\ t <= parent[c]
    BY <1>2, <2>1 DEF ParentOlder
  <2>. QED
    BY <2>1, <2>2 DEF Pid
<1> HIDE DEF S
<1>3. q \in S
  BY <1>1, <1>2 DEF Subtree
<1>. QED
  BY <1>3 DEF S

(* What completes was entered, and is part of the cascade.                  *)
LEMMA CompletedEntered ==
  ASSUME NEW p
  PROVE  Completed(p) \subseteq Entered(p) /\ Entered(p) \subseteq Subtree(p)
BY DEF Completed, Entered

(* A live child of a process that completes is entered.                     *)
LEMMA ChildOfCompleted ==
  ASSUME TypeOK, ParentOlder, NEW p \in Pid, NEW c \in Live, parent[c] \in Completed(p)
  PROVE  c \in Entered(p)
<1>1. c \in Subtree(p)
  BY SubtreeClosed, CompletedEntered
<1>2. CASE ~ Throws(p)
  BY <1>1, <1>2 DEF Entered
<1>3. CASE Throws(p)
  <2>1. PICK t \in First(Throwers(p)) : parent[c] = t \/ CompletesBefore(parent[c], t)
    BY <1>3 DEF Completed
  <2>2. t \in Pid
    BY <2>1 DEF First, Throwers, Subtree
  <2>3. c \in 1..nextPid - 1 /\ parent[c] < c
    BY DEF Live, TypeOK, ParentOlder
  <2>4. CASE parent[c] = t
    <3>1. t \in Subtree(t)
      BY <2>2 DEF Subtree
    <3>2. c \in Subtree(t) /\ c # t
      BY <2>3, <2>4, <3>1, SubtreeClosed
    <3>. QED
      BY <1>1, <1>3, <3>2, <2>1 DEF CompletesBefore, Entered, Completed
  <2>5. CASE parent[c] \in Subtree(t) \ {t}
    <3>1. c \in Subtree(t)
      BY <2>5, SubtreeClosed
    <3>2. t <= parent[c]
      BY <2>2, <2>5, SubtreeYounger
    <3>3. c # t
      <4>1. parent[c] \in Pid
        BY <2>5 DEF Subtree
      <4>. QED
        BY <2>2, <2>3, <3>2, <4>1 DEF Pid
    <3>. QED
      BY <1>1, <1>3, <3>1, <3>3, <2>1 DEF CompletesBefore, Entered, Completed
  <2>6. CASE \E a, b \in Live : /\ a < b /\ parent[a] = parent[b]
                                /\ parent[c] \in Subtree(a) /\ t \in Subtree(b)
    <3>1. PICK a \in Live, b \in Live : /\ a < b /\ parent[a] = parent[b]
                                        /\ parent[c] \in Subtree(a) /\ t \in Subtree(b)
      BY <2>6
    <3>2. c \in Subtree(a)
      BY <3>1, SubtreeClosed
    <3>3. CompletesBefore(c, t)
      BY <3>1, <3>2 DEF CompletesBefore
    <3>. QED
      BY <1>1, <1>3, <3>3, <2>1 DEF Entered, Completed
  <2>. QED
    BY <2>1, <2>4, <2>5, <2>6 DEF CompletesBefore
<1>. QED
  BY <1>2, <1>3

(***************************************************************************)
(* The steps.                                                              *)
(***************************************************************************)
(* The pids given out so far. *)
LEMMA PidsGivenOut ==
  ASSUME TypeOK
  PROVE  /\ nextPid \in Nat /\ nextPid >= 1 /\ MaxPid \in Nat
         /\ \A c \in 1..nextPid - 1 : c \in Pid /\ c \in Nat /\ c < nextPid
         /\ \A c \in procs : c \in 1..nextPid - 1
         /\ \A c \in Live : c \in 1..nextPid - 1
<1>1. nextPid \in 1..MaxPid + 1 /\ MaxPid \in Nat
  BY ProcsAssumption DEF TypeOK
<1>2. \A c \in 1..nextPid - 1 : c \in Pid /\ c \in Nat /\ c < nextPid
  BY <1>1 DEF Pid
<1>. QED
  BY <1>1, <1>2 DEF TypeOK, Live

(* The invariant holds at the start. *)
LEMMA InitIInv == Init => IInv
BY ProcsAssumption DEF Init, IInv, TypeOK, ParentOlder, NoOrphans, Live, Pid, Kind, Op, Kernel, NoKill, Message

(* What a created process changes. *)
LEMMA CreateTables ==
  ASSUME TypeOK, NEW p \in procs \union {Kernel}, NEW k \in Kind, CreateProcess(p, k)
  PROVE  /\ nextPid' \in 1..MaxPid + 1 /\ procs' \subseteq 1..nextPid' - 1
         /\ finalized' \subseteq 1..nextPid' - 1
         /\ parent' \in [Pid -> Pid \union {Kernel}] /\ kind' \in [Pid -> Kind]
         /\ big' \in [Pid -> BOOLEAN]
         /\ worker' \in [Pid -> {"none", "running", "parked", "exited", "gone"}]
<1>1. nextPid \in Pid /\ p \in Pid \union {Kernel} /\ nextPid \in Nat
  BY ProcsAssumption DEF CreateProcess, TypeOK, Pid, Kernel
<1>2. /\ nextPid' = nextPid + 1 /\ procs' = procs \union {nextPid} /\ finalized' = finalized
      /\ parent' = [parent EXCEPT ![nextPid] = p] /\ kind' = [kind EXCEPT ![nextPid] = k]
      /\ worker' = [worker EXCEPT ![nextPid] = "running"]
  BY DEF CreateProcess
<1>3. PICK b \in BOOLEAN : big' = [big EXCEPT ![nextPid] = b]
  BY ProcsAssumption DEF CreateProcess
<1>4. nextPid' \in 1..MaxPid + 1 /\ procs' \subseteq 1..nextPid' - 1 /\ finalized' \subseteq 1..nextPid' - 1
  BY ProcsAssumption, <1>1, <1>2 DEF TypeOK, Pid
<1>. QED
  BY <1>1, <1>2, <1>3, <1>4 DEF TypeOK

(* A created process has its creator, and is the youngest of all. *)
LEMMA CreateOrphans ==
  ASSUME TypeOK, ParentOlder, NoOrphans, NEW p, NEW k,
         p \in procs \/ (p = Kernel /\ k = "top"), CreateProcess(p, k)
  PROVE  ParentOlder' /\ NoOrphans'
<1>1. nextPid \in Pid /\ nextPid \in Nat /\ nextPid \notin procs /\ p < nextPid
  <2>1. nextPid <= MaxPid
    BY DEF CreateProcess
  <2>. QED
    BY <2>1, PidsGivenOut DEF Pid, Kernel
<1>2. /\ nextPid' = nextPid + 1 /\ procs' = procs \union {nextPid} /\ finalized' = finalized
      /\ parent' = [parent EXCEPT ![nextPid] = p] /\ kind' = [kind EXCEPT ![nextPid] = k]
  BY DEF CreateProcess
<1>3. /\ parent'[nextPid] = p /\ kind'[nextPid] = k
      /\ \A c \in Pid \ {nextPid} : parent'[c] = parent[c] /\ kind'[c] = kind[c]
  BY <1>1, <1>2 DEF TypeOK
<1>4. \A c \in 1..nextPid' - 1 : c = nextPid \/ (c \in 1..nextPid - 1 /\ c \in Pid \ {nextPid})
  <2>1. \A c \in 1..nextPid + 1 - 1 : c = nextPid \/ c \in 1..nextPid - 1
    BY <1>1
  <2>. QED
    BY <1>2, <2>1, PidsGivenOut
<1>5. ParentOlder'
  BY <1>1, <1>3, <1>4 DEF ParentOlder
<1>6. \A c \in procs : c \in Pid \ {nextPid}
  BY <1>1, PidsGivenOut
<1>7. NoOrphans'
  BY <1>2, <1>3, <1>6 DEF NoOrphans, Live
<1>. QED
  BY <1>5, <1>7

(* finalize leaves no live child of a process it takes out of the table.   *)
LEMMA FinalizeOrphans ==
  ASSUME TypeOK, ParentOlder, NoOrphans, NEW p \in Live, NEW queues, NEW errno, Finalize(p, queues, errno)
  PROVE  ParentOlder' /\ NoOrphans'
<1>1. p \in Pid
  BY PidsGivenOut
<1>2. /\ procs' = procs \ Completed(p) /\ finalized' = finalized \union Entered(p)
      /\ UNCHANGED <<nextPid, parent, kind>>
  BY DEF Finalize
<1>3. ParentOlder'
  BY <1>2 DEF ParentOlder
<1>4. ASSUME NEW c \in Live', kind'[c] # "top"
      PROVE  parent'[c] \in procs'
  <2>1. c \in Live /\ c \notin Entered(p) /\ kind[c] # "top"
    BY <1>2, <1>4 DEF Live
  <2>2. parent[c] \in procs /\ parent[c] \notin Completed(p)
    BY <1>1, <2>1, ChildOfCompleted DEF NoOrphans
  <2>. QED
    BY <1>2, <2>2
<1>. QED
  BY <1>3, <1>4 DEF NoOrphans

(* ... and keeps the state well formed.                                    *)
LEMMA FinalizeTypes ==
  ASSUME TypeOK, NEW p \in Live, NEW queues \in [Pid -> Seq(Message)], NEW errno, Finalize(p, queues, errno)
  PROVE  /\ nextPid' \in 1..MaxPid + 1 /\ procs' \subseteq 1..nextPid' - 1
         /\ finalized' \subseteq 1..nextPid' - 1
         /\ parent' \in [Pid -> Pid \union {Kernel}] /\ kind' \in [Pid -> Kind]
         /\ big' \in [Pid -> BOOLEAN]
         /\ worker' \in [Pid -> {"none", "running", "parked", "exited", "gone"}]
         /\ word' \in [Pid -> {"idle", "request", "answered"}]
         /\ op' \in [Pid -> Op] /\ arg' \in [Pid -> Pid \union {0}]
         /\ toKernel' \in [Pid -> Seq(Message)]
         /\ loading' \subseteq Pid \X {"spawn", "spawnAsync"} /\ told' \subseteq Pid
<1>1. p \in Pid /\ Live \subseteq 1..nextPid - 1
  BY PidsGivenOut
<1>2. Entered(p) \subseteq 1..nextPid - 1 /\ Completed(p) \subseteq Pid
  <2>1. Entered(p) \subseteq Live \union {p}
    BY <1>1, SubtreeLive, CompletedEntered
  <2>2. Completed(p) \subseteq Subtree(p)
    BY CompletedEntered
  <2>. QED
    BY <1>1, <2>1, <2>2 DEF Subtree
<1>3. /\ procs' \subseteq 1..nextPid' - 1 /\ finalized' \subseteq 1..nextPid' - 1
      /\ UNCHANGED <<nextPid, parent, kind, big, loading>>
  BY <1>2 DEF Finalize, TypeOK
<1>4. told' \subseteq Pid
  BY <1>2 DEF Finalize, TypeOK, Notified
<1>5. worker' \in [Pid -> {"none", "running", "parked", "exited", "gone"}]
  BY DEF Finalize, TypeOK
<1>6. toKernel' \in [Pid -> Seq(Message)]
  BY DEF Finalize
<1>7. word' \in [Pid -> {"idle", "request", "answered"}]
  BY DEF Finalize, TypeOK
<1>8. op' \in [Pid -> Op] /\ arg' \in [Pid -> Pid \union {0}]
  BY DEF Finalize, TypeOK, Op
<1>. QED
  BY <1>3, <1>4, <1>5, <1>6, <1>7, <1>8 DEF TypeOK

(* A message taken from a queue, and the rest of the queue. *)
LEMMA Taken ==
  ASSUME TypeOK, NEW p \in Pid, NEW type, Take(p, type)
  PROVE  /\ p \in procs /\ Rest(p) \in [Pid -> Seq(Message)]
         /\ type = "thread-terminate" => Head(toKernel[p]).child \in Pid
<1>1. toKernel[p] \in Seq(Message) /\ toKernel[p] # <<>>
  BY DEF Take, TypeOK
<1>2. Head(toKernel[p]) \in Message /\ Tail(toKernel[p]) \in Seq(Message)
  BY <1>1
<1>3. Head(toKernel[p]).type = type /\ p \in procs
  BY DEF Take
<1>4. Rest(p) \in [Pid -> Seq(Message)]
  BY <1>2 DEF Rest, TypeOK
<1>5. type = "thread-terminate" => Head(toKernel[p]).child \in Pid
  BY <1>2, <1>3 DEF Message
<1>. QED
  BY <1>3, <1>4, <1>5

(* The messages a guest posts are messages. *)
LEMMA MessageTypes ==
  /\ Doorbell \in Message /\ [type |-> "exit"] \in Message /\ [type |-> "thread-spawn"] \in Message
  /\ \A c \in Pid : [type |-> "thread-terminate", child |-> c] \in Message
BY DEF Message, Doorbell

(* Every step keeps the state well formed, ... *)
LEMMA TypeStep ==
  ASSUME TypeOK, [Next]_vars
  PROVE  TypeOK'
<1>1. ASSUME Start PROVE TypeOK'
  BY <1>1, CreateTables DEF Start, Kind, TypeOK, window
<1>2. ASSUME NEW p \in Pid, Stop(p) PROVE TypeOK'
  <2>1. p \in Live /\ toKernel \in [Pid -> Seq(Message)] /\ Finalize(p, toKernel, {})
    BY <1>2 DEF Stop, TypeOK
  <2>. QED
    BY <1>2, <2>1, FinalizeTypes DEF Stop, TypeOK
<1>3. ASSUME NEW p \in Pid, Return(p) PROVE TypeOK'
  BY <1>3 DEF Return, TypeOK, table, window, Op
<1>4. ASSUME NEW p \in Pid, PostThread(p) PROVE TypeOK'
  <2>1. PICK m \in Message : toKernel' = [toKernel EXCEPT ![p] = Append(@, m)]
    BY <1>4, MessageTypes DEF PostThread
  <2>2. toKernel' \in [Pid -> Seq(Message)]
    BY <2>1 DEF TypeOK
  <2>. QED
    BY <1>4, <2>2 DEF PostThread, TypeOK, table, window
<1>5. ASSUME NEW p \in Pid, Exit(p) PROVE TypeOK'
  <2>1. toKernel' \in [Pid -> Seq(Message)]
    BY <1>5, MessageTypes DEF Exit, TypeOK
  <2>. QED
    BY <1>5, <2>1 DEF Exit, TypeOK, table, window
<1>6. ASSUME NEW p \in Pid, NEW o \in {"spawn", "spawnAsync", "kill"}, NEW a \in Pid \union {0}, Call(p, o, a)
      PROVE TypeOK'
  <2>1. toKernel' \in [Pid -> Seq(Message)]
    BY <1>6, MessageTypes DEF Call, TypeOK
  <2>. QED
    BY <1>6, <2>1 DEF Call, TypeOK, table, Op
<1>7. ASSUME NEW p \in Pid, NEW o \in {"spawn", "spawnAsync"}, SpawnLoaded(p, o)
      PROVE TypeOK'
  <2>1. p \in procs /\ CreateProcess(p, IF o = "spawn" THEN "sync" ELSE "async")
    BY <1>7 DEF SpawnLoaded, ParentStillThere
  <2>2. (IF o = "spawn" THEN "sync" ELSE "async") \in Kind
    BY DEF Kind
  <2>3. word' \in [Pid -> {"idle", "request", "answered"}]
    BY <1>7 DEF SpawnLoaded, TypeOK
  <2>. QED
    BY <1>7, <2>1, <2>2, <2>3, CreateTables DEF SpawnLoaded, TypeOK
<1>8. ASSUME NEW p \in Pid, NEW o \in {"spawn", "spawnAsync"}, SpawnFails(p, o)
      PROVE TypeOK'
  BY <1>8 DEF SpawnFails, TypeOK, table
<1>9. ASSUME NEW p \in Pid, HandleSpawn(p) PROVE TypeOK'
  BY <1>9, Taken DEF HandleSpawn, TypeOK, table, window
<1>10. ASSUME NEW p \in Pid, HandleThreadSpawn(p) PROVE TypeOK'
  <2>1. p \in procs /\ CreateProcess(p, "thread") /\ Rest(p) \in [Pid -> Seq(Message)] /\ "thread" \in Kind
    BY <1>10, Taken DEF HandleThreadSpawn, Kind
  <2>. QED
    BY <1>10, <2>1, CreateTables DEF HandleThreadSpawn, TypeOK, window
<1>11. ASSUME NEW p \in Pid, HandleThreadSpawnFails(p) PROVE TypeOK'
  BY <1>11, Taken DEF HandleThreadSpawnFails, TypeOK, table, window
<1>12. ASSUME NEW p \in Pid, NEW c, Rest(p) \in [Pid -> Seq(Message)], FinalizeOnce(p, c),
              UNCHANGED <<killing, misanswered>>
       PROVE TypeOK'
  <2>1. CASE c \in Live
    <3>1. Finalize(c, Rest(p), {})
      BY <1>12, <2>1 DEF FinalizeOnce
    <3>. QED
      BY <1>12, <2>1, <3>1, FinalizeTypes DEF TypeOK
  <2>2. CASE c \notin Live
    BY <1>12, <2>2 DEF FinalizeOnce, TypeOK, table, window
  <2>. QED
    BY <2>1, <2>2
<1>13. ASSUME NEW p \in Pid, HandleExit(p) \/ HandleThreadTerminate(p) PROVE TypeOK'
  BY <1>12, <1>13, Taken DEF HandleExit, HandleThreadTerminate
<1>14. ASSUME NEW p \in Pid, HandleKill(p) PROVE TypeOK'
  <2>1. Rest(p) \in [Pid -> Seq(Message)]
    BY <1>14, Taken DEF HandleKill
  <2>2. arg[p] \in procs => arg[p] \in Pid
    BY PidsGivenOut
  <2>3. killing' \in {NoKill} \union [killer : Pid, target : Pid]
    BY <1>14, <2>2 DEF HandleKill
  <2>. QED
    BY <1>14, <2>1, <2>3 DEF HandleKill, TypeOK, table
<1>15. ASSUME KillDelivered PROVE TypeOK'
  <2>1. killing \in [killer : Pid, target : Pid] /\ killing' = NoKill
    BY <1>15 DEF KillDelivered, KernelIdle, TypeOK
  <2>2. CASE UNCHANGED <<table, big, worker, window, toKernel, loading, told, misanswered>>
    BY <2>1, <2>2 DEF TypeOK, table, window
  <2>3. CASE /\ killing.target \in Live
             /\ Finalize(killing.target, toKernel, StrayErrno(killing.killer, killing.target))
             /\ misanswered' = misanswered \union StrayErrno(killing.killer, killing.target)
    <3>1. misanswered' \subseteq Pid
      BY <2>1, <2>3 DEF StrayErrno, TypeOK
    <3>2. toKernel \in [Pid -> Seq(Message)]
      BY DEF TypeOK
    <3>. QED
      BY <2>1, <2>3, <3>1, <3>2, FinalizeTypes DEF TypeOK
  <2>. QED
    BY <1>15, <2>2, <2>3 DEF KillDelivered
<1>16. CASE UNCHANGED vars
  BY <1>16 DEF vars, TypeOK, table, window
<1>. QED
  BY <1>1, <1>2, <1>3, <1>4, <1>5, <1>6, <1>7, <1>8, <1>9, <1>10, <1>11, <1>13, <1>14, <1>15, <1>16 DEF Next

(* ... keeps children younger than their parents and leaves no orphan. *)
LEMMA OrphanStep ==
  ASSUME TypeOK, ParentOlder, NoOrphans, [Next]_vars
  PROVE  ParentOlder' /\ NoOrphans'
<1>1. ASSUME NEW p, NEW k, p \in procs \/ (p = Kernel /\ k = "top"), CreateProcess(p, k)
      PROVE  ParentOlder' /\ NoOrphans'
  BY <1>1, CreateOrphans
<1>2. CASE Start
  BY <1>1, <1>2 DEF Start
<1>3. ASSUME NEW p \in Pid, NEW o, SpawnLoaded(p, o)
      PROVE  ParentOlder' /\ NoOrphans'
  <2>1. p \in procs /\ CreateProcess(p, IF o = "spawn" THEN "sync" ELSE "async")
    BY <1>3 DEF SpawnLoaded, ParentStillThere
  <2>. QED
    BY <2>1, <1>1
<1>4. ASSUME NEW p \in Pid, HandleThreadSpawn(p)
      PROVE  ParentOlder' /\ NoOrphans'
  <2>1. p \in procs /\ CreateProcess(p, "thread")
    BY <1>4 DEF HandleThreadSpawn, Take
  <2>. QED
    BY <2>1, <1>1
<1>5. ASSUME UNCHANGED table
      PROVE  ParentOlder' /\ NoOrphans'
  BY <1>5 DEF table, ParentOlder, NoOrphans, Live
<1>6. ASSUME NEW p \in Live, NEW queues, NEW errno, Finalize(p, queues, errno)
      PROVE  ParentOlder' /\ NoOrphans'
  BY <1>6, FinalizeOrphans
<1>7. ASSUME NEW p \in Pid, Stop(p) \/ HandleExit(p) \/ HandleThreadTerminate(p)
      PROVE  ParentOlder' /\ NoOrphans'
  BY <1>5, <1>6, <1>7 DEF Stop, HandleExit, HandleThreadTerminate, FinalizeOnce
<1>8. CASE KillDelivered
  BY <1>5, <1>6, <1>8 DEF KillDelivered
<1>9. ASSUME NEW p \in Pid,
             \/ Return(p) \/ PostThread(p) \/ Exit(p) \/ HandleSpawn(p)
             \/ HandleThreadSpawnFails(p) \/ HandleKill(p)
             \/ \E o \in {"spawn", "spawnAsync"} : Call(p, o, 0) \/ SpawnFails(p, o)
             \/ \E q \in Pid : Call(p, "kill", q)
      PROVE  ParentOlder' /\ NoOrphans'
  BY <1>5, <1>9 DEF Return, PostThread, Exit, HandleSpawn, HandleThreadSpawnFails, HandleKill, Call, SpawnFails
<1>10. CASE UNCHANGED vars
  BY <1>5, <1>10 DEF vars
<1>. QED
  BY <1>2, <1>3, <1>4, <1>7, <1>8, <1>9, <1>10 DEF Next

(***************************************************************************)
(* Who waits for whom, when no result outgrows the window.                 *)
(***************************************************************************)
(* No exception: what finalize enters it also takes out of the table.      *)
Calm == finalized \intersect procs = {} /\ \A p \in Pid : ~big[p]

(* The request of a process is a doorbell on its way, a command that is    *)
(* loading, or, for a synchronous spawn, a child that lives.               *)
Bell(p, i) == i \in 1..Len(toKernel[p]) /\ toKernel[p][i].type = "syscall"
OneBell(p) == \A i, j \in 1..Len(toKernel[p]) : Bell(p, i) /\ Bell(p, j) => i = j
Rings(p) == \E i \in 1..Len(toKernel[p]) : Bell(p, i)
Spawning == {"spawn", "spawnAsync"}
Loads(p) == \E o \in Spawning : <<p, o>> \in loading
Child(p, c) == c \in procs /\ kind[c] = "sync" /\ parent[c] = p
Waits(p) == worker[p] = "parked" /\ word[p] = "request"

(* It is in one of the three places, and then its process waits; who waits *)
(* for a synchronous spawn has it in one.                                  *)
Placed(p) ==
  /\ OneBell(p)
  /\ Rings(p) => Waits(p) /\ ~Loads(p)
  /\ \A o \in Spawning : <<p, o>> \in loading => Waits(p) /\ op[p] = o
  /\ \A c \in Pid : Child(p, c) => Waits(p) /\ op[p] = "spawn" /\ ~Rings(p) /\ ~Loads(p)
  /\ \A c, d \in Pid : Child(p, c) /\ Child(p, d) => c = d
  /\ Waits(p) /\ op[p] = "spawn" => Rings(p) \/ Loads(p) \/ \E c \in Pid : Child(p, c)
PlacedInv == \A p \in procs : Placed(p)

(* Who is not in the table has no thread and no message under way, and was *)
(* there before if a command of its own is still loading.                  *)
Absent ==
  /\ \A p \in Pid \ procs : worker[p] \in {"none", "gone"} /\ toKernel[p] = <<>>
  /\ \A x \in loading : x[1] < nextPid

ToldInv == Calm /\ Absent /\ PlacedInv /\ ExitsReported

(* Nothing about a process has changed but what is not about its request.  *)
LEMMA PlacedKept ==
  ASSUME NEW p, Placed(p), OneBell(p)', Rings(p)' <=> Rings(p), Waits(p)' <=> Waits(p), op'[p] = op[p],
         \A o \in Spawning : <<p, o>> \in loading' <=> <<p, o>> \in loading,
         \A c \in Pid : Child(p, c)' <=> Child(p, c)
  PROVE  Placed(p)'
<1>1. Loads(p)' <=> Loads(p)
  BY DEF Loads
<1>. QED
  BY <1>1 DEF Placed

(* No request of it is anywhere.                                           *)
LEMMA PlacedIdle ==
  ASSUME NEW p, ~Rings(p)', ~Loads(p)', \A c \in Pid : ~Child(p, c)', ~(Waits(p)' /\ op'[p] = "spawn")
  PROVE  Placed(p)'
BY DEF Placed, OneBell, Rings, Loads

(* A queue that loses its head, not a doorbell.                            *)
LEMMA BellsTaken ==
  ASSUME TypeOK, NEW p \in Pid, toKernel[p] # <<>>, toKernel'[p] = Tail(toKernel[p])
  PROVE  /\ OneBell(p) => OneBell(p)'
         /\ Head(toKernel[p]).type # "syscall" => (Rings(p)' <=> Rings(p))
         /\ OneBell(p) /\ Head(toKernel[p]).type = "syscall" => Rings(p) /\ ~Rings(p)'
<1>. DEFINE q == toKernel[p]
            r == toKernel'[p]
<1>1. q \in Seq(Message) /\ r = Tail(q) /\ q # <<>>
  BY DEF TypeOK
<1>2. /\ Head(q) = q[1] /\ Len(q) \in Nat \ {0} /\ Len(r) = Len(q) - 1
      /\ \A i \in 1..Len(r) : r[i] = q[i + 1]
  BY <1>1
<1>. HIDE DEF q, r
<1>3. /\ \A i : Bell(p, i)' <=> i \in 1..Len(r) /\ Bell(p, i + 1)
      /\ \A i : Bell(p, i) <=> i \in 1..Len(q) /\ q[i].type = "syscall"
  BY <1>2 DEF Bell, q, r
<1>4. \A i \in 1..Len(q) : i = 1 \/ (i - 1 \in 1..Len(r) /\ (i - 1) + 1 = i)
  BY <1>2
<1>5. OneBell(p) => OneBell(p)'
  <2>1. \A i, j \in 1..Len(r) : i + 1 \in 1..Len(q) /\ (i + 1 = j + 1 => i = j)
    BY <1>2
  <2>. QED
    BY <1>3, <2>1 DEF OneBell, q, r
<1>6. Rings(p)' <=> \E i \in 1..Len(r) : Bell(p, i + 1)
  BY <1>3 DEF Rings, r
<1>7. Head(q).type # "syscall" => (Rings(p)' <=> Rings(p))
  <2>1. Rings(p)' => Rings(p)
    BY <1>2, <1>6 DEF Rings, q
  <2>2. ASSUME Rings(p), Head(q).type # "syscall" PROVE Rings(p)'
    <3>1. PICK i \in 1..Len(q) : Bell(p, i)
      BY <2>2 DEF Rings, q
    <3>2. i # 1
      BY <1>2, <1>3, <2>2, <3>1
    <3>. QED
      BY <1>4, <1>6, <3>1, <3>2
  <2>. QED
    BY <2>1, <2>2
<1>8. OneBell(p) /\ Head(q).type = "syscall" => Rings(p) /\ ~Rings(p)'
  <2>1. SUFFICES ASSUME OneBell(p), Head(q).type = "syscall" PROVE Rings(p) /\ ~Rings(p)'
    OBVIOUS
  <2>2. Bell(p, 1) /\ 1 \in 1..Len(q)
    BY <1>2, <1>3, <2>1
  <2>3. \A i \in 1..Len(r) : i + 1 # 1 /\ i + 1 \in 1..Len(q)
    BY <1>2
  <2>. QED
    BY <1>6, <2>1, <2>2, <2>3 DEF OneBell, Rings, q
<1>. QED
  BY <1>5, <1>7, <1>8 DEF q

(* A queue that gets a message.                                            *)
LEMMA BellsAdded ==
  ASSUME TypeOK, NEW p \in Pid, NEW m \in Message, toKernel'[p] = Append(toKernel[p], m)
  PROVE  /\ m.type # "syscall" => (OneBell(p) => OneBell(p)') /\ (Rings(p)' <=> Rings(p))
         /\ m.type = "syscall" /\ ~Rings(p) => OneBell(p)' /\ Rings(p)'
<1>. DEFINE q == toKernel[p]
            r == toKernel'[p]
<1>1. q \in Seq(Message) /\ r = Append(q, m)
  BY DEF TypeOK
<1>2. PICK n : n = Len(q)
  OBVIOUS
<1>3. /\ n \in Nat /\ Len(r) = n + 1 /\ r[n + 1] = m
      /\ \A i \in 1..n : r[i] = q[i]
  BY <1>1, <1>2
<1>. HIDE DEF q, r
<1>4. /\ \A i \in 1..Len(r) : i \in 1..n \/ i = n + 1
      /\ \A i \in 1..n : i \in 1..Len(r) /\ i # n + 1
      /\ n + 1 \in 1..Len(r)
  BY <1>3
<1>5. /\ \A i : Bell(p, i) <=> i \in 1..n /\ q[i].type = "syscall"
      /\ \A i : Bell(p, i)' <=> i \in 1..Len(r) /\ r[i].type = "syscall"
  BY <1>2 DEF Bell, q, r
<1>6. /\ \A i \in 1..n : Bell(p, i)' <=> Bell(p, i)
      /\ Bell(p, n + 1)' <=> m.type = "syscall"
  BY <1>3, <1>4, <1>5
<1>7. /\ OneBell(p) <=> \A i, j \in 1..n : Bell(p, i) /\ Bell(p, j) => i = j
      /\ OneBell(p)' <=> \A i, j \in 1..Len(r) : Bell(p, i)' /\ Bell(p, j)' => i = j
      /\ Rings(p) <=> \E i \in 1..n : Bell(p, i)
      /\ Rings(p)' <=> \E i \in 1..Len(r) : Bell(p, i)'
  BY <1>2 DEF OneBell, Rings, q, r
<1>8. m.type # "syscall" => (OneBell(p) => OneBell(p)') /\ (Rings(p)' <=> Rings(p))
  BY <1>4, <1>6, <1>7
<1>9. m.type = "syscall" /\ ~Rings(p) => OneBell(p)' /\ Rings(p)'
  BY <1>4, <1>6, <1>7
<1>. QED
  BY <1>8, <1>9

(* A process that is not touched.                                          *)
LEMMA PlacedAside ==
  ASSUME NEW r, Placed(r), worker'[r] = worker[r], word'[r] = word[r], op'[r] = op[r],
         toKernel'[r] = toKernel[r],
         \A o \in Spawning : <<r, o>> \in loading' <=> <<r, o>> \in loading,
         \A c \in Pid : Child(r, c)' <=> Child(r, c)
  PROVE  Placed(r)'
<1>1. OneBell(r) /\ (OneBell(r)' <=> OneBell(r))
  BY DEF OneBell, Bell, Placed
<1>2. Rings(r)' <=> Rings(r)
  BY DEF Rings, Bell
<1>3. Waits(r)' <=> Waits(r)
  BY DEF Waits
<1>. QED
  BY <1>1, <1>2, <1>3, PlacedKept

(* A step that is about nothing of this.                                   *)
LEMMA ToldSame ==
  ASSUME ToldInv, UNCHANGED <<table, big, worker, word, op, toKernel, loading, told>>
  PROVE  ToldInv'
<1>1. UNCHANGED <<nextPid, procs, finalized, parent, kind>>
  BY DEF table
<1>2. Calm' /\ Absent'
  BY <1>1 DEF ToldInv, Calm, Absent
<1>3. \A r \in procs' : Placed(r)'
  <2>1. SUFFICES ASSUME NEW r \in procs PROVE Placed(r)'
    BY <1>1
  <2>2. Placed(r) /\ \A c \in Pid : Child(r, c)' <=> Child(r, c)
    BY <1>1 DEF ToldInv, PlacedInv, Child
  <2>. QED
    BY <2>2, PlacedAside
<1>4. ExitsReported'
  BY <1>1 DEF ToldInv, ExitsReported, Live
<1>. QED
  BY <1>2, <1>3, <1>4 DEF ToldInv, PlacedInv

(* A step about the request of one process, which leaves the table alone.  *)
LEMMA Locally ==
  ASSUME TypeOK, ToldInv, UNCHANGED <<table, big, told>>, NEW p \in Pid,
         \A r \in Pid \ {p} : /\ worker'[r] = worker[r] /\ word'[r] = word[r] /\ op'[r] = op[r]
                              /\ toKernel'[r] = toKernel[r]
                              /\ \A o \in Spawning : <<r, o>> \in loading' <=> <<r, o>> \in loading,
         \A x \in loading' : x \in loading \/ x[1] = p,
         p \in procs => Placed(p)',
         p \notin procs => UNCHANGED <<worker, toKernel>> /\ loading' \subseteq loading
  PROVE  ToldInv'
<1>1. UNCHANGED <<nextPid, procs, finalized, parent, kind, big, told>>
  BY DEF table
<1>2. \A q \in procs : q \in Pid /\ q < nextPid
  BY PidsGivenOut
<1>3. Calm'
  BY <1>1 DEF ToldInv, Calm
<1>4. Absent'
  BY <1>1, <1>2 DEF ToldInv, Absent
<1>5. ASSUME NEW r \in procs PROVE Placed(r)'
  <2>1. CASE r = p
    BY <2>1
  <2>2. CASE r # p
    <3>1. \A c \in Pid : Child(r, c)' <=> Child(r, c)
      BY <1>1 DEF Child
    <3>2. r \in Pid \ {p} /\ Placed(r)
      BY <1>2, <2>2 DEF ToldInv, PlacedInv
    <3>. QED
      BY <3>1, <3>2, PlacedAside
  <2>. QED
    BY <2>1, <2>2
<1>6. ExitsReported'
  BY <1>1 DEF ToldInv, ExitsReported, Live
<1>. QED
  BY <1>1, <1>3, <1>4, <1>5, <1>6 DEF ToldInv, PlacedInv

(* What a created process changes for those who wait.                      *)
LEMMA Created ==
  ASSUME TypeOK, ParentOlder, NoOrphans, ToldInv, NEW p \in procs \union {Kernel}, NEW k \in Kind,
         CreateProcess(p, k), NEW n, n = nextPid
  PROVE  /\ n \in Pid /\ n \notin procs /\ n # p /\ n \in Nat
         /\ procs' = procs \union {n} /\ nextPid' = n + 1 /\ finalized' = finalized
         /\ \A r \in Pid \ {n} : worker'[r] = worker[r] /\ parent'[r] = parent[r] /\ kind'[r] = kind[r]
         /\ worker'[n] = "running" /\ parent'[n] = p /\ kind'[n] = k
         /\ \A r \in procs : \A c \in Pid :
              Child(r, c)' <=> Child(r, c) \/ (r = p /\ c = n /\ k = "sync")
         /\ \A c \in Pid : ~Child(n, c)'
<1>1. n \in Pid /\ n \notin procs /\ n # p /\ n \in Nat
  <2>1. nextPid <= MaxPid
    BY DEF CreateProcess
  <2>. QED
    BY <2>1, PidsGivenOut DEF Pid, Kernel
<1>2. /\ nextPid' = n + 1 /\ procs' = procs \union {n} /\ finalized' = finalized
      /\ parent' = [parent EXCEPT ![n] = p] /\ kind' = [kind EXCEPT ![n] = k]
      /\ worker' = [worker EXCEPT ![n] = "running"]
  BY DEF CreateProcess
<1>3. /\ parent'[n] = p /\ kind'[n] = k /\ worker'[n] = "running"
      /\ \A c \in Pid \ {n} : parent'[c] = parent[c] /\ kind'[c] = kind[c] /\ worker'[c] = worker[c]
  BY <1>1, <1>2 DEF TypeOK
<1>4. \A r \in procs : \A c \in Pid : Child(r, c)' <=> Child(r, c) \/ (r = p /\ c = n /\ k = "sync")
  BY <1>1, <1>2, <1>3 DEF Child
<1>5. ASSUME NEW c \in Pid, Child(n, c)' PROVE FALSE
  <2>1. c # n /\ c \in procs /\ kind[c] = "sync" /\ parent[c] = n
    BY <1>1, <1>2, <1>3, <1>5 DEF Child
  <2>2. c \in Live
    BY <2>1 DEF Live, ToldInv, Calm
  <2>. QED
    BY <1>1, <2>1, <2>2 DEF NoOrphans
<1>. QED
  BY <1>1, <1>2, <1>3, <1>4, <1>5

(* A step that creates a process, and is about its creator otherwise.      *)
LEMMA Creates ==
  ASSUME TypeOK, ParentOlder, NoOrphans, ToldInv, Outputs = {FALSE},
         NEW p \in procs \union {Kernel}, NEW k \in Kind, CreateProcess(p, k),
         \A r \in Pid \ {p} : /\ word'[r] = word[r] /\ op'[r] = op[r] /\ toKernel'[r] = toKernel[r]
                              /\ \A o \in Spawning : <<r, o>> \in loading' <=> <<r, o>> \in loading,
         loading' \subseteq loading, told' = told,
         p \in procs => Placed(p)'
  PROVE  ToldInv'
<1>. PICK n : n = nextPid
  OBVIOUS
<1>1. /\ n \in Pid /\ n \notin procs /\ n # p /\ n \in Nat
      /\ procs' = procs \union {n} /\ nextPid' = n + 1 /\ finalized' = finalized
      /\ \A r \in Pid \ {n} : worker'[r] = worker[r] /\ parent'[r] = parent[r] /\ kind'[r] = kind[r]
      /\ worker'[n] = "running" /\ parent'[n] = p /\ kind'[n] = k
      /\ \A r \in procs : \A c \in Pid :
           Child(r, c)' <=> Child(r, c) \/ (r = p /\ c = n /\ k = "sync")
      /\ \A c \in Pid : ~Child(n, c)'
  BY Created
<1>2. \A q \in procs : q \in Pid /\ q < n
  BY PidsGivenOut
<1>3. Calm'
  <2>1. n \notin finalized
    BY PidsGivenOut DEF TypeOK
  <2>2. big' = [big EXCEPT ![n] = FALSE]
    BY DEF CreateProcess
  <2>3. \A q \in Pid : ~big'[q]
    BY <2>2 DEF TypeOK, ToldInv, Calm
  <2>. QED
    BY <1>1, <2>1, <2>3 DEF ToldInv, Calm
<1>4. \A r \in Pid \ procs : worker[r] \in {"none", "gone"} /\ toKernel[r] = <<>>
  BY DEF ToldInv, Absent
<1>5. \A x \in loading' : x[1] < n /\ x[1] \in Nat
  BY DEF ToldInv, Absent, TypeOK, Pid
<1>6. Absent'
  <2>1. \A r \in Pid \ procs' : r # p /\ r # n /\ r \in Pid \ procs
    BY <1>1 DEF Pid, Kernel
  <2>2. \A x \in loading' : x[1] < nextPid'
    BY <1>1, <1>5
  <2>. QED
    BY <1>1, <1>4, <2>1, <2>2 DEF Absent
<1>7. Placed(n)'
  <2>1. toKernel'[n] = <<>> /\ ~Waits(n)'
    BY <1>1, <1>4 DEF Waits
  <2>2. ~Rings(n)'
    BY <2>1 DEF Rings, Bell
  <2>3. ~Loads(n)'
    <3>1. \A o \in Spawning : <<n, o>>[1] = n /\ ~(n < n)
      BY <1>1
    <3>. QED
      BY <1>5, <3>1 DEF Loads
  <2>. QED
    BY <1>1, <2>1, <2>2, <2>3, PlacedIdle
<1>8. ASSUME NEW r \in procs, r # p PROVE Placed(r)'
  <2>1. r \in Pid \ {p} /\ r \in Pid \ {n} /\ Placed(r)
    BY <1>1, <1>2, <1>8 DEF ToldInv, PlacedInv
  <2>2. \A c \in Pid : Child(r, c)' <=> Child(r, c)
    BY <1>1, <1>8
  <2>. QED
    BY <1>1, <2>1, <2>2, PlacedAside
<1>9. PlacedInv'
  BY <1>1, <1>7, <1>8 DEF PlacedInv
<1>10. ExitsReported'
  <2>1. SUFFICES ASSUME NEW c \in (1..nextPid' - 1) \ procs', kind'[c] \in {"async", "thread"},
                        parent'[c] \in Live'
                 PROVE  c \in told'
    BY DEF ExitsReported
  <2>2. c \in (1..n - 1) \ procs /\ c \in Pid \ {n}
    BY <1>1, PidsGivenOut DEF Pid
  <2>3. parent[c] < c
    BY <2>2 DEF ParentOlder
  <2>4. parent[c] # n /\ parent[c] \in Live
    BY <1>1, <2>1, <2>2, <2>3 DEF Live, Pid
  <2>. QED
    BY <1>1, <2>1, <2>2, <2>4 DEF ToldInv, ExitsReported
<1>. QED
  BY <1>3, <1>6, <1>9, <1>10 DEF ToldInv

(* The cascade when nothing throws: all it reaches is taken out of the     *)
(* table, and each parent that waits for one of them is answered.          *)
LEMMA CalmCascade ==
  ASSUME TypeOK, Calm, NEW p \in Live, NEW queues, Finalize(p, queues, {}), NEW G, G = Subtree(p)
  PROVE  /\ G \subseteq Live /\ G \subseteq Pid
         /\ \A c \in Live : parent[c] \in G => c \in G
         /\ procs' = procs \ G /\ finalized' = finalized \union G
         /\ worker' = [q \in Pid |-> IF q \in G THEN "gone" ELSE worker[q]]
         /\ toKernel' = [q \in Pid |-> IF q \in G THEN <<>> ELSE queues[q]]
         /\ word' = [q \in Pid |-> IF q \in G THEN "idle"
                                   ELSE IF \E c \in G : kind[c] = "sync" /\ parent[c] = q
                                        THEN "answered" ELSE word[q]]
         /\ op' = [q \in Pid |-> IF q \in G THEN "none" ELSE op[q]]
         /\ told' = told \union {c \in G : kind[c] \in {"async", "thread"}}
         /\ UNCHANGED <<nextPid, parent, kind, big, loading>>
<1>1. p \in Pid
  BY PidsGivenOut
<1>2. G \subseteq Pid /\ G \subseteq Live
  BY <1>1, SubtreeLive DEF Subtree
<1>3. \A c \in Live : parent[c] \in G => c \in G
  BY SubtreeClosed
<1>4. ~Throws(p)
  BY <1>2 DEF Calm, Throws, Throwers
<1>5. Completed(p) = G /\ Entered(p) = G /\ Notified(p) = G
  BY <1>4 DEF Completed, Entered, Notified
<1>6. /\ procs' = procs \ G /\ finalized' = finalized \union G
      /\ worker' = [q \in Pid |-> IF q \in G THEN "gone" ELSE worker[q]]
      /\ toKernel' = [q \in Pid |-> IF q \in G THEN <<>> ELSE queues[q]]
      /\ op' = [q \in Pid |-> IF q \in G THEN "none" ELSE op[q]]
      /\ told' = told \union {c \in G : kind[c] \in {"async", "thread"}}
      /\ UNCHANGED <<nextPid, parent, kind, big, loading>>
  BY <1>5 DEF Finalize
<1>. DEFINE A == {} \union {parent[c] : c \in {d \in G : kind[d] = "sync"}}
<1>7. word' = [q \in Pid |-> IF q \in G THEN "idle" ELSE IF q \in A THEN "answered" ELSE word[q]]
  BY <1>5 DEF Finalize
<1>8. \A q : q \in A <=> \E c \in G : kind[c] = "sync" /\ parent[c] = q
  OBVIOUS
<1>. HIDE DEF A
<1>9. word' = [q \in Pid |-> IF q \in G THEN "idle"
                             ELSE IF \E c \in G : kind[c] = "sync" /\ parent[c] = q
                                  THEN "answered" ELSE word[q]]
  BY <1>7, <1>8
<1>. QED
  BY <1>2, <1>3, <1>6, <1>9

(* A step that finalizes: who waits for what it takes away is answered.    *)
LEMMA Finalizes ==
  ASSUME TypeOK, ToldInv, NEW p \in Live, NEW queues \in [Pid -> Seq(Message)], Finalize(p, queues, {}),
         \A r \in procs : \/ queues[r] = toKernel[r]
                          \/ /\ toKernel[r] # <<>> /\ Head(toKernel[r]).type # "syscall"
                             /\ queues[r] = Tail(toKernel[r]),
         \A r \in Pid \ procs : queues[r] = toKernel[r]
  PROVE  ToldInv'
<1>. PICK G : G = Subtree(p)
  OBVIOUS
<1>0. Calm
  BY DEF ToldInv
<1>1. /\ G \subseteq Live /\ G \subseteq Pid
      /\ procs' = procs \ G /\ finalized' = finalized \union G
      /\ worker' = [q \in Pid |-> IF q \in G THEN "gone" ELSE worker[q]]
      /\ toKernel' = [q \in Pid |-> IF q \in G THEN <<>> ELSE queues[q]]
      /\ word' = [q \in Pid |-> IF q \in G THEN "idle"
                                ELSE IF \E c \in G : kind[c] = "sync" /\ parent[c] = q
                                     THEN "answered" ELSE word[q]]
      /\ op' = [q \in Pid |-> IF q \in G THEN "none" ELSE op[q]]
      /\ told' = told \union {c \in G : kind[c] \in {"async", "thread"}}
      /\ UNCHANGED <<nextPid, parent, kind, big, loading>>
  BY <1>0, CalmCascade
<1>2. \A q \in procs : q \in Pid /\ q < nextPid
  BY PidsGivenOut
<1>3. Live = procs /\ Calm'
  BY <1>1 DEF ToldInv, Calm, Live
<1>4. Absent'
  BY <1>1 DEF ToldInv, Absent
<1>5. ASSUME NEW r \in procs, r \notin G PROVE Placed(r)'
  <2>1. r \in Pid /\ Placed(r)
    BY <1>2, <1>5 DEF ToldInv, PlacedInv
  <2>2. /\ worker'[r] = worker[r] /\ toKernel'[r] = queues[r] /\ op'[r] = op[r]
        /\ word'[r] = IF \E c \in G : kind[c] = "sync" /\ parent[c] = r THEN "answered" ELSE word[r]
    BY <1>1, <1>5, <2>1
  <2>3. OneBell(r)' /\ (Rings(r)' <=> Rings(r))
    <3>1. CASE toKernel'[r] = toKernel[r]
      BY <2>1, <3>1 DEF Placed, OneBell, Rings, Bell
    <3>2. CASE /\ toKernel[r] # <<>> /\ Head(toKernel[r]).type # "syscall"
               /\ toKernel'[r] = Tail(toKernel[r])
      BY <2>1, <3>2, BellsTaken DEF Placed
    <3>. QED
      BY <1>5, <2>2, <3>1, <3>2
  <2>4. \A c \in Pid : Child(r, c)' <=> Child(r, c) /\ c \notin G
    BY <1>1 DEF Child
  <2>5. \A c \in G : c \in Pid /\ (kind[c] = "sync" /\ parent[c] = r <=> Child(r, c))
    BY <1>1 DEF Child, Live
  <2>6. CASE \E c \in G : Child(r, c)
    <3>1. PICK c \in G : Child(r, c)
      BY <2>6
    <3>2. ~Waits(r)'
      BY <2>2, <2>5, <3>1 DEF Waits
    <3>3. ~Rings(r)' /\ ~Loads(r)'
      <4>1. ~Rings(r) /\ ~Loads(r)
        BY <2>1, <2>5, <3>1 DEF Placed
      <4>. QED
        BY <1>1, <2>3, <4>1 DEF Loads
    <3>4. \A d \in Pid : ~Child(r, d)'
      <4>1. \A d \in Pid : Child(r, d) => d = c
        BY <2>1, <2>5, <3>1 DEF Placed
      <4>. QED
        BY <2>4, <3>1, <4>1
    <3>. QED
      BY <3>2, <3>3, <3>4, PlacedIdle
  <2>7. CASE \A c \in G : ~Child(r, c)
    <3>1. word'[r] = word[r]
      BY <2>2, <2>5, <2>7
    <3>2. Waits(r)' <=> Waits(r)
      BY <2>2, <3>1 DEF Waits
    <3>3. \A c \in Pid : Child(r, c)' <=> Child(r, c)
      BY <2>4, <2>7
    <3>. QED
      BY <1>1, <2>1, <2>2, <2>3, <3>2, <3>3, PlacedKept
  <2>. QED
    BY <2>6, <2>7
<1>6. PlacedInv'
  BY <1>1, <1>5 DEF PlacedInv
<1>7. ExitsReported'
  BY <1>1 DEF ToldInv, ExitsReported, Live
<1>. QED
  BY <1>3, <1>4, <1>6, <1>7 DEF ToldInv

(* What a handler finds and leaves of the queues. *)
LEMMA TakenQueue ==
  ASSUME TypeOK, NEW p \in Pid, NEW type, Take(p, type)
  PROVE  /\ p \in procs /\ toKernel[p] # <<>> /\ Head(toKernel[p]).type = type
         /\ Rest(p)[p] = Tail(toKernel[p])
         /\ \A r \in Pid \ {p} : Rest(p)[r] = toKernel[r]
BY DEF Take, Rest, TypeOK

(* The guests' steps. *)
LEMMA GuestTold ==
  ASSUME TypeOK, ToldInv, NEW p \in Pid,
         \/ \E o \in {"spawn", "spawnAsync", "kill"}, a \in Pid \union {0} : Call(p, o, a)
         \/ Return(p) \/ PostThread(p) \/ Exit(p)
  PROVE  ToldInv'
<1>1. UNCHANGED <<table, big, told, loading>>
  BY DEF Call, Return, PostThread, Exit
<1>2. worker[p] \in {"running", "parked"}
  BY DEF Call, Return, PostThread, Exit, Running
<1>3. p \in procs
  BY <1>2 DEF ToldInv, Absent
<1>4. Placed(p)
  BY <1>3 DEF ToldInv, PlacedInv
<1>5. ~Waits(p)
  BY DEF Waits, Call, Return, PostThread, Exit, Running
<1>6. ~Rings(p) /\ ~Loads(p) /\ \A c \in Pid : ~Child(p, c)
  BY <1>4, <1>5 DEF Placed, Loads
<1>7. /\ ~Loads(p)' /\ \A c \in Pid : ~Child(p, c)'
      /\ \A r \in Pid : \A o \in Spawning : <<r, o>> \in loading' <=> <<r, o>> \in loading
      /\ \A x \in loading' : x \in loading
  BY <1>1, <1>6 DEF Loads, Child, table
<1>8. \A r \in Pid \ {p} : /\ worker'[r] = worker[r] /\ word'[r] = word[r] /\ op'[r] = op[r]
                           /\ toKernel'[r] = toKernel[r]
  <2>1. ASSUME NEW r \in Pid, r # p PROVE worker'[r] = worker[r]
    BY <2>1 DEF Call, Return, PostThread, Exit, TypeOK
  <2>2. ASSUME NEW r \in Pid, r # p PROVE word'[r] = word[r] /\ op'[r] = op[r]
    BY <2>2 DEF Call, Return, PostThread, Exit, TypeOK, window
  <2>3. ASSUME NEW r \in Pid, r # p PROVE toKernel'[r] = toKernel[r]
    BY <2>3 DEF Call, Return, PostThread, Exit, TypeOK
  <2>. QED
    BY <2>1, <2>2, <2>3
<1>9. ASSUME Placed(p)' PROVE ToldInv'
  BY <1>1, <1>3, <1>7, <1>8, <1>9, Locally
<1>10. ASSUME NEW o, NEW a, Call(p, o, a) PROVE Placed(p)'
  <2>1. toKernel'[p] = Append(toKernel[p], Doorbell) /\ worker'[p] = "parked" /\ word'[p] = "request"
    BY <1>10 DEF Call, TypeOK
  <2>2. OneBell(p)' /\ Rings(p)'
    BY <1>6, <2>1, BellsAdded, MessageTypes DEF Doorbell
  <2>3. Waits(p)'
    BY <2>1 DEF Waits
  <2>. QED
    BY <1>7, <2>2, <2>3 DEF Placed, Loads
<1>11. ASSUME Return(p) PROVE Placed(p)'
  <2>1. worker'[p] = "running" /\ toKernel' = toKernel
    BY <1>11 DEF Return, TypeOK
  <2>2. ~Waits(p)' /\ ~Rings(p)'
    BY <1>6, <2>1 DEF Waits, Rings, Bell
  <2>. QED
    BY <1>7, <2>2, PlacedIdle
<1>12. ASSUME PostThread(p) \/ Exit(p) PROVE Placed(p)'
  <2>1. PICK m \in Message : m.type # "syscall" /\ toKernel'[p] = Append(toKernel[p], m)
    <3>1. ASSUME NEW m \in Message, toKernel' = [toKernel EXCEPT ![p] = Append(@, m)]
          PROVE  toKernel'[p] = Append(toKernel[p], m)
      BY <3>1 DEF TypeOK
    <3>. QED
      BY <1>12, <3>1, MessageTypes DEF PostThread, Exit
  <2>2. ~Rings(p)'
    BY <1>6, <2>1, BellsAdded
  <2>3. worker'[p] # "parked"
    BY <1>12 DEF PostThread, Exit, Running, TypeOK
  <2>4. ~Waits(p)'
    BY <2>3 DEF Waits
  <2>. QED
    BY <1>7, <2>2, <2>4, PlacedIdle
<1>. QED
  BY <1>9, <1>10, <1>11, <1>12

(* The handlers that leave the table alone. *)
LEMMA HandlerTold ==
  ASSUME TypeOK, ToldInv, NEW p \in Pid,
         HandleSpawn(p) \/ HandleThreadSpawnFails(p) \/ HandleKill(p)
  PROVE  ToldInv'
<1>1. UNCHANGED <<table, big, told, worker, op>> /\ toKernel' = Rest(p)
  BY DEF HandleSpawn, HandleThreadSpawnFails, HandleKill, window
<1>2. /\ p \in procs /\ toKernel[p] # <<>> /\ toKernel'[p] = Tail(toKernel[p])
      /\ \A r \in Pid \ {p} : toKernel'[r] = toKernel[r]
  BY <1>1, TakenQueue DEF HandleSpawn, HandleThreadSpawnFails, HandleKill
<1>3. Placed(p)
  BY <1>2 DEF ToldInv, PlacedInv
<1>4. \A c \in Pid : Child(p, c)' <=> Child(p, c)
  BY <1>1 DEF Child, table
<1>5. \A r \in Pid \ {p} : word'[r] = word[r]
  BY DEF HandleSpawn, HandleThreadSpawnFails, HandleKill, window, TypeOK
<1>6. /\ \A r \in Pid \ {p} : \A o \in Spawning : <<r, o>> \in loading' <=> <<r, o>> \in loading
      /\ \A x \in loading' : x \in loading \/ x[1] = p
  BY DEF HandleSpawn, HandleThreadSpawnFails, HandleKill
<1>7. ASSUME Placed(p)' PROVE ToldInv'
  BY <1>1, <1>2, <1>5, <1>6, <1>7, Locally
<1>8. ASSUME HandleSpawn(p) \/ HandleKill(p)
      PROVE  Waits(p) /\ ~Loads(p) /\ OneBell(p)' /\ ~Rings(p)' /\ \A c \in Pid : ~Child(p, c)'
  <2>1. Head(toKernel[p]).type = "syscall"
    BY <1>8, TakenQueue DEF HandleSpawn, HandleKill
  <2>. QED
    BY <1>2, <1>3, <1>4, <2>1, BellsTaken DEF Placed
<1>9. ASSUME HandleSpawn(p) PROVE Placed(p)'
  <2>1. /\ loading' = loading \union {<<p, op[p]>>} /\ op[p] \in Spawning /\ UNCHANGED <<worker, word, op>>
    BY <1>9 DEF HandleSpawn, window, Spawning
  <2>2. Waits(p)' /\ Loads(p)' /\ \A o \in Spawning : <<p, o>> \in loading' => op'[p] = o
    BY <1>8, <1>9, <2>1 DEF Waits, Loads
  <2>. QED
    BY <1>8, <1>9, <2>2 DEF Placed
<1>10. ASSUME HandleKill(p) PROVE Placed(p)'
  <2>1. word'[p] = "answered" /\ loading' = loading
    BY <1>10 DEF HandleKill, TypeOK
  <2>2. ~Waits(p)' /\ ~Loads(p)'
    BY <1>8, <1>10, <2>1 DEF Waits, Loads
  <2>. QED
    BY <1>8, <1>10, <2>2, PlacedIdle
<1>11. ASSUME HandleThreadSpawnFails(p) PROVE Placed(p)'
  <2>1. Head(toKernel[p]).type # "syscall" /\ UNCHANGED <<worker, word, op, loading>>
    BY <1>11, TakenQueue DEF HandleThreadSpawnFails, window
  <2>2. OneBell(p)' /\ (Rings(p)' <=> Rings(p))
    BY <1>2, <1>3, <2>1, BellsTaken DEF Placed
  <2>3. Waits(p)' <=> Waits(p)
    BY <2>1 DEF Waits
  <2>. QED
    BY <1>3, <1>4, <2>1, <2>2, <2>3, PlacedKept
<1>. QED
  BY <1>7, <1>9, <1>10, <1>11

(* A command that was loading: its process, still there, waits for it.     *)
LEMMA LoadedWaits ==
  ASSUME TypeOK, ToldInv, NEW p \in procs, NEW o \in Spawning, <<p, o>> \in loading,
         loading' = loading \ {<<p, o>>}
  PROVE  /\ p \in Pid /\ Placed(p) /\ Waits(p) /\ op[p] = o /\ ~Rings(p)
         /\ ~Loads(p)' /\ \A c \in Pid : ~Child(p, c)
<1>1. p \in Pid /\ Placed(p)
  BY PidsGivenOut DEF ToldInv, PlacedInv
<1>2. Waits(p) /\ op[p] = o /\ ~Rings(p) /\ \A c \in Pid : ~Child(p, c)
  BY <1>1 DEF Placed, Loads
<1>3. \A u \in Spawning : <<p, u>> \in loading => u = o
  BY <1>1, <1>2 DEF Placed
<1>. QED
  BY <1>1, <1>2, <1>3 DEF Loads

LEMMA LoadTold ==
  ASSUME TypeOK, ParentOlder, NoOrphans, ToldInv, Outputs = {FALSE},
         NEW p \in Pid, NEW o \in Spawning, SpawnLoaded(p, o) \/ SpawnFails(p, o)
  PROVE  ToldInv'
<1>1. /\ <<p, o>> \in loading /\ loading' = loading \ {<<p, o>>}
      /\ UNCHANGED <<op, toKernel, told>>
  BY DEF SpawnLoaded, SpawnFails, CreateProcess
<1>2. /\ \A r \in Pid \ {p} : \A u \in Spawning : <<r, u>> \in loading' <=> <<r, u>> \in loading
      /\ loading' \subseteq loading
  BY <1>1
<1>3. \A r \in Pid \ {p} : word'[r] = word[r]
  BY DEF SpawnLoaded, SpawnFails, TypeOK
<1>4. Rings(p)' <=> Rings(p)
  BY <1>1 DEF Rings, Bell
<1>5. ASSUME SpawnFails(p, o) PROVE ToldInv'
  <2>1. UNCHANGED <<table, big, worker>>
    BY <1>5 DEF SpawnFails
  <2>2. ASSUME p \in procs PROVE Placed(p)'
    <3>1. word'[p] = "answered"
      BY <1>5, <2>2 DEF SpawnFails, TypeOK
    <3>2. ~Waits(p)' /\ \A c \in Pid : Child(p, c)' <=> Child(p, c)
      BY <2>1, <3>1 DEF Waits, Child, table
    <3>3. ~Rings(p)' /\ ~Loads(p)' /\ \A c \in Pid : ~Child(p, c)
      BY <1>1, <1>4, <2>2, LoadedWaits
    <3>. QED
      BY <3>2, <3>3, PlacedIdle
  <2>. QED
    BY <1>1, <1>2, <1>3, <2>1, <2>2, Locally
<1>6. ASSUME SpawnLoaded(p, o) PROVE ToldInv'
  <2>. DEFINE k == IF o = "spawn" THEN "sync" ELSE "async"
  <2>. PICK n : n = nextPid
    OBVIOUS
  <2>1. p \in procs /\ CreateProcess(p, k) /\ k \in Kind /\ (k = "sync" <=> o = "spawn")
    BY <1>6 DEF SpawnLoaded, ParentStillThere, Kind, Spawning
  <2>. HIDE DEF k
  <2>2. /\ p # n /\ n \in Pid /\ worker'[p] = worker[p]
        /\ \A c \in Pid : Child(p, c)' <=> Child(p, c) \/ (c = n /\ k = "sync")
    BY <2>1, Created
  <2>3. Waits(p) /\ op[p] = o /\ ~Rings(p) /\ ~Loads(p)' /\ \A c \in Pid : ~Child(p, c)
    BY <1>1, <2>1, LoadedWaits
  <2>4. CASE o = "spawn"
    <3>1. word' = word
      BY <1>6, <2>4 DEF SpawnLoaded
    <3>2. Waits(p)' /\ op'[p] = "spawn" /\ ~Rings(p)'
      BY <1>1, <1>4, <2>2, <2>3, <2>4, <3>1 DEF Waits
    <3>3. \A c \in Pid : Child(p, c)' <=> c = n
      BY <2>1, <2>2, <2>3, <2>4
    <3>4. Placed(p)'
      BY <2>2, <2>3, <3>2, <3>3 DEF Placed, OneBell, Rings, Loads
    <3>. QED
      BY <1>1, <1>2, <1>3, <2>1, <3>4, Creates
  <2>5. CASE o = "spawnAsync"
    <3>1. word'[p] = "answered"
      BY <1>6, <2>5 DEF SpawnLoaded, TypeOK
    <3>2. ~Waits(p)' /\ \A c \in Pid : ~Child(p, c)'
      BY <2>1, <2>2, <2>3, <2>5, <3>1 DEF Waits
    <3>3. Placed(p)'
      BY <1>4, <2>3, <3>2, PlacedIdle
    <3>. QED
      BY <1>1, <1>2, <1>3, <2>1, <3>3, Creates
  <2>. QED
    BY <2>4, <2>5 DEF Spawning
<1>. QED
  BY <1>5, <1>6

(* The other creators. *)
LEMMA CreatorTold ==
  ASSUME TypeOK, ParentOlder, NoOrphans, ToldInv, Outputs = {FALSE},
         Start \/ \E p \in Pid : HandleThreadSpawn(p)
  PROVE  ToldInv'
<1>1. ASSUME Start PROVE ToldInv'
  <2>1. /\ CreateProcess(Kernel, "top") /\ Kernel \in procs \union {Kernel} /\ "top" \in Kind
        /\ UNCHANGED <<word, op, toKernel, loading, told>>
    BY <1>1 DEF Start, window, Kind
  <2>2. Kernel \notin procs
    BY PidsGivenOut DEF Pid, Kernel
  <2>. QED
    BY <2>1, <2>2, Creates
<1>2. ASSUME NEW p \in Pid, HandleThreadSpawn(p) PROVE ToldInv'
  <2>. PICK n : n = nextPid
    OBVIOUS
  <2>1. /\ CreateProcess(p, "thread") /\ p \in procs /\ "thread" \in Kind
        /\ toKernel' = Rest(p) /\ UNCHANGED <<word, op, loading, told>>
    BY <1>2 DEF HandleThreadSpawn, Take, window, Kind
  <2>2. /\ toKernel[p] # <<>> /\ Head(toKernel[p]).type # "syscall" /\ toKernel'[p] = Tail(toKernel[p])
        /\ \A r \in Pid \ {p} : toKernel'[r] = toKernel[r]
    BY <1>2, <2>1, TakenQueue DEF HandleThreadSpawn
  <2>3. Placed(p)
    BY <2>1 DEF ToldInv, PlacedInv
  <2>4. OneBell(p)' /\ (Rings(p)' <=> Rings(p))
    BY <2>2, <2>3, BellsTaken DEF Placed
  <2>5. worker'[p] = worker[p] /\ \A c \in Pid : Child(p, c)' <=> Child(p, c)
    <3>1. /\ p # n /\ \A r \in Pid \ {n} : worker'[r] = worker[r]
          /\ \A c \in Pid : Child(p, c)' <=> Child(p, c) \/ (p = p /\ c = n /\ "thread" = "sync")
      BY <2>1, Created
    <3>. QED
      BY <3>1
  <2>6. Waits(p)' <=> Waits(p)
    BY <2>1, <2>5 DEF Waits
  <2>7. Placed(p)'
    BY <2>1, <2>3, <2>4, <2>5, <2>6, PlacedKept
  <2>. QED
    BY <2>1, <2>2, <2>7, Creates
<1>. QED
  BY <1>1, <1>2

(* A kill that does not throw leaves its killer alone. *)
LEMMA NothingStrays ==
  ASSUME TypeOK, Calm, NEW p, NEW q \in Live
  PROVE  StrayErrno(p, q) = {}
<1>1. q \in Pid
  BY PidsGivenOut
<1>2. ~ Throws(q)
  BY <1>1 DEF Calm, Throws, Throwers, Subtree
<1>. QED
  BY <1>2 DEF StrayErrno

(* finalize, from wherever it is called. *)
LEMMA FinalizeTold ==
  ASSUME TypeOK, ToldInv,
         KillDelivered \/ \E p \in Pid : Stop(p) \/ HandleExit(p) \/ HandleThreadTerminate(p)
  PROVE  ToldInv'
<1>1. toKernel \in [Pid -> Seq(Message)]
  BY DEF TypeOK
<1>2. ASSUME NEW c \in Live, Finalize(c, toKernel, {}) PROVE ToldInv'
  BY <1>1, <1>2, Finalizes
<1>3. ASSUME NEW p \in Pid, NEW c, NEW type, type # "syscall", Take(p, type), FinalizeOnce(p, c)
      PROVE  ToldInv'
  <2>1. /\ p \in procs /\ toKernel[p] # <<>> /\ Head(toKernel[p]).type # "syscall"
        /\ Rest(p)[p] = Tail(toKernel[p]) /\ \A r \in Pid \ {p} : Rest(p)[r] = toKernel[r]
        /\ Rest(p) \in [Pid -> Seq(Message)]
    BY <1>3, TakenQueue, Taken
  <2>2. CASE c \in Live
    <3>1. Finalize(c, Rest(p), {})
      BY <1>3, <2>2 DEF FinalizeOnce
    <3>2. \A r \in procs : r \in Pid
      BY PidsGivenOut
    <3>. QED
      BY <2>1, <2>2, <3>1, <3>2, Finalizes
  <2>3. CASE c \notin Live
    <3>1. toKernel' = Rest(p) /\ UNCHANGED <<table, big, worker, word, op, loading, told>>
      BY <1>3, <2>3 DEF FinalizeOnce, window
    <3>2. Placed(p)
      BY <2>1 DEF ToldInv, PlacedInv
    <3>3. OneBell(p)' /\ (Rings(p)' <=> Rings(p))
      BY <2>1, <3>1, <3>2, BellsTaken DEF Placed
    <3>4. (Waits(p)' <=> Waits(p)) /\ \A d \in Pid : Child(p, d)' <=> Child(p, d)
      BY <3>1 DEF Waits, Child, table
    <3>5. Placed(p)'
      BY <3>1, <3>2, <3>3, <3>4, PlacedKept
    <3>. QED
      BY <2>1, <3>1, <3>5, Locally
  <2>. QED
    BY <2>2, <2>3
<1>4. CASE \E p \in Pid : Stop(p) \/ HandleExit(p) \/ HandleThreadTerminate(p)
  BY <1>2, <1>3, <1>4 DEF Stop, HandleExit, HandleThreadTerminate
<1>5. CASE KillDelivered
  <2>1. CASE UNCHANGED <<table, big, worker, window, toKernel, loading, told, misanswered>>
    BY <2>1, ToldSame DEF window
  <2>2. CASE /\ killing.target \in Live
             /\ Finalize(killing.target, toKernel, StrayErrno(killing.killer, killing.target))
    <3>1. StrayErrno(killing.killer, killing.target) = {}
      BY <2>2, NothingStrays DEF ToldInv
    <3>. QED
      BY <1>2, <2>2, <3>1
  <2>. QED
    BY <1>5, <2>1, <2>2 DEF KillDelivered
<1>. QED
  BY <1>4, <1>5

(* Every step keeps each request in its place. *)
LEMMA ToldStep ==
  ASSUME TypeOK, ParentOlder, NoOrphans, ToldInv, Outputs = {FALSE}, [Next]_vars
  PROVE  ToldInv'
<1>1. CASE UNCHANGED vars
  BY <1>1, ToldSame DEF vars, window
<1>2. CASE Next
  <2>1. ASSUME NEW p \in Pid,
               \/ \E o \in {"spawn", "spawnAsync"} : Call(p, o, 0)
               \/ \E q \in Pid : Call(p, "kill", q)
               \/ Return(p) \/ PostThread(p) \/ Exit(p)
        PROVE  ToldInv'
    <3>1. \/ \E o \in {"spawn", "spawnAsync", "kill"}, a \in Pid \union {0} : Call(p, o, a)
          \/ Return(p) \/ PostThread(p) \/ Exit(p)
      BY <2>1
    <3>. QED
      BY <3>1, GuestTold
  <2>2. ASSUME NEW p \in Pid, HandleSpawn(p) \/ HandleThreadSpawnFails(p) \/ HandleKill(p)
        PROVE  ToldInv'
    BY <2>2, HandlerTold
  <2>3. ASSUME NEW p \in Pid, \E o \in {"spawn", "spawnAsync"} : SpawnLoaded(p, o) \/ SpawnFails(p, o)
        PROVE  ToldInv'
    BY <2>3, LoadTold DEF Spawning
  <2>4. CASE Start \/ \E p \in Pid : HandleThreadSpawn(p)
    BY <2>4, CreatorTold
  <2>5. CASE KillDelivered \/ \E p \in Pid : Stop(p) \/ HandleExit(p) \/ HandleThreadTerminate(p)
    BY <2>5, FinalizeTold
  <2>. QED
    BY <1>2, <2>1, <2>2, <2>3, <2>4, <2>5 DEF Next
<1>. QED
  BY <1>1, <1>2

(* What is promised of every end follows. *)
LEMMA TellsAll ==
  ASSUME TypeOK, ParentOlder, NoOrphans, ToldInv
  PROVE  EveryEndIsTold
<1>1. Live = procs
  BY DEF ToldInv, Calm, Live
<1>2. SyncChildHoldsCaller
  <2>1. SUFFICES ASSUME NEW c \in Live, kind[c] = "sync", NEW p, p = parent[c]
                 PROVE  /\ worker[p] = "parked" /\ word[p] = "request" /\ op[p] = "spawn"
                        /\ <<p, "spawn">> \notin loading
                        /\ \A d \in Live : kind[d] = "sync" /\ parent[d] = p => d = c
    BY Zenon DEF SyncChildHoldsCaller
  <2>2. p \in procs /\ Placed(p) /\ Child(p, c) /\ \A d \in Live : d \in Pid
    BY <1>1, <2>1, PidsGivenOut DEF NoOrphans, ToldInv, PlacedInv, Child
  <2>3. Waits(p) /\ op[p] = "spawn" /\ ~Loads(p)
    BY <2>2 DEF Placed
  <2>4. \A d \in Live : kind[d] = "sync" /\ parent[d] = p => d = c
    BY <1>1, <2>2 DEF Placed, Child
  <2>. QED
    BY <2>3, <2>4 DEF Waits, Loads, Spawning
<1>3. SpawnerReleased
  <2>1. SUFFICES ASSUME NEW p \in Live, worker[p] = "parked", word[p] = "request", op[p] = "spawn"
                 PROVE  \/ \E i \in DOMAIN toKernel[p] : toKernel[p][i].type = "syscall"
                        \/ <<p, "spawn">> \in loading
                        \/ \E d \in Live : kind[d] = "sync" /\ parent[d] = p
    BY Zenon DEF SpawnerReleased
  <2>2. p \in Pid /\ Placed(p) /\ Waits(p)
    BY <1>1, <2>1, PidsGivenOut DEF ToldInv, PlacedInv, Waits
  <2>3. CASE Rings(p)
    <3>1. DOMAIN toKernel[p] = 1..Len(toKernel[p])
      BY <2>2 DEF TypeOK
    <3>. QED
      BY <2>3, <3>1 DEF Rings, Bell
  <2>4. CASE Loads(p)
    BY <2>1, <2>2, <2>4 DEF Loads, Placed
  <2>5. CASE \E d \in Pid : Child(p, d)
    BY <1>1, <2>5 DEF Child
  <2>. QED
    BY <2>1, <2>2, <2>3, <2>4, <2>5 DEF Placed
<1>. QED
  BY <1>2, <1>3 DEF EveryEndIsTold, ToldInv

(* The inductive invariant holds in every reachable state. *)
LEMMA Inductive == Spec => []IInv
<1>1. Init => IInv
  BY InitIInv
<1>2. IInv /\ [Next]_vars => IInv'
  BY TypeStep, OrphanStep DEF IInv
<1>. QED
  BY <1>1, <1>2, PTL DEF Spec

(* The process table, the windows and the queues stay well formed, through *)
(* every creator, every cascade and every exception.                       *)
THEOREM TypeCorrect == Spec => []TypeOK
<1>1. IInv => TypeOK
  BY DEF IInv
<1>. QED
  BY <1>1, Inductive, PTL

(* No live process has lost its creator: the cascade of finalize reaches   *)
(* every descendant, and the checks after the awaits stop the late ones.   *)
THEOREM NoOrphanLives == Spec => []NoOrphans
<1>1. IInv => NoOrphans
  BY DEF IInv
<1>. QED
  BY <1>1, Inductive, PTL

(* Where the cascade runs to its end: no result outgrows the window.       *)
LEMMA InductiveTold ==
  ASSUME Outputs = {FALSE}
  PROVE  Spec => [](IInv /\ ToldInv)
<1>1. Init => IInv /\ ToldInv
  <2>1. ASSUME Init PROVE TypeOK /\ ToldInv
    <3>1. TypeOK
      BY <2>1, InitIInv DEF IInv
    <3>. QED
      BY <2>1, <3>1 DEF Init, ToldInv, Calm, Absent, PlacedInv, ExitsReported
  <2>. QED
    BY <2>1, InitIInv
<1>2. IInv /\ ToldInv /\ [Next]_vars => (IInv /\ ToldInv)'
  BY TypeStep, OrphanStep, ToldStep DEF IInv
<1>. QED
  BY <1>1, <1>2, PTL DEF Spec

(* Who waits for a process hears of its end and of nothing else, whatever  *)
(* ends it and in whatever order: a synchronous spawn is held on its own   *)
(* request until its child ends, and released then; an asynchronous child  *)
(* or a thread that is gone was reported (handleSpawn, finalize).  As in   *)
(* the run, no result outgrows the window: with larger ones it is false.   *)
THEOREM EndsAreTold ==
  ASSUME Outputs = {FALSE}
  PROVE  Spec => []EveryEndIsTold
<1>1. IInv /\ ToldInv => EveryEndIsTold
  BY TellsAll DEF IInv
<1>. QED
  BY <1>1, InductiveTold, PTL
==============================================================================
