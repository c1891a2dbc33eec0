-------------------------------- MODULE Procs --------------------------------
(***************************************************************************)
(* The kernel's process table (packages/kernel-host/kernel.js): how        *)
(* processes and worker threads are created, how they end, and who is      *)
(* told.  A parent that spawns synchronously is parked on its syscall      *)
(* window until the kernel writes the child's exit into it.  The kernel    *)
(* is one thread and its handlers are atomic, with two exceptions: a spawn *)
(* awaits the loading of its command, and a kill acknowledges the killer,  *)
(* which runs on in its own thread, before it is delivered.                *)
(***************************************************************************)
EXTENDS Integers, Sequences

CONSTANTS
  MaxPid,     (* bound: processes ever created                             *)
  MaxTop,     (* bound: processes the host starts                          *)
  MaxQueue,   (* bound: messages a process may have in flight              *)
  Outputs     (* how much a process prints in all: does it outgrow what a  *)
              (* syscall response can carry?  {FALSE} leaves that out.     *)

ASSUME ProcsAssumption ==
  /\ MaxPid \in Nat \ {0}
  /\ MaxTop \in Nat
  /\ MaxQueue \in Nat \ {0}
  /\ Outputs \subseteq BOOLEAN

Pid == 1..MaxPid
Kernel == 0    (* the parent of a process the host started                 *)
Kind == {"top", "sync", "async", "thread"}
Op == {"none", "spawn", "spawnAsync", "kill"}

VARIABLES
  nextPid,
  procs,      (* kernel.procs                                              *)
  finalized,  (* proc.finalized                                            *)
  parent,     (* proc.parentPid                                            *)
  kind,       (* which creator made it, so what its onExit does            *)
  big,        (* outBuf will hold more than a syscall response can carry   *)
  worker,     (* what the process's thread is doing                        *)
  word,       (* its window's state word                                   *)
  op, arg,    (* the request in its window                                 *)
  toKernel,   (* its messages to the kernel                                *)
  loading,    (* the spawns awaiting ensureCommandLoaded                   *)
  killing,    (* the kill the kernel has acknowledged and not delivered    *)
  told,       (* async children and threads whose exit their parent heard  *)
  misanswered (* processes that got a failed kill's errno for a later call *)

table == <<nextPid, procs, finalized, parent, kind>>
window == <<word, op, arg>>
vars == <<table, big, worker, window, toKernel, loading, killing, told, misanswered>>

Message == [type : {"syscall", "exit", "thread-spawn"}] \union [type : {"thread-terminate"}, child : Pid]
Doorbell == [type |-> "syscall"]
NoKill == [killer |-> 0, target |-> 0]

TypeOK ==
  /\ nextPid \in 1..MaxPid + 1
  /\ procs \subseteq 1..nextPid - 1
  /\ finalized \subseteq 1..nextPid - 1
  /\ parent \in [Pid -> Pid \union {Kernel}]
  /\ kind \in [Pid -> Kind]
  /\ big \in [Pid -> BOOLEAN]
  /\ worker \in [Pid -> {"none", "running", "parked", "exited", "gone"}]
  /\ word \in [Pid -> {"idle", "request", "answered"}]
  /\ op \in [Pid -> Op]
  /\ arg \in [Pid -> Pid \union {0}]
  /\ toKernel \in [Pid -> Seq(Message)]
  /\ loading \subseteq Pid \X {"spawn", "spawnAsync"}
  /\ killing \in {NoKill} \union [killer : Pid, target : Pid]
  /\ told \subseteq Pid
  /\ misanswered \subseteq Pid

Init ==
  /\ nextPid = 1 /\ procs = {} /\ finalized = {}
  /\ parent = [p \in Pid |-> Kernel] /\ kind = [p \in Pid |-> "top"]
  /\ big = [p \in Pid |-> FALSE]
  /\ worker = [p \in Pid |-> "none"]
  /\ word = [p \in Pid |-> "idle"] /\ op = [p \in Pid |-> "none"] /\ arg = [p \in Pid |-> 0]
  /\ toKernel = [p \in Pid |-> <<>>]
  /\ loading = {} /\ killing = NoKill /\ told = {} /\ misanswered = {}

Live == procs \ finalized
KernelIdle == killing = NoKill

-----------------------------------------------------------------------------
(* createProcess and finalize.                                              *)

CreateProcess(p, k) ==
  /\ nextPid <= MaxPid
  /\ nextPid' = nextPid + 1
  /\ procs' = procs \union {nextPid}
  /\ parent' = [parent EXCEPT ![nextPid] = p]
  /\ kind' = [kind EXCEPT ![nextPid] = k]
  /\ \E b \in IF k = "sync" THEN Outputs ELSE {FALSE} : big' = [big EXCEPT ![nextPid] = b]
  /\ worker' = [worker EXCEPT ![nextPid] = "running"]
  /\ UNCHANGED finalized

(* The processes finalize(p) reaches: p and, below each, its children that  *)
(* are not finalized yet.                                                   *)
Subtree(p) ==
  {q \in Pid : \A S \in SUBSET Pid :
     p \in S /\ (\A c \in Live : parent[c] \in S => c \in S) => q \in S}

(* The cascade is depth first, children in the order they were created, and *)
(* a process completes after everything below it.                           *)
CompletesBefore(q, t) ==
  \/ q \in Subtree(t) \ {t}
  \/ \E a, b \in Live : /\ a < b /\ parent[a] = parent[b]
                        /\ q \in Subtree(a) /\ t \in Subtree(b)

(* respondOk throws when a synchronous child's result outgrows the window;  *)
(* the exception unwinds every finalize above it.                           *)
Throwers(p) == {c \in Subtree(p) : kind[c] = "sync" /\ big[c]}
First(S) == {t \in S : \A u \in S \ {t} : CompletesBefore(t, u)}
Throws(p) == Throwers(p) # {}

Completed(p) ==
  IF Throws(p)
  THEN {q \in Subtree(p) : \E t \in First(Throwers(p)) : q = t \/ CompletesBefore(q, t)}
  ELSE Subtree(p)

Entered(p) ==
  IF Throws(p)
  THEN Completed(p) \union {q \in Subtree(p) : \E t \in First(Throwers(p)) : t \in Subtree(q)}
  ELSE Subtree(p)

(* Mutant: only the processes the cascade reaches are reported. *)
Notified_DescendantsOnly(p) == Completed(p) \ {p}

(* The processes whose onExit ran to its end. *)
Notified(p) == Completed(p) \ (IF Throws(p) THEN First(Throwers(p)) ELSE {})

(* A completed process takes its window with it.                            *)
(* queues: the messages in flight once the one being handled is taken;      *)
(* errno: the processes the same turn answers besides (KillDelivered).      *)
Finalize(p, queues, errno) ==
  LET gone == Completed(p)
      heard == Notified(p)
      answered == errno \union {parent[c] : c \in {d \in heard : kind[d] = "sync"}}
  IN /\ procs' = procs \ gone
     /\ finalized' = finalized \union Entered(p)
     /\ worker' = [q \in Pid |-> IF q \in gone THEN "gone" ELSE worker[q]]
     /\ toKernel' = [q \in Pid |-> IF q \in gone THEN <<>> ELSE queues[q]]
     /\ word' = [q \in Pid |-> IF q \in gone THEN "idle"
                               ELSE IF q \in answered THEN "answered" ELSE word[q]]
     /\ op' = [q \in Pid |-> IF q \in gone THEN "none" ELSE op[q]]
     /\ arg' = [q \in Pid |-> IF q \in gone THEN 0 ELSE arg[q]]
     /\ told' = told \union {c \in heard : kind[c] \in {"async", "thread"}}
     /\ UNCHANGED <<nextPid, parent, kind, big, loading>>

-----------------------------------------------------------------------------
(* The host: start/launch; and what finalizes a process from outside: stop, *)
(* an unhandled signal, a grace window that ran out, a worker that failed   *)
(* to boot.  A worker the browser reclaims silently is one that takes no    *)
(* more steps, which any guest may do here.                                 *)

Start ==
  /\ KernelIdle
  /\ nextPid <= MaxTop
  /\ CreateProcess(Kernel, "top")
  /\ UNCHANGED <<window, toKernel, loading, killing, told, misanswered>>

Stop(p) ==
  /\ KernelIdle
  /\ p \in Live
  /\ Finalize(p, toKernel, {})
  /\ UNCHANGED <<killing, misanswered>>

-----------------------------------------------------------------------------
(* A guest, in its own thread.                                              *)

Running(p) == worker[p] = "running" /\ Len(toKernel[p]) < MaxQueue

Call(p, o, a) ==
  /\ Running(p)
  /\ o = "kill" <=> a \in 1..nextPid - 1
  /\ word' = [word EXCEPT ![p] = "request"]
  /\ op' = [op EXCEPT ![p] = o]
  /\ arg' = [arg EXCEPT ![p] = a]
  /\ worker' = [worker EXCEPT ![p] = "parked"]
  /\ toKernel' = [toKernel EXCEPT ![p] = Append(@, Doorbell)]
  /\ UNCHANGED <<table, big, loading, killing, told, misanswered>>

(* Once no doorbell is in flight nobody reads the request in the window     *)
(* again, so it is forgotten.                                               *)
Return(p) ==
  /\ worker[p] = "parked" /\ word[p] = "answered"
  /\ worker' = [worker EXCEPT ![p] = "running"]
  /\ IF Doorbell \in {toKernel[p][i] : i \in DOMAIN toKernel[p]}
     THEN UNCHANGED window
     ELSE /\ word' = [word EXCEPT ![p] = "idle"]
          /\ op' = [op EXCEPT ![p] = "none"]
          /\ arg' = [arg EXCEPT ![p] = 0]
  /\ UNCHANGED <<table, big, toKernel, loading, killing, told, misanswered>>

PostThread(p) ==
  /\ Running(p)
  /\ \/ toKernel' = [toKernel EXCEPT ![p] = Append(@, [type |-> "thread-spawn"])]
     \/ \E c \in Pid : /\ kind[c] = "thread" /\ parent[c] = p
                       /\ toKernel' = [toKernel EXCEPT ![p] = Append(@, [type |-> "thread-terminate", child |-> c])]
  /\ UNCHANGED <<table, big, worker, window, loading, killing, told, misanswered>>

Exit(p) ==
  /\ Running(p)
  /\ worker' = [worker EXCEPT ![p] = "exited"]
  /\ toKernel' = [toKernel EXCEPT ![p] = Append(@, [type |-> "exit"])]
  /\ UNCHANGED <<table, big, window, loading, killing, told, misanswered>>

-----------------------------------------------------------------------------
(* The kernel's message handlers.  A message from a pid that is not in      *)
(* procs is ignored by every handler; Finalize drops it.                    *)

Take(p, type) ==
  /\ KernelIdle
  /\ p \in procs
  /\ toKernel[p] # <<>> /\ Head(toKernel[p]).type = type

Rest(p) == [toKernel EXCEPT ![p] = Tail(@)]

(* handleSpawn and handleSpawnAsync up to the await. *)
HandleSpawn(p) ==
  /\ Take(p, "syscall") /\ op[p] \in {"spawn", "spawnAsync"}
  /\ loading' = loading \union {<<p, op[p]>>}
  /\ toKernel' = Rest(p)
  /\ UNCHANGED <<table, big, worker, window, killing, told, misanswered>>

(* Mutant: the parent is not looked up again after the await. *)
ParentStillThere_Unchecked(p) == TRUE

(* "The parent may have exited (killed) while the tool was loading." *)
ParentStillThere(p) == p \in procs

SpawnLoaded(p, o) ==
  /\ KernelIdle
  /\ <<p, o>> \in loading
  /\ loading' = loading \ {<<p, o>>}
  /\ ParentStillThere(p)
  /\ CreateProcess(p, IF o = "spawn" THEN "sync" ELSE "async")
  /\ word' = IF o = "spawnAsync" THEN [word EXCEPT ![p] = "answered"] ELSE word
  /\ UNCHANGED <<op, arg, toKernel, killing, told, misanswered>>

(* No such program, or the load failed: ENOENT; or the parent is gone. *)
SpawnFails(p, o) ==
  /\ KernelIdle
  /\ <<p, o>> \in loading
  /\ loading' = loading \ {<<p, o>>}
  /\ word' = IF p \in procs THEN [word EXCEPT ![p] = "answered"] ELSE word
  /\ UNCHANGED <<table, big, worker, op, arg, toKernel, killing, told, misanswered>>

HandleThreadSpawn(p) ==
  /\ Take(p, "thread-spawn")
  /\ CreateProcess(p, "thread")
  /\ toKernel' = Rest(p)
  /\ UNCHANGED <<window, loading, killing, told, misanswered>>

(* The table it names has no such file: only answered by messages. *)
HandleThreadSpawnFails(p) ==
  /\ Take(p, "thread-spawn")
  /\ toKernel' = Rest(p)
  /\ UNCHANGED <<table, big, worker, window, loading, killing, told, misanswered>>

(* An exit or a termination of a process finalize has already seen is no-op. *)
FinalizeOnce(p, c) ==
  IF c \in Live THEN Finalize(c, Rest(p), {})
  ELSE toKernel' = Rest(p) /\ UNCHANGED <<table, big, worker, window, loading, told>>

HandleExit(p) ==
  /\ Take(p, "exit")
  /\ FinalizeOnce(p, p)
  /\ UNCHANGED <<killing, misanswered>>

HandleThreadTerminate(p) ==
  /\ Take(p, "thread-terminate")
  /\ FinalizeOnce(p, Head(toKernel[p]).child)
  /\ UNCHANGED <<killing, misanswered>>

(* handleKill: ESRCH, or the acknowledgement that frees the killer. *)
HandleKill(p) ==
  /\ Take(p, "syscall") /\ op[p] = "kill"
  /\ word' = [word EXCEPT ![p] = "answered"]
  /\ killing' = IF arg[p] \in procs THEN [killer |-> p, target |-> arg[p]] ELSE NoKill
  /\ toKernel' = Rest(p)
  /\ UNCHANGED <<table, big, worker, op, arg, loading, told, misanswered>>

(* The rest of handleKill.  When finalize throws, failSyscall answers the   *)
(* killer if its window says REQUEST, whatever request that is by now.      *)
StrayErrno(p, q) == IF Throws(q) /\ word[p] = "request" THEN {p} ELSE {}

KillDelivered ==
  /\ ~KernelIdle
  /\ LET p == killing.killer
         q == killing.target
     IN \/ /\ q \in Live
           /\ Finalize(q, toKernel, StrayErrno(p, q))
           /\ misanswered' = misanswered \union StrayErrno(p, q)
        \/ (* signal 0, a signal the target catches, or a target already gone *)
           UNCHANGED <<table, big, worker, window, toKernel, loading, told, misanswered>>
  /\ killing' = NoKill

Next ==
  \/ Start
  \/ \E p \in Pid :
       \/ Stop(p)
       \/ Return(p) \/ PostThread(p) \/ Exit(p)
       \/ \E o \in {"spawn", "spawnAsync"} : Call(p, o, 0) \/ SpawnLoaded(p, o) \/ SpawnFails(p, o)
       \/ \E q \in Pid : Call(p, "kill", q)
       \/ HandleSpawn(p) \/ HandleThreadSpawn(p) \/ HandleThreadSpawnFails(p)
       \/ HandleExit(p) \/ HandleThreadTerminate(p) \/ HandleKill(p)
  \/ KillDelivered

Spec == Init /\ [][Next]_vars

-----------------------------------------------------------------------------

(* A live process's creator is in the table: no server outlives the shell   *)
(* that wrapped it and keeps its port, not even one whose command was still *)
(* loading, or whose thread-spawn was in flight, when the parent died.      *)
NoOrphans == \A c \in Live : kind[c] # "top" => parent[c] \in procs

(* While a synchronous child lives its parent is held on the very request   *)
(* that spawned it, so the child's exit cannot answer some other syscall,   *)
(* and a parent waits for one child at a time.                              *)
SyncChildHoldsCaller ==
  \A c \in Live : kind[c] = "sync" =>
    LET p == parent[c] IN
      /\ worker[p] = "parked" /\ word[p] = "request" /\ op[p] = "spawn"
      /\ <<p, "spawn">> \notin loading
      /\ \A d \in Live : kind[d] = "sync" /\ parent[d] = p => d = c

(* A parent parked in a synchronous spawn has something to wait for: its    *)
(* request is on its way, its command is loading, or its child lives.       *)
(* However the child ended, the parent was released.                        *)
SpawnerReleased ==
  \A p \in Live : worker[p] = "parked" /\ word[p] = "request" /\ op[p] = "spawn" =>
    \/ \E i \in DOMAIN toKernel[p] : toKernel[p][i].type = "syscall"
    \/ <<p, "spawn">> \in loading
    \/ \E c \in Live : kind[c] = "sync" /\ parent[c] = p

(* A live parent has heard of the end of every asynchronous child and every *)
(* thread of its own that is gone.                                          *)
ExitsReported ==
  \A c \in (1..nextPid - 1) \ procs :
    kind[c] \in {"async", "thread"} /\ parent[c] \in Live => c \in told

(* Whoever waits for a process hears of its end, and of nothing else: a     *)
(* synchronous spawn is answered by the end of its own child, the others    *)
(* are reported (handleSpawn, finalize and its cascade).                    *)
EveryEndIsTold == SyncChildHoldsCaller /\ SpawnerReleased /\ ExitsReported

(* --- what the comments promise and the code does not -------------------- *)

(* finalize: a process that was finalized is out of the table, its worker   *)
(* terminated and its ports free when the call returns.                     *)
FinalizedIsGone == finalized \intersect procs = {}

(* failSyscall answers only if nothing else has: its errno never lands on   *)
(* whatever syscall the guest makes next.                                   *)
NoStrayErrno == misanswered = {}
==============================================================================
