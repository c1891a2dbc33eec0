----------------------------- MODULE Persistence -----------------------------
(***************************************************************************)
(* The write-behind mirror of the virtual file system                      *)
(* (packages/kernel-host/opfs-persistence.js), as FsServer feeds it        *)
(* (packages/kernel-host/fs-server.js).  Each tab keeps its own tree in    *)
(* memory and queues the paths it changes; a drain copies them one by one  *)
(* to the one directory all tabs share, and an index, merged under a lock, *)
(* says which of them exist.  A tab may be closed or killed at any step;   *)
(* what it finds when it is opened again is what the index and the files   *)
(* hold.                                                                   *)
(*                                                                         *)
(* A step runs a tab's code from one await to the next.  A path says       *)
(* whether it is a directory; modes and symbolic links travel like files.  *)
(***************************************************************************)
EXTENDS Naturals, SequencesExt

CONSTANTS
  Tab,
  Path,       (* absolute paths, as sequences of names                     *)
  Dir,        (* the ones that are directories when they exist             *)
  Low,        (* isLowPriority: the package managers' caches               *)
  Inode,      (* inodes of files                                           *)
  Value,      (* what a file may hold                                      *)
  Saved,      (* what the index may name when the tabs are first opened    *)
  Absent, Folder, Torn,
  MaxEvents,  (* bound: calls, flushes and faults together                 *)
  MaxFaults,  (* bound: writes to the origin that fail, tabs closed        *)
  MaxFlushes  (* bound: calls of flush                                     *)

ASSUME PersistenceAssumption ==
  /\ Dir \subseteq Path /\ Low \subseteq Path /\ \A p \in Path : p \in Seq(STRING) \ {<<>>}
  /\ {Absent, Folder, Torn} \intersect (Value \union Inode) = {}
  /\ Absent # Folder /\ Absent # Torn /\ Folder # Torn
  /\ \A ps \in Saved : ps \subseteq Path /\ \A p \in ps : Len(p) > 1 => Front(p) \in ps
  /\ MaxEvents \in Nat /\ MaxFaults \in Nat /\ MaxFlushes \in Nat

File == Path \ Dir
Who == {"drain", "timer", "flush"}   (* who may be rewriting the index     *)
NoLock == [tab |-> Absent, who |-> "drain", step |-> "merge"]
NoFd == [inode |-> Absent, path |-> Absent]
NoEntry == [path |-> Absent, op |-> "w", bytes |-> Absent]
Missing == [state |-> "missing", paths |-> {}]
TornCopy == [state |-> "torn", paths |-> {}]
Whole(ps) == [state |-> "whole", paths |-> ps]
Untouched == [p \in Path |-> "-"]

VARIABLES
  (* a tab's tree *)
  up,      (* the tab is open                                              *)
  node,    (* path -> inode, Folder or Absent                              *)
  data,    (* inode -> contents                                            *)
  fd,      (* the open file, and the path it was opened by (fdPaths)       *)
  (* a tab's mirror *)
  mirror,
  (* the origin *)
  lock,    (* the Web Lock, and how far its holder is                      *)
  batch,   (* what the holder merges                                       *)
  live,    (* manifest.json                                                *)
  stage,   (* manifest.json.new                                            *)
  disk,    (* files/: path -> bytes                                        *)
  (* history *)
  writers, (* path -> the tabs that changed it                             *)
  silent,  (* paths a tab changed without telling its mirror               *)
  dropped, (* paths whose last write failed                                *)
  since,   (* paths changed since flush was called                         *)
  failed,  (* the tab's last index write failed                            *)
  landed,  (* what the last index write that succeeded names               *)
  left     (* what is left of the bounds                                   *)

tree == <<node, data, fd>>
origin == <<lock, batch, live, stage, disk>>
history == <<writers, silent, dropped, since, failed, landed>>
vars == <<up, tree, mirror, origin, history, left>>

Under(p) == {q \in Path : IsStrictPrefix(p, q)}
Tree(p) == {p} \union Under(p)
Contents(n, d) == [p \in Path |-> IF n[p] \in Inode THEN d[n[p]] ELSE n[p]]
View(t) == Contents(node[t], data[t])

(* A mirror when its tab is opened on an index that names ps.               *)
Opened(ps) ==
  [queue   |-> <<>>,      (* pending and pendingLow, in insertion order    *)
   pc      |-> "idle",    (* where drain() waits                           *)
   cur     |-> NoEntry,   (* the entry it works on                         *)
   urgent  |-> FALSE,     (* flushUrgent                                   *)
   meta    |-> ps,        (* the paths it knows to be mirrored             *)
   owned   |-> Untouched, (* what it changed since its last merge          *)
   dirty   |-> FALSE,     (* manifestDirty                                 *)
   recent  |-> FALSE,     (* lastManifestWrite is within the interval      *)
   timer   |-> FALSE,     (* manifestTimer is armed                        *)
   waiting |-> {},        (* index writes that wait for the lock           *)
   flush   |-> "no"]      (* where flush() waits                           *)

Copy == [state : {"missing", "torn", "whole"}, paths : SUBSET Path]

TypeOK ==
  /\ up \in [Tab -> BOOLEAN]
  /\ node \in [Tab -> [Path -> Inode \union {Folder, Absent}]]
  /\ data \in [Tab -> [Inode -> Value \union {Torn}]]
  /\ fd \in [Tab -> {NoFd} \union [inode : Inode, path : File]]
  /\ \A t \in Tab : LET m == mirror[t] IN
       /\ m.queue \in Seq([path : Path, op : {"w", "d", "r"}])
       /\ \A i, k \in DOMAIN m.queue : m.queue[i].path = m.queue[k].path => i = k
       /\ m.pc \in {"idle", "removing", "writing", "index", "lastindex"}
       /\ m.pc \in {"removing", "writing"} <=> m.cur # NoEntry
       /\ m.meta \subseteq Path /\ m.owned \in [Path -> {"-", "w", "d"}]
       /\ {m.urgent, m.dirty, m.recent, m.timer} \subseteq BOOLEAN
       /\ m.flush \in {"no", "settling", "draining", "forcing"} /\ (m.urgent <=> m.flush # "no")
       (* a drain or a flush waits for an index write iff there is one *)
       /\ \A w \in {"drain", "flush"} :
            (w \in m.waiting \/ (lock.tab = t /\ lock.who = w)) <=>
              IF w = "drain" THEN m.pc \in {"index", "lastindex"} ELSE m.flush = "forcing"
  /\ batch \in [Path -> {"-", "w", "d"}]
  /\ live \in Copy /\ stage \in Copy
  /\ disk \in [Path -> Value \union {Absent, Torn}] /\ \A p \in Dir : disk[p] = Absent

AnyValue == CHOOSE v \in Value : TRUE

(* restore(): the directories the index names or its files need, and the    *)
(* files that can be read; what cannot is skipped.                          *)
Restored(index, bytes) ==
  LET files == {p \in index \ Dir : bytes[p] # Absent}
      dirs == {p \in Dir : p \in index \/ \E f \in files : f \in Under(p)}
      inode == CHOOSE g \in [files -> Inode] : IsInjective(g)
  IN  [node |-> [p \in Path |-> IF p \in files THEN inode[p] ELSE IF p \in dirs THEN Folder ELSE Absent],
       data |-> [i \in Inode |-> IF \E p \in files : inode[p] = i
                                 THEN bytes[CHOOSE p \in files : inode[p] = i] ELSE AnyValue]]

(* All tabs were opened on the same workspace, an empty one on a first boot. *)
Init ==
  /\ \E saved \in Saved :
       /\ disk = [p \in Path |-> IF p \in saved \ Dir THEN AnyValue ELSE Absent]
       /\ live = IF saved = {} THEN Missing ELSE Whole(saved)
       /\ mirror = [t \in Tab |-> Opened(saved)] /\ landed = saved
       /\ LET r == Restored(saved, disk)
          IN  node = [t \in Tab |-> r.node] /\ data = [t \in Tab |-> r.data]
  /\ up = [t \in Tab |-> TRUE] /\ fd = [t \in Tab |-> NoFd]
  /\ lock = NoLock /\ batch = Untouched /\ stage = Missing
  /\ writers = [p \in Path |-> {}] /\ silent = [t \in Tab |-> {}]
  /\ dropped = [t \in Tab |-> {}] /\ since = [t \in Tab |-> {}]
  /\ failed = [t \in Tab |-> FALSE]
  /\ left = [events |-> MaxEvents, faults |-> MaxFaults, flushes |-> MaxFlushes]

Spend(what) ==
  /\ left.events > 0 /\ left[what] > 0
  /\ left' = [w \in DOMAIN left |-> IF w \in {what, "events"} THEN left[w] - 1 ELSE left[w]]

-----------------------------------------------------------------------------
(* The code between two awaits, as functions of the mirror m and of the     *)
(* tree's contents c.                                                       *)

(* maybeWriteManifest, up to the request of the lock. *)
StartIndex(m, who) == [m EXCEPT !.dirty = FALSE, !.timer = FALSE, !.waiting = @ \union {who}]

(* The drain's order: project paths, then, unless a flush is in a hurry,    *)
(* cache paths.                                                             *)
Order(m) ==
  LET Of(S) == SelectSeq(m.queue, LAMBDA e : e.path \in S)
  IN  Of(Path \ Low) \o (IF m.urgent THEN <<>> ELSE Of(Low))

(* access.read(path) answers the current truth, at this moment. *)
Writing(m, c, e) ==
  [m EXCEPT !.pc = "writing", !.cur = [path |-> e.path, op |-> e.op, bytes |-> c[e.path]]]

Ended(m) == [m EXCEPT !.pc = "idle", !.timer = @ \/ m.dirty]

(* The for loop of drain: entries that vanished are passed over; with       *)
(* nothing left, the index is written, or a timer armed to write it.        *)
Loop(m, c) ==
  LET order == Order(m)
      i == SelectInSeq(order, LAMBDA e : e.op # "w" \/ c[e.path] # Absent)
      passed == ToSet(IF i = 0 THEN order ELSE SubSeq(order, 1, i))
      n == [m EXCEPT !.queue = SelectSeq(@, LAMBDA e : e \notin passed), !.cur = NoEntry]
  IN  CASE i > 0 /\ order[i].op = "w" -> Writing(n, c, order[i])
        [] i > 0 /\ order[i].op # "w" ->
             [n EXCEPT !.pc = "removing", !.cur = [path |-> order[i].path, op |-> order[i].op, bytes |-> Absent]]
        [] i = 0 /\ m.dirty /\ ~m.recent -> StartIndex([n EXCEPT !.pc = "lastindex"], "drain")
        [] i = 0 /\ ~(m.dirty /\ ~m.recent) -> Ended(n)

(* flush returns: what it left in the queue is drained. *)
FlushReturn(m, c) ==
  LET n == [m EXCEPT !.flush = "no", !.urgent = FALSE]
  IN  IF n.queue # <<>> /\ n.pc = "idle" THEN Loop(n, c) ELSE n

(* Mutant: flush coalesces its index write like the others. *)
Force_Coalesced(m, c) ==
  IF m.dirty /\ ~m.recent THEN StartIndex([m EXCEPT !.flush = "forcing"], "flush")
  ELSE FlushReturn([m EXCEPT !.timer = @ \/ m.dirty], c)

(* flush's maybeWriteManifest(true). *)
Force(m, c) ==
  IF m.dirty THEN StartIndex([m EXCEPT !.flush = "forcing"], "flush") ELSE FlushReturn(m, c)

(* A drain that ends lets the flush that awaits it go on. *)
Drain(m, c) ==
  LET n == Loop(m, c) IN IF n.pc = "idle" /\ n.flush = "draining" THEN Force(n, c) ELSE n

(* After an entry: under a long backlog the index is written on the way. *)
NextEntry(m, c) ==
  IF m.dirty /\ ~m.recent THEN StartIndex([m EXCEPT !.pc = "index", !.cur = NoEntry], "drain")
  ELSE Drain(m, c)

(* Mutant: work that arrived while the drain was ending waits. *)
Resume_Lost(m, c) ==
  CASE m.pc = "index" -> Drain(m, c)
    [] m.pc = "lastindex" /\ m.flush = "draining" -> Force([m EXCEPT !.pc = "idle"], c)
    [] OTHER -> [m EXCEPT !.pc = "idle"]

(* The drain's index write is over: the loop goes on, or, after the last    *)
(* one, drain's finally starts another drain for what arrived meanwhile.    *)
Resume(m, c) ==
  CASE m.pc = "index" -> Drain(m, c)
    [] m.pc = "lastindex" /\ m.queue # <<>> /\ ~m.urgent -> Drain(m, c)
    [] m.pc = "lastindex" /\ m.flush = "draining" -> Force([m EXCEPT !.pc = "idle"], c)
    [] OTHER -> [m EXCEPT !.pc = "idle"]

-----------------------------------------------------------------------------
(* What FsServer tells the mirror.                                          *)

Queued(q, p) == \E i \in DOMAIN q : q[i].path = p

(* Mutant: a write forgets the delete that is queued. *)
OnWrite_ForgetsDelete(q, p) ==
  IF Queued(q, p)
  THEN [i \in DOMAIN q |-> IF q[i].path = p THEN [path |-> p, op |-> "w"] ELSE q[i]]
  ELSE Append(q, [path |-> p, op |-> "w"])

(* Map.set: a path that is queued keeps its place. *)
OnWrite(q, p) ==
  IF Queued(q, p)
  THEN [i \in DOMAIN q |->
          IF q[i].path = p THEN [path |-> p, op |-> IF q[i].op = "w" THEN "w" ELSE "r"] ELSE q[i]]
  ELSE Append(q, [path |-> p, op |-> "w"])

OnDelete(q, p) ==
  Append(SelectSeq(q, LAMBDA e : e.path \notin Tree(p)), [path |-> p, op |-> "d"])

(* access.walk(to): parents before children. *)
Walk(n, p) == SetToSortSeq({q \in Tree(p) : n[q] # Absent}, LAMBDA a, b : Len(a) < Len(b))

(* One mutation of t's tree, which becomes n and d, and the call that tells *)
(* the mirror of the paths in told: the queue becomes q, a drain starts     *)
(* unless one runs, and only then does the rest of the call add more.       *)
Mutate(t, n, d, q, more, told) ==
  LET c == Contents(n, d)
      old == View(t)
      moved == {p \in Path : c[p] # old[p]}
      m == [mirror[t] EXCEPT !.queue = q]
      kicked == IF m.pc = "idle" THEN Drain(m, c) ELSE m
  IN /\ up[t] /\ Spend("events")
     /\ node' = [node EXCEPT ![t] = n] /\ data' = [data EXCEPT ![t] = d]
     /\ mirror' = [mirror EXCEPT ![t] = [kicked EXCEPT !.queue = FoldLeft(OnWrite, @, more)]]
     /\ writers' = [p \in Path |-> IF p \in moved \union told THEN writers[p] \union {t} ELSE writers[p]]
     /\ silent' = [silent EXCEPT ![t] = (@ \ told) \union (moved \ told)]
     /\ since' = [since EXCEPT ![t] = IF mirror[t].flush = "no" THEN {} ELSE @ \union moved \union told]
     /\ UNCHANGED <<up, origin, dropped, failed, landed>>

Writes(t, n, d, p) == Mutate(t, n, d, OnWrite(mirror[t].queue, p), <<>>, {p})

HasParent(t, p) == Len(p) > 1 => node[t][Front(p)] = Folder
Free(t) == {i \in Inode : i # fd[t].inode /\ \A p \in Path : node[t][p] # i}

(* OP_WRITE_FILE: a new file, or new contents of the inode the name has. *)
WriteFile(t, p, v) ==
  /\ HasParent(t, p) /\ (node[t][p] = Absent => Free(t) # {})
  /\ LET i == IF node[t][p] = Absent THEN CHOOSE j \in Free(t) : TRUE ELSE node[t][p]
     IN  Writes(t, [node[t] EXCEPT ![p] = i], [data[t] EXCEPT ![i] = v], p)
  /\ UNCHANGED fd

Mkdir(t, p) ==
  /\ HasParent(t, p) /\ node[t][p] = Absent
  /\ Writes(t, [node[t] EXCEPT ![p] = Folder], data[t], p)
  /\ UNCHANGED fd

(* OP_UNLINK, and OP_RMDIR of an empty directory. *)
Unlink(t, p) ==
  /\ node[t][p] # Absent /\ \A q \in Under(p) : node[t][q] = Absent
  /\ Mutate(t, [node[t] EXCEPT ![p] = Absent], data[t], OnDelete(mirror[t].queue, p), <<>>, Tree(p))
  /\ UNCHANGED fd

(* OP_RENAME: whatever the new name was is dropped, with all below it; the  *)
(* mirror deletes the old name and writes all that is now under the new.    *)
Rename(t, from, to) ==
  /\ (from \in Dir <=> to \in Dir) /\ from \notin Tree(to) /\ to \notin Tree(from)
  /\ node[t][from] # Absent /\ HasParent(t, to)
  /\ LET Source(p) == from \o SubSeq(p, Len(to) + 1, Len(p))
         n == [p \in Path |-> IF p \in Tree(to) THEN IF Source(p) \in Path THEN node[t][Source(p)] ELSE Absent
                              ELSE IF p \in Tree(from) THEN Absent ELSE node[t][p]]
     IN  Mutate(t, n, data[t], OnDelete(mirror[t].queue, from), Walk(n, to), Tree(from) \union ToSet(Walk(n, to)))
  /\ UNCHANGED fd

(* OP_LINK: a second name for the inode. *)
Link(t, p, q) ==
  /\ node[t][p] \in Inode /\ HasParent(t, q) /\ node[t][q] = Absent
  /\ Writes(t, [node[t] EXCEPT ![q] = node[t][p]], data[t], q)
  /\ UNCHANGED fd

(* OP_OPEN of a file that exists, without O_TRUNC. *)
Open(t, p) ==
  /\ up[t] /\ fd[t] = NoFd /\ node[t][p] \in Inode /\ Spend("events")
  /\ fd' = [fd EXCEPT ![t] = [inode |-> node[t][p], path |-> p]]
  /\ UNCHANGED <<up, node, data, mirror, origin, history>>

(* OP_FD_WRITE: the mirror is told the path the file was opened by. *)
FdWrite(t, v) ==
  /\ fd[t] # NoFd /\ \E p \in File : node[t][p] = fd[t].inode
  /\ Writes(t, node[t], [data[t] EXCEPT ![fd[t].inode] = v], fd[t].path)
  /\ UNCHANGED fd

Close(t) ==
  /\ fd[t] # NoFd
  /\ Writes(t, node[t], data[t], fd[t].path)
  /\ fd' = [fd EXCEPT ![t] = NoFd]

-----------------------------------------------------------------------------
(* Time.                                                                    *)

(* The interval since the last index write is over. *)
Elapse(t) ==
  /\ mirror[t].recent
  /\ mirror' = [mirror EXCEPT ![t].recent = FALSE]
  /\ UNCHANGED <<up, tree, origin, history, left>>

(* bound: one index write of the timer's at a time. *)
TimerFires(t) ==
  /\ mirror[t].timer
  /\ "timer" \notin mirror[t].waiting /\ ~(lock.tab = t /\ lock.who = "timer")
  /\ mirror' = [mirror EXCEPT ![t] = IF @.dirty THEN StartIndex(@, "timer") ELSE [@ EXCEPT !.timer = FALSE]]
  /\ UNCHANGED <<up, tree, origin, history, left>>

-----------------------------------------------------------------------------
(* drain(), after an await.                                                 *)

(* What the removal or the write in progress may leave of the files. *)
Removed(t) == [q \in Path |-> IF q \in Tree(mirror[t].cur.path) THEN Absent ELSE disk[q]]
Written(t, b) == IF mirror[t].cur.path \in Dir THEN disk ELSE [disk EXCEPT ![mirror[t].cur.path] = b]

(* removePath is recursive, and so is what the index is to forget; that the *)
(* removal failed, nobody is told.                                          *)
DrainRemoved(t) ==
  /\ mirror[t].pc = "removing"
  /\ disk' \in {disk, Removed(t)}
  /\ LET e == mirror[t].cur
         gone == {e.path} \union (mirror[t].meta \intersect Under(e.path))
         m == [mirror[t] EXCEPT !.meta = @ \ gone, !.dirty = TRUE,
                                !.owned = [q \in Path |-> IF q \in gone THEN "d" ELSE @[q]]]
     IN  /\ mirror' = [mirror EXCEPT ![t] =
                         CASE e.op = "r" /\ View(t)[e.path] # Absent -> Writing(m, View(t), e)
                           [] e.op = "r" /\ View(t)[e.path] = Absent -> Drain(m, View(t))
                           [] e.op = "d" -> NextEntry(m, View(t))]
         /\ dropped' = [dropped EXCEPT ![t] = @ \ Tree(e.path)]
  /\ UNCHANGED <<up, tree, lock, batch, live, stage, writers, silent, since, failed, landed, left>>

DrainWritten(t) ==
  /\ mirror[t].pc = "writing"
  /\ LET e == mirror[t].cur
         m == [mirror[t] EXCEPT !.meta = @ \union {e.path}, !.owned[e.path] = "w", !.dirty = TRUE]
     IN  /\ disk' = Written(t, e.bytes)
         /\ mirror' = [mirror EXCEPT ![t] = NextEntry(m, View(t))]
         /\ dropped' = [dropped EXCEPT ![t] = @ \ {e.path}]
  /\ UNCHANGED <<up, tree, lock, batch, live, stage, writers, silent, since, failed, landed, left>>

(* "Keep draining; a single bad entry shouldn't wedge the queue." *)
DrainWriteFails(t) ==
  /\ mirror[t].pc = "writing" /\ Spend("faults")
  /\ disk' \in {disk, Written(t, Torn)}
  /\ mirror' = [mirror EXCEPT ![t] = NextEntry(@, View(t))]
  /\ dropped' = [dropped EXCEPT ![t] = @ \union {mirror[t].cur.path}]
  /\ UNCHANGED <<up, tree, lock, batch, live, stage, writers, silent, since, failed, landed>>

-----------------------------------------------------------------------------
(* writeManifest, under the lock.                                           *)

(* readManifest: the live copy if it parses, or the staged one. *)
Readable == live.state = "whole" \/ stage.state = "whole" \/ (live = Missing /\ stage = Missing)
Index == IF live.state = "whole" THEN live.paths ELSE stage.paths

(* The changes are taken up front: the drain goes on meanwhile. *)
IndexLocked(t, who) ==
  /\ who \in mirror[t].waiting /\ lock = NoLock
  /\ lock' = [tab |-> t, who |-> who, step |-> "merge"]
  /\ batch' = mirror[t].owned
  /\ mirror' = [mirror EXCEPT ![t].waiting = @ \ {who}, ![t].owned = Untouched]
  /\ UNCHANGED <<up, tree, live, stage, disk, history, left>>

(* Mutant: the index is this tab's whole view. *)
Merged_WholeMeta(t) == mirror[t].meta

(* mergeIntoIndex: this tab's changes, on what the index holds. *)
Merged(t) ==
  LET base == IF live = Missing /\ stage = Missing THEN mirror[t].meta ELSE Index
      changed == {p \in Path : batch[p] # "-"}
  IN  (base \ changed) \union {p \in changed : batch[p] = "w" /\ p \in mirror[t].meta}

IndexStaged(t) ==
  /\ lock.tab = t /\ lock.step = "merge" /\ Readable
  /\ stage' = Whole(Merged(t))
  /\ lock' = [lock EXCEPT !.step = "replace"]
  /\ UNCHANGED <<up, tree, mirror, batch, live, disk, history, left>>

(* The lock is free, and whoever awaited the index write goes on. *)
Released(t, m) ==
  /\ lock' = NoLock /\ batch' = Untouched
  /\ mirror' = [mirror EXCEPT ![t] =
                  CASE lock.who = "drain" -> Resume(m, View(t))
                    [] lock.who = "flush" -> FlushReturn(m, View(t))
                    [] lock.who = "timer" -> m]

(* move(), or the copy where there is none or it failed. *)
IndexReplaced(t) ==
  /\ lock.tab = t /\ lock.step = "replace"
  /\ live' = stage /\ stage' = Missing /\ landed' = stage.paths
  /\ failed' = [failed EXCEPT ![t] = FALSE]
  /\ Released(t, [mirror[t] EXCEPT !.recent = TRUE])
  /\ UNCHANGED <<up, tree, disk, writers, silent, dropped, since, left>>

(* What did not land is put back, unless a newer change to the path did. *)
IndexGivenUp(t) ==
  /\ failed' = [failed EXCEPT ![t] = TRUE]
  /\ Released(t, [mirror[t] EXCEPT !.dirty = TRUE,
                    !.owned = [p \in Path |-> IF @[p] = "-" THEN batch[p] ELSE @[p]]])
  /\ UNCHANGED <<up, tree, disk, writers, silent, dropped, since, landed>>

(* "An index that exists but cannot be parsed must not be replaced." *)
IndexUnreadable(t) ==
  /\ lock.tab = t /\ lock.step = "merge" /\ ~Readable
  /\ IndexGivenUp(t)
  /\ UNCHANGED <<live, stage, left>>

StageFails(t) ==
  /\ lock.tab = t /\ lock.step = "merge" /\ Readable /\ Spend("faults")
  /\ stage' \in {stage, TornCopy}
  /\ IndexGivenUp(t)
  /\ UNCHANGED live

(* The copy failed; the staged copy is removed all the same. *)
CopyFails(t) ==
  /\ lock.tab = t /\ lock.step = "replace" /\ Spend("faults")
  /\ live' \in {live, TornCopy} /\ stage' = Missing
  /\ IndexGivenUp(t)

-----------------------------------------------------------------------------
(* flush().                                                                 *)

(* The drain is over; project paths queued since are drained. *)
Settle(m, c) == IF Order(m) # <<>> THEN Drain([m EXCEPT !.flush = "draining"], c) ELSE Force(m, c)

FlushCalled(t) ==
  /\ up[t] /\ mirror[t].flush = "no" /\ Spend("flushes")
  /\ LET m == [mirror[t] EXCEPT !.flush = "settling", !.urgent = TRUE]
     IN  mirror' = [mirror EXCEPT ![t] = IF m.pc = "idle" THEN Settle(m, View(t)) ELSE m]
  /\ since' = [since EXCEPT ![t] = {}]
  /\ UNCHANGED <<up, tree, origin, writers, silent, dropped, failed, landed>>

FlushSettled(t) ==
  /\ mirror[t].flush = "settling" /\ mirror[t].pc = "idle"
  /\ mirror' = [mirror EXCEPT ![t] = Settle(@, View(t))]
  /\ UNCHANGED <<up, tree, origin, history, left>>

-----------------------------------------------------------------------------
(* The tab is closed, reloaded or killed, and opened again.                 *)

(* A killed tab may leave the file, or the copy of the index, that it was   *)
(* writing torn.                                                            *)
Crash(t) ==
  /\ up[t] /\ Spend("faults")
  /\ up' = [up EXCEPT ![t] = FALSE]
  /\ node' = [node EXCEPT ![t] = [p \in Path |-> Absent]]
  /\ data' = [data EXCEPT ![t] = [i \in Inode |-> AnyValue]]
  /\ fd' = [fd EXCEPT ![t] = NoFd]
  /\ mirror' = [mirror EXCEPT ![t] = Opened({})]
  /\ \/ UNCHANGED disk
     \/ mirror[t].pc = "writing" /\ disk' = Written(t, Torn)
     \/ mirror[t].pc = "removing" /\ disk' = Removed(t)
  /\ IF lock.tab # t THEN UNCHANGED <<lock, batch, live, stage>>
     ELSE /\ lock' = NoLock /\ batch' = Untouched
          /\ \/ UNCHANGED <<live, stage>>
             \/ lock.step = "merge" /\ stage' = TornCopy /\ UNCHANGED live
             \/ lock.step = "replace" /\ live' = TornCopy /\ UNCHANGED stage
  /\ silent' = [silent EXCEPT ![t] = {}] /\ dropped' = [dropped EXCEPT ![t] = {}]
  /\ since' = [since EXCEPT ![t] = {}] /\ failed' = [failed EXCEPT ![t] = FALSE]
  /\ UNCHANGED <<writers, landed>>

(* restore() runs before the tab serves anything; an index that cannot be   *)
(* read restores nothing.                                                   *)
Boot(t) ==
  /\ ~up[t] /\ lock = NoLock
  /\ up' = [up EXCEPT ![t] = TRUE]
  /\ LET index == IF Readable THEN Index ELSE {}
         r == Restored(index, disk)
     IN  /\ mirror' = [mirror EXCEPT ![t] = Opened(index)]
         /\ node' = [node EXCEPT ![t] = r.node] /\ data' = [data EXCEPT ![t] = r.data]
         /\ silent' = [silent EXCEPT ![t] = {p \in Path \ index : r.node[p] # Absent}]
  /\ UNCHANGED <<fd, origin, writers, dropped, since, failed, landed, left>>

DrainStep(t) == DrainRemoved(t) \/ DrainWritten(t) \/ DrainWriteFails(t)
IndexStep(t) ==
  IndexStaged(t) \/ IndexReplaced(t) \/ IndexUnreadable(t) \/ StageFails(t) \/ CopyFails(t)

Next ==
  \E t \in Tab :
    \/ \E p \in File, v \in Value : WriteFile(t, p, v)
    \/ \E p \in Dir : Mkdir(t, p)
    \/ \E p \in Path : Unlink(t, p)
    \/ \E p, q \in Path : Rename(t, p, q)
    \/ \E p, q \in File : Link(t, p, q)
    \/ \E p \in File : Open(t, p)
    \/ \E v \in Value : FdWrite(t, v)
    \/ Close(t)
    \/ Elapse(t) \/ TimerFires(t)
    \/ DrainStep(t)
    \/ \E w \in Who : IndexLocked(t, w)
    \/ IndexStep(t)
    \/ FlushCalled(t) \/ FlushSettled(t)
    \/ Crash(t) \/ Boot(t)

Spec == Init /\ [][Next]_vars

-----------------------------------------------------------------------------
(* Properties.                                                              *)

(* Nothing of t's is under way. *)
Settled(t) ==
  /\ mirror[t].queue = <<>> /\ mirror[t].pc = "idle" /\ mirror[t].flush = "no"
  /\ mirror[t].owned = Untouched /\ mirror[t].waiting = {} /\ lock.tab # t

Alone(t, p) == writers[p] = {t} /\ \A q \in Under(p) : writers[q] \subseteq {t}

(* What a tab opened now would find. *)
Mirrored == LET r == Restored(Index, disk) IN Contents(r.node, r.data)

(* Once a tab has settled, the mirror holds exactly its tree at every path  *)
(* that it alone changed, whatever it did there and whatever the other tabs *)
(* did meanwhile: nothing deleted comes back and nothing written is lost    *)
(* (OnWrite's "r", OnDelete's sweep, the merge of owned).  Set aside:       *)
(* changes the mirror was not told of, and writes that failed.              *)
MirrorExact ==
  \A t \in Tab : up[t] /\ Settled(t) /\ Readable =>
    \A p \in Path : Alone(t, p) /\ p \notin silent[t] \union dropped[t] => Mirrored[p] = View(t)[p]

(* The same without setting aside what FsServer does not tell the mirror.   *)
MirrorComplete ==
  \A t \in Tab : up[t] /\ Settled(t) /\ Readable =>
    \A p \in Path : Alone(t, p) /\ p \notin dropped[t] => Mirrored[p] = View(t)[p]

(* A tab that rewrites the index drops from it only paths it changed        *)
(* itself: tabs do not erase each other (mergeIntoIndex).                   *)
IndexKeepsOthers ==
  [][live.state = "whole" /\ live'.state = "whole" =>
       \A p \in live.paths \ live'.paths : lock.tab \in writers[p]]_vars

(* One tab killed at any step, in the middle of an index write too, costs no *)
(* one the index: the next boot finds the last one that landed, or the      *)
(* complete one that was about to (replaceManifest, readManifest).          *)
CrashSurvived ==
  [][\A t \in Tab : ~up[t] /\ up'[t] /\ landed # {} /\ left.faults = MaxFaults - 1 =>
       mirror'[t].meta = landed \/ (stage.state = "whole" /\ mirror'[t].meta = stage.paths)]_vars

(* The index outlives the other tabs and one crash (mergeIntoIndex,         *)
(* replaceManifest).                                                        *)
IndexIsSafe == IndexKeepsOthers /\ CrashSurvived

(* A live index that landed stays readable, the copy fallback included.     *)
IndexStaysReadable == live # Missing => Readable

(* A change the index does not have yet is never forgotten: a drain, a      *)
(* timer or an index write will bring it, unless the last one failed        *)
(* (writeManifest takes owned before it reads the index; maybeWriteManifest *)
(* lowers the flag before it writes).                                       *)
ChangesAreOnTheirWay ==
  \A t \in Tab : mirror[t].owned # Untouched =>
    mirror[t].pc # "idle" \/ mirror[t].timer \/ mirror[t].waiting # {} \/ failed[t]

(* When flush returns, every project path changed before it was called is   *)
(* in the index with its contents: "the one place durability is promised".  *)
(* Set aside: writes that failed, and a flush that found the flag lowered   *)
(* by an index write of the timer's that is still under way.                *)
FlushIsDurable ==
  [][\A t \in Tab :
       /\ mirror[t].flush # "no" /\ mirror'[t].flush = "no" /\ up'[t]
       /\ IF lock.tab = t THEN lock.who = "flush" ELSE mirror[t].waiting = {}
       /\ ~failed'[t] /\ Readable'
       => \A p \in Path \ Low : Alone(t, p) /\ p \notin since[t] \union silent[t] \union dropped[t] =>
            Mirrored'[p] = View(t)[p]]_vars

(* A path in the queue is never forgotten either: while no drain runs, only *)
(* a flush in a hurry keeps cache paths waiting (drain's and flush's        *)
(* finally start the drain that work arriving late would miss).             *)
QueueIsDrained ==
  \A t \in Tab : mirror[t].queue # <<>> /\ mirror[t].pc = "idle" =>
    mirror[t].urgent

(* Nothing a tab has to bring to the mirror is forgotten on the way.        *)
NothingForgotten == TypeOK /\ ChangesAreOnTheirWay /\ QueueIsDrained

==============================================================================
