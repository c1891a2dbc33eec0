---------------------------------- MODULE Vfs ----------------------------------
(***************************************************************************)
(* The in-memory file system (packages/vfs/src/lib.rs): a table of inodes, *)
(* directories that name them, hard and symbolic links, descriptors; file  *)
(* bodies that are compressed once nobody writes them, and a bounded cache *)
(* of inflated bodies for reads.                                           *)
(*                                                                         *)
(* One worker runs one call at a time.  Calls that fail change nothing and *)
(* are left out, except those that fail half-way.  Modes and times are     *)
(* left out.  A compressed body is its bytes with a mark; whether zlib     *)
(* makes a body small enough is a choice.                                  *)
(***************************************************************************)
EXTENDS Integers, Sequences, FiniteSets, SequencesExt, Functions

CONSTANTS
  Paths,               (* paths that calls are given: sequences of names    *)
  Targets,             (* of symbolic links: [abs, comps]                   *)
  Bodies,              (* byte strings that are written                     *)
  MIN_COMPRESS_BYTES, HOT_CACHE_MAX_BYTES, SYMLINK_MAX_DEPTH,
  MaxInodes,           (* bound: inodes ever made                           *)
  MaxFds,              (* bound: descriptors ever given                     *)
  MaxLen               (* bound: size of a file                             *)

ROOT_ID == 1
FIRST_FD == 3

ASSUME VfsAssumption ==
  /\ MIN_COMPRESS_BYTES \in Nat /\ HOT_CACHE_MAX_BYTES \in Nat /\ SYMLINK_MAX_DEPTH \in Nat
  /\ MaxInodes \in Nat /\ MaxFds \in Nat /\ MaxLen \in Nat
  /\ \A b \in Bodies : Len(b) <= MaxLen

VARIABLES
  inodes,       (* id -> [data, nlink, wopen]                               *)
  next_id,
  open_files,   (* fd -> [inode, pos, readable, writable, append]           *)
  next_fd,
  compression,
  hot           (* inflated bodies: [map, order, bytes]                     *)

vars == <<inodes, next_id, open_files, next_fd, compression, hot>>

File(b) == [kind |-> "file", zip |-> FALSE, bytes |-> b]
Dir == [kind |-> "dir", entries |-> <<>>]
Symlink(t) == [kind |-> "symlink", target |-> t]
Kind(i) == inodes[i].data.kind

NoHot == [map |-> <<>>, order |-> <<>>, bytes |-> 0]
Init ==
  /\ inodes = [i \in {ROOT_ID} |-> [data |-> Dir, nlink |-> 0, wopen |-> 0]]
  /\ next_id = ROOT_ID + 1
  /\ open_files = <<>> /\ next_fd = FIRST_FD
  /\ compression = FALSE
  /\ hot = NoHot

-----------------------------------------------------------------------------
(* Paths.                                                                   *)

Fail(e) == [err |-> e, stack |-> <<>>]

(* walk: the stack keeps the ancestry, so that ".." works. *)
RECURSIVE Walk(_, _, _, _)
Walk(stack, comps, follow_last, depth) ==
  IF depth > SYMLINK_MAX_DEPTH THEN Fail("ELOOP")
  ELSE IF comps = <<>> THEN [err |-> "none", stack |-> stack]
  ELSE IF Head(comps) = ".."
  THEN Walk(IF Len(stack) > 1 THEN Front(stack) ELSE stack, Tail(comps), follow_last, depth)
  ELSE IF Kind(Last(stack)) # "dir" THEN Fail("ENOTDIR")
  ELSE IF Head(comps) \notin DOMAIN inodes[Last(stack)].data.entries THEN Fail("ENOENT")
  ELSE LET child == inodes[Last(stack)].data.entries[Head(comps)]
           last == Len(comps) = 1
       IN IF Kind(child) = "symlink" /\ (last => follow_last)
          THEN LET t == inodes[child].data.target
                   sub == Walk(IF t.abs THEN <<ROOT_ID>> ELSE stack, t.comps, TRUE, depth + 1)
               IN IF sub.err # "none" THEN sub ELSE Walk(sub.stack, Tail(comps), follow_last, depth)
          ELSE Walk(Append(stack, child), Tail(comps), follow_last, depth)

Resolve(path, follow_last) == Walk(<<ROOT_ID>>, path, follow_last, 0)
Ok(r) == r.err = "none"
Id(r) == Last(r.stack)

(* What a path leads to, and where it puts its last name (resolve_parent): *)
(* at most one of each.                                                     *)
Node(path, follow_last) ==
  LET r == Resolve(path, follow_last) IN IF Ok(r) THEN {Id(r)} ELSE {}
Entry(path) ==
  IF path = <<>> \/ Last(path) = ".." THEN {}
  ELSE {[dir |-> d, name |-> Last(path)] : d \in {d \in Node(Front(path), TRUE) : Kind(d) = "dir"}}

Named(at) == at.name \in DOMAIN inodes[at.dir].data.entries
Child(at) == inodes[at.dir].data.entries[at.name]

-----------------------------------------------------------------------------
(* Links, on a table of inodes.                                             *)

Plus(ns, i, node) == [j \in DOMAIN ns \union {i} |-> IF j = i THEN node ELSE ns[j]]

(* link_child *)
Linked(ns, parent, name, child) ==
  LET entries == ns[parent].data.entries
      put == [ns EXCEPT ![parent].data.entries =
                [n \in DOMAIN entries \union {name} |-> IF n = name THEN child ELSE entries[n]]]
  IN IF child \in DOMAIN ns THEN [put EXCEPT ![child].nlink = @ + 1] ELSE put

(* unlink_child: the one place where inodes are freed. *)
Unlinked(ns, parent, name) ==
  IF parent \notin DOMAIN ns \/ name \notin DOMAIN ns[parent].data.entries THEN ns
  ELSE LET entries == ns[parent].data.entries
           child == entries[name]
           cut == [ns EXCEPT ![parent].data.entries = Restrict(entries, DOMAIN entries \ {name}),
                             ![child].nlink = @ - 1]
       IN IF cut[child].nlink = 0 THEN Restrict(cut, DOMAIN cut \ {child}) ELSE cut

(* alloc, and link_child *)
Made(ns, parent, name, data) ==
  Linked(Plus(ns, next_id, [data |-> data, nlink |-> 0, wopen |-> 0]), parent, name, next_id)
Fresh(data, at) ==
  /\ next_id <= MaxInodes
  /\ next_id' = next_id + 1
  /\ inodes' = Made(inodes, at.dir, at.name, data)

-----------------------------------------------------------------------------
(* The cache of inflated bodies.                                            *)

Invalidated_BytesKept(h, i) ==    (* mutant: the count is not lowered *)
  IF i \notin DOMAIN h.map THEN h
  ELSE [h EXCEPT !.map = Restrict(h.map, DOMAIN h.map \ {i}),
                 !.order = SelectSeq(h.order, LAMBDA x : x # i)]
Invalidated(h, i) ==
  IF i \notin DOMAIN h.map THEN h
  ELSE [map |-> Restrict(h.map, DOMAIN h.map \ {i}),
        order |-> SelectSeq(h.order, LAMBDA x : x # i),
        bytes |-> h.bytes - Len(h.map[i])]

(* The oldest go until the rest fits; the newest stays, whatever its size.  *)
Weight(h, ids) == FoldSeq(LAMBDA i, w : w + Len(h.map[i]), 0, ids)
Evicted(h) ==
  LET n == Len(h.order)
      gone == Min({n - 1} \union {k \in 0..n - 1 :
                     h.bytes - Weight(h, SubSeq(h.order, 1, k)) <= HOT_CACHE_MAX_BYTES})
      kept == SubSeq(h.order, gone + 1, n)
  IN [map |-> Restrict(h.map, ToSet(kept)), order |-> kept,
      bytes |-> h.bytes - Weight(h, SubSeq(h.order, 1, gone))]
Inserted(h, i, buf) ==
  LET old == Invalidated(h, i)
  IN Evicted([map |-> Plus(old.map, i, buf), order |-> Append(old.order, i),
              bytes |-> old.bytes + Len(buf)])

IsZip(ns, i) == i \in DOMAIN ns /\ ns[i].data.kind = "file" /\ ns[i].data.zip
EnsureHot(h, i) ==
  IF i \in DOMAIN h.map \/ ~IsZip(inodes, i) THEN h ELSE Inserted(h, i, inodes[i].data.bytes)

(* maybe_compress, at the end of a call that leaves the table ns. *)
Eligible(ns, i) ==
  /\ compression /\ i \in DOMAIN ns /\ ns[i].wopen = 0
  /\ ns[i].data.kind = "file" /\ ~ns[i].data.zip
  /\ Len(ns[i].data.bytes) >= MIN_COMPRESS_BYTES
MaybeCompress(ns, h, i) ==
  \/ inodes' = ns /\ hot' = h
  \/ /\ Eligible(ns, i)
     /\ inodes' = [ns EXCEPT ![i].data.zip = TRUE]
     /\ hot' = Invalidated(h, i)

-----------------------------------------------------------------------------
(* Calls that take paths.                                                   *)

files == <<open_files, next_fd>>

WriteFile(at, content) ==
  /\ \/ /\ Named(at) /\ Kind(Child(at)) = "file"
        /\ MaybeCompress([inodes EXCEPT ![Child(at)].data = File(content)],
                         Invalidated(hot, Child(at)), Child(at))
        /\ UNCHANGED next_id
     \/ /\ ~Named(at) /\ next_id <= MaxInodes
        /\ next_id' = next_id + 1
        /\ MaybeCompress(Made(inodes, at.dir, at.name, File(content)), hot, next_id)
  /\ UNCHANGED <<files, compression>>

Mkdir(at) ==
  /\ ~Named(at)
  /\ Fresh(Dir, at)
  /\ UNCHANGED <<files, compression, hot>>

(* mkdir -p, which does not follow links.  A path that climbs fails where   *)
(* it does, and what was made stays: the call on the path before that.      *)
Chain(path) ==    (* the directories that are there, 0 where there is none *)
  LET At[k \in 0..Len(path)] ==
        IF k = 0 THEN ROOT_ID
        ELSE IF At[k - 1] # 0 /\ Kind(At[k - 1]) = "dir"
                /\ path[k] \in DOMAIN inodes[At[k - 1]].data.entries
        THEN inodes[At[k - 1]].data.entries[path[k]] ELSE 0
  IN At
MkdirAll(path) ==
  /\ ".." \notin Range(path)
  /\ LET At == Chain(path)
         have == Cardinality({k \in DOMAIN At : At[k] # 0}) - 1
         need == Len(path) - have
         Grow[k \in 0..need] ==
           IF k = 0 THEN inodes
           ELSE LET ns == Grow[k - 1]
                IN Linked(Plus(ns, next_id + k - 1, [data |-> Dir, nlink |-> 0, wopen |-> 0]),
                          IF k = 1 THEN At[have] ELSE next_id + k - 2, path[have + k], next_id + k - 1)
     IN /\ need > 0 /\ Kind(At[have]) = "dir"
        /\ next_id + need - 1 <= MaxInodes
        /\ next_id' = next_id + need
        /\ inodes' = Grow[need]
  /\ UNCHANGED <<files, compression, hot>>

Unlink(at) ==
  /\ Named(at) /\ Kind(Child(at)) # "dir"
  /\ inodes' = Unlinked(inodes, at.dir, at.name)
  /\ UNCHANGED <<next_id, files, compression, hot>>

Rmdir(at) ==
  /\ Named(at) /\ Kind(Child(at)) = "dir"
  /\ DOMAIN inodes[Child(at)].data.entries = {}
  /\ inodes' = Unlinked(inodes, at.dir, at.name)
  /\ UNCHANGED <<next_id, files, compression, hot>>

(* What the destination names goes first; then the new name is added before *)
(* the old one goes.                                                        *)
Moved_NameFirst(ns, child, from, to) ==    (* mutant: the old name goes first *)
  Linked(Unlinked(ns, from.dir, from.name), to.dir, to.name, child)
Moved(ns, child, from, to) ==
  Unlinked(Linked(ns, to.dir, to.name, child), from.dir, from.name)
Rename(from, to) ==
  /\ Named(from) /\ from # to
  /\ inodes' = Moved(Unlinked(inodes, to.dir, to.name), Child(from), from, to)
  /\ UNCHANGED <<next_id, files, compression, hot>>

(* A hard link; to a symbolic link too, not to a directory. *)
Link(existing, at) ==
  /\ Kind(existing) # "dir" /\ ~Named(at)
  /\ inodes' = Linked(inodes, at.dir, at.name, existing)
  /\ UNCHANGED <<next_id, files, compression, hot>>

MakeSymlink(target, at) ==
  /\ ~Named(at)
  /\ Fresh(Symlink(target), at)
  /\ UNCHANGED <<files, compression, hot>>

-----------------------------------------------------------------------------
(* Descriptors.                                                             *)

Flags(r, w, creat, excl, trunc, append) ==
  [readable |-> r, writable |-> w, creat |-> creat, excl |-> excl, trunc |-> trunc, append |-> append]
(* "r", "r+", "w+", "wx+" and "a"; the others combine the same bits. *)
OpenFlags ==
  {Flags(TRUE, FALSE, FALSE, FALSE, FALSE, FALSE), Flags(TRUE, TRUE, FALSE, FALSE, FALSE, FALSE),
   Flags(TRUE, TRUE, TRUE, FALSE, TRUE, FALSE), Flags(TRUE, TRUE, TRUE, TRUE, TRUE, FALSE),
   Flags(FALSE, TRUE, TRUE, FALSE, FALSE, TRUE)}

(* The descriptor of inode i of the table ns; a writer is counted there. *)
Opened(ns, i, f) ==
  /\ next_fd < FIRST_FD + MaxFds
  /\ next_fd' = next_fd + 1
  /\ open_files' = Plus(open_files, next_fd,
       [inode |-> i, readable |-> f.readable, writable |-> f.writable, append |-> f.append,
        pos |-> IF f.append /\ ns[i].data.kind = "file" THEN Len(ns[i].data.bytes) ELSE 0])
  /\ inodes' = IF f.writable THEN [ns EXCEPT ![i].wopen = @ + 1] ELSE ns

OpenExisting(i, f) ==
  LET emptied == f.trunc /\ f.writable /\ Kind(i) = "file"
  IN /\ ~(f.excl /\ f.creat)
     /\ f.writable => Kind(i) # "dir"
     /\ Opened(IF emptied THEN [inodes EXCEPT ![i].data = File(<<>>)] ELSE inodes, i, f)
     /\ hot' = IF emptied THEN Invalidated(hot, i) ELSE hot
     /\ UNCHANGED <<next_id, compression>>

(* A name that leads nowhere is given a new file: the name itself, when it  *)
(* is that of a symbolic link.                                              *)
OpenNew(path, at, f) ==
  /\ Resolve(path, TRUE).err = "ENOENT" /\ f.creat
  /\ next_id <= MaxInodes
  /\ next_id' = next_id + 1
  /\ Opened(Made(inodes, at.dir, at.name, File(<<>>)), next_id, f)
  /\ UNCHANGED <<compression, hot>>

(* The file may be gone; when its last writer closes it, it is compressed.  *)
Released_ByAny(of) == TRUE    (* mutant: a reader's close counts as well *)
Released(of) == of.writable
Close(fd) ==
  LET of == open_files[fd]
      ns == IF of.inode \in DOMAIN inodes /\ Released(of)
            THEN [inodes EXCEPT ![of.inode].wopen = IF @ > 0 THEN @ - 1 ELSE 0] ELSE inodes
  IN /\ open_files' = Restrict(open_files, DOMAIN open_files \ {fd})
     /\ IF Released(of) THEN MaybeCompress(ns, hot, of.inode) ELSE UNCHANGED <<inodes, hot>>
     /\ UNCHANGED <<next_id, next_fd, compression>>

Live(fd) ==
  /\ open_files[fd].inode \in DOMAIN inodes
  /\ inodes[open_files[fd].inode].data.kind = "file"

(* What a read of a file sees: the bytes, or the inflated ones once they    *)
(* are in the cache.                                                        *)
Seen(i, h) ==
  IF inodes[i].data.zip /\ i \in DOMAIN h.map THEN h.map[i] ELSE inodes[i].data.bytes

(* fd_read; at a given offset (cursor is FALSE) only the cache changes. *)
Read(fd, len, cursor) ==
  LET of == open_files[fd]
      seen == Seen(of.inode, hot')
      out == IF of.pos >= Len(seen) THEN 0
             ELSE IF of.pos + len > Len(seen) THEN Len(seen) - of.pos ELSE len
  IN /\ of.readable /\ Live(fd)
     /\ hot' = EnsureHot(hot, of.inode)
     /\ open_files' = IF cursor THEN [open_files EXCEPT ![fd].pos = @ + out] ELSE open_files
     /\ UNCHANGED <<inodes, next_id, next_fd, compression>>

(* raw_mut: what a change of the body starts from. *)
RawMut_Ref(body) == IF body.zip THEN <<>> ELSE body.bytes    (* mutant: raw_ref *)
RawMut(body) == body.bytes

Resized(buf, len) == [k \in 1..len |-> IF k <= Len(buf) THEN buf[k] ELSE 0]

(* fd_write; a negative offset is the cursor. *)
Write(fd, data, pos) ==
  LET of == open_files[fd]
      buf == RawMut(inodes[of.inode].data)
      start == IF of.append THEN Len(buf) ELSE IF pos >= 0 THEN pos ELSE of.pos
      end == start + Len(data)
      grown == Resized(buf, Max({Len(buf), end}))
  IN /\ of.writable /\ Live(fd)
     /\ end <= MaxLen
     /\ hot' = Invalidated(hot, of.inode)
     /\ inodes' = [inodes EXCEPT ![of.inode].data = File([k \in DOMAIN grown |->
                     IF k \in start + 1..end THEN data[k - start] ELSE grown[k]])]
     /\ open_files' = IF of.append \/ pos < 0 THEN [open_files EXCEPT ![fd].pos = end] ELSE open_files
     /\ UNCHANGED <<next_id, next_fd, compression>>

Ftruncate(fd, len) ==
  /\ open_files[fd].writable /\ Live(fd)
  /\ hot' = Invalidated(hot, open_files[fd].inode)
  /\ inodes' = [inodes EXCEPT ![open_files[fd].inode].data = File(Resized(RawMut(@), len))]
  /\ UNCHANGED <<next_id, files, compression>>

(* A write or a truncation of a file that is gone fails, and takes what the *)
(* cache still holds of it.                                                 *)
FailGone(fd) ==
  /\ open_files[fd].writable /\ ~Live(fd)
  /\ hot' = Invalidated(hot, open_files[fd].inode)
  /\ UNCHANGED <<inodes, next_id, files, compression>>

SetCompression(on) ==
  /\ compression' = on
  /\ hot' = IF on THEN hot ELSE NoHot
  /\ UNCHANGED <<inodes, next_id, files>>

-----------------------------------------------------------------------------

Entries == UNION {Entry(path) : path \in Paths}
OnEntry(at) ==
  \/ \E c \in Bodies : WriteFile(at, c)
  \/ Mkdir(at) \/ Unlink(at) \/ Rmdir(at)
  \/ \E t \in Targets : MakeSymlink(t, at)

OnPath(path) ==
  \/ MkdirAll(path)
  \/ \E i \in Node(path, TRUE), f \in OpenFlags : OpenExisting(i, f)
  \/ \E at \in Entry(path), f \in OpenFlags : OpenNew(path, at, f)

OnFd(fd) ==
  \/ Close(fd) \/ FailGone(fd)
  \/ \E len \in 1..MaxLen, cursor \in BOOLEAN : Read(fd, len, cursor)
  \/ \E data \in Bodies, pos \in -1..MaxLen : Write(fd, data, pos)
  \/ \E len \in 0..MaxLen : Ftruncate(fd, len)

Next ==
  \/ \E path \in Paths : OnPath(path)
  \/ \E at \in Entries : OnEntry(at)
  \/ \E from, to \in Entries : Rename(from, to)
  \/ \E at \in Entries : \E existing \in UNION {Node(path, FALSE) : path \in Paths} : Link(existing, at)
  \/ \E fd \in DOMAIN open_files : OnFd(fd)
  \/ \E on \in BOOLEAN : SetCompression(on)

Spec == Init /\ [][Next]_vars

-----------------------------------------------------------------------------
(* Properties.                                                              *)

Leads(i) == IF Kind(i) = "dir" THEN Range(inodes[i].data.entries) ELSE {}

(* Every name leads to an inode that is there, whatever was linked, renamed *)
(* (into itself, or over its own parent too), unlinked or replaced before:  *)
(* walk and the calls behind it unwrap what a name leads to.                *)
NamesResolve == \A i \in DOMAIN inodes : Leads(i) \subseteq DOMAIN inodes

(* The cache holds at most what it may, or one body; its three records of   *)
(* that agree; and what it holds of a file that is there is that file's     *)
(* present content (fd_read looks no further).                              *)
HotIsSound ==
  /\ ToSet(hot.order) = DOMAIN hot.map /\ Len(hot.order) = Cardinality(DOMAIN hot.map)
  /\ hot.bytes = Weight(hot, hot.order)
  /\ hot.bytes <= HOT_CACHE_MAX_BYTES \/ Len(hot.order) = 1
  /\ \A i \in DOMAIN hot.map \intersect DOMAIN inodes :
       IsZip(inodes, i) /\ hot.map[i] = inodes[i].data.bytes

(* A body is compressed only while nobody has it open for writing: "an      *)
(* in-progress write is never fighting the compressor" (Inode.wopen).       *)
Writers(i) == {fd \in DOMAIN open_files : open_files[fd].inode = i /\ open_files[fd].writable}
NeverFightsWriters ==
  [][\A i \in DOMAIN inodes : IsZip(inodes', i) /\ ~IsZip(inodes, i) => Writers(i)' = {}]_vars

(* Compression and cache are invisible: through any calls, on any number of *)
(* descriptors and names, the bytes a read sees and the place it leaves the *)
(* cursor are those of plain files.                                         *)
FileIds == {i \in DOMAIN inodes : Kind(i) = "file"}
Plain == INSTANCE ByteStore WITH
  Ids <- 1..MaxInodes, Fds <- FIRST_FD..FIRST_FD + MaxFds - 1,
  contents <- [i \in FileIds |-> Seen(i, hot)],
  fds <- open_files
ImplementsByteStore == Plain!Spec

(* A descriptor refers to an inode that is there (fstat: "stat the inode    *)
(* behind an open fd").                                                     *)
OpenFileHasInode == \A fd \in DOMAIN open_files : open_files[fd].inode \in DOMAIN inodes
===============================================================================
