------------------------------- MODULE ByteStore -------------------------------
(***************************************************************************)
(* What the file layer promises to a program: files of plain bytes behind  *)
(* descriptors.  There is no compression and no cache here; Vfs, which has *)
(* both, implements it (packages/vfs/src/lib.rs).                          *)
(***************************************************************************)
EXTENDS Integers, Sequences, Functions

CONSTANTS
  Ids,      (* what may be opened: files, and other nodes                  *)
  Fds,
  Bodies,   (* byte strings that are stored or written at once            *)
  MaxLen    (* bound: lengths and offsets of calls                        *)

VARIABLES
  contents,  (* file -> its bytes                                          *)
  fds        (* descriptor -> its file, cursor and rights                  *)

Exists(i) == i \in DOMAIN contents

Put(i, c) == contents' = [j \in DOMAIN contents \union {i} |-> IF j = i THEN c ELSE contents[j]]

Init == contents = <<>> /\ fds = <<>>

(* A file is stored whole: a new one, or over the old content. *)
Store(i, c) == UNCHANGED fds /\ Put(i, c)

(* The last name of a file goes, and the file with it. *)
Remove(i) ==
  /\ Exists(i)
  /\ UNCHANGED fds
  /\ contents' = Restrict(contents, DOMAIN contents \ {i})

(* Something is opened: an existing file as it is or emptied, a new empty   *)
(* file, or a node that is no file.                                         *)
Open(fd, i, readable, writable, append) ==
  /\ DOMAIN fds' = DOMAIN fds \union {fd}
  /\ \/ UNCHANGED contents
     \/ writable /\ Put(i, <<>>)
  /\ fds' = [x \in DOMAIN fds \union {fd} |->
               IF x # fd THEN fds[x]
               ELSE [inode |-> i, readable |-> readable, writable |-> writable, append |-> append,
                     pos |-> IF append /\ i \in DOMAIN contents' THEN Len(contents'[i]) ELSE 0]]

Close(fd) ==
  /\ UNCHANGED contents
  /\ fds' = Restrict(fds, DOMAIN fds \ {fd})

(* A read moves the cursor past what it returned, which is what the file    *)
(* holds there and no more.                                                 *)
Returned(i, start, len) ==
  IF start >= Len(contents[i]) THEN 0
  ELSE IF start + len > Len(contents[i]) THEN Len(contents[i]) - start ELSE len
Read(fd, len) ==
  /\ fds[fd].readable /\ Exists(fds[fd].inode)
  /\ UNCHANGED contents
  /\ fds' = [fds EXCEPT ![fd].pos = @ + Returned(fds[fd].inode, @, len)]

(* Bytes c with the byte string d at start, the gap filled with zeros. *)
Larger(a, b) == IF a > b THEN a ELSE b
Written(c, start, d) ==
  [k \in 1..Larger(Len(c), start + Len(d)) |->
     IF k > start /\ k <= start + Len(d) THEN d[k - start]
     ELSE IF k <= Len(c) THEN c[k] ELSE 0]
Write(fd, d, pos) ==
  LET i == fds[fd].inode
      start == IF fds[fd].append THEN Len(contents[i]) ELSE IF pos >= 0 THEN pos ELSE fds[fd].pos
  IN /\ fds[fd].writable /\ Exists(i)
     /\ Put(i, Written(contents[i], start, d))
     /\ fds' = IF fds[fd].append \/ pos < 0 THEN [fds EXCEPT ![fd].pos = start + Len(d)] ELSE fds

Resized(c, len) == [k \in 1..len |-> IF k <= Len(c) THEN c[k] ELSE 0]
Truncate(fd, len) ==
  /\ fds[fd].writable /\ Exists(fds[fd].inode)
  /\ UNCHANGED fds
  /\ Put(fds[fd].inode, Resized(contents[fds[fd].inode], len))

Next ==
  \/ \E i \in Ids : Remove(i) \/ \E c \in Bodies : Store(i, c)
  \/ \E fd \in Fds \ DOMAIN fds, i \in Ids, r, w, a \in BOOLEAN : Open(fd, i, r, w, a)
  \/ \E fd \in DOMAIN fds :
       \/ Close(fd)
       \/ \E n \in 0..MaxLen : Read(fd, n) \/ Truncate(fd, n)
       \/ \E d \in Bodies, pos \in -1..MaxLen : Write(fd, d, pos)

Spec == Init /\ [][Next]_<<contents, fds>>
===============================================================================
