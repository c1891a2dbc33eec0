------------------------------ MODULE FileLocks ------------------------------
(***************************************************************************)
(* The advisory lock table of the File System Worker                       *)
(* (packages/kernel-host/file-locks.js), as FsServer serves it             *)
(* (packages/kernel-host/fs-server.js).  Every process and every thread    *)
(* runs its own SQLite engine, so this table is all that stands between    *)
(* two connections to one database.  The FS worker services one request    *)
(* at a time, so each request is one action.  A request never waits: it    *)
(* answers with the level the caller holds afterwards.                     *)
(***************************************************************************)
EXTENDS Naturals

CONSTANTS
  Client,  (* process and thread ids; the kernel never reuses one          *)
  Conn,    (* connection numbers, unique within one client's engine only   *)
  Path     (* database files                                               *)

NONE == 0
SHARED == 1
RESERVED == 2
PENDING == 3
EXCLUSIVE == 4
Level == NONE..EXCLUSIVE

(* The levels xLock and xUnlock pass. *)
AcquireLevel == SHARED..EXCLUSIVE
ReleaseLevel == NONE..SHARED

(* FileLocks.ownerKey: the same connection number in two clients is two owners. *)
Owner == Client \X Conn

VARIABLES
  files,    (* the paths that have an entry in the table                   *)
  level,    (* level[p][o]; NONE stands for "o is not in p's holders"      *)
  clients   (* clients FsServer serves: not yet known, registered, gone    *)

vars == <<files, level, clients>>

TypeOK ==
  /\ files \in SUBSET Path
  /\ level \in [Path -> [Owner -> Level]]
  /\ clients \in [Client -> {"new", "registered", "gone"}]

Init ==
  /\ files = {}
  /\ level = [p \in Path |-> [o \in Owner |-> NONE]]
  /\ clients = [c \in Client |-> "new"]

-----------------------------------------------------------------------------

(* _highestOther(holders, me) >= l *)
OtherHolds(p, o, l) == \E q \in Owner \ {o} : level[p][q] >= l

(* Mutants of acquire, each a way the conditions could be got wrong.        *)
Refused_NoPendingCheck(p, o, l) ==
  \/ l <= level[p][o]
  \/ l = SHARED /\ OtherHolds(p, o, PENDING)
  \/ l >= RESERVED /\ level[p][o] < SHARED
  \/ l = RESERVED /\ OtherHolds(p, o, RESERVED)


Refused_ReadersPastPending(p, o, l) ==
  \/ l <= level[p][o]
  \/ l = SHARED /\ OtherHolds(p, o, EXCLUSIVE)
  \/ l >= RESERVED /\ level[p][o] < SHARED
  \/ l = RESERVED /\ OtherHolds(p, o, RESERVED)
  \/ l >= PENDING /\ level[p][o] < PENDING /\ OtherHolds(p, o, PENDING)

(* The requests `acquire` answers with the level already held. *)
Refused(p, o, l) ==
  \/ l <= level[p][o]
  \/ l = SHARED /\ OtherHolds(p, o, PENDING)
  \/ l >= RESERVED /\ level[p][o] < SHARED
  \/ l = RESERVED /\ OtherHolds(p, o, RESERVED)
  \/ l >= PENDING /\ level[p][o] < PENDING /\ OtherHolds(p, o, PENDING)

(* Mutant: a writer that does not wait for readers. *)
Granted_IgnoresReaders(p, o, l) == IF Refused(p, o, l) THEN level[p][o] ELSE l

(* The level `acquire` leaves o at.  A writer that still has readers in its *)
(* way fails but keeps PENDING.                                             *)
Granted(p, o, l) ==
  IF Refused(p, o, l) THEN level[p][o]
  ELSE IF l = EXCLUSIVE /\ OtherHolds(p, o, SHARED) THEN PENDING
  ELSE l

(* The level `release` leaves o at when it asks to drop to l. *)
Lowered(p, o, l) == IF level[p][o] < l THEN level[p][o] ELSE l

(* A path whose last holder went away loses its entry (_settle and the ends *)
(* of release and releaseClient).                                           *)
Held(lv) == {p \in Path : \E o \in Owner : lv[p][o] # NONE}


Acquire(c, n, p, l) ==
  /\ clients[c] = "registered"
  /\ level' = [level EXCEPT ![p][<<c, n>>] = Granted(p, <<c, n>>, l)]
  /\ files' = (files \ {p}) \union (Held(level') \intersect {p})
  /\ UNCHANGED clients

Release(c, n, p, l) ==
  /\ clients[c] = "registered"
  /\ p \in files
  /\ level' = [level EXCEPT ![p][<<c, n>>] = Lowered(p, <<c, n>>, l)]
  /\ files' = (files \ {p}) \union (Held(level') \intersect {p})
  /\ UNCHANGED clients

(* xCheckReservedLock's answer; it changes nothing. *)
CheckReserved(c, n, p) == p \in files /\ OtherHolds(p, <<c, n>>, RESERVED)

(* Mutant: unregister forgets releaseClient. *)
WithoutClient_Noop(c) == level

(* releaseClient: every entry whose key starts with the client's prefix. *)
WithoutClient(c) ==
  [p \in Path |-> [o \in Owner |-> IF o[1] = c THEN NONE ELSE level[p][o]]]

Register(c) ==
  /\ clients[c] = "new"
  /\ clients' = [clients EXCEPT ![c] = "registered"]
  /\ UNCHANGED <<files, level>>

(* The process exited or was killed.  A request it rang before, found by    *)
(* the worker after this, is dropped: service() sees no such client.        *)
Unregister(c) ==
  /\ clients[c] = "registered"
  /\ clients' = [clients EXCEPT ![c] = "gone"]
  /\ level' = WithoutClient(c)
  /\ files' = files \intersect Held(level')

Next ==
  \/ \E c \in Client : Register(c) \/ Unregister(c)
  \/ \E c \in Client, n \in Conn, p \in Path :
       \/ \E l \in AcquireLevel : Acquire(c, n, p, l)
       \/ \E l \in ReleaseLevel : Release(c, n, p, l)

Spec == Init /\ [][Next]_vars

-----------------------------------------------------------------------------

(* A connection at EXCLUSIVE, the level at which SQLite writes pages into   *)
(* the database file, is alone: no other connection is even reading.        *)
ExclusiveIsAlone ==
  \A p \in Path, o, q \in Owner :
    o # q /\ level[p][o] = EXCLUSIVE => level[p][q] = NONE

(* At most one connection is past the point of no new readers. *)
OnePending ==
  \A p \in Path, o, q \in Owner :
    level[p][o] >= PENDING /\ level[p][q] >= PENDING => o = q

(* At most one connection is preparing a write.  RESERVED may coexist with  *)
(* another connection's PENDING (a hot-journal recovery goes from SHARED    *)
(* straight to EXCLUSIVE), so this is about the level RESERVED itself.      *)
OneReserved ==
  \A p \in Path, o, q \in Owner :
    level[p][o] = RESERVED /\ level[p][q] = RESERVED => o = q

(* Writers exclude each other at every stage, and readers at the last one   *)
(* (acquire).                                                               *)
WritersExclude == ExclusiveIsAlone /\ OnePending /\ OneReserved

(* No lock of a killed or finished process survives it: otherwise the       *)
(* database would stay busy for ever for everyone else.                     *)
OnlyRegisteredHold ==
  \A p \in Path, o \in Owner :
    level[p][o] # NONE => clients[o[1]] = "registered"

(* "An unlocked database leaves nothing behind in the table." *)
TableHoldsOnlyHeld == files = Held(level)

(* Locks and table entries end with whoever held them (releaseClient,       *)
(* _settle).                                                                *)
NothingLeaks == OnlyRegisteredHold /\ TableHoldsOnlyHeld

(* While one connection is at PENDING or above, every other connection can  *)
(* only go down: nobody starts reading, upgrades, or takes the waiting      *)
(* writer's turn, so the readers it waits for only drain.                   *)
PendingDrainsReaders ==
  [][\A p \in Path, o \in Owner :
       level[p][o] >= PENDING
         => \A q \in Owner \ {o} : level'[p][q] <= level[p][q]]_vars

(* The table implements reader/writer access: SHARED and above reads,       *)
(* EXCLUSIVE writes; RESERVED and PENDING are how a writer gets there.      *)
Reading == [p \in Path |-> {o \in Owner : level[p][o] >= SHARED}]
Writing == [p \in Path |-> {o \in Owner : level[p][o] = EXCLUSIVE}]

Access == INSTANCE DbAccess WITH reading <- Reading, writing <- Writing

(* Every step of the table is a step of reader/writer access or invisible   *)
(* to it.                                                                   *)
ImplementsAccess == Access!Spec
==============================================================================
