--------------------------- MODULE FileLocksProofs ---------------------------
(***************************************************************************)
(* The lock table is safe for any set of clients, connections and          *)
(* databases.  ExclusiveIsAlone is inductive together with OnePending      *)
(* (who may reach EXCLUSIVE) and OneReserved; the other two parts of       *)
(* IInv say that a dead process holds nothing and that the table keeps     *)
(* entries only for locked databases.                                      *)
(***************************************************************************)
EXTENDS FileLocks, TLAPS

IInv ==
  /\ TypeOK
  /\ ExclusiveIsAlone
  /\ OnePending
  /\ OneReserved
  /\ OnlyRegisteredHold
  /\ TableHoldsOnlyHeld

(* What an answer to an acquire can be: never lower than what was held, and *)
(* raised only past the locks the requested level is compatible with.       *)
LEMMA GrantedIsSafe ==
  ASSUME TypeOK, NEW p \in Path, NEW o \in Owner, NEW l \in AcquireLevel
  PROVE  LET g == Granted(p, o, l) IN
         /\ g \in Level
         /\ g >= level[p][o]
         /\ g > level[p][o] /\ g = SHARED => ~ OtherHolds(p, o, PENDING)
         /\ g > level[p][o] /\ g = RESERVED => ~ OtherHolds(p, o, RESERVED)
         /\ g > level[p][o] /\ g >= RESERVED => level[p][o] >= SHARED
         /\ g >= PENDING /\ level[p][o] < PENDING => ~ OtherHolds(p, o, PENDING)
         /\ g = EXCLUSIVE /\ level[p][o] < EXCLUSIVE => ~ OtherHolds(p, o, SHARED)
<1>1. level[p][o] \in Level
  BY DEF TypeOK
<1>2. OtherHolds(p, o, RESERVED) => OtherHolds(p, o, SHARED)
  BY DEF TypeOK, OtherHolds, Level, SHARED, RESERVED
<1>3. OtherHolds(p, o, PENDING) => OtherHolds(p, o, RESERVED)
  BY DEF TypeOK, OtherHolds, Level, PENDING, RESERVED
<1>. QED
  BY <1>1, <1>2, <1>3
  DEF Granted, Refused, Level, AcquireLevel, NONE, SHARED, RESERVED, PENDING, EXCLUSIVE

(* An empty table satisfies the inductive invariant.                        *)
LEMMA InitIInv == Init => IInv
BY DEF Init, IInv, TypeOK, ExclusiveIsAlone, OnePending, OneReserved, OnlyRegisteredHold,
       TableHoldsOnlyHeld, Held, Level, NONE, SHARED, RESERVED, PENDING, EXCLUSIVE

(* An acquire moves one owner, to a level compatible with all the others.   *)
LEMMA AcquireIInv ==
  ASSUME IInv, NEW c \in Client, NEW n \in Conn, NEW p \in Path, NEW l \in AcquireLevel,
         Acquire(c, n, p, l)
  PROVE  IInv'
<1> DEFINE o == <<c, n>>
           g == Granted(p, o, l)
<1> USE DEF IInv
<1>1. o \in Owner /\ o[1] = c
  BY DEF Owner
<1>2. /\ g \in Level
      /\ g >= level[p][o]
      /\ g > level[p][o] /\ g = SHARED => ~ OtherHolds(p, o, PENDING)
      /\ g > level[p][o] /\ g = RESERVED => ~ OtherHolds(p, o, RESERVED)
      /\ g > level[p][o] /\ g >= RESERVED => level[p][o] >= SHARED
      /\ g >= PENDING /\ level[p][o] < PENDING => ~ OtherHolds(p, o, PENDING)
      /\ g = EXCLUSIVE /\ level[p][o] < EXCLUSIVE => ~ OtherHolds(p, o, SHARED)
  BY <1>1, GrantedIsSafe
<1>3. \A r \in Path, q \in Owner :
        level'[r][q] = IF r = p /\ q = o THEN g ELSE level[r][q]
  BY <1>1 DEF Acquire, TypeOK
<1> HIDE DEF o, g
<1>4. TypeOK'
  BY <1>1, <1>2 DEF Acquire, TypeOK, o, g
<1>5. ExclusiveIsAlone'
  BY <1>1, <1>2, <1>3 DEF ExclusiveIsAlone, OtherHolds, TypeOK, Level, NONE, SHARED, RESERVED,
     PENDING, EXCLUSIVE
<1>6. OnePending'
  BY <1>1, <1>2, <1>3 DEF OnePending, OtherHolds, TypeOK, Level, NONE, SHARED, RESERVED,
     PENDING, EXCLUSIVE
<1>7. OneReserved'
  BY <1>1, <1>2, <1>3 DEF OneReserved, OtherHolds, TypeOK, Level, NONE, SHARED, RESERVED,
     PENDING, EXCLUSIVE
<1>8. OnlyRegisteredHold'
  BY <1>1, <1>3 DEF OnlyRegisteredHold, Acquire
<1>9. TableHoldsOnlyHeld'
  <2>1. \A r \in Path \ {p} : r \in Held(level') <=> r \in Held(level)
    BY <1>3 DEF Held
  <2>. QED
    BY <2>1 DEF TableHoldsOnlyHeld, Acquire, Held
<1>. QED
  BY <1>4, <1>5, <1>6, <1>7, <1>8, <1>9

(* A release lowers one owner to SHARED or NONE.                            *)
LEMMA ReleaseIInv ==
  ASSUME IInv, NEW c \in Client, NEW n \in Conn, NEW p \in Path, NEW l \in ReleaseLevel,
         Release(c, n, p, l)
  PROVE  IInv'
<1> DEFINE o == <<c, n>>
           g == Lowered(p, o, l)
<1> USE DEF IInv
<1>1. o \in Owner /\ o[1] = c
  BY DEF Owner
<1>2. g \in Level /\ g <= level[p][o] /\ g <= SHARED
  BY <1>1 DEF TypeOK, Lowered, ReleaseLevel, Level, NONE, SHARED, EXCLUSIVE
<1>3. \A r \in Path, q \in Owner :
        level'[r][q] = IF r = p /\ q = o THEN g ELSE level[r][q]
  BY <1>1 DEF Release, TypeOK
<1> HIDE DEF o, g
<1>4. TypeOK'
  BY <1>1, <1>2 DEF Release, TypeOK, o, g
<1>5. ExclusiveIsAlone'
  BY <1>1, <1>2, <1>3 DEF ExclusiveIsAlone, TypeOK, Level, NONE, SHARED, EXCLUSIVE
<1>6. OnePending'
  BY <1>1, <1>2, <1>3 DEF OnePending, TypeOK, Level, NONE, SHARED, PENDING, EXCLUSIVE
<1>7. OneReserved'
  BY <1>1, <1>2, <1>3 DEF OneReserved, TypeOK, Level, NONE, SHARED, RESERVED, EXCLUSIVE
<1>8. OnlyRegisteredHold'
  BY <1>1, <1>3 DEF OnlyRegisteredHold, Release
<1>9. TableHoldsOnlyHeld'
  <2>1. \A r \in Path \ {p} : r \in Held(level') <=> r \in Held(level)
    BY <1>3 DEF Held
  <2>. QED
    BY <2>1 DEF TableHoldsOnlyHeld, Release, Held
<1>. QED
  BY <1>4, <1>5, <1>6, <1>7, <1>8, <1>9

(* A departure lowers every owner of one client to NONE.                    *)
LEMMA UnregisterIInv ==
  ASSUME IInv, NEW c \in Client, Unregister(c)
  PROVE  IInv'
<1> USE DEF IInv
<1>1. \A p \in Path, q \in Owner :
        level'[p][q] = IF q[1] = c THEN NONE ELSE level[p][q]
  BY DEF Unregister, WithoutClient
<1>2. TypeOK'
  <2>1. level' \in [Path -> [Owner -> Level]]
    BY DEF Unregister, WithoutClient, TypeOK, Level, NONE, EXCLUSIVE
  <2>2. Held(level') \in SUBSET Path
    BY DEF Held
  <2>. QED
    BY <2>1, <2>2 DEF Unregister, TypeOK
<1>3. ExclusiveIsAlone'
  BY <1>1 DEF ExclusiveIsAlone, NONE, EXCLUSIVE
<1>4. OnePending'
  BY <1>1 DEF OnePending, NONE, PENDING
<1>5. OneReserved'
  BY <1>1 DEF OneReserved, NONE, RESERVED
<1>6. OnlyRegisteredHold'
  <2>1. SUFFICES ASSUME NEW p \in Path, NEW q \in Owner, level'[p][q] # NONE
                 PROVE  clients'[q[1]] = "registered"
    BY DEF OnlyRegisteredHold
  <2>2. q[1] # c /\ level[p][q] # NONE
    BY <1>1, <2>1
  <2>3. q[1] \in Client
    BY DEF Owner
  <2>. QED
    BY <2>2, <2>3 DEF Unregister, OnlyRegisteredHold, TypeOK
<1>7. TableHoldsOnlyHeld'
  BY <1>1 DEF TableHoldsOnlyHeld, Unregister, Held
<1>. QED
  BY <1>2, <1>3, <1>4, <1>5, <1>6, <1>7

(* Registering a client moves no lock.                                      *)
LEMMA RegisterIInv ==
  ASSUME IInv, NEW c \in Client, Register(c)
  PROVE  IInv'
<1> USE DEF IInv, Register
<1>1. TypeOK' /\ ExclusiveIsAlone' /\ OnePending' /\ OneReserved'
  BY DEF TypeOK, ExclusiveIsAlone, OnePending, OneReserved
<1>2. OnlyRegisteredHold'
  <2>1. SUFFICES ASSUME NEW p \in Path, NEW q \in Owner, level[p][q] # NONE
                 PROVE  clients'[q[1]] = "registered"
    BY DEF OnlyRegisteredHold
  <2>2. clients[q[1]] = "registered" /\ q[1] \in Client
    BY <2>1 DEF OnlyRegisteredHold, Owner
  <2>. QED
    BY <2>2 DEF TypeOK
<1>3. TableHoldsOnlyHeld'
  BY DEF TableHoldsOnlyHeld, Held
<1>. QED
  BY <1>1, <1>2, <1>3

(* Every step keeps the inductive invariant.                                *)
LEMMA NextIInv == IInv /\ [Next]_vars => IInv'
<1> SUFFICES ASSUME IInv, [Next]_vars PROVE IInv'
  OBVIOUS
<1>1. CASE \E c \in Client : Register(c) \/ Unregister(c)
  BY <1>1, RegisterIInv, UnregisterIInv
<1>2. CASE \E c \in Client, n \in Conn, p \in Path, l \in AcquireLevel : Acquire(c, n, p, l)
  BY <1>2, AcquireIInv
<1>3. CASE \E c \in Client, n \in Conn, p \in Path, l \in ReleaseLevel : Release(c, n, p, l)
  BY <1>3, ReleaseIInv
<1>4. CASE UNCHANGED vars
  BY <1>4 DEF vars, IInv, TypeOK, ExclusiveIsAlone, OnePending, OneReserved,
              OnlyRegisteredHold, TableHoldsOnlyHeld, Held
<1>. QED
  BY <1>1, <1>2, <1>3, <1>4 DEF Next

(* The inductive invariant holds in every state of the lock table.          *)
LEMMA Invariance == Spec => []IInv
BY InitIInv, NextIInv, PTL DEF Spec

(* The variables keep their types.                                          *)
THEOREM TypeCorrect == Spec => []TypeOK
BY Invariance, PTL DEF IInv

(* A connection that may write pages (EXCLUSIVE) is the only one holding    *)
(* any lock on that database, and at most one prepares to, however many     *)
(* connections and processes there are.                                     *)
THEOREM WriterIsAlone == Spec => []WritersExclude
BY Invariance, PTL DEF IInv, WritersExclude

(* No dead process's lock outlives it, so no database stays busy for ever,  *)
(* and the table has entries exactly for the databases that are locked.     *)
THEOREM NoLeak == Spec => []NothingLeaks
BY Invariance, PTL DEF IInv, NothingLeaks

-----------------------------------------------------------------------------

(* While a writer is at PENDING or above, every other connection's lock     *)
(* only goes down, so the readers it waits for drain.                       *)
THEOREM WriterDrainsReaders == Spec => PendingDrainsReaders
<1>1. ASSUME IInv, [Next]_vars, NEW p \in Path, NEW o \in Owner, level[p][o] >= PENDING,
             NEW q \in Owner \ {o}
      PROVE  level'[p][q] <= level[p][q]
  <2>1. level \in [Path -> [Owner -> Level]] /\ level[p][q] \in Level
    BY <1>1 DEF IInv, TypeOK
  <2>2. ASSUME NEW c \in Client, NEW n \in Conn, NEW r \in Path, NEW l \in AcquireLevel,
               Acquire(c, n, r, l)
        PROVE  level'[p][q] <= level[p][q]
    <3>1. CASE r = p /\ q = <<c, n>>
      <4>1. OtherHolds(p, q, PENDING) /\ OtherHolds(p, q, RESERVED) /\ OtherHolds(p, q, SHARED)
        BY <1>1, <2>1 DEF OtherHolds, Level, NONE, SHARED, RESERVED, PENDING, EXCLUSIVE
      <4>2. level[p][q] < PENDING
        BY <1>1, <2>1 DEF IInv, OnePending, Level, NONE, PENDING, EXCLUSIVE
      <4>3. Granted(p, q, l) = level[p][q]
        BY <2>1, <4>1, <4>2 DEF Granted, Refused, AcquireLevel, Level, NONE, SHARED, RESERVED,
           PENDING, EXCLUSIVE
      <4>. QED
        BY <2>1, <2>2, <3>1, <4>3 DEF Acquire, Level, NONE, EXCLUSIVE
    <3>2. CASE ~ (r = p /\ q = <<c, n>>)
      <4>1. level'[p][q] = level[p][q]
        BY <2>1, <2>2, <3>2 DEF Acquire
      <4>. QED
        BY <2>1, <4>1 DEF Level, NONE, EXCLUSIVE
    <3>. QED
      BY <3>1, <3>2
  <2>3. ASSUME NEW c \in Client, NEW n \in Conn, NEW r \in Path, NEW l \in ReleaseLevel,
               Release(c, n, r, l)
        PROVE  level'[p][q] <= level[p][q]
    <3>1. Lowered(p, q, l) <= level[p][q]
      BY <2>1 DEF Lowered, ReleaseLevel, Level, NONE, SHARED, EXCLUSIVE
    <3>2. level'[p][q] \in {level[p][q], Lowered(p, q, l)}
      BY <2>1, <2>3 DEF Release
    <3>. QED
      BY <2>1, <3>1, <3>2 DEF Level, NONE, EXCLUSIVE
  <2>4. ASSUME NEW c \in Client, Unregister(c)
        PROVE  level'[p][q] <= level[p][q]
    BY <2>1, <2>4 DEF Unregister, WithoutClient, Level, NONE, EXCLUSIVE
  <2>5. CASE UNCHANGED level
    BY <2>1, <2>5 DEF Level, NONE, EXCLUSIVE
  <2>. QED
    BY <1>1, <2>2, <2>3, <2>4, <2>5 DEF Next, vars, Register
<1>2. IInv /\ [Next]_vars
        => [\A p \in Path, o \in Owner : level[p][o] >= PENDING
              => \A q \in Owner \ {o} : level'[p][q] <= level[p][q]]_vars
  BY <1>1
<1>. QED
  BY <1>2, Invariance, PTL DEF Spec, PendingDrainsReaders

-----------------------------------------------------------------------------

(* What a step that moves owner o on path p to level g does to the mapping. *)
LEMMA MappingStep ==
  ASSUME TypeOK, NEW p \in Path, NEW o \in Owner, NEW g \in Level,
         level' = [level EXCEPT ![p][o] = g]
  PROVE  /\ g >= SHARED => Reading' = [Reading EXCEPT ![p] = @ \union {o}]
         /\ ~ (g >= SHARED) => Reading' = [Reading EXCEPT ![p] = @ \ {o}]
         /\ g = EXCLUSIVE => Writing' = [Writing EXCEPT ![p] = @ \union {o}]
         /\ g # EXCLUSIVE => Writing' = [Writing EXCEPT ![p] = @ \ {o}]
         /\ g >= SHARED /\ o \in Reading[p] => Reading' = Reading
         /\ g # EXCLUSIVE /\ o \notin Writing[p] => Writing' = Writing
<1>1. \A r \in Path, q \in Owner :
        level'[r][q] = IF r = p /\ q = o THEN g ELSE level[r][q]
  BY DEF TypeOK
<1>2. /\ Reading \in [Path -> SUBSET Owner]
      /\ Writing \in [Path -> SUBSET Owner]
  BY DEF Reading, Writing
<1>3. \A r \in Path : Reading'[r] =
        IF r # p THEN Reading[r] ELSE IF g >= SHARED THEN Reading[p] \union {o} ELSE Reading[p] \ {o}
  BY <1>1 DEF Reading
<1>4. \A r \in Path : Writing'[r] =
        IF r # p THEN Writing[r] ELSE IF g = EXCLUSIVE THEN Writing[p] \union {o} ELSE Writing[p] \ {o}
  BY <1>1 DEF Writing
<1>5. Reading' = [r \in Path |-> Reading'[r]] /\ Writing' = [r \in Path |-> Writing'[r]]
  BY DEF Reading, Writing
<1>. QED
  BY <1>2, <1>3, <1>4, <1>5

(* An acquire maps to a step of one owner, or to none.                      *)
LEMMA AcquireImplements ==
  ASSUME IInv, NEW c \in Client, NEW n \in Conn, NEW p \in Path, NEW l \in AcquireLevel,
         Acquire(c, n, p, l)
  PROVE  [Access!Next]_(Access!vars)
<1> DEFINE o == <<c, n>>
           g == Granted(p, o, l)
<1>1. o \in Owner
  BY DEF Owner
<1>2. /\ g \in Level
      /\ g >= level[p][o]
      /\ g > level[p][o] /\ g = SHARED => ~ OtherHolds(p, o, PENDING)
      /\ g > level[p][o] /\ g >= RESERVED => level[p][o] >= SHARED
      /\ g = EXCLUSIVE /\ level[p][o] < EXCLUSIVE => ~ OtherHolds(p, o, SHARED)
  BY <1>1, GrantedIsSafe DEF IInv
<1>3. level' = [level EXCEPT ![p][o] = g]
  BY DEF Acquire
<1>4. level \in [Path -> [Owner -> Level]] /\ level[p][o] \in Level
  BY <1>1 DEF IInv, TypeOK
<1> HIDE DEF o, g
<1>5. /\ g >= SHARED => Reading' = [Reading EXCEPT ![p] = @ \union {o}]
      /\ ~ (g >= SHARED) => Reading' = [Reading EXCEPT ![p] = @ \ {o}]
      /\ g = EXCLUSIVE => Writing' = [Writing EXCEPT ![p] = @ \union {o}]
      /\ g # EXCLUSIVE => Writing' = [Writing EXCEPT ![p] = @ \ {o}]
      /\ g >= SHARED /\ o \in Reading[p] => Reading' = Reading
      /\ g # EXCLUSIVE /\ o \notin Writing[p] => Writing' = Writing
  BY <1>1, <1>2, <1>3, MappingStep DEF IInv
<1>6. CASE g = level[p][o]
  <2>1. level' = level
    BY <1>3, <1>4, <1>6
  <2>. QED
    BY <2>1 DEF Access!vars, Reading, Writing
<1>7. CASE g > level[p][o] /\ g = SHARED
  <2>1. \A q \in Owner : level[p][q] # EXCLUSIVE
    BY <1>1, <1>2, <1>4, <1>7 DEF OtherHolds, Level, NONE, SHARED, PENDING, EXCLUSIVE
  <2>2. Writing[p] = {}
    BY <2>1 DEF Writing
  <2>3. Writing' = Writing
    BY <1>5, <1>7, <2>2 DEF SHARED, EXCLUSIVE
  <2>4. Reading' = [Reading EXCEPT ![p] = @ \union {o}]
    BY <1>5, <1>7 DEF SHARED
  <2>5. Access!BeginRead(o, p)
    BY <2>2, <2>3, <2>4 DEF Access!BeginRead
  <2>. QED
    BY <1>1, <2>5 DEF Access!Next, Owner, Access!Owner
<1>8. CASE g > level[p][o] /\ g \in {RESERVED, PENDING}
  <2>1. o \in Reading[p] /\ o \notin Writing[p]
    BY <1>1, <1>2, <1>4, <1>8 DEF Reading, Writing, Level, NONE, SHARED, RESERVED, PENDING, EXCLUSIVE
  <2>2. Reading' = Reading /\ Writing' = Writing
    BY <1>5, <1>8, <2>1 DEF SHARED, RESERVED, PENDING, EXCLUSIVE
  <2>. QED
    BY <2>2 DEF Access!vars
<1>9. CASE g > level[p][o] /\ g = EXCLUSIVE
  <2>1. \A q \in Owner : level[p][q] >= SHARED <=> q = o
    BY <1>1, <1>2, <1>4, <1>9 DEF OtherHolds, Level, NONE, SHARED, RESERVED, EXCLUSIVE
  <2>2. Reading[p] = {o}
    BY <1>1, <2>1 DEF Reading
  <2>3. Reading' = Reading
    BY <1>5, <1>9, <2>2 DEF SHARED, EXCLUSIVE
  <2>4. Writing[p] = {}
    <3>1. \A q \in Owner : level[p][q] # EXCLUSIVE
      BY <1>4, <1>9, <2>1 DEF Level, NONE, SHARED, EXCLUSIVE
    <3>. QED
      BY <3>1 DEF Writing
  <2>5. Writing' = [Writing EXCEPT ![p] = {o}]
    BY <1>5, <1>9, <2>4
  <2>6. Access!BeginWrite(o, p)
    BY <2>2, <2>3, <2>5 DEF Access!BeginWrite
  <2>. QED
    BY <1>1, <2>6 DEF Access!Next, Owner, Access!Owner
<1>. QED
  BY <1>2, <1>4, <1>6, <1>7, <1>8, <1>9
  DEF Level, NONE, SHARED, RESERVED, PENDING, EXCLUSIVE

(* A release maps to an owner's step down, or to none.                      *)
LEMMA ReleaseImplements ==
  ASSUME IInv, NEW c \in Client, NEW n \in Conn, NEW p \in Path, NEW l \in ReleaseLevel,
         Release(c, n, p, l)
  PROVE  [Access!Next]_(Access!vars)
<1> DEFINE o == <<c, n>>
           g == Lowered(p, o, l)
<1>1. o \in Owner
  BY DEF Owner
<1>2. level \in [Path -> [Owner -> Level]] /\ level[p][o] \in Level
  BY <1>1 DEF IInv, TypeOK
<1>3. /\ g \in {NONE, SHARED}
      /\ g = SHARED => level[p][o] >= SHARED
  BY <1>2 DEF Lowered, ReleaseLevel, Level, NONE, SHARED, EXCLUSIVE
<1>4. level' = [level EXCEPT ![p][o] = g]
  BY DEF Release
<1> HIDE DEF o, g
<1>5. /\ g >= SHARED => Reading' = [Reading EXCEPT ![p] = @ \union {o}]
      /\ ~ (g >= SHARED) => Reading' = [Reading EXCEPT ![p] = @ \ {o}]
      /\ g = EXCLUSIVE => Writing' = [Writing EXCEPT ![p] = @ \union {o}]
      /\ g # EXCLUSIVE => Writing' = [Writing EXCEPT ![p] = @ \ {o}]
      /\ g >= SHARED /\ o \in Reading[p] => Reading' = Reading
      /\ g # EXCLUSIVE /\ o \notin Writing[p] => Writing' = Writing
  <2>1. g \in Level
    BY <1>3 DEF Level, NONE, SHARED, EXCLUSIVE
  <2>. QED
    BY <1>1, <1>4, <2>1, MappingStep DEF IInv
<1>6. CASE g = NONE
  <2>1. Access!EndRead(o, p)
    BY <1>5, <1>6 DEF Access!EndRead, NONE, SHARED, EXCLUSIVE
  <2>. QED
    BY <1>1, <2>1 DEF Access!Next, Owner, Access!Owner
<1>7. CASE g = SHARED
  <2>1. o \in Reading[p]
    BY <1>1, <1>3, <1>7 DEF Reading
  <2>2. Reading' = Reading
    BY <1>5, <1>7, <2>1 DEF SHARED
  <2>3. Access!EndWrite(o, p)
    BY <1>5, <1>7, <2>2 DEF Access!EndWrite, SHARED, EXCLUSIVE
  <2>. QED
    BY <1>1, <2>3 DEF Access!Next, Owner, Access!Owner
<1>. QED
  BY <1>3, <1>6, <1>7

(* A departure maps to the departure of the same client.                    *)
LEMMA UnregisterImplements ==
  ASSUME TypeOK, NEW c \in Client, Unregister(c)
  PROVE  [Access!Next]_(Access!vars)
<1>1. \A p \in Path, o \in Owner :
        level'[p][o] = IF o[1] = c THEN NONE ELSE level[p][o]
  BY DEF Unregister, WithoutClient
<1>2. Reading' = [p \in Path |-> {o \in Reading[p] : o[1] # c}]
  BY <1>1 DEF Reading, NONE, SHARED
<1>3. Writing' = [p \in Path |-> {o \in Writing[p] : o[1] # c}]
  BY <1>1 DEF Writing, NONE, EXCLUSIVE
<1>. QED
  BY <1>2, <1>3 DEF Access!Next, Access!Depart

(* The lock table implements reader/writer access to every database: many   *)
(* readers or one writer, through every acquire, release and process death. *)
THEOREM Refinement == Spec => ImplementsAccess
<1>1. Init => Access!Init
  BY DEF Init, Access!Init, Reading, Writing, NONE, SHARED, EXCLUSIVE
<1>2. IInv /\ [Next]_vars => [Access!Next]_(Access!vars)
  <2> SUFFICES ASSUME IInv, [Next]_vars PROVE [Access!Next]_(Access!vars)
    OBVIOUS
  <2>1. CASE UNCHANGED level
    BY <2>1 DEF Access!vars, Reading, Writing
  <2>2. ASSUME NEW c \in Client, Register(c) \/ Unregister(c)
        PROVE  [Access!Next]_(Access!vars)
    BY <2>1, <2>2, UnregisterImplements DEF Register, IInv
  <2>. QED
    BY <2>1, <2>2, AcquireImplements, ReleaseImplements DEF Next, vars
<1>. QED
  BY <1>1, <1>2, Invariance, PTL DEF Spec, ImplementsAccess, Access!Spec
==============================================================================
