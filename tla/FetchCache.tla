----------------------------- MODULE FetchCache -----------------------------
(***************************************************************************)
(* The kernel's fetched-body cache (packages/kernel-host/kernel.js).  A    *)
(* download is materialized in the file system and the process is handed   *)
(* the PATH, which it reads in a later turn of its own thread; the cache   *)
(* is bounded, so other downloads evict bodies in between.  A body is      *)
(* pinned from its handoff until the file system worker reports the read;  *)
(* the report is a message, and a process may die at any point.            *)
(***************************************************************************)
EXTENDS Integers, SequencesExt, BagsExt

CONSTANTS
  Proc,        (* processes                                                *)
  CacheKey,    (* method + url + accept                                    *)
  Cacheable,   (* the keys of GETs without a body                          *)
  Size,        (* the size of the body each key fetches                    *)
  MaxBytes,    (* fetchCacheMaxBytes                                       *)
  Concurrency, (* fetchConcurrency                                         *)
  MaxSeq,      (* bound: bodies ever materialized                          *)
  MaxOpen,     (* bound: fetches of a process unanswered or not read yet   *)
  MaxReports   (* bound: reports of reads in flight to the kernel          *)

ASSUME FetchCacheAssumption ==
  /\ Cacheable \subseteq CacheKey
  /\ Size \in [CacheKey -> Nat]
  /\ MaxBytes \in Nat /\ Concurrency \in Nat \ {0}
  /\ MaxSeq \in Nat /\ MaxOpen \in Nat \ {0} /\ MaxReports \in Nat \ {0}

(* _fetchCachePath: a generation number and the key. *)
Path == (1..MaxSeq) \X CacheKey
Entry == [key : Cacheable, path : Path]
(* One network fetch: the processes whose requests wait for it, the one    *)
(* that started it first, the sharers in the order they came.              *)
Job == [key : CacheKey, waiters : Seq(Proc)]

VARIABLES
  alive,       (* kernel.procs                                             *)
  fetchCache,  (* a Map in insertion order: least recently used first      *)
  cacheBytes,  (* _fetchCacheBytes                                         *)
  bodySeq,     (* _fetchBodySeq                                            *)
  pins,        (* _fetchBodyPins: path -> the pids it was handed to        *)
  orphans,     (* _fetchBodyOrphans                                        *)
  queue,       (* _fetchQueue                                              *)
  active,      (* the jobs on the network                                  *)
  fetchActive, (* _fetchActive                                             *)
  files,       (* the bodies in the file system                            *)
  unread,      (* handed to a live process and not read: bag of pid, path  *)
  consumed,    (* fetch-body-consumed messages in flight: bag of paths     *)
  handedTo     (* history: the pids each path was ever handed to           *)

cacheState == <<fetchCache, cacheBytes, bodySeq>>
bodyState == <<pins, orphans, files>>
netState == <<queue, active, fetchActive>>
vars == <<alive, cacheState, bodyState, netState, unread, consumed, handedTo>>

TypeOK ==
  /\ alive \subseteq Proc
  /\ fetchCache \in Seq(Entry) /\ cacheBytes \in Nat /\ bodySeq \in 0..MaxSeq
  /\ DOMAIN pins \subseteq Path /\ \A f \in DOMAIN pins : pins[f] \in Seq(Proc) \ {<<>>}
  /\ orphans \subseteq Path /\ files \subseteq Path
  /\ queue \in Seq(Job) /\ active \in Seq(Job) /\ fetchActive \in 0..Concurrency
  /\ IsABag(unread) /\ DOMAIN unread \subseteq Proc \X Path
  /\ IsABag(consumed) /\ DOMAIN consumed \subseteq Path
  /\ handedTo \in [Path -> SUBSET Proc]

Init ==
  /\ alive = Proc
  /\ fetchCache = <<>> /\ cacheBytes = 0 /\ bodySeq = 0
  /\ pins = <<>> /\ orphans = {} /\ files = {}
  /\ queue = <<>> /\ active = <<>> /\ fetchActive = 0
  /\ unread = EmptyBag /\ consumed = EmptyBag
  /\ handedTo = [f \in Path |-> {}]

Jobs == active \o queue
Waiting(p) == FoldSeq(LAMBDA j, n : n + Len(SelectSeq(j.waiters, LAMBDA q : q = p)), 0, Jobs)
Unread(p) == FoldSet(LAMBDA x, n : n + (IF x[1] = p THEN unread[x] ELSE 0), 0, DOMAIN unread)

(***************************************************************************)
(* Lifetime of a body.                                                     *)
(***************************************************************************)
Pinned(f) == f \in DOMAIN pins

(* Mutant: the sharers of a download are not pinned. *)
Pin_StarterOnly(pn, f, pids) ==
  [g \in DOMAIN pn \union {f} |->
     IF g # f THEN pn[g] ELSE IF f \in DOMAIN pn THEN pn[f] \o <<pids[1]>> ELSE <<pids[1]>>]
(* _pinFetchBody once for each of the pids, in order; a pid that has died  *)
(* meanwhile is pinned like the others.                                    *)
Pin(pn, f, pids) ==
  [g \in DOMAIN pn \union {f} |->
     IF g # f THEN pn[g] ELSE IF f \in DOMAIN pn THEN pn[f] \o pids ELSE pids]

(* The answer reaches the processes that still run.                        *)
Hand(f, pids) ==
  /\ unread' = FoldSeq(LAMBDA p, b : IF p \in alive THEN BagAdd(b, <<p, f>>) ELSE b, unread, pids)
  /\ handedTo' = [handedTo EXCEPT ![f] = @ \union ToSet(pids)]

(* Mutant: the last release unlinks a body that is still cached. *)
Unpinned_UnlinksCached(pn) ==
  LET freed == {f \in DOMAIN pins : pn[f] = <<>>}
  IN  /\ pins' = Restrict(pn, DOMAIN pins \ freed)
      /\ orphans' = orphans \ freed
      /\ files' = files \ freed

(* What is left of pins when some of them became empty, and the reap of    *)
(* the bodies that lost their last pin: unlinked if evicted already.       *)
Unpinned(pn) ==
  LET freed == {f \in DOMAIN pins : pn[f] = <<>>}
  IN  /\ pins' = Restrict(pn, DOMAIN pins \ freed)
      /\ orphans' = orphans \ freed
      /\ files' = files \ (orphans \intersect freed)

(* releaseFetchBody(f) pops the pid pinned last, whoever read.             *)
ReleaseFetchBody(f) ==
  IF Pinned(f) THEN Unpinned([pins EXCEPT ![f] = Front(@)]) ELSE UNCHANGED bodyState

(* _releaseFetchBodiesForPid(p), called by finalize. *)
ReleaseFetchBodiesForPid(p) ==
  Unpinned([f \in DOMAIN pins |-> SelectSeq(pins[f], LAMBDA q : q # p)])

(***************************************************************************)
(* The cache.                                                              *)
(***************************************************************************)
CacheHit(k) == \E i \in DOMAIN fetchCache : fetchCache[i].key = k
Touched(k) ==
  SelectSeq(fetchCache, LAMBDA e : e.key # k) \o SelectSeq(fetchCache, LAMBDA e : e.key = k)

(* Map.set: a key that is present keeps its place. *)
WithEntry(c, e) ==
  IF \E i \in DOMAIN c : c[i].key = e.key
  THEN [i \in DOMAIN c |-> IF c[i].key = e.key THEN e ELSE c[i]]
  ELSE Append(c, e)

Bytes(c) == FoldSeq(LAMBDA e, n : n + Size[e.key], 0, c)

(* The entries _evictFetchCacheIfNeeded drops: the least recently used,    *)
(* other than the one just added, until the rest fits.                     *)
Victims(c, bytes, protectKey) ==
  LET others == SelectSeq(c, LAMBDA e : e.key # protectKey)
      Enough(n) == bytes - Bytes(SubSeq(others, 1, n)) <= MaxBytes \/ n = Len(others)
  IN  SubSeq(others, 1, Min({n \in 0..Len(others) : Enough(n)}))

(* Drop the victims' accounting; unlink the ones nobody is reading. *)
Evict(c, bytes, protectKey, fs) ==
  LET victims == Victims(c, bytes, protectKey)
      gone == {e.path : e \in ToSet(victims)}
  IN  /\ fetchCache' = SelectSeq(c, LAMBDA e : e \notin ToSet(victims))
      /\ cacheBytes' = bytes - Bytes(victims)
      /\ orphans' = orphans \union {f \in gone : Pinned(f)}
      /\ files' = fs \ {f \in gone : ~Pinned(f)}

(***************************************************************************)
(* handleFetch and handleFetchAsync, through _fetchIntoVfs.                *)
(***************************************************************************)
MayFetch(p) == p \in alive /\ Waiting(p) + Unread(p) < MaxOpen

FetchHit(p, k) ==
  /\ MayFetch(p) /\ k \in Cacheable /\ CacheHit(k)
  /\ fetchCache' = Touched(k)
  /\ LET f == Last(Touched(k)).path
     IN  pins' = Pin(pins, f, <<p>>) /\ Hand(f, <<p>>)
  /\ UNCHANGED <<alive, cacheBytes, bodySeq, orphans, files, netState, consumed>>

(* The fetches of a key under way; for a cacheable one, _fetchInflight.    *)
Inflight(k) == SelectSeq(Jobs, LAMBDA j : j.key = k)
Shared(js, k, p) ==
  [i \in DOMAIN js |-> IF js[i].key = k THEN [js[i] EXCEPT !.waiters = Append(@, p)] ELSE js[i]]

FetchShare(p, k) ==
  /\ MayFetch(p) /\ k \in Cacheable /\ ~CacheHit(k) /\ Inflight(k) # <<>>
  /\ queue' = Shared(queue, k, p) /\ active' = Shared(active, k, p)
  /\ UNCHANGED <<alive, cacheState, bodyState, fetchActive, unread, consumed, handedTo>>

(* _drainFetchQueue with n slots taken: at most one job starts, for one    *)
(* slot frees or one job arrives at a time.                                *)
Drain(q, running, n) ==
  LET starts == Min({Len(q), Concurrency - n})
  IN  /\ queue' = SubSeq(q, starts + 1, Len(q))
      /\ active' = running \o SubSeq(q, 1, starts)
      /\ fetchActive' = n + starts

(* Mutant: a cacheable request does not look for one in flight. *)
Fetch_Unshared(p, k) ==
  /\ MayFetch(p) /\ ~(k \in Cacheable /\ CacheHit(k))
  /\ bodySeq + Len(Jobs) < MaxSeq
  /\ Drain(Append(queue, [key |-> k, waiters |-> <<p>>]), active, fetchActive)
  /\ UNCHANGED <<alive, cacheState, bodyState, unread, consumed, handedTo>>

Fetch(p, k) ==
  /\ MayFetch(p) /\ ~(k \in Cacheable /\ (CacheHit(k) \/ Inflight(k) # <<>>))
  /\ bodySeq + Len(Jobs) < MaxSeq
  /\ Drain(Append(queue, [key |-> k, waiters |-> <<p>>]), active, fetchActive)
  /\ UNCHANGED <<alive, cacheState, bodyState, unread, consumed, handedTo>>

(* _doNetworkFetch has its answer and the file system worker has written   *)
(* the body: cache, evict, give up the slot, then pin for every waiter.    *)
FetchDone(n) ==
  /\ bodySeq' = bodySeq + 1
  /\ LET j == active[n]
         f == <<bodySeq + 1, j.key>>
     IN  /\ IF j.key \in Cacheable
            THEN Evict(WithEntry(fetchCache, [key |-> j.key, path |-> f]),
                       cacheBytes + Size[j.key], j.key, files \union {f})
            ELSE /\ files' = files \union {f}
                 /\ UNCHANGED <<fetchCache, cacheBytes, orphans>>
         /\ pins' = Pin(pins, f, j.waiters)
         /\ Hand(f, j.waiters)
  /\ Drain(queue, RemoveAt(active, n), fetchActive - 1)
  /\ UNCHANGED <<alive, consumed>>

(* Mutant: the slot is given up on success only. *)
FetchFailed_KeepsSlot(n) ==
  /\ Drain(queue, RemoveAt(active, n), fetchActive)
  /\ UNCHANGED <<alive, cacheState, bodyState, unread, consumed, handedTo>>

(* The network or the write failed: every waiter gets the error. *)
FetchFailed(n) ==
  /\ Drain(queue, RemoveAt(active, n), fetchActive - 1)
  /\ UNCHANGED <<alive, cacheState, bodyState, unread, consumed, handedTo>>

(***************************************************************************)
(* The reader's side.                                                      *)
(***************************************************************************)
(* The file system worker serves the read and reports it. *)
ReadBody(p, f) ==
  /\ p \in alive /\ BagIn(<<p, f>>, unread) /\ f \in files
  /\ BagCardinality(consumed) < MaxReports
  /\ unread' = BagRemove(unread, <<p, f>>)
  /\ consumed' = BagAdd(consumed, f)
  /\ UNCHANGED <<alive, cacheState, bodyState, netState, handedTo>>

(* The body is not there: the client delivers an empty response. *)
ReadMissing(p, f) ==
  /\ p \in alive /\ BagIn(<<p, f>>, unread) /\ f \notin files
  /\ unread' = BagRemove(unread, <<p, f>>)
  /\ UNCHANGED <<alive, cacheState, bodyState, netState, consumed, handedTo>>

(* The kernel takes a fetch-body-consumed message. *)
BodyConsumed(f) ==
  /\ BagIn(f, consumed)
  /\ consumed' = BagRemove(consumed, f)
  /\ ReleaseFetchBody(f)
  /\ UNCHANGED <<alive, cacheState, netState, unread, handedTo>>

(* finalize: the process's requests on the network go on without it. *)
Exit(p) ==
  /\ p \in alive
  /\ alive' = alive \ {p}
  /\ unread' = Restrict(unread, {x \in DOMAIN unread : x[1] # p})
  /\ ReleaseFetchBodiesForPid(p)
  /\ UNCHANGED <<cacheState, netState, consumed, handedTo>>

Next ==
  \/ \E p \in Proc, k \in CacheKey : FetchHit(p, k) \/ FetchShare(p, k) \/ Fetch(p, k)
  \/ \E n \in DOMAIN active : FetchDone(n) \/ FetchFailed(n)
  \/ \E p \in Proc, f \in Path : ReadBody(p, f) \/ ReadMissing(p, f)
  \/ \E f \in Path : BodyConsumed(f)
  \/ \E p \in Proc : Exit(p)

Spec == Init /\ [][Next]_vars

(* The fetcher settles every request it is given: the one assumption the   *)
(* code makes of the network.                                              *)
Settles(k) == \E n \in DOMAIN active : active[n].key = k /\ (FetchDone(n) \/ FetchFailed(n))
SpecSettles == Spec /\ \A k \in CacheKey : WF_vars(Settles(k))

(***************************************************************************)
(* Properties.                                                             *)
(***************************************************************************)
CachedPaths == {e.path : e \in ToSet(fetchCache)}

(* "meta present <=> body present": a hit never names a missing file, and  *)
(* a cacheable body that left the cache is kept for its readers only.      *)
MetaMatchesBody ==
  /\ CachedPaths \subseteq files
  /\ \A f \in files : f[2] \in Cacheable => f \in CachedPaths \/ (f \in orphans /\ Pinned(f))

(* The accounting is the sum of what is cached, one body for a key, and    *)
(* never over the cap but for the one body just fetched.                   *)
AccountingExact ==
  /\ cacheBytes = Bytes(fetchCache)
  /\ \A i, k \in DOMAIN fetchCache : i # k => fetchCache[i].key # fetchCache[k].key
  /\ cacheBytes <= MaxBytes \/ Len(fetchCache) = 1

(* The cache, its files and its accounting agree (storeFetchBody, evict). *)
CacheExact == TypeOK /\ MetaMatchesBody /\ AccountingExact

(* Identical cacheable requests share one network fetch, and there is none *)
(* for a body that is cached already.                                      *)
SingleFlight ==
  \A k \in Cacheable : IF CacheHit(k) THEN Inflight(k) = <<>> ELSE Len(Inflight(k)) <= 1

(* A body outlives its readers, as long as all its readers live: every     *)
(* path handed to a process and not read yet is a file.                    *)
SharedBodyOutlivesReaders ==
  \A x \in DOMAIN unread : handedTo[x[2]] \subseteq alive => x[2] \in files

(* The same when a sharer may have died: "the file itself only goes once   *)
(* the last reader releases it (or its process exits)".                    *)
BodyOutlivesReaders == \A x \in DOMAIN unread : x[2] \in files

(* No body is held for a process that is gone: "can never leak past the    *)
(* process's lifetime".                                                    *)
PinsAreOfTheLiving == \A f \in DOMAIN pins : ToSet(pins[f]) \subseteq alive

(* Every shared fetch is over at some point: a failed one gives its slot   *)
(* up too, and no request stays in the queue for ever.                     *)
EveryFetchSettles == \A k \in Cacheable : []<>(Inflight(k) = <<>>)
=============================================================================
