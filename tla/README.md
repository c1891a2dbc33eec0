# Vivari: a verification project

Vivari runs Node.js programs in a browser tab: a kernel worker keeps the
process table and a virtual network, every process is a worker of its own that
parks on a shared syscall window, and a file system worker holds an in-memory
tree that is mirrored to the browser's Origin Private File System (OPFS). This
directory models the parts of it where several threads, tabs or messages meet,
checks them with TLC on small instances and proves the central invariants with
TLAPS for every instance. Source paths below are relative to the repository.

    tlc -workers 2 -config Signals.cfg MCSignals.tla      one run
    tlapm FileLocksProofs.tla                             one module of proofs

`PROJECT.json` lists the runs, the mutants (each property with a plausible bug
that breaks it), the lines of code each definition translates, the findings,
the hazards and the theorems.

## 1. Inventory

### The parts that are modelled

| Part | State | Operations | Correct when |
| --- | --- | --- | --- |
| SQLite lock table, `kernel-host/file-locks.js`, served by `fs-server.js` | per database, the level of each owner (process and connection) | acquire, release, check-reserved, register and unregister a process | a writer is alone; readers drain for a pending writer; a killed process holds nothing |
| Signals, `kernel.js` 2012-2134, `protocol/syscall.js`, `runtime/signals.js`, `loop.js`, `fs-client.js` | announced handlers, the unanswered signal, the grace timer; pending bits in the shared window; the guest's pending set | signal, listen and unlisten, stand down, grace expiry; syscall park and harvest; loop turns | no accepted signal is lost, whatever the guest is doing, unless a handler throws; a guest that does not answer dies |
| Process table, `kernel.js` 525-690, 980-1110, 1845-1950, 2140-2200 | `procs`, parents, windows, lazy loads in progress | start, spawn, spawnAsync, thread spawn and terminate, exit, kill, stop, finalize with its cascade | no orphans; every waiter released; every exit reported; what was finalized is gone |
| Fetched-body cache, `kernel.js` 2240-2480 | LRU map, byte count, in-flight jobs, queue and slots, pins, orphans; files | fetch, hit, share, complete, fail, evict, read report, process exit | metadata and files agree; one download for a key; a body outlives its readers; slots never leak |
| HTTP over the virtual network, `kernel.js` 1007-1060, 1304-1330, 1620-1756, `runtime/index.js` doNet, `node/bindings/net.js` | port table, inboxes, pending requests, spilled bodies; each guest's listening handles and loop | listen, close, request, stage, accept, respond in frames, nudge, exit | ports agree with guests; no wake-up lost; every request settled |
| Pipes and TCP between processes, `kernel.js` 1304-1620, `node/bindings/net.js` | port and path tables, connections with their client ports; each guest's servers, endpoints and postponed callbacks | listen under two names, close, dial, accept, write, half-close, close, exit, kill | guests and kernel agree who serves; each direction is a faithful stream; nobody waits for a peer that is gone without a close under way |
| Network relay client, `kernel-host/net-relay.js`, `kernel.js` 1334-1447, against the reference relay `scripts/net-relay.mjs` | streams, credit, unacknowledged packets, ports asked for and confirmed, the reconnection timer; the relay's sockets and servers, bound and still to bind | dial, accept, send, consume, shut down, close, bind and unbind, lose the socket, reconnect, replace the relay | three tables and the relay agree; pacing bounds memory and never stops a stream; forwarded ports come back |
| Virtual file system, `vfs/src/lib.rs` | inodes, directory entries, links, descriptors, compressed bodies, a cache of inflated ones | every call that changes a body, a name or a descriptor | names resolve; compression and cache are invisible |
| Standard input and the debugger's commands, `kernel.js` 718-757 and 1954-2010, `protocol/debug.js`, `runtime/debugger.js`, the studio's `debug-session.ts` | the command slot, the kernel's queue, timer and belief; the input queue, the end flag, the parked reader | send a chunk, blocking read, command, drain, event, pause, start gate, attach, resume | nothing is lost or doubled when the route changes, and input keeps its order on each route; a parked guest goes on when told |
| OPFS mirror, `kernel-host/opfs-persistence.js`, fed by `fs-server.js` | per tab the tree, the queue, unsaved index changes, drain, timer and flush; shared: files, index, staged index, lock | every mutating file call, drain, index write, flush, tab boot and crash | a settled tab is mirrored exactly; tabs do not erase each other; a crash never costs the index; flush is durable |

How they interact: a guest's call is a request in its syscall window and a
message to the kernel, or a doorbell of the file system worker; the answer is
written into the window and wakes the guest. The kernel also posts messages
(signals, network nudges, exits of children), which a guest sees only between
turns of its event loop. `finalize` is where the parts meet: it cascades over
the children, frees ports, settles pending requests, drops pins and inboxes,
closes signal windows, and has the file system worker release the process's
locks. Each module has its own action for its share of it (`Unregister`,
`Finalize`, `Exit`).

What is hard here: guests run in parallel with the kernel, so a word read by
one may be rewritten by the other; messages and the shared window are two
channels with no order between them; the kernel's handlers suspend at awaits;
processes die at any point; tabs share one origin directory and are killed
without notice.

### The parts that are not modelled

| Part | State and operations | Why not, or when |
| --- | --- | --- |
| WebSocket and SSE tunnels (`kernel.js` 1757-1848) | connection id to process | planned; a close in one direction only drops the entry |
| File system server (`fs-server.js`) | doorbells, file descriptors, watchers | its calls appear in Persistence, FileLocks and FetchCache; the service loop itself is planned |
| Dependency cache (`dep-cache.js`) | snapshots, aliases, index | planned |
| SQLite pager over the locks (`bun-sqlite.js`) | per-connection lock protocol, journals | planned: composed with FileLocks |
| Event loop (`runtime/loop.js`) | timers, immediates, handle counts | its turn is in Signals and VirtualNet, the rest is sequential |
| Message ports, worker transfer | ports in flight | planned |
| Lazily loaded programs | archives fetched once | only the await is modelled (Procs) |
| Codec and crypto (Rust) | none | pure functions of bytes |
| Cookie jar, module loader, builtins, Python, shell and programs, vendored Node library | per-process or parsing | sequential, and compared with Node by the repository's own spikes |
| Host SDK, React bindings, studio, sites, scripts, examples | UI and wiring | message pumps and presentation |
| Stall watchdog | heartbeats | reports only |

## 2. Plan

Done, in this order: `FileLocks` with `DbAccess`; `Signals`; `Procs`;
`FetchCache`; `VirtualNet`; `Persistence`; the proofs of `FileLocks`,
`VirtualNet` and `Procs`; `Stream` with `Pipes`; `NetRelay` and `RelayStream`;
`ByteStore` with `Vfs`; `GuestInput`; the proofs of `Signals`, `Pipes`,
`RelayStream` and `NetRelay`; the proofs about requests (`VirtualNet`), ends of
processes (`Procs`), input and commands (`GuestInput`) and streams (`Pipes`).

Next, in order of weight:

1. Theorems about `FetchCache` and `Persistence`, stated first without folds
   (section 5, "Only model-checked").
2. `DepCache`: snapshots, aliases, the index and eviction under concurrent calls
   and crashes (`dep-cache.js`, `kernel-worker.ts` 640-1000).
3. `SqliteDb`: a pager's lock protocol composed with `FileLocks`; a reader never
   sees half a transaction.
4. Tunnels; message ports that change threads with messages under way; watchers.
5. Liveness of `Persistence` (every change is mirrored at last while the origin
   accepts writes), and its index protocol as a refinement of an atomic index.

## 3. The modules and the code

Conventions: an operator has the name of the function it translates where there
is one; the comment above a variable names the field it stands for. A definition
`Name_What` beside `Name` is a mutant: the same operator with one bug, which the
project uses to show that a property can fail. What `finalize` does is in every
module the share of it that the module's state knows.

### FileLocks, DbAccess

`level[p][o]` is the level at which owner `o` (process and connection) holds
database `p`; `files` is the domain of the JavaScript map. The file system
worker serves one request at a time, so one request is one action, and a
request never waits: it answers with the level it left the caller at. `Refused`
and `Granted` are the conditions of `acquire` in its order. `Register` and
`Unregister` are `FsServer`'s; a doorbell found after `Unregister` is dropped
by `service()`, hence the guard `clients[c] = "registered"`.

`DbAccess` is the promise: readers come and go while nobody writes, one writer
works alone, and a process that ends loses its access. `FileLocks` implements
it with readers at SHARED and above and the writer at EXCLUSIVE
(`ImplementsAccess`); the intermediate levels are stuttering.

### Signals

One process and the kernel. `Signal` is the accepted case of `Kernel#signal`
(set the bit, notify, post a message, arm the window), `SignalApplied` the
others (finalize at once). The syscall window has the state word, the pending
bits and the futex: `EnterWait` compares the word, `WakeUp` needs a notify that
came while the guest waited, `Harvest` takes the bits and waits again if the
request is unanswered. The guest's loop is `pc`: a turn drains the pending set
(`BeginDrain`, `DrainNext`, `EndDrain`), runs callbacks (`BeginWork` to
`EndJS`), and sleeps unless a wake-up came (`EndTurn`); `Dispatch` receives a
message where the loop yields. Each piece of JavaScript may add and remove
listeners, make syscalls, stand a window down, exit or throw. `Throw` is
`runCallback`'s catch: the drain a handler was called from is over, and the
process lives on if an `uncaughtException` listener takes the error. What stood
behind the thrower had left the pending set already; `dropped` remembers it
until the same signal is posted again.

Abstracted: the order inside the pending set, which the code does not promise;
the cost of a callback; a guest's steps after it was finalized, which no one
sees. The interrupt byte Python polls is left out: the kernel never reads it.

### Procs

`procs`, `finalized` and `parent` are the kernel's; `worker` and the window
`word`, `op`, `arg` are the guest's side. The kernel is one thread, so a handler
is one action, with two exceptions, both modelled: `handleSpawn` awaits a
lazily loaded program (`HandleSpawn`, then `SpawnLoaded` or `SpawnFails`), and
`handleKill` answers the killer before it delivers (`HandleKill`, then
`KillDelivered`, with `KernelIdle` holding back other handlers but not guests).
`Finalize` computes the whole cascade: `Subtree` are the processes reached,
`CompletesBefore` its depth-first order, and, when a child's `onExit` throws,
`Completed`, `Entered` and `Notified` say how far it got. An exception is a
synchronous child whose result is larger than a response can carry (`big`).

Abstracted: exit codes and output streams; a worker the browser reclaims
silently is one that takes no more steps, which any guest may do; a signal the
target catches changes no table, so `KillDelivered` may do nothing; a finished
request's `op` and `arg` are forgotten when nobody will read them again; and
messages of a finalized process are dropped at once instead of being ignored
one by one. A cascade is one action, so what a worker does in the moment before
its termination reaches it is not seen.

### FetchCache

`fetchCache` is the JavaScript `Map` in insertion order, which is the LRU order;
`pins` the lists of pids per body; `queue` and `active` the jobs, each with the
processes that share it. `Fetch`, `FetchShare` and `FetchHit` are the three ways
through `_fetchIntoVfs`; `FetchDone` is the continuation of a download (cache,
evict, free the slot, start the next, pin for each sharer); `ReadBody` and
`BodyConsumed` are the file system worker's read and the report the kernel
receives later; `Exit` is finalize's share. `unread` (who was handed what) and
`handedTo` are history. A read is one step, and completion and the pins of all
sharers are one action, for the continuations run in one microtask checkpoint.

### VirtualNet

The kernel's `listeners`, inboxes and pending requests against each guest's own
`serving` (listening handles). A syscall is two steps, the kernel's and the
guest's return, with the answer in `reply`. The loop is `pc`: in callbacks,
draining with non-blocking accepts (`DoNet`, `SysAccept`, `Accepted`,
`Drained`), parked; `woken` stands for a message or wake the guest has not acted
upon, whatever its source. A large body is staged through a file:
`RequestSpills` runs up to the await, `Staged` or `StageFails` after it.
Responses come in frames (`SysRespond`, `SysRespondRest`); only their number
matters. `Accepted` is `bridgeHttp` up to the hand-over to the guest's own http
stack; `BridgeFails` are its two early ways out, where `http.request` throws or
the body cannot be read: a 502 is sent at once and the body file stays
(`runtime/index.js:1063`-1066, 1076-1079). An `unlink` that fails is not tried
again and counts as done. Cookies, headers, bodies and ephemeral ports are left
out.

### Persistence

Each tab has a tree (`node`, `data`, one open descriptor) and a mirror: the
`queue` (a `Map` in insertion order), `owned` (changes not merged yet), the
drain's place, the timer, the flush. All tabs share `disk`, `live` (the index),
`stage` (its staged copy) and `lock`. A step runs a tab's code from one await
to the next, so between any two steps other tabs run, calls arrive, or a tab is
killed. `OnWrite` and `OnDelete` are the queue's coalescing; `Drain`, `Loop`,
`NextEntry`, `Resume`, `Ended` the drain; `IndexLocked`, `IndexStaged`,
`IndexReplaced` and their failures the replacement of the index under the Web
Lock; `Boot` is `restore`.

Abstracted: a path says whether it is a directory, so nothing changes kind;
symbolic links and modes travel like files; paths `shouldPersist` rejects are
not there; every engine has Web Locks; an open descriptor is not truncated on
opening; parents that `mkdir -p` or `restore` creates unasked count as untold.

### Stream, Pipes

`Stream` is the promise of a socket to its reader, whatever carries the bytes:
chunks in order, none missing and none twice, the end behind the last of them
unless the writer was cut off. Two modules implement it.

`Pipes` is a connection between two processes. `toKernel[p]` and `toGuest[p]`
are the message queues; a syscall is one step of both sides, taken when the
kernel has read everything the guest posted before it. What a guest postpones
with `process.nextTick` (the end of a dial, the hand-over of an accepted
endpoint) is in `ticks`. A TCP port is granted as a number and as a synthetic
path by two calls, with other processes' steps between them (`parked` is the
second half). `end[c][e]` is an endpoint handle: its state, whether the process
still maps it, its inbox, what it wrote and read. `Exit` and `Kill` are
`finalize`'s share: keys freed, connections closed at their other ends.

Abstracted: chunks are numbers; `setEncoding`, backlogs, timeouts and the
preview's HTTP route are left out; a dial inside one process is a dial.

### NetRelay, RelayStream

Two views of one protocol. `NetRelay` is about which streams exist: the three
tables of the kernel, the client's `streams`, its WebSocket (`ws`, with the
`queue` of packets until it opens), `listening` and `confirmed` ports, the
timer, and a session of the relay with its sockets and servers. `toRelay` and
`toClient` are the wire, which loses everything at once when the socket breaks
(`Lost`); a relay may also be replaced or removed (`SetNetRelay`). The relay
enters a server in its map at once (`servers`) and the server binds later:
`binding` are those still to bind, `bound` the ports really listened on, `late`
counts servers that left the map before they bound. A repeated LISTEN is
answered from the map (`RelayListen`); `Binds` and `BindFails` report for a
server of the map and for a late one alike, and an error takes out of the map
whichever server has the port (`AfterError`). `RelayStream` follows one stream
from the guest's handle to the program at the other end of the TCP connection,
through four queues: `CONTINUE` grants the client credit, `ACK` tells the relay
what the guest took in, and the relay pauses and resumes its socket. The relay
is the repository's own script; what the program at the other end does is free.

Abstracted: names, addresses and authentication; a chunk is a packet; a socket
of the relay's side hands everything to TCP in some step. Whether a server that
is closed before it has bound still binds depends on the net module under the
relay and is left open.

### ByteStore, Vfs

`Vfs` has the calls of `lib.rs` over a table of inodes. `Walk` resolves paths
with symbolic links and `..` by a RECURSIVE operator, which the code's own depth
limit bounds; it is why this module holds no theorem. A compressed body is its
bytes with a mark, and whether zlib makes it small enough is a choice. `RawMut`
is the inflation before a write, `MaybeCompress` what `close` and whole-file
writes end with, `EnsureHot`, `Inserted`, `Evicted` and `Invalidated` the cache
of inflated bodies. Calls that fail change nothing and are left out, except
those that fail half-way (`mkdir -p`). `ByteStore` is the promise: files of
plain bytes behind descriptors with a cursor.

Abstracted: modes, times and statistics; bytes other than one.

### GuestInput

One process that is debugged and calls `input()`. Input and commands each have
two routes: the message queue (`mailbox`), read on turns of the loop, and shared
memory (`window` for `OP_READ_STDIN`, `slot` for a command), read while parked.
`debugPaused` is the kernel's belief, which follows the guest's `fromGuest`
events; `syncStdin` is set by the first blocking read. `Drain` is
`_drainDebugQueue`, its second attempt the timer's `Retry`. `run` opens the start
gate; `resume` stands for every command that ends a pause; the others are
numbered. `typed`, `flowed`, `returned` and `handled` are history.

Abstracted: what commands do, and that a pause has a cause. There is one target:
a studio that switches to another one while a pause is shown and comes back has
forgotten the pause (`debug-session.ts:157`-158, 304) and is outside this model.

## 4. The runs

Every module's `TypeOK`, which carries the bounds of the code where it has any
(slots, frames, levels, windows), is part of an invariant of its run.
Deadlock checking is on in `vfs` and off in the others, because each of those
systems may really stop: processes end, budgets of calls and posts run out. Where
something must happen, a liveness property or an invariant of the form "whoever
waits has something to wait for" says so.

| Run | States | Shows |
| --- | --- | --- |
| `file_locks` | 2 399 (symmetric) | `WritersExclude`: two writers never meet, also when RESERVED and PENDING belong to different connections. `NothingLeaks`: no lock and no entry outlives its holder. `PendingDrainsReaders`: while one connection is at PENDING the others only go down. `ImplementsAccess`: the refinement of `DbAccess`. |
| `signals` | 530 542 | `SignalNotLost`: an accepted signal is in the window, in flight, pending or being drained until it is handled or a handler before it in the drain throws, and the loop does not sleep over one it has. `WindowOpenUntilStoodDown`: a process that was sent a signal and never stands down always has a timer running. `SignalReachesHandler`: without any timer, each signal that stood behind no thrower reaches its handler or default action if the guest's calls are answered. |
| `procs` | 243 835 | `NoOrphans`. `EveryEndIsTold`: a synchronous child's exit answers its own spawn and nothing else, nobody is parked in a spawn that nothing will answer, and each exit is reported. |
| `fetch_cache` | 213 578 | `CacheExact`: metadata, files and byte count agree. `SingleFlight`. `SharedBodyOutlivesReaders`: a body is there for each reader while all its sharers live. `EveryFetchSettles`. |
| `virtual_net` | 41 612 | `PortTableAgrees`, `InlineRequestSettledAtExit`, `RequestsAccounted` (a pending request is in the inbox, in an accept's answer or with the server, never nowhere, and a body file belongs to a pending request or to one the guest's bridge refused), `NoLostNudge`, `RequestAnswered`. |
| `persistence` | 463 543 (symmetric) | `MirrorExact`: what a settled tab alone changed is what the next tab to open will find. `NothingForgotten`: nothing that changed waits for no one. `IndexIsSafe`: tabs do not erase each other and a crash does not cost the index. `FlushIsDurable`. |
| `pipes` | 229 455 (symmetric) | `ServersAgree`: a live handle owns its port, and a key on which a process takes dials leads to it. `PeerOrFarewell`: for an endpoint in use the kernel has the connection with both its processes, or a close is in the endpoint's queue. `ClientPortsDiffer`: open connections differ in their client ports, and a port is nobody's to serve when it is given. `ImplementsStream`: both directions of each connection refine `Stream`. |
| `net_relay` | 748 574 | `TablesAgree`, `StreamsAgree`: kernel, client, guests and relay know the same streams, up to the packets under way. `BindingsSettle`: when everything said was heard and no server of the relay's map is still to bind, the client counts as forwarded exactly the served ports the relay did not refuse last, each has a server that really listens, and the relay's map has no other. `ForwardingResumes`: a served port is forwarded again after losses and replacements. |
| `relay_stream` | 358 690 | `InboundBounded`: a fast peer never has more than the window between itself and a slow guest. `ImplementsStream`. `EverythingArrives`: credit and acknowledgements never stop a stream for good. |
| `vfs` | 142 752 | `NamesResolve`: no sequence of renames, links and removals leaves a name without its inode. `HotIsSound`: the cache is bounded, its records agree, and what it holds is current. `NeverFightsWriters`: no body is compressed under a writer. `ImplementsByteStore`: compression and cache are invisible. |
| `guest_input` | 1 404 806 | `InputKept`: each chunk takes one route, once, in its order on it, those sent by message before those kept for the reader; a bare end is told only behind an end that went the same way, or to a captured process; nobody parks while something is kept for it, or after an end that came its way. `CommandsKept`: a command is in one place until it is carried out once. `ParkedGoesOn`: a parked guest goes on when the studio says so. |

One run shows where the code departs from its promise:

| Run | Property | What happens |
| --- | --- | --- |
| `persistence_index` | `IndexStaysReadable` | Writing the live index fails after its truncate; `finally` removes the staged copy all the same, and no index is readable from then on (`opfs-persistence.js:214`). |

### Other disagreements met, without a run of their own

Each property named here is a definition of its module; adding it to the cfg of
the module's run gives the trace.

- `HandlerRunsOncePerPost` (Signals): a guest harvests the bit in a syscall,
  drains it, and then the message of the same signal arrives: the handler runs
  twice, although `signals.js:27` calls the two paths idempotent.
- `WindowCoversUnanswered` (Signals): TERM is posted, then INT; the guest stands
  TERM down, which clears the only timer; INT is unanswered and no window is
  open (`kernel.js:2059`, 2112).
- `ThrowDropsNothing` (Signals): the kernel posts INT and TERM while the guest
  runs; the next drain clears its pending set and calls INT's handler, which
  throws. With an `uncaughtException` listener the loop is to "emit, and KEEP
  RUNNING" (`loop.js:153`), and it does, but TERM reaches neither its handler
  nor the default action (`signals.js:103`-112). `SignalNotLost` and
  `SignalReachesHandler` set the names behind a thrower aside.
- `FinalizedIsGone` (Procs, with `Outputs` both ways): in a cascade a synchronous
  child's result does not fit the response window; `respondOk` throws inside
  `finalize` of its parent, which is then marked finalized and stays in the table
  with its ports (`kernel.js:1001`).
- `BodyOutlivesReaders` (FetchCache): pins [A, B]; A reads, which pops B; A
  exits, which drops A; an evicted body is unlinked before B reads it
  (`kernel.js:2259`).
- `RequestSettledAtExit` (VirtualNet): the server exits while a large body is
  staged; the request is then registered for a dead process and never settled
  (`kernel.js:1732`).
- `FileGoneOnceSettled` (VirtualNet): a request with a large body is accepted,
  and `bridgeHttp` answers it with a 502 before it takes the body: nobody
  unlinks the file, although the kernel cleans up elsewhere because "the VFS
  lives in Wasm RAM" (`kernel.js:1037`-1041). `RequestsAccounted` allows it that
  file and no other.
- `NothingElseBound` (NetRelay): a server is opened and closed before the
  WebSocket opens; LISTEN and UNLISTEN arrive in one batch, `close` finds
  nothing to close (`scripts/net-relay.mjs:386`-390), the server binds and
  listens on in no map, the VM's port is not forwarded, and a later LISTEN of it
  fails with the address in use. This needs a net module under the relay whose
  `close` does not withdraw a bind that is under way.
- `NobodyStranded` (Pipes): the server closes between the tick that registers an
  accepted endpoint and the one that hands it over. The comment at
  `bindings/net.js:856` says the client is told; it is not (:885), and waits.
- `OpenFileHasInode` (Vfs): the last name of an open file goes, and
  `unlink_child` frees the inode (`lib.rs:1048`): reads and writes fail with
  EBADF, and `fstat` unwraps the missing inode (:1063), which panics.
- `RunningGetsItsCommands` (GuestInput): "a running worker gets its commands as
  ordinary postMessages" (`debug.js:12`); commands that crossed its `resumed`
  stay in the slot and the queue until the next pause, and later ones overtake
  them.
- `EndedReaderIsTold` (GuestInput): "once input has ended it stays ended"
  (`kernel.js:1960`); an end that was sent before the first blocking read went to
  the flowing stream, and the reader parks for ever.
- `NothingOvertaken` (GuestInput): the switch of the route is there so that
  nothing goes "to the flowing stream, where the synchronous reader will never
  look for it" (`kernel.js:1949`-1953); what went there before the switch stays
  there: the reader is handed a later chunk first, and a captured process that
  was given its input reads its end.
- A command larger than the slot is retried for ever and holds back the queue
  (`debug.js:46`); a pause that was told before the studio attached is never
  shown (`debug-session.ts:215`). `ParkedGoesOn` excuses both.
- The relay's `CONTINUE` is absolute: it may overstate by what is on the wire
  (`net-relay.js:387`). `close` discards what waits for credit, although a
  `shutdown` before it promised to let it out (:211, 222); `RelayStream` counts
  the direction as cut. The relay's sockets are opened without `allowHalfOpen`,
  so a peer's end ends the other direction as well.
- Link counts of the file system only drift upwards: creating through a dangling
  symbolic link replaces the link's entry without releasing it (`lib.rs:744`), and a
  rename over a directory that is not empty, or into itself, cuts off what was
  below. Their inodes are never freed; names still resolve.

- `PinsAreOfTheLiving` (FetchCache): a process that exits during its download
  is pinned after `finalize` has dropped its pins, and the pin stays
  (`kernel.js:2365`).
- `NoStrayErrno` (Procs): a killer was acknowledged and runs on; its kill throws
  and `failSyscall` finds REQUEST in its window, but of its next request, which
  gets the errno (`kernel.js:1248`).
- `MirrorComplete` (Persistence): what the file server does not tell the mirror
  is not mirrored. Three calls suffice: a rename over a non-empty directory
  leaves the old children in the index; a write through a descriptor opened
  before a rename goes to the old name; a write through one hard link is not
  mirrored under the other (`fs-server.js:429`).
- The very first index of an origin, torn by a kill or a failed write, leaves
  no live index and an unreadable staged one; that reads as "must not be
  replaced", so nothing is ever indexed again (`opfs-persistence.js:172`). And
  after a failed index write nothing retries before the next change.
- INT, TERM, INT: `sigUnhandled` holds only the last signal, so the second INT
  is posted again although the first was never answered (`kernel.js:2103`).
- A synchronous child whose result is too large leaves its parent parked for
  ever: the exception leaves `finalize` before the answer is written
  (`kernel.js:1882`, 1180). This is why `procs` sets `Outputs = {FALSE}`.
- The body of an uncacheable request is never unlinked, and requests in the
  inbox of a server that closed wait until it listens again or exits. Neither
  contradicts a comment; `MetaMatchesBody` and `RequestAnswered` are stated
  accordingly.

### Bounds, and why they are enough

- `MCFileLocks`: two clients with two connections each give the four owners a
  conflict of RESERVED, PENDING, a reader and a newcomer needs, and two
  connections with one number in different clients; two databases show that
  entries do not interfere. The theorems below cover all other sizes.
- `MCSignals`: two signals, two posts in all, one message in flight to the
  kernel besides the exit. Two posts are needed for a repeat and for two
  signals under one timer; a third adds no new pair.
- `MCProcs`: three processes, one of them started by the host, one message in
  flight per process: a parent, a child and a grandchild or sibling, each
  created in any of three ways, any of them the killer or the victim. A cascade
  of depth two is the deepest that three pids allow; the proof of `NoOrphans`
  is for any depth.
- `MCFetchCache`: two processes, a body that fills the cache, one that exceeds
  it alone and one that is not cacheable, one slot, three bodies in all: sharing,
  queueing, eviction of a pinned and of an unpinned body, and a hit between.
- `MCVirtualNet`: two processes contend for one port; one request crosses
  inline and is answered in two frames, the other is staged; each of them may be
  refused by the bridge. The theorems cover more of each.
- `MCPersistence`: two tabs, two directories with one file each (one of them
  low priority), two inodes, and three calls, flushes, failed writes or crashes
  altogether, at most one of them a fault and one a flush. Three suffice for each
  mutant: delete and rewrite, write and rename, change and flush with another
  tab's change between, change, land and crash. `CrashSurvived` is a promise
  about one crash, as its formula says.

- `MCPipes`: two processes, one TCP port and one path, two connections, a
  window of two client ports; listens, chunks, half-closes and twice the dials
  are five in all. Two connections wrap the window; two processes race for a
  key, and each may die. Five suffice for listen, dial, chunk and half-close, for
  a listener with two connections, and for three listens and a dial.
- `MCNetRelay`: two processes, one port, two connections, and three
  connections, grants, losses, replacements or binds that another program
  defeats in all: a loss while a dial is out and a port is bound, a second loss
  before the timer, a port given up and asked for again before its first bind
  has settled.
- `RelayStream.cfg`: credit and window of two, three chunks in all, split in any
  way between the two directions: the credit runs out, the window fills, and each
  is renewed.
- `MCVfs`: two names, one level deep, a link that may point to a file, a
  directory, nothing or itself; three inodes, two descriptors, writes of one
  byte, files of up to two, a cache of one: a file of two fills it alone. A
  rename over a name, into the parent and into itself all occur, and two
  descriptors of one file, one of them a writer.
- `MCGuestInput`: two numbered commands, the second of which never fits, two
  chunks and an end, two pauses, two clicks for each pause shown. Two pauses let
  a command that crossed the first be taken in the second.

### Fairness

- `NetRelay`: the timer fires, a WebSocket that connects opens, packets are
  handled on both sides, a bind settles one way or the other (weak). Nothing is
  assumed of losses, which are bounded by `MaxWork`, so a connection holds at
  last; the code retries for ever and promises no more.
- `RelayStream`: messages and packets are handled, a dial is settled, TCP takes
  what was written and the end of a connection is noticed (weak). Both programs
  may stop writing at any time; that a guest reads what it was sent is its loop
  (`Dispatch`), and that the program at the other end reads an end is assumed of it
  (`PeerReadsEnd`).
- `GuestInput`: the kernel handles messages and its timer, a parked guest takes
  a command from the slot, and somebody sits at the studio, which attaches and
  clicks once when it shows a pause (weak). The gate's own timer has no
  fairness, so `ParkedGoesOn` does not rest on it.

- `Signals`, `SpecGuestFair`: the guest's thread runs (weak fairness of its
  steps in a syscall and a drain), callbacks and handlers return (strong, for a
  callback may make many syscalls), the loop that yields again and again gets its
  messages (strong, for it is busy in between), and the kernel receives
  messages. That syscalls are answered is an antecedent of the property, since
  a parent of a long-running synchronous child is not answered for long. The
  grace timer has no fairness: the property shows that it is not needed. A handler
  may throw; what it takes with it is set aside.
- `FetchCache`, `SpecSettles`: the fetcher settles each request it was given,
  one way or the other. This is what the code itself assumes: a fetch that
  never settles keeps its slot, for the kernel has no time-out for it.
- `VirtualNet`, `SpecServed`: the kernel serves syscalls and the file system
  worker settles a staged write (weak); what an accept returned is bridged or
  refused (weak); a turn's callbacks return and a served program answers what it
  accepted (strong: other callbacks and other requests come between). The latter
  is an assumption about the program, named so in the module; a woken or busy
  guest starts its next turn (weak).

## 5. What is proved

TLAPS checks every proof to its leaves. All of them hold for any sets of
processes, connections, databases, ports, requests and any bounds; the only
assumptions are the modules' own (`VirtualNetAssumption`, `ProcsAssumption`,
`SignalsAssumption`, `PipesAssumption`, `RelayStreamAssumption`,
`NetRelayAssumption`, `GuestInputAssumption`), which TLC evaluates in every run:
bounds are naturals, `None` is none of the model's values, the ports the VM can
serve are finitely many, a response has at least one frame, a relay acknowledges
at least once in a window (`0 < ACK_EVERY <= RELAY_WINDOW`), the credit is
greater than one, `run` and `resume` are two commands and no numbered ones, and
the input ends at some chunk. `FileLocks` assumes nothing. One theorem has a
hypothesis of its own: `EndsAreTold` is about processes whose output fits the
syscall window (`Outputs = {FALSE}`, as in the run `procs`). With larger results
it is false; section 4 says what happens then.

| Theorem | Says |
| --- | --- |
| `FileLocksProofs!TypeCorrect` | `Spec => []TypeOK` |
| `FileLocksProofs!WriterIsAlone` | `Spec => []WritersExclude`: a connection at EXCLUSIVE is the only holder, and one at most is at RESERVED, one at PENDING |
| `FileLocksProofs!NoLeak` | `Spec => []NothingLeaks`: only registered processes hold locks, and an entry exists exactly for a locked database |
| `FileLocksProofs!WriterDrainsReaders` | the action property `PendingDrainsReaders` |
| `FileLocksProofs!Refinement` | the lock table implements `DbAccess` |
| `VirtualNetProofs!TypeCorrect` | `Spec => []TypeOK`, no response overruns its frames |
| `VirtualNetProofs!PortsAgree` | the kernel's ports and the guests' handles agree |
| `VirtualNetProofs!OneServer` | no two processes serve one port |
| `VirtualNetProofs!InlineSettled` | a request that crossed inline never waits for a process that ended |
| `VirtualNetProofs!NudgeKept` | no wake-up is lost |
| `VirtualNetProofs!Accounted` | `RequestsAccounted`: a pending request is in one place of the process that owes it, and a body file belongs to a pending request or to one the guest's bridge refused |
| `ProcsProofs!TypeCorrect` | `Spec => []TypeOK` |
| `ProcsProofs!NoOrphanLives` | no live process has lost its creator |
| `ProcsProofs!EndsAreTold` | `EveryEndIsTold`, as long as results fit: who waits for a process hears of its end and of nothing else, and each exit is reported |
| `SignalsProofs!TypeCorrect` | `Spec => []TypeOK` |
| `SignalsProofs!Delivered` | `SignalNotLost`: an accepted signal that has not run, and stood behind no handler that threw, is on its way by one of the two paths, and the loop never sleeps over one |
| `SignalsProofs!WindowOpen` | `WindowOpenUntilStoodDown`: from the first signal on a grace window is open, until the guest stands one down |
| `PipesProofs!TypeCorrect` | `Spec => []TypeOK` |
| `PipesProofs!RoutesAgree` | `ServersAgree`: a live server owns its port, and a key a process takes dials on leads to it |
| `PipesProofs!FarewellsSent` | `PeerOrFarewell`: of an endpoint in use the kernel has the connection with both its processes, or a close is in the endpoint's queue |
| `PipesProofs!PortsDiffer` | `ClientPortsDiffer`: connections open at once have different client ports, and a port is nobody's to serve when it is given |
| `PipesProofs!Refinement` | `ImplementsStream`: each direction of each connection is a `Stream` |
| `RelayStreamProofs!TypeCorrect` | `Spec => []TypeOK` |
| `RelayStreamProofs!Bounded` | `InboundBounded`: what the relay has sent of a stream and the guest has not read is bounded by the window |
| `RelayStreamProofs!Refinement` | `ImplementsStream`: each direction of each relayed stream is a `Stream` |
| `NetRelayProofs!TypeCorrect` | `Spec => []TypeOK` |
| `NetRelayProofs!TablesSafe` | `TablesAgree`: the kernel's maps, the client's streams, the waiting dials and what guests were told are one relation |
| `NetRelayProofs!StreamsSafe` | `StreamsAgree`: a stream only one of client and relay has is explained by a packet under way |
| `NetRelayProofs!BindingsSafe` | `BindingsSettle`: when all packets have been read and no server of the relay's map is still to bind, the client counts as forwarded the served ports the relay's last word did not refuse, and each has a server that listens |
| `GuestInputProofs!TypeCorrect` | `Spec => []TypeOK` |
| `GuestInputProofs!CommandsInOnePlace` | `CommandsKept`: a command is in one place until it is carried out, once |
| `GuestInputProofs!InputOnItsRoute` | `InputKept`: each chunk takes one route, once, in its order on it, first those by message, then those kept for the reader; a bare end follows an end on the reader's route or is a captured process's; no reader parks while something is kept for it, or after an end that came its way |

**FileLocks.** That a writer is alone (the first part of `WritersExclude`) is
not inductive: that nobody else can hold anything when a connection reaches
EXCLUSIVE needs that it was the only one at PENDING or above on the way there.
`IInv` is the conjunction of the run's invariants and the types. `GrantedIsSafe`
says once what an answer to `acquire` can be; one lemma for each action takes it
from there. For the refinement, `MappingStep` says which changes of levels are
steps of `DbAccess`, and one lemma for each action shows that its change is one
of them; `WriterDrainsReaders` uses `IInv` too.

**VirtualNet.** The state is split between kernel and guest, so the invariant
has to speak of the moments in between. `PortInv`: a port is held by a listening
handle, or granted in an answer its guest has not taken yet. `WakeInv`: an
answer "the inbox is empty" that is outdated has a nudge on its way, so the
guest that then parks does so with `woken` set. `FramesInv`: how far a request
has come bounds its frames and says that it was routed. `IInv` adds
`InlineRequestSettledAtExit`, which needs the first three to know that a request
not staged is delivered in the very step that looked its server up. Where a
request is, is an invariant of its own, `AccountInv`, on top of `IInv`.
`OnceInv`: an inbox holds no request twice. `PlacedInv`: the inbox, the answer
of an accept and the set of bridged requests exclude one another, and each of
them names the process the request was routed to; a response that has some of
its frames has a guest about to send the others. `HasInv`: a pending request is
in one of the three. Together with `SpilledFileOwed` they give
`RequestsAccounted` also for a process that dies between two frames.

**Procs.** `NoOrphans` needs `ParentOlder`: pids grow along the parent relation,
so what is reached from a process is younger, and a process completes after
everything below it. `ChildOfCompleted` is the heart: of every process the
cascade takes out of the table, also one an exception cut short, each live child
was entered. The theorem is for `Outputs` of any kind, hence also in the system
of `FinalizedIsGone`: the exception leaves zombies, but no live orphans.
`EndsAreTold` is for results that fit. `Placed` says where the request of a
process is: a doorbell the kernel has not read, a command that is still loading,
or the one synchronous child that lives; in each case its process waits, and one
that waits in a spawn has one of the three. `Calm` (what is finalized is out of
the table, which the exception breaks) and `Absent` (who is not in the table has
no thread and no message under way) carry it through the cascade, which may take
the parent, the child or both.

**Signals.** An accepted signal is in the window's bits, in a message, in the
guest's pending set or in the drain under way (`KeptInv`). That the loop does
not sleep over one needs `WakeInv`: whoever adds to the pending set outside the
drain leaves a wake-up, which the loop uses up only on its way to a turn; and
`DrainInv`, that a drain leaves nothing behind. The window stays open because of
`StandInv`: the kernel's queue holds "signal-handled" only after the guest stood
a window down. A handler that throws ends its drain; `KeptInv` lets go of the
names that `dropped` remembers and of no others. `QueueInv` keeps one place of
the bounded queue for the exit message.

**Pipes.** The kernel and the two guests of a connection learn of its changes at
different moments, so the invariant says what an unread message means.
`Handshakes`: an unread offer entitles its server to accept. `HungUp`: an unread
close says of its sender that it is done. `Records` and `Pairs` tie a connection
to its two endpoints, `Owned` and `LeadsHome` the tables to their guests;
`HalfDone` is about a guest between the two syscalls of one listen or close. An
accept rests on `Handshakes`, a close that is passed on upon `HungUp`, and
`finalize` on `Records`, for it has to find every endpoint whose peer died.
`PortsDiffer` needs of the allocator that the port it finds is nobody's client
port and that nobody serves it, and nothing of the messages.

The refinement rests on `StreamInv`, which adds to `IInv` what the queues hold.
A direction of a connection is a road of two queues, the writer's to the kernel
and the kernel's to the reader. `Carries` says of one queue that it has exactly
the chunks of an interval, in order, and every end behind them; `Joins`, that
the two intervals meet and lead from the last chunk in the reader's inbox to the
last one written. `Flow` claims a road only for a reader that may still take
something in (`Expects`): it runs, was told no end, none is in its inbox, and
its endpoint is mapped or the offer for it is still to be read. `Arrives` says
that the inbox itself holds what comes next. Three facts about messages make
this inductive. `CutOff`: what a killed writer had posted is gone, so a cut
stream has lost a suffix. `ExitLast`: a process posts nothing after its exit, so
the kernel forwards everything before it tells the peer. `OpenFirst`: a server
hears of a connection by its offer first, so no chunk comes before the endpoint
that takes it. That the kernel drops what it has no connection for loses
nothing, since `Handshakes` and `PeerOrFarewell` put a close before it on
the reader's side. The lemmas `FlowPosted`, `Passes` and `RoadTaken` say once
what a message that is posted, one of another connection and one that is taken
off do to a road; each action is then one of these.

**RelayStream.** The first part of `RelayStreamProofs` has the facts about
queues, the types and, action by action, which fields of which side change. The
bound rests on `Window` (what is unacknowledged is within the credit), with
`Tables`, `Fresh`, `Unread` and `Acks`, which account for every chunk between
the relay and the guest: `Unread` counts those the kernel holds and those in
messages the guest has not handled, `Acks` the acknowledgements that are due or
under way. The refinement needs the contents as well as the numbers. Every queue
a stream passes through carries an interval of its chunks, and consecutive
intervals join (`OutFlow`, `InFlow`); an end comes after the last chunk
(`OutEnds`, `InEnds`), and a stream that was cut has lost a suffix and nothing
else (`OutCut`, `InCut`). Each of the four lemmas `GuestWrites`, `PeerReading`,
`PeerWriting` and `GuestReading` then takes one side of one direction and shows
that what an action does to it is a step of `Stream` or none.

**NetRelay.** Nothing in this protocol is acknowledged, so the invariant says
what a packet under way still means when it is read. `Line` is what the client
has sent or, before the WebSocket is open, will send. `StreamInv`: a CONNECT is
for a stream the client wants, or a CLOSE of it follows; an ACCEPT is for a
socket the relay has, or a CLOSE of it follows; a CLOSE means that its sender
has nothing left. `PortInv`: of all that was said about a port only the last
word counts, in either direction, and it is true (`Wanted`, `Bound`, `Heard`).
Between a port that changed hands and the answer to an earlier request nothing
weaker is inductive. A bind settles later than its LISTEN, so the truth of a yes
(`Granted`) is that a server listens or is about to and will say so again: a
repeated LISTEN is answered before the bind settles, and if the bind then fails a
no follows. A late server that binds says yes for a port that may have been given
up; what keeps that harmless is that the client counts a port as forwarded only
while it asks for it. A CLOSE that arrives late could hit a later stream of the
same number: `Fresh` excludes it within one WebSocket, and `Link` says that a
lost one leaves nothing behind, so that the relay's count may start again.
`Room` bounds the kernel's numbers by the connections made, those still under
way included. `Relation` is `TablesAgree` entry by entry, and `TablesSafe` turns
it into equality of functions and of cardinalities, for which the connections
have to be finite. That the ports are finite is needed where the client lists
them one by one, to announce them again or to withdraw them.

**GuestInput.** `Tracked` says of one command that it is in at most one of five
places (the studio's queue, the kernel's, the slot, the guest's mailbox, what
was carried out), once there, and in one of them exactly if it was sent. That
the kernel's belief `debugPaused` may be outdated does not matter for it; that
the slot is filled only when it is empty, and emptied only by the guest, does.
`InputKept` is about the order on each route, so its invariant is an equation:
what flowed, what the mailbox holds of the input (`InputIn`), what was returned,
what is in the window and what the kernel keeps are, one after the other, what
was typed (`OrderInv`): the first two are one route, the last three the other.
It says nothing of a chunk of the first route against one of the second, which
may be read first (`NothingOvertaken`, section 4). `RouteInv` says when which of
the five may be non-empty: before the first blocking read nothing is in the last
three, and a parked reader is one for whom nothing is kept. `EndInv` ties the
kernel's flag `stdinEnded` to an end that took the second route: hence a bare
end is told behind one, and if the end was sent while a reader parks it went by
message. `InputIn` is a recursive function; that it takes the input of a longer
mailbox apart at either end is proved by induction, stated over a set of numbers
(`SetInduction`, from the well-foundedness of `<`).

Each `IInv` was checked by TLC on the runs' instances before it was proved.

### Only model-checked

- Liveness under fairness (`SignalReachesHandler`, `EveryFetchSettles`,
  `RequestAnswered`, `ForwardingResumes`, `EverythingArrives`, `ParkedGoesOn`):
  the prover has no rule for it.
- The refinement of `ByteStore` by `Vfs`, and everything in `FetchCache`,
  `Persistence` and `Vfs`. `Vfs` resolves paths by a RECURSIVE operator, which the
  prover cannot expand. `FetchCache` and `Persistence` are built on folds and
  `SelectSeq` over queues and on bags, which take an operator as an argument; what
  they compute for every input needs an induction over that operator, which the
  provers cannot instantiate. An induction about one recursive function does work
  when it is stated over a set of numbers, as in `GuestInputProofs`.
  The invariants among these are `CacheExact`, `SingleFlight`,
  `SharedBodyOutlivesReaders`, `MirrorExact`, `NothingForgotten`, `NamesResolve`
  and `HotIsSound`; `IndexIsSafe`, `FlushIsDurable` and `NeverFightsWriters` are
  the other properties.

## 6. Hazards without a property

`PROJECT.json` lists every hazard with the properties that cover it. Five have
none: four the code is known to violate, each with its definition in a module
(`FinalizedIsGone` and `NoStrayErrno`, `MirrorComplete`, `NobodyStranded`,
`OpenFileHasInode`; section 4), and the access times of the dependency cache,
truncated to 32 bits (`dep-cache.js:449`), whose module is planned. Notes of other
hazards say which part of them their properties set aside.
