# A verification project for the E2B infrastructure

TLA+ models, model-checking configurations and machine-checked proofs for the
core logic of this repository: the control plane (`packages/api`) that decides
which sandboxes exist, the node agent (`packages/orchestrator`) that runs them
as Firecracker VMs, and the shared code both rest on.

## 1. Inventory of the system

| Part | State | Operations | Talks to |
|---|---|---|---|
| **API instance cache** `api/internal/cache/instance` | the map of running sandboxes with their end times, the map of pausing ones, counters | `Add`, `Get`, `KeepAliveFor`, `Delete`, `Sync`, the evictor goroutine, `MarkAsPausing`/`Unmark`/`WaitForPause`, `PauseDone` | hooks below, handlers |
| **API orchestrator client** `api/internal/orchestrator` | nodes and their CPU/RAM usage, sandboxes being started per node | insert and delete hooks, `syncNodes` (every 20 s), `connectToNode`, `PauseInstance`, `CreateSandbox`, `getLeastBusyNode` | node server (gRPC), database, DNS, Nomad |
| **API handlers** `api/internal/handlers` | none of their own | create, resume, refresh/timeout, pause, kill; request and start a template build | cache, client, database |
| **API template builds and caches** | build status by id with TTL, per-team counter; templates and teams by key with TTL | `BuildCache.Create/SetDone/Append/Delete`, `BuildTemplate` | template manager (gRPC stream), database |
| **Node server** `orchestrator/internal/server`, `internal/sandbox` | the map of sandboxes, DNS records, the pause queue, per sandbox a cleanup list run once | `Create`, `Update`, `List`, `Delete`, `Pause`; a goroutine per sandbox that waits for its end | network pool, NBD, template cache, Firecracker |
| **Network slot pool** `sandbox/network` | channels of new and of reused slots, slot keys in Consul | `populate`, `Get`, `Return`, `Close` | Consul, netlink |
| **NBD pool and dispatch** `sandbox/nbd` | a bitmap of devices, channel of free ones; in-flight requests | `Populate`, `GetDevice`, `ReleaseDevice`; `Open`, `Close`, `Handle` | kernel |
| **Block devices, rootfs, memory faults** `sandbox/block`, `rootfs`, `uffd` | dirty and cached blocks, chunk fetchers | `ReadAt`, `WriteAt`, `Slice`, `Export`, `EjectCache`, `Serve` | object storage |
| **Template and diff stores** `sandbox/template`, `sandbox/build` | TTL caches of templates and of build diffs | `GetTemplate`, `AddSnapshot`, `Fetch`, `ReadAt` by mapping | object storage |
| **Storage headers** `shared/pkg/storage/header` | none (pure) | `CreateDiff`, `CreateMapping`, `MergeMappings`, `GetShiftedMapping`, serialization | — |
| **Shared utilities** `shared/pkg/utils`, `smap` | a write-once cell, a map of them, a lockable context | `SetOnce`, `WaitMap`, `LockableCancelableContext` | — |
| **envd** (the agent in the VM) `packages/envd` | processes by pid, subscribers of each output stream, watchers | `Start`, `Connect`, `SendInput`, `Signal`, `MultiplexedChannel` | — |
| **Template manager, proxies, infrastructure, generated code** | — | sequential pipelines, I/O, deployment | — |

What is hard, and what makes each part correct:

* **Nothing serialises two requests of one sandbox.** Every handler is a
  sequence of looking up, deciding and changing; kill, refresh, pause, resume,
  the evictor, the sync loop and two hooks of each instance interleave freely.
  Correct means that an instance that is cached is evicted once, its hook runs
  once, a pause is reported as done only when it is, nobody waits for an answer
  that never comes, and the usage of a node comes out even.
* **The API and the nodes disagree for a while.** The sync loop works on a list
  that is already old; RPCs fail after they took effect; a node disappears.
* **Cleanup on the node** runs once, in reverse order, whoever starts it, and
  hands slots and devices back for reuse: a resource must never be handed to a
  second sandbox while the first still uses it.
* **Write-once results** are raced for by setters and waited for by readers.

PROJECT.json lists every component (also those left out, with the reason) and
every hazard at its line with the properties that cover it.

## 2. Plan

The order follows what would hurt most: first who owns a sandbox and what a
pause means (API), then who owns its resources (node), then the data paths.

| # | Module | Abstract specification | Status |
|---|---|---|---|
| 1 | `SetOnce` | `SetOnceSpec` | done, checked and proved |
| 2 | `InstanceCache` (cache, hooks, sync, handlers) | `InstanceLifecycle` | done, checked and proved |
| 3 | `NodeServer` with `NetworkPool` (sandboxes, DNS, cleanup, slots, pause queue) | `SlotOwnership` | done, checked and proved |
| 4 | `HeaderMapping` (`CreateDiff`, `CreateMapping`, `MergeMappings`, the lookup) | what each block held when it was paused | done, checked and proved |
| 5 | `Chunker` / `Overlay` / `NbdPool` | read-your-writes of a device | planned |
| 6 | `ProcessStreams` (envd processes, output fan-out) | every client gets every later chunk, then the end | done, checked and proved |
| 7 | `TemplateBuild` (requests, builds and deletions of a template, its caches, rows, stream and files) | — | done, checked and proved |
| 8 | `NodePlacement` (`getLeastBusyNode`) | — | planned |

## 3. What is modelled

### 3.1 `SetOnce`: the write-once cell (`shared/pkg/utils/set_once.go`)

Every setter and waiter is a process whose steps are the channel and mutex
operations of `setResult`, `Wait` and `WaitWithContext`; `Goto` moves its
program counter.  `SelectClosed`/`SelectDefault` are the two arms of the
select, `Lock`/`Store`/`Unlock` the write, `SetDone` the deferred `close(done)`,
`WakeUp`/`CtxDone`, `RLock`, `Read` the waiter.  `SetOnceSpec` is what the cell
promises: one value, set at most once, never seen before it is set.

### 3.2 `InstanceCache`: the life of a sandbox in the API

One module, because every interesting behaviour crosses the packages
`cache/instance`, `orchestrator` and `handlers`.  An *instance* is an
`InstanceInfo` object (a sandbox may have several over time, and the code
compares and locks objects); a *VM* is what a node runs.

| Variables | Code |
|---|---|
| `running`, `pausing`, `count` | `lifecycleCache.running`, `InstanceCache.pausing`, the sandbox counter |
| `owner`, `start`, `expired`, `autoPause`, `outcome` | an `InstanceInfo`: its sandbox id, start time, whether its end time has passed, `AutoPause`, `Pausing` (a `SetOnce`) |
| `insertHook`, `deleteHook` | where the goroutines of `getInsertInstanceFunction` and `getDeleteInstanceFunction` are |
| `evScan`, `evCur` | the goroutine of `lifecycleCache.Start`: what is left of its scan, what it found expired |
| `mode`, `rpc`, `rsb`, `rgot`, `rval` | per HTTP request: its kind, where its handler is, the sandbox it names, the instances it looked up |
| `sPC`, `sList`, `sGone`, `sCur`, `syncs` | the sync loop and the list it works on |
| `vm`, `started`, `known`, `usage`, `dns`, `losses`, `deaths` | what the node runs, the nodes map, the node's CPU/RAM usage, DNS records |
| `build`, `image`, `last` | the `env_builds` row of a pause, the VM it captured, what `GetLastSnapshot` returns |

(The module names each variable where it declares it.)  An action is one step
of a handler between two points where another goroutine can come in: a map
operation, a lock, an RPC, a database statement.  `InstanceLifecycle` is the
abstract specification: an instance goes from new to cached (one per sandbox)
or refused, from cached to evicted, and its delete hook runs exactly once after.

Abstractions: time is an `expired` flag that `Expire` sets and a refresh
clears; an RPC is one step on the node with a reply that may be lost; teams,
limits, authentication and JSON are left out; whether an instance that `Sync`
adds auto-pauses depends on the node's configuration and is either.  `Add` and
`SyncAdd` take the insertion and `UpdateCounters` as one step, since nothing reads the
counter, and leave out the validation errors (`operations.go:62-86`) of arguments the API
builds itself; `KillPaused` takes the lookup of the snapshots' builds and their deletion
as one step.

### 3.3 `NodeServer`, `NetworkPool`: running sandboxes on a node

`NetworkPool` holds the state and the steps of the slot pool and of the keys in
Consul; `NodeServer` extends it with the gRPC handlers and everything one
sandbox needs, and takes its steps.  A call `c` of `Create` stands also for the
`Sandbox` object and the `Cleanup` it makes.

| Variables | Code |
|---|---|
| `kv`, `newSlots`, `reusedSlots`, `popSlot`, `ips` | slot keys in Consul, the pool's two channels, the slot `populate` has in hand, the slot a sandbox was given |
| `sandboxes`, `dns` | `server.sandboxes`, the records of the node's DNS server |
| `pauseQueue`, `permit`, `pauseMu` | the semaphore, who holds a permit of it, the mutex |
| `pc`, `sid` | where `Create`/`NewSandbox`/`Process.Start` is, for which id |
| `cleanup`, `priority` | how many functions were given to `Cleanup.Add` (a prefix of `CleanupOrder`), whether `AddPriority` was called |
| `run`, `left` | `Cleanup.run` under its `sync.Once`: not begun, in the priority functions, in the list with `left` to go, done |
| `vm`, `uffd` | the Firecracker process, the page fault handler |
| `mount`, `cache`, `finished` | the NBD mount, the overlay's cache file, the token in `CowDevice.finishedOperations` |
| `life`, `stopping` | the goroutine that `Create` spawns, `go sbx.Stop()` of a pause |
| `rpc`, `rid`, `rgot` | a `Delete` or `Pause`: where it is, its sandbox id, the sandbox it found |

The cleanup list is the heart of it: `Create` registers a function after each
resource it got, may fail anywhere, and then runs the list itself; later
`Delete`, the stop that `Export` spawns, the deferred stop of `Pause` and the
sandbox's own goroutine all call `Run`.  `BeginCleanup` is `once.Do` (the first
caller's goroutine runs `RunPriority`, `CleanDns`, `CleanUffd`, `CloseMount`,
`CloseOverlay`, `CleanSlot`, `RunEnds`; the others wait for `run = "done"`).
`Restart` is a new process: its memory is empty, Consul's keys and Firecracker
processes of the old one stay.

`SlotOwnership` is what the node promises about slots: reserved before use,
waiting or held by one sandbox, handed to a sandbox once, given back once; a
slot may get lost (reserved, nobody's), as crashes and lost answers cause.

Abstractions: a slot is its index and its key (network devices are external);
the function that removes private files is left out of the list; a failure
inside one step is the failing action of that step (`CreateFails`, `FcFails`,
`PauseFails`), a failing Consul call is counted by `MaxKvFaults`; the template
is there or `Create` fails; `Update` and `List` read or set only the end time
and the map; `DisconnectFails` says whether the kernel may take longer than the
four seconds `DirectPathMount.Close` waits.  `CarefulSpec` restricts the caller:
no `Create` of an id while one is listed or a request unanswered.

### 3.4 `HeaderMapping`: what a resume reads back

A pause stores only the dirty blocks; everything else of a memory or of a disk
stays in the diff files of earlier builds, and the header says where.  The
module follows a file through any number of pauses, resumes and forks and keeps
beside the code's data (`files`: the diff files, `mappings`: the headers) what
each block really held when its build was paused (`disks`).

| Variables | Code |
|---|---|
| `dirty`, `disk` | the tracker's bitmap, the contents of the running sandbox's blocks (a content is the build that wrote it) |
| `files`, `mappings`, `parent` | diff files, headers, the build the sandbox was started from |
| `cursor`, `startBlock`, `blockLength`, `buildStorageOffset`, `diffMapping` | the loops of `CreateDiff` and `CreateMapping` |
| `baseMapping`, `baseIdx`, `diffIdx`, `merged` | the loop of `MergeMappings`, one action per case |

The loops are spelled out round by round, not as functions: so the loop's
invariant can be stated and proved for a file of any size, and that some case of
`MergeMappings` always applies is absence of deadlock.  Abstractions: offsets count blocks (the code's are
multiples of the block size, by its own construction); ranges of length zero are made by
no caller; an empty diff list leaves the parent's ranges (`Merged`), as the early
return does; `ValidateMappings` is called by tests and tools only.

### 3.5 `ProcessStreams`: a process in the sandbox and who watches it

envd runs a process and hands what it writes to the `Start` request that began
it and to every `Connect` that joined later; its end goes the same way.  Two
`MultiplexedChannel`s do that, each with a goroutine that walks over the
consumers, while requests join and leave.

| Variables | Code |
|---|---|
| `kind`, `proc`, `emitted`, `eof`, `waiter`, `listed` | how it was started, the process, the chunks read from it, the readers' `outWg`, `Handler.Wait` and the goroutine around it, `Service.processes` |
| `source`, `sourceClosed`, `exited`, `channels`, `capacity` | `DataEvent.Source`, `exited`, the slices of consumers and the room in `DataEvent`'s array |
| `fan`, `item`, `at` | the goroutine of `NewMultiplexedChannel`: where it is, the value in hand, its place in the loop |
| `view`, `shared`, `shut`, `crashed` | the closing loop's slice, whether it aliases `channels`, channels closed so far, a panic |
| `handler`, `sub`, `cancelled`, `got`, `since` | per request: the handler, the goroutine that streams, its context, what its client was sent, what had been read when it joined |

`Fork` and `Join` are the two halves of `Fork` (the unlocked test of `exited`,
the append), `Remove` the deferred function; a waiting writer keeps new readers
out (`WantsLock`), as Go's `RWMutex` does.  `GrowArray`, `AppendInPlace` and
`ShiftedView` are what `append` does to the array that the closing loop, which
holds no lock, walks over.

Abstractions: the readers of stdout and stderr are one; receiving from a
consumer's channel and `Send` are one step; `StartEvent`'s goroutine, which has
one consumer and only ever sees it leave, is left out; input, signals, filesystem
watchers and the keepalive timer are not modelled.

### 3.6 `TemplateBuild`: the builds of one template

A build passes through six places that nothing keeps in step: the API's build
cache, its row in the database, the goroutine of the start request, the stream to
the template manager, the bucket, and the API's template cache that tells new
sandboxes which build to use.  A *run* is one start request, the goroutine it
leaves behind and the `TemplateCreate` call that makes.

| Variables | Code |
|---|---|
| `template`, `rows`, `finishedAt`, `clock` | the `envs` row, the status of each `env_builds` row, when `FinishEnvBuild` wrote it |
| `entry`, `counter` | the `BuildCache` item of the template (build and status), `BuildCache.counter` |
| `pc`, `of` | a run: where its handler or goroutine is, its build |
| `tm`, `pending`, `files` | a run's handler in the template manager, what its upload has yet to write, which run wrote each file in the bucket |
| `cached`, `found`, `crossed` | `TemplateCache`'s item, what each `Get` read before it sets the cache, whether an `Invalidate` came in between |
| `deleter`, `listed` | `DeleteTemplatesTemplateID`, the builds it found |
| `overlapped`, `lapses`, `breaks`, `faults`, `restarts` | what happened: two runs of one build at once; and mishaps, counted |

`Create` is the one gate, one step under the cache's mutex: an item with status
"building" refuses the start, whichever build of the template it is of.
`SetDone` is one step too: what it changes after its unlocked read is an item
that, had it expired, nobody sees any more.  `Restart` empties the API's memory
and leaves database, bucket and template manager as they are.

Abstractions: one template (all state is keyed by it, save the counter); a start
names a build of the template; the transaction of a request is one step, because
the row of the template that it changes first serialises it with others;
`finished_at` is followed only where it is read, for uploaded builds; asking for
logs only prolongs the item; aliases, teams and template updates are left out; a
hit of the template cache changes nothing; a stream that ends without a readable
trailer (`create_template.go:89-103`) is one that breaks (`StreamBreaks`); a deletion
refused because the template has snapshots, or by a failing `DeleteEnv`
(`template_delete.go:94-118`), is one that stops there, as a deletion may anywhere.

## 4. Runs

| Run | Configuration | Question | Result |
|---|---|---|---|
| `set_once` | 3 setters, 2 waiters (1 with a context) | is the cell written once, never read early, and everyone released? | holds |
| `instance_cache` | 1 sandbox, 2 instances, 2 VMs, 2 requests of any kind, 1 sync round | lifecycle, usage of the node, truth of a pause and that it is answered, under every interleaving | holds, about 1.2 M states |
| `instance_cache_live` | 1 instance, 1 VM that may die, 1 request, 2 sync rounds, 1 loss of the node at any step, fair scheduling | truth of a pause when the VM or the node goes; an expired instance is evicted, a waiter for a pause released | holds, about 0.15 M states |
| `kill_undone` | as `instance_cache` | does a killed sandbox stay killed? | **violated** |
| `resume_overtakes_pause` | as `instance_cache` | does a resume wait for the pause in progress? | **violated** |
| `header_mapping` | 4 blocks, 2 snapshots of any sandbox, every set of dirty blocks | does every build's header cover the file and read back what was paused? | holds, about 0.2 M states |
| `node_server` | 2 Creates of 1 id, 1 Delete or Pause, 2 slots, reuse channel of 1, late disconnects, 1 restart at any step | do VMs and DNS records keep their slots however cleanups meet, and are the slots of the old process safe from the new one, and has an ended sandbox released all it held? | holds, about 2.7 M states |
| `node_server_live` | 1 Create, 2 requests, 2 permits, 1 Consul failure, fair scheduling | do slots change hands as `SlotOwnership` says, are pauses exclusive, disks final, permits neither made up nor lost, every call answered and every ended sandbox freed? | holds, about 0.2 M states |
| `running_unlisted` | as `node_server`, a careful caller | is every running sandbox listed? | **violated** |
| `template_builds` | 2 builds, 2 start requests of either, 1 lookup, 1 deletion, 2 files, 1 mishap of any kind | one build at a time, an even counter, whole files, a cache that follows, no row left building? | holds, about 1.2 M states |
| `process_streams` | 1 Start of any kind, 1 Connect, 2 chunks, a buffer of 1, 1 client that leaves at any step | is a client sent all output since it joined, in order, then the end; is an ended process reported? | holds, about 0.5 M states |
| `output_stuck` | 1 pty, 1 Connect, nobody leaves | does what is read reach Start's client? | **violated** |

Why the bounds are enough.  In the API all code is keyed by sandbox id and instances of
different sandboxes share only counters, so one sandbox shows every conflict;
two instances are needed for "the next instance of the same id", and two
requests for every pair of handlers; the evictor, the hooks and the sync loop
come on top.  Every run reaches every kind of request and every branch of both
hooks.  The node is lost, and a VM dies by itself, in `instance_cache_live` only;
`instance_cache` with a VM that dies (3.6 M states) and `instance_cache_live` with
two instances (0.4 M) were tried once and hold too.  On the node two Creates show what one sandbox's cleanup can do to
another, of the same id or (for slots and VMs, which do not look at ids) of any;
two slots and channels of one make the reuse channel both full and empty; one
restart (in `node_server`) lets a VM of the old process meet one of the new.  `node_server_live`
has two requests on one sandbox, which is enough for each pair of Delete and
Pause, and a permit for each: that a third one waits for a permit is seen in no
liveness run (`node_server`, with one permit, shows only its safety).  The refinement is
checked in `node_server_live`, with one Create; under the bounds of `node_server` it was
checked once and holds too.  The runs
on the node end in deadlock when all calls were made and answered, so deadlock
is not checked there.

In `header_mapping` four blocks give each case of the merge a part on either side, and the
second snapshot merges into a header that was merged itself (five blocks, and three
snapshots of three blocks, were tried once and hold too).

In `process_streams` Start and Connect are two consumers, one of which joins
while values are handed out and leaves while others stay; the buffer of one
makes the reader wait; a second chunk can be skipped or sent twice.  Two Connects (2.5 M states)
were tried once: its safety holds too.  The run ends in deadlock when nothing is
left to do, or when the multiplexers are stuck (`output_stuck`), so deadlock is not checked.

In `template_builds` two runs are of the same build or of different ones, so that
each conflict of a pair shows; one mishap (a lapse, a broken stream, a failing statement, a
restart) comes at any step, and two (5.2 M states), which let one follow another,
were tried once and hold too; two files tell a partial upload from a whole one.  Three
runs were out of reach.  When all requests were made the run ends, so deadlock
is not checked.

The properties:

* `Refinement` — every instance lives the life of `InstanceLifecycle`.
* `EvictorHoldsWhatItChecked` — `RemoveCb` removes the object whose expiry the evictor read.
* `UsageSettles` — with no hook running, the usage of a node that was never lost is what is cached.
* `PauseBacked` — a pause reported ok captured a VM and marked its build.
* `PauseAnswered` — a delete hook leaves its pause only with `Pausing` set, on every path: also when not even the build could be made.
* `SavedOnce` — one VM is never captured by two snapshots.
* `ExpiredIsEvicted`, `WaiterReleased` — liveness.
* `Refinement` (node) — every step hands slots on as `SlotOwnership` allows.
* `OneVmPerSlot` — no two VMs run on one slot, not even beside one a crash left.
* `RecordsLeadHome` — a DNS record's slot belongs to a sandbox of that id.
* `PausedOnce` — two pauses never work on one sandbox.
* `DiskIsFinal` — the disk of a snapshot is read after the VM was stopped and, if the kernel did it in time, the device disconnected.
* `PermitsConserved` — free and held permits add up, and a pause holds one exactly between acquiring it and capturing the memory: no answered one keeps it.
* `EndedIsReleased` — when a sandbox's goroutine ends, whoever cleaned up, its slot is returned, its processes are gone, its device is released, no id leads to it, and its cache is closed, save the one that a pause is still exporting or failed to export.
* `EndedIsFreed`, `RequestIsAnswered` — liveness.
* `NothingSkipped` — what a client is sent has no gap and no repetition since its request joined.
* `EndIsLast` — the end comes once, after all output, although through another channel.
* `EndedIsReported` — an ended process leaves the list and its Start returns (while nobody leaves early or connects at the end).
* `OneBuildAtATime` — no second run of a template begins beside an active one while its item lives, and a start is refused only for a run that is active.
* `CounterSettles` (builds) — the counter is the number of active runs, and never less; only lapsed items leave it too high.
* `UploadedIsWhole` — a row that says uploaded has all its files, of one run.
* `CacheFollowsBuilds` — the template cache keeps an older or a deleted build only until whoever made it old has invalidated it.
* `BuildingIsSettled` — a row that says building has a run that will settle it.
* `MappingIsValid` — the ranges of each header are ordered, disjoint and cover the file.
* `ReadsBack` — a lookup through any header finds what its build held, over the whole length it returns.

Fairness (`FairSpec`): the goroutines of the API are scheduled, so the evictor,
the sync loop, every hook and every handler takes its enabled steps (weak
fairness of each); nothing is assumed of clients (a request may never come), of
time (`Expire`), of failures, or of the node beyond answering an RPC, which has
a deadline in the code.  On the node: cleanup, the sandbox's goroutine, spawned
stops and requests are scheduled, a killed process ends and a page fault handler
that was told to stop does; nothing is assumed of Create, of processes that are
not told to stop, or of deadlines (`PauseAcquireFails`, `ExportTimesOut`), so
the answers `RequestIsAnswered` promises do not come from a timeout.  In envd:
goroutines are scheduled and a client that stays reads what it is sent; nothing
is assumed of requests or of the process, which need neither write, close its
output nor exit.

### Findings

1. **A kill can be undone** (`kill_undone`).  `KeepAliveFor` looks the instance
   up and sets its end time later; if `Delete` expired it in between, the
   evictor finds it unexpired: the kill was answered 204 and the sandbox runs.
   Only a refresh that was already under way can do that: `KillsAreFinal`.
2. **A resume can overtake a pause** (`resume_overtakes_pause`).  `Delete`
   expires the instance before it says it is to be paused and marks it pausing.
   The window is not the only one: a kill that turns `AutoPause` off between the
   delete hook's choice and its mark leaves the pause unmarked, and when a pause
   failed and the sandbox was cached again by the sync loop, its second delete hook
   finds the first one's entry, which the first then removes.
   The same order can also turn a pause into a kill: when the evictor comes between
   `SetExpired` and `AutoPause.Store`, the delete hook deletes the VM; the mark set
   afterwards is removed by nobody, and each later resume of the id waits on it
   until its context ends (TLC reached both on the constants of this run).
3. **A running sandbox that is in no list** (`running_unlisted`).  `Delete` and
   `Pause` take the id out of the map at once, so that it can be created again;
   the goroutine of the stopped sandbox removes the id once more when its
   process has ended, whatever sandbox has it by then.  The API's sync loop then
   forgets the new one, and `Delete` and `Pause` do not find it.
4. **Output can get stuck** (`output_stuck`).  The goroutine of `DataEvent` holds
   its read lock until every consumer has received.  A Connect that has joined
   `DataEvent` receives only after it has joined `EndEvent`; if the process ends
   just then, `EndEvent`'s goroutine holds that lock until Start has received the
   end, and Start receives it after the output.  All three wait for each other.
5. **The sandbox counter drifts** (no run; theorem `CountersDrift`).  "If the instance
   already exists we do nothing", says the comment of `Add` (`operations.go:58-59`);
   but `Set` only leaves the map alone, and `Add` counts the refused instance
   (`operations.go:92-93`), which no delete hook ever counts down.  It takes the sync
   loop's `Add` and a handler's `Add` of one sandbox, or of two that share its id: on the
   constants of `kill_undone` TLC reaches, in ten steps, a state with no hook
   running where one sandbox is cached and two are counted.  `CounterDrift`, stated
   beside its proof, says how far it goes: the running-sandboxes metric stays too high by
   exactly the refused instances.

Seen while modelling and described under "hazards", without a run of their own:
when an `Export` times out or fails after `EjectCache` (`cow.go:74-84`), nobody closes the
cache it took, since `CowDevice.Close` skips an ejected one (`CacheLost`); when the mount of the root filesystem fails, `Process.Start` returns without stopping
the process it started; the loop that closes the consumers holds no lock, so that a client
that leaves meanwhile makes it close a channel twice (a panic that ends envd);
`start <-` waits for ever when its client left before; output of a pty that is read before
Start has joined is lost.  In the builds: a failing
upload leaves its files in the bucket, though "Remove build files if build fails or
times out" (`create_template.go:82`) stands above the deferred call, because that looks at another error variable
(`create_template.go:116`); a lookup that asked the database before an
`Invalidate` and sets the template cache after it puts the old build back, and
each hit prolongs it (`crossed`); a restart of the API leaves the row of a running
build at "building", and so does a failing statement in a run.

## 5. Proofs

TLAPS proves for every value of the constants (any number of sandboxes,
instances, VMs, requests, slots, permits, failures and restarts):

* `SetOnceProofs`: `TypeCorrect`, `NeverNil`, `SetOnlyOnce`, `Covered`,
  `Implements`.  The invariant adds to the properties where each process is
  with respect to the lock and that only the winner of the select is past it.
* `InstanceCacheProofs`: `TypeCorrect`, `EvictorRight`, `PauseTruthful`,
  `PauseNeverSilent`, `SavedOnlyOnce`, `UsageIsSettled`, `CountersDrift`, `KillsAreFinal`, `Implements`.  None of the properties is
  inductive alone: `IInv` = `TypeOK` and `Consistent`, where `Consistent` ties
  objects, map and hooks together (an instance without a sandbox has no hook
  running; a cached instance's key is its sandbox and its delete hook has not
  begun; what the evictor holds is still cached and not still to be scanned);
  `PauseInv` and `SaveInv` add what a hook knows at each step of a pause.
  `PauseNeverSilent` is about steps: `PauseLeft` shows that none but `PauseDone` takes a hook
  out of its pause.
  `CountInv` says what the counters are while hooks still run, the sum of what
  each hook has done so far: `count` is the size of `Counted`, and while no node
  was lost `usage` is `InUse` less `Released`.  `Booking` says once which steps
  touch a counter or a hook; each of these moves one instance in or out of one
  of the sets.  `NothingYet` is why the first connection may set the usage to
  zero, and `HooksPaired` why a quiet instance is either cached or in both sets.
  These sizes need `InstancesAssumption`, that the instances are finitely many
  (a process makes no more); nothing else rests on it.
  `KillsAreFinal` is finding 1 the other way round: an expired instance that no
  `KeepAliveFor` has looked up (`Doomed`) stays so, since a refresh that comes later
  does not find it; `KillIsFinal` is stated beside its proof.
  `Implements` maps every step to a step of `InstanceLifecycle` or a stutter.
* `NodeServerProofs`: `TypeCorrect`, `PermitsKept`, `HiddenOnlyByLateRemoval`.  `IInv` adds to the types
  `PermitInv` (those hold a permit who are between acquiring it and capturing the
  memory; the holders are a finite set), `StageInv` (how long the cleanup list
  is at each step of `Create`, that a cleanup begins only when `Create` is over,
  that a VM runs only while the function that kills it is still to be called)
  and `MapInv` (map, requests and goroutines refer to finished `Create`s under
  their own id).  The types need them: a slot is returned to the channel, which
  is well typed only because the list held the slot's function.
  `HiddenOnlyByLateRemoval` is finding 3 the other way round: that removal by an
  earlier sandbox's goroutine is the only step by which a careful caller's running
  sandbox, which nobody asked to stop, leaves the list.  `ListInv` is why: no two
  sandboxes of an id at once, and what a request found is all it can remove.
  (TLC checked both on the constants of `running_unlisted`.)
* `NodeServerSlotProofs`: `SlotsSeparateVms`, `ImplementsSlotOwnership`,
  `HeldSlotsAreApart`, `NoRecordAstray`.  `SlotInv` says that waiting slots are reserved and wait
  once, and that a slot in use (held, or with a VM on it that outlived the
  server) is reserved, does not wait and is used once.  `QuietStep` shows that
  all but five actions leave slots alone, so only those five need an argument.
  `DnsInv` names for each record a sandbox whose cleanup has not yet come to
  the function that removes it.
* `NodeServerPauseProofs`: `PausedAtMostOnce`, `SnapshotDiskIsFinal`, `EndedReleasesAll`.
  `PauseInv` adds who holds the mutex and that the sandbox of a pause past its
  removal is in the map under no id; `DiskInv` that device, token and VM
  change in the order kill, disconnect, export; `DoneInv` that the list of a started
  sandbox runs to its end, past the release of its device, that its goroutine waits
  for that and for both processes, and that an ejected cache is one a pause took and has
  not written out.

* `HeaderMappingProofs`: `TypeCorrect`, `HeadersAreValid`, `SnapshotsReadBack`.
  `Inv` says of finished builds that their headers are valid and right block by
  block (`SnapshotsRight`), of the running sandbox that its clean blocks are its
  parent's, and of each loop what it has done: the diff file holds the dirty
  blocks before the cursor in order, the created ranges cover exactly these, and
  what the merge has taken, together with what is left, still covers the file,
  with every block of a diff range from the diff.  The cases of the merge are
  sequences of few moves on the lists (take a range, take the left part, cut or drop
  the base's first), and each move has a lemma of its own.

* `ProcessStreamsProofs`: `TypeCorrect`, `NothingIsSkipped`, `EndComesLast`.
  `IInv` adds to the types: what waits in the buffer are the chunks after the one in hand, in
  order (`SourceInv`); the end is on its way only after the readers and the
  process ended (`EndInv`); where a request is a consumer (`CallInv`); every consumer was sent all chunks
  taken from the buffer since it joined, save the one handed out when its turn has
  not come (`SentInv`), and so what it got has no gap (`GotInv`).  Joining and
  leaving move the consumers' places, which the lock allows only outside the loop.

* `TemplateBuildProofs`: `TypeCorrect`, `OneAtATime`, `CounterIsRight`,
  `UploadsAreWhole`, `CacheFollows`, `BuildsSettle`: every property of its run.
  `IInv` adds to the types that the item is the active run's own while none
  lapsed (`BuildInv`), that the template manager works only for a run that listens
  unless something went wrong (`OverlapInv`), and the counter (`CountInv`).
  `RowInv` adds that a run's build has or had a row (`KnownInv`), that a
  deletion's builds are deleted before their files go (`ListedInv`), that a build
  is one run's alone (`AloneInv`), and what a run has written at each step of its
  upload (`FilesInv`).  `FollowInv` says of what a lookup read what
  `CacheFollowsBuilds` says of the cache.  Frame lemmas (`RunMoves`,
  `ManagerMoves`, `RowsStep`) say once which step can move what.

The three proof modules of `NodeServer` rest on no more than `ServerAssumption`
and `PoolAssumption`.

The types of `NodeServer` and `ProcessStreams`, which have most variables, are proved in groups
(`MapTypes`, `SentTypes` and so on): `TypeGroups` says that the groups are `TypeOK`, and
an action's step treats only the groups it moves.

Every safety invariant, action property and refinement that a passing run checks
has a theorem.  Only model-checked are the liveness properties (`ExpiredIsEvicted`,
`WaiterReleased`, `WaitersReleased` of `SetOnce`, `EndedIsFreed`, `RequestIsAnswered` and
`EndedIsReported`): TLAPS does not
handle fairness.

## 6. What is not modelled, and why

PROJECT.json lists it part by part.  Parts without decisions of their own
(the pipeline that builds an image, proxies, telemetry, generated code, deployment) are
left out for good; the NBD pool, block devices, the template and diff
stores and node placement would come next (section 2).  Reservations are dead
code (their only call is commented out).
