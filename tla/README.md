# Formal model of anycast_lab

TLA+ modules of the parts of anycast_lab in which order, failure and
concurrency decide whether the program is right, the TLC configurations that
check them on small instances, and theorems about them with proofs for TLAPS.
Paths below are relative to the repository's root; the modules are next to
this file.

    tlc -config SharedGuest.cfg SharedGuestMC      # check a run
    tlapm Autosave_proofs.tla                      # check the proofs of a module

`PROJECT.json` lists the runs with their properties, the definitions with the
lines they model, the mutants each property must catch, the hazards of the
code and the theorems.

## 1. The system

anycast_lab is a network laboratory in the browser. The user draws a topology
of routers, clients and switches; the *native* engine boots every appliance in
one v86 virtual machine and carries frames between them, and a *compatibility
simulator* computes routes without a guest. Projects are kept in IndexedDB and
travel as archives; the guest image is built, verified and published by
scripts, and cached by the page.

| Component | Code | State | Operations |
| --- | --- | --- | --- |
| Native lab engine: lifecycle | `src/native/engine.ts` | `#state`, `#appliances`, `#nodeStates`, the wake timer, `#failureCleanup` | `start`, `pause`, `stop`, `dispose`, `setNodeState`, events of runtimes, the failure cleanup |
| Native lab engine: frame fabric | `src/native/engine.ts` | `#pendingArrivals`, link states, switch tables, random streams | `transmitFrame`, `#driveTo`, `#processArrival`, link and interface toggles |
| Shared v86 machine and its runtimes | `src/appliances/v86/shared-runtime.ts`, `shared-bootstrap.ts` | slots, one emulator, control waiters and their tail, a lifecycle per facade | `initialize`, `start`, `stop`, `dispose`, the control channel, machine failure, the bootstrap archive |
| Guest supervisor (labd): requests, nodes, terminals | `appliances/v86/buildroot/.../labd.c` | a record per node, terminals, the poll loop | NODE_START/STOP/DELETE, LINK, APPLY, READ, TERM_*, reaping |
| Guest supervisor: control-line output | `protocol.c`, `labd.c` | the output ring, the failure flag | enqueue, flush, the poll loop, the final drain |
| FRR wrapper of a node | `src/native/boot.ts` (a shell program) | the start job, status files, traps | start, readiness, health, cleanup |
| Single-node v86 runtime | `src/appliances/v86/runtime.ts` | one emulator, pending files and links, a control queue | `initialize` to `dispose`, `writeFile`, `readFile`, `setLinkState`, profiles |
| Appliance worker protocol | `src/appliances/worker-server.ts` | one runtime slot | requests with replies, answered concurrently |
| Artifact loading and cache | `src/appliances/v86/artifact-cache.ts`, `manifest.ts`, `sha256-stream.ts`, `src/app/native-runtime.ts` | an OPFS directory shared by tabs, one load per page | status, manifest, `get`, `store`, promote |
| Image build and release scripts | `appliances/v86/scripts`, `scripts/sync-native-artifacts.mjs` | a bundle, a status document, what the site serves | verify, create status, publish, lay out |
| Autosave coordinator | `src/persistence/autosave.ts` | the pending snapshot, the drain, expected revisions, the status | `schedule`, `flush`, `cancel`, `dispose`, `setExpectedRevision` |
| Project repository | `src/persistence/repository.ts` | records with revisions | `save` with a revision check, `delete`, `list`, `markOpened` |
| Project replacement and workspace transitions | `src/App.tsx`, `src/app/project-replacement.ts`, `store.ts` | the open project, the runtime, a transition lock | open, create, duplicate, rename, delete, import, run, pause, reset |
| Boot requests, captures and archives | `src/native/boot.ts`, `src/persistence/archive.ts`, `migrations.ts` | none | migrate, export, import, analyse, build requests |
| Configuration parsers and validation | `src/core/validation.ts`, `src/core/config` | none | validate, parse |
| Compatibility simulator | `src/core/engine.ts`, `fib.ts` | routes and sessions per node | `converge`, `trace`, link and node state, scenario, reloads |
| Discrete-event scheduler | `src/core/scheduler.ts` | a heap of tasks, the clock | `schedule`, `cancel`, `run` |
| Mock runtime, user interface, service worker | `appliances/mock`, `src/app/components`, `pwa` | | |

(`src/...` in this table is the application's `src/` directory, which lies in
`src/src/` of `PROJECT.json`'s paths.)

How they interact. `App.tsx` owns one engine, one autosave coordinator and the
transition lock; it awaits `start`, `pause` and `dispose` under its lock, and
awaits neither `setNodeState` (lines 764-775, not called while the lock is held)
nor `setLinkState` (749), so that any of them can overtake a toggle. The engine calls each appliance's
`ApplianceRuntime` methods one after the other and receives the runtime's
events as callbacks, in the middle of whatever it awaits. All runtimes of a
lab are facades of one `SharedV86Machine`, which talks to labd over a virtio
console: request and response lines with ids, one request at a time, and
events that come unasked. labd forks a supervisor per node and hears of its end
through a socket and `waitpid`; the process of an FRR node is a shell wrapper
that starts FRR as a job. The machine's image comes from the artifact cache,
which checks it against a manifest that the scripts of the release made. The
coordinator calls the repository, which another tab calls too.

What is hard. Everything asynchronous: an appliance fails while the engine
awaits another one; a node exits between an answer and the continuation that
reads it; a request times out and is executed later; stopping one node decides
about the machine the others need; several flushes wait on a save that fails;
a second tab writes the same project, or the same cache; a page is closed
between two operations on the disk; a device takes half a line. And two pieces
of code that must agree though nothing makes them: the sizes that are predicted
and those of the archive that is written, what the release scripts accept and
what the page accepts, what export writes and import takes.

What makes each component correct:

* *Engine*: 'running' means every node that is up was booted; frames only go
  to runtimes that run; a paused lab is at rest; only an appliance that refused
  to stop outlives its lab; every call returns.
* *Fabric*: the frames of a flow keep their order, a drive ends whatever the
  topology, and a frame on a working path arrives.
* *Shared machine and labd*: a facade that says 'running' has its node running
  in the guest, one that says 'stopped' does not, a failed start leaves
  nothing behind, every call returns.
* *Control-line output*: the browser receives whole lines, in order, without a
  gap; waiting input cannot overflow the ring.
* *Single-node runtime and worker*: the guest ends with the files and links
  that the host shows, a read is not older than its request, requests are
  answered.
* *Autosave*: the latest edit is never lost silently; 'saved' is true; a flush
  answers for what it saw; another tab's work is not overwritten unseen.
* *Workspace*: an edit is stored, on its way or shown as unsaved through every
  transition; a replaced project was stored first; no conflict is reported that
  is not one.
* *Artifacts and release*: a machine gets what was verified and can boot; its
  root filesystem stays readable; what the scripts accepted can be started.
* *Projects and boot*: an archive restores its project or is refused, an
  eligible project boots, and its sizes are those that were predicted.
* *FRR wrapper*: 'started' is said only when the start job succeeded, a failure is
  named as it was, and a lasting degradation is shown.
* *Simulator*: routes marked converged are those of the present topology, they
  settle without loops, what is heard has a way to it; events run in order.

## 2. What is modelled

### NativeLabEngine: the life of a lab

An action is everything a method does between two awaits that reach the guest.
`task[op]` is where the outstanding call of method `op` awaits, `rt` the state
of each runtime, `inMap` the keys of `#appliances`, `slots` the guest nodes
held by the machine. `Start`, `InitResolves` and `BootResolves` are `start`;
`Pause`/`PauseStopped`, `Stop`/`StopStopped`, `Dispose`/`DisposeProceeds`/
`ReleaseStopped`/`ReleaseDisposed` the other methods; `SetNodeUp`, `SetNodeDown`
and what follows them `setNodeState`; `Fail` is `#handleRuntimeEvent` with
`#beginFailureCleanup`, whose loop is the same release loop as `dispose`.
`Client` and `Overlap` say which calls the client makes and which may be made
over which: the application (`AppOverlap` of `NativeLabEngineMC`) makes any call
over outstanding toggles, of which `Toggles` are under way together, and none
over `start`, `pause` or `dispose`; `Overlap = {}` is a client that awaits each call.
Of the fabric the module keeps the destinations of pending frames, which decide
whether a drive rejects and whether the wake timer is armed.

### NativeFabric: frames, links and switches

A project is a record of hosts, switches, ports, links with their possible
delays, and who may talk to whom. The steps of `drive` are the iterations of
`#driveTo` and `#runCurrentTime`; what a lab runs on settles in microtasks, so
nothing else comes into a drive. `pending` holds the arrivals with their due
time and number, `learned` the tables of the switches, `clearing` the endpoints
whose entries a toggle removes after its await, `timerDue` and `wall` the wake
timer and the clock it is armed against. A drive fails at a limit, or when a host
of `rejects` refuses a frame; `wake` says whether that fails the lab, as in the
timer's callback, or is left to the caller, as in `advanceBy`. Size limits and malformed frames are
one thing with random loss: a link of `lossy` may drop any frame.

### SharedGuest: both ends of the control line

`rt`, `registered`, `active`, `startup` are the fields of a facade and its
record; `call[t][n]` is the await of the outstanding call on node `n`; `queue`,
`head` and `waiter` are `#controlTail` and `#controlWaiters`; `emulator`,
`prep`, `sealed`, `failed`, `ready`, `destroyed` the machine's; `guest`, `input`,
`output` are labd's nodes and the two directions of the line. Continuations of
settled promises are microtasks: no timer, line or guest step comes between
(`Quiet`). Lines that arrive in one chunk are handled without a continuation
between them (`chunk`), which is where two of the hazards bite. Each handler of
labd is one step (`Serve...`): labd is a single thread and answers a request
before it reads the next. A guest only runs, and lines only arrive, while the
emulator's CPU runs; v86 itself and the boot of the guest are external. `Uses`
are the clients: which calls overlap, which faults happen, how many timers fire
early.

### OutputQueue and ControlOutput: the supervisor's output

`OutputQueue` is the promise: a bounded first-in first-out queue of whole lines
which accepts nothing after it refused a line. `ControlOutput` is `protocol.c`'s
ring (`data`, `head`, `length`, with the wrap-around copy of
`labd_output_enqueue` and the reset of `head` when the ring empties) with the
loop of `labd.c` that polls for input only when nothing is pending, and the
drain before exit. `ImplementsQueue` maps the ring's contents to the queue.

### Appliance: a machine of its own behind a worker

`calls` are the requests the worker has dispatched, each at the await where it
stands, `server` is `#runtime`, `rt` the runtimes with their lifecycle, pending
files and links and the chain of control requests, `guest` what the machine
has. The version of a file is a number. `doubt` remembers requests whose effect
the host cannot know (they were refused, timed out or died with the guest), of
which nothing is asked. A plan is a client with a budget of requests (`Ops`),
which either sends in order or anything at any time.

### Artifacts, StreamingHash and Release: how an image gets to a machine

`Release` has the two sides as pure definitions: what the scripts verify
(`VerifyBundle`, `ValidateFilesystemMetadata`), write (`CreateReleaseStatus`)
and lay out (`Synced`), and what the page makes of the status
(`LoadNativeRuntimeAvailability`) and the manifest
(`ParseV86ArtifactManifest`). A digest is "this" one, another, or malformed, so
that a manifest differs from a good one where the checks look. `StreamingHash`
is the buffer, the padding and the length of the incremental digest over an
ideal compression function, with the digest by definition beside it.
`Artifacts` is the dynamics: `load[t][a]` and `work[t][a][d]` are where attempt
`a` of page `t` stands, as a whole and for artifact `d`; `dir` holds the shared
directory's files ("short", "wrong", "whole"), `fresh` the `File`s whose entry
has not changed, which is what makes them readable; `stores` and `verified` are
the cache's fields, `promise` and `callers` those of `nativeRegistry`. Both
forms of promotion (`move()` and a copy) are there, and pages are closed
anywhere.

### Autosave: the coordinator, the repository and another tab

A snapshot is the number of its edit. `drains` holds the `drain()` calls that
await `repository.save`, `waiters` the flushes that await `drainPromise`, in
the order in which their continuations run. `SaveStored`, `SaveResolves` and
`SaveRejects` are the transaction and the two ways the await settles; the
record can be stored although the coordinator sees it later. `OtherTabSaves`
and `OtherTabDeletes` are the same repository operations by somebody else.

### Workspace: the application around it

Composes `App.tsx` with its store, project replacement, the manager, the
autosave coordinator, the repository and the engine as the application drives
it. A project is an id and a version. `op` is the transition under way and its
await, `manager` a rename or a delete from the manager, `importing` an archive
that is read, `uploads` the files that are read, `boot` the start of the page,
`io` the transactions of IndexedDB in the order they were created, `expected`
the revisions, `db` the records. Continuations run before the next event.
`Reset` is `resetRuntime` and `changeRuntimeMode`, which await the same disposal
and end differently (`ResetSettles`, `ModeChanged`).
Four histories say what the promises leave out: `touched` the projects of
another tab, `late` the versions made while a transition or a rename suppresses
the subscription, `missed` those of them that nobody hands over, and `crossed`
whether a project was ever installed over a snapshot that was still pending or
being saved.

### Projects, BootRequests, FrrWrapper and LabBoot: from a document to a node

`Projects` is the validator, the migration, the archive and the copy made of a
project whose id is taken; `BootRequests` the analysis, the requests, and the
sizes of the tar archives block by block; both are operators on documents
whose fields stand for what the code compares. `FrrWrapper` is the shell
program, with the start job, watchfrr, the stop command and the supervisor's
signals as processes of their own. `LabBoot` composes them: export, a change by
another program, import, keep, analyse, initialise node by node, seal, and then
the wrapper runs.

### Simulator and Scheduler

A lab has the sessions and policies that the parsers make of its files.
`Converge` is the synchronous loop over OSPF and BGP with its round limit,
`routes`, `sessions` and `converged` its results; `SetLinkState`,
`SetNodeState`, `UpdateNodeFiles` with the reloads that are still being parsed
(`Reloaded`), `RunUntil` and `RunUntilIdle` with the scenario's events, and
`Dispose` are the other calls. `Scheduler` is the binary heap itself, not an ordered set.

## 3. What the runs show

Every run passes. The instances are named in the last column.

| Run | What it shows | Instance |
| --- | --- | --- |
| `engine_app` | frames only reach running appliances (`ActiveIsRunning`), 'running' is entered only with every node booted (`RunningMeansBooted`), every call and cleanup ends (`CallsReturn`) | the application's client: any call may be made over an outstanding toggle, none over `start`, `pause` or `dispose`, no `stop()`; 2 appliances, 1 toggle at a time, stops may fail |
| `engine_api` | only an appliance whose stop rejected keeps its guest node (`OnlyFailedStopsLeak`); paused and stopped labs are at rest (`AtRest`) | the whole API, restarts of a failed lab included, by a client that awaits each call; 2 appliances |
| `native_fabric` | frames that go one way keep their order (`OrderKept`), drives end (`DrivesEnd`), frames come to rest, and at their host in a tree left alone (`FramesArrive`) | a row of 2 switches with 3 hosts, a ring of 3 switches, a direct link with jitter and loss, the row with a host that rejects frames; 2 frames, a toggle or an `advanceBy` |
| `shared_guest` | running facades have running nodes (`RunningIsUp`), nothing else runs (`OnlyRunningRuns`), 'stopped' means down (`StoppedIsDown`) | 2 nodes; calls one at a time with every fault but a failing NODE_STOP and one early timer, or nodes released under outstanding calls with stops that fail |
| `shared_guest_toggle` | every call returns (`CallsSettle`) | 2 nodes toggled independently, which exit |
| `control_output` | the ring implements the queue (`ImplementsQueue`), a line is refused only after a burst larger than the ring (`OverflowNeedsBurst`), the drain ends (`DrainEnds`) | a ring of 4 bytes, lines of 1 to 3 bytes and one too long, 4 lines, partial, blocked and failing writes |
| `appliance` | the guest has the files and links that the host shows (`GuestAgrees`), reads are fresh (`ReadIsFresh`), requests are answered (`CallsReturn`) | 2 requests in flight, 2 files, 2 runtimes; 5 clients, of which one sends anything at any time, with refusals, exits, failed starts |
| `artifacts` | machines get what was verified and can boot (`VerifiedOnly`), the root filesystem stays readable (`LayerReadable`), what the scripts accepted gets loaded in the end (`RetriesWork`) | 1 page with 2 machines or 2 pages, a failure or a closed page, `move()`, copy or no cache; every split of 1 to 9 bytes in three chunks; about 540 releases; a build laid out under the page |
| `autosave` | no edit is lost (`NoLostEdit`), 'saved' is true (`SavedMeansStored`), a flush answers for what it saw (`ResolvedFlushIsCovered`), no unseen write is overwritten (`NoBlindOverwrite`) | 2 edits, 2 waiting flushes, 1 write by another tab, both delays |
| `workspace` | an unsaved edit is with the coordinator (`EditCovered`), 'saved' is true (`CleanMeansStored`), a tab does not conflict with itself (`NoFalseConflict`), a replaced project is left stored (`ReplacedIsStored`), edits get stored (`EditsSettle`) | 6 plans of up to 3 kinds of transitions with uploads, up to 2 failing writes, another tab; 4 projects, 4 or 5 versions |
| `lab_boot` | an untouched archive gives back its project (`ArchiveRestores`), a touched one is taken whole or refused (`ImportedWhole`), an eligible project boots (`EligibleBoots`) with the predicted sizes (`MeasuredExactly`); what the wrapper says is what the start job left (`StartTruth`), and it shows what lasts (`DegradationShown`) | about 1000 projects: single edits of a good one, files without contents among them, pairs of valid edits, changes of its archive, sizes byte by byte around a block |
| `simulator` | routes marked converged are current (`ConvergedIsCurrent`), they settle without loops (`SettlesWithoutLoops`), what is heard is reached (`HeardIsReached`), events run in order (`EventsInOrder`) | 5 labs of 3 or 4 nodes: anycast behind a transit, an OSPF ring, a BGP ring, a route server, an aggregate; 2 convergences, 2 toggles, edits of policies, 1 advance of the clock |

### Bounds

*Actors.* Two appliances, nodes, pages or requests suffice for every property
about "another one", since loops treat the entries alike. Two edits and two
waiters are the least with which one flush can take the snapshot of another;
one write by another tab is enough for a conflict, and it may come at any
moment. In `engine_app` one toggle is outstanding at a time, over any other call:
with two the safety properties hold as well, but `CallsReturn` takes too long
there; the theorems have any number.

*Limits.* A ring of four bytes lets a line wrap at every offset, fill the ring
exactly and exceed it. `Block` = 4 with a length of one byte has the three cases of
the digest's padding, and streams of up to two blocks and a byte end before, at
and behind each boundary. In `lab_boot` the limits of the guest are small
numbers that the sizes of the plans straddle; VLANs run from 98 to 104, so
that the number of digits changes among them. In the wrapper `SessionWait` = 1,
`StartWait` = 3, `Grace` = 1 and `ReadyBudget` = 5 keep the order of the
code's constants, and two signals let the second one come during the cleanup.
`MaxEvents`, `MaxImmediate` and `MaxHops` of the fabric are reached; the clock
stops at `MaxWall`.

*Faults.* In `SharedGuest`, `MaxInFlight` = 1 lets a call be made while one
message of an earlier, abandoned request is on the line, which is what a late
answer needs; `timeouts` bounds the timers that fire although an answer may
still come, and a timer that nothing can answer any more always may fire. The
properties that say "as long as no timer fires early" are false otherwise by
design of the code: a request that was given up may be served. `MaxAttempts` = 2
loads of a page overlap: the one that failed and goes on, and its successor.

*Plans.* Where a module has `Plans`, `Uses`, `Labs` or `Nets`, a behaviour
picks one and keeps it, so a run covers several small worlds in place of one
that is too large.

### Fairness

* `NativeLabEngine`: every guest request has a timeout (`#control`,
  `withTimeout`), so the awaits of the engine settle, and timers fire.
* `NativeFabric`: a drive that has work goes on (it is a chain of microtasks),
  the browser fires timers and the clock goes on.
* `SharedGuest`: the event loop drains its microtasks (weak fairness) and gives
  a macrotask that is due again and again its turn, and so the guest while its
  CPU runs (strong fairness, because a macrotask is disabled while a microtask
  is due).
* `ControlOutput`: `write()` returns, and the drain's `poll()` has a timeout.
* `Appliance`: each request's own step is taken when it is due (timers and
  continuations); nothing is asked of the guest, whose silence ends in a
  timeout.
* `Autosave`, `Workspace`: IndexedDB transactions complete or abort, timers
  fire, disposals settle.
* `Artifacts`: disk and network answer, and a user whose lab did not start
  tries again.
* `LabBoot`: the shell runs. `Simulator` is checked for safety only: its calls
  are synchronous.

Nothing is assumed about clients, faults, other tabs or the exits of nodes.

### What was found on the way

Behaviours of the code that the properties leave out, each because the code
does it and not because the model cannot:

*Engine.* `#disposeAppliancesAfterFailure` and `dispose()` skip an appliance's
`dispose()` when its `stop()` rejects (`engine.ts:1170`, 289-294), so its guest
node stays. `setNodeState` sets the node active after its await without
reading `#state` again (366): a pause that overtakes it, as the application's can, leaves a
node active and running in a paused lab; `AtRest` is therefore asked of a client
that awaits its calls, which the application is not, and nothing covers that
hazard. A
failed lab that was stopped and started again, and fails again, finds
its cleanup already done (1163), and a `stop()` that rejects leaves `pause()` in
'pausing' (251).

*Shared machine.* `stopNode` halts the machine when no node is active, although
another may be starting (`shared-runtime.ts:261`). A malformed line in the chunk
of the answer to the last LINK fails the machine, and the start then moves the
facade to 'running' (241). `dispose()` during the loading of artifacts leaves an
emulator (387-428). NODE_STOP times out after 5 s while labd allows 8 s; output
that arrives with the answer to TERM_OPEN is dropped (524).

*Single-node runtime.* Writes and link changes during the first start wait for
the next one (`runtime.ts:379-404`). A write in flight while a restart reads the
pending files can be overtaken by an older version (622-627). A refused LINK
leaves the host's state changed (378). Two `initialize` requests both pass the
check of `worker-server.ts:82`, and the first runtime is lost.

*Autosave and workspace.* Two flushes wait on one failing save, one takes the
snapshot for a retry, the other finds nothing pending and resolves
(`autosave.ts:146`); through it a transition can replace a project that is not
stored, which is why `ReplacedIsStored` asks that no write has failed. An import
that is opened while a rename is being flushed gets the subscription back when
the rename is over (`App.tsx:916` resets `projectReplacementRef`), so that an
edit can be on its way to storage when its project is replaced; from then on
(`crossed`) the workspace can say 'saved' of what is not, and meet a conflict of
its own. Longer behaviours than those the run explores showed it; that the promises
hold until then is proved (section 4). A change by another tab makes the flush of every transition reject. An
upload that ends during a rename is handed to the coordinator only at the next
edit; one that began before a run ends in the locked project; of several files
uploaded at once the last wins, since each reads the same `editorNode.files`
(`App.tsx:1243-1248`). Importing an archive of the open project while its first
save has failed conflicts. A rejecting `pause()` or `dispose()` leaves the
engine's and the page's idea of the lab apart (`App.tsx:618-620`).

*Artifacts and release.* The status is read once in the life of a page
(`App.tsx:321-324`); a build laid out in place over the page's
(`sync-native-artifacts.mjs`) makes each later start fail on a digest until the
page is reloaded, whereas images under `objects/sha256/` keep working. Two pages
that download the root filesystem together may leave one with a stale `File`;
when a copy fails, it removes another page's good file. Temporary files of a
closed page, or of a writer that could not be had, stay. `assertManifestUrl`
takes any URL with the digest in its path, and the page looks for filesystems
under their own digest only behind `/objects/sha256/`; `publish-oci.sh` insists
on that form.

*Projects and boot.* An explicit MAC address that equals one generated for an
earlier interface is not diagnosed (`boot.ts:493`), and `start()` fails. A link
that is down makes `node.conf` two bytes longer per interface than was measured
(`engine.ts:594-600`), so a project at the limit is eligible and cannot be
sealed. The inspector takes half-typed addresses (`Inspector.tsx:77-84`): such a
project is exported, and its archive refused. Export has no limits, import has.
The limit of 256 KiB for a configuration cannot bind, given the others.

*FRR wrapper.* A TERM while the session file is awaited makes the cleanup wait
for the whole start without signalling it; a second TERM during the cleanup
ends it halfway.

*Simulator.* A scenario event that falls into `converge()`'s own `runUntil` is
overwritten by `converged = true` (`engine.ts:149-150`). Two families on one BGP
instance and peer (514), or OSPFv2 and v3 between one pair (538), alternate
until `converge()` throws. Three internal speakers can loop. `equivalentRoute`
ignores the metric, so OSPF may keep a stale one. A packet that is dropped at
exactly the last hop is labelled 'ttl-exceeded' (243).

## 4. What is proved

| Theorem | Holds for |
| --- | --- |
| `NativeLabEngine_proofs!TypeCorrect` | every number of appliances, every client |
| `NoLeak`: `OnlyFailedStopsLeak`; `PausedIsAtRest`: `AtRest` | every number of appliances, every client that awaits its calls (`Overlap = {}`, which the application is not) |
| `ActiveAppliancesRun`: `ActiveIsRunning`; `RunningIsBooted`: `RunningMeansBooted` | every number of appliances and of toggles under way, every client that makes calls over toggles only and does not call `stop()`, which is the application |
| `Autosave_proofs`: `TypeCorrect`, `WritesAreSerial`, `NoEditIsLost`, `SavedIsStored`, `FlushIsCovered`, `StoredInOrder`, `NoBlindWrite` | any number of edits, flushes and foreign writes |
| `ControlOutput_proofs`: `Invariance`, `TypeCorrect`, `RefusalNeedsBurst`, `Refinement` | every capacity, set of lines and pattern of partial writes |
| `Workspace_proofs`: `TypeCorrect`, `EditsAreCovered`, `CleanIsStored`, `ConflictsAreReal`, `ReplacedIsLeftStored` | any number of projects, versions, clicks, uploads and failing writes, every set of operations, another tab |
| `Appliance_proofs!ReadsAreFresh`: `ReadIsFresh` | any number of requests, files and clients, with every refusal, exit and timer |
| `LabBoot_proofs!StartIsTrue`: `StartTruth` | every budget of the wrapper's loops |
| `ExportsComeBack`: `ArchiveRestores`; `ImportsAreWhole`: `ImportedWhole` | any projects, with any number of nodes and files, with or without contents, and anything that another program makes of an archive, as long as it keeps the shape of one |
| `SharedGuest_proofs!StoppedStaysDown`: `StoppedIsDown` | any number of nodes, every client, fault and early timer |
| `NoneRunsUnowned`: `OnlyRunningRuns`; `RunningHasItsNode`: `RunningIsUp` | any number of nodes, every fault, for a client with one call at a time; the second if labd stops the nodes it is told to |
| `Artifacts_proofs!NothingElseLoaded`: `VerifiedOnly`; `FilesystemStaysReadable`: `LayerReadable` | any pages, callers, artifacts, releases and failures, for streams that the hash tells apart |
| `NativeLabEngine_proofs!FramesKeepTheirOrder`: `OrderKept` | every project, every bound, with loss, toggles and loops of switches |

The assumptions are those named in the modules: `EngineAssumption`,
`AutosaveAssumption`, `OutputAssumption`, `WorkspaceAssumption`,
`PlansAssumption`, `FrrWrapperAssumption`, `GuestAssumption`,
`ArtifactsAssumption`, `FabricAssumption`, `DocumentsAssumption`; they say of
what type the constants are (the last, that a project is a record with a list of
nodes, each with a list of files, and that an archive is one with a list of
rows: an entry that does not have that shape is refused or skipped by the code,
and is not in the model). Two theorems have a hypothesis besides.
`RunningHasItsNode` supposes of the uses with one call at a time that none has
the fault `STOP_FAILED`: labd fails to stop a node when a process survives the
KILL, and the facade then runs without one. The theorems of `Artifacts` suppose
`StreamsTold`: of the streams considered, no wrong file has the digest of the
right one. What a hash computes over a stream is a fold, so TLC evaluates that
for each stream of the run (`ArtifactsMC!TestStreamsTold`).
`ArtifactsAssumption` says of the files that a directory may hold from the start
that one is whole under its digest only if the digest is that of the release's
contents. The type invariants, `WritesAreSerial` and `StoredInOrder` have no run
of their own: their proofs cover every instance.

*NoLeak.* `OnlyFailedStopsLeak` is not inductive: whether a loop that empties
the map leaks depends on what it has released so far. The invariant adds that
one loop runs at a time (`Sequential`), what holds after dispose
(`AfterDisposed`), that only a start in progress has unregistered entries
(`StartInit`), that a cleanup has its map (`CleanupHasMap`, `CleanupTask`) and
that every entry a release loop has passed is out of its slot or has refused to
stop (`Progress`). There is a lemma per group of actions.

*PausedIsAtRest, ActiveAppliancesRun, RunningIsBooted.* `RestInv` adds to it in
which engine states a call can be outstanding (`CallStates`), that only a
running lab arms the wake, and that the appliances a loop of `pause()` or
`stop()` has passed are at rest (`RestLoop`). `AppInv` is an invariant of its own,
of the application, whose toggles overlap with any call: of the other methods one
is under way (`MethodsAlone`), in the states it has entered (`MethodStates`);
`start()` constructs the appliances in order (`MapWhole`), with no toggle under
way (`NewQuiet`); those its boot loop has passed run unless a toggle took their
node down or the lab has failed meanwhile (`Booting`), and so what is active runs
(`ActiveRuns`). That the lab is whole when it runs is an action property, shown of
the step that ends the boot loop.

*Autosave.* The conjuncts need one another: `NoLostEdit` needs that the drain's
snapshot is the newest it can be (`Ordered`, `Latest`); `SavedMeansStored` and
`ResolvedFlushIsCovered` need that a flush answers only for edits it saw
(`Answers`) and that writes are serial; `NoBlindOverwrite` needs what the
coordinator knows of the stored revision (`Known`).

*Workspace.* `EditCovered` needs no history: the invariant says who may await
what beside whom (`QueueOK`, `StageOK`), that an unsaved edit is the newest
snapshot (`Cover`) and what the start-up effect has seen (`BootOK`). The other
three need in addition, as long as nothing has crossed (`Orderly`), that the
project a transition is about to install is absent or as it was read (`OpOK`),
that the manager is never at the open project (`ManagerOK`), that the
coordinator's snapshots are of the open project (`OwnOK`) with the revision the
repository has (`RevisionOK`), and that a transition that has flushed leaves
nothing unsaved (`Left`). The other tab is why each of them excepts what was
touched. The proof goes by what a step does to the coordinator: lemmas say what
`Schedule`, `Flush`, `Drain` and the end of a save keep, and each action cites
the one it uses.

*ReadsAreFresh.* A read answers with the archive that the machine exported last,
and nothing in that archive names the read. That it is the read's own follows
from the chain of control requests (`ChainInv`): the calls that wait for the
guest stand on `controlTail`, each of them once, and a call has its turn exactly
when it is first (`TailOK`); a request whose waiter is still there is the last on
the line and asks what its call asks (`LineOK`), since whoever leaves the tail
has forgotten the waiter. Requests that timed out stay on the line in front of
it, and may still change the file: each value of the file during the call is in
`seen`, and the one exported is among them (`ReadOK`). The first part of the
proof says of each action which fields it changes, the second that each change
keeps the chain, by four lemmas: a call joins the tail, leaves it, is not on it,
or is not concerned.

*StartIsTrue.* It relates the wrapper's files to the job's status, and says
nothing of the daemons behind that status, which the module does not have. The place of the wrapper determines what it can have said and what
the job can have left (`StillStarting`, `FailureTrue`): before the recheck
nothing is said, and after it there is a status, an end without one, or no time
left.

*ImportsAreWhole, ExportsComeBack.* `ArchiveInv` follows the archive from the
export to the import: it is what `Exported` wrote, or what `Change` made of
that, and the project that is imported is what `Decoded` returns. The rest is
about these two operators. For any archive that passes `Restorable`, every
reference has a row of its id, no two references have one id, and there are as
many references as rows; so the map from references to rows is a bijection
(`FS_Injection` and its kin), each row is read into one file, and the files that
differ from the document are the references (`ImportWhole`). For an archive that
was just written, the files are numbered in the order of the loops; that
numbering is a bijection onto `0 .. count - 1` (`Numbers`: the order is total
and finite, so the rank of a file is its number), so what is restored for a file
is what was taken out of it (`ExportRestores`).

*StoppedStaysDown.* A node is `Hot` when it runs in the guest, or its NODE_START
is on the way to it. `StopInv` follows the start and the stop of a node from both
ends of the line: each await says whether the node may be hot (`NodeOK`). For
that it says of the control channel (`ControlOK`) that each operation waits on
the tail once (`Chained`), that the request of the one that has its turn is the
last on the line until it is answered, with no other answer that could be taken
for its own (`Sole`), and that a stop is not answered while its node is hot
(`Over`).

*NoneRunsUnowned, RunningHasItsNode.* `SerialInv` adds what holds with one call
at a time (`OneCall`) and no early timer: what the browser knows of a node and of
the machine (`Placed`, `MachineOK`), that of a machine that works a call which
failed or is over has left nothing hot, that no exit of an earlier life is on the
line of a node that is started and that exits come before the answer to a stop
(`Cold`, `OneStart`), and that nothing is asked of the node of a running facade,
which runs or has its exit on the line (`Reached`).

*NothingElseLoaded, FilesystemStaysReadable.* `IInv` says that an attempt promotes
and hands on nothing but the artifact (`Sound`), that a file of the directory
which somebody may take on trust is not a wrong one (`EntryOK`), that a page has
one load at a time, with everything at hand that its stage
needs (`LoadOK`), and that the load of a page alone with its cache holds the
latest file of the filesystem (`FreshOK`).

*FramesKeepTheirOrder.* If the delays of links are constant: of two frames on the
way of which one goes where the other has gone, the one sent first is ahead
(`InOrder`); what has been delivered the same way was sent before (`Behind`); a
frame that was forwarded was so when it was due, before all that is due now or
later (`Forwarded`), and one that a host sent, at the time of the lab
(`Transmitted`). A flood is followed from port to port, with the recursive
function `ByPort`. Where an induction on positions or ports is needed, the proof
takes the least number that fails (`Least`).

*Refinement.* `EnqueueAppends` shows that the wrapped copy appends the line to
the mapped queue, and `WriteDelivers` that a partial write, with its move of
`head` modulo the capacity, removes a prefix; both rest on arithmetic lemmas
about positions in the ring. Every step then maps to `Accept`, `Deliver`,
`Close` or a stutter.

Only model-checked: liveness (`CallsReturn`, `CallsSettle`, `DrainEnds`,
`DrivesEnd`, `FramesArrive`, `EditsSettle`, `RetriesWork`, `DegradationShown`),
which the prover does not treat under fairness; the properties of `Simulator`,
which uses RECURSIVE operators, and so does `Scheduler`; what folds, sums and
filters of sequences compute, which the prover does not unfold (the digest, and
the sizes of boot requests: `EligibleBoots`, `MeasuredExactly`); and
`GuestAgrees` of `Appliance`, of which TLC finds an inductive invariant on the
instances of the run, too large for a proof so far.

## 5. The plan

Done: `NativeLabEngine`, `Autosave`, `OutputQueue` with `ControlOutput`,
`SharedGuest`, `NativeFabric`, `Workspace`, `Artifacts` with `Release` and
`StreamingHash`, `Appliance`, `Simulator` with `Scheduler`, and `LabBoot` with
`Projects`, `BootRequests` and `FrrWrapper`.

A proof to add: `GuestAgrees` of `Appliance`. Beside `ChainInv` it needs that a
client that sends in order has no second call under way while it starts, stops
or disposes, what a runtime is before its guest was first ready, that the pending
files are those a start has still to bring, and that nothing stale is on the line
of a guest that has not been doubted.

To model:

1. `GuestTerminals`: sessions at both ends of the line, ids that wrap, output
   that arrives with the answer, APPLY and READ archives outside the lock.
2. `setLinkState` and the collection of profiles in the lifecycle of the lab.

Not modelled: the BIRD and FRR parsers, the pcapng writer and address
functions, which are functions of one argument that unit tests serve better;
rendering; the service worker's caches; the mock runtime, which tests use; the
compilation of the guest image and its profile sets; the channels' generations
and the upload of a release; and the insides of v86, Linux, IndexedDB and the
browser, which appear as the choices they leave to the code.
