# TLA+ models of litcontainer

litcontainer is a small container engine: a daemon (`litcontainerd`) serves an
HTTP API, starts one shim process per container run, and the shim has an OCI
style runtime (`litcontainer-runc`) create the container's init process. This
directory holds TLA+ models of it, the TLC configurations that check them, and
theorems about them that the TLA+ proof system checks.

Paths are relative to `src/internal/` unless they begin with `cmd/`.

## Inventory

| Component | State it keeps | Operations | What is hard about it |
|---|---|---|---|
| Container lifecycle (`daemon/container.go`, `daemon/daemon.go`) | `Daemon.containers`, `Config.State`, `ContainerState.done`, `opMu`, `state.json`, overlay mount | Start, Stop, Kill, Remove, Wait, the waiter goroutine, New with reconcile | requests, waiters and shims interleave; two locks (`opMu`, `d.mu`) cover different parts; the daemon may die anywhere |
| Store and names (`container/store.go`, `ContainerCreate`, `filesys/overlayfs.go`) | the daemon's map, one `state.json` and one layer per id, the unpacked image | Create, the writers of state.json, Remove, reload | the name check of concurrent creates; files rewritten in place; a late writer |
| Shim (`cmd/litcontainer-shim`, `shim/server.go`, `shim/client.go`) | socket path, `doneCh`, `deleteCh`, the WaitGroup of handlers | create and start of the container, reaping, Stop, Kill, Wait, Delete, Exec, Shutdown | every start of a container uses the same path; shutdown waits for every handler |
| Exec session (`shim/server.go`, `shim/client.go`, `client/container.go`) | one hijacked connection | two copiers, exit frame, demultiplexer | order of output and exit; clients that go away |
| runc (`cli/runtime.go`, `runtime/`, `cgroups/`) | `state.json` under /run, `exec.fifo`, init, cgroup | create with its clean-ups, init, start, delete, run | processes without a lock; the fifo hand-shake; what a failure leaves behind |
| Event bus (`events/events.go`, `api/handlers/events.go`) | subscriber map, buffered channels | Subscribe, unsubscribe, Publish | sending on and closing channels from several goroutines; slow readers |
| IPAM (`network/ip.go`, `network/controller.go`) | bitmap per subnet in bbolt, veth pairs, `Config.IpAddress` | allocate, release, Connect, Disconnect | read, change and write of the bitmap; release by remembered address |
| Network management (`network/controller.go`, `network/bridge.go`) | the record, the bridge and its addresses, SNAT rules | Create, Delete, Connect, Disconnect | check and put apart; operations of many steps that fail half-way |
| Subnet bitmap (`network/subnet_bitmap.go`) | `uint64` words | AllocateNext, Set, Clear, Has, Count | word and subnet boundaries |
| Log stream (`stdcopy/`, `tailLog`, `drainLog`) | `container.log` | framed write, follow, demultiplex | frames of two writers; the end of a container against its last lines |
| Authentication (`auth/auth.go`, its middleware and handlers) | one file per account, the blacklist, the secret | Register, Login, Logout, Validate, roles | three checks at three times; files rewritten in place; lookups that skip files; expiry; restarts |
| bbolt wrapper (`db/bbolt.go`) | the database | Get, Put, Delete, each one transaction | taken to be atomic |
| File system set-up, cgroup values, HTTP routes and client, command line, image export, logger, version | none of their own | straight-line I/O | |

The daemon calls the shim over a unix socket, one connection per request, and
finds it by the path `/run/litcontainer/shim/<id>/shim.sock`. A start leaves a
goroutine (`waitContainerBySocket`) that holds a Wait request open and does the
whole clean-up once it is answered; Stop, Wait and a forced Remove wait for that
goroutine by receiving from `state.done`. It publishes on the event bus, as the
requests do. Starts and clean-ups connect to and disconnect from the network
controller, which all containers share. The shim runs `runc create` and `runc
start`, reports READY to the daemon, reaps init, and runs `runc delete` when it
is told to; an operator may run the runtime by hand beside it. The shim's
forwarders write `container.log`, which the daemon reads.

Per component, what makes it correct:

* lifecycle: a container the daemon calls Running has exactly one owner of its
  clean-up; starts, kills and removes exclude each other; states follow the
  diagram at the top of `container.go`; `done` closed means cleaned up; a live
  container survives a restart of the daemon; whoever waits for an end returns.
* store: names are unique; what a restart would load is what the daemon holds.
* shim and runc: the user's command never runs unconfined; no live process is
  off the record; failures and ends leave nothing on the host; start and
  shutdown return. Exec: the exit code means that the output is complete.
* event bus: no panic on channels, no gap in a stream that goes on, publishers
  are never held up.
* network: no address twice, none used but unmarked, none lost; a recorded
  network works; gateways are there.
* logs: frames are whole and in order, a follower misses nothing.
* authentication: what was revoked or disabled stays out, accounts are unique.

The hazards of this code, each at its line with the properties that watch it,
are listed in `PROJECT.json`.

## Modules

| Module | Models |
|---|---|
| `Shim` | the shim and init of each generation (start) of one container as the daemon sees them, and the two names generations share: the socket path and runc's state file |
| `Lifecycle`, `MCLifecycle` | the daemon's handling of that container: requests, waiters, crash, New; EXTENDS `Shim` and composes with it |
| `Custody` | abstract: who answers for the clean-up of a container; Lifecycle implements it (`ImplementsCustody`) |
| `Runc` | create, init, start, delete on one container id, and an operator's commands |
| `ShimServer`, `MCShimServer` | the program around them, shim or `runc run`: its goroutines, connections, shutdown, and exec sessions; EXTENDS `Runc` |
| `EventBus`, `MCEventBus` | the bus and the handlers that stream it |
| `IPAM`, `MCIPAM` | the addresses of several containers on one network through starts, ends and crashes |
| `SubnetBitmap` | the words of the bitmap and the scan |
| `Network`, `MCNetwork` | creation and deletion of a network beside Connect and Disconnect; EXTENDS `SubnetBitmap` and allocates with it |
| `Store`, `MCStore` | the containers of a host in memory and on disk |
| `LogStream`, `MCLogStream` | forwarders, log file, log requests, demultiplexer |
| `Auth`, `MCAuth` | accounts, tokens, requests |
| `LifecycleProofs`, `EventBusProofs`, `IPAMProofs`, `ShimServerProofs`, `AuthProofs`, `NetworkProofs`, `StoreProofs`, `LogStreamProofs` | theorems |

An operator introduced as "Mutant:" is a plausible bug in the definition after
it; no specification uses it. It shows that the property it is paired with in
`PROJECT.json` is sensitive to that bug.

### Lifecycle and Shim

One container, because containers share no lifecycle state. A *generation*
numbers the starts (and reconciles, which also make a channel and a waiter).
`done` is the channel in `ContainerState.done`: a generation, 0 for nil,
`Preclosed` for the closed channel New gives to loaded containers; `closed` is
the set of channels that were closed. `pc[c]` is where a request stands and
`waiter[g]` where the waiter of a generation stands; the labels are the points
between two steps that other goroutines can see: taking or giving up `opMu`, a
section under `d.mu`, a write of state.json, a request to the shim, its answer.

| Code | Actions |
|---|---|
| `ContainerStart` | `StartLock`, `StartPrepare` (prepareRuntime, writeContainerSpec), `StartShim` (startShim with the shim's `SpawnReady`, `SpawnRefused`, `SpawnTimeout`), `StartMark`, `StartPersist`, `StartWatch`, and `StartRollback` for the deferred teardown |
| `ContainerStop` | `StopLookup`, `StopCheck`, `StopDial`, `StopReply`, `ReadDone`, `Receive` |
| `ContainerWait` | `ReadDone`, `Receive` |
| `ContainerKill` | `KillLock`, `KillSend` |
| `ContainerRemove` | `RemoveCheck`, for a forced one Stop's actions, `RemoveDir`, `RemoveFinish` |
| `waitContainerBySocket`, `cleanupContainer` | `WaiterDial`, `WaiterReply`, `WaiterTeardown`, `WaiterMark`, `WaiterPersist`, `WaiterDelete`, `WaiterClose` |
| `New`, `reconcileContainer` | `Restart`, `Reconnect`, `BootCleanup`, `BootPersist` |
| shim server and main | `HandleStop`, `HandleKill`, `HandleDelete`, `InitExit`, `Shutdown`, `ShimExit` |
| the environment | `Crash` (the daemon dies), `ShimLost` (the shim dies), `Faults` of single steps |

* `StartMark` replaces `done` under `d.mu`; `WaiterClose` closes whatever the
  field holds then. Closing a closed channel is a panic and a panic is a crash.
* Closing a Go unix listener unlinks its path, whoever has bound it since, hence
  `sock' = 0` in `Shutdown`; the runtime's delete without `--force` keeps the
  state of a live pid and dies without the bundle, hence the condition in
  `ShimExit`.
* `Teardown` unmounts one of the mounts stacked on `merged` and then calls
  `RemoveAll` on it, which reaches the writable layer through the next mount.

Abstracted: signals are either fatal or not; the time-outs of Stop and of READY
are steps that may happen at any time; a write of state.json succeeds or leaves
the file as it was (`Store` has the torn ones); a removal may fail with the
container's files or without, and the container stays, but for that of the layer,
which is only logged; a shim that missed the deadline
has written its pid file, so that the daemon's SIGKILL finds it. Initially the
container is created. Publishing events never blocks (`EventBus`) and is left
out, as is the network (`IPAM`).

### Runc and ShimServer

`create` is the next step of `setupContainer` and `undo` the list of clean-ups
it has registered, in the order the code runs them, which is that of
registration: init is killed before its cgroup is removed. `init` goes from
"forked" (waits for the bootstrap) over "open" (has opened the fifo) and "ready"
(waits for the byte) to "user" (has exec'ed the container's command), and to
"zombie" and "gone". `cmd[p]` is where the start or delete of a caller is; the
callers are the program that owns the container and an operator. The namespaces,
mounts and pivot_root of init are one step. Opening a fifo for writing blocks
until there is a reader; init opens it for both, so that the byte it is sent
waits for it. kill(pid, 0) finds zombies, which is why the shim's own delete,
after a failed start, finds init "alive".

`main` is where the program's main goroutine is: create, start, then for the
shim serve, shutdown, delete, and for `run` wait, then delete or the clean-ups.
`conn[c]` is what the handler of a connection does; handlers in `Handling` are
counted by the WaitGroup that Shutdown waits for. In an exec session `wrote`
holds what the command wrote to its pipes, `sent` what a copier has framed,
`wire` the frames the socket holds, `got` what the client has. Before that,
`Exec` may fail at the pipes, at the start, or at telling the client, which kills
the process that was started but not what it may have forked. Each stream has
one chunk, which suffices for order against the exit frame. stdin and the
terminal change none of this. wait4 on init does not fail: init is the child of
the shim, which is its subreaper or ends (`setSubreaper`), and nobody else waits.

### EventBus

The RWMutex is modelled by who is sending: what needs the write lock can happen
only while nobody sends. `closes` counts, so that a second close shows. An event
is a place in a buffer. `missed` is a history variable: subscribers that were
refused an event. Each handler subscribes once, which is all `StreamEvents` does.

### IPAM, SubnetBitmap and Network

In `IPAM` containers run side by side, each in the order Lifecycle has (`opMu`
serialises one container), and meet in the controller's mutex and the bitmap.
`new` is the address Connect has allocated but not yet returned; `cfgIp` is
`Config.IpAddress` in memory, and `disk` what state.json says of Running and the
address. A write may fail, and leave the file as it was or torn; that of the
waiter comes some time after its mark (`draft`), when the next start may be under
way. A bitmap is the set of marked host numbers. `sound` turns FALSE with the
first rolled back start, failed Disconnect or crash; `behind` are containers that
were connected anew while their state.json said Running of an earlier run.

`SubnetBitmap` has the words: each the set of its bits that are 1, `W` of them
(64 in the code). `AllocateNext` takes the first word that is not full and in it
the lowest bit, and checks it against the size. `Network` keeps such a bitmap
under its key (absent before the first allocation: a fresh one reserves the
first and last offset), the record, and on the host the bridge, its addresses
and the number of masquerade rules. allocateIP and releaseIP are single steps
there, since they hold the mutex from read to write, which IPAM has in pieces.
An administrator's operation that fails stops where it is; nothing undoes it. A
start that fails, before its Connect or in it, is rolled back by the Disconnect
of teardownRuntime, which releases `Config.IpAddress` (`cfg`), the address of an
earlier run; `stray` says that this has happened. `disk` is what a restart finds.

### Store

`dir[i]` is the state.json of container i: absent, torn (opened with O_TRUNC and
not yet written, or written in vain) or a configuration; `mem` the keys of the
daemon's map. Any of its writes may fail at the opening or at the writing: a
Create gives up, a Start, a waiter and New go on (`unsaved`). A lookup passes over
what it cannot read or parse (`overlooked`). Creates
take no lock between the name check, which reads the files, and their own write.
A directory of the image is taken for the image even if another Create is still
unpacking it. The waiter writes without `opMu` (`late`). A restart keeps what parses.
Which of the loaded containers are alive is the environment's choice.

### LogStream

The log is a sequence of headers and bytes; `fwd[p]` is the forwarder of
the pipe p, a stream of a run: reading, waiting for `Writer.mu`, or between
header and payload. A request reads to the end, looks at the state, and drains
once more if the container is not running. The client's demultiplexer is a
recursive function over what it was sent; `Demux` is what it does with one item.
The shim does not wait for its forwarders; a write to the log may fail, which
ends its forwarder; `torn` records that one was cut off or failed in a frame, or
that two shims had the log open.

### Auth

`pc[c]` is where a client's request is: between the lookup by name, that by
email and the two steps of a save (Register), between reading an account and
writing it back (Login), or between the three checks of the middleware. A token
is account, expiry and secret, because two logins in one second make the same
string. Each lookup comes by some of the accounts that parse, because unreadable
files are skipped and a directory that cannot be read is taken for a free name;
`blurred` and `twins` record that a Register passed over an account of its name
or email, and what came of it. `out` and `off` are history: tokens whose Logout
returned in this start of the daemon, and accounts disabled while no Login had a
copy. HMAC and bcrypt are taken to do what they promise. Roles and permissions are
left out: a request that ValidateToken lets pass may be refused or not. `Disable` stands for whoever edits an account; `routes.go` mounts
neither middleware at present, so the module says what they do when they are.

## Runs

| Run (cfg) | Bounds | Shows |
|---|---|---|
| `requests` (`LifecycleRequests`) | 2 clients that start, kill and remove, 2 starts; prepares, writes and removals that fail, shims that are lost; 557 thousand states | `TypeOK`, `WatchedWhileRunning`, `LifecycleSerialised`, `StateMachine`, `ImplementsCustody` |
| `recover` (`LifecycleRecover`) | 2 clients, 1 start and a reconcile, 1 crash anywhere, refused, late and lost shims, fairness; 46 thousand | `ImplementsCustody` across a restart of the daemon, `DeadIsNotRunningOnDisk` |
| `one_run` (`LifecycleOneRun`) | 2 clients, all 6 operations, 1 start, failing prepares and removals, fairness; 29 thousand | `DoneMeansCleanedUp`, `ShimOutlivesCleanup`, `StoppedMeansExited`, `StopReturns`, `ExitRecorded`, `ShimReaped` |
| `bus` (`EventBus`) | 2 publishers, 2 streams, channels of 2, fairness; 19 thousand | `NoSendOnClosed`, `ClosedOnce`, `MissedMeansEvicted`, `NoLeakedSubscription`, `PublishReturns` |
| `ipam` (`IPAM`) | 2 containers, 2 addresses, 3 starts, every fault, 1 crash; 894 thousand | `NoSharedAddress`, `UsedIsMarked`, `MarkedIsUsed`, `WatchedAddressKnown` |
| `network` (`Network`) | 2 administrators, 2 containers, 8 offsets in words of 5, a fresh bitmap or one with leaked addresses, 4 operations, every fault, 1 crash; 178 thousand | `RecordedMeansBuilt`, `BridgeAddressesReserved`, `GatewayReachable`, `LeastFreeAllocated` |
| `shim` (`ShimServer`) | both programs, every fault, an operator's command, 2 connections of which one asks for exec, a socket of 2 frames, fairness; 74 thousand | `UserIsConfined`, `LiveInitIsRecorded`, `FailedCreateLeavesNothing`, `EndLeavesNothing`, `ExecComplete`, `StartReturns`, `ShutdownReturns` |
| `logs` (`LogStream`) | 2 runs, 2 streams, 2 bytes, reads of 2 items, 1 request, failing writes; 2.0 million | `FramesIntact`, `FollowerGotAll` |
| `store` (`Store`) | 2 containers, 3 names of which two differ in case, 2 starts, 2 crashes, failing writes and removals, unread files; 630 thousand | `UniqueNames`, `DiskAgrees` |
| `auth` (`Auth`) | 2 clients, 2 names, 2 emails, 2 accounts, tokens of 1 second, 1 second of clock, 5 requests, 1 restart, unread and unsaved files; 1.1 million | `KeptOut`, `UniqueAccounts` |
| `double_close` (`DoubleClose`) | 2 clients, 2 starts | `NoPanic` is violated |
| `start_leak` (`StartLeak`) | the shim, an init that fails | `FailedStartIsDeleted` is violated |

Why the bounds are enough:

* Two starts show anything that one run of a container does to the next, because
  a start needs the waiter of the last to have marked it Stopped, and only the
  end of that waiter and of its shim reach into the next run; a further
  generation is there for the reconcile. Two clients suffice for what `opMu` and
  the unlocked reads of `done` allow: one in the critical part, one beside it. Stop
  is a request of `recover` and `one_run`, Wait and the forced remove of `one_run`
  only.
* A third stream adds nothing to the bus, whose goroutines meet pairwise; nor
  does a third container to the addresses, of which there are as many as
  containers, so that a leak shows at once.
* Words of 5 bits over 8 offsets put a word boundary inside the subnet and
  unused bits behind its end; the leaked addresses 1 to 3 bring the scan to the
  boundary within the 4 operations.
* In `shim` the handlers meet only through `done`, `deleteCh` and the
  WaitGroup, so a session and one other connection, which asks for each request
  in turn, are all the pairs; one operator's command is enough, as it can come
  at any point.
* In `logs` 2 bytes make two frames of one stream, one on each, one frame of two
  bytes, or one in each run; a read of 2 items cuts a frame after its header.
  The streams are interchangeable, as only their mark in the log differs.
* In `ipam` the third start lets a container be started again after the addresses
  of two runs have changed hands, with a crash at any point of it.
* In `store` two containers are the two that a name is between; two starts let
  a late waiter meet the next run, and two crashes let what one restart has
  written, or not, be found by the next.
* In `auth` a clock that reaches the end of a token's life lets a token expire
  between any two checks and the next Login issue another; one restart, with the same or another secret.

`CHECK_DEADLOCK FALSE` stands where the system really may stop: a removed
container takes no requests, a torn state.json loses one, a program has ended, the
bounds are used up. `bus` checks for deadlock.

What a property leaves out it says by a history variable, so that every
behaviour is checked up to that point, or for every container but those:
`sound` and `behind` (IPAM), `overlap`, `doomed` and `stray` (Network),
`overlooked`, `late` and `unsaved` (Store), `torn` (LogStream), `twins` (Auth),
and in Auth what `out` and `off` hold. The properties of `one_run` are of one
start; the first three and `StopReturns` are false over two. `DeadIsNotRunningOnDisk` needs one start and
writes that succeed (a Stopped that cannot be written leaves Running on disk
until the next start or restart); `ShimReaped` needs a daemon that does not die
between its write of Stopped and its Delete, which no later daemon sends.

Definitions that are stated and in no run: `OnlyPresentGenerationWatched`, which
is proved; the `TypeOK` of the modules other than Lifecycle, which keep their
types on the same instances and of which those of IPAM, Network, Store and Auth
are proved (that of LogStream bounds the bytes said, which only TLC's bound
keeps; its proof has types without the bound); and
`RemoveSparesRunning`, `LiveIsManaged` and `LayerKept`, which do not hold (next
section).

### What does not hold

Two runs check a statement that the repository makes about itself and the code
does not keep:

* `double_close`: `opMu` keeps the state consistent (`daemon/daemon.go:23`).
  Start, exit, the waiter marks Stopped, a second start replaces `done`, the
  first waiter closes the new channel, and so does the second waiter when its
  turn comes: the daemon panics.
* `start_leak`: after a failed start the shim must delete the state, since init
  has been created (`cmd/litcontainer-shim/main.go:94`). Its delete, without
  `--force`, refuses while init is alive, and an init that has died is the shim's
  own unreaped child, which kill(pid, 0) still finds. state.json, the fifo and
  the cgroup stay.

Reachable in the same models, where a property excludes them or is not claimed:

* The first shim's `listener.Close` unlinks the socket of the second; the second
  waiter cannot dial and marks a container Stopped whose init runs
  (`StoppedMeansExited`, false over two starts). A Delete may reach the next
  run's shim.
* A Start between the check of a Remove and its deletion is removed while it
  runs (`RemoveSparesRunning`).
* If the write of Running failed, or the daemon died before it, a restart does
  not find the container that lives (`LiveIsManaged`).
* A crash during a start, a second mount, one unmount and RemoveAll wipe the
  writable layer (`LayerKept`).
* A Wait made before the first start reads a nil channel and waits for good; a
  Wait that has read the channel of the second start returns when the first
  waiter closes it.
* A Stop reads `done` after the shim's answer; if another start has replaced it by
  then, the Stop returns only when that newer run ends (`StopReturns`, false over
  two starts).
* A failed start releases the address of the container's last run, which may be
  another container's, or a bridge's, by now and is then handed out again; a
  Connect that fails after the allocation leaks an address.
* The write of Stopped fails, or comes late, and the container is started again:
  state.json says Running with the old address, and if the daemon dies before it
  is written New watches the live container with that address
  (`WatchedAddressKnown` leaves these out by `behind`).
* A write of Running that failed is not put right by a restart, as the log line
  at `container.go:172` has it ("will reconcile on restart"): New reconciles only
  containers whose file says Running, and a file the write has truncated loses
  the container, which lives on, and frees its name.
* A Delete of a network that failed after the bridge was removed cannot be
  repeated: the bridge is not found, and the name stays taken. Deleting a
  network beside attached containers leaves them without a gateway.
* Two Creates of containers, or two Registers, that look a name up beside each
  other's save get the same name, as does one that cannot read the other's file;
  Register takes any error of a lookup for a free name. A waiter that writes late overwrites the
  Running of a newer start.
* runc's delete panics without the bundle, which ContainerRemove deletes as soon
  as the container is marked Stopped; then state.json and the cgroup stay.
* A shim that ends does not wait for its forwarders: the last lines, or the
  payload of a header that is already in the log, are lost. A write to the log that
  fails after the header (`stdcopy.go:71`) shifts every later frame.
* A Login that read an account before it was disabled writes it back active. The
  blacklist is lost at a restart, and with a fixed `JWT_SECRET` the tokens on it
  are valid again.

## Fairness

Lifecycle's `FairSpec`: goroutines and processes that can take a step do so
eventually (WF on each request, waiter, shim and the boot of the daemon); a
request waiting for `opMu` gets it if it is free again and again (SF on the
steps that acquire it), which Go's mutex provides by handing itself over after a
millisecond of starvation; an init that a Stop or a fatal Kill has reached exits
(the shim sends SIGKILL after the time-out). Nothing obliges a client to call,
an init to end on its own, or a fault or crash to happen or not to happen.

EventBus' `FairSpec`: a publisher that has begun goes on; who waits for the
write lock gets it (SF), because a waiting writer of a `sync.RWMutex` keeps new
readers out. Readers are under no fairness but for their way out.

ShimServer's `Fairness`: create, init, each begun command, the main goroutine
and each handler go on (WF); a client that has dialled sends its request, reads
its frames, or goes away; the kernel ends what is in the pid namespace of a dead
init. The user's command need not end, no operator need act, nothing need fail.
`ShutdownReturns` rests on the client's part of it: Shutdown does wait for a
connection that is open and silent.

IPAM, Network, LogStream, Store and Auth have safety properties only and need no
fairness.

## Proofs

All theorems hold for every value of the constants that meets the assumptions
named in the modules; these say what the constants are (ranges of numbers, which
faults exist, that a "nobody" is not one of the actors, that an administrator's
request is not a container and that there are finitely many of them, that an
absent or torn file is no configuration). No theorem assumes anything of a run,
except the five of `LifecycleProofs` that say so in their hypothesis `OneStart`.

Every safety invariant and action property that a passing run checks is stated
by a theorem.

* `LifecycleProofs`, for any number of clients, starts and crashes:
  `TypeCorrect`, `RunningHasAnOwner`, `NoLateWaiter`, `OneAtATime`,
  `FollowsStateMachine`. What makes the properties inductive is `IInv`: a start
  between its lock and its mark knows that the container is not Running, one
  between its mark and its `go` statement that `done` is its generation and that
  this generation has no waiter yet (`StartInv`); generations above `gen` have no
  waiter and one that may still mark the container belongs to `gen` while the
  container is Running (`WaiterInv`); Running has an owner (`OwnerInv`); while the
  daemon is down or in New nothing of it runs (`DownInv`). The crux is that a
  start can take a new generation only when the state is not Running, and that
  no waiter that could still mark it exists then, although the waiter never
  takes `opMu`.
  `CustodyIsKept`: Lifecycle implements `Custody`. A container has one owner, a
  start or a waiter, from the moment a start takes it until its end is recorded;
  a daemon that dies loses it and one that comes back takes it up again exactly
  if it finds the container alive. The refinement mapping reads the owner off
  the program counters; one lemma per kind of step shows that it is the step of
  Custody of that name or none.
  Within one start, `OneStart` (one start, no crash, no lost shim, no failing
  write of state.json; prepares and spawns may fail, and clients are as many as
  one likes): `DoneIsDone`, `StoppedHasExited`, `OneStartNeverPanics`, and
  `ShimsOutliveCleanup`, which also takes no spawn to be refused or late, because
  the shim of such a spawn is dead before its start has cleaned up. `RunInv`
  follows the one generation: where its shim and init are at each step of the
  waiter (`ShimInv`), that only the waiter closes a channel and only its own
  (`ChannelInv`), what is recorded (`RecordInv`), and that there is one mount and
  who takes it down (`MountInv`). The hypothesis is not a convenience: with a
  second start, a crash, a lost shim or a write that fails there are states in
  which one or more of them do not hold (see "What does not hold").
* `EventBusProofs`: `SendsAreSafe`, `ChannelsCloseOnce`, `GapsEndStreams`,
  `SubscriptionsEnd`, from an invariant that ties the map to the readers and to
  the number of closes: who is in the map has an open channel, and who is being
  sent to is in the map as long as the read lock is held.
* `IPAMProofs`: `TypeCorrect`, `AddressesAreUnique`, `UsedAddressesAreMarked`,
  `NoAddressLeaks`, `WatchedAddressesAreKnown`. The invariant is a set of books
  (`Books`): at every step of a start or clean-up a container is charged with
  one address at most (`Owned`), no two with the same, and the bitmap is exactly
  what the containers are charged with; where somebody holds the mutex, what it
  has loaded is what the database holds (`MutexInv`), which is where the
  read-change-write needs the lock. `WatchInv` says, of containers that are not
  `behind`, what a restart finds on disk: a state.json that says Running has the
  address the container is at, whatever the waiter of an earlier run has yet to
  write.
* `ShimServerProofs`: `UsersAreConfined`, `LiveInitsAreRecorded`,
  `FailedCreatesLeaveNothing`, `EndsLeaveNothing`, `ExecsAreComplete`. `HostInv`
  says that whatever is on the host has its clean-up registered as long as there
  is one to run, that of init before that of the cgroup, which can only be
  removed when init is dead (`Undoable`); that a delete which has passed its
  check has found, or made, init dead (`Recorded`); and how an end goes when no
  operator has interfered (`Ending`). `ExecInv` keeps books of a session: what a
  copier has framed is with the client or on the wire before the exit frame,
  which is the last.
* `AuthProofs`: `LoggedOutAndDisabledKeptOut`, `AccountsAreUnique`,
  `TypeCorrect`. A token that was logged out does not
  parse, or is listed until it no longer does (`LoggedOut`); nobody is about to
  write a copy of a disabled account (`Disabled`); hence a request that should
  be kept out fails at a check it has yet to make (`Barring`). Names are unique
  because a Register that has passed over nothing differs, from its lookup on, in
  name and email from every account on disk and every one that is about to be
  saved (`Unique`).

* `NetworkProofs`: about `SubnetBitmap`, for words of any width and subnets of
  any size, that the scan returns the least offset that is not marked
  (`AllocateNextIsLeast`), that it gives up only on a subnet that is full
  (`ExhaustedMeansFull`), and that setting and clearing touch
  one offset (`MarkOne`); about `Network`, for any administrators and containers,
  faults and crashes, `RecordedNetworksWork`, `BridgeAddressesAreReserved`,
  `GatewaysAreReachable`, `AllocationIsFirstFit`, `TypeCorrect`, and two that no
  run checks: `HoldersAreApart`, two operations never hold one address, and
  `RefusedMeansFull`, nobody is turned away while there is a free address.
  The invariant is `Quiet`, as long as no Delete overlaps another operation, and
  for the addresses as long as no container has released one it did not hold: an
  address that an operation or the bridge has is marked, and only a Create shares
  one with the bridge (`Holds`, `Reserved`); a Delete is alone (`Alone`); the
  bridge is as far as the Create that makes it (`Built`); a recorded gateway is on
  the bridge, unless a Delete that stopped half-way took the bridge away and left
  the record, after which nothing builds one again (`Routed`).
  The theorems about allocation need no such condition: allocateIP holds the mutex,
  and the first offset, which no release can name, stays marked (`FirstMarked`).
* `StoreProofs`: `NamesAreUnique`, `TheDiskAgrees`, `TypeCorrect`. `DirInv` says
  what a container's file holds at each step of its writers, for containers that
  no late waiter has written and whose last write has not failed. `NameInv` says
  that no file bears a name other than its container's, and `Distinct` that two
  containers from the lookup of their Create on have different names unless one
  of the two lookups passed over the other.
* `LogStreamProofs`: `FollowersGetAll`, `StreamsAreInOrder`, `LogIsFramed`,
  `ClientsReadWhatWasSaid`. Unless something was torn, the forwarders of one shim
  only are at work, and one of them at a time is between a header and its payload
  (`ShimInv`, `FrameInv`); so the bytes of a pipe are in the log in order
  (`OrderInv`), every header is followed by its payload (`FramesAreWhole`), and a
  client that starts at the beginning and demultiplexes any prefix of the log
  gets of every stream what was said on it. The last is an induction over how
  much the demultiplexer has read (`DemuxFollows`): at every prefix it expects a
  header exactly where the log has one.

The library's induction theorems take a predicate as a parameter and cannot be
used with these provers. What `ClientsReadWhatWasSaid` and the scan need of
induction comes from the well-foundedness of < on the numbers, which is a fact
about a set (`WFMin`): the predicate is the set of the numbers it fails for, and
the least of them is the contradiction (`UpTo`, `MinIsLeast`). The demultiplexer
is a recursive function for that reason.

Only model-checked: liveness (`StopReturns`, `ExitRecorded`, `ShimReaped`,
`DeadIsNotRunningOnDisk`, `PublishReturns`, `StartReturns`, `ShutdownReturns`),
which rests on fairness and ENABLED and is beyond this prover.

## Not modelled, and why

* `spec.go`, the values of cgroup limits, the volume mounts and pivot_root, the
  HTTP routes and encodings, the command line, image export, the logger and the
  version are straight-line I/O or formatting, without state that outlives them.
* bbolt is taken at its word: one call is one transaction.
* iptables rules for port mappings and the listings of networks.
* resolveID: it reads a map and changes nothing.
* Roles and permissions of accounts: constant tables and a comparison of patterns
  with permissions. They do not fit each other where the comments of the roles
  speak of viewing details (`auth/auth.go:316`, `328`, `338-342`): the pattern
  they gloss so is `<resource>:read`, the permission described so is
  `<resource>:get` (`272`, `282`, `286`), and the one does not match the other.
  Nothing enforces them yet, as no route mounts the middleware.
* stdin, terminals and window sizes of exec sessions.

## Plan

Every component with a protocol of its own has a module. What would add most:

1. `ShimServer` shown to implement the shim that `Lifecycle` composes with, so
   that its outcomes of a spawn are derived and not stated.
2. An abstract log (a sequence per stream) that `LogStream` implements;
   `StreamsAreInOrder` and `FollowersGetAll` are most of its step lemma.
3. What of the one-start theorems survives a crash: that a channel is closed by
   the waiter of its own generation as long as there is one generation at a time.
