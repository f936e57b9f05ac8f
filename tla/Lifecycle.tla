------------------------------ MODULE Lifecycle ------------------------------
(***************************************************************************)
(* The daemon's management of ONE container (internal/daemon/container.go  *)
(* and daemon.go) composed with the container's shim and init (Shim).      *)
(*                                                                         *)
(* Clients are the goroutines that serve API requests; each container      *)
(* start hands the container to a waiter goroutine that owns its cleanup.  *)
(* opMu is ContainerState.opMu, `done` is ContainerState.done: channel g   *)
(* is the one made for generation g, 0 the nil channel of a container that *)
(* was never started, Preclosed the closed one New gives loaded ones.      *)
(* A generation number is taken by a Start or by a reconcile (which makes  *)
(* a done channel and a waiter, but no new shim).                          *)
(*                                                                         *)
(* The container has just been created: ContainerCreate (a fresh id, so    *)
(* once per container) is not an action here.                              *)
(***************************************************************************)
EXTENDS Shim, FiniteSets

CONSTANTS
    Clients,        \* concurrent API requests
    Ops,            \* the operations they may ask for
    Faults,         \* which steps may fail
    MaxStarts,      \* bound: no start takes a generation above it, the
                    \* generations up to MaxGen are for reconciles
    MaxCrashes,     \* bound: daemon crashes in a behaviour
    NoOne           \* opMu is free

AllOps == {"start", "stop", "kill", "rm", "rmforce", "wait"}
AllFaults == {"prepare", "refused", "timeout", "persist", "remove", "shimlost"}

ASSUME LifecycleAssumption ==
    /\ NoOne \notin Clients
    /\ Ops \subseteq AllOps
    /\ Faults \subseteq AllFaults
    /\ MaxStarts \in 1 .. MaxGen
    /\ MaxCrashes \in Nat

Preclosed == MaxGen + 1
Channels == 0 .. Preclosed

VARIABLES
    up,             \* the daemon process
    crashes,        \* how often it died
    panicked,       \* it died of close(done) on a closed channel
    registered,     \* the id is in Daemon.containers
    st,             \* Config.State in memory
    disk,           \* State in the container's state.json, "none" = no file, or
                    \* none that can be read
    bundle,         \* the OCI spec is in the container's directory
    overlay,        \* the overlay's upper and work directories exist
    mounts,         \* overlay mounts stacked on <id>/merged
    wiped,          \* the writable layer was emptied through such a mount
    gen,            \* the last generation taken
    opMu,           \* who holds ContainerState.opMu
    done,           \* ContainerState.done
    closed,         \* the channels that have been closed
    waiter,         \* [Gens -> WaiterPCs], the waiter goroutines
    conn,           \* [Gens -> {0} \cup Gens], the shim a waiter waits on
    pc, op, arg     \* each request: where, which, its generation or channel

host == <<shimVars, bundle, overlay, mounts, wiped>>
config == <<registered, st, disk>>
life == <<up, crashes, panicked>>
waiters == <<waiter, conn>>
requests == <<pc, op, arg>>
vars == <<shimVars, up, crashes, panicked, registered, st, disk, bundle,
          overlay, mounts, wiped, gen, opMu, done, closed, waiter, conn, pc, op, arg>>

MemStates == {"created", "running", "stopped"}
WaiterPCs == {"none", "dial", "wait", "teardown", "mark", "persist",
              "delete", "close", "gone"}
StartPCs == {"prepare", "spawn", "mark", "persist", "watch", "rollback"}
PCs == {"idle", "startlock", "stop", "stopcheck", "stopdial", "stopping",
        "readdone", "recv", "killlock", "killing", "rmcheck", "rmdir",
        "rmfinish"} \cup StartPCs

TypeOK ==
    /\ ShimTypeOK
    /\ up \in {"up", "boot", "bootpersist", "down"}
    /\ crashes \in Nat
    /\ panicked \in BOOLEAN
    /\ registered \in BOOLEAN
    /\ st \in MemStates
    /\ disk \in MemStates \cup {"none"}
    /\ bundle \in BOOLEAN
    /\ overlay \in BOOLEAN
    /\ mounts \in Nat
    /\ wiped \in BOOLEAN
    /\ gen \in 0 .. MaxGen
    /\ opMu \in Clients \cup {NoOne}
    /\ done \in Channels
    /\ closed \subseteq Channels
    /\ waiter \in [Gens -> WaiterPCs]
    /\ conn \in [Gens -> {0} \cup Gens]
    /\ pc \in [Clients -> PCs]
    /\ op \in [Clients -> AllOps]
    /\ arg \in [Clients -> Channels]

Init ==
    /\ ShimInit
    /\ up = "up" /\ crashes = 0 /\ panicked = FALSE
    /\ registered = TRUE /\ st = "created" /\ disk = "created"
    /\ bundle = FALSE /\ overlay = TRUE /\ mounts = 0 /\ wiped = FALSE
    /\ gen = 0
    /\ opMu = NoOne
    /\ done = 0 /\ closed = {Preclosed}
    /\ waiter = [g \in Gens |-> "none"]
    /\ conn = [g \in Gens |-> 0]
    /\ pc = [c \in Clients |-> "idle"]
    /\ op = [c \in Clients |-> "wait"]
    /\ arg = [c \in Clients |-> 0]

-----------------------------------------------------------------------------
(* Helpers.                                                                *)

At(c, l) == up = "up" /\ pc[c] = l
Goto(c, l) == pc' = [pc EXCEPT ![c] = l] /\ UNCHANGED <<op, arg>>
Return(c) ==
    /\ pc' = [pc EXCEPT ![c] = "idle"]
    /\ op' = [op EXCEPT ![c] = "wait"]
    /\ arg' = [arg EXCEPT ![c] = 0]
GotoWith(c, l, x) ==
    /\ pc' = [pc EXCEPT ![c] = l]
    /\ arg' = [arg EXCEPT ![c] = x]
    /\ UNCHANGED op

Lock(c) == opMu = NoOne /\ opMu' = c
Unlock(c) == opMu = c /\ opMu' = NoOne

May(f) == f \in Faults

\* Mutant: an unmount that assumes there is a mount.
TeardownOfAMount ==
    /\ mounts' = mounts - 1
    /\ wiped' = (wiped \/ mounts > 1)
    /\ UNCHANGED <<bundle, overlay>>

\* teardownRuntime: unmount the topmost overlay mount and RemoveAll(merged),
\* which empties the writable layer when another mount was underneath.
Teardown ==
    /\ mounts' = IF mounts = 0 THEN 0 ELSE mounts - 1
    /\ wiped' = (wiped \/ mounts > 1)
    /\ UNCHANGED <<bundle, overlay>>

\* WriteContainerConfig: writes what is in memory now, creating the directory; a
\* write that fails leaves the old file or a truncated one, and every caller only
\* logs it.
PersistConfig == disk' = st \/ (May("persist") /\ disk' \in {disk, "none"})

-----------------------------------------------------------------------------
(* Any request: resolveID and lookup, with d.mu only.                      *)

Entry == [start |-> "startlock", stop |-> "stopcheck", kill |-> "killlock",
          rm |-> "rmcheck", rmforce |-> "rmcheck", wait |-> "readdone"]

Call(c, o) ==
    /\ At(c, "idle")
    /\ registered
    /\ pc' = [pc EXCEPT ![c] = Entry[o]]
    /\ op' = [op EXCEPT ![c] = o]
    /\ UNCHANGED <<host, life, config, gen, opMu, done, closed, waiters, arg>>

-----------------------------------------------------------------------------
(* ContainerStart.  opMu is held from StartLock to StartWatch or Rollback. *)

\* Mutant: no state check under the lock.
StartLockUnchecked(c) ==
    /\ At(c, "startlock")
    /\ gen < MaxStarts /\ Lock(c) /\ Goto(c, "prepare")
    /\ UNCHANGED <<host, life, config, gen, done, closed, waiters>>

StartLock(c) ==
    /\ At(c, "startlock")
    /\ IF st = "running"
       THEN opMu = NoOne /\ UNCHANGED opMu /\ Return(c)
       ELSE gen < MaxStarts /\ Lock(c) /\ Goto(c, "prepare")
    /\ UNCHANGED <<host, life, config, gen, done, closed, waiters>>

\* prepareRuntime and writeContainerSpec; without the overlay's directories
\* the mount fails, and a later failure leaves the mount for the rollback.
StartPrepare(c) ==
    /\ At(c, "prepare")
    /\ \/ overlay /\ mounts' = mounts + 1 /\ bundle' = TRUE /\ Goto(c, "spawn")
       \/ ~overlay /\ UNCHANGED <<mounts, bundle>> /\ Goto(c, "rollback")
       \/ May("prepare") /\ mounts' \in {mounts, mounts + 1}
                         /\ (mounts' = mounts \/ overlay)
                         /\ bundle' \in {bundle, FALSE}
                         /\ Goto(c, "rollback")
    /\ UNCHANGED <<shimVars, overlay, wiped, life, config, gen, opMu, done,
                   closed, waiters>>

StartShim(c) ==
    /\ At(c, "spawn")
    /\ gen < MaxStarts
    /\ gen' = gen + 1
    /\ \/ SpawnReady(gen') /\ Goto(c, "mark")
       \/ May("refused") /\ SpawnRefused(gen') /\ Goto(c, "rollback")
       \/ May("timeout") /\ SpawnTimeout(gen') /\ Goto(c, "rollback")
    /\ UNCHANGED <<bundle, overlay, mounts, wiped, life, config, opMu, done, closed,
                   waiters>>

\* Under d.mu: Running and a fresh done channel.
StartMark(c) ==
    /\ At(c, "mark")
    /\ st' = "running"
    /\ done' = gen
    /\ Goto(c, "persist")
    /\ UNCHANGED <<host, life, registered, disk, gen, opMu, closed, waiters>>

StartPersist(c) ==
    /\ At(c, "persist")
    /\ PersistConfig
    /\ Goto(c, "watch")
    /\ UNCHANGED <<host, life, registered, st, gen, opMu, done, closed,
                   waiters>>

\* Mutant: the goroutine is not started.
StartUnwatched(c) ==
    /\ At(c, "watch")
    /\ Unlock(c)
    /\ Return(c)
    /\ UNCHANGED <<host, life, config, gen, done, closed, waiters>>

\* go waitContainerBySocket, then the deferred unlock.
StartWatch(c) ==
    /\ At(c, "watch")
    /\ waiter' = [waiter EXCEPT ![gen] = "dial"]
    /\ Unlock(c)
    /\ Return(c)
    /\ UNCHANGED <<host, life, config, gen, done, closed, conn>>

\* Mutant: a rollback that puts the container back to Created.
RollbackToCreated(c) ==
    /\ At(c, "rollback")
    /\ Teardown
    /\ st' = "created"
    /\ Unlock(c)
    /\ Return(c)
    /\ UNCHANGED <<shimVars, life, registered, disk, gen, done, closed,
                   waiters>>

\* The deferred teardownRuntime, then the deferred unlock.
StartRollback(c) ==
    /\ At(c, "rollback")
    /\ Teardown
    /\ Unlock(c)
    /\ Return(c)
    /\ UNCHANGED <<shimVars, life, config, gen, done, closed, waiters>>

-----------------------------------------------------------------------------
(* ContainerStop, also the first half of a forced ContainerRemove.         *)

\* The forced remove looks the id up a second time.
StopLookup(c) ==
    /\ At(c, "stop")
    /\ IF registered THEN Goto(c, "stopcheck") ELSE Return(c)
    /\ UNCHANGED <<host, life, config, gen, opMu, done, closed, waiters>>

StopCheck(c) ==
    /\ At(c, "stopcheck")
    /\ opMu = NoOne
    /\ IF st = "running" THEN Goto(c, "stopdial") ELSE Return(c)
    /\ UNCHANGED <<host, life, config, gen, opMu, done, closed, waiters>>

StopDial(c) ==
    /\ At(c, "stopdial")
    /\ \/ \E g \in Gens : Dials(g) /\ HandleStop(g)
                                   /\ GotoWith(c, "stopping", g)
       \/ ~Reachable /\ Return(c) /\ UNCHANGED shimVars
    /\ UNCHANGED <<bundle, overlay, mounts, wiped, life, config, gen, opMu, done,
                   closed, waiters>>

\* The shim answers once init has exited.
StopReply(c) ==
    /\ At(c, "stopping")
    /\ \/ init[arg[c]] = "exited" /\ Goto(c, "readdone")
       \/ Hangup(arg[c]) /\ Return(c)
    /\ UNCHANGED <<host, life, config, gen, opMu, done, closed, waiters>>

\* `<-state.done`, here and in ContainerWait: the field is read without any
\* lock, and the channel read is the one waited on.
ReadDone(c) ==
    /\ At(c, "readdone")
    /\ GotoWith(c, "recv", done)
    /\ UNCHANGED <<host, life, config, gen, opMu, done, closed, waiters>>

Receive(c) ==
    /\ At(c, "recv")
    /\ arg[c] \in closed
    /\ IF op[c] = "rmforce" THEN Goto(c, "rmdir") ELSE Return(c)
    /\ UNCHANGED <<host, life, config, gen, opMu, done, closed, waiters>>

-----------------------------------------------------------------------------
(* ContainerKill: opMu is held across the request to the shim.             *)

\* Mutant: opMu only for the check, as in Stop.
KillCheck(c) ==
    /\ At(c, "killlock")
    /\ opMu = NoOne
    /\ IF st = "running" THEN Goto(c, "killing") ELSE Return(c)
    /\ UNCHANGED <<host, life, config, gen, opMu, done, closed, waiters>>

KillLock(c) ==
    /\ At(c, "killlock")
    /\ IF st = "running"
       THEN Lock(c) /\ Goto(c, "killing")
       ELSE opMu = NoOne /\ UNCHANGED opMu /\ Return(c)
    /\ UNCHANGED <<host, life, config, gen, done, closed, waiters>>

KillSend(c) ==
    /\ At(c, "killing")
    /\ \/ \E g \in Gens : Dials(g) /\ HandleKill(g)
       \/ ~Reachable /\ UNCHANGED shimVars
    /\ Unlock(c)
    /\ Return(c)
    /\ UNCHANGED <<bundle, overlay, mounts, wiped, life, config, gen, done, closed,
                   waiters>>

-----------------------------------------------------------------------------
(* ContainerRemove.                                                        *)

\* Locked check, then unlock; a running container is stopped when forced.
RemoveCheck(c) ==
    /\ At(c, "rmcheck")
    /\ opMu = NoOne
    /\ \/ st # "running" /\ Goto(c, "rmdir")
       \/ st = "running" /\ op[c] = "rmforce" /\ Goto(c, "stop")
       \/ st = "running" /\ op[c] = "rm" /\ Return(c)
    /\ UNCHANGED <<host, life, config, gen, opMu, done, closed, waiters>>

\* Lock again, no second look at the state, RemoveAll of the container dir; it
\* may fail with some of it removed, and the container stays.
RemoveDir(c) ==
    /\ At(c, "rmdir")
    /\ \/ /\ Lock(c) /\ Goto(c, "rmfinish")
          /\ disk' = "none" /\ bundle' = FALSE
       \/ /\ May("remove")
          /\ opMu = NoOne /\ UNCHANGED opMu /\ Return(c)
          /\ disk' \in {disk, "none"} /\ bundle' \in {bundle, FALSE}
    /\ UNCHANGED <<shimVars, overlay, mounts, wiped, life, registered, st, gen,
                   done, closed, waiters>>

\* RemoveOverlayFS logs an error and goes on.
RemoveFinish(c) ==
    /\ At(c, "rmfinish")
    /\ overlay' = FALSE \/ (May("remove") /\ UNCHANGED overlay)
    /\ registered' = FALSE
    /\ Unlock(c)
    /\ Return(c)
    /\ UNCHANGED <<shimVars, bundle, mounts, wiped, life, st, disk, gen, done,
                   closed, waiters>>

-----------------------------------------------------------------------------
(* waitContainerBySocket: the goroutine a start or a reconcile leaves.     *)

WaiterAt(g, l) == up = "up" /\ waiter[g] = l
WaiterGoto(g, l) == waiter' = [waiter EXCEPT ![g] = l]

WaiterDial(g) ==
    /\ WaiterAt(g, "dial")
    /\ \/ \E h \in Gens : Dials(h) /\ conn' = [conn EXCEPT ![g] = h]
                                   /\ WaiterGoto(g, "wait")
       \/ ~Reachable /\ UNCHANGED conn /\ WaiterGoto(g, "teardown")
    /\ UNCHANGED <<host, life, config, gen, opMu, done, closed, requests>>

\* Mutant: a Wait that answers although init still runs.
WaiterReplyAtOnce(g) ==
    /\ WaiterAt(g, "wait")
    /\ WaiterGoto(g, "teardown")
    /\ UNCHANGED <<host, life, config, gen, opMu, done, closed, conn, requests>>

\* Mutant: a Wait that is never answered.
WaiterReplyOnHangup(g) ==
    /\ WaiterAt(g, "wait")
    /\ Hangup(conn[g])
    /\ WaiterGoto(g, "teardown")
    /\ UNCHANGED <<host, life, config, gen, opMu, done, closed, conn, requests>>

\* The Wait answer, or the end of the connection to a lost shim: an error is
\* logged and the cleanup follows all the same.
WaiterReply(g) ==
    /\ WaiterAt(g, "wait")
    /\ init[conn[g]] = "exited" \/ Hangup(conn[g])
    /\ WaiterGoto(g, "teardown")
    /\ UNCHANGED <<host, life, config, gen, opMu, done, closed, conn, requests>>

WaiterTeardown(g) ==
    /\ WaiterAt(g, "teardown")
    /\ Teardown
    /\ WaiterGoto(g, "mark")
    /\ UNCHANGED <<shimVars, life, config, gen, opMu, done, closed, conn,
                   requests>>

\* Mutant: Stopped is not written to disk.
WaiterMarkOnly(g) ==
    /\ WaiterAt(g, "mark")
    /\ st' = "stopped"
    /\ WaiterGoto(g, "delete")
    /\ UNCHANGED <<host, life, registered, disk, gen, opMu, done, closed, conn,
                   requests>>

\* Stopped, under d.mu but not under opMu.
WaiterMark(g) ==
    /\ WaiterAt(g, "mark")
    /\ st' = "stopped"
    /\ WaiterGoto(g, "persist")
    /\ UNCHANGED <<host, life, registered, disk, gen, opMu, done, closed, conn,
                   requests>>

WaiterPersist(g) ==
    /\ WaiterAt(g, "persist")
    /\ PersistConfig
    /\ WaiterGoto(g, "delete")
    /\ UNCHANGED <<host, life, registered, st, gen, opMu, done, closed, conn,
                   requests>>

\* Mutant: the shim is not told to go.
WaiterNoDelete(g) ==
    /\ WaiterAt(g, "delete")
    /\ WaiterGoto(g, "close")
    /\ UNCHANGED <<host, life, config, gen, opMu, done, closed, conn, requests>>

\* Mutant: done is not closed.
WaiterDeleteOnly(g) ==
    /\ WaiterAt(g, "delete")
    /\ \/ \E h \in Gens : Dials(h) /\ HandleDelete(h)
       \/ ~Reachable /\ UNCHANGED shimVars
    /\ WaiterGoto(g, "gone")
    /\ UNCHANGED <<bundle, overlay, mounts, wiped, life, config, gen, opMu, done,
                   closed, conn, requests>>

\* A new connection: Delete goes to whoever listens behind the path by now.
WaiterDelete(g) ==
    /\ WaiterAt(g, "delete")
    /\ \/ \E h \in Gens : Dials(h) /\ HandleDelete(h)
       \/ ~Reachable /\ UNCHANGED shimVars
    /\ WaiterGoto(g, "close")
    /\ UNCHANGED <<bundle, overlay, mounts, wiped, life, config, gen, opMu, done,
                   closed, conn, requests>>

\* What is gone with the daemon process.
LoseMemory ==
    /\ up' = "down"
    /\ opMu' = NoOne
    /\ done' = Preclosed
    /\ closed' = {Preclosed}
    /\ waiter' = [g \in Gens |-> IF waiter[g] = "none" THEN "none" ELSE "gone"]
    /\ conn' = [g \in Gens |-> 0]
    /\ pc' = [c \in Clients |-> "idle"]
    /\ UNCHANGED <<op, arg>>

\* close(state.done), whichever channel that field holds now; closing it a
\* second time panics and takes the whole daemon down.
WaiterClose(g) ==
    /\ WaiterAt(g, "close")
    /\ \/ /\ done \notin closed
          /\ closed' = closed \cup {done}
          /\ WaiterGoto(g, "gone")
          /\ UNCHANGED <<life, opMu, done, conn, requests>>
       \/ /\ done \in closed
          /\ panicked' = TRUE
          /\ crashes' = crashes + 1
          /\ LoseMemory
    /\ UNCHANGED <<host, config, gen>>

-----------------------------------------------------------------------------
(* The daemon process: it dies at any point and New() loads what is on     *)
(* disk.  Nothing is served before New has returned.                       *)

Crash ==
    /\ up # "down"
    /\ crashes < MaxCrashes
    /\ crashes' = crashes + 1
    /\ LoseMemory
    /\ UNCHANGED <<host, config, gen, panicked>>

\* Mutant: no reconcile after loading.
RestartOnly ==
    /\ up = "down"
    /\ up' = "up"
    /\ registered' = (disk # "none")
    /\ st' = IF disk = "none" THEN "stopped" ELSE disk
    /\ UNCHANGED <<host, crashes, panicked, disk, gen, opMu, done, closed,
                   waiters, requests>>

\* New: every readable state.json becomes a registered container (without
\* one there is no object at all, and no value of st means anything).
Restart ==
    /\ up = "down"
    /\ up' = IF disk = "running" THEN "boot" ELSE "up"
    /\ registered' = (disk # "none")
    /\ st' = IF disk = "none" THEN "stopped" ELSE disk
    /\ UNCHANGED <<host, crashes, panicked, disk, gen, opMu, done, closed,
                   waiters, requests>>

\* Mutant: the reconcile makes a channel but starts no waiter.
ReconnectUnwatched ==
    /\ up = "boot"
    /\ Reachable /\ rstate # 0
    /\ gen < MaxGen
    /\ up' = "up"
    /\ gen' = gen + 1
    /\ done' = gen'
    /\ UNCHANGED <<host, crashes, panicked, config, opMu, closed, waiters,
                   requests>>

\* reconcileContainer: the shim answers State (it needs runc's state file).
Reconnect ==
    /\ up = "boot"
    /\ Reachable /\ rstate # 0
    /\ gen < MaxGen
    /\ up' = "up"
    /\ gen' = gen + 1
    /\ done' = gen'
    /\ waiter' = [waiter EXCEPT ![gen'] = "dial"]
    /\ UNCHANGED <<host, crashes, panicked, config, opMu, closed, conn,
                   requests>>

\* It does not answer: cleanupContainer on the spot, and no Delete.
BootCleanup ==
    /\ up = "boot"
    /\ ~(Reachable /\ rstate # 0)
    /\ Teardown
    /\ st' = "stopped"
    /\ up' = "bootpersist"
    /\ UNCHANGED <<shimVars, crashes, panicked, registered, disk, gen, opMu,
                   done, closed, waiters, requests>>

BootPersist ==
    /\ up = "bootpersist"
    /\ PersistConfig
    /\ up' = "up"
    /\ UNCHANGED <<host, crashes, panicked, registered, st, gen, opMu, done,
                   closed, waiters, requests>>

-----------------------------------------------------------------------------
Start(c) == \/ StartLock(c) \/ StartPrepare(c) \/ StartShim(c) \/ StartMark(c)
            \/ StartPersist(c) \/ StartWatch(c) \/ StartRollback(c)

Stop(c) == \/ StopLookup(c) \/ StopCheck(c) \/ StopDial(c) \/ StopReply(c)

Await(c) == ReadDone(c) \/ Receive(c)

Kill(c) == KillLock(c) \/ KillSend(c)

Remove(c) == RemoveCheck(c) \/ RemoveDir(c) \/ RemoveFinish(c)

Waiter(g) == \/ WaiterDial(g) \/ WaiterReply(g) \/ WaiterTeardown(g)
             \/ WaiterMark(g) \/ WaiterPersist(g) \/ WaiterDelete(g)
             \/ WaiterClose(g)

DaemonVarsUnchanged ==
    UNCHANGED <<bundle, overlay, mounts, wiped, life, config, gen, opMu, done,
                closed, waiters, requests>>

ShimStep(g) ==
    /\ \/ InitExit(g) \/ Shutdown(g) \/ ShimExit(g, bundle)
       \/ May("shimlost") /\ ShimLost(g)
    /\ DaemonVarsUnchanged

Boot == Restart \/ Reconnect \/ BootCleanup \/ BootPersist

ClientStep(c) == Start(c) \/ Stop(c) \/ Await(c) \/ Kill(c) \/ Remove(c)

Next ==
    \/ \E c \in Clients : (\E o \in Ops : Call(c, o)) \/ ClientStep(c)
    \/ \E g \in Gens : Waiter(g) \/ ShimStep(g)
    \/ Crash
    \/ Boot

Spec == Init /\ [][Next]_vars

-----------------------------------------------------------------------------
(* Scheduling.  Goroutines and processes run on; a Go mutex hands itself    *)
(* over to the longest waiter (starvation mode), hence SF for the steps     *)
(* that acquire it.  init need not ever exit, unless a Stop or a fatal Kill *)
(* reached its shim.  Nothing obliges a request to be made, a signal to be  *)
(* fatal, a fault or a crash to happen.                                     *)

Acquire(c) == StartLock(c) \/ StopCheck(c) \/ KillLock(c) \/ RemoveCheck(c)
              \/ RemoveDir(c)

DoomedExit(g) == g \in doomed /\ InitExit(g) /\ DaemonVarsUnchanged
ShimWindsUp(g) == (Shutdown(g) \/ ShimExit(g, bundle)) /\ DaemonVarsUnchanged

Fairness ==
    /\ \A c \in Clients : WF_vars(ClientStep(c)) /\ SF_vars(Acquire(c))
    /\ \A g \in Gens : WF_vars(Waiter(g)) /\ WF_vars(DoomedExit(g))
                       /\ WF_vars(ShimWindsUp(g))
    /\ WF_vars(Boot)

FairSpec == Spec /\ Fairness

-----------------------------------------------------------------------------
(* Properties.                                                             *)

Watching(g) == waiter[g] \in {"dial", "wait", "teardown", "mark"}
HandingOver(c) == pc[c] \in {"persist", "watch"}
InStart(c) == pc[c] \in StartPCs

\* A container the daemon holds to be Running always has an owner for its
\* cleanup, a waiter or the start that is about to launch one, and one it
\* does not hold to be Running has none: no interleaving of requests, waiter,
\* crash and reconcile loses the exit of a container.
WatchedWhileRunning ==
    up = "up" =>
        (st = "running" <=> \/ \E g \in Gens : Watching(g)
                            \/ \E c \in Clients : HandingOver(c))

\* A waiter that may still tear the runtime down and mark the container
\* Stopped belongs to the present generation: a late one never takes down the
\* container a newer start has brought up, although it holds no opMu.
OnlyPresentGenerationWatched ==
    \A g \in Gens : Watching(g) => g = gen /\ done = g

\* No two requests are inside the part of ContainerStart, ContainerKill or
\* ContainerRemove that opMu is to serialise, and none of them is there
\* without it.
LifecycleSerialised ==
    \A c \in Clients :
        (InStart(c) \/ pc[c] \in {"killing", "rmfinish"}) <=> opMu = c

\* The state machine drawn at the top of container.go, as the daemon's memory
\* goes through it while the daemon lives: only a start leaves Created or
\* Stopped, only the end of the container leaves Running, nothing returns to
\* Created.
StateMachine ==
    [][up = "up" /\ up' = "up" /\ st' # st =>
          \/ st' = "running" /\ \E c \in Clients : InStart(c)
          \/ st = "running" /\ st' = "stopped"
             /\ \E g \in Gens : Watching(g)]_vars

\* The abstract specification that ownership refines, in every interleaving of
\* requests, waiters, crashes and reconciles; while the daemon is away its memory
\* has no state to speak of.
CustodyState == IF up = "up" THEN st ELSE "unknown"
CustodyOwner ==
    IF up # "up" THEN "nobody"
    ELSE IF \E c \in Clients : InStart(c) THEN "start"
    ELSE IF \E g \in Gens : Watching(g) THEN "waiter"
    ELSE "nobody"

Custody == INSTANCE Custody
    WITH online <- (up = "up"), state <- CustodyState, owner <- CustodyOwner

\* Every step of the daemon takes, hands over or lays down the custody of the
\* container as Custody has it, or leaves it alone: no start takes a container
\* that another start or a waiter still answers for, no waiter but the one that
\* answers for it records its end, and New answers for exactly what it loads as
\* Running and finds alive (container.go, daemon.go).
ImplementsCustody == Custody!Spec

\* done closed, which is what a Stop, a Wait or a forced Remove returns on,
\* means that the container has really ended: init is gone, the rootfs is
\* unmounted, state.json no longer says Running, and the shim is released.
DoneMeansCleanedUp ==
    \A g \in closed \cap Gens :
        /\ init[g] # "running"
        /\ mounts = 0
        /\ disk # "running"
        /\ shim[g] # "up"

\* The shim goes away only after the daemon has recorded the container's end:
\* until then its exit code can still be asked for.
ShimOutlivesCleanup ==
    \A g \in Gens :
        shim[g] \in {"closing", "dead"} => mounts = 0 /\ disk # "running"

\* The daemon does not die of closing a done channel twice.
NoPanic == ~panicked

\* A container shown as Stopped has no process left (state diagram of
\* container.go: Running goes to Stopped by stop/die).
StoppedMeansExited ==
    up = "up" /\ st = "stopped" /\ (\A c \in Clients : ~InStart(c)) =>
        \A g \in Gens : init[g] # "running"

\* Only Stopped (or never started) containers are removed (state diagram of
\* container.go: remove leaves from Stopped).
RemoveSparesRunning ==
    [][registered /\ ~registered' => st # "running"]_vars

\* README: a container that is alive, shim and all, is managed by the daemon,
\* also by one that was restarted.
LiveIsManaged ==
    up = "up" /\ (\A c \in Clients : ~InStart(c)) =>
        \A g \in Gens : Dials(g) /\ init[g] = "running" => st = "running"

\* overlayfs.go: unmounting keeps the persistent layer.
LayerKept == overlay => ~wiped

\* A Stop that reached the shim returns, to its client or to the forced Remove
\* it is part of: through the answer of the shim, the field it reads the channel
\* from and the waiter that closes this channel.  This is for one start: over two
\* the field may hold the channel of the newer one by then.
StopReturns ==
    \A c \in Clients : pc[c] = "stopping" ~> pc[c] \in {"idle", "rmdir"}

\* The end of the container's init reaches the daemon's state.
ExitRecorded ==
    \A g \in Gens : (Watching(g) /\ init[g] = "exited") ~> ~Watching(g)

\* After the end of init the shim does not stay behind.
ShimReaped == \A g \in Gens : init[g] = "exited" ~> shim[g] = "dead"

\* A Running left on disk by a container that has ended is corrected, be it
\* by the waiter or, after a crash, by the reconcile of the next daemon.
DeadIsNotRunningOnDisk ==
    (disk = "running" /\ \A g \in Gens : init[g] # "running")
        ~> disk # "running"
=============================================================================
