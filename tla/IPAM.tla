-------------------------------- MODULE IPAM ---------------------------------
(***************************************************************************)
(* Addresses of the containers on one network: what ContainerStart's       *)
(* prepareRuntime and the cleanup's teardownRuntime (internal/daemon/      *)
(* container.go) do through Connect and Disconnect (internal/network/      *)
(* controller.go) to the subnet's bitmap in the database (ip.go), to the   *)
(* container's veth, and to Config.IpAddress in memory and on disk.        *)
(*                                                                         *)
(* Per container only the steps that touch its address are kept, in the    *)
(* order module Lifecycle has them; containers run side by side, each      *)
(* serialised by its own opMu, all sharing the controller's mutex.         *)
(***************************************************************************)
EXTENDS Naturals, FiniteSetsExt

CONSTANTS
    Containers,
    Hosts,          \* addresses of the subnet that the bitmap can hand out
    Faults,         \* which steps may fail
    MaxStarts,      \* bound: starts of containers in a behaviour
    MaxCrashes,     \* bound: daemon crashes in a behaviour
    NoOne,          \* the controller's mutex is free
    Torn,           \* a state.json that does not parse
    Nothing, Marked \* a waiter with nothing to write; one that has marked

ASSUME IPAMAssumption ==
    /\ Hosts \subseteq Nat \ {0}
    /\ IsFiniteSet(Hosts)
    /\ Faults \subseteq {"prepare", "db", "link", "shim", "persist", "wait", "unlink"}
    /\ {MaxStarts, MaxCrashes} \subseteq Nat
    /\ NoOne \notin Containers

None == 0           \* no address: "" in the configuration
Address == Hosts \cup {None}
Saved == [running : BOOLEAN, ip : Address]

\* A configuration is told from a file that is none, and from no configuration.
ASSUME SavedAssumption == Nothing # Marked /\ {Torn, Nothing, Marked} \cap Saved = {}

VARIABLES
    bitmap,         \* the addresses marked in the database
    mu,             \* who holds Controller.mu
    loaded,         \* the bitmap its holder has read
    veth,           \* containers whose veth pair exists
    addr,           \* the address configured in each container's netns
    new,            \* the address Connect has allocated, until it returns
    cfgIp,          \* Config.IpAddress in memory
    running,        \* containers that are Running in memory
    disk,           \* state.json: what is Saved of each container, or Torn
    draft,          \* what the waiter has yet to write of a run that ended
    alive,          \* containers whose init runs
    pc,             \* where the container's start or cleanup is
    sound,          \* history: no start was rolled back, no Disconnect failed
                    \* and the daemon has not crashed
    behind,         \* history: containers connected anew while their state.json
                    \* still said Running of an earlier run, until it is written
    starts, crashes

network == <<bitmap, mu, loaded, veth>>
bounds == <<starts, crashes>>
records == <<running, disk, draft, behind>>
vars == <<network, addr, new, cfgIp, records, alive, pc, sound, bounds>>

PCs == {"idle", "connect", "allocating", "link", "connected", "persist",
        "running", "unlink", "release", "releasing", "settle", "gone"}

TypeOK ==
    /\ bitmap \subseteq Hosts
    /\ loaded \subseteq Hosts
    /\ mu \in Containers \cup {NoOne}
    /\ veth \subseteq Containers
    /\ {addr, new, cfgIp} \subseteq [Containers -> Address]
    /\ running \subseteq Containers /\ behind \subseteq Containers
    /\ disk \in [Containers -> Saved \cup {Torn}]
    /\ draft \in [Containers -> Saved \cup {Nothing, Marked}]
    /\ alive \subseteq Containers
    /\ pc \in [Containers -> PCs]
    /\ starts \in 0 .. MaxStarts /\ crashes \in 0 .. MaxCrashes /\ sound \in BOOLEAN

Init ==
    /\ bitmap = {} /\ mu = NoOne /\ loaded = {}
    /\ veth = {}
    /\ addr = [c \in Containers |-> None]
    /\ new = addr /\ cfgIp = addr
    /\ running = {} /\ alive = {} /\ behind = {}
    /\ disk = [c \in Containers |-> [running |-> FALSE, ip |-> None]]
    /\ draft = [c \in Containers |-> Nothing]
    /\ pc = [c \in Containers |-> "idle"]
    /\ starts = 0 /\ crashes = 0 /\ sound = TRUE

Step(c, from, to) == pc[c] = from /\ pc' = [pc EXCEPT ![c] = to]
May(f) == f \in Faults

OnDisk(c) == disk[c] # Torn /\ disk[c].running
Config(c) == [running |-> c \in running, ip |-> cfgIp[c]]

\* WriteContainerConfig of one configuration: a write that fails leaves the file
\* as it was, or truncated.  The callers log the error and go on.
Write(c, config) ==
    \/ disk' = [disk EXCEPT ![c] = config] /\ behind' = behind \ {c}
    \/ May("persist") /\ disk' \in {disk, [disk EXCEPT ![c] = Torn]}
                      /\ UNCHANGED behind

-----------------------------------------------------------------------------
(* ContainerStart.                                                         *)

\* prepareRuntime up to Connect: a failed overlay mount or netns creation is
\* rolled back by teardownRuntime.
Prepare(c) ==
    /\ starts < MaxStarts /\ starts' = starts + 1
    /\ \/ Step(c, "idle", "connect")
       \/ May("prepare") /\ Step(c, "idle", "unlink")
    /\ UNCHANGED <<network, addr, new, cfgIp, records, alive, crashes>>

\* Mutant: the bitmap is read without the mutex.
LoadUnlocked(c) ==
    /\ \/ Step(c, "connect", "allocating") \/ Step(c, "release", "releasing")
    /\ mu' = c
    /\ loaded' = bitmap
    /\ UNCHANGED <<bitmap, veth, addr, new, cfgIp, records, alive, bounds>>

\* allocateIP and releaseIP: lock, read the bitmap from the database.
Load(c) ==
    /\ \/ Step(c, "connect", "allocating") \/ Step(c, "release", "releasing")
    /\ mu = NoOne /\ mu' = c
    /\ loaded' = bitmap
    /\ UNCHANGED <<bitmap, veth, addr, new, cfgIp, records, alive, bounds>>

\* The record of the network or the bitmap cannot be read or does not parse, or
\* the bitmap cannot be saved: nothing is allocated and Connect fails, or nothing
\* is released and Disconnect fails, with the veth already deleted.  What the
\* mutex was held for changes nothing, so that the two calls are one step here.
DatabaseFails(c) ==
    /\ May("db")
    /\ Step(c, "connect", "unlink") \/ Step(c, "release", "settle")
    /\ UNCHANGED <<network, addr, new, cfgIp, records, alive, bounds>>

\* AllocateNext takes the lowest free address; save, unlock.  An exhausted
\* subnet is an error, rolled back.
Allocate(c) ==
    /\ LET free == Hosts \ loaded
       IN  \/ /\ free # {}
              /\ new' = [new EXCEPT ![c] = Min(free)]
              /\ bitmap' = loaded \cup {Min(free)}
              /\ Step(c, "allocating", "link")
           \/ /\ free = {}
              /\ Step(c, "allocating", "unlink")
              /\ UNCHANGED <<new, bitmap>>
    /\ mu' = NoOne /\ loaded' = {}
    /\ UNCHANGED <<veth, addr, cfgIp, records, alive, bounds>>

\* driver.Connect and configEndpointNetwork; LinkAdd fails on a veth that is
\* still there, any later step may fail with the veth left behind.  The
\* address reaches Config.IpAddress only when all of Connect succeeded.
Link(c) ==
    /\ \/ /\ c \notin veth
          /\ Step(c, "link", "connected")
          /\ addr' = [addr EXCEPT ![c] = new[c]]
          /\ cfgIp' = [cfgIp EXCEPT ![c] = new[c]]
          /\ veth' = veth \cup {c}
          /\ behind' = behind \cup {d \in {c} : OnDisk(d)}
       \/ /\ c \in veth \/ May("link")
          /\ Step(c, "link", "unlink")
          /\ veth' \in {veth, veth \cup {c}}
          /\ UNCHANGED <<addr, cfgIp, behind>>
    /\ new' = [new EXCEPT ![c] = None]
    /\ UNCHANGED <<bitmap, mu, loaded, running, disk, draft, alive, bounds>>

\* writeContainerSpec and startShim; after READY the state is Running.
Launch(c) ==
    /\ \/ /\ Step(c, "connected", "persist")
          /\ alive' = alive \cup {c} /\ running' = running \cup {c}
       \/ May("shim") /\ Step(c, "connected", "unlink") /\ UNCHANGED <<alive, running>>
    /\ UNCHANGED <<network, addr, new, cfgIp, disk, draft, behind, bounds>>

\* Mutant: the address is missing from what is written.
PersistWithoutIp(c) ==
    /\ Step(c, "persist", "running")
    /\ Write(c, [Config(c) EXCEPT !.ip = None])
    /\ UNCHANGED <<network, addr, new, cfgIp, running, draft, alive, bounds>>

Persist(c) ==
    /\ Step(c, "persist", "running")
    /\ Write(c, Config(c))
    /\ UNCHANGED <<network, addr, new, cfgIp, running, draft, alive, bounds>>

-----------------------------------------------------------------------------
(* The end of the container and teardownRuntime.                           *)

InitExit(c) ==
    /\ c \in alive
    /\ alive' = alive \ {c}
    /\ UNCHANGED <<network, addr, new, cfgIp, records, pc, bounds>>

\* The waiter learns of it and begins the cleanup; so it does when Wait ends in
\* an error, and New when the shim does not answer, though init may be alive.
Exited(c) ==
    /\ c \notin alive \/ May("wait")
    /\ Step(c, "running", "unlink")
    /\ UNCHANGED <<network, addr, new, cfgIp, records, alive, bounds>>

\* Mutant: the address is given back before the link is gone.
ReleaseFirst(c) ==
    /\ Step(c, "unlink", "release")
    /\ bitmap' = bitmap \ {cfgIp[c]}
    /\ UNCHANGED <<mu, loaded, veth, addr, new, cfgIp, records, alive, bounds>>

\* Disconnect deletes the veth, if any, and with it the address.  When that
\* fails it returns without a release, and RemoveNetns, which comes next, may
\* or may not take the veth with the namespace.
Unlink(c) ==
    /\ \/ Step(c, "unlink", "release") /\ veth' = veth \ {c}
       \/ May("unlink") /\ Step(c, "unlink", "settle")
                        /\ veth' \in {veth, veth \ {c}}
    /\ addr' = [addr EXCEPT ![c] = IF c \in veth' THEN @ ELSE None]
    /\ UNCHANGED <<bitmap, mu, loaded, new, cfgIp, records, alive, bounds>>

\* Mutant: the bitmap is not saved.
ReleaseUnsaved(c) ==
    /\ Step(c, "releasing", "settle")
    /\ mu' = NoOne /\ loaded' = {}
    /\ UNCHANGED <<bitmap, veth, addr, new, cfgIp, records, alive, bounds>>

\* releaseIP clears the bit of Config.IpAddress, whoever owns it by now; ""
\* is an error, only logged.
Release(c) ==
    /\ Step(c, "releasing", "settle")
    /\ bitmap' = loaded \ {cfgIp[c]}
    /\ mu' = NoOne /\ loaded' = {}
    /\ UNCHANGED <<veth, addr, new, cfgIp, records, alive, bounds>>

\* cleanupContainer marks the container Stopped under d.mu, and the next start
\* may begin; a rollback marks nothing.  A waiter is told from the last one only
\* once that one has written (bound).
Settle(c) ==
    /\ Step(c, "settle", "idle")
    /\ c \in running => draft[c] = Nothing
    /\ draft' = [draft EXCEPT ![c] = IF c \in running THEN Marked ELSE @]
    /\ running' = running \ {c}
    /\ UNCHANGED <<network, addr, new, cfgIp, disk, behind, alive, bounds>>

\* WriteContainerConfig, without a lock: the configuration is marshalled as it
\* is by now, then written.
WaiterMarshal(c) ==
    /\ draft[c] = Marked
    /\ draft' = [draft EXCEPT ![c] = Config(c)]
    /\ UNCHANGED <<network, addr, new, cfgIp, running, disk, behind, alive, pc,
                   bounds>>

WaiterWrite(c) ==
    /\ draft[c] \in Saved
    /\ Write(c, draft[c])
    /\ draft' = [draft EXCEPT ![c] = Nothing]
    /\ UNCHANGED <<network, addr, new, cfgIp, running, alive, pc, bounds>>

-----------------------------------------------------------------------------
(* The daemon dies, possibly in the middle of writing some files, and is   *)
(* started again: every configuration that parses is read back, and a      *)
(* container whose state.json says Running is watched again or, if its     *)
(* shim does not answer, cleaned up.  The host keeps the links.            *)

Writing == {c \in Containers : pc[c] = "persist" \/ draft[c] \in Saved}

Crash ==
    /\ crashes < MaxCrashes
    /\ crashes' = crashes + 1
    /\ \E cut \in SUBSET Writing :
          disk' = [c \in Containers |-> IF c \in cut THEN Torn ELSE disk[c]]
    /\ running' = {c \in Containers : disk'[c] # Torn /\ disk'[c].running}
    /\ pc' = [c \in Containers |-> IF disk'[c] = Torn THEN "gone"
                                   ELSE IF c \in running' THEN "running" ELSE "idle"]
    /\ cfgIp' = [c \in Containers |-> IF disk'[c] = Torn THEN None ELSE disk'[c].ip]
    /\ draft' = [c \in Containers |-> Nothing]
    /\ mu' = NoOne /\ loaded' = {}
    /\ new' = [c \in Containers |-> None]
    /\ UNCHANGED <<bitmap, veth, addr, behind, alive, starts>>

-----------------------------------------------------------------------------
Moved(from, to) == \E c \in Containers : pc[c] \in from /\ pc'[c] = to

Next ==
    /\ \/ \E c \in Containers :
             \/ Prepare(c) \/ Load(c) \/ DatabaseFails(c) \/ Allocate(c) \/ Link(c)
             \/ Launch(c) \/ Persist(c) \/ InitExit(c) \/ Exited(c) \/ Unlink(c)
             \/ Release(c) \/ Settle(c) \/ WaiterMarshal(c) \/ WaiterWrite(c)
       \/ Crash
    /\ sound' = (/\ sound /\ crashes' = crashes
                 /\ ~Moved({"idle", "connect", "allocating", "link", "connected"},
                           "unlink")
                 /\ ~Moved({"unlink", "release"}, "settle"))

Spec == Init /\ [][Next]_vars

-----------------------------------------------------------------------------
(* Properties.                                                             *)

\* No two containers have the same address on the bridge, as long as what was
\* connected is what is disconnected: a rolled back start of a container that
\* ran before, and a crash, release an address that may be another's by now.
NoSharedAddress ==
    sound => \A c, d \in Containers :
        addr[c] = addr[d] /\ addr[c] # None => c = d

\* An address a container uses, or is about to, is marked in the database;
\* concurrent starts and cleanups lose none of each other's updates.
UsedIsMarked ==
    sound => \A c \in Containers : {addr[c], new[c]} \subseteq bitmap \cup {None}

\* Nothing stays marked for a container that is down: the subnet does not
\* leak away.
MarkedIsUsed ==
    sound /\ (\A c \in Containers : pc[c] \in {"idle", "running"}) =>
        bitmap = {addr[c] : c \in Containers} \ {None}

\* Whatever crash and reconcile came between, the daemon knows the address of a
\* container that it watches, as long as that is on the network: it was written
\* after the one of any earlier run.  The exception is a container that was
\* connected anew while its state.json still said Running, because the Stopped of
\* the run before was not written, or not yet, and whose own Running has not been
\* written since.
WatchedAddressKnown ==
    \A c \in Containers \ behind :
        pc[c] = "running" => addr[c] \in {None, cfgIp[c]}
=============================================================================
