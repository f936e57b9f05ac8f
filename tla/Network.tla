------------------------------- MODULE Network -------------------------------
(***************************************************************************)
(* One network of the daemon: Create and Delete by administrators, Connect *)
(* and Disconnect by containers, all side by side (internal/network/       *)
(* controller.go, bridge.go, ip.go).  Shared are the network's record and  *)
(* the subnet's bitmap in the database, each read or written in one bbolt  *)
(* transaction, and the host's bridge and iptables.  The mutex covers only *)
(* allocateIP and releaseIP, which are single steps here (module IPAM has  *)
(* them in pieces).                                                        *)
(*                                                                         *)
(* An address is an offset of the subnet.                                  *)
(***************************************************************************)
EXTENDS SubnetBitmap

CONSTANTS
    Admins, Containers,
    Size,           \* addresses of the subnet
    Leaked,         \* offsets that earlier, failed operations left marked
    Faults,         \* operations with steps that may fail
    MaxOps,         \* bound: Creates, Deletes and Connects that begin
    MaxCrashes      \* bound: daemon crashes

ASSUME NetworkAssumption ==
    /\ Size \in Nat \ {0}
    /\ Leaked \subseteq 0 .. Size - 1
    /\ Faults \subseteq {"create", "delete", "connect"}
    /\ {MaxOps, MaxCrashes} \subseteq Nat
    /\ Admins \cap Containers = {} /\ IsFiniteSet(Admins)

None == 0                       \* no address
NoKey == [i \in {} |-> {}]      \* no bitmap in the database

VARIABLES
    record,     \* the network's record: its gateway, or None
    key,        \* the subnet's bitmap in the database
    addrs,      \* addresses of the bridge
    link,       \* the bridge: "none", "down", "up"
    snat,       \* masquerade rules of the subnet
    pc,         \* where each operation is
    nw,         \* the gateway in the record the operation has read
    ip,         \* the address it allocated; an attached container's
    cfg,        \* Config.IpAddress in memory, of the last Connect that succeeded
    disk,       \* what state.json says of each container
    doomed,     \* history: a Delete of the present record has begun
    overlap,    \* history: a Delete ran beside another operation
    stray,      \* history: a container released an address it did not hold
    ops, crashes

vars == <<record, key, addrs, link, snat, pc, nw, ip, cfg, disk, doomed, overlap,
          stray, ops, crashes>>

Actors == Admins \cup Containers
Deleting == {"delete", "unlink", "unrecord", "unkey"}
Address == 0 .. Size - 1
Saved == [running : BOOLEAN, ip : Address]

TypeOK ==
    /\ record \in Address
    /\ key \in Bitmaps(Size) \cup {NoKey}
    /\ addrs \subseteq Address
    /\ link \in {"none", "down", "up"}
    /\ snat \in 0 .. MaxOps
    /\ pc \in [Actors -> Deleting \cup {"idle", "allocate", "bridge", "addr",
                 "up", "snat", "put", "veth", "config", "attached",
                 "running", "detach", "release", "leave", "settle"}]
    /\ {nw, ip} \subseteq [Actors -> Address]
    /\ cfg \in [Containers -> Address] /\ disk \in [Containers -> Saved]
    /\ {doomed, overlap, stray} \subseteq BOOLEAN
    /\ ops \in 0 .. MaxOps /\ crashes \in 0 .. MaxCrashes

Init ==
    /\ record = None
    /\ \/ key = NoKey
       \/ key = [i \in Indices(Size) |->
                    NewBitmap(Size)[i] \cup {o % W : o \in {l \in Leaked : l \div W = i}}]
    /\ addrs = {} /\ link = "none" /\ snat = 0
    /\ pc = [a \in Actors |-> "idle"]
    /\ nw = [a \in Actors |-> None] /\ ip = nw
    /\ cfg = [c \in Containers |-> None]
    /\ disk = [c \in Containers |-> [running |-> FALSE, ip |-> None]]
    /\ doomed = FALSE /\ overlap = FALSE /\ stray = FALSE /\ ops = 0 /\ crashes = 0

Step(a, from, to) == pc[a] = from /\ pc' = [pc EXCEPT ![a] = to]
host == <<addrs, link, snat>>
db == <<record, key>>
config == <<cfg, disk>>
history == <<doomed, overlap, stray, ops, crashes>>

\* Get read the record; what begins while a Delete runs, or is a Delete that
\* begins while something else does, overlaps it.
Begin(a, to, delete) ==
    /\ ops < MaxOps /\ ops' = ops + 1
    /\ Step(a, "idle", to)
    /\ overlap' = (overlap \/ \E b \in Actors \ {a} :
                                pc[b] \in Deleting \/ (delete /\ pc[b] # "idle"))
    /\ UNCHANGED <<db, host, config, stray, crashes>>

Forget(a) == ip' = [ip EXCEPT ![a] = None]

-----------------------------------------------------------------------------
(* allocateIP and releaseIP.                                               *)

\* loadBitmap: a new bitmap if the database has none.
Loaded == IF key = NoKey THEN NewBitmap(Size) ELSE key

Allocated(a, to, exhausted) ==
    LET o == AllocateNext(Loaded, Size)
    IN  IF o = None
        THEN Step(a, "allocate", exhausted) /\ UNCHANGED <<key, ip>>
        ELSE /\ Step(a, "allocate", to)
             /\ ip' = [ip EXCEPT ![a] = o]
             /\ key' = SetBit(Loaded, o)

-----------------------------------------------------------------------------
(* Controller.Create and the bridge driver.                                *)

CreateBegin(a) ==
    /\ record = None
    /\ Begin(a, "allocate", FALSE)
    /\ UNCHANGED <<nw, ip, doomed>>

CreateAllocate(a) ==
    /\ Allocated(a, "bridge", "idle")
    /\ UNCHANGED <<record, host, nw, config, history>>

\* Mutant: a bridge of that name is replaced.
CreateBridgeAnew(a) ==
    /\ Step(a, "bridge", "addr")
    /\ link' = "down" /\ addrs' = {}
    /\ UNCHANGED <<db, snat, nw, ip, config, history>>

\* Mutant: the record is written before the bridge is made.
PutFirst(a) ==
    /\ Step(a, "bridge", "addr")
    /\ record' = ip[a] /\ doomed' = FALSE
    /\ link' = IF link = "none" THEN "down" ELSE link
    /\ UNCHANGED <<key, addrs, snat, nw, ip, config, overlap, stray, ops, crashes>>

\* createBridge: one that exists will do.
CreateBridge(a) ==
    /\ Step(a, "bridge", "addr")
    /\ link' = IF link = "none" THEN "down" ELSE link
    /\ UNCHANGED <<db, addrs, snat, nw, ip, config, history>>

CreateAddr(a) ==
    /\ Step(a, "addr", IF link = "none" THEN "idle" ELSE "up")
    /\ addrs' = IF link = "none" THEN addrs ELSE addrs \cup {ip[a]}
    /\ UNCHANGED <<db, link, snat, nw, ip, config, history>>

CreateUp(a) ==
    /\ Step(a, "up", IF link = "none" THEN "idle" ELSE "snat")
    /\ link' = IF link = "none" THEN "none" ELSE "up"
    /\ UNCHANGED <<db, addrs, snat, nw, ip, config, history>>

CreateSnat(a) ==
    /\ Step(a, "snat", "put")
    /\ snat' = snat + 1
    /\ UNCHANGED <<db, addrs, link, nw, ip, config, history>>

CreatePut(a) ==
    /\ Step(a, "put", "idle")
    /\ record' = ip[a] /\ doomed' = FALSE /\ Forget(a)
    /\ UNCHANGED <<key, host, nw, config, overlap, stray, ops, crashes>>

\* Mutant: a failed Create gives the gateway's address back.
CreateFailsReleasing(a) ==
    /\ "create" \in Faults
    /\ pc[a] \in {"bridge", "addr", "up", "snat", "put"}
    /\ pc' = [pc EXCEPT ![a] = "idle"]
    /\ key' = ClearBit(Loaded, ip[a]) /\ Forget(a)
    /\ UNCHANGED <<record, host, nw, config, history>>

\* Any step may fail; what was done is left, the address marked.
CreateFails(a) ==
    /\ "create" \in Faults
    /\ pc[a] \in {"bridge", "addr", "up", "snat", "put"}
    /\ pc' = [pc EXCEPT ![a] = "idle"] /\ Forget(a)
    /\ UNCHANGED <<db, host, nw, config, history>>

Create(a) ==
    \/ CreateBegin(a) \/ CreateAllocate(a) \/ CreateBridge(a) \/ CreateAddr(a)
    \/ CreateUp(a) \/ CreateSnat(a) \/ CreatePut(a) \/ CreateFails(a)

-----------------------------------------------------------------------------
(* Controller.Delete.                                                      *)

DeleteBegin(a) ==
    /\ record # None
    /\ Begin(a, "delete", TRUE)
    /\ doomed' = TRUE
    /\ UNCHANGED <<nw, ip>>

\* LinkByName and DeleteSNATIptables, each an error when there is none.
DeleteSnat(a) ==
    /\ \/ link # "none" /\ snat > 0 /\ Step(a, "delete", "unlink") /\ snat' = snat - 1
       \/ /\ link = "none" \/ snat = 0 \/ "delete" \in Faults
          /\ Step(a, "delete", "idle") /\ UNCHANGED snat
    /\ UNCHANGED <<db, addrs, link, nw, ip, config, history>>

DeleteLink(a) ==
    /\ \/ link # "none" /\ Step(a, "unlink", "unrecord") /\ link' = "none" /\ addrs' = {}
       \/ /\ link = "none" \/ "delete" \in Faults
          /\ Step(a, "unlink", "idle") /\ UNCHANGED <<link, addrs>>
    /\ UNCHANGED <<db, snat, nw, ip, config, history>>

DeleteRecord(a) ==
    /\ Step(a, "unrecord", "unkey")
    /\ record' = None
    /\ UNCHANGED <<key, host, nw, ip, config, history>>

DeleteKey(a) ==
    /\ Step(a, "unkey", "idle")
    /\ key' = NoKey
    /\ UNCHANGED <<record, host, nw, ip, config, history>>

Delete(a) == DeleteBegin(a) \/ DeleteSnat(a) \/ DeleteLink(a) \/ DeleteRecord(a)
             \/ DeleteKey(a)

-----------------------------------------------------------------------------
(* Controller.Connect and Disconnect, with what calls them in the daemon.   *)

ConnectBegin(c) ==
    /\ record # None
    /\ Begin(c, "allocate", FALSE)
    /\ nw' = [nw EXCEPT ![c] = record]
    /\ UNCHANGED <<ip, doomed>>

\* A start that fails before it connects is rolled back like any other.
PrepareFails(c) ==
    /\ "connect" \in Faults
    /\ Begin(c, "detach", FALSE)
    /\ UNCHANGED <<nw, ip, doomed>>

ConnectAllocate(c) ==
    /\ Allocated(c, "veth", "detach")
    /\ UNCHANGED <<record, host, nw, config, history>>

\* driver.Connect on the bridge; then configEndpointNetwork in the namespace.
\* The address of a Connect that fails is forgotten.
ConnectVeth(c) ==
    /\ \/ link # "none" /\ Step(c, "veth", "config") /\ UNCHANGED ip
       \/ /\ link = "none" \/ "connect" \in Faults
          /\ Step(c, "veth", "detach") /\ Forget(c)
    /\ UNCHANGED <<db, host, nw, config, history>>

\* Connect has returned: Config.IpAddress is set.
ConnectConfig(c) ==
    /\ \/ /\ Step(c, "config", "attached")
          /\ cfg' = [cfg EXCEPT ![c] = ip[c]] /\ UNCHANGED ip
       \/ /\ "connect" \in Faults
          /\ Step(c, "config", "detach") /\ Forget(c) /\ UNCHANGED cfg
    /\ UNCHANGED <<db, host, nw, disk, history>>

\* WriteContainerConfig, whose error is logged; a file it leaves torn is one
\* without an address (module Store has those).
Write(c, running) ==
    \/ disk' = [disk EXCEPT ![c] = [running |-> running, ip |-> cfg[c]]]
    \/ "connect" \in Faults /\ UNCHANGED disk

\* The rest of the start: the shim, Running, the write.
Persist(c) ==
    /\ Step(c, "attached", "running")
    /\ Write(c, TRUE)
    /\ UNCHANGED <<db, host, nw, ip, cfg, history>>

\* teardownRuntime: of a start that failed, and of a container that ended.
\* Disconnect begins with Get; of a network that is gone nothing is released.
DisconnectBegin(c) ==
    /\ \/ \E from \in {"attached", "detach"} :
             Step(c, from, IF record = None THEN "idle" ELSE "release")
       \/ Step(c, "running", IF record = None THEN "settle" ELSE "leave")
    /\ ip' = IF record = None THEN [ip EXCEPT ![c] = None] ELSE ip
    /\ UNCHANGED <<db, host, nw, config, history>>

\* The veth is deleted, releaseIP.  The address is Config.IpAddress: that of an
\* earlier run if this one's Connect has not returned, or a crash came between;
\* "" is no address and an error.
DisconnectRelease(c) ==
    /\ Step(c, "release", "idle") \/ Step(c, "leave", "settle")
    /\ key' = IF cfg[c] = None THEN key ELSE ClearBit(Loaded, cfg[c])
    /\ stray' = (stray \/ cfg[c] \notin {None, ip[c]})
    /\ Forget(c)
    /\ UNCHANGED <<record, host, nw, config, doomed, overlap, ops, crashes>>

\* cleanupContainer's mark and write of Stopped.  A write that comes late is, to
\* a restart before it, one that failed (module IPAM has it apart).
Settle(c) ==
    /\ Step(c, "settle", "idle")
    /\ Write(c, FALSE)
    /\ UNCHANGED <<db, host, nw, ip, cfg, history>>

Endpoint(c) ==
    \/ ConnectBegin(c) \/ PrepareFails(c) \/ ConnectAllocate(c) \/ ConnectVeth(c)
    \/ ConnectConfig(c) \/ Persist(c) \/ DisconnectBegin(c) \/ DisconnectRelease(c)
    \/ Settle(c)

-----------------------------------------------------------------------------
\* The daemon dies: operations stop where they are.  A container whose state.json
\* says Running is watched again or cleaned up, with the address it finds there;
\* it may have another by now, or none.  Any other is not started.
Crash ==
    LET found == {c \in Containers : disk[c].running}
        kept  == {c \in found : pc[c] \in {"attached", "running", "release", "leave"}}
    IN
    /\ crashes < MaxCrashes /\ crashes' = crashes + 1
    /\ pc' = [a \in Actors |-> IF a \in found THEN "running" ELSE "idle"]
    /\ ip' = [a \in Actors |-> IF a \in kept THEN ip[a] ELSE None]
    /\ nw' = [a \in Actors |-> IF a \in kept THEN nw[a] ELSE None]
    /\ cfg' = [c \in Containers |-> disk[c].ip]
    /\ UNCHANGED <<db, host, disk, doomed, overlap, stray, ops>>

Next ==
    \/ \E a \in Admins : Create(a) \/ Delete(a)
    \/ \E c \in Containers : Endpoint(c)
    \/ Crash

Spec == Init /\ [][Next]_vars

-----------------------------------------------------------------------------
(* Properties.  The first three speak of behaviours in which no Delete     *)
(* overlapped another operation or an attached container: the daemon does  *)
(* not prevent that, and they are false then.                              *)

\* A record stands for a network that works, whatever Creates ran side by side
\* or failed half-way before: bridge, gateway address and masquerade rule.
RecordedMeansBuilt ==
    record # None /\ ~doomed /\ ~overlap =>
        link = "up" /\ record \in addrs /\ snat > 0

\* Every address the bridge answers for stays reserved, those of failed and of
\* overtaken Creates included, until a container releases an address it does not
\* hold; no container gets one.
BridgeAddressesReserved == ~overlap /\ ~stray => \A o \in addrs : Has(Loaded, o)

\* The default route of a connected container leads to an address of the
\* bridge, also when a second Create has changed the record since.
GatewayReachable ==
    ~overlap => \A c \in Containers :
        pc[c] \in {"config", "attached", "running"} /\ ip[c] # None => nw[c] \in addrs

\* The address handed out is the lowest one that is not marked: the scan over
\* words agrees with the set they stand for.
LeastFreeAllocated ==
    [][\A a \in Actors :
         pc[a] = "allocate" /\ pc'[a] \in {"bridge", "veth"} =>
            LET free == (0 .. Size - 1) \ Marked(Loaded, Size)
            IN  ip'[a] \in free /\ \A o \in free : ip'[a] <= o]_vars
=============================================================================
