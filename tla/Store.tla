-------------------------------- MODULE Store --------------------------------
(***************************************************************************)
(* The containers of a host: what the daemon's map holds, what state.json  *)
(* of each container says, the layers and the image they are made from     *)
(* (internal/container/store.go, ContainerCreate, the writes of the other  *)
(* operations and New in internal/daemon, internal/filesys/overlayfs.go).  *)
(* Creates run side by side without a common lock.  Of the containers'     *)
(* lives only what touches the store is here; Lifecycle has the rest.      *)
(*                                                                         *)
(* state.json is rewritten in place: opened with O_TRUNC, then written.    *)
(* Either may fail; a Create gives up then, a Start and a waiter go on.     *)
(***************************************************************************)
EXTENDS Naturals, FiniteSets

CONSTANTS
    Ids,            \* what generateRandomContainerID may return
    Names,
    Folded,         \* the name without its case
    Absent, Torn,   \* model values: no file; a file that is not JSON
    MaxStarts,      \* bound: starts of containers
    MaxCrashes      \* bound: daemon crashes

ASSUME StoreAssumption ==
    /\ Folded \in [Names -> Names]
    /\ {MaxStarts, MaxCrashes} \subseteq Nat

VARIABLES
    dir,        \* state.json of each container
    layer,      \* containers with upper and work directories
    image,      \* the unpacked image: "none", "partial", "complete"
    mem,        \* keys of Daemon.containers
    config,     \* the Config of each container
    pc,         \* where its Create, or the holder of its opMu, is
    waiter,     \* where its waiter goroutine is
    draft,      \* what the waiter has marshalled
    overlooked, \* history: containers of its name that a Create's lookup passed
                \* over, not having read their state.json
    late,       \* history: containers started or removed while the waiter of
                \* their last run had not yet written
    unsaved,    \* history: containers whose last write or removal failed
    starts, crashes

vars == <<dir, layer, image, mem, config, pc, waiter, draft, overlooked, late,
          unsaved, starts, crashes>>

Configs == [name : Names, state : {"Created", "Running", "Stopped"}]
Creating == {"image", "extract", "layer", "open", "write"}

\* A state.json that is missing or torn is told from one that parses.
ASSUME FilesAssumption == Absent # Torn /\ {Absent, Torn} \cap Configs = {}

TypeOK ==
    /\ dir \in [Ids -> Configs \cup {Absent, Torn}]
    /\ {layer, mem, late, unsaved} \subseteq SUBSET Ids
    /\ image \in {"none", "partial", "complete"}
    /\ config \in [Ids -> Configs \cup {Absent}]
    /\ pc \in [Ids -> Creating \cup {"new", "cache", "ready", "persist", "launch",
                         "remove", "unlayer", "forget", "gone", "failed"}]
    /\ waiter \in [Ids -> {"none", "watch", "marked", "write"}]
    /\ draft \in [Ids -> Configs \cup {Absent}]
    /\ overlooked \in [Ids -> SUBSET Ids]
    /\ starts \in 0 .. MaxStarts /\ crashes \in 0 .. MaxCrashes

Init ==
    /\ dir = [i \in Ids |-> Absent] /\ config = dir /\ draft = dir
    /\ layer = {} /\ image = "none" /\ mem = {}
    /\ pc = [i \in Ids |-> "new"] /\ waiter = [i \in Ids |-> "none"]
    /\ overlooked = [i \in Ids |-> {}] /\ late = {} /\ unsaved = {}
    /\ starts = 0 /\ crashes = 0

Step(i, from, to) == pc[i] = from /\ pc' = [pc EXCEPT ![i] = to]
files == <<dir, layer, image>>
bounds == <<starts, crashes>>
marks == <<overlooked, late, unsaved>>

\* The files that parse.
Parsed == {i \in Ids : dir[i] \notin {Absent, Torn}}

\* Mutant: names are compared with ==.
EqualExactly(m, n) == m = n

EqualFold(m, n) == Folded[m] = Folded[n]

-----------------------------------------------------------------------------
(* ContainerCreate. *)

\* Who has the name of config[i]: from the lookup until nothing of the container
\* is left, its file included, which a late waiter may write again.
Bears(i, n) ==
    /\ config[i] # Absent /\ Folded[config[i].name] = Folded[n]
    /\ \/ pc[i] \notin {"forget", "gone", "failed"}
       \/ i \in Parsed \/ waiter[i] # "none"

\* readAllContainerConfigs skips what cannot be read or parsed.
CreateCheck(i) ==
    \E n \in Names, read \in SUBSET Parsed :
        /\ \A j \in read : ~EqualFold(dir[j].name, n)
        /\ Step(i, "new", "image")
        /\ config' = [config EXCEPT ![i] = [name |-> n, state |-> "Created"]]
        /\ overlooked' = [overlooked EXCEPT ![i] = {j \in Ids \ read : Bears(j, n)}]
        /\ UNCHANGED <<files, mem, waiter, draft, late, unsaved, bounds>>

\* A directory of the image is taken for the image, also when another Create
\* is still unpacking it or has failed to.
CreateImage(i) ==
    /\ Step(i, "image", IF image = "none" THEN "extract" ELSE "layer")
    /\ image' = IF image = "none" THEN "partial" ELSE image
    /\ UNCHANGED <<dir, layer, mem, config, waiter, draft, marks, bounds>>

CreateExtract(i) ==
    /\ \/ Step(i, "extract", "layer") /\ image' = "complete"
       \/ Step(i, "extract", "failed") /\ UNCHANGED image
    /\ UNCHANGED <<dir, layer, mem, config, waiter, draft, marks, bounds>>

CreateLayer(i) ==
    /\ \/ Step(i, "layer", "open") /\ layer' = layer \cup {i}
       \/ Step(i, "layer", "failed") /\ layer' \in {layer, layer \cup {i}}
    /\ UNCHANGED <<dir, image, mem, config, waiter, draft, marks, bounds>>

CreateOpen(i) ==
    /\ \/ Step(i, "open", "write") /\ dir' = [dir EXCEPT ![i] = Torn]
       \/ Step(i, "open", "failed") /\ UNCHANGED dir
    /\ UNCHANGED <<layer, image, mem, config, waiter, draft, marks, bounds>>

CreateWrite(i) ==
    /\ \/ Step(i, "write", "cache") /\ dir' = [dir EXCEPT ![i] = config[i]]
       \/ Step(i, "write", "failed") /\ UNCHANGED dir
    /\ UNCHANGED <<layer, image, mem, config, waiter, draft, marks, bounds>>

CreateCache(i) ==
    /\ Step(i, "cache", "ready") /\ mem' = mem \cup {i}
    /\ UNCHANGED <<files, config, waiter, draft, marks, bounds>>

-----------------------------------------------------------------------------
(* What holds opMu: ContainerStart, then ContainerRemove. *)

Late(i) == late' = IF waiter[i] = "none" THEN late ELSE late \cup {i}

\* WriteContainerConfig: the directory or the file may not open, which leaves the
\* file as it is, and the write may fail, which leaves it torn.
Open(i, step, next) ==
    \/ step /\ dir' = [dir EXCEPT ![i] = Torn] /\ UNCHANGED unsaved
    \/ next /\ UNCHANGED dir /\ unsaved' = unsaved \cup {i}

Write(i, c) ==
    \/ dir' = [dir EXCEPT ![i] = c] /\ unsaved' = unsaved \ {i}
    \/ UNCHANGED dir /\ unsaved' = unsaved \cup {i}

Start(i) ==
    /\ starts < MaxStarts /\ starts' = starts + 1
    /\ config[i] # Absent /\ config[i].state # "Running"
    /\ Open(i, Step(i, "ready", "persist"), Step(i, "ready", "launch")) /\ Late(i)
    /\ config' = [config EXCEPT ![i].state = "Running"]
    /\ UNCHANGED <<layer, image, mem, waiter, draft, overlooked, crashes>>

\* The error is logged.
StartPersist(i) ==
    /\ Step(i, "persist", "launch") /\ Write(i, config[i])
    /\ UNCHANGED <<layer, image, mem, config, waiter, draft, overlooked, late, bounds>>

\* The new waiter is told apart from the last one only once that has written.
StartWatch(i) ==
    /\ Step(i, "launch", "ready")
    /\ waiter[i] = "none" /\ waiter' = [waiter EXCEPT ![i] = "watch"]
    /\ UNCHANGED <<files, mem, config, draft, marks, bounds>>

\* A Start between the check of the state and this is module Lifecycle's.
Remove(i) ==
    /\ Step(i, "ready", "remove") /\ config[i].state # "Running" /\ Late(i)
    /\ UNCHANGED <<files, mem, config, waiter, draft, overlooked, unsaved, bounds>>

\* A removal that fails leaves the container to the daemon, with its file or
\* without.
RemoveDir(i) ==
    /\ \/ /\ Step(i, "remove", "unlayer") /\ dir' = [dir EXCEPT ![i] = Absent]
          /\ unsaved' = unsaved \ {i}
       \/ /\ Step(i, "remove", "ready") /\ dir' \in {dir, [dir EXCEPT ![i] = Absent]}
          /\ unsaved' = unsaved \cup {i}
    /\ UNCHANGED <<layer, image, mem, config, waiter, draft, overlooked, late, bounds>>

\* An error is logged, and Remove goes on.
RemoveOverlayFS(i) ==
    /\ Step(i, "unlayer", "forget") /\ layer' \in {layer, layer \ {i}}
    /\ UNCHANGED <<dir, image, mem, config, waiter, draft, marks, bounds>>

RemoveFinish(i) ==
    /\ Step(i, "forget", "gone") /\ mem' = mem \ {i}
    /\ UNCHANGED <<files, config, waiter, draft, marks, bounds>>

-----------------------------------------------------------------------------
(* cleanupContainer, in the waiter: the state in memory, then, without opMu, *)
(* the file and its directory.                                               *)

WaiterMark(i) ==
    /\ waiter[i] = "watch" /\ waiter' = [waiter EXCEPT ![i] = "marked"]
    /\ config' = [config EXCEPT ![i].state = "Stopped"]
    /\ UNCHANGED <<files, mem, pc, draft, marks, bounds>>

WaiterOpen(i) ==
    /\ waiter[i] = "marked"
    /\ Open(i, /\ waiter' = [waiter EXCEPT ![i] = "write"]
               /\ draft' = [draft EXCEPT ![i] = config[i]],
               waiter' = [waiter EXCEPT ![i] = "none"] /\ UNCHANGED draft)
    /\ UNCHANGED <<layer, image, mem, config, pc, overlooked, late, bounds>>

\* A file whose directory was removed in between is written in vain.
WaiterWrite(i) ==
    /\ waiter[i] = "write" /\ waiter' = [waiter EXCEPT ![i] = "none"]
    /\ IF dir[i] = Absent THEN UNCHANGED <<dir, unsaved>> ELSE Write(i, draft[i])
    /\ draft' = [draft EXCEPT ![i] = Absent]
    /\ UNCHANGED <<layer, image, mem, config, pc, overlooked, late, bounds>>

-----------------------------------------------------------------------------
Stopped(c) == [c EXCEPT !.state = "Stopped"]

\* The daemon dies and New reads the files.  A container that was running is
\* watched again or, one of dead, cleaned up because its shim does not answer.
\* Of those the files of saved are written, those of torn half, those of unsaved'
\* in vain.
Reload(dead, saved, torn) ==
    /\ crashes < MaxCrashes /\ crashes' = crashes + 1
    /\ mem' = Parsed
    /\ dir' = [i \in Ids |-> CASE i \in saved -> Stopped(dir[i])
                              [] i \in torn -> Torn
                              [] OTHER -> dir[i]]
    /\ config' = [i \in Ids |-> CASE i \in dead -> Stopped(dir[i])
                                 [] i \in Parsed \ dead -> dir[i]
                                 [] OTHER -> Absent]
    /\ waiter' = [i \in Ids |-> IF i \in Parsed \ dead /\ dir[i].state = "Running"
                                  THEN "watch" ELSE "none"]
    /\ pc' = [i \in Ids |-> IF i \in Parsed THEN "ready"
                            ELSE IF pc[i] \in {"new", "gone"} THEN pc[i] ELSE "failed"]
    /\ draft' = [i \in Ids |-> Absent]
    /\ UNCHANGED <<layer, image, overlooked, late, starts>>

Lost == {i \in Parsed : dir[i].state = "Running"}

\* Mutant: the clean-up of a dead container is not written.
RestartUnsaved ==
    \E dead \in SUBSET Lost : Reload(dead, {}, {}) /\ unsaved' = {}

Restart ==
    \E dead \in SUBSET Lost : \E saved \in SUBSET dead : \E torn \in SUBSET (dead \ saved) :
        Reload(dead, saved, torn) /\ unsaved' = dead \ saved

Next ==
    \/ \E i \in Ids :
         \/ CreateCheck(i) \/ CreateImage(i) \/ CreateExtract(i) \/ CreateLayer(i)
         \/ CreateOpen(i) \/ CreateWrite(i) \/ CreateCache(i)
         \/ Start(i) \/ StartPersist(i) \/ StartWatch(i)
         \/ Remove(i) \/ RemoveDir(i) \/ RemoveOverlayFS(i) \/ RemoveFinish(i)
         \/ WaiterMark(i) \/ WaiterOpen(i) \/ WaiterWrite(i)
    \/ Restart

Spec == Init /\ [][Next]_vars

-----------------------------------------------------------------------------
\* Two containers that the daemon holds, and is not removing, answer to one name
\* only if the Create of one did not read the other's state.json: it was being
\* written, a write of it had failed, or reading it did.  No restart, no Create
\* that failed half-way and no late write brings a name back otherwise.
UniqueNames ==
    \A i, j \in {k \in mem : pc[k] \notin {"unlayer", "forget"}} :
        i # j /\ Folded[config[i].name] = Folded[config[j].name] =>
            j \in overlooked[i] \/ i \in overlooked[j]

\* What a restart would load is what the daemon holds: a container that nobody
\* is writing reads as in memory, and one whose Remove has returned is not
\* there, unless its last write or removal failed, or it was started or removed
\* beside the waiter of an earlier run.
DiskAgrees ==
    \A i \in Ids \ (late \cup unsaved) :
        /\ pc[i] = "ready" /\ waiter[i] \in {"none", "watch"} => dir[i] = config[i]
        /\ pc[i] = "gone" => dir[i] = Absent /\ i \notin mem
=============================================================================
