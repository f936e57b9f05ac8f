-------------------------------- MODULE Runc ---------------------------------
(***************************************************************************)
(* The OCI runtime commands on one container id (internal/cli/runtime.go): *)
(* create, which forks init and hands it the bootstrap over a pipe; init,  *)
(* which sets the container up and waits for one byte on exec.fifo; start, *)
(* which sends the byte; delete.  What the commands share is on the host:  *)
(* the fifo, state.json under /run (internal/runtime/state.go), the cgroup *)
(* and the init process.                                                   *)
(*                                                                         *)
(* Two callers issue commands side by side: "main", the program that owns  *)
(* the container (the shim, or `run`; see ShimServer), and "op", an        *)
(* operator who runs one command of the runtime by hand.                   *)
(***************************************************************************)
EXTENDS Naturals, Sequences

CONSTANTS
    Faults,         \* which steps may fail
    OpCommands      \* what the operator may run: "start", "delete", "force"

ASSUME RuncAssumption ==
    /\ Faults \subseteq {"create", "init", "write", "deadline", "bundle"}
    /\ OpCommands \subseteq {"start", "delete", "force"}

VARIABLES
    create,     \* the next step of setupContainer
    undo,       \* the cleanups setupContainer has registered, in order
    boot,       \* the bootstrap is in the pipe
    hooked,     \* the limits are set and the prestart hooks have run
    init,       \* the init process
    fifo,       \* exec.fifo exists
    byte,       \* a byte is in it
    disk,       \* the status in state.json
    cgroup,     \* the cgroup's directory exists
    member,     \* init was put into it
    bundle,     \* config.json is still there
    cmd         \* where the start or delete of each caller is

runcVars == <<create, undo, boot, hooked, init, fifo, byte, disk, cgroup,
              member, bundle, cmd>>
host == <<init, fifo, byte, disk, cgroup, member, bundle>>

Callers == {"main", "op"}
CreateSteps == {"fifo", "fork", "state", "cgroup", "apply", "hooks", "boot",
                "pidfile"}
Alive == {"forked", "open", "ready", "user"}    \* a zombie is not, but
Present == Alive \cup {"zombie"}                \* kill(pid, 0) finds it
Idle == {"idle", "ok", "error"}

RuncTypeOK ==
    /\ create \in CreateSteps \cup {"undo", "done", "failed"}
    /\ undo \in Seq({"fifo", "init", "state", "cgroup"})
    /\ init \in Present \cup {"none", "gone"}
    /\ disk \in {"none", "created", "running"}
    /\ {boot, hooked, fifo, byte, cgroup, member, bundle} \subseteq BOOLEAN
    /\ cmd \in [Callers -> Idle \cup {"blocked", "write", "mark", "await",
                                      "cleanup", "remove"}]

RuncInit ==
    /\ create = "fifo" /\ undo = <<>> /\ boot = FALSE /\ hooked = FALSE
    /\ init = "none" /\ fifo = FALSE /\ byte = FALSE /\ disk = "none"
    /\ cgroup = FALSE /\ member = FALSE /\ bundle = TRUE
    /\ cmd = [p \in Callers |-> "idle"]

Occupied == member /\ init \in Alive    \* rmdir of the cgroup would fail

-----------------------------------------------------------------------------
(* create: setupContainer.  Each step may fail; what it had registered by  *)
(* then is undone.                                                         *)

Created(from, to, done) ==
    /\ create = from /\ create' = to
    /\ undo' = undo \o done

MakeFifo ==
    /\ Created("fifo", "fork", <<"fifo">>)
    /\ fifo' = TRUE
    /\ UNCHANGED <<boot, hooked, init, byte, disk, cgroup, member, bundle, cmd>>

\* Mutant: init has its bootstrap from the beginning.
ForkBooted ==
    /\ Created("fork", "state", <<"init">>)
    /\ init' = "forked" /\ boot' = TRUE
    /\ UNCHANGED <<hooked, fifo, byte, disk, cgroup, member, bundle, cmd>>

Fork ==
    /\ Created("fork", "state", <<"init">>)
    /\ init' = "forked"
    /\ UNCHANGED <<boot, hooked, fifo, byte, disk, cgroup, member, bundle, cmd>>

\* WriteState: a temporary file and a rename.
WriteCreated ==
    /\ Created("state", "cgroup", <<"state">>)
    /\ disk' = "created"
    /\ UNCHANGED <<boot, hooked, init, fifo, byte, cgroup, member, bundle, cmd>>

NewCgroup ==
    /\ Created("cgroup", "apply", <<"cgroup">>)
    /\ cgroup' = TRUE
    /\ UNCHANGED <<boot, hooked, init, fifo, byte, disk, member, bundle, cmd>>

\* A pid that is dead, or a cgroup that an operator's delete has removed,
\* makes it fail (see CreateFails).
ApplyCgroup ==
    /\ Created("apply", "hooks", <<>>)
    /\ cgroup /\ init \in Alive
    /\ member' = TRUE
    /\ UNCHANGED <<boot, hooked, init, fifo, byte, disk, cgroup, bundle, cmd>>

Hooks ==
    /\ Created("hooks", "boot", <<>>)
    /\ hooked' = TRUE
    /\ UNCHANGED <<boot, host, cmd>>

\* Mutant: the bootstrap never reaches the pipe.
BootForgotten ==
    /\ Created("boot", "pidfile", <<>>)
    /\ UNCHANGED <<boot, hooked, host, cmd>>

\* EPIPE when init, the only reader, is dead.
SendBoot ==
    /\ Created("boot", "pidfile", <<>>)
    /\ init \in Alive
    /\ boot' = TRUE
    /\ UNCHANGED <<hooked, host, cmd>>

WritePidFile ==
    /\ Created("pidfile", "done", <<>>)
    /\ UNCHANGED <<boot, hooked, host, cmd>>

CreateFails ==
    /\ \/ "create" \in Faults /\ create \in CreateSteps
       \/ create = "apply" /\ ~(cgroup /\ init \in Alive)
       \/ create = "boot" /\ init \notin Alive
    /\ create' = "undo"
    /\ UNCHANGED <<undo, boot, hooked, host, cmd>>

\* What one registered cleanup does.  Kill and Wait leave no zombie; a cgroup
\* with a process in it stays.
UndoOne(what) ==
    /\ init' = IF what = "init" THEN "gone" ELSE init
    /\ fifo' = (fifo /\ what \notin {"fifo", "state"})
    /\ disk' = IF what = "state" THEN "none" ELSE disk
    /\ cgroup' = (cgroup /\ (what # "cgroup" \/ Occupied))
    /\ UNCHANGED <<boot, hooked, byte, member, bundle, cmd>>

\* Mutant: the latest first, as defer would.
UndoReversed ==
    /\ create = "undo" /\ undo # <<>>
    /\ UndoOne(undo[Len(undo)])
    /\ undo' = SubSeq(undo, 1, Len(undo) - 1)
    /\ UNCHANGED create

Undo ==
    /\ create = "undo" /\ undo # <<>>
    /\ UndoOne(Head(undo))
    /\ undo' = Tail(undo)
    /\ UNCHANGED create

UndoDone ==
    /\ create = "undo" /\ undo = <<>> /\ create' = "failed"
    /\ UNCHANGED <<undo, boot, hooked, host, cmd>>

Create == MakeFifo \/ Fork \/ WriteCreated \/ NewCgroup \/ ApplyCgroup
          \/ Hooks \/ SendBoot \/ WritePidFile \/ Undo \/ UndoDone

-----------------------------------------------------------------------------
(* init.                                                                   *)

InitGoes(from, to) ==
    /\ init = from /\ init' = to
    /\ UNCHANGED <<create, undo, boot, hooked, fifo, disk, cgroup, member,
                   bundle, cmd>>

\* Decode the bootstrap, open the fifo for reading and writing, which does not
\* block.  Without the fifo it exits.
InitOpen ==
    /\ boot
    /\ InitGoes("forked", IF fifo THEN "open" ELSE "zombie")
    /\ UNCHANGED byte

\* Namespaces, hostname, mounts, pivot_root, the command's path.
InitSetUp == InitGoes("open", "ready") /\ UNCHANGED byte

\* Read the byte, close the fifo, exec the container's command.
InitExec == byte /\ InitGoes("ready", "user") /\ byte' = FALSE

\* Any of these may fail, and init exits.
InitFails ==
    /\ "init" \in Faults
    /\ \/ boot /\ InitGoes("forked", "zombie")
       \/ InitGoes("open", "zombie")
       \/ byte /\ InitGoes("ready", "zombie")
    /\ UNCHANGED byte

\* The container's command ends.
UserExit == InitGoes("user", "zombie") /\ UNCHANGED byte

InitStep == InitOpen \/ InitSetUp \/ InitExec

-----------------------------------------------------------------------------
(* start: triggerStart.                                                    *)

Goes(p, from, to) == cmd[p] = from /\ cmd' = [cmd EXCEPT ![p] = to]
Setup == <<create, undo, boot, hooked>>     \* create's own

\* LoadState, the check of the status, and looking exec.fifo up.
StartLoad(p) ==
    /\ Goes(p, "idle", IF disk = "created" /\ fifo THEN "blocked" ELSE "error")
    /\ UNCHANGED <<Setup, host>>

HoldsFifo == init \in {"open", "ready"}

\* open(O_WRONLY) returns once there is a reader.
StartOpen(p) ==
    /\ HoldsFifo
    /\ Goes(p, "blocked", "write")
    /\ UNCHANGED <<Setup, host>>

StartWrite(p) ==
    /\ Goes(p, "write", IF HoldsFifo THEN "mark" ELSE "error")
    /\ byte' = (byte \/ HoldsFifo)
    /\ UNCHANGED <<Setup, init, fifo, disk, cgroup, member, bundle>>

\* WriteState: makes the directory again if somebody has removed it.
StartMark(p) ==
    /\ \/ Goes(p, "mark", "ok") /\ disk' = "running"
       \/ "write" \in Faults /\ Goes(p, "mark", "error") /\ UNCHANGED disk
    /\ UNCHANGED <<Setup, init, fifo, byte, cgroup, member, bundle>>

-----------------------------------------------------------------------------
(* delete: deleteContainer.                                                *)

\* Mutant: whether init lives is not asked.
DeleteUnasked(p, force) ==
    /\ Goes(p, "idle", IF disk = "none" THEN "error" ELSE "cleanup")
    /\ UNCHANGED <<Setup, host>>

\* kill(pid, 0); without force a live init, or a zombie, is an error, with
\* force it is killed.
DeleteLoad(p, force) ==
    /\ \/ /\ disk = "none" \/ (init \in Present /\ ~force)
          /\ Goes(p, "idle", "error") /\ UNCHANGED init
       \/ /\ disk # "none" /\ init \in Present /\ force
          /\ Goes(p, "idle", "await") /\ init' = "zombie"
       \/ /\ disk # "none" /\ init \notin Present
          /\ Goes(p, "idle", "cleanup") /\ UNCHANGED init
    /\ UNCHANGED <<Setup, fifo, byte, disk, cgroup, member, bundle>>

\* Until the pid is gone, ten seconds at the most.
DeleteAwait(p) ==
    /\ Goes(p, "await", "cleanup")
    /\ UNCHANGED <<Setup, host>>

\* LoadSpec, hooks, cgroup.  Without the bundle spec is nil and the command
\* panics.
DeleteCleanup(p) ==
    /\ \/ bundle /\ Goes(p, "cleanup", "remove") /\ cgroup' = (cgroup /\ Occupied)
       \/ ~bundle /\ Goes(p, "cleanup", "error") /\ UNCHANGED cgroup
    /\ UNCHANGED <<Setup, init, fifo, byte, disk, member, bundle>>

DeleteRemove(p) ==
    /\ Goes(p, "remove", "ok")
    /\ disk' = "none" /\ fifo' = FALSE
    /\ UNCHANGED <<Setup, init, byte, cgroup, member, bundle>>

\* The rest of whatever command the caller has begun.
Command(p) ==
    \/ StartOpen(p) \/ StartWrite(p) \/ StartMark(p)
    \/ DeleteAwait(p) \/ DeleteCleanup(p) \/ DeleteRemove(p)

\* One command by hand, of those that are not refused without any effect.
Operator ==
    \/ "start" \in OpCommands /\ disk = "created" /\ StartLoad("op")
    \/ "delete" \in OpCommands /\ disk # "none" /\ DeleteLoad("op", FALSE)
    \/ "force" \in OpCommands /\ disk # "none" /\ DeleteLoad("op", TRUE)
=============================================================================
