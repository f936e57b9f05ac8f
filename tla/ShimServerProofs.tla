--------------------------- MODULE ShimServerProofs --------------------------
(***************************************************************************)
(* Proofs about ShimServer and the Runc it drives, for any faults,         *)
(* operator's commands, connections and requests.                          *)
(***************************************************************************)
EXTENDS ShimServer, TLAPS

(* Types, as far as the proofs need them. *)
MainSteps == {"create", "start", "abort", "serve", "shutdown", "delete",
              "wait", "cleanup", "end", "killed"}
CmdSteps == Idle \cup {"blocked", "write", "mark", "await", "cleanup", "remove"}

Types ==
    /\ create \in CreateSteps \cup {"undo", "done", "failed"}
    /\ init \in Present \cup {"none", "gone"}
    /\ disk \in {"none", "created", "running"}
    /\ boot \in BOOLEAN /\ hooked \in BOOLEAN /\ fifo \in BOOLEAN
    /\ byte \in BOOLEAN /\ cgroup \in BOOLEAN /\ member \in BOOLEAN
    /\ bundle \in BOOLEAN /\ done \in BOOLEAN
    /\ cmd \in [Callers -> CmdSteps]
    /\ driver \in {"shim", "run"} /\ main \in MainSteps

\* setupContainer's order: group and hooks come before the bootstrap, without
\* which init does not get past its first step.
Staged ==
    /\ create = "hooks" => member
    /\ create = "boot" => member /\ hooked
    /\ boot => member /\ hooked
    /\ init \in {"open", "ready", "user"} => boot

(* What is on the host has its cleanup registered as long as there is one  *)
(* to run.  That of init comes before the cgroup's, which needs init dead. *)
Cleanups == {"fifo", "init", "state", "cgroup"}

Pending(what) == \E i \in 1 .. Len(undo) : undo[i] = what

Registered ==
    /\ undo \in Seq(Cleanups)
    /\ create = "failed" => undo = <<>>
    /\ create \in {"fifo", "fork", "state", "cgroup"} => ~Pending("cgroup")
    /\ create \notin {"fifo", "fork", "state", "undo", "failed"} => Pending("state")
    /\ \A i, j \in 1 .. Len(undo) : undo[i] = "init" /\ undo[j] = "cgroup" => i < j

Undoable ==
    /\ Registered
    /\ fifo => Pending("fifo")
    /\ init \in Alive => Pending("init")
    /\ cgroup => Pending("cgroup")
    /\ cmd["op"] = "idle" /\ disk # "none" => Pending("state")

\* Commands work on a container that create has recorded; a delete that has
\* passed its check has found, or left, init dead.
Recorded ==
    /\ create \in {"fifo", "fork"} => init = "none"
    /\ create \in {"fifo", "fork", "state"} => disk = "none"
    /\ init \in Alive /\ create \notin {"state", "undo"} => disk # "none"
    /\ \A p \in Callers :
          /\ cmd[p] \in {"await", "cleanup", "remove"} =>
                init \notin Alive /\ create \notin {"fifo", "fork"}
          /\ cmd[p] \in {"blocked", "write", "mark"} =>
                create \notin {"fifo", "fork", "state"}

\* The main goroutine and its command keep step.
Abreast ==
    /\ main \in {"start", "abort", "serve", "shutdown", "delete", "wait"} =>
          create = "done"
    /\ main = "cleanup" => create \in {"undo", "failed"}
    /\ main = "end" => create \in {"done", "failed"} /\ cmd["main"] \in Idle
    /\ main \in {"create", "serve", "shutdown"} => cmd["main"] = "idle"
    /\ main = "start" => cmd["main"] \in {"blocked", "write", "mark", "ok", "error"}
    /\ main = "wait" => cmd["main"] = "ok"
    /\ main = "abort" => cmd["main"] \in {"cleanup", "remove", "ok", "error"}
    /\ main = "delete" => cmd["main"] \in {"cleanup", "remove", "ok", "error"}
    /\ create \in CreateSteps => main \in {"create", "killed"} /\ cmd["main"] = "idle"
    /\ create \in {"undo", "failed"} => cmd["main"] \in Idle
    /\ main \in {"serve", "shutdown", "abort", "killed"} => driver = "shim"
    /\ main \in {"wait", "cleanup"} => driver = "run"

\* How the end of a container goes when no operator has interfered.
Ending ==
    /\ done => init = "gone" /\ main \in {"serve", "shutdown", "delete", "end"}
                             /\ create = "done"
    /\ main \in {"shutdown", "delete"} => init = "gone"
    /\ main = "shutdown" => done
    /\ cmd["op"] = "idle" =>
         /\ create \in {"cgroup", "apply", "hooks", "boot", "pidfile"} => disk # "none"
         /\ create = "done" /\ main \in {"create", "start", "serve", "shutdown", "wait"} =>
                disk # "none"
         /\ main = "delete" /\ bundle =>
                /\ cmd["main"] # "error"
                /\ cmd["main"] \in {"remove", "ok"} => ~cgroup
                /\ cmd["main"] = "ok" => disk = "none" /\ ~fifo
         /\ main = "end" /\ bundle /\ (done \/ driver = "run") => NothingLeft

HostInv == Types /\ Staged /\ Undoable /\ Recorded /\ Abreast /\ Ending

-----------------------------------------------------------------------------
(* The list of cleanups.                                                   *)

\* Registering a cleanup leaves the others pending, in their order.
LEMMA PendingAppended ==
  ASSUME undo \in Seq(Cleanups), NEW x \in Cleanups, undo' = undo \o <<x>>
  PROVE  /\ undo' \in Seq(Cleanups)
         /\ Pending(x)'
         /\ \A y \in Cleanups : Pending(y) => Pending(y)'
         /\ \A y \in Cleanups \ {x} : Pending(y)' => Pending(y)
         /\ (\A i, j \in 1 .. Len(undo) :
                undo[i] = "init" /\ undo[j] = "cgroup" => i < j)
            /\ (x = "init" => ~Pending("cgroup"))
            => (\A i, j \in 1 .. Len(undo') :
                undo'[i] = "init" /\ undo'[j] = "cgroup" => i < j)
  <1>1. /\ undo' \in Seq(Cleanups) /\ Len(undo) \in Nat /\ Len(undo') = Len(undo) + 1
        /\ \A i \in 1 .. Len(undo) : undo'[i] = undo[i]
        /\ undo'[Len(undo) + 1] = x
    OBVIOUS
  <1> QED
    BY <1>1 DEF Pending

\* Running the first one takes only that one away.
LEMMA PendingRemoved ==
  ASSUME undo \in Seq(Cleanups), undo # <<>>, undo' = Tail(undo)
  PROVE  /\ undo' \in Seq(Cleanups)
         /\ Head(undo) \in Cleanups
         /\ \A y \in Cleanups : Pending(y) => y = Head(undo) \/ Pending(y)'
         /\ \A y \in Cleanups : Pending(y)' => Pending(y)
         /\ (\A i, j \in 1 .. Len(undo) :
                undo[i] = "init" /\ undo[j] = "cgroup" => i < j)
            => /\ \A i, j \in 1 .. Len(undo') :
                     undo'[i] = "init" /\ undo'[j] = "cgroup" => i < j
               /\ Head(undo) = "cgroup" => ~Pending("init")
  <1>1. /\ undo' \in Seq(Cleanups) /\ Len(undo) \in Nat \ {0} /\ Len(undo') = Len(undo) - 1
        /\ \A i \in 1 .. Len(undo) - 1 : undo'[i] = undo[i + 1]
        /\ Head(undo) = undo[1] /\ undo[1] \in Cleanups
    OBVIOUS
  <1>2. ASSUME NEW y, Pending(y) PROVE y = Head(undo) \/ Pending(y)'
    <2>1. PICK i \in 1 .. Len(undo) : undo[i] = y
      BY <1>2 DEF Pending
    <2>2. CASE i = 1
      BY <1>1, <2>1, <2>2
    <2>3. CASE i # 1
      <3>1. i - 1 \in 1 .. Len(undo') /\ undo'[i - 1] = y
        BY <1>1, <2>1, <2>3
      <3> QED
        BY <3>1 DEF Pending
    <2> QED
      BY <2>2, <2>3
  <1>3. ASSUME NEW y, Pending(y)' PROVE Pending(y)
    BY <1>1, <1>3 DEF Pending
  <1>4. ASSUME \A i, j \in 1 .. Len(undo) :
                  undo[i] = "init" /\ undo[j] = "cgroup" => i < j
        PROVE  /\ \A i, j \in 1 .. Len(undo') :
                     undo'[i] = "init" /\ undo'[j] = "cgroup" => i < j
               /\ Head(undo) = "cgroup" => ~Pending("init")
    <2>1. ASSUME NEW i \in 1 .. Len(undo'), NEW j \in 1 .. Len(undo'),
                 undo'[i] = "init", undo'[j] = "cgroup"
          PROVE  i < j
      BY <1>1, <1>4, <2>1
    <2>2. Head(undo) = "cgroup" => ~Pending("init")
      BY <1>1, <1>4 DEF Pending
    <2> QED
      BY <2>1, <2>2
  <1> QED
    BY <1>1, <1>2, <1>3, <1>4

-----------------------------------------------------------------------------
(* The invariant of the host and the program.                              *)

\* An empty host has the invariant.
LEMMA InitHostInv == Init => HostInv
  <1> SUFFICES ASSUME Init PROVE HostInv
    OBVIOUS
  <1> USE DEF Init, RuncInit
  <1>1. Types
    <2>1. driver \in {"shim", "run"}
      BY ShimServerAssumption
    <2> QED
      BY <2>1 DEF Types, CreateSteps, CmdSteps, Idle, MainSteps
  <1>2. Undoable
    BY DEF Undoable, Registered, Pending, Alive, Callers
  <1>3. Staged /\ Recorded /\ Abreast /\ Ending
    BY DEF Staged, Recorded, Abreast, Ending, CreateSteps, Callers, Alive
  <1> QED
    BY <1>1, <1>2, <1>3 DEF HostInv

\* What the invariant does not speak of.
LEMMA ElsewhereHostInv ==
  ASSUME HostInv, UNCHANGED <<runcVars, driver, main, done>> PROVE HostInv'
  BY DEF runcVars, HostInv, Types, Staged, Undoable, Registered, Pending,
     Recorded, Abreast, Ending, NothingLeft

\* A step that leaves the list of cleanups alone, and puts nothing on the host.
LEMMA KeepsUndoable ==
  ASSUME Undoable, UNCHANGED undo, create' \in {create, "undo"},
         fifo' => fifo, init' \in Alive => init \in Alive, cgroup' => cgroup,
         cmd'["op"] = "idle" /\ disk' # "none" => cmd["op"] = "idle" /\ disk # "none"
  PROVE  Undoable'
  BY DEF Undoable, Registered, Pending

\* Appending nothing.
LEMMA NothingAppended == ASSUME NEW s \in Seq(Cleanups) PROVE s \o <<>> = s
  OBVIOUS

\* Every step of create, and of its cleanups, keeps it.
LEMMA CreateHostInv ==
  ASSUME HostInv, Create \/ CreateFails, UNCHANGED <<driver, main, done>>
  PROVE  HostInv'
  <1> USE DEF HostInv, host
  <1>u. undo \in Seq(Cleanups)
    BY DEF Undoable, Registered
  <1>1. CASE MakeFifo
    <2>1. /\ create = "fifo" /\ create' = "fork" /\ undo' = undo \o <<"fifo">>
          /\ fifo' = TRUE
          /\ UNCHANGED <<boot, hooked, init, byte, disk, cgroup, member, bundle, cmd>>
      BY <1>1 DEF MakeFifo, Created
    <2>2. Undoable'
      BY <1>u, <2>1, PendingAppended DEF Undoable, Registered, Cleanups
    <2> QED
      BY <2>1, <2>2 DEF Types, CreateSteps, Staged, Recorded, Abreast, Ending, NothingLeft
  <1>2. CASE Fork
    <2>1. /\ create = "fork" /\ create' = "state" /\ undo' = undo \o <<"init">>
          /\ init' = "forked"
          /\ UNCHANGED <<boot, hooked, fifo, byte, disk, cgroup, member, bundle, cmd>>
      BY <1>2 DEF Fork, Created
    <2>2. Undoable'
      BY <1>u, <2>1, PendingAppended DEF Undoable, Registered, Cleanups
    <2> QED
      BY <2>1, <2>2 DEF Types, CreateSteps, Present, Alive, Staged, Recorded,
         Abreast, Ending, NothingLeft
  <1>3. CASE WriteCreated
    <2>1. /\ create = "state" /\ create' = "cgroup" /\ undo' = undo \o <<"state">>
          /\ disk' = "created"
          /\ UNCHANGED <<boot, hooked, init, fifo, byte, cgroup, member, bundle, cmd>>
      BY <1>3 DEF WriteCreated, Created
    <2>2. Undoable'
      BY <1>u, <2>1, PendingAppended DEF Undoable, Registered, Cleanups
    <2> QED
      BY <2>1, <2>2 DEF Types, CreateSteps, Staged, Recorded, Abreast, Ending, NothingLeft
  <1>4. CASE NewCgroup
    <2>1. /\ create = "cgroup" /\ create' = "apply" /\ undo' = undo \o <<"cgroup">>
          /\ cgroup' = TRUE
          /\ UNCHANGED <<boot, hooked, init, fifo, byte, disk, member, bundle, cmd>>
      BY <1>4 DEF NewCgroup, Created
    <2>2. Undoable'
      BY <1>u, <2>1, PendingAppended DEF Undoable, Registered, Cleanups
    <2> QED
      BY <2>1, <2>2 DEF Types, CreateSteps, Staged, Recorded, Abreast, Ending, NothingLeft
  <1>5. ASSUME ApplyCgroup \/ Hooks \/ SendBoot \/ WritePidFile PROVE HostInv'
    <2>1. undo' = undo
      BY <1>u, <1>5, NothingAppended
         DEF ApplyCgroup, Hooks, SendBoot, WritePidFile, Created
    <2>2. /\ create \in {"apply", "hooks", "boot", "pidfile"}
          /\ create' \in {"hooks", "boot", "pidfile", "done"}
          /\ UNCHANGED <<init, fifo, byte, disk, cgroup, bundle, cmd>>
      BY <1>5 DEF ApplyCgroup, Hooks, SendBoot, WritePidFile, Created
    <2>3. Undoable'
      BY <2>1, <2>2 DEF Undoable, Registered, Pending
    <2>4. Types'
      <3>1. boot' \in {boot, TRUE} /\ hooked' \in {hooked, TRUE} /\ member' \in {member, TRUE}
        BY <1>5 DEF ApplyCgroup, Hooks, SendBoot, WritePidFile
      <3>2. boot' \in BOOLEAN /\ hooked' \in BOOLEAN /\ member' \in BOOLEAN
        BY <3>1 DEF Types
      <3>3. create' \in CreateSteps \cup {"undo", "done", "failed"}
        BY <2>2 DEF CreateSteps
      <3> QED
        BY <2>2, <3>2, <3>3 DEF Types
    <2>5. Staged'
      BY <1>5 DEF Staged, ApplyCgroup, Hooks, SendBoot, WritePidFile, Created, Types
    <2>6. Recorded' /\ Abreast'
      BY <2>2 DEF Recorded, Abreast, CreateSteps, Idle
    <2>7. Ending'
      BY <2>2 DEF Ending, Abreast, CreateSteps, NothingLeft
    <2> QED
      BY <2>3, <2>4, <2>5, <2>6, <2>7
  <1>6. CASE Undo
    <2>1. /\ create = "undo" /\ undo # <<>> /\ undo' = Tail(undo) /\ create' = create
          /\ init' = IF Head(undo) = "init" THEN "gone" ELSE init
          /\ fifo' = (fifo /\ Head(undo) \notin {"fifo", "state"})
          /\ disk' = IF Head(undo) = "state" THEN "none" ELSE disk
          /\ cgroup' = (cgroup /\ (Head(undo) # "cgroup" \/ Occupied))
          /\ UNCHANGED <<boot, hooked, byte, member, bundle, cmd>>
      BY <1>6 DEF Undo, UndoOne
    <2>2. Undoable'
      BY <1>u, <2>1, PendingRemoved
         DEF Undoable, Registered, Cleanups, Occupied, Alive
    <2>3. Types'
      BY <2>1 DEF Types, Present, Occupied
    <2> QED
      BY <2>1, <2>2, <2>3
         DEF Staged, Recorded, Abreast, Ending, NothingLeft, Alive, CreateSteps
  <1>7. CASE UndoDone
    <2>1. /\ create = "undo" /\ undo = <<>> /\ create' = "failed"
          /\ UNCHANGED <<undo, boot, hooked, init, fifo, byte, disk, cgroup,
                         member, bundle, cmd>>
      BY <1>7 DEF UndoDone
    <2>2. Undoable'
      BY <2>1 DEF Undoable, Registered, Pending
    <2>3. init \notin Alive
      BY <2>1 DEF Undoable, Pending
    <2> QED
      BY <2>1, <2>2, <2>3
         DEF Types, Staged, Recorded, Abreast, Ending, NothingLeft, CreateSteps
  <1>8. CASE CreateFails
    <2>1. /\ create \in CreateSteps /\ create' = "undo"
          /\ UNCHANGED <<undo, boot, hooked, init, fifo, byte, disk, cgroup,
                         member, bundle, cmd>>
      BY <1>8 DEF CreateFails, CreateSteps
    <2>2. Undoable'
      BY <2>1, KeepsUndoable
    <2> QED
      BY <2>1, <2>2
         DEF Types, Staged, Recorded, Abreast, Ending, NothingLeft, CreateSteps, Idle
  <1> QED
    BY <1>1, <1>2, <1>3, <1>4, <1>5, <1>6, <1>7, <1>8 DEF Create

\* Init goes on, ends, or is killed: it does not come to life.
LEMMA InitStepsHostInv ==
  ASSUME HostInv, UNCHANGED <<create, undo, hooked, fifo, disk, cgroup, member,
                              bundle, cmd, driver, main, done, boot>>,
         byte' \in BOOLEAN,
         \/ init = "forked" /\ boot /\ init' \in {"open", "zombie"}
         \/ init \in {"open", "ready"} /\ init' \in {"ready", "user", "zombie"}
         \/ init \in Alive /\ init' = "zombie"
         \/ init = "zombie" /\ init' = "gone"
  PROVE  HostInv'
  <1> USE DEF HostInv
  <1>1. Undoable'
    BY KeepsUndoable DEF Alive
  <1>2. Types'
    BY DEF Types, Present, Alive
  <1>3. Staged'
    BY DEF Staged
  <1>4. Recorded'
    BY DEF Recorded, Alive
  <1>5. Abreast'
    BY DEF Abreast
  <1>6. Ending'
    BY DEF Ending, Alive, NothingLeft
  <1> QED
    BY <1>1, <1>2, <1>3, <1>4, <1>5, <1>6

\* So does every step of init.
LEMMA InitHostSteps ==
  ASSUME HostInv, InitStep \/ InitFails \/ UserExit, UNCHANGED <<driver, main, done>>
  PROVE  HostInv'
  <1>1. UNCHANGED <<create, undo, hooked, fifo, disk, cgroup, member, bundle,
                    cmd, driver, main, done, boot>>
    BY DEF InitStep, InitOpen, InitSetUp, InitExec, InitFails, UserExit, InitGoes
  <1>2. byte' \in BOOLEAN
    BY DEF InitStep, InitOpen, InitSetUp, InitExec, InitFails, UserExit, HostInv, Types
  <1>3. \/ init = "forked" /\ boot /\ init' \in {"open", "zombie"}
        \/ init \in {"open", "ready"} /\ init' \in {"ready", "user", "zombie"}
        \/ init \in Alive /\ init' = "zombie"
    BY DEF InitStep, InitOpen, InitSetUp, InitExec, InitFails, UserExit,
       InitGoes, Alive
  <1> QED
    BY <1>1, <1>2, <1>3, InitStepsHostInv

\* The commands of both callers.
LEMMA CommandHostInv ==
  ASSUME HostInv, NEW p \in Callers, Command(p), UNCHANGED <<driver, main, done>>
  PROVE  HostInv'
  <1> USE DEF HostInv, Goes, Setup, host
  <1>1. CASE StartOpen(p) \/ DeleteAwait(p)
    <2>1. /\ \/ cmd[p] = "blocked" /\ cmd' = [cmd EXCEPT ![p] = "write"]
             \/ cmd[p] = "await" /\ cmd' = [cmd EXCEPT ![p] = "cleanup"]
          /\ UNCHANGED <<create, undo, boot, hooked, init, fifo, byte, disk,
                         cgroup, member, bundle>>
      BY <1>1 DEF StartOpen, DeleteAwait
    <2>2. Undoable'
      BY <2>1, KeepsUndoable DEF Types, Callers
    <2>3. Types' /\ Staged'
      BY <2>1 DEF Types, Staged, CmdSteps, Idle
    <2>4. Recorded' /\ Abreast'
      BY <2>1 DEF Types, Recorded, Abreast, Callers, CreateSteps, Idle
    <2>5. Ending'
      BY <2>1 DEF Types, Ending, Abreast, Callers, NothingLeft, Idle
    <2> QED
      BY <2>2, <2>3, <2>4, <2>5
  <1>2. CASE StartWrite(p)
    <2>1. /\ cmd[p] = "write"
          /\ \/ cmd' = [cmd EXCEPT ![p] = "mark"]
             \/ cmd' = [cmd EXCEPT ![p] = "error"]
          /\ UNCHANGED <<create, undo, boot, hooked, init, fifo, disk, cgroup,
                         member, bundle>>
      BY <1>2 DEF StartWrite
    <2>2. byte' \in BOOLEAN
      BY <1>2 DEF StartWrite, Types, HoldsFifo
    <2>3. Undoable'
      BY <2>1, KeepsUndoable DEF Types, Callers
    <2>4. Types' /\ Staged'
      BY <2>1, <2>2 DEF Types, Staged, CmdSteps, Idle
    <2>5. Recorded' /\ Abreast'
      BY <2>1 DEF Types, Recorded, Abreast, Callers, CreateSteps, Idle
    <2>6. Ending'
      BY <2>1 DEF Types, Ending, Abreast, Callers, NothingLeft, Idle
    <2> QED
      BY <2>3, <2>4, <2>5, <2>6
  <1>3. CASE StartMark(p)
    <2>1. /\ cmd[p] = "mark"
          /\ \/ cmd' = [cmd EXCEPT ![p] = "ok"] /\ disk' = "running"
             \/ cmd' = [cmd EXCEPT ![p] = "error"] /\ disk' = disk
          /\ UNCHANGED <<create, undo, boot, hooked, init, fifo, byte, cgroup,
                         member, bundle>>
      BY <1>3 DEF StartMark
    <2>2. CASE p = "main"
      <3>1. create = "done" /\ main \in {"start", "killed"}
        <4>1. create = "done"
          BY <2>1, <2>2 DEF Abreast, Idle, Types
        <4> QED
          BY <2>1, <2>2, <4>1 DEF Abreast, Idle, Types, MainSteps
      <3>2. cmd["op"] = "idle" => disk # "none" \/ main = "killed"
        BY <3>1 DEF Ending
      <3>3. /\ cmd'["main"] \in {"ok", "error"} /\ cmd'["op"] = cmd["op"]
            /\ cmd["main"] = "mark"
        BY <2>1, <2>2 DEF Types, Callers
      <3>4. Undoable'
        BY <2>1, <2>2, <3>1, <3>3 DEF Undoable, Registered, Pending, Recorded
      <3>5. Types' /\ Staged'
        BY <2>1 DEF Types, Staged, CmdSteps, Idle
      <3>6. Recorded' /\ Abreast'
        BY <2>1, <3>1, <3>3 DEF Types, Recorded, Abreast, Callers, CreateSteps, Idle
      <3>7. Ending'
        BY <2>1, <3>1, <3>3 DEF Ending, CreateSteps
      <3> QED
        BY <3>4, <3>5, <3>6, <3>7
    <2>3. CASE p = "op"
      <3>1. cmd'["op"] # "idle" /\ cmd'["main"] = cmd["main"] /\ cmd["op"] = "mark"
        BY <2>1, <2>3 DEF Types, Callers
      <3>2. Undoable'
        BY <2>1, <3>1, KeepsUndoable
      <3>3. Types' /\ Staged'
        BY <2>1 DEF Types, Staged, CmdSteps, Idle
      <3>4. Recorded' /\ Abreast'
        BY <2>1, <3>1 DEF Types, Recorded, Abreast, Callers, CreateSteps, Idle
      <3>5. Ending'
        BY <2>1, <3>1 DEF Ending
      <3> QED
        BY <3>2, <3>3, <3>4, <3>5
    <2> QED
      BY <2>2, <2>3 DEF Callers
  <1>4. CASE DeleteCleanup(p)
    <2>1. /\ cmd[p] = "cleanup"
          /\ \/ bundle /\ cmd' = [cmd EXCEPT ![p] = "remove"] /\ cgroup' = (cgroup /\ Occupied)
             \/ ~bundle /\ cmd' = [cmd EXCEPT ![p] = "error"] /\ cgroup' = cgroup
          /\ UNCHANGED <<create, undo, boot, hooked, init, fifo, byte, disk,
                         member, bundle>>
      BY <1>4 DEF DeleteCleanup
    <2>2. cgroup' \in BOOLEAN /\ (cgroup' => cgroup) /\ (bundle => ~cgroup')
      <3>1. ~Occupied /\ cgroup \in BOOLEAN
        BY <2>1 DEF Types, Recorded, Occupied
      <3>2. cgroup' = FALSE \/ (cgroup' = cgroup /\ ~bundle)
        BY <2>1, <3>1
      <3>3. CASE cgroup' = FALSE
        BY <3>3
      <3>4. CASE cgroup' = cgroup /\ ~bundle
        BY <3>1, <3>4, Zenon
      <3> QED
        BY <3>2, <3>3, <3>4
    <2>3. Undoable'
      BY <2>1, <2>2, KeepsUndoable DEF Types, Callers
    <2>4. Types' /\ Staged'
      BY <2>1, <2>2 DEF Types, Staged, CmdSteps, Idle
    <2>5. Recorded' /\ Abreast'
      BY <2>1 DEF Types, Recorded, Abreast, Callers, CreateSteps, Idle
    <2>6. Ending'
      BY <2>1, <2>2 DEF Types, Ending, Abreast, Callers, NothingLeft, Idle
    <2> QED
      BY <2>3, <2>4, <2>5, <2>6
  <1>5. CASE DeleteRemove(p)
    <2>1. /\ cmd[p] = "remove" /\ cmd' = [cmd EXCEPT ![p] = "ok"]
          /\ disk' = "none" /\ fifo' = FALSE
          /\ UNCHANGED <<create, undo, boot, hooked, init, byte, cgroup, member, bundle>>
      BY <1>5 DEF DeleteRemove
    <2>2. Undoable'
      BY <2>1, KeepsUndoable DEF Types, Callers
    <2>3. Types' /\ Staged'
      BY <2>1 DEF Types, Staged, CmdSteps, Idle
    <2>4. Recorded' /\ Abreast'
      BY <2>1 DEF Types, Recorded, Abreast, Callers, CreateSteps, Idle
    <2>5. Ending'
      BY <2>1 DEF Types, Ending, Abreast, Callers, NothingLeft, Idle, CreateSteps
    <2> QED
      BY <2>2, <2>3, <2>4, <2>5
  <1> QED
    BY <1>1, <1>2, <1>3, <1>4, <1>5 DEF Command

\* The operator begins a command; from then on cmd["op"] is no longer idle.
LEMMA OperatorHostInv ==
  ASSUME HostInv, Operator, UNCHANGED <<driver, main, done>>
  PROVE  HostInv'
  <1> USE DEF HostInv
  <1>1. /\ cmd["op"] = "idle"
        /\ \E s \in {"blocked", "error", "await", "cleanup"} :
              /\ cmd' = [cmd EXCEPT !["op"] = s]
              /\ s \in {"blocked", "await", "cleanup"} => disk # "none"
              /\ s \in {"await", "cleanup"} => init' \notin Alive
        /\ init' = init \/ (init \in Present /\ init' = "zombie")
        /\ UNCHANGED <<create, undo, boot, hooked, fifo, byte, disk, cgroup,
                       member, bundle>>
    BY DEF Operator, StartLoad, DeleteLoad, Goes, Setup, host, Present, Alive
  <1>2. PICK s \in {"blocked", "error", "await", "cleanup"} :
           /\ cmd' = [cmd EXCEPT !["op"] = s]
           /\ s \in {"blocked", "await", "cleanup"} => disk # "none"
           /\ s \in {"await", "cleanup"} => init' \notin Alive
    BY <1>1
  <1>3. init' \in Alive => init' = init
    BY <1>1 DEF Alive
  <1>4. cmd'["op"] = s /\ cmd'["main"] = cmd["main"]
    BY <1>2 DEF Types, Callers
  <1>5. Undoable'
    BY <1>1, <1>3, <1>4, KeepsUndoable
  <1>6. Types'
    BY <1>1, <1>2 DEF Types, CmdSteps, Idle, Present, Alive, Callers
  <1>7. Staged'
    BY <1>1, <1>3 DEF Staged, Alive
  <1>8. Recorded'
    BY <1>1, <1>2, <1>3, <1>4 DEF Recorded, Callers, Present, Alive
  <1>9. Abreast'
    BY <1>1, <1>4 DEF Abreast
  <1>10. Ending'
    BY <1>1, <1>4 DEF Ending, Present, Alive
  <1> QED
    BY <1>5, <1>6, <1>7, <1>8, <1>9, <1>10

\* The steps of the main goroutine.
LEMMA DriverHostInv ==
  ASSUME HostInv, Driver \/ Deadline \/ RemoveBundle PROVE HostInv'
  <1> USE DEF HostInv, Goes, Setup, host, srvVars, Main, Is
  <1>1. CASE AfterCreate
    <2>1. /\ main = "create" /\ done' = done /\ driver' = driver
          /\ \/ /\ create = "done" /\ main' = "start"
                /\ cmd' = [cmd EXCEPT !["main"] =
                             IF disk = "created" /\ fifo THEN "blocked" ELSE "error"]
             \/ create = "failed" /\ main' = "end" /\ cmd' = cmd
          /\ UNCHANGED <<create, undo, boot, hooked, init, fifo, byte, disk,
                         cgroup, member, bundle>>
      BY <1>1 DEF AfterCreate, StartLoad, runcVars
    <2>2. cmd'["op"] = cmd["op"] /\ cmd["main"] = "idle"
      BY <2>1 DEF Types, Callers, Abreast
    <2>3. Undoable'
      BY <2>1, <2>2, KeepsUndoable
    <2>4. Types' /\ Staged'
      BY <2>1 DEF Types, Staged, CmdSteps, Idle, MainSteps
    <2>5. Recorded'
      BY <2>1, <2>2 DEF Types, Recorded, Callers
    <2>6. Abreast'
      BY <2>1, <2>2 DEF Types, Abreast, Callers, CreateSteps, Idle
    <2>7. create = "failed" /\ cmd["op"] = "idle" => NothingLeft
      BY DEF Undoable, Registered, Pending, Types, NothingLeft
    <2>8. Ending'
      BY <2>1, <2>2, <2>7 DEF Ending, NothingLeft, CreateSteps
    <2> QED
      BY <2>3, <2>4, <2>5, <2>6, <2>8
  <1>2. CASE ShimStarted
    <2>1. /\ main = "start" /\ main' = "serve" /\ driver = "shim"
          /\ cmd["main"] = "ok" /\ cmd' = [cmd EXCEPT !["main"] = "idle"]
          /\ UNCHANGED <<create, undo, boot, hooked, init, fifo, byte, disk,
                         cgroup, member, bundle, done, driver>>
      BY <1>2 DEF ShimStarted
    <2>2. cmd'["op"] = cmd["op"] /\ cmd'["main"] = "idle"
      BY <2>1 DEF Types, Callers
    <2>3. Undoable'
      BY <2>1, <2>2, KeepsUndoable
    <2>4. Types' /\ Staged'
      <3>1. cmd' \in [Callers -> CmdSteps]
        BY <2>1 DEF Types, CmdSteps, Idle
      <3> QED
        BY <2>1, <3>1 DEF Types, Staged, MainSteps
    <2>5. Recorded' /\ Abreast'
      BY <2>1, <2>2 DEF Types, Recorded, Abreast, Callers, CreateSteps, Idle
    <2>6. Ending'
      BY <2>1, <2>2 DEF Ending, NothingLeft
    <2> QED
      BY <2>3, <2>4, <2>5, <2>6
  <1>3. CASE ShimAborts
    <2>1. /\ main = "start" /\ main' = "abort" /\ driver = "shim"
          /\ cmd["main"] = "error"
          /\ \/ cmd' = cmd
             \/ /\ disk # "none" /\ init \notin Present
                /\ cmd' = [cmd EXCEPT !["main"] = "cleanup"]
          /\ UNCHANGED <<create, undo, boot, hooked, init, fifo, byte, disk,
                         cgroup, member, bundle, done, driver>>
      BY <1>3 DEF ShimAborts
    <2>2. cmd'["op"] = cmd["op"] /\ cmd'["main"] \in {"error", "cleanup"}
      BY <2>1 DEF Types, Callers
    <2>3. Undoable'
      BY <2>1, <2>2, KeepsUndoable
    <2>4. Types' /\ Staged'
      BY <2>1 DEF Types, Staged, CmdSteps, Idle, MainSteps
    <2>5. Recorded' /\ Abreast'
      BY <2>1, <2>2 DEF Types, Recorded, Abreast, Callers, CreateSteps, Idle, Present
    <2>6. Ending'
      BY <2>1, <2>2 DEF Ending, NothingLeft
    <2> QED
      BY <2>3, <2>4, <2>5, <2>6
  <1>4. CASE ShimAborted \/ ShimEnds \/ RunStarted \/ RunEnds \/ Deadline
             \/ BeginShutdown
    <2>1. /\ UNCHANGED <<create, undo, boot, hooked, init, fifo, byte, disk,
                         cgroup, member, bundle, cmd, done, driver>>
          /\ \/ /\ driver = "shim" /\ main \in {"abort", "delete"}
                /\ main' = "end" /\ cmd["main"] \in Idle
             \/ driver = "run" /\ main = "start" /\ main' = "wait" /\ cmd["main"] = "ok"
             \/ /\ driver = "run" /\ main' = "end"
                /\ \/ main = "delete" /\ cmd["main"] \in Idle
                   \/ main = "cleanup" /\ create = "failed"
             \/ driver = "shim" /\ main \in {"create", "start", "abort"} /\ main' = "killed"
             \/ driver = "shim" /\ main = "serve" /\ main' = "shutdown" /\ done
      BY <1>4 DEF ShimAborted, ShimEnds, RunStarted, RunEnds, Deadline,
         BeginShutdown, runcVars
    <2>2. Undoable'
      BY <2>1, KeepsUndoable
    <2>3. Types' /\ Staged'
      BY <2>1 DEF Types, Staged, MainSteps
    <2>4. Recorded' /\ Abreast'
      BY <2>1 DEF Types, Recorded, Abreast, CreateSteps, Idle
    <2>5. create = "failed" /\ cmd["op"] = "idle" => NothingLeft
      BY DEF Undoable, Registered, Pending, Types, NothingLeft
    <2>6. Ending'
      BY <2>1, <2>5 DEF Ending, Abreast, NothingLeft, Idle, Alive
    <2> QED
      BY <2>2, <2>3, <2>4, <2>6
  <1>5. CASE WaitInit
    <2>1. /\ driver = "shim" /\ main = "serve" /\ main' = main /\ driver' = driver
          /\ init = "zombie" /\ init' = "gone" /\ done' = TRUE
          /\ UNCHANGED <<create, undo, boot, hooked, fifo, byte, disk,
                         cgroup, member, bundle, cmd>>
      BY <1>5 DEF WaitInit
    <2>2. Undoable'
      BY <2>1, KeepsUndoable DEF Alive
    <2>3. Types' /\ Staged' /\ Recorded' /\ Abreast'
      BY <2>1 DEF Types, Staged, Recorded, Abreast, Alive
    <2>4. Ending'
      BY <2>1 DEF Ending, Abreast, NothingLeft
    <2> QED
      BY <2>2, <2>3, <2>4
  <1>6. CASE ShutDown
    <2>1. /\ driver = "shim" /\ main = "shutdown" /\ main' = "delete"
          /\ UNCHANGED <<create, undo, boot, hooked, init, fifo, byte, disk,
                         cgroup, member, bundle, done, driver>>
          /\ \/ /\ disk = "none" \/ init \in Present
                /\ cmd' = [cmd EXCEPT !["main"] = "error"]
             \/ /\ disk # "none" /\ init \notin Present
                /\ cmd' = [cmd EXCEPT !["main"] = "cleanup"]
      BY <1>6 DEF ShutDown, DeleteLoad
    <2>2. cmd'["op"] = cmd["op"] /\ cmd'["main"] \in {"error", "cleanup"}
      BY <2>1 DEF Types, Callers
    <2>3. Undoable'
      BY <2>1, <2>2, KeepsUndoable
    <2>4. Types' /\ Staged'
      BY <2>1 DEF Types, Staged, CmdSteps, Idle, MainSteps
    <2>5. Recorded' /\ Abreast'
      BY <2>1, <2>2 DEF Types, Recorded, Abreast, Callers, CreateSteps, Idle, Present
    <2>6. cmd["op"] = "idle" => cmd'["main"] = "cleanup"
      BY <2>1 DEF Ending, Abreast, Types, Callers, Present, Alive
    <2>7. Ending'
      BY <2>1, <2>2, <2>6 DEF Ending, Abreast, NothingLeft
    <2> QED
      BY <2>3, <2>4, <2>5, <2>7
  <1>7. CASE RunWaited
    <2>1. /\ driver = "run" /\ UNCHANGED <<undo, boot, hooked, fifo, byte, disk,
                         cgroup, member, bundle, done, driver>>
          /\ \/ /\ main = "wait" /\ main' = "delete" /\ init' = "gone"
                /\ cmd' = [cmd EXCEPT !["main"] = IF disk = "none" THEN "error"
                                                  ELSE "cleanup"]
                /\ create' = create
             \/ /\ main = "wait" /\ main' = "cleanup" /\ init' = "gone"
                /\ create' = "undo" /\ cmd' = cmd
             \/ /\ main = "start" /\ main' = "cleanup" /\ cmd["main"] = "error"
                /\ create' = "undo" /\ UNCHANGED <<cmd, init>>
      BY <1>7 DEF RunWaited
    <2>2. cmd'["op"] = cmd["op"] /\ init' \in {init, "gone"}
      BY <2>1 DEF Types, Callers
    <2>3. Undoable'
      BY <2>1, <2>2, KeepsUndoable DEF Alive
    <2>4. Types' /\ Staged'
      BY <2>1 DEF Types, Staged, CmdSteps, Idle, MainSteps
    <2>5. Recorded'
      BY <2>1, <2>2 DEF Types, Recorded, Abreast, Callers, Alive
    <2>6. Abreast'
      BY <2>1 DEF Types, Abreast, Callers, CreateSteps, Idle
    <2>7. Ending'
      BY <2>1, <2>2 DEF Ending, Types, Callers, Abreast, NothingLeft
    <2> QED
      BY <2>3, <2>4, <2>5, <2>6, <2>7
  <1>8. CASE RemoveBundle
    <2>1. /\ bundle' = FALSE
          /\ UNCHANGED <<create, undo, boot, hooked, init, fifo, byte, disk,
                         cgroup, member, cmd, driver, main, done>>
      BY <1>8 DEF RemoveBundle
    <2>2. Undoable'
      BY <2>1, KeepsUndoable
    <2>3. Ending'
      BY <2>1 DEF Ending
    <2>4. Types'
      <3>1. bundle' \in BOOLEAN
        BY <2>1
      <3> HIDE DEF HostInv
      <3>2. Types
        BY DEF HostInv
      <3> QED
        BY <2>1, <3>1, <3>2 DEF Types, MainSteps
    <2>7. Staged'
      BY <2>1 DEF Staged
    <2>5. Recorded'
      BY <2>1 DEF Recorded
    <2>6. Abreast'
      BY <2>1 DEF Abreast
    <2> QED
      BY <2>2, <2>3, <2>4, <2>5, <2>6, <2>7
  <1> QED
    BY <1>1, <1>2, <1>3, <1>4, <1>5, <1>6, <1>7, <1>8 DEF Driver

\* Every step of the host and the program keeps the invariant.
LEMMA NextHostInv == ASSUME HostInv, [Next]_vars PROVE HostInv'
  <1>1. CASE Runtime
    BY <1>1, CreateHostInv, InitHostSteps DEF Runtime, srvVars
  <1>2. CASE Commands
    BY <1>2, CommandHostInv, OperatorHostInv DEF Commands, srvVars
  <1>3. CASE Driver \/ Deadline \/ RemoveBundle
    BY <1>3, DriverHostInv
  <1>4. CASE Adopt
    BY <1>4, InitStepsHostInv DEF Adopt, InitGoes, srvVars, HostInv, Types
  <1>5. ASSUME NEW c \in Conns, NEW r \in Requests \cup {"exec"}, Request(c, r)
        PROVE  HostInv'
    <2>1. /\ UNCHANGED <<create, undo, hooked, fifo, byte, disk, cgroup, member,
                         bundle, cmd, driver, main, done, boot>>
          /\ init' = init \/ (init \in Alive /\ init' = "zombie")
      <3>1. Kill \/ init' = init
        BY <1>5 DEF Request
      <3>2. init' = init \/ (init \in Alive /\ init' = "zombie")
        BY <3>1 DEF Kill
      <3> QED
        BY <1>5, <3>2 DEF Request, HostButInit, Setup
    <2> QED
      BY <2>1, InitStepsHostInv, ElsewhereHostInv DEF runcVars, HostInv, Types
  <1>6. ASSUME NEW c \in Conns, StopKills(c) PROVE HostInv'
    <2>1. /\ UNCHANGED <<create, undo, hooked, fifo, byte, disk, cgroup, member,
                         bundle, cmd, driver, main, done, boot>>
          /\ init \in Alive /\ init' = "zombie"
      BY <1>6 DEF StopKills, Kill, HostButInit, Setup, srvVars
    <2> QED
      BY <2>1, InitStepsHostInv DEF HostInv, Types
  <1>7. ASSUME NEW c \in Conns,
               \/ Dial(c) \/ Exec(c) \/ Hangup(c) \/ ProcEnds(c) \/ Receive(c)
               \/ Accept(c) \/ Answer(c) \/ WriteExit(c)
               \/ \E s \in Streams : Copy(c, s) \/ ProcWrites(c, s)
        PROVE  HostInv'
    <2>1. UNCHANGED <<runcVars, driver, main, done>>
      BY <1>7 DEF Dial, Exec, Hangup, ProcEnds, Receive, Accept, Answer, WriteExit,
         Copy, ProcWrites, NotExec
    <2> QED
      BY <2>1, ElsewhereHostInv
  <1>8. CASE UNCHANGED vars
    BY <1>8, ElsewhereHostInv DEF vars, srvVars
  <1> QED
    BY <1>1, <1>2, <1>3, <1>4, <1>5, <1>6, <1>7, <1>8 DEF Next, Handler, Asks

-----------------------------------------------------------------------------
(* Exec sessions.                                                          *)

Frames == Streams \cup {"exit"}

ExecTypes ==
    /\ conn \in [Conns -> Handling \cup {"none", "backlog", "closed"}]
    /\ proc \in [Conns -> {"none", "runs", "ended"}]
    /\ result \in [Conns -> {"none", "code", "lost"}]
    /\ wrote \in [Conns -> SUBSET Streams] /\ sent \in [Conns -> SUBSET Streams]
    /\ got \in [Conns -> SUBSET Streams]
    /\ wire \in [Conns -> Seq(Frames)]

\* Frame f is among those of w.
Has(w, f) == \E i \in 1 .. Len(w) : w[i] = f

\* The books of one session, from where its handler and its process are, what
\* was written, sent, is on the wire and was received, and what the client has
\* returned: the exit frame is the last; what a copier has framed the client
\* has, or will have before the exit frame.
Sound(h, p, wr, st, w, gt, r) ==
    /\ \A i \in 1 .. Len(w) : w[i] = "exit" => i = Len(w)
    /\ Has(w, "exit") \/ r = "code" => h = "closed" /\ p = "ended" /\ st = wr
    /\ r # "lost" => \A s \in Streams : s \in st => s \in gt \/ Has(w, s)
    /\ gt \subseteq st /\ \A s \in Streams : Has(w, s) => s \in st
    /\ st \subseteq wr
    /\ r = "code" => st \subseteq gt

Session(c) ==
    Sound(conn[c], proc[c], wrote[c], sent[c], wire[c], got[c], result[c])

ExecInv == ExecTypes /\ \A c \in Conns : Session(c)

\* What is on the wire after a write.
LEMMA Appended ==
  ASSUME NEW w \in Seq(Frames), NEW f \in Frames
  PROVE  /\ Append(w, f) \in Seq(Frames)
         /\ Has(Append(w, f), f)
         /\ \A g \in Frames : Has(Append(w, f), g) <=> Has(w, g) \/ g = f
         /\ (\A i \in 1 .. Len(w) : w[i] # "exit") =>
               \A i \in 1 .. Len(Append(w, f)) :
                  Append(w, f)[i] = "exit" => i = Len(Append(w, f))
  <1>1. /\ Append(w, f) \in Seq(Frames) /\ Len(w) \in Nat
        /\ Len(Append(w, f)) = Len(w) + 1
        /\ \A i \in 1 .. Len(w) : Append(w, f)[i] = w[i]
        /\ Append(w, f)[Len(w) + 1] = f
    OBVIOUS
  <1> DEFINE v == Append(w, f)
  <1>2. /\ v \in Seq(Frames) /\ Len(v) = Len(w) + 1
        /\ \A i \in 1 .. Len(w) : v[i] = w[i]
        /\ v[Len(w) + 1] = f
    BY <1>1
  <1> HIDE DEF v
  <1>3. Has(v, f)
    BY <1>1, <1>2 DEF Has
  <1>4. ASSUME NEW g \in Frames PROVE Has(v, g) <=> Has(w, g) \/ g = f
    BY <1>1, <1>2, <1>3 DEF Has
  <1>5. ASSUME \A i \in 1 .. Len(w) : w[i] # "exit"
        PROVE  \A i \in 1 .. Len(v) : v[i] = "exit" => i = Len(v)
    BY <1>1, <1>2, <1>5
  <1> QED
    BY <1>2, <1>3, <1>4, <1>5 DEF v

\* What is on the wire after a read.
LEMMA Received ==
  ASSUME NEW w \in Seq(Frames), w # <<>>
  PROVE  /\ Tail(w) \in Seq(Frames) /\ Head(w) \in Frames /\ Has(w, Head(w))
         /\ \A g \in Frames : Has(w, g) <=> Has(Tail(w), g) \/ g = Head(w)
         /\ (\A i \in 1 .. Len(w) : w[i] = "exit" => i = Len(w)) =>
               /\ \A i \in 1 .. Len(Tail(w)) :
                     Tail(w)[i] = "exit" => i = Len(Tail(w))
               /\ Head(w) = "exit" => \A g \in Frames : ~Has(Tail(w), g)
  <1>1. /\ Tail(w) \in Seq(Frames) /\ Len(w) \in Nat \ {0}
        /\ Len(Tail(w)) = Len(w) - 1
        /\ \A i \in 1 .. Len(w) - 1 : Tail(w)[i] = w[i + 1]
        /\ Head(w) = w[1] /\ w[1] \in Frames
    OBVIOUS
  <1> DEFINE v == Tail(w)
  <1>2. /\ v \in Seq(Frames) /\ Len(v) = Len(w) - 1
        /\ \A i \in 1 .. Len(w) - 1 : v[i] = w[i + 1]
    BY <1>1
  <1> HIDE DEF v
  <1>3. Head(w) \in Frames /\ Has(w, Head(w))
    BY <1>1 DEF Has
  <1>4. ASSUME NEW g \in Frames PROVE Has(w, g) <=> Has(v, g) \/ g = Head(w)
    <2>1. Has(v, g) => Has(w, g)
      <3>1. ASSUME NEW i \in 1 .. Len(v), v[i] = g PROVE Has(w, g)
        <4>1. i + 1 \in 1 .. Len(w) /\ w[i + 1] = g
          BY <1>1, <1>2, <3>1
        <4> QED
          BY <4>1 DEF Has
      <3> QED
        BY <3>1 DEF Has
    <2>2. ASSUME NEW i \in 1 .. Len(w), w[i] = g, i # 1 PROVE Has(v, g)
      <3>1. i - 1 \in 1 .. Len(v) /\ v[i - 1] = g
        BY <1>1, <1>2, <2>2
      <3> QED
        BY <3>1 DEF Has
    <2> QED
      BY <1>1, <1>3, <2>1, <2>2 DEF Has
  <1>5. ASSUME \A i \in 1 .. Len(w) : w[i] = "exit" => i = Len(w)
        PROVE  /\ \A i \in 1 .. Len(v) : v[i] = "exit" => i = Len(v)
               /\ Head(w) = "exit" => \A g \in Frames : ~Has(v, g)
    <2>1. Len(w) \in Nat \ {0} /\ Len(v) = Len(w) - 1
      BY <1>1, <1>2
    <2>2. ASSUME NEW i \in 1 .. Len(v), v[i] = "exit" PROVE i = Len(v)
      <3>1. i + 1 \in 1 .. Len(w)
        BY <2>1
      <3>2. v[i] = w[i + 1]
        BY <1>2, <2>1
      <3>3. i + 1 = Len(w)
        BY <1>5, <2>2, <3>1, <3>2
      <3> QED
        BY <2>1, <3>3
    <2>3. ASSUME Head(w) = "exit" PROVE Len(v) = 0
      <3>1. ASSUME NEW i, i = 1 PROVE i = Len(w)
        <4>1. i \in 1 .. Len(w) /\ w[i] = "exit"
          BY <1>1, <2>1, <2>3, <3>1
        <4> QED
          BY <1>5, <4>1
      <3> QED
        BY <2>1, <3>1
    <2> QED
      BY <2>2, <2>3 DEF Has
  <1> QED
    BY <1>2, <1>3, <1>4, <1>5 DEF v

\* A copier frames a chunk, for a client that is there.
LEMMA SoundCopied ==
  ASSUME NEW p, NEW wr, NEW st, NEW w \in Seq(Frames), NEW gt, NEW r,
         NEW s \in wr \ st, s \in Streams, Sound("exec", p, wr, st, w, gt, r)
  PROVE  Sound("exec", p, wr, st \cup {s}, Append(w, s), gt, r)
  <1>1. ~Has(w, "exit") /\ r # "code"
    BY DEF Sound
  <1>2. \A i \in 1 .. Len(w) : w[i] # "exit"
    BY <1>1 DEF Has
  <1>3. s \in Frames /\ s # "exit" /\ "exit" \in Frames /\ Streams \subseteq Frames
    BY DEF Frames, Streams
  <1> DEFINE v == Append(w, s)
  <1>4. /\ \A g \in Frames : Has(v, g) <=> Has(w, g) \/ g = s
        /\ \A i \in 1 .. Len(v) : v[i] = "exit" => i = Len(v)
    BY <1>2, <1>3, Appended
  <1> HIDE DEF v
  <1>5. Sound("exec", p, wr, st \cup {s}, v, gt, r)
    BY <1>1, <1>3, <1>4 DEF Sound
  <1> QED
    BY <1>5 DEF v

\* With the client gone the chunk is lost.
LEMMA SoundDropped ==
  ASSUME NEW p, NEW wr, NEW st, NEW w, NEW gt,
         NEW s \in wr \ st, Sound("exec", p, wr, st, w, gt, "lost")
  PROVE  Sound("exec", p, wr, st \cup {s}, w, gt, "lost")
  BY DEF Sound

\* The exit frame, after both copiers.
LEMMA SoundExited ==
  ASSUME NEW st, NEW w \in Seq(Frames), NEW gt, NEW r,
         Sound("exec", "ended", st, st, w, gt, r)
  PROVE  /\ Sound("closed", "ended", st, st, Append(w, "exit"), gt, r)
         /\ Sound("closed", "ended", st, st, w, gt, r)
  <1>1. \A i \in 1 .. Len(w) : w[i] # "exit"
    BY DEF Sound, Has
  <1>2. "exit" \in Frames /\ Streams \subseteq Frames /\ "exit" \notin Streams
    BY DEF Frames, Streams
  <1> DEFINE v == Append(w, "exit")
  <1>3. /\ \A g \in Frames : Has(v, g) <=> Has(w, g) \/ g = "exit"
        /\ \A i \in 1 .. Len(v) : v[i] = "exit" => i = Len(v)
    BY <1>1, <1>2, Appended
  <1> HIDE DEF v
  <1>4. Sound("closed", "ended", st, st, v, gt, r)
    BY <1>2, <1>3 DEF Sound
  <1>5. Sound("closed", "ended", st, st, w, gt, r)
    BY DEF Sound
  <1> QED
    BY <1>4, <1>5 DEF v

\* The client takes a frame.
LEMMA SoundReceived ==
  ASSUME NEW h, NEW p, NEW wr, NEW st \in SUBSET Streams,
         NEW w \in Seq(Frames), w # <<>>,
         NEW gt, Sound(h, p, wr, st, w, gt, "none")
  PROVE  /\ Head(w) = "exit" => Sound(h, p, wr, st, Tail(w), gt, "code")
         /\ Head(w) # "exit" =>
               Sound(h, p, wr, st, Tail(w), gt \cup {Head(w)}, "none")
  <1> DEFINE v == Tail(w)
             f == Head(w)
  <1>1. Streams \subseteq Frames /\ "exit" \in Frames
        /\ \A g \in Frames : g # "exit" => g \in Streams
    BY DEF Frames, Streams
  <1>2. /\ f \in Frames /\ Has(w, f)
        /\ \A g \in Frames : Has(w, g) <=> Has(v, g) \/ g = f
        /\ \A i \in 1 .. Len(v) : v[i] = "exit" => i = Len(v)
        /\ f = "exit" => \A g \in Frames : ~Has(v, g)
    BY Received DEF Sound
  <1> HIDE DEF v, f
  <1>3. ASSUME f = "exit" PROVE Sound(h, p, wr, st, v, gt, "code")
    <2>1. h = "closed" /\ p = "ended" /\ st = wr
      BY <1>2, <1>3 DEF Sound
    <2>2. ASSUME NEW s \in Streams PROVE ~Has(w, s) /\ ~Has(v, s)
      <3>1. s \in Frames /\ s # f
        BY <1>1, <1>3 DEF Streams
      <3> QED
        BY <1>2, <1>3, <3>1
    <2>3. \A s \in Streams : s \in st => s \in gt
      BY <2>2 DEF Sound
    <2> QED
      BY <1>1, <1>2, <1>3, <2>1, <2>2, <2>3 DEF Sound
  <1>4. ASSUME f # "exit" PROVE Sound(h, p, wr, st, v, gt \cup {f}, "none")
    <2>1. f \in Streams /\ f \in st
      BY <1>1, <1>2, <1>4 DEF Sound
    <2> QED
      BY <1>1, <1>2, <1>4, <2>1 DEF Sound
  <1> QED
    BY <1>3, <1>4 DEF v, f

\* No session has begun.
LEMMA InitExecInv == Init => ExecInv
  <1> SUFFICES ASSUME Init PROVE ExecInv
    OBVIOUS
  <1> USE DEF Init
  <1>1. ExecTypes
    BY DEF ExecTypes
  <1>2. ASSUME NEW c \in Conns PROVE Session(c)
    BY DEF Session, Sound, Has
  <1> QED
    BY <1>1, <1>2 DEF ExecInv

\* A session of which nothing changes, or only its place in the server while
\* it has no exit to report.
LEMMA SessionKept ==
  ASSUME ExecInv, NEW c \in Conns,
         conn'[c] = conn[c] \/ conn[c] # "closed",
         proc'[c] = proc[c] \/ proc[c] # "ended",
         wrote'[c] = wrote[c], sent'[c] = sent[c], wire'[c] = wire[c],
         got'[c] = got[c], result'[c] = result[c]
  PROVE  Session(c)'
  BY DEF ExecInv, Session, Sound

\* Every step keeps the sessions' books.
LEMMA NextExecInv == ASSUME ExecInv, [Next]_vars PROVE ExecInv'
  <1> USE DEF ExecInv, ExecTypes
  <1>1. ASSUME UNCHANGED execVars, conn' \in [Conns -> Handling \cup {"none", "backlog", "closed"}],
               \A c \in Conns : conn[c] = "closed" => conn'[c] = "closed"
        PROVE  ExecInv'
    <2>1. ASSUME NEW c \in Conns PROVE Session(c)'
      BY <1>1, SessionKept DEF execVars
    <2> QED
      BY <1>1, <2>1 DEF execVars
  <1>2. CASE \/ Runtime \/ Commands \/ Adopt \/ Deadline \/ RemoveBundle
             \/ (Driver /\ ~BeginShutdown) \/ UNCHANGED vars
    <2>1. UNCHANGED execVars /\ conn' = conn
      BY <1>2 DEF Runtime, Commands, Adopt, Deadline, RemoveBundle, Driver,
         AfterCreate, ShimStarted, ShimAborts, ShimAborted, WaitInit, ShutDown,
         ShimEnds, RunStarted, RunWaited, RunEnds, srvVars, vars, execVars
    <2> QED
      BY <1>1, <2>1
  <1>3. CASE BeginShutdown
    BY <1>1, <1>3 DEF BeginShutdown
  <1>4. ASSUME NEW c \in Conns, Dial(c) \/ Accept(c) \/ Answer(c) \/ StopKills(c)
        PROVE  ExecInv'
    <2>1. UNCHANGED execVars
      BY <1>4 DEF Dial, Accept, Answer, StopKills, srvVars, execVars
    <2>2. \/ conn' = conn
          \/ /\ conn[c] \in {"none", "backlog", "wait", "stop"}
             /\ \E l \in {"backlog", "reading", "closed"} : conn' = [conn EXCEPT ![c] = l]
      BY <1>4 DEF Dial, Accept, Answer, StopKills, Conn, srvVars
    <2> QED
      BY <1>1, <2>1, <2>2 DEF Handling
  <1>5. ASSUME NEW c \in Conns, NEW r \in Requests \cup {"exec"}, Request(c, r)
        PROVE  ExecInv'
    <2>1. UNCHANGED execVars
      BY <1>5 DEF Request, execVars
    <2>2. /\ conn[c] = "reading"
          /\ \E l \in Handling \cup {"closed"} : conn' = [conn EXCEPT ![c] = l]
      BY <1>5 DEF Request, Conn, Handling
    <2> QED
      BY <1>1, <2>1, <2>2
  <1>6. ASSUME NEW c \in Conns, Hangup(c) PROVE ExecInv'
    <2>1. \/ UNCHANGED execVars /\ conn[c] = "reading" /\ conn' = [conn EXCEPT ![c] = "closed"]
          \/ /\ conn[c] = "exec" /\ result[c] = "none"
             /\ result' = [result EXCEPT ![c] = "lost"]
             /\ UNCHANGED <<conn, proc, wrote, sent, wire, got>>
      BY <1>6 DEF Hangup, Conn
    <2>2. CASE UNCHANGED execVars /\ conn[c] = "reading" /\ conn' = [conn EXCEPT ![c] = "closed"]
      BY <1>1, <2>2 DEF execVars
    <2>3. CASE /\ result' = [result EXCEPT ![c] = "lost"]
               /\ UNCHANGED <<conn, proc, wrote, sent, wire, got>>
               /\ conn[c] = "exec"
      <3>1. Session(c)'
        BY <2>3 DEF Session, Sound
      <3>2. ASSUME NEW d \in Conns \ {c} PROVE Session(d)'
        BY <2>3, SessionKept
      <3> QED
        BY <2>3, <3>1, <3>2
    <2> QED
      BY <2>1, <2>2, <2>3
  <1>7. ASSUME NEW c \in Conns, NEW s \in Streams, ProcWrites(c, s) PROVE ExecInv'
    <2>1. /\ proc[c] = "runs" /\ wrote' = [wrote EXCEPT ![c] = @ \cup {s}]
          /\ UNCHANGED <<conn, proc, sent, wire, got, result>>
      BY <1>7 DEF ProcWrites
    <2>2. Session(c)'
      BY <2>1 DEF Session, Sound
    <2>3. ASSUME NEW d \in Conns \ {c} PROVE Session(d)'
      BY <2>1, SessionKept
    <2> QED
      BY <2>1, <2>2, <2>3
  <1>8. ASSUME NEW c \in Conns, ProcEnds(c) PROVE ExecInv'
    <2>1. /\ proc[c] = "runs" /\ proc' = [proc EXCEPT ![c] = "ended"]
          /\ UNCHANGED <<conn, wrote, sent, wire, got, result>>
      BY <1>8 DEF ProcEnds
    <2>2. ASSUME NEW d \in Conns PROVE Session(d)'
      BY <2>1, SessionKept
    <2> QED
      BY <2>1, <2>2
  <1>9. ASSUME NEW c \in Conns, NEW s \in Streams, Copy(c, s) PROVE ExecInv'
    <2>1. /\ conn[c] = "exec" /\ s \in wrote[c] \ sent[c]
          /\ sent' = [sent EXCEPT ![c] = @ \cup {s}]
          /\ \/ wire' = [wire EXCEPT ![c] = Append(@, s)]
             \/ result[c] = "lost" /\ wire' = wire
          /\ UNCHANGED <<conn, proc, wrote, got, result>>
      BY <1>9 DEF Copy
    <2>2. s \in Frames /\ wire[c] \in Seq(Frames) /\ sent'[c] = sent[c] \cup {s}
      BY <2>1 DEF Frames
    <2>3. ASSUME NEW d \in Conns \ {c} PROVE Session(d)'
      BY <2>1, SessionKept
    <2>4. CASE wire' = [wire EXCEPT ![c] = Append(@, s)]
      <3>1. wire'[c] = Append(wire[c], s) /\ Append(wire[c], s) \in Seq(Frames)
        BY <2>2, <2>4
      <3>2. Sound("exec", proc[c], wrote[c], sent[c] \cup {s}, Append(wire[c], s),
                  got[c], result[c])
        BY <2>1, <2>2, SoundCopied DEF Session
      <3>3. Session(c)'
        BY <2>1, <2>2, <3>1, <3>2 DEF Session
      <3> QED
        BY <2>1, <2>3, <2>4, <3>1, <3>3
    <2>5. CASE result[c] = "lost" /\ wire' = wire
      <3>1. Session(c)'
        BY <2>1, <2>2, <2>5, SoundDropped DEF Session
      <3> QED
        BY <2>1, <2>3, <2>5, <3>1
    <2> QED
      BY <2>1, <2>4, <2>5
  <1>10. ASSUME NEW c \in Conns, WriteExit(c) PROVE ExecInv'
    <2>1. /\ conn[c] = "exec" /\ conn' = [conn EXCEPT ![c] = "closed"]
          /\ proc[c] = "ended" /\ sent[c] = wrote[c]
          /\ \/ wire' = [wire EXCEPT ![c] = Append(@, "exit")]
             \/ wire' = wire
          /\ UNCHANGED <<proc, wrote, sent, got, result>>
      BY <1>10 DEF WriteExit, Conn
    <2>2. /\ "exit" \in Frames /\ wire[c] \in Seq(Frames) /\ conn'[c] = "closed"
          /\ conn' \in [Conns -> Handling \cup {"none", "backlog", "closed"}]
      BY <2>1 DEF Frames
    <2>3. ASSUME NEW d \in Conns \ {c} PROVE Session(d)'
      BY <2>1, SessionKept
    <2>4. /\ Sound("closed", "ended", sent[c], sent[c], Append(wire[c], "exit"),
                   got[c], result[c])
          /\ Sound("closed", "ended", sent[c], sent[c], wire[c], got[c], result[c])
      BY <2>1, <2>2, SoundExited DEF Session
    <2>5. wire' \in [Conns -> Seq(Frames)]
          /\ wire'[c] \in {Append(wire[c], "exit"), wire[c]}
      <3>1. Append(wire[c], "exit") \in Seq(Frames)
        BY <2>2
      <3> QED
        BY <2>1, <3>1
    <2>6. Session(c)'
      BY <2>1, <2>2, <2>4, <2>5 DEF Session
    <2> QED
      BY <2>1, <2>2, <2>3, <2>5, <2>6
  <1>11. ASSUME NEW c \in Conns, Receive(c) PROVE ExecInv'
    <2>1. /\ wire[c] # <<>> /\ result[c] = "none"
          /\ wire' = [wire EXCEPT ![c] = Tail(@)]
          /\ \/ /\ Head(wire[c]) = "exit"
                /\ result' = [result EXCEPT ![c] = "code"] /\ got' = got
             \/ /\ Head(wire[c]) # "exit"
                /\ got' = [got EXCEPT ![c] = @ \cup {Head(wire[c])}] /\ result' = result
          /\ UNCHANGED <<conn, proc, wrote, sent>>
      BY <1>11 DEF Receive, NotExec
    <2>2. ASSUME NEW d \in Conns \ {c} PROVE Session(d)'
      BY <2>1, SessionKept
    <2>3. wire[c] \in Seq(Frames)
      OBVIOUS
    <2>4. Tail(wire[c]) \in Seq(Frames) /\ Head(wire[c]) \in Frames
      BY <2>1, <2>3, Received
    <2>5. wire'[c] = Tail(wire[c]) /\ wire' \in [Conns -> Seq(Frames)]
      BY <2>1, <2>4
    <2>6. /\ Head(wire[c]) = "exit" =>
                Sound(conn[c], proc[c], wrote[c], sent[c], Tail(wire[c]), got[c], "code")
          /\ Head(wire[c]) # "exit" =>
                Sound(conn[c], proc[c], wrote[c], sent[c], Tail(wire[c]),
                      got[c] \cup {Head(wire[c])}, "none")
      BY <2>1, <2>3, SoundReceived DEF Session
    <2>7. CASE /\ Head(wire[c]) = "exit"
               /\ result' = [result EXCEPT ![c] = "code"] /\ got' = got
      <3>1. result'[c] = "code" /\ result' \in [Conns -> {"none", "code", "lost"}]
        BY <2>7
      <3>2. Session(c)'
        BY <2>1, <2>5, <2>6, <2>7, <3>1 DEF Session
      <3> QED
        BY <2>1, <2>2, <2>5, <2>7, <3>1, <3>2
    <2>8. CASE /\ Head(wire[c]) # "exit"
               /\ got' = [got EXCEPT ![c] = @ \cup {Head(wire[c])}] /\ result' = result
      <3> DEFINE f == Head(wire[c])
      <3>1. f \in Streams
        BY <2>4, <2>8 DEF Frames
      <3>2. got' = [got EXCEPT ![c] = got[c] \cup {f}]
        BY <2>8
      <3> HIDE DEF f
      <3>3. got'[c] = got[c] \cup {f} /\ got' \in [Conns -> SUBSET Streams]
        BY <3>1, <3>2
      <3>4. Session(c)'
        BY <2>1, <2>5, <2>6, <2>8, <3>3 DEF Session, f
      <3> QED
        BY <2>1, <2>2, <2>5, <2>8, <3>3, <3>4
    <2> QED
      BY <2>1, <2>7, <2>8
  <1>12. ASSUME NEW c \in Conns, Exec(c) PROVE ExecInv'
    <2>1. /\ conn[c] = "reading"
          /\ \E l \in {"exec", "closed"} : conn' = [conn EXCEPT ![c] = l]
          /\ proc' = proc \/ \E p \in {"runs", "ended"} : proc' = [proc EXCEPT ![c] = p]
          /\ result' = result \/ result' = [result EXCEPT ![c] = "lost"]
          /\ UNCHANGED <<wrote, sent, wire, got>>
      BY <1>12 DEF Exec, Conn
    <2>2. /\ conn' \in [Conns -> Handling \cup {"none", "backlog", "closed"}]
          /\ \A d \in Conns \ {c} : conn'[d] = conn[d]
      BY <2>1 DEF Handling
    <2>3. /\ proc' \in [Conns -> {"none", "runs", "ended"}]
          /\ \A d \in Conns \ {c} : proc'[d] = proc[d]
      BY <2>1
    <2>4. /\ result' \in [Conns -> {"none", "code", "lost"}]
          /\ result'[c] \in {result[c], "lost"}
          /\ \A d \in Conns \ {c} : result'[d] = result[d]
      BY <2>1
    <2>5. Session(c)'
      BY <2>1, <2>4 DEF Session, Sound
    <2>6. ASSUME NEW d \in Conns \ {c} PROVE Session(d)'
      BY <2>1, <2>2, <2>3, <2>4, SessionKept
    <2> QED
      BY <2>1, <2>2, <2>3, <2>4, <2>5, <2>6
  <1> QED
    BY <1>2, <1>3, <1>4, <1>5, <1>6, <1>7, <1>8, <1>9, <1>10, <1>11, <1>12
       DEF Next, Handler, Asks

-----------------------------------------------------------------------------
\* The inductive invariant of the host and the program.
THEOREM HostInvariance == Spec => []HostInv
  BY InitHostInv, NextHostInv, PTL DEF Spec

\* The inductive invariant of the sessions.
THEOREM ExecInvariance == Spec => []ExecInv
  BY InitExecInv, NextExecInv, PTL DEF Spec

\* The container's command runs only in its cgroup and after its hooks.
THEOREM UsersAreConfined == Spec => []UserIsConfined
  <1>1. HostInv => UserIsConfined
    BY DEF HostInv, Staged, UserIsConfined
  <1> QED
    BY <1>1, HostInvariance, PTL

\* A live init can be found, and so deleted.
THEOREM LiveInitsAreRecorded == Spec => []LiveInitIsRecorded
  <1>1. HostInv => LiveInitIsRecorded
    BY DEF HostInv, Recorded, LiveInitIsRecorded, Alive
  <1> QED
    BY <1>1, HostInvariance, PTL

\* A create, or `run`, that fails takes back all it has put on the host.
THEOREM FailedCreatesLeaveNothing == Spec => []FailedCreateLeavesNothing
  <1>1. HostInv => FailedCreateLeavesNothing
    BY DEF HostInv, Types, Undoable, Registered, Pending,
       FailedCreateLeavesNothing, NothingLeft
  <1> QED
    BY <1>1, HostInvariance, PTL

\* Nor does the end of a container leave anything, if its bundle is there.
THEOREM EndsLeaveNothing == Spec => []EndLeavesNothing
  <1>1. HostInv => EndLeavesNothing
    BY DEF HostInv, Ending, EndLeavesNothing
  <1> QED
    BY <1>1, HostInvariance, PTL

\* Whoever gets an exit code has all the output.
THEOREM ExecsAreComplete == Spec => []ExecComplete
  <1>1. ExecInv => ExecComplete
    BY DEF ExecInv, Session, Sound, ExecComplete, ExecTypes
  <1> QED
    BY <1>1, ExecInvariance, PTL
=============================================================================
