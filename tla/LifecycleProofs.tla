--------------------------- MODULE LifecycleProofs ---------------------------
(***************************************************************************)
(* Proofs about Lifecycle, for any requests, operations, faults, crashes   *)
(* and generations.                                                        *)
(***************************************************************************)
EXTENDS Lifecycle, TLAPS

\* Between taking opMu and marking the container Running, and in a rollback,
\* a start knows that the daemon does not hold the container to be Running.
Preparing(c) == pc[c] \in {"prepare", "spawn", "mark", "rollback"}

\* What a start has established at each point of its progress.
StartInv ==
    \A c \in Clients :
        /\ Preparing(c) => st # "running"
        /\ HandingOver(c) => st = "running" /\ done = gen
        /\ pc[c] = "mark" \/ HandingOver(c) =>
               gen \in Gens /\ waiter[gen] = "none"

\* Generations are taken in order, and a waiter before its mark is that of
\* the present one, whose container the daemon holds to be Running.
WaiterInv ==
    /\ \A g \in Gens : g > gen => waiter[g] = "none"
    /\ \A g \in Gens : Watching(g) => g = gen /\ done = g /\ st = "running"

\* Running has an owner.
OwnerInv ==
    up = "up" /\ st = "running" =>
        \/ \E g \in Gens : Watching(g)
        \/ \E c \in Clients : HandingOver(c)

\* A daemon that is down or still in New serves nobody and waits for nobody,
\* and New goes by the state it has read.
DownInv ==
    /\ up # "up" => /\ \A c \in Clients : pc[c] = "idle"
                    /\ \A g \in Gens : waiter[g] \in {"none", "gone"}
    /\ up = "boot" => st = "running"
    /\ up = "bootpersist" => st = "stopped"

Core == /\ LifecycleSerialised
        /\ StartInv
        /\ WaiterInv
        /\ OwnerInv
        /\ DownInv

IInv == TypeOK /\ Core

-----------------------------------------------------------------------------
(* Type correctness.                                                       *)

\* The initial state is well typed.
LEMMA InitType == Init => TypeOK
  <1> SUFFICES ASSUME Init PROVE TypeOK
    OBVIOUS
  <1>1. ShimTypeOK
    BY DEF Init, ShimInit, ShimTypeOK, ShimStates, InitStates
  <1>2. /\ Preclosed \in Channels /\ 0 \in Channels /\ 0 \in 0 .. MaxGen
        /\ {Preclosed} \subseteq Channels
    BY MaxGenAssumption DEF Channels, Preclosed
  <1>3. /\ waiter \in [Gens -> WaiterPCs]
        /\ conn \in [Gens -> {0} \cup Gens]
        /\ pc \in [Clients -> PCs]
        /\ op \in [Clients -> AllOps]
        /\ arg \in [Clients -> Channels]
    BY <1>2 DEF Init, WaiterPCs, PCs, AllOps
  <1> QED
    BY <1>1, <1>2, <1>3 DEF Init, TypeOK, MemStates

\* The steps of the shim and of init.
LEMMA HostType ==
  ASSUME ShimTypeOK, NEW g \in Gens,
         \/ SpawnReady(g) \/ SpawnRefused(g) \/ SpawnTimeout(g)
         \/ HandleStop(g) \/ HandleKill(g) \/ HandleDelete(g)
         \/ InitExit(g) \/ Shutdown(g) \/ ShimExit(g, bundle) \/ ShimLost(g)
  PROVE  ShimTypeOK'
  BY DEF ShimTypeOK, SpawnReady, SpawnRefused, SpawnTimeout, HandleStop,
         HandleKill, HandleDelete, InitExit, Shutdown, ShimExit, ShimLost,
         shimVars, ShimStates, InitStates

\* The three functions about requests.
RequestsOK == /\ pc \in [Clients -> PCs]
              /\ op \in [Clients -> AllOps]
              /\ arg \in [Clients -> Channels]

\* So is what a request leaves when it returns.
LEMMA ReturnType ==
  ASSUME TypeOK, NEW c \in Clients, Return(c)
  PROVE  RequestsOK'
  BY MaxGenAssumption, SMTT(30)
     DEF TypeOK, Return, RequestsOK, PCs, AllOps, Channels, Preclosed

\* The overlay is mounted or the start is rolled back.
LEMMA PrepareStep ==
  ASSUME TypeOK, NEW c \in Clients, StartPrepare(c)
  PROVE  /\ up = "up" /\ pc[c] = "prepare"
         /\ \/ pc' = [pc EXCEPT ![c] = "spawn"] /\ mounts' = mounts + 1
            \/ pc' = [pc EXCEPT ![c] = "rollback"] /\ mounts' \in {mounts, mounts + 1}
         /\ bundle' \in {bundle, TRUE, FALSE}
         /\ UNCHANGED <<shimVars, overlay, wiped, life, config, gen, opMu, done,
                        closed, waiters, op, arg>>
  BY DEF StartPrepare, At, Goto

\* The container's directory is removed, or the removal fails half-way.
LEMMA RemoveStep ==
  ASSUME TypeOK, NEW c \in Clients, RemoveDir(c)
  PROVE  /\ up = "up" /\ pc[c] = "rmdir" /\ opMu = NoOne
         /\ \/ pc' = [pc EXCEPT ![c] = "rmfinish"] /\ opMu' = c
               /\ UNCHANGED <<op, arg>>
            \/ pc' = [pc EXCEPT ![c] = "idle"] /\ opMu' = NoOne /\ Return(c)
         /\ disk' \in {disk, "none"} /\ bundle' \in {bundle, FALSE}
         /\ UNCHANGED <<shimVars, overlay, mounts, wiped, life, registered, st,
                        gen, done, closed, waiters>>
  BY DEF RemoveDir, At, Lock, Goto, Return

\* Stuttering keeps types.
LEMMA StutterType == ASSUME TypeOK, UNCHANGED vars PROVE TypeOK'
  BY SMTT(30) DEF vars, shimVars, TypeOK, ShimTypeOK

\* Every step keeps types.
LEMMA NextType == TypeOK /\ [Next]_vars => TypeOK'
  <1> SUFFICES ASSUME TypeOK, [Next]_vars PROVE TypeOK'
    OBVIOUS
  <1> USE MaxGenAssumption
      DEF TypeOK, At, Goto, Return, GotoWith, Lock, Unlock, WaiterAt,
          WaiterGoto, host, config, life, waiters, requests, MemStates,
          WaiterPCs, PCs, StartPCs, AllOps, Channels, Preclosed
  <1>1. ASSUME NEW c \in Clients, NEW o \in Ops, Call(c, o) PROVE TypeOK'
    BY <1>1, LifecycleAssumption, SMTT(30) DEF Call, Entry, ShimTypeOK, shimVars
  <1>2. ASSUME NEW c \in Clients, StartLock(c) PROVE TypeOK'
    BY <1>2, SMTT(30) DEF StartLock, ShimTypeOK, shimVars
  <1>3. ASSUME NEW c \in Clients, StartPrepare(c) PROVE TypeOK'
    <2>1. /\ up = "up" /\ pc[c] = "prepare"
          /\ \/ pc' = [pc EXCEPT ![c] = "spawn"] /\ mounts' = mounts + 1
             \/ pc' = [pc EXCEPT ![c] = "rollback"] /\ mounts' \in {mounts, mounts + 1}
          /\ bundle' \in {bundle, TRUE, FALSE}
          /\ UNCHANGED <<shimVars, overlay, wiped, life, config, gen, opMu, done,
                         closed, waiters, op, arg>>
      BY <1>3, PrepareStep
    <2>2. pc' \in [Clients -> PCs] /\ mounts' \in Nat /\ bundle' \in BOOLEAN
      <3>1. pc' \in [Clients -> PCs] /\ mounts' \in Nat
        BY <2>1
      <3>2. bundle' \in BOOLEAN
        BY <2>1
      <3> QED
        BY <3>1, <3>2
    <2> QED
      BY <2>1, <2>2, SMTT(30) DEF ShimTypeOK, shimVars
  <1>4. ASSUME NEW c \in Clients, StartShim(c) PROVE TypeOK'
    <2>1. gen' \in Gens
      BY <1>4, LifecycleAssumption DEF StartShim, Gens
    <2>2. ShimTypeOK'
      BY <1>4, <2>1, HostType DEF StartShim
    <2>3. pc' \in [Clients -> PCs] /\ UNCHANGED <<op, arg>>
      BY <1>4 DEF StartShim
    <2>4. UNCHANGED <<bundle, overlay, mounts, wiped, life, config, opMu, done,
                      closed, waiters>>
      BY <1>4 DEF StartShim
    <2> QED
      BY <2>1, <2>2, <2>3, <2>4, SMTT(30) DEF Gens
  <1>5. ASSUME NEW c \in Clients, StartMark(c) PROVE TypeOK'
    BY <1>5, SMTT(30) DEF StartMark, Gens, ShimTypeOK, shimVars
  <1>6. ASSUME NEW c \in Clients, StartPersist(c) PROVE TypeOK'
    BY <1>6, SMTT(30) DEF StartPersist, PersistConfig, ShimTypeOK, shimVars
  <1>7. ASSUME NEW c \in Clients, StartWatch(c) PROVE TypeOK'
    <2>1. RequestsOK'
      BY <1>7, ReturnType DEF StartWatch
    <2>2. waiter' \in [Gens -> WaiterPCs]
      BY <1>7 DEF StartWatch
    <2> HIDE DEF Return
    <2> QED
      BY <1>7, <2>1, <2>2, SMTT(30)
         DEF StartWatch, RequestsOK, ShimTypeOK, shimVars
  <1>8. ASSUME NEW c \in Clients, StartRollback(c) PROVE TypeOK'
    BY <1>8, SMTT(30) DEF StartRollback, Teardown, ShimTypeOK, shimVars
  <1>9. ASSUME NEW c \in Clients, StopLookup(c) PROVE TypeOK'
    BY <1>9, SMTT(30) DEF StopLookup, ShimTypeOK, shimVars
  <1>10. ASSUME NEW c \in Clients, StopCheck(c) PROVE TypeOK'
    BY <1>10, SMTT(30) DEF StopCheck, ShimTypeOK, shimVars
  <1>11. ASSUME NEW c \in Clients, StopDial(c) PROVE TypeOK'
    <2>1. CASE \E g \in Gens : Dials(g) /\ HandleStop(g)
                                 /\ GotoWith(c, "stopping", g)
      <3>1. PICK g \in Gens : HandleStop(g) /\ GotoWith(c, "stopping", g)
        BY <2>1
      <3>2. ShimTypeOK'
        BY <3>1, HostType
      <3>3. g \in Channels
        BY DEF Gens
      <3> QED
        BY <1>11, <3>1, <3>2, <3>3, SMTT(30) DEF StopDial
    <2>2. CASE Return(c) /\ UNCHANGED shimVars
      BY <1>11, <2>2, SMTT(30) DEF StopDial, ShimTypeOK, shimVars
    <2> QED
      BY <1>11, <2>1, <2>2 DEF StopDial
  <1>12. ASSUME NEW c \in Clients, StopReply(c) PROVE TypeOK'
    BY <1>12, SMTT(30) DEF StopReply, ShimTypeOK, shimVars
  <1>13. ASSUME NEW c \in Clients, ReadDone(c) PROVE TypeOK'
    BY <1>13, SMTT(30) DEF ReadDone, ShimTypeOK, shimVars
  <1>14. ASSUME NEW c \in Clients, Receive(c) PROVE TypeOK'
    BY <1>14, SMTT(30) DEF Receive, ShimTypeOK, shimVars
  <1>15. ASSUME NEW c \in Clients, KillLock(c) PROVE TypeOK'
    BY <1>15, SMTT(30) DEF KillLock, ShimTypeOK, shimVars
  <1>16. ASSUME NEW c \in Clients, KillSend(c) PROVE TypeOK'
    <2>1. ShimTypeOK'
      BY <1>16, HostType, SMTT(30) DEF KillSend, ShimTypeOK, shimVars, Dials
    <2> QED
      BY <1>16, <2>1, SMTT(30) DEF KillSend, Dials
  <1>17. ASSUME NEW c \in Clients, RemoveCheck(c) PROVE TypeOK'
    BY <1>17, SMTT(30) DEF RemoveCheck, ShimTypeOK, shimVars
  <1>18. ASSUME NEW c \in Clients, RemoveDir(c) PROVE TypeOK'
    <2>1. RequestsOK'
      <3>1. CASE pc' = [pc EXCEPT ![c] = "rmfinish"] /\ UNCHANGED <<op, arg>>
        BY <3>1 DEF RequestsOK
      <3>2. CASE Return(c)
        BY <3>2, ReturnType
      <3> QED
        BY <1>18, <3>1, <3>2, RemoveStep
    <2>2. /\ opMu' \in Clients \cup {NoOne}
          /\ disk' \in {disk, "none"} /\ bundle' \in {bundle, FALSE}
          /\ UNCHANGED <<shimVars, overlay, mounts, wiped, life, registered, st,
                         gen, done, closed, waiters>>
      BY <1>18, RemoveStep
    <2>3. disk' \in MemStates \cup {"none"} /\ bundle' \in BOOLEAN
      BY <2>2
    <2> HIDE DEF Return
    <2> QED
      BY <2>1, <2>2, <2>3, SMTT(30) DEF RequestsOK, ShimTypeOK, shimVars
  <1>19. ASSUME NEW c \in Clients, RemoveFinish(c) PROVE TypeOK'
    <2>1. RequestsOK'
      BY <1>19, ReturnType DEF RemoveFinish
    <2>2. overlay' \in {overlay, FALSE} /\ registered' = FALSE /\ opMu' = NoOne
          /\ UNCHANGED <<shimVars, bundle, mounts, wiped, life, st, disk, gen,
                         done, closed, waiters>>
      BY <1>19 DEF RemoveFinish
    <2>3. overlay' \in BOOLEAN /\ registered' \in BOOLEAN
      BY <2>2
    <2> HIDE DEF Return
    <2> QED
      BY <2>1, <2>2, <2>3, SMTT(30) DEF RequestsOK, ShimTypeOK, shimVars
  <1>20. ASSUME NEW g \in Gens, WaiterDial(g) PROVE TypeOK'
    BY <1>20, SMTT(30) DEF WaiterDial, Dials, ShimTypeOK, shimVars
  <1>21. ASSUME NEW g \in Gens, WaiterReply(g) PROVE TypeOK'
    BY <1>21, SMTT(30) DEF WaiterReply, ShimTypeOK, shimVars
  <1>22. ASSUME NEW g \in Gens, WaiterTeardown(g) PROVE TypeOK'
    BY <1>22, SMTT(30) DEF WaiterTeardown, Teardown, ShimTypeOK, shimVars
  <1>23. ASSUME NEW g \in Gens, WaiterMark(g) PROVE TypeOK'
    BY <1>23, SMTT(30) DEF WaiterMark, ShimTypeOK, shimVars
  <1>24. ASSUME NEW g \in Gens, WaiterPersist(g) PROVE TypeOK'
    BY <1>24, SMTT(30) DEF WaiterPersist, PersistConfig, ShimTypeOK, shimVars
  <1>25. ASSUME NEW g \in Gens, WaiterDelete(g) PROVE TypeOK'
    <2>1. ShimTypeOK'
      BY <1>25, HostType, SMTT(30) DEF WaiterDelete, ShimTypeOK, shimVars, Dials
    <2> QED
      BY <1>25, <2>1, SMTT(30) DEF WaiterDelete, Dials
  <1>26. ASSUME NEW g \in Gens, WaiterClose(g) PROVE TypeOK'
    <2>1. CASE done \notin closed
      <3>1. closed' \subseteq Channels /\ waiter' \in [Gens -> WaiterPCs]
        BY <1>26, <2>1 DEF WaiterClose
      <3> QED
        BY <1>26, <2>1, <3>1, SMTT(30) DEF WaiterClose, ShimTypeOK, shimVars
    <2>2. CASE done \in closed
      <3>1. LoseMemory /\ UNCHANGED <<host, config, gen>>
            /\ panicked' = TRUE /\ crashes' = crashes + 1
        BY <1>26, <2>2 DEF WaiterClose
      <3> QED
        BY <3>1, SMTT(30) DEF LoseMemory, ShimTypeOK, shimVars
    <2> QED
      BY <2>1, <2>2
  <1>27. ASSUME NEW g \in Gens, ShimStep(g) PROVE TypeOK'
    <2>1. ShimTypeOK'
      BY <1>27, HostType, SMTT(30) DEF ShimStep, DaemonVarsUnchanged, ShimTypeOK, shimVars, Dials
    <2> QED
      BY <1>27, <2>1, SMTT(30) DEF ShimStep, DaemonVarsUnchanged, Dials
  <1>28. ASSUME Crash PROVE TypeOK'
    BY <1>28, SMTT(30) DEF Crash, LoseMemory, ShimTypeOK, shimVars
  <1>29. ASSUME Restart PROVE TypeOK'
    BY <1>29, SMTT(30) DEF Restart, ShimTypeOK, shimVars
  <1>30. ASSUME Reconnect PROVE TypeOK'
    BY <1>30, SMTT(30) DEF Reconnect, Gens, ShimTypeOK, shimVars
  <1>31. ASSUME BootCleanup PROVE TypeOK'
    BY <1>31, SMTT(30) DEF BootCleanup, Teardown, ShimTypeOK, shimVars
  <1>32. ASSUME BootPersist PROVE TypeOK'
    BY <1>32, SMTT(30) DEF BootPersist, PersistConfig, ShimTypeOK, shimVars
  <1>33. CASE UNCHANGED vars
    BY <1>33, StutterType
  <1> QED
    BY <1>1, <1>2, <1>3, <1>4, <1>5, <1>6, <1>7, <1>8, <1>9, <1>10, <1>11, <1>12, <1>13, <1>14, <1>15, <1>16, <1>17, <1>18, <1>19, <1>20, <1>21, <1>22, <1>23, <1>24, <1>25, <1>26, <1>27, <1>28, <1>29, <1>30, <1>31, <1>32, <1>33
       DEF Next, ClientStep, Start, Stop, Await, Kill, Remove, Waiter, Boot

-----------------------------------------------------------------------------
(* The inductive invariant.                                                *)

\* What the steps of the shims and of init leave alone.
coreVars == <<up, st, gen, opMu, done, waiter, pc>>

\* Core depends on coreVars alone.
LEMMA CoreFrame == ASSUME Core, UNCHANGED coreVars PROVE Core'
  BY DEF Core, coreVars, LifecycleSerialised, StartInv, WaiterInv, OwnerInv,
         DownInv, InStart, HandingOver, Preparing, Watching

\* Every step keeps Core.
LEMMA NextCore == IInv /\ [Next]_vars => Core'
  <1> SUFFICES ASSUME IInv, [Next]_vars PROVE Core'
    OBVIOUS
  <1>0. TypeOK /\ TypeOK' /\ Core
    BY NextType DEF IInv
  <1> USE LifecycleAssumption, MaxGenAssumption
      DEF TypeOK, Core, LifecycleSerialised, StartInv, WaiterInv, OwnerInv,
          DownInv, InStart, HandingOver, Preparing, Watching, StartPCs, At,
          Goto, Return, GotoWith, Lock, Unlock, WaiterAt, WaiterGoto, life,
          config, waiters, requests
  <1>1. ASSUME NEW c \in Clients, NEW o \in Ops, Call(c, o) PROVE Core'
    <2>1. Entry[o] \in {"startlock", "stopcheck", "killlock", "rmcheck",
                       "readdone"}
      BY DEF Entry, AllOps
    <2>2. /\ up = "up" /\ pc[c] = "idle"
          /\ pc' = [pc EXCEPT ![c] = Entry[o]]
          /\ UNCHANGED <<up, st, gen, opMu, done, waiter>>
      BY <1>1 DEF Call
    <2> QED
      BY <1>0, <2>1, <2>2
  <1>2. ASSUME NEW c \in Clients, StartLock(c) PROVE Core'
    BY <1>0, <1>2, SMTT(20) DEF StartLock
  <1>3. ASSUME NEW c \in Clients, StartPrepare(c) PROVE Core'
    <2>1. /\ up = "up" /\ pc[c] = "prepare"
          /\ \E l \in {"spawn", "rollback"} : pc' = [pc EXCEPT ![c] = l]
          /\ UNCHANGED <<up, st, gen, opMu, done, waiter>>
      BY <1>0, <1>3, PrepareStep
    <2> QED
      BY <1>0, <2>1, SMTT(20)
  <1>4. ASSUME NEW c \in Clients, StartShim(c) PROVE Core'
    <2>1. /\ up = "up" /\ pc[c] = "spawn" /\ st # "running"
          /\ \E l \in {"mark", "rollback"} : pc' = [pc EXCEPT ![c] = l]
          /\ UNCHANGED <<up, st, opMu, done, waiter>>
      BY <1>0, <1>4 DEF StartShim
    <2>2. gen' \in Gens /\ gen' > gen /\ gen \in Nat /\ waiter[gen'] = "none"
      BY <1>0, <1>4 DEF StartShim, Gens
    <2>3. StartInv' /\ LifecycleSerialised'
      BY <1>0, <2>1, <2>2
    <2>4. WaiterInv'
      <3>1. \A g \in Gens : g > gen' => waiter[g] = "none"
        BY <1>0, <2>2 DEF Gens
      <3> QED
        BY <1>0, <2>1, <3>1
    <2>5. OwnerInv' /\ DownInv'
      BY <1>0, <2>1
    <2> QED
      BY <2>3, <2>4, <2>5
  <1>5. ASSUME NEW c \in Clients, StartMark(c) PROVE Core'
    BY <1>0, <1>5, SMTT(20) DEF StartMark
  <1>6. ASSUME NEW c \in Clients, StartPersist(c) PROVE Core'
    BY <1>0, <1>6, SMTT(20) DEF StartPersist
  <1>7. ASSUME NEW c \in Clients, StartWatch(c) PROVE Core'
    BY <1>0, <1>7, SMTT(20) DEF StartWatch
  <1>8. ASSUME NEW c \in Clients, StartRollback(c) PROVE Core'
    BY <1>0, <1>8, SMTT(20) DEF StartRollback
  <1>9. ASSUME NEW c \in Clients, StopLookup(c) PROVE Core'
    BY <1>0, <1>9, SMTT(20) DEF StopLookup
  <1>10. ASSUME NEW c \in Clients, StopCheck(c) PROVE Core'
    BY <1>0, <1>10, SMTT(20) DEF StopCheck
  <1>11. ASSUME NEW c \in Clients, StopDial(c) PROVE Core'
    BY <1>0, <1>11, SMTT(20) DEF StopDial
  <1>12. ASSUME NEW c \in Clients, StopReply(c) PROVE Core'
    BY <1>0, <1>12, SMTT(20) DEF StopReply
  <1>13. ASSUME NEW c \in Clients, ReadDone(c) PROVE Core'
    BY <1>0, <1>13, SMTT(20) DEF ReadDone
  <1>14. ASSUME NEW c \in Clients, Receive(c) PROVE Core'
    BY <1>0, <1>14, SMTT(20) DEF Receive
  <1>15. ASSUME NEW c \in Clients, KillLock(c) PROVE Core'
    BY <1>0, <1>15, SMTT(20) DEF KillLock
  <1>16. ASSUME NEW c \in Clients, KillSend(c) PROVE Core'
    BY <1>0, <1>16, SMTT(20) DEF KillSend
  <1>17. ASSUME NEW c \in Clients, RemoveCheck(c) PROVE Core'
    BY <1>0, <1>17, SMTT(20) DEF RemoveCheck
  <1>18. ASSUME NEW c \in Clients, RemoveDir(c) PROVE Core'
    <2>1. /\ pc[c] = "rmdir" /\ opMu = NoOne
          /\ \/ pc' = [pc EXCEPT ![c] = "rmfinish"] /\ opMu' = c
             \/ pc' = [pc EXCEPT ![c] = "idle"] /\ opMu' = NoOne
          /\ UNCHANGED <<up, st, gen, done, waiter>>
      BY <1>0, <1>18, RemoveStep
    <2> QED
      BY <1>0, <2>1, SMTT(20)
  <1>19. ASSUME NEW c \in Clients, RemoveFinish(c) PROVE Core'
    BY <1>0, <1>19, SMTT(20) DEF RemoveFinish
  <1>20. ASSUME NEW g \in Gens, WaiterDial(g) PROVE Core'
    BY <1>0, <1>20, SMTT(20) DEF WaiterDial
  <1>21. ASSUME NEW g \in Gens, WaiterReply(g) PROVE Core'
    BY <1>0, <1>21, SMTT(20) DEF WaiterReply
  <1>22. ASSUME NEW g \in Gens, WaiterTeardown(g) PROVE Core'
    BY <1>0, <1>22, SMTT(20) DEF WaiterTeardown
  <1>23. ASSUME NEW g \in Gens, WaiterMark(g) PROVE Core'
    BY <1>0, <1>23, SMTT(20) DEF WaiterMark
  <1>24. ASSUME NEW g \in Gens, WaiterPersist(g) PROVE Core'
    BY <1>0, <1>24, SMTT(20) DEF WaiterPersist
  <1>25. ASSUME NEW g \in Gens, WaiterDelete(g) PROVE Core'
    BY <1>0, <1>25, SMTT(20) DEF WaiterDelete
  <1>26. ASSUME NEW g \in Gens, WaiterClose(g) PROVE Core'
    BY <1>0, <1>26, SMTT(20) DEF WaiterClose, LoseMemory
  <1>27. ASSUME NEW g \in Gens, ShimStep(g) PROVE Core'
    BY <1>0, <1>27, CoreFrame DEF coreVars, ShimStep, DaemonVarsUnchanged
  <1>28. ASSUME Crash PROVE Core'
    BY <1>0, <1>28, SMTT(20) DEF Crash, LoseMemory
  <1>29. ASSUME Restart PROVE Core'
    BY <1>0, <1>29, SMTT(20) DEF Restart
  <1>30. ASSUME Reconnect PROVE Core'
    <2>1. /\ up = "boot" /\ up' = "up" /\ st = "running"
          /\ waiter' = [waiter EXCEPT ![gen'] = "dial"]
          /\ done' = gen'
          /\ UNCHANGED <<st, opMu, pc>>
      BY <1>0, <1>30 DEF Reconnect
    <2>2. gen' \in Gens /\ gen' > gen /\ gen \in Nat
      BY <1>0, <1>30 DEF Reconnect, Gens
    <2>3. \A g \in Gens : Watching(g)' => g = gen'
      BY <1>0, <2>1
    <2>4. WaiterInv'
      <3>1. \A g \in Gens : g > gen' => g > gen /\ g # gen'
        BY <2>2 DEF Gens
      <3> QED
        BY <1>0, <2>1, <2>3, <3>1
    <2>5. LifecycleSerialised' /\ StartInv' /\ DownInv'
      BY <1>0, <2>1
    <2>6. OwnerInv'
      BY <1>0, <2>1, <2>2
    <2> QED
      BY <2>4, <2>5, <2>6
  <1>31. ASSUME BootCleanup PROVE Core'
    BY <1>0, <1>31, SMTT(20) DEF BootCleanup
  <1>32. ASSUME BootPersist PROVE Core'
    BY <1>0, <1>32, SMTT(20) DEF BootPersist
  <1>33. CASE UNCHANGED vars
    BY <1>0, <1>33, CoreFrame DEF coreVars, vars
  <1> HIDE DEF Core
  <1> QED
    BY <1>1, <1>2, <1>3, <1>4, <1>5, <1>6, <1>7, <1>8, <1>9, <1>10,
       <1>11, <1>12, <1>13, <1>14, <1>15, <1>16, <1>17, <1>18, <1>19,
       <1>20, <1>21, <1>22, <1>23, <1>24, <1>25, <1>26, <1>27, <1>28,
       <1>29, <1>30, <1>31, <1>32, <1>33
       DEF Next, ClientStep, Start, Stop, Await, Kill, Remove, Waiter, Boot

\* The inductive invariant of the composed model.
THEOREM Invariance == Spec => []IInv
  <1>1. Init => IInv
    <2> SUFFICES ASSUME Init PROVE Core
      BY InitType DEF IInv
    <2> QED
      BY LifecycleAssumption
         DEF Init, Core, LifecycleSerialised, StartInv, WaiterInv, OwnerInv,
             DownInv, InStart, HandingOver, Preparing, Watching, StartPCs
  <1>2. IInv /\ [Next]_vars => IInv'
    BY NextType, NextCore DEF IInv
  <1> QED
    BY <1>1, <1>2, PTL DEF Spec

-----------------------------------------------------------------------------
(* What follows from it.                                                   *)

\* Type correctness.
THEOREM TypeCorrect == Spec => []TypeOK
  BY Invariance, PTL DEF IInv

\* Whatever requests, faults and crashes interleave, and however often the
\* container is started, a container the daemon holds to be Running has
\* exactly the owners of its cleanup it needs.
THEOREM RunningHasAnOwner == Spec => []WatchedWhileRunning
  <1>1. IInv => WatchedWhileRunning
    <2> SUFFICES ASSUME IInv, up = "up"
                 PROVE  st = "running" <=>
                          \/ \E g \in Gens : Watching(g)
                          \/ \E c \in Clients : HandingOver(c)
      BY DEF WatchedWhileRunning
    <2>1. ASSUME NEW g \in Gens, Watching(g) PROVE st = "running"
      BY <2>1 DEF IInv, Core, WaiterInv
    <2>2. ASSUME NEW c \in Clients, HandingOver(c) PROVE st = "running"
      BY <2>2 DEF IInv, Core, StartInv
    <2> QED
      BY <2>1, <2>2 DEF IInv, Core, OwnerInv
  <1> QED
    BY <1>1, Invariance, PTL

\* No waiter of an earlier start ever gets to tear down a later one.
THEOREM NoLateWaiter == Spec => []OnlyPresentGenerationWatched
  <1>1. IInv => OnlyPresentGenerationWatched
    BY DEF IInv, Core, WaiterInv, OnlyPresentGenerationWatched
  <1> QED
    BY <1>1, Invariance, PTL

\* opMu serialises starts, kills and removes.
THEOREM OneAtATime == Spec => []LifecycleSerialised
  <1>1. IInv => LifecycleSerialised
    BY DEF IInv, Core
  <1> QED
    BY <1>1, Invariance, PTL

\* The daemon's memory of a container's state follows the state machine.
THEOREM FollowsStateMachine == Spec => StateMachine
  <1> DEFINE Drawn ==
        \/ st' = "running" /\ \E c \in Clients : InStart(c)
        \/ st = "running" /\ st' = "stopped" /\ \E g \in Gens : Watching(g)
  <1>1. IInv /\ [Next]_vars =>
          [up = "up" /\ up' = "up" /\ st' # st => Drawn]_vars
    <2> SUFFICES ASSUME IInv, [Next]_vars, up = "up", up' = "up", st' # st
                 PROVE  Drawn
      OBVIOUS
    <2>1. ASSUME NEW c \in Clients, StartMark(c) PROVE Drawn
      BY <2>1 DEF StartMark, At, InStart, StartPCs
    <2>2. ASSUME NEW g \in Gens, WaiterMark(g) PROVE Drawn
      <3>1. Watching(g)
        BY <2>2 DEF WaiterMark, WaiterAt, Watching
      <3>2. st = "running"
        BY <3>1 DEF IInv, Core, WaiterInv
      <3> QED
        BY <2>2, <3>1, <3>2 DEF WaiterMark
    <2>3. ASSUME NEW c \in Clients,
                 \/ \E o \in Ops : Call(c, o)
                 \/ StartLock(c) \/ StartPrepare(c) \/ StartShim(c)
                 \/ StartPersist(c) \/ StartWatch(c) \/ StartRollback(c)
                 \/ Stop(c) \/ Await(c) \/ Kill(c) \/ Remove(c)
          PROVE  UNCHANGED st
      BY <2>3 DEF Call, StartLock, StartPrepare, StartShim, StartPersist,
         StartWatch, StartRollback, Stop, StopLookup, StopCheck, StopDial,
         StopReply, Await, ReadDone, Receive, Kill, KillLock, KillSend,
         Remove, RemoveCheck, RemoveDir, RemoveFinish, config
    <2>4. ASSUME NEW g \in Gens,
                 \/ WaiterDial(g) \/ WaiterReply(g) \/ WaiterTeardown(g)
                 \/ WaiterPersist(g) \/ WaiterDelete(g) \/ WaiterClose(g)
                 \/ ShimStep(g)
          PROVE  UNCHANGED st
      BY <2>4 DEF WaiterDial, WaiterReply, WaiterTeardown, WaiterPersist,
         WaiterDelete, WaiterClose, ShimStep, DaemonVarsUnchanged, config
    <2>5. ~Crash /\ ~Boot
      BY DEF Crash, LoseMemory, Boot, Restart, Reconnect, BootCleanup,
         BootPersist
    <2> HIDE DEF Drawn
    <2> QED
      BY <2>1, <2>2, <2>3, <2>4, <2>5
         DEF Next, ClientStep, Start, Waiter, vars
  <1> QED
    BY <1>1, Invariance, PTL DEF Spec, StateMachine

-----------------------------------------------------------------------------
(* Lifecycle implements Custody: each step of the daemon is a step of       *)
(* Custody or leaves the custody alone.                                     *)

(* Who answers for the container, read off the state of the daemon.        *)

\* With a start in its critical part, a start owns the cleanup.
LEMMA StartOwns ==
  ASSUME up = "up", NEW c \in Clients, InStart(c)
  PROVE  CustodyOwner = "start"
  BY DEF CustodyOwner

\* A start and a waiter never answer for it at the same time.
LEMMA WatchedIsNotStarting ==
  ASSUME IInv, NEW g \in Gens, Watching(g)
  PROVE  \A c \in Clients : ~InStart(c)
  <1> SUFFICES ASSUME NEW c \in Clients, InStart(c) PROVE FALSE
    OBVIOUS
  <1>1. g = gen /\ st = "running"
    BY DEF IInv, Core, WaiterInv
  <1>2. Preparing(c) \/ HandingOver(c)
    BY DEF InStart, StartPCs, Preparing, HandingOver
  <1>3. ~Preparing(c)
    BY <1>1 DEF IInv, Core, StartInv
  <1>4. waiter[gen] = "none"
    BY <1>2, <1>3 DEF IInv, Core, StartInv
  <1> QED
    BY <1>1, <1>4 DEF Watching

\* With a waiter at work, a waiter owns it.
LEMMA WaiterOwns ==
  ASSUME IInv, up = "up", NEW g \in Gens, Watching(g)
  PROVE  CustodyOwner = "waiter"
  BY WatchedIsNotStarting DEF CustodyOwner

\* With neither, nobody does.
LEMMA NobodyOwns ==
  ASSUME \A c \in Clients : ~InStart(c), \A g \in Gens : ~Watching(g)
  PROVE  CustodyOwner = "nobody"
  BY DEF CustodyOwner

\* Without opMu taken and outside Running there is nobody to answer for it.
LEMMA FreeMeansNobody ==
  ASSUME IInv, opMu = NoOne, st # "running"
  PROVE  CustodyOwner = "nobody"
  <1>1. \A c \in Clients : ~InStart(c)
    BY LifecycleAssumption DEF IInv, Core, LifecycleSerialised
  <1>2. \A g \in Gens : ~Watching(g)
    BY DEF IInv, Core, WaiterInv
  <1> QED
    BY <1>1, <1>2, NobodyOwns

\* A daemon that does not serve answers for nothing, and nothing of it stays
\* behind that would.
LEMMA AwayMeansNobody ==
  ASSUME up # "up"
  PROVE  CustodyOwner = "nobody" /\ CustodyState = "unknown"
  BY DEF CustodyOwner, CustodyState

\* While the daemon is down there is neither.
LEMMA NothingLeft ==
  ASSUME IInv, up # "up"
  PROVE  /\ \A c \in Clients : ~InStart(c)
         /\ \A g \in Gens : ~Watching(g)
  BY DEF IInv, Core, DownInv, InStart, StartPCs, Watching

\* Steps that change neither the state nor who stands where.
LEMMA Untouched ==
  ASSUME UNCHANGED <<up, st>>,
         \A c \in Clients : InStart(c)' <=> InStart(c),
         \A g \in Gens : Watching(g)' <=> Watching(g)
  PROVE  UNCHANGED Custody!custodyVars
  <1>1. CustodyState' = CustodyState
    BY DEF CustodyState
  <1>2. CustodyOwner' = CustodyOwner
    BY DEF CustodyOwner
  <1> QED
    BY <1>1, <1>2 DEF Custody!custodyVars

-----------------------------------------------------------------------------
(* The steps.                                                              *)

\* Taking opMu for a start is Take, or a stutter when the container runs.
LEMMA TakeStep ==
  ASSUME IInv, IInv', NEW c \in Clients, StartLock(c)
  PROVE  Custody!Take \/ UNCHANGED Custody!custodyVars
  <1>1. CASE st = "running"
    <2>1. pc' = [pc EXCEPT ![c] = "idle"] /\ pc[c] = "startlock"
          /\ UNCHANGED <<up, st, waiter>>
      BY <1>1 DEF StartLock, At, Return, life, config, waiters
    <2>2. \A d \in Clients : InStart(d)' <=> InStart(d)
      BY <2>1 DEF InStart, StartPCs, IInv, TypeOK
    <2>3. \A g \in Gens : Watching(g)' <=> Watching(g)
      BY <2>1 DEF Watching
    <2> QED
      BY <2>1, <2>2, <2>3, Untouched
  <1>2. CASE st # "running"
    <2>1. /\ opMu = NoOne /\ up = "up"
          /\ pc' = [pc EXCEPT ![c] = "prepare"]
          /\ UNCHANGED <<up, st>>
      BY <1>2 DEF StartLock, At, Goto, Lock, life, config
    <2>2. CustodyOwner = "nobody"
      BY <1>2, <2>1, FreeMeansNobody
    <2>3. InStart(c)'
      BY <2>1 DEF InStart, StartPCs, IInv, TypeOK
    <2>4. CustodyOwner' = "start"
      BY <2>1, <2>3 DEF CustodyOwner
    <2> QED
      BY <1>2, <2>1, <2>2, <2>4 DEF Custody!Take, CustodyState
  <1> QED
    BY <1>1, <1>2

\* Marking Running is Mark.
LEMMA MarkStep ==
  ASSUME IInv, NEW c \in Clients, StartMark(c)
  PROVE  Custody!Mark
  <1>1. /\ up = "up" /\ up' = "up" /\ st' = "running" /\ pc[c] = "mark"
        /\ pc' = [pc EXCEPT ![c] = "persist"]
    BY DEF StartMark, At, Goto, life
  <1>2. InStart(c) /\ InStart(c)' /\ Preparing(c)
    BY <1>1 DEF InStart, StartPCs, Preparing, IInv, TypeOK
  <1>3. CustodyOwner = "start" /\ CustodyOwner' = "start"
    BY <1>1, <1>2 DEF CustodyOwner
  <1>4. st # "running"
    BY <1>2 DEF IInv, Core, StartInv
  <1> QED
    BY <1>1, <1>3, <1>4 DEF Custody!Mark, CustodyState

\* Launching the waiter is HandOver.
LEMMA HandOverStep ==
  ASSUME IInv, IInv', NEW c \in Clients, StartWatch(c)
  PROVE  Custody!HandOver
  <1>1. /\ up = "up" /\ up' = "up" /\ st' = st /\ pc[c] = "watch"
        /\ waiter' = [waiter EXCEPT ![gen] = "dial"]
        /\ opMu' = NoOne
    BY DEF StartWatch, At, Unlock, life, config
  <1>2. InStart(c) /\ HandingOver(c)
    BY <1>1 DEF InStart, StartPCs, HandingOver
  <1>3. st = "running" /\ gen \in Gens
    BY <1>2 DEF IInv, Core, StartInv
  <1>4. CustodyOwner = "start"
    BY <1>1, <1>2, StartOwns
  <1>5. \A d \in Clients : ~InStart(d)'
    BY <1>1, LifecycleAssumption DEF IInv, Core, LifecycleSerialised
  <1>6. Watching(gen)' /\ gen' = gen
    BY <1>1, <1>3 DEF StartWatch, Watching, IInv, TypeOK
  <1>7. CustodyOwner' = "waiter"
    BY <1>1, <1>3, <1>5, <1>6 DEF CustodyOwner, Watching
  <1> QED
    BY <1>1, <1>3, <1>4, <1>7 DEF Custody!HandOver, CustodyState

\* The roll-back of a start is GiveUp.
LEMMA GiveUpStep ==
  ASSUME IInv, IInv', NEW c \in Clients, StartRollback(c)
  PROVE  Custody!GiveUp
  <1>1. up = "up" /\ up' = "up" /\ st' = st /\ opMu' = NoOne
        /\ pc[c] = "rollback"
    BY DEF StartRollback, At, Unlock, life, config
  <1>2. InStart(c) /\ Preparing(c)
    BY <1>1 DEF InStart, StartPCs, Preparing
  <1>3. st # "running"
    BY <1>2 DEF IInv, Core, StartInv
  <1>4. CustodyOwner = "start"
    BY <1>1, <1>2, StartOwns
  <1>5. \A d \in Clients : ~InStart(d)'
    BY <1>1, LifecycleAssumption DEF IInv, Core, LifecycleSerialised
  <1>6. \A g \in Gens : ~Watching(g)'
    BY <1>1, <1>3 DEF IInv, Core, WaiterInv
  <1>7. CustodyOwner' = "nobody"
    BY <1>5, <1>6 DEF CustodyOwner
  <1> QED
    BY <1>1, <1>3, <1>4, <1>7 DEF Custody!GiveUp, CustodyState

\* The waiter's mark is Finish.
LEMMA FinishStep ==
  ASSUME IInv, IInv', NEW g \in Gens, WaiterMark(g)
  PROVE  Custody!Finish
  <1>1. /\ up = "up" /\ up' = "up" /\ st' = "stopped"
        /\ waiter[g] = "mark" /\ UNCHANGED pc
    BY DEF WaiterMark, WaiterAt, life, requests
  <1>2. Watching(g)
    BY <1>1 DEF Watching
  <1>3. st = "running"
    BY <1>2 DEF IInv, Core, WaiterInv
  <1>4. CustodyOwner = "waiter"
    BY <1>1, <1>2, WaiterOwns
  <1>5. \A c \in Clients : ~InStart(c)'
    BY <1>1, <1>2, WatchedIsNotStarting DEF InStart
  <1>6. \A h \in Gens : ~Watching(h)'
    BY <1>1 DEF IInv, Core, WaiterInv
  <1>7. CustodyOwner' = "nobody"
    BY <1>5, <1>6 DEF CustodyOwner
  <1> QED
    BY <1>1, <1>3, <1>4, <1>7 DEF Custody!Finish, CustodyState

\* The process is gone, by a crash or by a panic, serving or not.
LEMMA DieStep ==
  ASSUME up' = "down"
  PROVE  Custody!Die \/ UNCHANGED Custody!custodyVars
  <1>1. CustodyOwner' = "nobody" /\ CustodyState' = "unknown"
    BY DEF CustodyOwner, CustodyState
  <1>2. CASE up = "up"
    BY <1>1, <1>2 DEF Custody!Die
  <1>3. CASE up # "up"
    BY <1>1, <1>3, AwayMeansNobody DEF Custody!custodyVars
  <1> QED
    BY <1>2, <1>3

\* The end of a boot is Recover; the steps before it are stutters.
LEMMA BootStep ==
  ASSUME IInv, IInv', Boot
  PROVE  Custody!Recover \/ UNCHANGED Custody!custodyVars
  <1>0. up # "up"
    BY DEF Boot, Restart, Reconnect, BootCleanup, BootPersist
  <1>1. CASE up' # "up"
    BY <1>0, <1>1, AwayMeansNobody
       DEF Custody!custodyVars, CustodyOwner, CustodyState
  <1>2. CASE up' = "up"
    <2>1. ASSUME UNCHANGED <<pc, waiter>>, st' \in {"created", "stopped"}
          PROVE  Custody!Recover
      <3>1. /\ \A c \in Clients : ~InStart(c)'
            /\ \A g \in Gens : ~Watching(g)'
        BY <1>0, <2>1, NothingLeft DEF InStart, Watching
      <3>2. CustodyOwner' = "nobody"
        BY <3>1 DEF CustodyOwner
      <3> QED
        BY <1>0, <1>2, <2>1, <3>2 DEF Custody!Recover, CustodyState
    <2>2. CASE Restart
      <3>1. disk # "running" /\ UNCHANGED <<pc, waiter>>
            /\ st' = IF disk = "none" THEN "stopped" ELSE disk
        BY <1>2, <2>2 DEF Restart, waiters, requests
      <3>2. st' \in {"created", "stopped"}
        BY <3>1 DEF IInv, TypeOK, MemStates
      <3> QED
        BY <2>1, <3>1, <3>2
    <2>3. CASE Reconnect
      <3>1. /\ st' = "running" /\ UNCHANGED pc
            /\ waiter' = [waiter EXCEPT ![gen'] = "dial"]
            /\ gen < MaxGen /\ gen' = gen + 1
        BY <2>3 DEF Reconnect, config, requests, IInv, Core, DownInv
      <3>2. gen' \in Gens
        BY <3>1, MaxGenAssumption DEF Gens, IInv, TypeOK
      <3>3. \E g \in Gens : Watching(g)'
        BY <3>1, <3>2 DEF Watching, IInv, TypeOK
      <3>4. \A c \in Clients : ~InStart(c)'
        BY <1>0, <3>1, NothingLeft DEF InStart
      <3>5. CustodyOwner' = "waiter"
        BY <1>2, <3>3, <3>4 DEF CustodyOwner
      <3> QED
        BY <1>0, <1>2, <3>1, <3>5 DEF Custody!Recover, CustodyState
    <2>4. CASE BootPersist
      <3>1. UNCHANGED <<pc, waiter>> /\ st' = "stopped"
        BY <2>4 DEF BootPersist, waiters, requests, IInv, Core, DownInv
      <3> QED
        BY <2>1, <3>1
    <2>5. ~BootCleanup
      BY <1>2 DEF BootCleanup
    <2> QED
      BY <2>2, <2>3, <2>4, <2>5 DEF Boot
  <1> QED
    BY <1>1, <1>2

\* Requests that are not part of a start.
LEMMA RequestStep ==
  ASSUME IInv, NEW c \in Clients,
         \/ \E o \in Ops : Call(c, o)
         \/ Stop(c) \/ Await(c) \/ Kill(c) \/ Remove(c)
  PROVE  UNCHANGED Custody!custodyVars
  <1> DEFINE Elsewhere == PCs \ StartPCs
  <1>1. UNCHANGED <<up, st, waiter>>
    BY DEF Call, Stop, StopLookup, StopCheck, StopDial, StopReply, Await,
       ReadDone, Receive, Kill, KillLock, KillSend, Remove, RemoveCheck,
       RemoveDir, RemoveFinish, life, config, waiters
  <1>2. pc[c] \in Elsewhere /\ \E l \in Elsewhere : pc' = [pc EXCEPT ![c] = l]
    <2>1. ASSUME NEW o \in Ops, Call(c, o) PROVE <1>2
      <3>1. Entry[o] \in Elsewhere
        BY LifecycleAssumption DEF Entry, AllOps, PCs, StartPCs
      <3> QED
        BY <2>1, <3>1 DEF Call, At, PCs, StartPCs
    <2>2. CASE Stop(c)
      BY <2>2 DEF Stop, StopLookup, StopCheck, StopDial, StopReply, At, Goto,
         GotoWith, Return, PCs, StartPCs
    <2>3. CASE Await(c)
      BY <2>3 DEF Await, ReadDone, Receive, At, Goto, GotoWith, Return, PCs,
         StartPCs
    <2>4. CASE Kill(c)
      BY <2>4 DEF Kill, KillLock, KillSend, At, Goto, Return, PCs, StartPCs
    <2>5. CASE Remove(c)
      BY <2>5 DEF Remove, RemoveCheck, RemoveDir, RemoveFinish, At, Goto,
         Return, PCs, StartPCs
    <2> QED
      BY <2>1, <2>2, <2>3, <2>4, <2>5
  <1>3. \A d \in Clients : InStart(d)' <=> InStart(d)
    BY <1>2 DEF InStart, IInv, TypeOK
  <1>4. \A g \in Gens : Watching(g)' <=> Watching(g)
    BY <1>1 DEF Watching
  <1> QED
    BY <1>1, <1>3, <1>4, Untouched

\* The steps of a start between which it merely goes on.
LEMMA StartGoesOn ==
  ASSUME IInv, NEW c \in Clients,
         StartPrepare(c) \/ StartShim(c) \/ StartPersist(c)
  PROVE  UNCHANGED Custody!custodyVars
  <1>1. UNCHANGED <<up, st, waiter>>
    BY DEF StartPrepare, StartShim, StartPersist, life, config, waiters
  <1>2. pc[c] \in StartPCs /\ \E l \in StartPCs : pc' = [pc EXCEPT ![c] = l]
    BY DEF StartPrepare, StartShim, StartPersist, At, Goto, StartPCs
  <1>3. \A d \in Clients : InStart(d)' <=> InStart(d)
    BY <1>2 DEF InStart, IInv, TypeOK
  <1>4. \A g \in Gens : Watching(g)' <=> Watching(g)
    BY <1>1 DEF Watching
  <1> QED
    BY <1>1, <1>3, <1>4, Untouched

\* The waiter before and after it records the end.
LEMMA WaiterGoesOn ==
  ASSUME IInv, NEW g \in Gens,
         \/ WaiterDial(g) \/ WaiterReply(g) \/ WaiterTeardown(g)
         \/ WaiterPersist(g) \/ WaiterDelete(g)
         \/ WaiterClose(g) /\ done \notin closed
  PROVE  UNCHANGED Custody!custodyVars
  <1>1. UNCHANGED <<up, st, pc>>
    BY DEF WaiterDial, WaiterReply, WaiterTeardown, WaiterPersist,
       WaiterDelete, WaiterClose, life, config, requests
  <1>2. \E from, to \in WaiterPCs :
           /\ waiter[g] = from /\ waiter' = [waiter EXCEPT ![g] = to]
           /\ from \in {"dial", "wait", "teardown", "mark"}
                  <=> to \in {"dial", "wait", "teardown", "mark"}
    BY DEF WaiterDial, WaiterReply, WaiterTeardown, WaiterPersist,
       WaiterDelete, WaiterClose, WaiterAt, WaiterGoto, WaiterPCs
  <1>3. \A h \in Gens : Watching(h)' <=> Watching(h)
    BY <1>2 DEF Watching, IInv, TypeOK
  <1>4. \A c \in Clients : InStart(c)' <=> InStart(c)
    BY <1>1 DEF InStart
  <1> QED
    BY <1>1, <1>3, <1>4, Untouched

-----------------------------------------------------------------------------
\* Lifecycle implements Custody: whatever requests, faults, crashes and
\* reconciles interleave, the cleanup of the container passes from its start to
\* its waiter, from a dead daemon to the next, and never to two at a time.
THEOREM CustodyIsKept == Spec => ImplementsCustody
  <1>1. Init => Custody!Init
    <2> SUFFICES ASSUME Init PROVE Custody!Init
      OBVIOUS
    <2>1. /\ \A c \in Clients : ~InStart(c)
          /\ \A g \in Gens : ~Watching(g)
      BY DEF Init, InStart, StartPCs, Watching
    <2>2. CustodyOwner = "nobody"
      BY <2>1, NobodyOwns
    <2> QED
      BY <2>2 DEF Init, Custody!Init, CustodyState
  <1>2. IInv /\ IInv' /\ [Next]_vars => [Custody!Next]_(Custody!custodyVars)
    <2> SUFFICES ASSUME IInv, IInv', [Next]_vars
                 PROVE  Custody!Next \/ UNCHANGED Custody!custodyVars
      OBVIOUS
    <2>1. ASSUME NEW c \in Clients,
                 (\E o \in Ops : Call(c, o)) \/ ClientStep(c)
          PROVE  Custody!Next \/ UNCHANGED Custody!custodyVars
      BY <2>1, RequestStep, StartGoesOn, TakeStep, MarkStep, HandOverStep,
         GiveUpStep DEF ClientStep, Start, Custody!Next
    <2>2. ASSUME NEW g \in Gens, Waiter(g)
          PROVE  Custody!Next \/ UNCHANGED Custody!custodyVars
      <3>1. CASE WaiterClose(g) /\ done \in closed
        BY <3>1, DieStep DEF WaiterClose, LoseMemory, Custody!Next
      <3> QED
        BY <2>2, <3>1, WaiterGoesOn, FinishStep DEF Waiter, Custody!Next
    <2>3. ASSUME NEW g \in Gens, ShimStep(g)
          PROVE  UNCHANGED Custody!custodyVars
      BY <2>3, Untouched DEF ShimStep, DaemonVarsUnchanged, life, config,
         waiters, requests, InStart, Watching
    <2>4. ASSUME Crash PROVE Custody!Next \/ UNCHANGED Custody!custodyVars
      BY <2>4, DieStep DEF Crash, LoseMemory, Custody!Next
    <2>5. ASSUME Boot PROVE Custody!Next \/ UNCHANGED Custody!custodyVars
      BY <2>5, BootStep DEF Custody!Next
    <2>6. ASSUME UNCHANGED vars PROVE UNCHANGED Custody!custodyVars
      BY <2>6, Untouched DEF vars, InStart, Watching
    <2> QED
      BY <2>1, <2>2, <2>3, <2>4, <2>5, <2>6 DEF Next
  <1> QED
    BY <1>1, <1>2, Invariance, PTL DEF Spec, ImplementsCustody, Custody!Spec

-----------------------------------------------------------------------------
(* One start of the container, whatever requests there are around it: the   *)
(* daemon and the shim stay alive and state.json can be written, but starts *)
(* may fail before, in and after the launch of the shim.                    *)

OneStart == MaxStarts = 1 /\ MaxCrashes = 0 /\ {"persist", "shimlost"} \cap Faults = {}

(* The shim and init at each step of the waiter.                            *)

ShimUp == shim[1] = "up" /\ sock = 1 /\ init[1] # "none"
Cleaning == {"teardown", "mark", "persist", "delete"}

ShimInv ==
    /\ \A g \in Gens \ {1} : shim[g] = "none" /\ init[g] = "none" /\ waiter[g] = "none"
    /\ gen = 0 => shim[1] = "none" /\ init[1] = "none" /\ waiter[1] = "none" /\ st = "created"
    /\ \A c \in Clients : pc[c] \in {"mark", "persist", "watch"} => ShimUp
    /\ waiter[1] \in {"dial", "wait"} \cup Cleaning => ShimUp
    /\ waiter[1] = "none" => shim[1] \in {"none", "up", "dead"}
    /\ waiter[1] = "none" /\ shim[1] = "dead" => {"refused", "timeout"} \cap Faults # {}
    /\ waiter[1] \in {"close", "gone"} => shim[1] \in {"dismissed", "closing", "dead"}
    /\ waiter[1] = "wait" => conn[1] = 1
    /\ waiter[1] \in Cleaning \cup {"close", "gone"} => init[1] = "exited"

(* Nothing closes a channel twice.                                          *)

ChannelInv ==
    /\ up = "up" /\ ~panicked
    /\ gen \in {0, 1} /\ closed \subseteq {Preclosed, 1}
    /\ 1 \in closed => waiter[1] = "gone"
    /\ waiter[1] # "none" => done = 1
    /\ \A c \in Clients : /\ pc[c] \in {"prepare", "spawn"} => gen = 0
                          /\ InStart(c) => waiter[1] = "none"

(* What is recorded, in memory and on disk.                                 *)

RecordInv ==
    /\ st = "stopped" <=> waiter[1] \in {"persist", "delete", "close", "gone"}
    /\ disk = "running" =>
         \/ \E c \in Clients : pc[c] = "watch"
         \/ waiter[1] \in {"dial", "wait", "teardown", "mark", "persist"}

(* The overlay is mounted once, by the start, until it or the waiter tears  *)
(* the runtime down.                                                        *)

Mounted == {"dial", "wait", "teardown"}

MountInv ==
    /\ \A c \in Clients :
         /\ pc[c] = "prepare" => mounts = 0
         /\ pc[c] \in {"spawn", "mark", "persist", "watch"} => mounts = 1
         /\ pc[c] = "rollback" => mounts \in {0, 1}
    /\ waiter[1] \in Mounted => mounts = 1
    /\ (\A c \in Clients : ~InStart(c)) /\ waiter[1] \notin Mounted => mounts = 0

RunInv == ShimInv /\ ChannelInv /\ RecordInv /\ MountInv

\* One is a generation and not the channel of a container that was loaded.
LEMMA OneIsAGeneration == 1 \in Gens /\ Preclosed \notin Gens /\ Preclosed # 1
  BY MaxGenAssumption DEF Gens, Preclosed

\* Nothing is there before the start.
LEMMA InitRunInv == Init => RunInv
  BY OneIsAGeneration DEF Init, ShimInit, RunInv, ShimInv, ChannelInv, RecordInv, MountInv,
     Cleaning, Mounted, InStart, StartPCs

\* Requests other than a start: of what the invariant speaks of they change at
\* most the file, by removing it.
LEMMA OtherRequests ==
  ASSUME IInv, RunInv, NEW c \in Clients,
         \/ \E o \in Ops : Call(c, o)
         \/ Stop(c) \/ Await(c) \/ Kill(c) \/ Remove(c)
  PROVE  RunInv'
  <1> DEFINE Elsewhere == PCs \ StartPCs
  <1>1. UNCHANGED <<shim, init, sock, mounts, life, st, gen, done, closed, waiters>>
    BY DEF Call, Stop, StopLookup, StopCheck, StopDial, StopReply, Await,
       ReadDone, Receive, Kill, KillLock, KillSend, Remove, RemoveCheck,
       RemoveDir, RemoveFinish, host, shimVars, config, HandleStop, HandleKill
  <1>2. disk' \in {disk, "none"}
    BY DEF Call, Stop, StopLookup, StopCheck, StopDial, StopReply, Await,
       ReadDone, Receive, Kill, KillLock, KillSend, Remove, RemoveCheck,
       RemoveDir, RemoveFinish, config
  <1>3. pc[c] \in Elsewhere /\ \E l \in Elsewhere : pc' = [pc EXCEPT ![c] = l]
    <2>1. ASSUME NEW o \in Ops, Call(c, o) PROVE <1>3
      <3>1. Entry[o] \in Elsewhere
        BY LifecycleAssumption DEF Entry, AllOps, PCs, StartPCs
      <3> QED
        BY <2>1, <3>1 DEF Call, At, PCs, StartPCs
    <2>2. CASE Stop(c)
      BY <2>2 DEF Stop, StopLookup, StopCheck, StopDial, StopReply, At, Goto,
         GotoWith, Return, PCs, StartPCs
    <2>3. CASE Await(c)
      BY <2>3 DEF Await, ReadDone, Receive, At, Goto, GotoWith, Return, PCs,
         StartPCs
    <2>4. CASE Kill(c)
      BY <2>4 DEF Kill, KillLock, KillSend, At, Goto, Return, PCs, StartPCs
    <2>5. CASE Remove(c)
      BY <2>5 DEF Remove, RemoveCheck, RemoveDir, RemoveFinish, At, Goto,
         Return, PCs, StartPCs
    <2> QED
      BY <2>1, <2>2, <2>3, <2>4, <2>5
  <1>4. \A d \in Clients : pc'[d] = pc[d] \/ (d = c /\ pc'[d] \notin StartPCs /\ pc[d] \notin StartPCs)
    BY <1>3 DEF IInv, TypeOK
  <1>5. \A d \in Clients, l \in StartPCs : pc'[d] = l <=> pc[d] = l
    BY <1>4
  <1> USE <1>1, <1>5 DEF RunInv, StartPCs, life, waiters
  <1>6. ShimInv'
    BY DEF ShimInv, ShimUp, Cleaning
  <1>7. ChannelInv'
    BY DEF ChannelInv, InStart
  <1>8. RecordInv'
    BY <1>2 DEF RecordInv
  <1>9. MountInv'
    BY DEF MountInv, Mounted, InStart
  <1> QED
    BY <1>6, <1>7, <1>8, <1>9

\* The steps of the start.
LEMMA StartSteps ==
  ASSUME OneStart, IInv, RunInv, NEW c \in Clients, Start(c) PROVE RunInv'
  <1> USE OneIsAGeneration, LifecycleAssumption, MaxGenAssumption DEF OneStart, RunInv, IInv, Core, TypeOK, ShimTypeOK, StartInv, WaiterInv, LifecycleSerialised, InStart, StartPCs, HandingOver, Preparing, Watching
  <1>1. CASE StartLock(c)
    <2>1. ShimInv'
      BY <1>1 DEF StartLock, At, Goto, Return, Lock, Unlock, May, Teardown, PersistConfig, SpawnReady, SpawnRefused, SpawnTimeout, host, shimVars, life, config, waiters, ShimInv, ShimUp, Cleaning, ChannelInv
    <2>2. ChannelInv'
      BY <1>1 DEF StartLock, At, Goto, Return, Lock, Unlock, May, Teardown, PersistConfig, SpawnReady, SpawnRefused, SpawnTimeout, host, shimVars, life, config, waiters, ChannelInv, InStart, StartPCs, ShimInv
    <2>3. RecordInv'
      BY <1>1 DEF StartLock, At, Goto, Return, Lock, Unlock, May, Teardown, PersistConfig, SpawnReady, SpawnRefused, SpawnTimeout, host, shimVars, life, config, waiters, RecordInv, ShimInv, ChannelInv
    <2>4. MountInv'
      BY <1>1 DEF StartLock, At, Goto, Return, Lock, Unlock, May, Teardown, PersistConfig, SpawnReady, SpawnRefused, SpawnTimeout, host, shimVars, life, config, waiters, MountInv, Mounted, InStart, StartPCs, ShimInv, ChannelInv
    <2> QED
      BY <2>1, <2>2, <2>3, <2>4
  <1>2. CASE StartPrepare(c)
    <2>0. /\ up = "up" /\ pc[c] = "prepare"
          /\ \/ pc' = [pc EXCEPT ![c] = "spawn"] /\ mounts' = mounts + 1
             \/ pc' = [pc EXCEPT ![c] = "rollback"] /\ mounts' \in {mounts, mounts + 1}
          /\ UNCHANGED <<shim, init, doomed, sock, rstate, up, crashes, panicked,
                         registered, st, disk, gen, opMu, done, closed, waiter, conn>>
      BY <1>2, PrepareStep DEF shimVars, life, config, waiters
    <2>1. ShimInv'
      BY <2>0 DEF ShimInv, ShimUp, Cleaning, ChannelInv
    <2>2. ChannelInv'
      BY <2>0 DEF ChannelInv, InStart, StartPCs, ShimInv
    <2>3. RecordInv'
      BY <2>0 DEF RecordInv, ShimInv, ChannelInv
    <2>4. MountInv'
      BY <2>0 DEF MountInv, Mounted, InStart, StartPCs, ShimInv, ChannelInv
    <2> QED
      BY <2>1, <2>2, <2>3, <2>4
  <1>3. CASE StartShim(c)
    <2>1. ShimInv'
      BY <1>3 DEF StartShim, At, Goto, Return, Lock, Unlock, May, Teardown, PersistConfig, SpawnReady, SpawnRefused, SpawnTimeout, host, shimVars, life, config, waiters, ShimInv, ShimUp, Cleaning, ChannelInv
    <2>2. ChannelInv'
      BY <1>3 DEF StartShim, At, Goto, Return, Lock, Unlock, May, Teardown, PersistConfig, SpawnReady, SpawnRefused, SpawnTimeout, host, shimVars, life, config, waiters, ChannelInv, InStart, StartPCs, ShimInv
    <2>3. RecordInv'
      BY <1>3 DEF StartShim, At, Goto, Return, Lock, Unlock, May, Teardown, PersistConfig, SpawnReady, SpawnRefused, SpawnTimeout, host, shimVars, life, config, waiters, RecordInv, ShimInv, ChannelInv
    <2>4. MountInv'
      BY <1>3 DEF StartShim, At, Goto, Return, Lock, Unlock, May, Teardown, PersistConfig, SpawnReady, SpawnRefused, SpawnTimeout, host, shimVars, life, config, waiters, MountInv, Mounted, InStart, StartPCs, ShimInv, ChannelInv
    <2> QED
      BY <2>1, <2>2, <2>3, <2>4
  <1>4. CASE StartMark(c)
    <2>1. ShimInv'
      BY <1>4 DEF StartMark, At, Goto, Return, Lock, Unlock, May, Teardown, PersistConfig, SpawnReady, SpawnRefused, SpawnTimeout, host, shimVars, life, config, waiters, ShimInv, ShimUp, Cleaning, ChannelInv
    <2>2. ChannelInv'
      BY <1>4 DEF StartMark, At, Goto, Return, Lock, Unlock, May, Teardown, PersistConfig, SpawnReady, SpawnRefused, SpawnTimeout, host, shimVars, life, config, waiters, ChannelInv, InStart, StartPCs, ShimInv
    <2>3. RecordInv'
      BY <1>4 DEF StartMark, At, Goto, Return, Lock, Unlock, May, Teardown, PersistConfig, SpawnReady, SpawnRefused, SpawnTimeout, host, shimVars, life, config, waiters, RecordInv, ShimInv, ChannelInv
    <2>4. MountInv'
      BY <1>4 DEF StartMark, At, Goto, Return, Lock, Unlock, May, Teardown, PersistConfig, SpawnReady, SpawnRefused, SpawnTimeout, host, shimVars, life, config, waiters, MountInv, Mounted, InStart, StartPCs, ShimInv, ChannelInv
    <2> QED
      BY <2>1, <2>2, <2>3, <2>4
  <1>5. CASE StartPersist(c)
    <2>1. ShimInv'
      BY <1>5 DEF StartPersist, At, Goto, Return, Lock, Unlock, May, Teardown, PersistConfig, SpawnReady, SpawnRefused, SpawnTimeout, host, shimVars, life, config, waiters, ShimInv, ShimUp, Cleaning, ChannelInv
    <2>2. ChannelInv'
      BY <1>5 DEF StartPersist, At, Goto, Return, Lock, Unlock, May, Teardown, PersistConfig, SpawnReady, SpawnRefused, SpawnTimeout, host, shimVars, life, config, waiters, ChannelInv, InStart, StartPCs, ShimInv
    <2>3. RecordInv'
      BY <1>5 DEF StartPersist, At, Goto, Return, Lock, Unlock, May, Teardown, PersistConfig, SpawnReady, SpawnRefused, SpawnTimeout, host, shimVars, life, config, waiters, RecordInv, ShimInv, ChannelInv
    <2>4. MountInv'
      BY <1>5 DEF StartPersist, At, Goto, Return, Lock, Unlock, May, Teardown, PersistConfig, SpawnReady, SpawnRefused, SpawnTimeout, host, shimVars, life, config, waiters, MountInv, Mounted, InStart, StartPCs, ShimInv, ChannelInv
    <2> QED
      BY <2>1, <2>2, <2>3, <2>4
  <1>6. CASE StartWatch(c)
    <2>1. ShimInv'
      BY <1>6 DEF StartWatch, At, Goto, Return, Lock, Unlock, May, Teardown, PersistConfig, SpawnReady, SpawnRefused, SpawnTimeout, host, shimVars, life, config, waiters, ShimInv, ShimUp, Cleaning, ChannelInv
    <2>2. ChannelInv'
      BY <1>6 DEF StartWatch, At, Goto, Return, Lock, Unlock, May, Teardown, PersistConfig, SpawnReady, SpawnRefused, SpawnTimeout, host, shimVars, life, config, waiters, ChannelInv, InStart, StartPCs, ShimInv
    <2>3. RecordInv'
      BY <1>6 DEF StartWatch, At, Goto, Return, Lock, Unlock, May, Teardown, PersistConfig, SpawnReady, SpawnRefused, SpawnTimeout, host, shimVars, life, config, waiters, RecordInv, ShimInv, ChannelInv
    <2>4. MountInv'
      BY <1>6 DEF StartWatch, At, Goto, Return, Lock, Unlock, May, Teardown, PersistConfig, SpawnReady, SpawnRefused, SpawnTimeout, host, shimVars, life, config, waiters, MountInv, Mounted, InStart, StartPCs, ShimInv, ChannelInv
    <2> QED
      BY <2>1, <2>2, <2>3, <2>4
  <1>7. CASE StartRollback(c)
    <2>1. ShimInv'
      BY <1>7 DEF StartRollback, At, Goto, Return, Lock, Unlock, May, Teardown, PersistConfig, SpawnReady, SpawnRefused, SpawnTimeout, host, shimVars, life, config, waiters, ShimInv, ShimUp, Cleaning, ChannelInv
    <2>2. ChannelInv'
      BY <1>7 DEF StartRollback, At, Goto, Return, Lock, Unlock, May, Teardown, PersistConfig, SpawnReady, SpawnRefused, SpawnTimeout, host, shimVars, life, config, waiters, ChannelInv, InStart, StartPCs, ShimInv
    <2>3. RecordInv'
      BY <1>7 DEF StartRollback, At, Goto, Return, Lock, Unlock, May, Teardown, PersistConfig, SpawnReady, SpawnRefused, SpawnTimeout, host, shimVars, life, config, waiters, RecordInv, ShimInv, ChannelInv
    <2>4. MountInv'
      BY <1>7 DEF StartRollback, At, Goto, Return, Lock, Unlock, May, Teardown, PersistConfig, SpawnReady, SpawnRefused, SpawnTimeout, host, shimVars, life, config, waiters, MountInv, Mounted, InStart, StartPCs, ShimInv, ChannelInv
    <2> QED
      BY <2>1, <2>2, <2>3, <2>4
  <1> QED
    BY <1>1, <1>2, <1>3, <1>4, <1>5, <1>6, <1>7 DEF Start

\* The steps of the waiter.
LEMMA WaiterSteps ==
  ASSUME OneStart, IInv, RunInv, NEW g \in Gens, Waiter(g) PROVE RunInv'
  <1> USE OneIsAGeneration, LifecycleAssumption, MaxGenAssumption DEF OneStart, RunInv, IInv, Core, TypeOK, ShimTypeOK, StartInv, WaiterInv, LifecycleSerialised, InStart, StartPCs, HandingOver, Preparing, Watching
  <1>0. waiter[g] # "none" => g = 1
    BY DEF ShimInv
  <1>1. CASE WaiterDial(g)
    <2>0. g = 1
      BY <1>0, <1>1 DEF WaiterDial, WaiterAt
    <2>1. ShimInv'
      BY <1>1, <2>0 DEF WaiterDial, WaiterAt, WaiterGoto, Dials, Reachable, Hangup, HandleDelete, May, Teardown, PersistConfig, host, shimVars, life, config, requests, ShimInv, ShimUp, Cleaning, ChannelInv
    <2>2. ChannelInv'
      BY <1>1, <2>0 DEF WaiterDial, WaiterAt, WaiterGoto, Dials, Reachable, Hangup, HandleDelete, May, Teardown, PersistConfig, host, shimVars, life, config, requests, ChannelInv, InStart, StartPCs, ShimInv
    <2>3. RecordInv'
      BY <1>1, <2>0 DEF WaiterDial, WaiterAt, WaiterGoto, Dials, Reachable, Hangup, HandleDelete, May, Teardown, PersistConfig, host, shimVars, life, config, requests, RecordInv, ShimInv, ChannelInv
    <2>4. MountInv'
      BY <1>1, <2>0 DEF WaiterDial, WaiterAt, WaiterGoto, Dials, Reachable, Hangup, HandleDelete, May, Teardown, PersistConfig, host, shimVars, life, config, requests, MountInv, Mounted, InStart, StartPCs, ShimInv, ChannelInv
    <2> QED
      BY <2>1, <2>2, <2>3, <2>4
  <1>2. CASE WaiterReply(g)
    <2>0. g = 1
      BY <1>0, <1>2 DEF WaiterReply, WaiterAt
    <2>1. ShimInv'
      BY <1>2, <2>0 DEF WaiterReply, WaiterAt, WaiterGoto, Dials, Reachable, Hangup, HandleDelete, May, Teardown, PersistConfig, host, shimVars, life, config, requests, ShimInv, ShimUp, Cleaning, ChannelInv
    <2>2. ChannelInv'
      BY <1>2, <2>0 DEF WaiterReply, WaiterAt, WaiterGoto, Dials, Reachable, Hangup, HandleDelete, May, Teardown, PersistConfig, host, shimVars, life, config, requests, ChannelInv, InStart, StartPCs, ShimInv
    <2>3. RecordInv'
      BY <1>2, <2>0 DEF WaiterReply, WaiterAt, WaiterGoto, Dials, Reachable, Hangup, HandleDelete, May, Teardown, PersistConfig, host, shimVars, life, config, requests, RecordInv, ShimInv, ChannelInv
    <2>4. MountInv'
      BY <1>2, <2>0 DEF WaiterReply, WaiterAt, WaiterGoto, Dials, Reachable, Hangup, HandleDelete, May, Teardown, PersistConfig, host, shimVars, life, config, requests, MountInv, Mounted, InStart, StartPCs, ShimInv, ChannelInv
    <2> QED
      BY <2>1, <2>2, <2>3, <2>4
  <1>3. CASE WaiterTeardown(g)
    <2>0. g = 1
      BY <1>0, <1>3 DEF WaiterTeardown, WaiterAt
    <2>1. ShimInv'
      BY <1>3, <2>0 DEF WaiterTeardown, WaiterAt, WaiterGoto, Dials, Reachable, Hangup, HandleDelete, May, Teardown, PersistConfig, host, shimVars, life, config, requests, ShimInv, ShimUp, Cleaning, ChannelInv
    <2>2. ChannelInv'
      BY <1>3, <2>0 DEF WaiterTeardown, WaiterAt, WaiterGoto, Dials, Reachable, Hangup, HandleDelete, May, Teardown, PersistConfig, host, shimVars, life, config, requests, ChannelInv, InStart, StartPCs, ShimInv
    <2>3. RecordInv'
      BY <1>3, <2>0 DEF WaiterTeardown, WaiterAt, WaiterGoto, Dials, Reachable, Hangup, HandleDelete, May, Teardown, PersistConfig, host, shimVars, life, config, requests, RecordInv, ShimInv, ChannelInv
    <2>4. MountInv'
      BY <1>3, <2>0 DEF WaiterTeardown, WaiterAt, WaiterGoto, Dials, Reachable, Hangup, HandleDelete, May, Teardown, PersistConfig, host, shimVars, life, config, requests, MountInv, Mounted, InStart, StartPCs, ShimInv, ChannelInv
    <2> QED
      BY <2>1, <2>2, <2>3, <2>4
  <1>4. CASE WaiterMark(g)
    <2>0. g = 1
      BY <1>0, <1>4 DEF WaiterMark, WaiterAt
    <2>1. ShimInv'
      BY <1>4, <2>0 DEF WaiterMark, WaiterAt, WaiterGoto, Dials, Reachable, Hangup, HandleDelete, May, Teardown, PersistConfig, host, shimVars, life, config, requests, ShimInv, ShimUp, Cleaning, ChannelInv
    <2>2. ChannelInv'
      BY <1>4, <2>0 DEF WaiterMark, WaiterAt, WaiterGoto, Dials, Reachable, Hangup, HandleDelete, May, Teardown, PersistConfig, host, shimVars, life, config, requests, ChannelInv, InStart, StartPCs, ShimInv
    <2>3. RecordInv'
      BY <1>4, <2>0 DEF WaiterMark, WaiterAt, WaiterGoto, Dials, Reachable, Hangup, HandleDelete, May, Teardown, PersistConfig, host, shimVars, life, config, requests, RecordInv, ShimInv, ChannelInv
    <2>4. MountInv'
      BY <1>4, <2>0 DEF WaiterMark, WaiterAt, WaiterGoto, Dials, Reachable, Hangup, HandleDelete, May, Teardown, PersistConfig, host, shimVars, life, config, requests, MountInv, Mounted, InStart, StartPCs, ShimInv, ChannelInv
    <2> QED
      BY <2>1, <2>2, <2>3, <2>4
  <1>5. CASE WaiterPersist(g)
    <2>0. g = 1
      BY <1>0, <1>5 DEF WaiterPersist, WaiterAt
    <2>1. ShimInv'
      BY <1>5, <2>0 DEF WaiterPersist, WaiterAt, WaiterGoto, Dials, Reachable, Hangup, HandleDelete, May, Teardown, PersistConfig, host, shimVars, life, config, requests, ShimInv, ShimUp, Cleaning, ChannelInv
    <2>2. ChannelInv'
      BY <1>5, <2>0 DEF WaiterPersist, WaiterAt, WaiterGoto, Dials, Reachable, Hangup, HandleDelete, May, Teardown, PersistConfig, host, shimVars, life, config, requests, ChannelInv, InStart, StartPCs, ShimInv
    <2>3. RecordInv'
      BY <1>5, <2>0 DEF WaiterPersist, WaiterAt, WaiterGoto, Dials, Reachable, Hangup, HandleDelete, May, Teardown, PersistConfig, host, shimVars, life, config, requests, RecordInv, ShimInv, ChannelInv
    <2>4. MountInv'
      BY <1>5, <2>0 DEF WaiterPersist, WaiterAt, WaiterGoto, Dials, Reachable, Hangup, HandleDelete, May, Teardown, PersistConfig, host, shimVars, life, config, requests, MountInv, Mounted, InStart, StartPCs, ShimInv, ChannelInv
    <2> QED
      BY <2>1, <2>2, <2>3, <2>4
  <1>6. CASE WaiterDelete(g)
    <2>0. g = 1
      BY <1>0, <1>6 DEF WaiterDelete, WaiterAt
    <2>1. ShimInv'
      BY <1>6, <2>0 DEF WaiterDelete, WaiterAt, WaiterGoto, Dials, Reachable, Hangup, HandleDelete, May, Teardown, PersistConfig, host, shimVars, life, config, requests, ShimInv, ShimUp, Cleaning, ChannelInv
    <2>2. ChannelInv'
      BY <1>6, <2>0 DEF WaiterDelete, WaiterAt, WaiterGoto, Dials, Reachable, Hangup, HandleDelete, May, Teardown, PersistConfig, host, shimVars, life, config, requests, ChannelInv, InStart, StartPCs, ShimInv
    <2>3. RecordInv'
      BY <1>6, <2>0 DEF WaiterDelete, WaiterAt, WaiterGoto, Dials, Reachable, Hangup, HandleDelete, May, Teardown, PersistConfig, host, shimVars, life, config, requests, RecordInv, ShimInv, ChannelInv
    <2>4. MountInv'
      BY <1>6, <2>0 DEF WaiterDelete, WaiterAt, WaiterGoto, Dials, Reachable, Hangup, HandleDelete, May, Teardown, PersistConfig, host, shimVars, life, config, requests, MountInv, Mounted, InStart, StartPCs, ShimInv, ChannelInv
    <2> QED
      BY <2>1, <2>2, <2>3, <2>4
  <1>7. CASE WaiterClose(g)
    <2>0. g = 1
      BY <1>0, <1>7 DEF WaiterClose, WaiterAt
    <2>1. ShimInv'
      BY <1>7, <2>0 DEF WaiterClose, WaiterAt, WaiterGoto, Dials, Reachable, Hangup, HandleDelete, May, Teardown, PersistConfig, host, shimVars, life, config, requests, ShimInv, ShimUp, Cleaning, ChannelInv
    <2>2. ChannelInv'
      BY <1>7, <2>0 DEF WaiterClose, WaiterAt, WaiterGoto, Dials, Reachable, Hangup, HandleDelete, May, Teardown, PersistConfig, host, shimVars, life, config, requests, ChannelInv, InStart, StartPCs, ShimInv
    <2>3. RecordInv'
      BY <1>7, <2>0 DEF WaiterClose, WaiterAt, WaiterGoto, Dials, Reachable, Hangup, HandleDelete, May, Teardown, PersistConfig, host, shimVars, life, config, requests, RecordInv, ShimInv, ChannelInv
    <2>4. MountInv'
      BY <1>7, <2>0 DEF WaiterClose, WaiterAt, WaiterGoto, Dials, Reachable, Hangup, HandleDelete, May, Teardown, PersistConfig, host, shimVars, life, config, requests, MountInv, Mounted, InStart, StartPCs, ShimInv, ChannelInv
    <2> QED
      BY <2>1, <2>2, <2>3, <2>4
  <1> QED
    BY <1>1, <1>2, <1>3, <1>4, <1>5, <1>6, <1>7 DEF Waiter

\* The shim and init.
LEMMA ShimSteps ==
  ASSUME OneStart, IInv, RunInv, NEW g \in Gens, ShimStep(g) PROVE RunInv'
  <1> USE OneIsAGeneration, LifecycleAssumption, MaxGenAssumption DEF OneStart, RunInv, IInv, Core, TypeOK, ShimTypeOK, StartInv, WaiterInv, LifecycleSerialised, InStart, StartPCs, HandingOver, Preparing, Watching
  <1>1. UNCHANGED <<mounts, up, panicked, st, disk, gen, done, closed, waiter, conn, pc>>
    BY DEF ShimStep, DaemonVarsUnchanged, life, config, waiters, requests
  <1>2. g = 1 /\ (InitExit(g) \/ Shutdown(g) \/ ShimExit(g, bundle))
    BY DEF ShimStep, May, ShimInv, InitExit, Shutdown, ShimExit
  <1>3. ShimInv'
    BY <1>1, <1>2 DEF InitExit, Shutdown, ShimExit, ShimInv, ShimUp, Cleaning
  <1>4. ChannelInv'
    BY <1>1 DEF ChannelInv, InStart
  <1>5. RecordInv'
    BY <1>1 DEF RecordInv
  <1>6. MountInv'
    BY <1>1 DEF MountInv, Mounted
  <1> QED
    BY <1>3, <1>4, <1>5, <1>6

\* The invariant of one start holds in every reachable state.
THEOREM OneStartInvariance == OneStart => (Spec => []RunInv)
  <1> SUFFICES ASSUME OneStart PROVE Spec => []RunInv
    OBVIOUS
  <1>1. IInv /\ RunInv /\ [Next]_vars => RunInv'
    <2> SUFFICES ASSUME IInv, RunInv, [Next]_vars PROVE RunInv'
      OBVIOUS
    <2>1. ~Crash /\ ~Boot
      <3>1. up = "up" /\ crashes \in Nat
        BY DEF IInv, TypeOK, RunInv, ChannelInv
      <3>2. ~Crash
        BY <3>1 DEF OneStart, Crash
      <3> QED
        BY <3>1, <3>2 DEF Boot, Restart, Reconnect, BootCleanup, BootPersist
    <2>2. CASE UNCHANGED vars
      BY <2>2 DEF vars, shimVars, RunInv, ShimInv, ShimUp, ChannelInv, RecordInv, MountInv,
         Cleaning, Mounted, InStart
    <2> QED
      BY <2>1, <2>2, OtherRequests, StartSteps, WaiterSteps, ShimSteps
         DEF Next, ClientStep
  <1> QED
    BY <1>1, InitRunInv, Invariance, PTL DEF Spec

\* A waiter that has told the shim to go leaves no mount and no Running.
LEMMA OverMeansCleanedUp ==
  ASSUME RunInv, waiter[1] \in {"close", "gone"}
  PROVE  mounts = 0 /\ disk # "running"
  <1>1. \A c \in Clients : ~InStart(c)
    BY DEF RunInv, ChannelInv
  <1> QED
    BY <1>1 DEF RunInv, MountInv, Mounted, RecordInv, InStart, StartPCs

\* When a Stop, a Wait or a forced Remove is let go by the done channel, the
\* container has ended: no process, no mount, no Running on disk, no shim that
\* still waits for its Delete.
THEOREM DoneIsDone == OneStart => (Spec => []DoneMeansCleanedUp)
  <1>1. IInv /\ RunInv => DoneMeansCleanedUp
    <2> SUFFICES ASSUME IInv, RunInv, NEW g \in closed \cap Gens
                 PROVE  init[g] # "running" /\ mounts = 0 /\ disk # "running" /\ shim[g] # "up"
      BY DEF DoneMeansCleanedUp
    <2>1. g = 1 /\ waiter[1] = "gone"
      BY OneIsAGeneration DEF RunInv, ChannelInv
    <2>2. init[g] # "running" /\ shim[g] # "up"
      BY <2>1 DEF RunInv, ShimInv
    <2> QED
      BY <2>1, <2>2, OverMeansCleanedUp
  <1> QED
    BY <1>1, Invariance, OneStartInvariance, PTL

\* The shim is there to be asked until the end of the container is recorded.
\* Shims that are refused or late are dead before their start has cleaned up.
THEOREM ShimsOutliveCleanup ==
  OneStart /\ {"refused", "timeout"} \cap Faults = {} => (Spec => []ShimOutlivesCleanup)
  <1> SUFFICES ASSUME OneStart, {"refused", "timeout"} \cap Faults = {}
               PROVE  Spec => []ShimOutlivesCleanup
    OBVIOUS
  <1>1. IInv /\ RunInv => ShimOutlivesCleanup
    <2> SUFFICES ASSUME IInv, RunInv, NEW g \in Gens, shim[g] \in {"closing", "dead"}
                 PROVE  mounts = 0 /\ disk # "running"
      BY DEF ShimOutlivesCleanup
    <2>1. g = 1
      BY DEF RunInv, ShimInv
    <2>2. waiter[1] \in {"close", "gone"}
      BY <2>1, OneIsAGeneration DEF RunInv, ShimInv, ShimUp, Cleaning, IInv, TypeOK, WaiterPCs
    <2> QED
      BY <2>2, OverMeansCleanedUp
  <1> QED
    BY <1>1, Invariance, OneStartInvariance, PTL

\* A container that is shown as Stopped has no process left.
THEOREM StoppedHasExited == OneStart => (Spec => []StoppedMeansExited)
  <1>1. RunInv => StoppedMeansExited
    BY DEF RunInv, ShimInv, RecordInv, Cleaning, StoppedMeansExited
  <1> QED
    BY <1>1, OneStartInvariance, PTL

\* The daemon does not die of closing a channel twice before a second start.
THEOREM OneStartNeverPanics == OneStart => (Spec => []NoPanic)
  <1>1. RunInv => NoPanic
    BY DEF RunInv, ChannelInv, NoPanic
  <1> QED
    BY <1>1, OneStartInvariance, PTL
=============================================================================
