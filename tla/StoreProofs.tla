----------------------------- MODULE StoreProofs -----------------------------
(***************************************************************************)
(* Proofs about Store, for any containers, names, starts and crashes.      *)
(***************************************************************************)
EXTENDS Store, TLAPS

PCs == Creating \cup {"new", "cache", "ready", "persist", "launch",
                      "remove", "unlayer", "forget", "gone", "failed"}

(* A container has a configuration from its Create's lookup on; one that    *)
(* has not begun has nothing.                                               *)

Named(i) == pc[i] \notin {"new", "forget", "gone", "failed"}

ConfigInv ==
    \A i \in Ids :
        /\ Named(i) \/ waiter[i] # "none" => config[i] # Absent
        /\ pc[i] = "new" => /\ waiter[i] = "none" /\ config[i] = Absent
                            /\ dir[i] = Absent /\ draft[i] = Absent
        /\ i \in mem => pc[i] \in {"ready", "persist", "launch", "remove", "unlayer", "forget"}

(* A file, read or yet to be written, has the name that memory has.         *)

NameInv ==
    \A i \in Ids :
        /\ dir[i] \notin {Absent, Torn} =>
              config[i] # Absent /\ dir[i].name = config[i].name
        /\ draft[i] # Absent => config[i] # Absent /\ draft[i].name = config[i].name

(* What the file says at each step of its writers, as long as the waiter of *)
(* an earlier run is not one of them and no write has failed since.         *)

Written(i) ==
    /\ pc[i] \in {"new", "image", "extract", "layer", "open",
                  "unlayer", "forget", "gone"} => dir[i] = Absent
    /\ pc[i] \in {"write", "persist"} => dir[i] = Torn
    /\ pc[i] = "cache" => dir[i] = config[i]
    /\ pc[i] \in {"launch", "remove"} /\ i \notin unsaved => dir[i] = config[i]
    /\ pc[i] = "failed" => dir[i] \in {Absent, Torn}

Waited(i) ==
    /\ waiter[i] # "none" => pc[i] = "ready"
    /\ pc[i] = "ready" /\ waiter[i] \in {"none", "watch"} /\ i \notin unsaved =>
          dir[i] = config[i]
    /\ waiter[i] = "write" => dir[i] = Torn /\ draft[i] = config[i]

DirInv == \A i \in Ids \ late : Written(i) /\ Waited(i)

(* Who has a name, and two of one name: one overlooked the other.           *)

Bearer(i) ==
    /\ config[i] # Absent
    /\ \/ pc[i] \notin {"forget", "gone", "failed"}
       \/ i \in Parsed \/ waiter[i] # "none"

Distinct ==
    \A i, j \in Ids :
        Bearer(i) /\ Bearer(j) /\ i # j /\ Folded[config[i].name] = Folded[config[j].name] =>
            j \in overlooked[i] \/ i \in overlooked[j]

IInv == /\ TypeOK
        /\ ConfigInv
        /\ NameInv
        /\ DirInv
        /\ Distinct

-----------------------------------------------------------------------------
\* Nothing is on disk at first.
LEMMA InitIInv == Init => IInv
  <1> SUFFICES ASSUME Init PROVE IInv
    OBVIOUS
  <1> USE DEF Init
  <1>1. TypeOK
    <2>1. /\ dir \in [Ids -> Configs \cup {Absent, Torn}]
          /\ config \in [Ids -> Configs \cup {Absent}]
          /\ draft \in [Ids -> Configs \cup {Absent}]
      OBVIOUS
    <2>2. starts \in 0 .. MaxStarts /\ crashes \in 0 .. MaxCrashes
      BY StoreAssumption
    <2> QED
      BY <2>1, <2>2 DEF TypeOK, Creating
  <1>2. ConfigInv /\ NameInv /\ DirInv /\ Distinct
    BY DEF ConfigInv, NameInv, DirInv, Distinct, Named, Written, Waited, Bearer
  <1> QED
    BY <1>1, <1>2 DEF IInv

\* A configuration whose state changes keeps its name.
LEMMA Restated ==
  ASSUME NEW c \in Configs, NEW s \in {"Created", "Running", "Stopped"}
  PROVE  [c EXCEPT !.state = s] \in Configs /\ [c EXCEPT !.state = s].name = c.name
  BY DEF Configs

\* What the daemon reads back after it died: a file that parses has a container,
\* whose memory says what the file did, and so does the file unless its write
\* failed.
LEMMA Reloaded ==
  ASSUME TypeOK, Restart
  PROVE  /\ \A i \in Parsed :
              /\ pc'[i] = "ready" /\ waiter'[i] \in {"none", "watch"} /\ i \in mem'
              /\ config'[i] \in Configs /\ config'[i].name = dir[i].name
              /\ dir'[i] \in Configs \cup {Torn}
              /\ dir'[i] # Torn => dir'[i].name = dir[i].name
              /\ i \notin unsaved' => dir'[i] = config'[i]
         /\ \A i \in Ids \ Parsed :
              /\ pc'[i] = IF pc[i] \in {"new", "gone"} THEN pc[i] ELSE "failed"
              /\ waiter'[i] = "none" /\ i \notin mem'
              /\ config'[i] = Absent /\ dir'[i] = dir[i]
         /\ mem' \subseteq Ids /\ unsaved' \subseteq Ids
         /\ draft' = [i \in Ids |-> Absent]
         /\ UNCHANGED <<layer, image, overlooked, late, starts>>
  <1>1. PICK dead \in SUBSET Lost : \E saved \in SUBSET dead : \E torn \in SUBSET (dead \ saved) :
            Reload(dead, saved, torn) /\ unsaved' = dead \ saved
    BY DEF Restart
  <1>2. PICK saved \in SUBSET dead : \E torn \in SUBSET (dead \ saved) :
            Reload(dead, saved, torn) /\ unsaved' = dead \ saved
    BY <1>1
  <1>3. PICK torn \in SUBSET (dead \ saved) :
            Reload(dead, saved, torn) /\ unsaved' = dead \ saved
    BY <1>2
  <1>4. dead \subseteq Parsed /\ Parsed \subseteq Ids
    BY DEF Lost, Parsed
  <1>5. \A i \in Parsed : /\ dir[i] \in Configs
                          /\ Stopped(dir[i]) \in Configs /\ Stopped(dir[i]).name = dir[i].name
    BY Restated DEF Parsed, TypeOK, Stopped
  <1>6. /\ mem' = Parsed /\ unsaved' = dead \ saved
        /\ dir' = [i \in Ids |-> CASE i \in saved -> Stopped(dir[i])
                                  [] i \in torn -> Torn
                                  [] OTHER -> dir[i]]
        /\ config' = [i \in Ids |-> CASE i \in dead -> Stopped(dir[i])
                                     [] i \in Parsed \ dead -> dir[i]
                                     [] OTHER -> Absent]
        /\ waiter' = [i \in Ids |-> IF i \in Parsed \ dead /\ dir[i].state = "Running"
                                      THEN "watch" ELSE "none"]
        /\ pc' = [i \in Ids |-> IF i \in Parsed THEN "ready"
                                ELSE IF pc[i] \in {"new", "gone"} THEN pc[i] ELSE "failed"]
        /\ draft' = [i \in Ids |-> Absent]
        /\ UNCHANGED <<layer, image, overlooked, late, starts>>
    BY <1>3 DEF Reload
  <1>7. ASSUME NEW i \in Parsed
        PROVE  /\ pc'[i] = "ready" /\ waiter'[i] \in {"none", "watch"} /\ i \in mem'
               /\ config'[i] \in Configs /\ config'[i].name = dir[i].name
               /\ dir'[i] \in Configs \cup {Torn}
               /\ dir'[i] # Torn => dir'[i].name = dir[i].name
               /\ i \notin unsaved' => dir'[i] = config'[i]
    <2>1. /\ pc'[i] = "ready" /\ waiter'[i] \in {"none", "watch"} /\ i \in mem'
          /\ config'[i] = IF i \in dead THEN Stopped(dir[i]) ELSE dir[i]
          /\ dir'[i] = IF i \in saved THEN Stopped(dir[i])
                       ELSE IF i \in torn THEN Torn ELSE dir[i]
      BY <1>4, <1>6
    <2> QED
      BY <1>5, <1>6, <2>1
  <1>8. ASSUME NEW i \in Ids \ Parsed
        PROVE  /\ pc'[i] = IF pc[i] \in {"new", "gone"} THEN pc[i] ELSE "failed"
               /\ waiter'[i] = "none" /\ i \notin mem'
               /\ config'[i] = Absent /\ dir'[i] = dir[i]
    BY <1>4, <1>6
  <1> QED
    BY <1>4, <1>6, <1>7, <1>8

\* A restart keeps the types.
LEMMA ReloadedTypes ==
  ASSUME TypeOK, Restart
  PROVE  /\ dir' \in [Ids -> Configs \cup {Absent, Torn}]
         /\ config' \in [Ids -> Configs \cup {Absent}]
         /\ waiter' \in [Ids -> {"none", "watch", "marked", "write"}]
         /\ pc' \in [Ids -> PCs]
  <1>1. \A v \in {dir', config', waiter', pc'} : v = [i \in Ids |-> v[i]]
    BY DEF Restart, Reload
  <1>2. \A i \in Ids : /\ dir'[i] \in Configs \cup {Absent, Torn}
                       /\ config'[i] \in Configs \cup {Absent}
                       /\ waiter'[i] \in {"none", "watch"}
                       /\ pc'[i] \in PCs
    BY Reloaded DEF PCs, TypeOK
  <1> QED
    BY <1>1, <1>2

\* A container gets its configuration, with the state Created, or changes the
\* state in it.
LEMMA Configured ==
  ASSUME TypeOK, ConfigInv, NEW c \in Ids,
         CreateCheck(c) \/ Start(c) \/ WaiterMark(c)
  PROVE  /\ config' \in [Ids -> Configs \cup {Absent}]
         /\ config'[c] \in Configs
         /\ \A i \in Ids \ {c} : config'[i] = config[i]
         /\ pc[c] # "new" \/ waiter[c] # "none" => config'[c].name = config[c].name
  <1> DEFINE Stated(s) == [config[c] EXCEPT !.state = s]
  <1>1. ASSUME NEW s \in {"Running", "Stopped"}, config[c] # Absent,
               config' = [config EXCEPT ![c].state = s]
        PROVE  /\ config' \in [Ids -> Configs \cup {Absent}]
               /\ config'[c] \in Configs /\ config'[c].name = config[c].name
               /\ \A i \in Ids \ {c} : config'[i] = config[i]
    <2>1. config[c] \in Configs
      BY <1>1 DEF TypeOK
    <2>2. Stated(s) \in Configs /\ Stated(s).name = config[c].name
      BY <2>1, Restated
    <2>3. config' = [config EXCEPT ![c] = Stated(s)]
      BY <1>1
    <2> HIDE DEF Stated
    <2> QED
      BY <2>2, <2>3 DEF TypeOK
  <1>2. CASE CreateCheck(c)
    <2>1. PICK n \in Names : config' = [config EXCEPT ![c] = [name |-> n, state |-> "Created"]]
      BY <1>2 DEF CreateCheck
    <2>2. [name |-> n, state |-> "Created"] \in Configs
      BY DEF Configs
    <2>3. pc[c] = "new"
      BY <1>2 DEF CreateCheck, Step
    <2>4. waiter[c] = "none"
      BY <2>3 DEF ConfigInv
    <2> QED
      BY <2>1, <2>2, <2>3, <2>4 DEF TypeOK
  <1>3. CASE Start(c)
    BY <1>1, <1>3 DEF Start
  <1>4. CASE WaiterMark(c)
    BY <1>1, <1>4 DEF WaiterMark, ConfigInv
  <1> QED
    BY <1>2, <1>3, <1>4

\* Every action keeps the types.
LEMMA NextTypeOK == ASSUME TypeOK, ConfigInv, Next PROVE TypeOK'
  <1> USE DEF TypeOK, Step, Creating, files, bounds, marks, Late, Open, Write
  <1>1. ASSUME NEW c \in Ids, CreateCheck(c) PROVE TypeOK'
    <2>1. overlooked' \in [Ids -> SUBSET Ids]
      BY <1>1 DEF CreateCheck
    <2>2. config' \in [Ids -> Configs \cup {Absent}]
      BY <1>1, Configured
    <2>3. /\ pc' = [pc EXCEPT ![c] = "image"]
          /\ UNCHANGED <<dir, layer, image, mem, waiter, draft, late, unsaved, starts, crashes>>
      BY <1>1 DEF CreateCheck
    <2> QED
      BY <2>1, <2>2, <2>3
  <1>2. ASSUME NEW c \in Ids, CreateImage(c) PROVE TypeOK'
    BY <1>2 DEF CreateImage
  <1>3. ASSUME NEW c \in Ids, CreateExtract(c) PROVE TypeOK'
    BY <1>3 DEF CreateExtract
  <1>4. ASSUME NEW c \in Ids, CreateLayer(c) PROVE TypeOK'
    BY <1>4 DEF CreateLayer
  <1>5. ASSUME NEW c \in Ids, CreateOpen(c) PROVE TypeOK'
    BY <1>5 DEF CreateOpen
  <1>6. ASSUME NEW c \in Ids, CreateWrite(c) PROVE TypeOK'
    BY <1>6 DEF CreateWrite
  <1>7. ASSUME NEW c \in Ids, CreateCache(c) PROVE TypeOK'
    BY <1>7 DEF CreateCache
  <1>8. ASSUME NEW c \in Ids, Start(c) PROVE TypeOK'
    <2>1. /\ dir' \in [Ids -> Configs \cup {Absent, Torn}] /\ starts' \in 0 .. MaxStarts
          /\ unsaved' \subseteq Ids
      BY <1>8, StoreAssumption DEF Start
    <2>2. config' \in [Ids -> Configs \cup {Absent}]
      BY <1>8, Configured
    <2>3. /\ pc' \in [Ids -> PCs] /\ late' \subseteq Ids
          /\ UNCHANGED <<layer, image, mem, waiter, draft, overlooked, crashes>>
      BY <1>8 DEF Start, PCs
    <2> QED
      BY <2>1, <2>2, <2>3 DEF PCs
  <1>9. ASSUME NEW c \in Ids, StartPersist(c) PROVE TypeOK'
    BY <1>9 DEF StartPersist
  <1>10. ASSUME NEW c \in Ids, StartWatch(c) PROVE TypeOK'
    BY <1>10 DEF StartWatch
  <1>11. ASSUME NEW c \in Ids, Remove(c) PROVE TypeOK'
    BY <1>11 DEF Remove
  <1>12. ASSUME NEW c \in Ids, RemoveDir(c) PROVE TypeOK'
    BY <1>12 DEF RemoveDir
  <1>13. ASSUME NEW c \in Ids, RemoveOverlayFS(c) PROVE TypeOK'
    BY <1>13 DEF RemoveOverlayFS
  <1>14. ASSUME NEW c \in Ids, RemoveFinish(c) PROVE TypeOK'
    BY <1>14 DEF RemoveFinish
  <1>15. ASSUME NEW c \in Ids, WaiterMark(c) PROVE TypeOK'
    BY <1>15, Configured DEF WaiterMark
  <1>16. ASSUME NEW c \in Ids, WaiterOpen(c) PROVE TypeOK'
    BY <1>16 DEF WaiterOpen
  <1>17. ASSUME NEW c \in Ids, WaiterWrite(c) PROVE TypeOK'
    BY <1>17 DEF WaiterWrite
  <1>18. CASE Restart
    <2>1. crashes' \in 0 .. MaxCrashes
      BY <1>18, StoreAssumption DEF Restart, Reload
    <2> QED
      BY <1>18, <2>1, Reloaded, ReloadedTypes DEF PCs
  <1> QED
    BY <1>1, <1>2, <1>3, <1>4, <1>5, <1>6, <1>7, <1>8, <1>9, <1>10, <1>11,
        <1>12, <1>13, <1>14, <1>15, <1>16, <1>17, <1>18 DEF Next

\* Only a restart takes a configuration away.
LEMMA NextConfigInv == ASSUME TypeOK, ConfigInv, Next PROVE ConfigInv'
  <1> USE FilesAssumption DEF TypeOK, ConfigInv, Named, Step, Creating, files, marks, Open, Write
  <1>1. ASSUME NEW c \in Ids, CreateCheck(c) PROVE ConfigInv'
    <2>1. /\ pc[c] = "new" /\ pc' = [pc EXCEPT ![c] = "image"]
          /\ UNCHANGED <<waiter, mem, dir, draft>>
      BY <1>1 DEF CreateCheck
    <2>2. config'[c] # Absent /\ \A i \in Ids \ {c} : config'[i] = config[i]
      BY <1>1, Configured
    <2> QED
      BY <2>1, <2>2
  <1>2. ASSUME NEW c \in Ids, CreateImage(c) PROVE ConfigInv'
    BY <1>2 DEF CreateImage
  <1>3. ASSUME NEW c \in Ids, CreateExtract(c) PROVE ConfigInv'
    BY <1>3 DEF CreateExtract
  <1>4. ASSUME NEW c \in Ids, CreateLayer(c) PROVE ConfigInv'
    BY <1>4 DEF CreateLayer
  <1>5. ASSUME NEW c \in Ids, CreateOpen(c) PROVE ConfigInv'
    BY <1>5 DEF CreateOpen
  <1>6. ASSUME NEW c \in Ids, CreateWrite(c) PROVE ConfigInv'
    BY <1>6 DEF CreateWrite
  <1>7. ASSUME NEW c \in Ids, CreateCache(c) PROVE ConfigInv'
    BY <1>7 DEF CreateCache
  <1>8. ASSUME NEW c \in Ids, Start(c) PROVE ConfigInv'
    <2>1. /\ pc[c] = "ready" /\ pc'[c] \in {"persist", "launch"}
          /\ \A i \in Ids \ {c} : pc'[i] = pc[i] /\ dir'[i] = dir[i]
          /\ UNCHANGED <<waiter, mem, draft>>
      BY <1>8 DEF Start
    <2>2. config'[c] # Absent /\ \A i \in Ids \ {c} : config'[i] = config[i]
      BY <1>8, Configured
    <2> QED
      BY <2>1, <2>2
  <1>9. ASSUME NEW c \in Ids, StartPersist(c) PROVE ConfigInv'
    BY <1>9 DEF StartPersist
  <1>10. ASSUME NEW c \in Ids, StartWatch(c) PROVE ConfigInv'
    BY <1>10 DEF StartWatch
  <1>11. ASSUME NEW c \in Ids, Remove(c) PROVE ConfigInv'
    BY <1>11 DEF Remove
  <1>12. ASSUME NEW c \in Ids, RemoveDir(c) PROVE ConfigInv'
    BY <1>12 DEF RemoveDir
  <1>13. ASSUME NEW c \in Ids, RemoveOverlayFS(c) PROVE ConfigInv'
    BY <1>13 DEF RemoveOverlayFS
  <1>14. ASSUME NEW c \in Ids, RemoveFinish(c) PROVE ConfigInv'
    BY <1>14 DEF RemoveFinish
  <1>15. ASSUME NEW c \in Ids, WaiterMark(c) PROVE ConfigInv'
    BY <1>15, Configured DEF WaiterMark
  <1>16. ASSUME NEW c \in Ids, WaiterOpen(c) PROVE ConfigInv'
    BY <1>16 DEF WaiterOpen
  <1>17. ASSUME NEW c \in Ids, WaiterWrite(c) PROVE ConfigInv'
    BY <1>17 DEF WaiterWrite
  <1>18. CASE Restart
    BY <1>18, Reloaded
  <1> QED
    BY <1>1, <1>2, <1>3, <1>4, <1>5, <1>6, <1>7, <1>8, <1>9, <1>10, <1>11,
        <1>12, <1>13, <1>14, <1>15, <1>16, <1>17, <1>18 DEF Next

\* Every writer leaves the file as its next step says.
LEMMA NextDirInv == ASSUME TypeOK, ConfigInv, DirInv, Next PROVE DirInv'
  <1> USE FilesAssumption DEF TypeOK, ConfigInv, DirInv, Written, Waited, Named, Step, Creating, files, marks, Late,
      Open, Write
  <1>1. ASSUME NEW c \in Ids, CreateCheck(c) PROVE DirInv'
    BY <1>1 DEF CreateCheck
  <1>2. ASSUME NEW c \in Ids, CreateImage(c) PROVE DirInv'
    BY <1>2 DEF CreateImage
  <1>3. ASSUME NEW c \in Ids, CreateExtract(c) PROVE DirInv'
    BY <1>3 DEF CreateExtract
  <1>4. ASSUME NEW c \in Ids, CreateLayer(c) PROVE DirInv'
    BY <1>4 DEF CreateLayer
  <1>5. ASSUME NEW c \in Ids, CreateOpen(c) PROVE DirInv'
    BY <1>5 DEF CreateOpen
  <1>6. ASSUME NEW c \in Ids, CreateWrite(c) PROVE DirInv'
    BY <1>6 DEF CreateWrite
  <1>7. ASSUME NEW c \in Ids, CreateCache(c) PROVE DirInv'
    BY <1>7 DEF CreateCache
  <1>8. ASSUME NEW c \in Ids, Start(c) PROVE DirInv'
    BY <1>8 DEF Start
  <1>9. ASSUME NEW c \in Ids, StartPersist(c) PROVE DirInv'
    BY <1>9 DEF StartPersist
  <1>10. ASSUME NEW c \in Ids, StartWatch(c) PROVE DirInv'
    BY <1>10 DEF StartWatch
  <1>11. ASSUME NEW c \in Ids, Remove(c) PROVE DirInv'
    BY <1>11 DEF Remove
  <1>12. ASSUME NEW c \in Ids, RemoveDir(c) PROVE DirInv'
    BY <1>12 DEF RemoveDir
  <1>13. ASSUME NEW c \in Ids, RemoveOverlayFS(c) PROVE DirInv'
    BY <1>13 DEF RemoveOverlayFS
  <1>14. ASSUME NEW c \in Ids, RemoveFinish(c) PROVE DirInv'
    BY <1>14 DEF RemoveFinish
  <1>15. ASSUME NEW c \in Ids, WaiterMark(c) PROVE DirInv'
    BY <1>15 DEF WaiterMark
  <1>16. ASSUME NEW c \in Ids, WaiterOpen(c) PROVE DirInv'
    BY <1>16 DEF WaiterOpen
  <1>17. ASSUME NEW c \in Ids, WaiterWrite(c) PROVE DirInv'
    BY <1>17 DEF WaiterWrite
  <1>18. CASE Restart
    <2> SUFFICES ASSUME NEW i \in Ids \ late
                 PROVE  Written(i)' /\ Waited(i)'
      BY <1>18, Reloaded
    <2>1. CASE i \in Parsed
      BY <1>18, <2>1, Reloaded
    <2>2. CASE i \notin Parsed
      BY <1>18, <2>2, Reloaded DEF Parsed
    <2> QED
      BY <2>1, <2>2
  <1> QED
    BY <1>1, <1>2, <1>3, <1>4, <1>5, <1>6, <1>7, <1>8, <1>9, <1>10, <1>11,
        <1>12, <1>13, <1>14, <1>15, <1>16, <1>17, <1>18 DEF Next

\* What is written is the configuration, whose name does not change.
LEMMA NextNameInv == ASSUME TypeOK, ConfigInv, NameInv, Next PROVE NameInv'
  <1> USE FilesAssumption DEF TypeOK, NameInv, Step, Creating, files, marks, Open, Write
  <1>1. ASSUME NEW c \in Ids, CreateCheck(c) PROVE NameInv'
    BY <1>1, Configured DEF CreateCheck, ConfigInv
  <1>2. ASSUME NEW c \in Ids, CreateImage(c) PROVE NameInv'
    BY <1>2 DEF CreateImage, ConfigInv, Named
  <1>3. ASSUME NEW c \in Ids, CreateExtract(c) PROVE NameInv'
    BY <1>3 DEF CreateExtract, ConfigInv, Named
  <1>4. ASSUME NEW c \in Ids, CreateLayer(c) PROVE NameInv'
    BY <1>4 DEF CreateLayer, ConfigInv, Named
  <1>5. ASSUME NEW c \in Ids, CreateOpen(c) PROVE NameInv'
    BY <1>5 DEF CreateOpen, ConfigInv, Named
  <1>6. ASSUME NEW c \in Ids, CreateWrite(c) PROVE NameInv'
    BY <1>6 DEF CreateWrite, ConfigInv, Named
  <1>7. ASSUME NEW c \in Ids, CreateCache(c) PROVE NameInv'
    BY <1>7 DEF CreateCache, ConfigInv, Named
  <1>8. ASSUME NEW c \in Ids, Start(c) PROVE NameInv'
    <2>1. /\ pc[c] = "ready" /\ dir'[c] \in {dir[c], Torn}
          /\ \A i \in Ids \ {c} : dir'[i] = dir[i]
          /\ UNCHANGED draft
      BY <1>8 DEF Start
    <2>2. /\ config'[c] # Absent /\ config'[c].name = config[c].name
          /\ \A i \in Ids \ {c} : config'[i] = config[i]
      BY <1>8, <2>1, Configured
    <2> QED
      BY <2>1, <2>2
  <1>9. ASSUME NEW c \in Ids, StartPersist(c) PROVE NameInv'
    BY <1>9 DEF StartPersist, ConfigInv, Named
  <1>10. ASSUME NEW c \in Ids, StartWatch(c) PROVE NameInv'
    BY <1>10 DEF StartWatch, ConfigInv, Named
  <1>11. ASSUME NEW c \in Ids, Remove(c) PROVE NameInv'
    BY <1>11 DEF Remove, ConfigInv, Named
  <1>12. ASSUME NEW c \in Ids, RemoveDir(c) PROVE NameInv'
    BY <1>12 DEF RemoveDir, ConfigInv, Named
  <1>13. ASSUME NEW c \in Ids, RemoveOverlayFS(c) PROVE NameInv'
    BY <1>13 DEF RemoveOverlayFS, ConfigInv, Named
  <1>14. ASSUME NEW c \in Ids, RemoveFinish(c) PROVE NameInv'
    BY <1>14 DEF RemoveFinish, ConfigInv, Named
  <1>15. ASSUME NEW c \in Ids, WaiterMark(c) PROVE NameInv'
    BY <1>15, Configured DEF WaiterMark, ConfigInv
  <1>16. ASSUME NEW c \in Ids, WaiterOpen(c) PROVE NameInv'
    BY <1>16 DEF WaiterOpen, ConfigInv, Named
  <1>17. ASSUME NEW c \in Ids, WaiterWrite(c) PROVE NameInv'
    BY <1>17 DEF WaiterWrite, ConfigInv, Named
  <1>18. CASE Restart
    <2> SUFFICES ASSUME NEW i \in Ids
                 PROVE  dir'[i] \notin {Absent, Torn} =>
                            config'[i] # Absent /\ dir'[i].name = config'[i].name
      BY <1>18, Reloaded
    <2>1. CASE i \in Parsed
      BY <1>18, <2>1, Reloaded
    <2>2. CASE i \notin Parsed
      BY <1>18, <2>2, Reloaded DEF Parsed
    <2> QED
      BY <2>1, <2>2
  <1> QED
    BY <1>1, <1>2, <1>3, <1>4, <1>5, <1>6, <1>7, <1>8, <1>9, <1>10, <1>11,
        <1>12, <1>13, <1>14, <1>15, <1>16, <1>17, <1>18 DEF Next

(* A container keeps its name, its place among those that have one and what *)
(* it overlooked, until it loses its place.                                 *)

Keeps ==
    \A i \in Ids : Bearer(i)' => /\ Bearer(i) /\ config'[i].name = config[i].name
                                 /\ overlooked'[i] = overlooked[i]

\* Only a Create's lookup gives a name.
LEMMA NextKeeps ==
  ASSUME TypeOK, ConfigInv, NameInv, Next, \A c \in Ids : ~CreateCheck(c) PROVE Keeps
  <1> USE FilesAssumption DEF TypeOK, Keeps, Bearer, Parsed, Step, Creating, files, marks,
      Open, Write
  <1>1. ASSUME NEW c \in Ids, CreateImage(c) PROVE Keeps
    BY <1>1 DEF CreateImage, ConfigInv, Named
  <1>2. ASSUME NEW c \in Ids, CreateExtract(c) PROVE Keeps
    BY <1>2 DEF CreateExtract, ConfigInv, Named
  <1>3. ASSUME NEW c \in Ids, CreateLayer(c) PROVE Keeps
    BY <1>3 DEF CreateLayer, ConfigInv, Named
  <1>4. ASSUME NEW c \in Ids, CreateOpen(c) PROVE Keeps
    BY <1>4 DEF CreateOpen, ConfigInv, Named
  <1>5. ASSUME NEW c \in Ids, CreateWrite(c) PROVE Keeps
    BY <1>5 DEF CreateWrite, ConfigInv, Named
  <1>6. ASSUME NEW c \in Ids, CreateCache(c) PROVE Keeps
    BY <1>6 DEF CreateCache, ConfigInv, Named
  <1>7. ASSUME NEW c \in Ids, Start(c) PROVE Keeps
    BY <1>7, Configured DEF Start, ConfigInv
  <1>8. ASSUME NEW c \in Ids, StartPersist(c) PROVE Keeps
    BY <1>8 DEF StartPersist, ConfigInv, Named
  <1>9. ASSUME NEW c \in Ids, StartWatch(c) PROVE Keeps
    BY <1>9 DEF StartWatch, ConfigInv, Named
  <1>10. ASSUME NEW c \in Ids, Remove(c) PROVE Keeps
    BY <1>10 DEF Remove, ConfigInv, Named
  <1>11. ASSUME NEW c \in Ids, RemoveDir(c) PROVE Keeps
    BY <1>11 DEF RemoveDir, ConfigInv, Named
  <1>12. ASSUME NEW c \in Ids, RemoveOverlayFS(c) PROVE Keeps
    BY <1>12 DEF RemoveOverlayFS, ConfigInv, Named
  <1>13. ASSUME NEW c \in Ids, RemoveFinish(c) PROVE Keeps
    BY <1>13 DEF RemoveFinish, ConfigInv, Named
  <1>14. ASSUME NEW c \in Ids, WaiterMark(c) PROVE Keeps
    BY <1>14, Configured DEF WaiterMark, ConfigInv
  <1>15. ASSUME NEW c \in Ids, WaiterOpen(c) PROVE Keeps
    BY <1>15 DEF WaiterOpen, ConfigInv, Named
  <1>16. ASSUME NEW c \in Ids, WaiterWrite(c) PROVE Keeps
    BY <1>16 DEF WaiterWrite, ConfigInv, Named
  <1>17. CASE Restart
    <2> SUFFICES ASSUME NEW i \in Ids, Bearer(i)'
                 PROVE  /\ Bearer(i) /\ config'[i].name = config[i].name
                        /\ overlooked'[i] = overlooked[i]
      OBVIOUS
    <2>1. i \in Parsed
      BY <1>17, Reloaded
    <2> QED
      BY <1>17, <2>1, Reloaded DEF NameInv
  <1> QED
    BY <1>1, <1>2, <1>3, <1>4, <1>5, <1>6, <1>7, <1>8, <1>9, <1>10, <1>11,
        <1>12, <1>13, <1>14, <1>15, <1>16, <1>17 DEF Next

\* A Create takes a name that no file it read has, and overlooks whoever else
\* has it.
LEMMA NextDistinct ==
  ASSUME TypeOK, ConfigInv, NameInv, Distinct, Next PROVE Distinct'
  <1>1. CASE \A c \in Ids : ~CreateCheck(c)
    BY <1>1, NextKeeps DEF Keeps, Distinct
  <1>2. ASSUME NEW c \in Ids, CreateCheck(c) PROVE Distinct'
    <2>1. PICK n \in Names, read \in SUBSET Parsed :
              /\ \A j \in read : ~EqualFold(dir[j].name, n)
              /\ config' = [config EXCEPT ![c] = [name |-> n, state |-> "Created"]]
              /\ overlooked' = [overlooked EXCEPT ![c] = {j \in Ids \ read : Bears(j, n)}]
      BY <1>2 DEF CreateCheck
    <2>2. ASSUME NEW j \in Ids \ {c}, Bearer(j)'
          PROVE  /\ Bearer(j) /\ config'[j] = config[j] /\ overlooked'[j] = overlooked[j]
      BY <1>2, <2>1, <2>2 DEF CreateCheck, Step, Bearer, Parsed, files, TypeOK
    <2>3. ASSUME NEW j \in Ids \ {c}, Bearer(j), Folded[config[j].name] = Folded[n]
          PROVE  j \in overlooked'[c]
      <3>1. ASSUME j \in read PROVE FALSE
        <4>1. dir[j].name = config[j].name
          BY <3>1 DEF NameInv, Parsed
        <4> QED
          BY <2>1, <2>3, <3>1, <4>1 DEF EqualFold
      <3>2. Bears(j, n)
        BY <2>3 DEF Bears, Bearer
      <3> QED
        BY <2>1, <3>1, <3>2 DEF TypeOK
    <2>4. config'[c].name = n
      BY <2>1 DEF TypeOK
    <2> SUFFICES ASSUME NEW i \in Ids, NEW j \in Ids, Bearer(i)', Bearer(j)', i # j,
                        Folded[config'[i].name] = Folded[config'[j].name]
                 PROVE  j \in overlooked'[i] \/ i \in overlooked'[j]
      BY DEF Distinct
    <2>5. CASE i = c
      BY <2>2, <2>3, <2>4, <2>5
    <2>6. CASE j = c
      BY <2>2, <2>3, <2>4, <2>6
    <2>7. CASE i # c /\ j # c
      BY <2>2, <2>7 DEF Distinct
    <2> QED
      BY <2>5, <2>6, <2>7
  <1> QED
    BY <1>1, <1>2

\* Every step keeps the invariant.
LEMMA NextIInv == IInv /\ [Next]_vars => IInv'
  <1>1. ASSUME IInv, Next PROVE IInv'
    <2>1. TypeOK' /\ ConfigInv' /\ DirInv'
      BY <1>1, NextTypeOK, NextConfigInv, NextDirInv DEF IInv
    <2>2. NameInv' /\ Distinct'
      BY <1>1, NextNameInv, NextDistinct DEF IInv
    <2> QED
      BY <2>1, <2>2 DEF IInv
  <1>2. CASE UNCHANGED vars
    BY <1>2 DEF vars, IInv, TypeOK, ConfigInv, NameInv, DirInv, Written, Waited,
       Distinct, Named, Bearer, Parsed
  <1> QED
    BY <1>1, <1>2

\* The inductive invariant holds in every reachable state.
THEOREM Invariance == Spec => []IInv
  BY InitIInv, NextIInv, PTL DEF Spec

-----------------------------------------------------------------------------
\* Two containers that the daemon holds, and is not removing, have one name only
\* if the Create of one did not read the other's state.json.
THEOREM NamesAreUnique == Spec => []UniqueNames
  <1>1. ASSUME IInv PROVE UniqueNames
    <2> SUFFICES ASSUME NEW i \in {k \in mem : pc[k] \notin {"unlayer", "forget"}},
                        NEW j \in {k \in mem : pc[k] \notin {"unlayer", "forget"}},
                        i # j, Folded[config[i].name] = Folded[config[j].name]
                 PROVE  j \in overlooked[i] \/ i \in overlooked[j]
      BY DEF UniqueNames
    <2>1. i \in Ids /\ j \in Ids
      BY <1>1 DEF IInv, TypeOK
    <2>2. Bearer(i) /\ Bearer(j)
      BY <1>1, <2>1 DEF IInv, ConfigInv, Named, Bearer
    <2> QED
      BY <1>1, <2>1, <2>2 DEF IInv, Distinct
  <1> QED
    BY <1>1, Invariance, PTL

\* What a restart would load is what the daemon holds, unless the last write or
\* removal of the container failed or a waiter came late.
THEOREM TheDiskAgrees == Spec => []DiskAgrees
  <1>1. IInv => DiskAgrees
    BY DEF IInv, ConfigInv, DirInv, Written, Waited, DiskAgrees
  <1> QED
    BY <1>1, Invariance, PTL

\* Type correctness.
THEOREM TypeCorrect == Spec => []TypeOK
  <1>1. IInv => TypeOK
    BY DEF IInv
  <1> QED
    BY <1>1, Invariance, PTL
=============================================================================
