----------------------------- MODULE IPAMProofs ------------------------------
(***************************************************************************)
(* Proofs about IPAM, for any containers, addresses, faults and crashes.   *)
(***************************************************************************)
EXTENDS IPAM, WellFoundedInduction, TLAPS

\* The least number of a set, as AllocateNext finds it, is in the set.
LEMMA MinIsMember ==
  ASSUME NEW S \in SUBSET Nat, S # {}
  PROVE  Min(S) \in S
  <1>1. PICK x \in S : \A y \in S : ~(<<y, x>> \in OpToRel(<, Nat))
    BY NatLessThanWellFounded, WFMin, Zenon
  <1>2. ASSUME NEW y \in S PROVE x =< y
    <2>1. <<y, x>> \in OpToRel(<, Nat) <=> <<y, x>>[1] < <<y, x>>[2]
      BY DEF OpToRel
    <2>2. ~(<<y, x>>[1] < <<y, x>>[2])
      BY <1>1, <2>1, Zenon
    <2> QED
      BY <2>2
  <1> QED
    BY <1>2 DEF Min

-----------------------------------------------------------------------------
(* The mutex: what its holder has read is what is in the database.         *)

Holding == {"allocating", "releasing"}

MutexInv ==
    /\ \A c \in Containers : pc[c] \in Holding <=> mu = c
    /\ mu # NoOne => loaded = bitmap

(* The books: which address each container is charged with, from its       *)
(* allocation to its release.                                              *)

Linked == {"connected", "persist", "running", "unlink"}
Releasing == {"release", "releasing"}

Owned(c) ==
    CASE pc[c] \in Linked -> addr[c]
      [] pc[c] = "link" -> new[c]
      [] pc[c] \in Releasing -> cfgIp[c]
      [] OTHER -> None

Attached(c) ==
    /\ pc[c] \in Linked => cfgIp[c] = addr[c]
    /\ pc[c] \in Linked <=> c \in veth
    /\ pc[c] \notin Linked => addr[c] = None
    /\ pc[c] # "link" => new[c] = None
    /\ pc[c] \in Linked \cup Releasing \cup {"link"} => Owned(c) # None

Exclusive ==
    \A c, d \in Containers : Owned(c) = Owned(d) /\ Owned(c) # None => c = d

Books ==
    /\ \A c \in Containers : Attached(c)
    /\ Exclusive
    /\ bitmap = {Owned(c) : c \in Containers} \ {None}

(* What is known of the address of a container that is Running in memory,  *)
(* on disk, or in what a waiter has yet to write.                          *)

Fits(c, ip) == addr[c] \in {None, ip}

WatchInv ==
    \A c \in Containers :
        /\ pc[c] \in {"persist", "running"} => c \in running
        /\ c \in running =>
              pc[c] \in {"persist", "running", "unlink", "settle"} \cup Releasing
        /\ pc[c] \in {"connected", "persist"} => cfgIp[c] = addr[c]
        /\ c \in running /\ (c \notin behind \/ draft[c] # Nothing) =>
              Fits(c, cfgIp[c])
        /\ OnDisk(c) /\ c \notin behind => Fits(c, disk[c].ip)
        /\ draft[c] \in Saved /\ draft[c].running =>
              c \in running /\ Fits(c, draft[c].ip)

IInv == /\ TypeOK
        /\ MutexInv
        /\ sound => Books
        /\ WatchInv

-----------------------------------------------------------------------------
\* Nobody is charged with anything at first.
LEMMA InitIInv == Init => IInv
  <1> SUFFICES ASSUME Init PROVE IInv
    OBVIOUS
  <1> USE DEF Init
  <1>1. TypeOK
    BY IPAMAssumption DEF TypeOK, Address, PCs, None, Saved
  <1>2. MutexInv
    BY IPAMAssumption DEF MutexInv, Holding
  <1>3. Books
    <2>1. \A c \in Containers : Owned(c) = None
      BY DEF Owned, Linked, Releasing
    <2> QED
      BY <2>1 DEF Books, Attached, Exclusive, Linked, Releasing
  <1>4. WatchInv
    BY SavedAssumption DEF WatchInv, Fits, OnDisk
  <1> QED
    BY <1>1, <1>2, <1>3, <1>4 DEF IInv

\* A write puts a configuration, the old file or a torn one in its place.
LEMMA WriteKeeps ==
  ASSUME TypeOK, NEW c \in Containers, NEW config \in Saved, Write(c, config)
  PROVE  /\ disk' \in [Containers -> Saved \cup {Torn}]
         /\ behind' \subseteq Containers
         /\ \A d \in Containers \ {c} : disk'[d] = disk[d] /\ (d \in behind' <=> d \in behind)
         /\ \/ disk'[c] = config /\ c \notin behind'
            \/ disk'[c] \in {disk[c], Torn} /\ (c \in behind' <=> c \in behind)
  BY DEF Write, TypeOK

\* A configuration as it is in memory can be saved.
LEMMA ConfigIsSaved ==
  ASSUME TypeOK, NEW c \in Containers
  PROVE  /\ Config(c) \in Saved
         /\ Config(c).running = (c \in running) /\ Config(c).ip = cfgIp[c]
  <1>1. cfgIp[c] \in Address
    BY DEF TypeOK
  <1> QED
    BY <1>1 DEF Config, Saved

\* Every action keeps the types.
LEMMA NextTypeOK == ASSUME TypeOK, Next PROVE TypeOK'
  <1> USE IPAMAssumption DEF TypeOK, Step, network, records, bounds
  <1>t. \A v \in {addr, new, cfgIp} : v \in [Containers -> Address]
    OBVIOUS
  <1>0. sound' \in BOOLEAN
    BY DEF Next
  <1>1. ASSUME NEW c \in Containers, Prepare(c) PROVE TypeOK'
    <2>1. starts' \in 0 .. MaxStarts
      BY <1>1 DEF Prepare
    <2> QED
      BY <1>t, <1>0, <1>1, <2>1 DEF Prepare, PCs
  <1>2. ASSUME NEW c \in Containers, Load(c) PROVE TypeOK'
    BY <1>t, <1>0, <1>2 DEF Load, PCs
  <1>d. ASSUME NEW c \in Containers, DatabaseFails(c) PROVE TypeOK'
    BY <1>t, <1>0, <1>d DEF DatabaseFails, PCs
  <1>3. ASSUME NEW c \in Containers, Allocate(c) PROVE TypeOK'
    <2>1. ASSUME (Hosts \ loaded) # {} PROVE Min(Hosts \ loaded) \in Hosts \ loaded
      BY <2>1, MinIsMember, (Hosts \ loaded) \in SUBSET Nat, Zenon
    <2> DEFINE m == Min(Hosts \ loaded)
    <2>2. bitmap' \subseteq Hosts /\ new' \in [Containers -> Address]
      <3> HIDE DEF m
      <3>1. (Hosts \ loaded) # {} => m \in Hosts
        BY <2>1 DEF m
      <3>2. \/ (Hosts \ loaded) # {} /\ new' = [new EXCEPT ![c] = m]
                                     /\ bitmap' = loaded \cup {m}
            \/ UNCHANGED <<new, bitmap>>
        BY <1>3 DEF Allocate, m
      <3>3. new \in [Containers -> Address] /\ Hosts \subseteq Address
        BY <1>t DEF Address
      <3>4. loaded \subseteq Hosts /\ bitmap \subseteq Hosts
        OBVIOUS
      <3> HIDE DEF TypeOK
      <3> QED
        BY <3>1, <3>2, <3>3, <3>4
    <2>3. pc' \in [Containers -> PCs]
      BY <1>3 DEF Allocate, PCs
    <2>4. /\ mu' = NoOne /\ loaded' = {}
          /\ UNCHANGED <<veth, addr, cfgIp, records, alive, bounds>>
      BY <1>3 DEF Allocate
    <2> QED
      BY <1>t, <1>0, <2>2, <2>3, <2>4
  <1>4. ASSUME NEW c \in Containers, Link(c) PROVE TypeOK'
    <2>1. /\ addr' \in [Containers -> Address] /\ cfgIp' \in [Containers -> Address]
          /\ new' \in [Containers -> Address]
      BY <1>t, <1>4 DEF Link, Address
    <2>2. pc' \in [Containers -> PCs] /\ veth' \subseteq Containers
          /\ behind' \subseteq Containers
      BY <1>4 DEF Link, PCs
    <2>3. UNCHANGED <<bitmap, mu, loaded, running, disk, draft, alive, bounds>>
      BY <1>4 DEF Link
    <2> QED
      BY <1>t, <1>0, <2>1, <2>2, <2>3
  <1>5. ASSUME NEW c \in Containers, Launch(c) PROVE TypeOK'
    <2>1. pc' \in [Containers -> PCs] /\ alive' \subseteq Containers
          /\ running' \subseteq Containers
      BY <1>5 DEF Launch, PCs
    <2>2. UNCHANGED <<network, addr, new, cfgIp, disk, draft, behind, bounds>>
      BY <1>5 DEF Launch
    <2> QED
      BY <1>t, <1>0, <2>1, <2>2
  <1>6. ASSUME NEW c \in Containers, Persist(c) PROVE TypeOK'
    <2>1. disk' \in [Containers -> Saved \cup {Torn}] /\ behind' \subseteq Containers
      BY <1>6, ConfigIsSaved, WriteKeeps DEF Persist
    <2>2. pc' \in [Containers -> PCs]
      BY <1>6 DEF Persist, PCs
    <2>3. UNCHANGED <<network, addr, new, cfgIp, running, draft, alive, bounds>>
      BY <1>6 DEF Persist
    <2> QED
      BY <1>t, <1>0, <2>1, <2>2, <2>3
  <1>7. ASSUME NEW c \in Containers, InitExit(c) PROVE TypeOK'
    BY <1>t, <1>0, <1>7 DEF InitExit
  <1>8. ASSUME NEW c \in Containers, Exited(c) PROVE TypeOK'
    BY <1>t, <1>0, <1>8 DEF Exited, PCs
  <1>9. ASSUME NEW c \in Containers, Unlink(c) PROVE TypeOK'
    <2>1. addr' \in [Containers -> Address]
      BY <1>t, <1>9 DEF Unlink, Address
    <2>2. pc' \in [Containers -> PCs] /\ veth' \subseteq Containers
      BY <1>9 DEF Unlink, PCs
    <2>3. UNCHANGED <<bitmap, mu, loaded, new, cfgIp, records, alive, bounds>>
      BY <1>9 DEF Unlink
    <2> QED
      BY <1>t, <1>0, <2>1, <2>2, <2>3
  <1>10. ASSUME NEW c \in Containers, Release(c) PROVE TypeOK'
    BY <1>t, <1>0, <1>10 DEF Release, PCs
  <1>11. ASSUME NEW c \in Containers, Settle(c) PROVE TypeOK'
    BY <1>t, <1>0, <1>11 DEF Settle, PCs
  <1>m. ASSUME NEW c \in Containers, WaiterMarshal(c) PROVE TypeOK'
    <2>1. draft' \in [Containers -> Saved \cup {Nothing, Marked}]
      BY <1>m, ConfigIsSaved DEF WaiterMarshal
    <2>2. UNCHANGED <<network, addr, new, cfgIp, running, disk, behind, alive, pc,
                      bounds>>
      BY <1>m DEF WaiterMarshal
    <2> QED
      BY <1>t, <1>0, <2>1, <2>2
  <1>w. ASSUME NEW c \in Containers, WaiterWrite(c) PROVE TypeOK'
    <2>1. disk' \in [Containers -> Saved \cup {Torn}] /\ behind' \subseteq Containers
      BY <1>w, WriteKeeps DEF WaiterWrite
    <2>2. /\ draft' \in [Containers -> Saved \cup {Nothing, Marked}]
          /\ UNCHANGED <<network, addr, new, cfgIp, running, alive, pc, bounds>>
      BY <1>w DEF WaiterWrite
    <2> QED
      BY <1>t, <1>0, <2>1, <2>2
  <1>12. CASE Crash
    <2>1. disk' \in [Containers -> Saved \cup {Torn}]
      BY <1>12 DEF Crash
    <2>2. cfgIp' \in [Containers -> Address]
      <3>1. \A c \in Containers : disk'[c] # Torn => disk'[c].ip \in Address
        BY <2>1 DEF Saved
      <3> QED
        BY <1>12, <3>1 DEF Crash, Address
    <2>3. new' \in [Containers -> Address] /\ pc' \in [Containers -> PCs]
      BY <1>12 DEF Crash, Address, PCs
    <2>4. crashes' \in 0 .. MaxCrashes
      BY <1>12 DEF Crash
    <2>5. /\ running' \subseteq Containers /\ mu' = NoOne /\ loaded' = {}
          /\ draft' \in [Containers -> Saved \cup {Nothing, Marked}]
          /\ UNCHANGED <<bitmap, veth, addr, behind, alive, starts>>
      BY <1>12 DEF Crash
    <2> QED
      BY <1>t, <1>0, <2>1, <2>2, <2>3, <2>4, <2>5
  <1> QED
    BY <1>1, <1>2, <1>d, <1>3, <1>4, <1>5, <1>6, <1>7, <1>8, <1>9, <1>10, <1>11,
       <1>m, <1>w, <1>12 DEF Next

\* Only Load takes the mutex, and only its holder writes the bitmap.
LEMMA NextMutexInv == ASSUME TypeOK, MutexInv, Next PROVE MutexInv'
  <1> USE IPAMAssumption DEF TypeOK, MutexInv, Holding, Step, network
  <1>1. ASSUME NEW c \in Containers, Prepare(c) PROVE MutexInv'
    BY <1>1 DEF Prepare
  <1>2. ASSUME NEW c \in Containers, Load(c) PROVE MutexInv'
    BY <1>2 DEF Load
  <1>d. ASSUME NEW c \in Containers, DatabaseFails(c) PROVE MutexInv'
    BY <1>d DEF DatabaseFails
  <1>3. ASSUME NEW c \in Containers, Allocate(c) PROVE MutexInv'
    <2>1. \/ pc[c] = "allocating" /\ pc' = [pc EXCEPT ![c] = "link"]
          \/ pc[c] = "allocating" /\ pc' = [pc EXCEPT ![c] = "unlink"]
      BY <1>3 DEF Allocate
    <2>2. mu' = NoOne
      BY <1>3 DEF Allocate
    <2> QED
      BY <2>1, <2>2
  <1>4. ASSUME NEW c \in Containers, Link(c) PROVE MutexInv'
    BY <1>4 DEF Link
  <1>5. ASSUME NEW c \in Containers, Launch(c) PROVE MutexInv'
    BY <1>5 DEF Launch
  <1>6. ASSUME NEW c \in Containers, Persist(c) PROVE MutexInv'
    BY <1>6 DEF Persist
  <1>7. ASSUME NEW c \in Containers, InitExit(c) PROVE MutexInv'
    BY <1>7 DEF InitExit
  <1>8. ASSUME NEW c \in Containers, Exited(c) PROVE MutexInv'
    BY <1>8 DEF Exited
  <1>9. ASSUME NEW c \in Containers, Unlink(c) PROVE MutexInv'
    BY <1>9 DEF Unlink
  <1>10. ASSUME NEW c \in Containers, Release(c) PROVE MutexInv'
    BY <1>10 DEF Release
  <1>11. ASSUME NEW c \in Containers, Settle(c) PROVE MutexInv'
    BY <1>11 DEF Settle
  <1>m. ASSUME NEW c \in Containers, WaiterMarshal(c) PROVE MutexInv'
    BY <1>m DEF WaiterMarshal
  <1>w. ASSUME NEW c \in Containers, WaiterWrite(c) PROVE MutexInv'
    BY <1>w DEF WaiterWrite
  <1>12. CASE Crash
    BY <1>12 DEF Crash
  <1> QED
    BY <1>1, <1>2, <1>d, <1>3, <1>4, <1>5, <1>6, <1>7, <1>8, <1>9, <1>10, <1>11,
       <1>m, <1>w, <1>12 DEF Next

\* What is Running on disk and not behind was written with the address that the
\* container had, and a draft that says Running is of the present run.
LEMMA NextWatchInv == ASSUME TypeOK, WatchInv, Next PROVE WatchInv'
  <1> USE SavedAssumption DEF TypeOK, WatchInv, Fits, OnDisk, Releasing, Step, network,
      records
  <1>1. ASSUME NEW c \in Containers, Prepare(c) PROVE WatchInv'
    BY <1>1 DEF Prepare
  <1>2. ASSUME NEW c \in Containers, Load(c) PROVE WatchInv'
    BY <1>2 DEF Load
  <1>d. ASSUME NEW c \in Containers, DatabaseFails(c) PROVE WatchInv'
    BY <1>d DEF DatabaseFails
  <1>3. ASSUME NEW c \in Containers, Allocate(c) PROVE WatchInv'
    <2>1. \/ pc[c] = "allocating" /\ pc' = [pc EXCEPT ![c] = "link"]
          \/ pc[c] = "allocating" /\ pc' = [pc EXCEPT ![c] = "unlink"]
      BY <1>3 DEF Allocate
    <2>2. UNCHANGED <<addr, cfgIp, records>>
      BY <1>3 DEF Allocate
    <2> QED
      BY <2>1, <2>2
  <1>4. ASSUME NEW c \in Containers, Link(c) PROVE WatchInv'
    <2>1. \A d \in Containers \ {c} :
             /\ addr'[d] = addr[d] /\ cfgIp'[d] = cfgIp[d] /\ pc'[d] = pc[d]
             /\ d \in behind' <=> d \in behind
      BY <1>4 DEF Link
    <2>2. \/ /\ pc'[c] = "connected" /\ cfgIp'[c] = addr'[c]
             /\ OnDisk(c) => c \in behind'
          \/ /\ pc'[c] = "unlink" /\ addr'[c] = addr[c] /\ cfgIp'[c] = cfgIp[c]
             /\ c \in behind' <=> c \in behind
      BY <1>4 DEF Link
    <2>3. pc[c] = "link" /\ UNCHANGED <<running, disk, draft>>
      BY <1>4 DEF Link
    <2>4. c \notin running /\ ~(draft[c] \in Saved /\ draft[c].running)
      BY <2>3
    <2> QED
      BY <2>1, <2>2, <2>3, <2>4
  <1>5. ASSUME NEW c \in Containers, Launch(c) PROVE WatchInv'
    BY <1>5 DEF Launch
  <1>6. ASSUME NEW c \in Containers, Persist(c) PROVE WatchInv'
    <2>1. pc[c] = "persist" /\ pc' = [pc EXCEPT ![c] = "running"]
          /\ UNCHANGED <<addr, cfgIp, running, draft>>
      BY <1>6 DEF Persist
    <2>2. /\ \A d \in Containers \ {c} :
                disk'[d] = disk[d] /\ (d \in behind' <=> d \in behind)
          /\ \/ disk'[c] = Config(c) /\ c \notin behind'
             \/ disk'[c] \in {disk[c], Torn} /\ (c \in behind' <=> c \in behind)
      BY <1>6, ConfigIsSaved, WriteKeeps DEF Persist
    <2>3. Config(c).ip = cfgIp[c] /\ cfgIp[c] = addr[c]
      BY <2>1, ConfigIsSaved
    <2> QED
      BY <2>1, <2>2, <2>3
  <1>7. ASSUME NEW c \in Containers, InitExit(c) PROVE WatchInv'
    BY <1>7 DEF InitExit
  <1>8. ASSUME NEW c \in Containers, Exited(c) PROVE WatchInv'
    BY <1>8 DEF Exited
  <1>9. ASSUME NEW c \in Containers, Unlink(c) PROVE WatchInv'
    <2>1. \A d \in Containers \ {c} : addr'[d] = addr[d] /\ pc'[d] = pc[d]
      BY <1>9 DEF Unlink
    <2>2. pc[c] = "unlink" /\ pc'[c] \in {"release", "settle"}
          /\ addr'[c] \in {None, addr[c]}
      BY <1>9 DEF Unlink
    <2>3. UNCHANGED <<cfgIp, records>>
      BY <1>9 DEF Unlink
    <2> QED
      BY <2>1, <2>2, <2>3
  <1>10. ASSUME NEW c \in Containers, Release(c) PROVE WatchInv'
    BY <1>10 DEF Release
  <1>11. ASSUME NEW c \in Containers, Settle(c) PROVE WatchInv'
    <2>1. \A d \in Containers \ {c} :
             /\ draft'[d] = draft[d] /\ pc'[d] = pc[d]
             /\ d \in running' <=> d \in running
      BY <1>11 DEF Settle
    <2>2. /\ pc'[c] = "idle" /\ c \notin running'
          /\ \/ draft[c] = Nothing /\ draft'[c] \in {Nothing, Marked}
             \/ c \notin running /\ draft'[c] = draft[c]
      BY <1>11 DEF Settle
    <2>3. UNCHANGED <<addr, cfgIp, disk, behind>>
      BY <1>11 DEF Settle
    <2> QED
      BY <2>1, <2>2, <2>3
  <1>m. ASSUME NEW c \in Containers, WaiterMarshal(c) PROVE WatchInv'
    <2>1. /\ draft[c] = Marked /\ draft' = [draft EXCEPT ![c] = Config(c)]
          /\ UNCHANGED <<addr, cfgIp, running, disk, behind, pc>>
      BY <1>m DEF WaiterMarshal
    <2>2. Config(c).running = (c \in running) /\ Config(c).ip = cfgIp[c]
      BY ConfigIsSaved
    <2> QED
      BY <2>1, <2>2
  <1>w. ASSUME NEW c \in Containers, WaiterWrite(c) PROVE WatchInv'
    <2>1. /\ draft[c] \in Saved /\ draft' = [draft EXCEPT ![c] = Nothing]
          /\ UNCHANGED <<addr, cfgIp, running, pc>>
      BY <1>w DEF WaiterWrite
    <2>2. /\ \A d \in Containers \ {c} :
                disk'[d] = disk[d] /\ (d \in behind' <=> d \in behind)
          /\ \/ disk'[c] = draft[c] /\ c \notin behind'
             \/ disk'[c] \in {disk[c], Torn} /\ (c \in behind' <=> c \in behind)
      BY <1>w, WriteKeeps DEF WaiterWrite
    <2> QED
      BY <2>1, <2>2
  <1>12. CASE Crash
    <2>1. \A c \in Containers :
             /\ disk'[c] \in {disk[c], Torn} /\ draft'[c] = Nothing
             /\ c \in running' <=> disk'[c] # Torn /\ disk'[c].running
             /\ pc'[c] \in {"gone", "running", "idle"}
             /\ pc'[c] = "running" <=> c \in running'
             /\ c \in running' => cfgIp'[c] = disk'[c].ip
      BY <1>12 DEF Crash
    <2>2. UNCHANGED <<addr, behind>>
      BY <1>12 DEF Crash
    <2> QED
      BY <2>1, <2>2
  <1> QED
    BY <1>1, <1>2, <1>d, <1>3, <1>4, <1>5, <1>6, <1>7, <1>8, <1>9, <1>10, <1>11,
       <1>m, <1>w, <1>12 DEF Next

-----------------------------------------------------------------------------
(* The books are kept as long as the behaviour is sound.                   *)

\* When no container's account changes and the bitmap does not either, what is
\* left is each container's own part.
LEMMA AccountsUnchanged ==
  ASSUME Books, bitmap' = bitmap,
         \A c \in Containers : Owned(c)' = Owned(c),
         \A c \in Containers : Attached(c)'
  PROVE  Books'
  BY DEF Books, Exclusive

\* What sound rules out.
LEMMA SoundSteps ==
  ASSUME Next, sound'
  PROVE  /\ sound
         /\ crashes' = crashes
         /\ \A c \in Containers :
              /\ pc'[c] = "unlink" => pc[c] \notin {"idle", "connect", "allocating", "link", "connected"}
              /\ pc'[c] = "settle" => pc[c] \notin {"unlink", "release"}
  BY DEF Next, Moved

\* Allocation charges a container with an address nobody has, release clears
\* exactly the one it was charged with; the other steps move it along.
LEMMA NextBooks ==
  ASSUME TypeOK, MutexInv, Books, Next, sound' PROVE Books'
  <1> USE DEF TypeOK, Step, network
  <1>0. /\ crashes' = crashes
        /\ \A c \in Containers :
             /\ pc'[c] = "unlink" => pc[c] \notin {"idle", "connect", "allocating", "link", "connected"}
             /\ pc'[c] = "settle" => pc[c] \notin {"unlink", "release"}
    BY SoundSteps
  <1>a. \A c \in Containers : Attached(c)
    BY DEF Books
  <1> USE DEF Owned, Attached, Linked, Releasing
  <1>1. ASSUME NEW c \in Containers, Prepare(c) PROVE Books'
    <2>1. pc[c] = "idle" /\ pc' = [pc EXCEPT ![c] = "connect"]
      BY <1>0, <1>1 DEF Prepare
    <2>2. UNCHANGED <<bitmap, veth, addr, new, cfgIp>>
      BY <1>1 DEF Prepare
    <2> QED
      BY <1>a, <2>1, <2>2, AccountsUnchanged
  <1>2. ASSUME NEW c \in Containers, Load(c) PROVE Books'
    <2>1. \/ pc[c] = "connect" /\ pc' = [pc EXCEPT ![c] = "allocating"]
          \/ pc[c] = "release" /\ pc' = [pc EXCEPT ![c] = "releasing"]
      BY <1>2 DEF Load
    <2>2. UNCHANGED <<bitmap, veth, addr, new, cfgIp>>
      BY <1>2 DEF Load
    <2> QED
      BY <1>a, <2>1, <2>2, AccountsUnchanged
  <1>d. ASSUME NEW c \in Containers, DatabaseFails(c) PROVE Books'
    BY <1>0, <1>d DEF DatabaseFails
  <1>3. ASSUME NEW c \in Containers, Allocate(c) PROVE Books'
    <2> DEFINE m == Min(Hosts \ loaded)
    <2>1. /\ pc[c] = "allocating" /\ pc' = [pc EXCEPT ![c] = "link"]
          /\ (Hosts \ loaded) # {} /\ new' = [new EXCEPT ![c] = m]
          /\ bitmap' = loaded \cup {m}
      BY <1>0, <1>3 DEF Allocate
    <2>2. m \in Hosts \ loaded
      BY <2>1, IPAMAssumption, MinIsMember, (Hosts \ loaded) \in SUBSET Nat, Zenon
    <2> HIDE DEF m
    <2>3. loaded = bitmap
      BY <2>1, IPAMAssumption DEF MutexInv, Holding
    <2>4. UNCHANGED <<veth, addr, cfgIp>>
      BY <1>3 DEF Allocate
    <2>5. m # None
      BY <2>2, IPAMAssumption DEF None
    <2>6. Owned(c) = None /\ Owned(c)' = m
      BY <2>1
    <2>7. \A d \in Containers \ {c} : Owned(d)' = Owned(d)
      BY <2>1, <2>4
    <2>8. \A d \in Containers : Attached(d)'
      BY <1>a, <2>1, <2>4, <2>5
    <2> HIDE DEF Owned, Attached
    <2>9. \A d \in Containers \ {c} : Owned(d) # m
      BY <2>2, <2>3, <2>5 DEF Books
    <2>10. Exclusive'
      BY <2>6, <2>7, <2>9 DEF Books, Exclusive
    <2>11. bitmap' = {Owned(d)' : d \in Containers} \ {None}
      BY <2>1, <2>3, <2>5, <2>6, <2>7 DEF Books
    <2> QED
      BY <2>8, <2>10, <2>11 DEF Books
  <1>4. ASSUME NEW c \in Containers, Link(c) PROVE Books'
    <2>1. /\ pc[c] = "link" /\ pc' = [pc EXCEPT ![c] = "connected"]
          /\ addr' = [addr EXCEPT ![c] = new[c]]
          /\ cfgIp' = [cfgIp EXCEPT ![c] = new[c]]
          /\ veth' = veth \cup {c}
          /\ new' = [new EXCEPT ![c] = None]
          /\ bitmap' = bitmap
      BY <1>0, <1>4 DEF Link
    <2> QED
      BY <1>a, <2>1, AccountsUnchanged
  <1>5. ASSUME NEW c \in Containers, Launch(c) PROVE Books'
    <2>1. pc[c] = "connected" /\ pc' = [pc EXCEPT ![c] = "persist"]
      BY <1>0, <1>5 DEF Launch
    <2>2. UNCHANGED <<bitmap, veth, addr, new, cfgIp>>
      BY <1>5 DEF Launch
    <2> QED
      BY <1>a, <2>1, <2>2, AccountsUnchanged
  <1>6. ASSUME NEW c \in Containers, Persist(c) PROVE Books'
    <2>1. /\ pc[c] = "persist" /\ pc' = [pc EXCEPT ![c] = "running"]
          /\ UNCHANGED <<bitmap, veth, addr, new, cfgIp>>
      BY <1>6 DEF Persist
    <2> QED
      BY <1>a, <2>1, AccountsUnchanged
  <1>7. ASSUME NEW c \in Containers, InitExit(c) PROVE Books'
    <2>1. UNCHANGED <<pc, bitmap, veth, addr, new, cfgIp>>
      BY <1>7 DEF InitExit
    <2> QED
      BY <1>a, <2>1, AccountsUnchanged
  <1>8. ASSUME NEW c \in Containers, Exited(c) PROVE Books'
    <2>1. /\ pc[c] = "running" /\ pc' = [pc EXCEPT ![c] = "unlink"]
          /\ UNCHANGED <<bitmap, veth, addr, new, cfgIp>>
      BY <1>8 DEF Exited
    <2> QED
      BY <1>a, <2>1, AccountsUnchanged
  <1>9. ASSUME NEW c \in Containers, Unlink(c) PROVE Books'
    <2>1. /\ pc[c] = "unlink" /\ pc' = [pc EXCEPT ![c] = "release"]
          /\ veth' = veth \ {c}
          /\ addr' = [addr EXCEPT ![c] = None]
          /\ UNCHANGED <<bitmap, new, cfgIp>>
      BY <1>0, <1>9 DEF Unlink
    <2> QED
      BY <1>a, <2>1, AccountsUnchanged
  <1>10. ASSUME NEW c \in Containers, Release(c) PROVE Books'
    <2>1. /\ pc[c] = "releasing" /\ pc' = [pc EXCEPT ![c] = "settle"]
          /\ bitmap' = loaded \ {cfgIp[c]}
          /\ UNCHANGED <<veth, addr, new, cfgIp>>
      BY <1>10 DEF Release
    <2>2. loaded = bitmap
      BY <2>1, IPAMAssumption DEF MutexInv, Holding
    <2>3. Owned(c) = cfgIp[c] /\ Owned(c) # None /\ Owned(c)' = None
      BY <1>a, <2>1
    <2>4. \A d \in Containers \ {c} : Owned(d)' = Owned(d)
      BY <2>1
    <2>5. \A d \in Containers : Attached(d)'
      BY <1>a, <2>1
    <2> HIDE DEF Owned, Attached
    <2>6. \A d \in Containers \ {c} : Owned(d) # Owned(c)
      BY <2>3 DEF Books, Exclusive
    <2>7. Exclusive'
      BY <2>3, <2>4 DEF Books, Exclusive
    <2>8. bitmap' = {Owned(d)' : d \in Containers} \ {None}
      BY <2>1, <2>2, <2>3, <2>4, <2>6 DEF Books
    <2> QED
      BY <2>5, <2>7, <2>8 DEF Books
  <1>11. ASSUME NEW c \in Containers, Settle(c) PROVE Books'
    <2>1. /\ pc[c] = "settle" /\ pc' = [pc EXCEPT ![c] = "idle"]
          /\ UNCHANGED <<bitmap, veth, addr, new, cfgIp>>
      BY <1>11 DEF Settle
    <2> QED
      BY <1>a, <2>1, AccountsUnchanged
  <1>m. ASSUME NEW c \in Containers, WaiterMarshal(c) PROVE Books'
    <2>1. UNCHANGED <<pc, bitmap, veth, addr, new, cfgIp>>
      BY <1>m DEF WaiterMarshal
    <2> QED
      BY <1>a, <2>1, AccountsUnchanged
  <1>w. ASSUME NEW c \in Containers, WaiterWrite(c) PROVE Books'
    <2>1. UNCHANGED <<pc, bitmap, veth, addr, new, cfgIp>>
      BY <1>w DEF WaiterWrite
    <2> QED
      BY <1>a, <2>1, AccountsUnchanged
  <1>12. CASE Crash
    BY <1>0, <1>12 DEF Crash
  <1> QED
    BY <1>1, <1>2, <1>d, <1>3, <1>4, <1>5, <1>6, <1>7, <1>8, <1>9, <1>10, <1>11,
       <1>m, <1>w, <1>12 DEF Next

-----------------------------------------------------------------------------
\* The inductive step.
LEMMA NextIInv == IInv /\ [Next]_vars => IInv'
  <1> SUFFICES ASSUME IInv, [Next]_vars PROVE IInv'
    OBVIOUS
  <1>1. CASE Next
    <2>1. TypeOK' /\ MutexInv' /\ WatchInv'
      BY <1>1, NextTypeOK, NextMutexInv, NextWatchInv DEF IInv
    <2>2. ASSUME sound' PROVE Books'
      BY <1>1, <2>2, SoundSteps, NextBooks DEF IInv
    <2> QED
      BY <2>1, <2>2 DEF IInv
  <1>2. CASE UNCHANGED vars
    BY <1>2 DEF vars, network, records, bounds, Fits, OnDisk, IInv, TypeOK, MutexInv, Holding, Books, Attached,
       Exclusive, Owned, Linked, Releasing, WatchInv
  <1> QED
    BY <1>1, <1>2

\* The inductive invariant holds in every reachable state.
THEOREM Invariance == Spec => []IInv
  BY InitIInv, NextIInv, PTL DEF Spec

\* The books give the three properties of the addresses.
LEMMA BooksImply ==
  ASSUME TypeOK, Books PROVE NoSharedAddress /\ UsedIsMarked /\ MarkedIsUsed
  <1> USE DEF TypeOK
  <1>1. \A c \in Containers :
           addr[c] \in {Owned(c), None} /\ new[c] \in {Owned(c), None}
    BY DEF Books, Attached, Owned, Linked, Releasing
  <1>2. \A c \in Containers : addr[c] # None => addr[c] = Owned(c)
    BY <1>1
  <1>3. NoSharedAddress
    BY <1>2 DEF NoSharedAddress, Books, Exclusive
  <1>4. UsedIsMarked
    BY <1>1 DEF UsedIsMarked, Books
  <1>5. ASSUME \A c \in Containers : pc[c] \in {"idle", "running"}
        PROVE  bitmap = {addr[c] : c \in Containers} \ {None}
    <2>1. \A c \in Containers : Owned(c) = addr[c]
      BY <1>5 DEF Books, Attached, Owned, Linked, Releasing
    <2> QED
      BY <2>1 DEF Books
  <1> QED
    BY <1>3, <1>4, <1>5 DEF MarkedIsUsed

\* No two containers hold one address on the bridge.
THEOREM AddressesAreUnique == Spec => []NoSharedAddress
  <1>1. IInv => NoSharedAddress
    BY BooksImply DEF IInv, NoSharedAddress
  <1> QED
    BY <1>1, Invariance, PTL

\* The bitmap has every address that is used or about to be.
THEOREM UsedAddressesAreMarked == Spec => []UsedIsMarked
  <1>1. IInv => UsedIsMarked
    BY BooksImply DEF IInv, UsedIsMarked
  <1> QED
    BY <1>1, Invariance, PTL

\* The bitmap has nothing else when no start or cleanup is under way.
THEOREM NoAddressLeaks == Spec => []MarkedIsUsed
  <1>1. IInv => MarkedIsUsed
    BY BooksImply DEF IInv, MarkedIsUsed
  <1> QED
    BY <1>1, Invariance, PTL

\* Outside `behind`, the daemon knows the address of what it watches, whatever
\* crashes and failing writes came before.
THEOREM WatchedAddressesAreKnown == Spec => []WatchedAddressKnown
  <1>1. IInv => WatchedAddressKnown
    BY DEF IInv, WatchInv, Fits, WatchedAddressKnown
  <1> QED
    BY <1>1, Invariance, PTL

\* Type correctness.
THEOREM TypeCorrect == Spec => []TypeOK
  <1>1. IInv => TypeOK
    BY DEF IInv
  <1> QED
    BY <1>1, Invariance, PTL
=============================================================================
