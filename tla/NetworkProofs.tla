---------------------------- MODULE NetworkProofs ----------------------------
(***************************************************************************)
(* Proofs about SubnetBitmap, for any size of word and subnet, and about   *)
(* Network, for any administrators, containers, faults and crashes.        *)
(***************************************************************************)
EXTENDS Network, FiniteSetTheorems, WellFoundedInduction, TLAPS

(* The least number of a set, as AllocateNext finds it.                    *)

\* It is in the set and no number of the set is less.
LEMMA MinIsLeast ==
  ASSUME NEW S \in SUBSET Nat, S # {}
  PROVE  Min(S) \in S /\ \A y \in S : Min(S) <= y
  <1>1. PICK x \in S : \A y \in S : ~(<<y, x>> \in OpToRel(<, Nat))
    BY NatLessThanWellFounded, WFMin, Zenon
  <1>2. ASSUME NEW y \in S PROVE x =< y
    <2>1. <<y, x>> \in OpToRel(<, Nat) <=> <<y, x>>[1] < <<y, x>>[2]
      BY DEF OpToRel
    <2>2. ~(<<y, x>>[1] < <<y, x>>[2])
      BY <1>1, <2>1, Zenon
    <2> QED
      BY <2>2
  <1> QED
    BY <1>2 DEF Min

(* Offsets, words and bits.                                                *)

\* An offset is a bit of a word.
LEMMA OffsetParts ==
  ASSUME NEW o \in Nat
  PROVE  /\ o \div W \in Nat /\ o % W \in Bits
         /\ (o \div W) * W + (o % W) = o
  BY WAssumption DEF Bits

\* A bit of a word is one offset.
LEMMA PartsOffset ==
  ASSUME NEW i \in Nat, NEW j \in Bits
  PROVE  /\ i * W + j \in Nat
         /\ (i * W + j) \div W = i /\ (i * W + j) % W = j
  BY WAssumption DEF Bits

\* Offsets of lower words are lower.
LEMMA WordsInOrder ==
  ASSUME NEW h \in Nat, NEW i \in Nat, NEW j \in Bits, NEW k \in Bits, h < i
  PROVE  h * W + j < i * W + k
  <1>1. h * W + W <= i * W
    BY WAssumption
  <1> QED
    BY <1>1, WAssumption DEF Bits

\* The words reach to the end of the subnet.
LEMMA WordOfOffset ==
  ASSUME NEW size \in Nat, NEW o \in 0 .. size - 1
  PROVE  o \div W \in Indices(size)
  <1>1. o + W <= size + W - 1
    BY WAssumption
  <1>2. (o \div W) + 1 = (o + W) \div W
    BY WAssumption
  <1>3. (o + W) \div W <= (size + W - 1) \div W
    BY <1>1, WAssumption
  <1>4. /\ (size + W - 1) \div W \in Int /\ o \div W \in Nat
    BY WAssumption
  <1> QED
    BY <1>2, <1>3, <1>4 DEF Indices

\* SetBit marks one offset, ClearBit frees one.
LEMMA MarkOne ==
  ASSUME NEW size \in Nat, NEW words \in Bitmaps(size),
         NEW o \in 0 .. size - 1, NEW p \in 0 .. size - 1
  PROVE  /\ SetBit(words, o) \in Bitmaps(size)
         /\ ClearBit(words, o) \in Bitmaps(size)
         /\ Has(SetBit(words, o), p) <=> (p = o \/ Has(words, p))
         /\ Has(ClearBit(words, o), p) <=> (p # o /\ Has(words, p))
  <1>1. /\ o \div W \in Indices(size) /\ p \div W \in Indices(size)
        /\ o % W \in Bits /\ p % W \in Bits
    BY WordOfOffset, OffsetParts
  <1>2. p = o <=> p \div W = o \div W /\ p % W = o % W
    BY OffsetParts
  <1> DEFINE oi == o \div W
             oj == o % W
             pi == p \div W
             pj == p % W
  <1>3. p = o <=> pi = oi /\ pj = oj
    BY <1>2
  <1>4. /\ oi \in Indices(size) /\ pi \in Indices(size) /\ oj \in Bits /\ pj \in Bits
    BY <1>1
  <1>5. /\ SetBit(words, o) = [words EXCEPT ![oi] = words[oi] \cup {oj}]
        /\ ClearBit(words, o) = [words EXCEPT ![oi] = words[oi] \ {oj}]
        /\ Has(SetBit(words, o), p) <=> pj \in SetBit(words, o)[pi]
        /\ Has(ClearBit(words, o), p) <=> pj \in ClearBit(words, o)[pi]
        /\ Has(words, p) <=> pj \in words[pi]
    BY DEF SetBit, ClearBit, Has
  <1> HIDE DEF oi, oj, pi, pj
  <1> QED
    BY <1>3, <1>4, <1>5 DEF Bitmaps

\* A new bitmap.
LEMMA NewIsBitmap ==
  ASSUME NEW size \in Nat \ {0}
  PROVE  NewBitmap(size) \in Bitmaps(size)
  <1> DEFINE empty == [i \in Indices(size) |-> {}]
  <1>1. empty \in Bitmaps(size)
    BY DEF Bitmaps
  <1>2. 0 \in 0 .. size - 1 /\ size - 1 \in 0 .. size - 1
    OBVIOUS
  <1> HIDE DEF empty
  <1>3. SetBit(empty, 0) \in Bitmaps(size)
    BY <1>1, <1>2, MarkOne
  <1>4. SetBit(SetBit(empty, 0), size - 1) \in Bitmaps(size)
    BY <1>2, <1>3, MarkOne
  <1> QED
    BY <1>4 DEF NewBitmap, empty

\* AllocateNext: 0, or the least offset that is not marked.
LEMMA AllocateNextIsLeast ==
  ASSUME NEW size \in Nat \ {0}, NEW words \in Bitmaps(size),
         AllocateNext(words, size) # 0
  PROVE  LET o == AllocateNext(words, size)
         IN  /\ o \in 0 .. size - 1 /\ ~Has(words, o)
             /\ \A p \in 0 .. size - 1 : ~Has(words, p) => o <= p
  <1> DEFINE open == {i \in DOMAIN words : FreeBits(words, size, i) # {}}
             i == Min(open)
             free == FreeBits(words, size, i)
             j == Min(free)
  <1>1. open \in SUBSET Nat /\ open \subseteq Indices(size)
    BY DEF Bitmaps, Indices
  <1>2. open # {} /\ AllocateNext(words, size) = i * W + j
    BY DEF AllocateNext
  <1>3. i \in open /\ \A k \in open : i <= k
    BY <1>1, <1>2, MinIsLeast, Zenon
  <1>4. free # {} /\ i \in Nat /\ i \in Indices(size)
    BY <1>1, <1>3
  <1>5. free \in SUBSET Nat /\ free \subseteq Bits
    BY DEF FreeBits, FullWord, Bits
  <1>6. j \in free /\ \A k \in free : j <= k
    BY <1>4, <1>5, MinIsLeast, Zenon
  <1>7. j \in Bits /\ j \notin words[i] /\ i * W + j < size
    BY <1>6 DEF FreeBits, FullWord
  <1>a. \A k \in Indices(size) : k \in open <=> FreeBits(words, size, k) # {}
    BY DEF Bitmaps
  <1>b. i \in Nat
    BY <1>4
  <1> HIDE DEF i, j, open, free
  <1>8. /\ i * W + j \in Nat /\ (i * W + j) \div W = i /\ (i * W + j) % W = j
    BY <1>4, <1>7, PartsOffset
  <1>9. i * W + j \in 0 .. size - 1 /\ ~Has(words, i * W + j)
    BY <1>7, <1>8 DEF Has
  <1>10. ASSUME NEW p \in 0 .. size - 1, ~Has(words, p) PROVE i * W + j <= p
    <2> DEFINE q == p \div W
               r == p % W
    <2>1. q \in Nat /\ r \in Bits /\ q * W + r = p /\ q \in Indices(size)
      BY OffsetParts, WordOfOffset
    <2>2. r \notin words[q]
      BY <1>10 DEF Has
    <2> HIDE DEF q, r
    <2>3. r \in FreeBits(words, size, q)
      BY <2>1, <2>2 DEF FreeBits, FullWord
    <2>4. i <= q
      BY <1>3, <1>a, <2>1, <2>3
    <2>5. CASE i < q
      BY <1>b, <1>7, <1>8, <2>1, <2>5, WordsInOrder
    <2>6. CASE i = q
      <3>1. j <= r
        BY <1>6, <2>3, <2>6 DEF free
      <3>2. i * W + r = p
        BY <2>1, <2>6
      <3>3. i * W \in Nat
        BY <1>b, WAssumption
      <3> QED
        BY <2>1, <3>1, <3>2, <3>3, <1>7 DEF Bits
    <2> QED
      BY <1>b, <2>1, <2>4, <2>5, <2>6
  <1> QED
    BY <1>2, <1>9, <1>10

\* The error of an exhausted subnet: nothing is free.
LEMMA ExhaustedMeansFull ==
  ASSUME NEW size \in Nat \ {0}, NEW words \in Bitmaps(size),
         Has(words, 0), AllocateNext(words, size) = 0
  PROVE  \A p \in 0 .. size - 1 : Has(words, p)
  <1> DEFINE open == {i \in DOMAIN words : FreeBits(words, size, i) # {}}
  <1>1. open \in SUBSET Nat
    BY DEF Bitmaps, Indices
  <1>2. ASSUME open # {} PROVE FALSE
    <2> DEFINE i == Min(open)
               free == FreeBits(words, size, i)
               j == Min(free)
    <2>1. AllocateNext(words, size) = i * W + j
      BY <1>2 DEF AllocateNext
    <2>2. i \in open
      BY <1>1, <1>2, MinIsLeast, Zenon
    <2>3. i \in Nat /\ free # {}
      BY <1>1, <2>2
    <2>4. free \in SUBSET Nat
      BY DEF FreeBits, FullWord, Bits
    <2>5. j \in free
      BY <2>3, <2>4, MinIsLeast, Zenon
    <2>6. j \in Bits /\ j \notin words[i]
      BY <2>5 DEF FreeBits, FullWord
    <2> HIDE DEF i, j
    <2>7. (i * W + j) \div W = i /\ (i * W + j) % W = j
      BY <2>3, <2>6, PartsOffset
    <2> QED
      BY <2>1, <2>6, <2>7 DEF Has
  <1>3. ASSUME NEW p \in 0 .. size - 1 PROVE Has(words, p)
    <2>1. p \div W \in Indices(size) /\ p % W \in Bits /\ p = (p \div W) * W + (p % W)
      BY WordOfOffset, OffsetParts
    <2>2. FreeBits(words, size, p \div W) = {}
      BY <1>2, <2>1 DEF Bitmaps
    <2> QED
      BY <2>1, <2>2 DEF FreeBits, FullWord, Has
  <1> QED
    BY <1>3

-----------------------------------------------------------------------------
(* The invariant.                                                          *)

Making == {"bridge", "addr", "up", "snat", "put"}
Attaching == {"veth", "config", "attached"}

\* The offsets that are marked in the bitmap that loadBitmap finds.
Taken == Marked(Loaded, Size)

Kinds ==
    /\ \A a \in Admins : pc[a] \in {"idle", "allocate"} \cup Making \cup Deleting
    /\ \A c \in Containers :
        pc[c] \in {"idle", "allocate", "running", "detach", "release", "leave", "settle"}
                    \cup Attaching

(* A Create that may still write a rule is one that has begun.             *)

Unruled == {a \in Admins : pc[a] \in {"allocate", "bridge", "addr", "up", "snat"}}
RulesBounded == snat + Cardinality(Unruled) <= ops

(* What an operation holds of an address, and who else does: the bridge    *)
(* and other Creates may, no other operation.                              *)

Holds ==
    \A a \in Actors :
        /\ pc[a] \in Making \cup Attaching => ip[a] # None
        /\ ip[a] # None => pc[a] \in Making \cup Attaching \cup {"running", "release", "leave"}

Reserved ==
    /\ \A a \in Actors : ip[a] # None => ip[a] \in Taken
    /\ addrs \subseteq Taken
    /\ \A a, b \in Actors : a # b /\ ip[a] = ip[b] => ip[a] = None
    /\ \A c \in Containers : ip[c] # None => ip[c] \notin addrs

(* The bridge at each step of a Create and of a Delete.                    *)

Alone == \A a, b \in Actors : pc[a] \in Deleting /\ a # b => pc[b] = "idle"

Built ==
    /\ link = "none" => addrs = {}
    /\ \A a \in Actors :
        /\ pc[a] \in {"addr", "up", "snat", "put"} => link # "none"
        /\ pc[a] \in {"up", "snat", "put"} => ip[a] \in addrs
        /\ pc[a] \in {"snat", "put"} => link = "up"
        /\ pc[a] = "put" => snat > 0
        /\ pc[a] \in {"unrecord", "unkey"} => link = "none"
        /\ pc[a] \in Deleting => doomed

(* A Delete that stopped half-way leaves a record without a bridge, and    *)
(* nothing makes one while there is a record.                              *)

Demolished ==
    /\ link = "none" /\ record # None
    /\ \A a \in Admins : pc[a] \notin {"allocate"} \cup Making

Routed ==
    /\ record # None => record \in addrs \/ Demolished
    /\ \A c \in Containers :
        /\ pc[c] \in {"allocate", "veth"} => nw[c] \in addrs \/ Demolished
        /\ pc[c] \in {"config", "attached", "running", "release", "leave"} /\ ip[c] # None =>
              nw[c] \in addrs

Quiet == Holds /\ (~stray => Reserved) /\ Alone /\ Built /\ RecordedMeansBuilt /\ Routed

IInv == /\ TypeOK
        /\ Kinds
        /\ RulesBounded
        /\ ~overlap => Quiet

-----------------------------------------------------------------------------
(* The bitmap in the database.                                             *)

\* A bitmap is not mistaken for none.
LEMMA BitmapIsKey ==
  ASSUME NEW words \in Bitmaps(Size) PROVE words # NoKey
  <1>1. 0 \in 0 .. Size - 1
    BY NetworkAssumption
  <1>2. 0 \div W \in Indices(Size)
    BY <1>1, NetworkAssumption, WordOfOffset
  <1>3. DOMAIN words # {}
    BY <1>2 DEF Bitmaps
  <1> QED
    BY <1>3 DEF NoKey

\* What loadBitmap returns.
LEMMA LoadedIsBitmap ==
  ASSUME TypeOK PROVE Loaded \in Bitmaps(Size) /\ Taken \subseteq Address
  BY NetworkAssumption, NewIsBitmap DEF TypeOK, Loaded, Taken, Marked, Address

\* allocateIP marks the least offset that is not, or finds none.
LEMMA Allocates ==
  ASSUME TypeOK, NEW a \in Actors, NEW to, NEW exhausted, Allocated(a, to, exhausted)
  PROVE  /\ pc[a] = "allocate"
         /\ \/ pc' = [pc EXCEPT ![a] = exhausted] /\ UNCHANGED <<key, ip, Taken>>
            \/ \E o \in Address \ {None} :
                 /\ o \notin Taken /\ \A p \in Address \ Taken : o <= p
                 /\ pc' = [pc EXCEPT ![a] = to]
                 /\ ip' = [ip EXCEPT ![a] = o]
                 /\ key' \in Bitmaps(Size) /\ Taken' = Taken \cup {o}
  <1> DEFINE o == AllocateNext(Loaded, Size)
  <1>0. Loaded \in Bitmaps(Size) /\ Size \in Nat \ {0}
    BY LoadedIsBitmap, NetworkAssumption
  <1>1. CASE o = None
    BY <1>1 DEF Allocated, Step, Taken, Loaded
  <1>2. CASE o # None
    <2>1. /\ pc[a] = "allocate" /\ pc' = [pc EXCEPT ![a] = to]
          /\ ip' = [ip EXCEPT ![a] = o] /\ key' = SetBit(Loaded, o)
      BY <1>2 DEF Allocated, Step
    <2>2. /\ o \in Address /\ ~Has(Loaded, o)
          /\ \A p \in Address : ~Has(Loaded, p) => o <= p
      BY <1>0, <1>2, AllocateNextIsLeast DEF None, Address
    <2> HIDE DEF o
    <2>3. /\ key' \in Bitmaps(Size)
          /\ \A p \in Address : Has(key', p) <=> (p = o \/ Has(Loaded, p))
      BY <1>0, <2>1, <2>2, MarkOne DEF Address
    <2>4. Loaded' = key'
      BY <2>3, BitmapIsKey DEF Loaded
    <2>5. Taken' = Taken \cup {o} /\ o \notin Taken /\ \A p \in Address \ Taken : o <= p
      <3>1. Taken = {p \in Address : Has(Loaded, p)} /\ Taken' = {p \in Address : Has(key', p)}
        BY <2>4 DEF Taken, Marked, Address
      <3> QED
        BY <2>2, <2>3, <3>1
    <2> QED
      BY <1>2, <2>1, <2>2, <2>3, <2>5
  <1> QED
    BY <1>1, <1>2

\* releaseIP frees the address it is given, or does nothing.
LEMMA Releases ==
  ASSUME TypeOK, NEW c \in Containers, DisconnectRelease(c)
  PROVE  /\ key' \in Bitmaps(Size) \cup {NoKey}
         /\ Taken' = IF cfg[c] = None THEN Taken ELSE Taken \ {cfg[c]}
  <1>1. CASE cfg[c] = None
    BY <1>1 DEF DisconnectRelease, Taken, Loaded, TypeOK
  <1>2. CASE cfg[c] # None
    <2> DEFINE o == cfg[c]
    <2>1. key' = ClearBit(Loaded, o)
      BY <1>2 DEF DisconnectRelease
    <2>2. o \in Address /\ Loaded \in Bitmaps(Size) /\ Size \in Nat
      BY LoadedIsBitmap, NetworkAssumption DEF TypeOK, Actors
    <2> HIDE DEF o
    <2>3. /\ key' \in Bitmaps(Size)
          /\ \A p \in Address : Has(key', p) <=> (p # o /\ Has(Loaded, p))
      BY <2>1, <2>2, MarkOne DEF Address
    <2>4. Loaded' = key'
      BY <2>3, BitmapIsKey DEF Loaded
    <2>5. Taken = {p \in Address : Has(Loaded, p)} /\ Taken' = {p \in Address : Has(key', p)}
      BY <2>4 DEF Taken, Marked, Address
    <2>6. Taken' = Taken \ {o}
      BY <2>3, <2>5
    <2> QED
      BY <1>2, <2>3, <2>6 DEF o
  <1> QED
    BY <1>1, <1>2

-----------------------------------------------------------------------------
\* At first there is no network; a bitmap may be left of an earlier one.
LEMMA InitIInv == Init => IInv
  <1> SUFFICES ASSUME Init PROVE IInv
    OBVIOUS
  <1>1. key \in Bitmaps(Size) \cup {NoKey}
    <2>1. NewBitmap(Size) \in Bitmaps(Size)
      BY NetworkAssumption, NewIsBitmap
    <2>2. \A i \in Indices(Size) : {o % W : o \in {l \in Leaked : l \div W = i}} \subseteq Bits
      BY NetworkAssumption, OffsetParts
    <2> QED
      BY <2>1, <2>2 DEF Init, Bitmaps
  <1> USE DEF Init
  <1>2. TypeOK
    <2>1. record \in Address /\ addrs \subseteq Address /\ snat \in 0 .. MaxOps
      BY NetworkAssumption DEF Address, None
    <2>2. nw \in [Actors -> Address] /\ ip \in [Actors -> Address]
      BY NetworkAssumption DEF Address, None
    <2>3. ops \in 0 .. MaxOps /\ crashes \in 0 .. MaxCrashes
      BY NetworkAssumption
    <2>4. /\ link \in {"none", "down", "up"} /\ {doomed, overlap} \subseteq BOOLEAN
          /\ \A a \in Actors : pc[a] = "idle"
      OBVIOUS
    <2>5. pc \in [Actors -> {"idle"}]
      OBVIOUS
    <2>6. /\ cfg \in [Containers -> Address] /\ disk \in [Containers -> Saved]
          /\ stray \in BOOLEAN
      <3>1. None \in Address
        BY NetworkAssumption DEF Address, None
      <3>2. [running |-> FALSE, ip |-> None] \in Saved
        BY <3>1 DEF Saved
      <3> QED
        BY <3>1, <3>2
    <2> QED
      BY <1>1, <2>1, <2>2, <2>3, <2>4, <2>5, <2>6 DEF TypeOK
  <1>3. Kinds
    BY DEF Kinds, Actors
  <1>4. RulesBounded
    <2>1. Unruled = {}
      BY DEF Unruled, Actors
    <2>2. Cardinality(Unruled) = 0
      BY <2>1, FS_EmptySet
    <2> QED
      BY <2>2 DEF RulesBounded
  <1>5. Quiet
    BY DEF Quiet, Holds, Reserved, Alone, Built, RecordedMeansBuilt, Routed, Actors,
       Making, Attaching, Deleting, None
  <1> QED
    BY <1>2, <1>3, <1>4, <1>5 DEF IInv

\* Administrators create and delete, containers connect and disconnect.
LEMMA NextKinds == ASSUME TypeOK, Kinds, Next PROVE Kinds'
  <1> USE NetworkAssumption DEF TypeOK, Kinds, Actors, Making, Attaching, Deleting, Step
  <1>1. ASSUME NEW a \in Admins, CreateBegin(a) PROVE Kinds'
    BY <1>1 DEF CreateBegin, Begin
  <1>2. ASSUME NEW a \in Admins, CreateAllocate(a) PROVE Kinds'
    BY <1>2 DEF CreateAllocate, Allocated
  <1>3. ASSUME NEW a \in Admins, CreateBridge(a) PROVE Kinds'
    BY <1>3 DEF CreateBridge
  <1>4. ASSUME NEW a \in Admins, CreateAddr(a) PROVE Kinds'
    BY <1>4 DEF CreateAddr
  <1>5. ASSUME NEW a \in Admins, CreateUp(a) PROVE Kinds'
    BY <1>5 DEF CreateUp
  <1>6. ASSUME NEW a \in Admins, CreateSnat(a) PROVE Kinds'
    BY <1>6 DEF CreateSnat
  <1>7. ASSUME NEW a \in Admins, CreatePut(a) PROVE Kinds'
    BY <1>7 DEF CreatePut
  <1>8. ASSUME NEW a \in Admins, CreateFails(a) PROVE Kinds'
    BY <1>8 DEF CreateFails
  <1>9. ASSUME NEW a \in Admins, DeleteBegin(a) PROVE Kinds'
    BY <1>9 DEF DeleteBegin, Begin
  <1>10. ASSUME NEW a \in Admins, DeleteSnat(a) PROVE Kinds'
    BY <1>10 DEF DeleteSnat
  <1>11. ASSUME NEW a \in Admins, DeleteLink(a) PROVE Kinds'
    BY <1>11 DEF DeleteLink
  <1>12. ASSUME NEW a \in Admins, DeleteRecord(a) PROVE Kinds'
    BY <1>12 DEF DeleteRecord
  <1>13. ASSUME NEW a \in Admins, DeleteKey(a) PROVE Kinds'
    BY <1>13 DEF DeleteKey
  <1>14. ASSUME NEW c \in Containers, ConnectBegin(c) PROVE Kinds'
    BY <1>14 DEF ConnectBegin, Begin
  <1>15. ASSUME NEW c \in Containers, PrepareFails(c) PROVE Kinds'
    BY <1>15 DEF PrepareFails, Begin
  <1>16. ASSUME NEW c \in Containers, ConnectAllocate(c) PROVE Kinds'
    BY <1>16 DEF ConnectAllocate, Allocated
  <1>17. ASSUME NEW c \in Containers, ConnectVeth(c) PROVE Kinds'
    BY <1>17 DEF ConnectVeth
  <1>18. ASSUME NEW c \in Containers, ConnectConfig(c) PROVE Kinds'
    BY <1>18 DEF ConnectConfig
  <1>19. ASSUME NEW c \in Containers, Persist(c) PROVE Kinds'
    BY <1>19 DEF Persist
  <1>20. ASSUME NEW c \in Containers, DisconnectBegin(c) PROVE Kinds'
    BY <1>20 DEF DisconnectBegin
  <1>21. ASSUME NEW c \in Containers, DisconnectRelease(c) PROVE Kinds'
    BY <1>21 DEF DisconnectRelease
  <1>22. ASSUME NEW c \in Containers, Settle(c) PROVE Kinds'
    BY <1>22 DEF Settle
  <1>23. CASE Crash
    BY <1>23 DEF Crash
  <1> QED
    BY <1>1, <1>2, <1>3, <1>4, <1>5, <1>6, <1>7, <1>8, <1>9, <1>10,
       <1>11, <1>12, <1>13, <1>14, <1>15, <1>16, <1>17, <1>18, <1>19, <1>20,
       <1>21, <1>22, <1>23
       DEF Next, Create, Delete, Endpoint

\* The number of Creates that may still write a rule, when one begins and when
\* one goes on.
LEMMA UnruledMoves ==
  /\ IsFiniteSet(Unruled)
  /\ Cardinality(Unruled) \in Nat /\ Cardinality(Unruled') \in Nat
  /\ Unruled' \subseteq Unruled => Cardinality(Unruled') <= Cardinality(Unruled)
  /\ \A a \in Admins :
       /\ Unruled' \subseteq Unruled \cup {a} => Cardinality(Unruled') <= Cardinality(Unruled) + 1
       /\ a \in Unruled /\ Unruled' \subseteq Unruled \ {a} =>
            Cardinality(Unruled') <= Cardinality(Unruled) - 1
  <1>1. IsFiniteSet(Unruled)
    BY NetworkAssumption, FS_Subset DEF Unruled
  <1>a. IsFiniteSet(Unruled')
    BY NetworkAssumption, FS_Subset DEF Unruled
  <1>2. Cardinality(Unruled) \in Nat /\ Cardinality(Unruled') \in Nat
    BY <1>1, <1>a, FS_CardinalityType
  <1>3. Unruled' \subseteq Unruled => Cardinality(Unruled') <= Cardinality(Unruled)
    BY <1>1, FS_Subset
  <1>4. ASSUME NEW a \in Admins
        PROVE  /\ Unruled' \subseteq Unruled \cup {a} => Cardinality(Unruled') <= Cardinality(Unruled) + 1
               /\ a \in Unruled /\ Unruled' \subseteq Unruled \ {a} =>
                    Cardinality(Unruled') <= Cardinality(Unruled) - 1
    <2>1. /\ IsFiniteSet(Unruled \cup {a})
          /\ Cardinality(Unruled \cup {a}) =
               IF a \in Unruled THEN Cardinality(Unruled) ELSE Cardinality(Unruled) + 1
      BY <1>1, FS_AddElement
    <2>2. /\ IsFiniteSet(Unruled \ {a})
          /\ a \in Unruled => Cardinality(Unruled \ {a}) = Cardinality(Unruled) - 1
      BY <1>1, FS_RemoveElement
    <2>3. Unruled' \subseteq Unruled \cup {a} =>
              Cardinality(Unruled') <= Cardinality(Unruled \cup {a}) /\ IsFiniteSet(Unruled')
      BY <2>1, FS_Subset
    <2>4. Unruled' \subseteq Unruled \ {a} =>
              Cardinality(Unruled') <= Cardinality(Unruled \ {a}) /\ IsFiniteSet(Unruled')
      BY <2>2, FS_Subset
    <2>5. /\ IsFiniteSet(Unruled') => Cardinality(Unruled') \in Nat
          /\ Cardinality(Unruled \cup {a}) \in Nat /\ Cardinality(Unruled \ {a}) \in Nat
      BY <2>1, <2>2, FS_CardinalityType
    <2> QED
      BY <1>2, <2>1, <2>2, <2>3, <2>4, <2>5
  <1> QED
    BY <1>1, <1>2, <1>3, <1>4

\* What WriteContainerConfig leaves is a record.
LEMMA Writes ==
  ASSUME TypeOK, NEW c \in Containers, NEW running \in BOOLEAN, Write(c, running)
  PROVE  disk' \in [Containers -> Saved]
  <1>1. cfg[c] \in Address /\ disk \in [Containers -> Saved]
    BY DEF TypeOK
  <1>2. [running |-> running, ip |-> cfg[c]] \in Saved
    BY <1>1 DEF Saved
  <1> QED
    BY <1>1, <1>2 DEF Write

\* Every action keeps the types; a Create has one rule to write.
LEMMA NextTypeOK == ASSUME TypeOK, RulesBounded', Next PROVE TypeOK'
  <1> USE NetworkAssumption DEF TypeOK, Actors, Deleting, Address, None, Step, db, host, config, history, Forget
  <1>1. ASSUME NEW a \in Admins, CreateBegin(a) PROVE TypeOK'
    BY <1>1 DEF CreateBegin, Begin
  <1>2. ASSUME NEW a \in Admins, CreateAllocate(a) PROVE TypeOK'
    BY <1>2, Allocates DEF CreateAllocate
  <1>3. ASSUME NEW a \in Admins, CreateBridge(a) PROVE TypeOK'
    BY <1>3 DEF CreateBridge
  <1>4. ASSUME NEW a \in Admins, CreateAddr(a) PROVE TypeOK'
    BY <1>4 DEF CreateAddr
  <1>5. ASSUME NEW a \in Admins, CreateUp(a) PROVE TypeOK'
    BY <1>5 DEF CreateUp
  <1>6. ASSUME NEW a \in Admins, CreateSnat(a) PROVE TypeOK'
    <2>1. snat' = snat + 1 /\ ops' \in 0 .. MaxOps
      BY <1>6 DEF CreateSnat
    <2>2. snat' \in 0 .. MaxOps
      BY <2>1, UnruledMoves DEF RulesBounded
    <2>3. /\ pc' = [pc EXCEPT ![a] = "put"]
          /\ UNCHANGED <<record, key, addrs, link, nw, ip, cfg, disk, doomed,
                         overlap, stray, ops, crashes>>
      BY <1>6 DEF CreateSnat
    <2> QED
      BY <2>2, <2>3
  <1>7. ASSUME NEW a \in Admins, CreatePut(a) PROVE TypeOK'
    <2>1. ip \in [Actors -> Address]
      OBVIOUS
    <2>2. record' = ip[a] /\ ip' = [ip EXCEPT ![a] = None] /\ doomed' = FALSE
      BY <1>7 DEF CreatePut
    <2>3. record' \in Address /\ ip' \in [Actors -> Address]
      BY <2>1, <2>2
    <2>4. /\ pc' = [pc EXCEPT ![a] = "idle"]
          /\ UNCHANGED <<key, addrs, link, snat, nw, cfg, disk, overlap, stray,
                         ops, crashes>>
      BY <1>7 DEF CreatePut
    <2> QED
      BY <2>2, <2>3, <2>4
  <1>8. ASSUME NEW a \in Admins, CreateFails(a) PROVE TypeOK'
    BY <1>8 DEF CreateFails
  <1>9. ASSUME NEW a \in Admins, DeleteBegin(a) PROVE TypeOK'
    BY <1>9 DEF DeleteBegin, Begin
  <1>10. ASSUME NEW a \in Admins, DeleteSnat(a) PROVE TypeOK'
    BY <1>10 DEF DeleteSnat
  <1>11. ASSUME NEW a \in Admins, DeleteLink(a) PROVE TypeOK'
    BY <1>11 DEF DeleteLink
  <1>12. ASSUME NEW a \in Admins, DeleteRecord(a) PROVE TypeOK'
    BY <1>12 DEF DeleteRecord
  <1>13. ASSUME NEW a \in Admins, DeleteKey(a) PROVE TypeOK'
    BY <1>13 DEF DeleteKey
  <1>14. ASSUME NEW c \in Containers, ConnectBegin(c) PROVE TypeOK'
    BY <1>14 DEF ConnectBegin, Begin
  <1>15. ASSUME NEW c \in Containers, PrepareFails(c) PROVE TypeOK'
    BY <1>15 DEF PrepareFails, Begin
  <1>16. ASSUME NEW c \in Containers, ConnectAllocate(c) PROVE TypeOK'
    BY <1>16, Allocates DEF ConnectAllocate
  <1>17. ASSUME NEW c \in Containers, ConnectVeth(c) PROVE TypeOK'
    BY <1>17 DEF ConnectVeth
  <1>18. ASSUME NEW c \in Containers, ConnectConfig(c) PROVE TypeOK'
    BY <1>18 DEF ConnectConfig
  <1>19. ASSUME NEW c \in Containers, Persist(c) PROVE TypeOK'
    <2>1. disk' \in [Containers -> Saved]
      BY <1>19, Writes DEF Persist
    <2>2. /\ pc' = [pc EXCEPT ![c] = "running"]
          /\ UNCHANGED <<record, key, addrs, link, snat, nw, ip, cfg, doomed, overlap,
                         stray, ops, crashes>>
      BY <1>19 DEF Persist
    <2> QED
      BY <2>1, <2>2
  <1>20. ASSUME NEW c \in Containers, DisconnectBegin(c) PROVE TypeOK'
    BY <1>20 DEF DisconnectBegin
  <1>21. ASSUME NEW c \in Containers, DisconnectRelease(c) PROVE TypeOK'
    <2>1. key' \in Bitmaps(Size) \cup {NoKey}
      BY <1>21, Releases
    <2>2. /\ pc' = [pc EXCEPT ![c] = "idle"] \/ pc' = [pc EXCEPT ![c] = "settle"]
          /\ ip' = [ip EXCEPT ![c] = None]
          /\ stray' \in BOOLEAN
          /\ UNCHANGED <<record, addrs, link, snat, nw, cfg, disk, doomed, overlap, ops,
                         crashes>>
      BY <1>21 DEF DisconnectRelease
    <2> QED
      BY <2>1, <2>2
  <1>22. ASSUME NEW c \in Containers, Settle(c) PROVE TypeOK'
    <2>1. disk' \in [Containers -> Saved]
      BY <1>22, Writes DEF Settle
    <2>2. /\ pc' = [pc EXCEPT ![c] = "idle"]
          /\ UNCHANGED <<record, key, addrs, link, snat, nw, ip, cfg, doomed, overlap,
                         stray, ops, crashes>>
      BY <1>22 DEF Settle
    <2> QED
      BY <2>1, <2>2
  <1>23. CASE Crash
    <2>1. cfg' = [c \in Containers |-> disk[c].ip] /\ \A c \in Containers : disk[c].ip \in Address
      BY <1>23 DEF Crash, Saved
    <2>2. cfg' \in [Containers -> Address]
      BY <2>1
    <2>3. /\ nw' \in [Actors -> Address] /\ ip' \in [Actors -> Address]
          /\ pc' \in [Actors -> {"running", "idle"}]
          /\ crashes' \in 0 .. MaxCrashes
          /\ UNCHANGED <<record, key, addrs, link, snat, disk, doomed, overlap, stray, ops>>
      BY <1>23 DEF Crash
    <2> QED
      BY <2>2, <2>3
  <1> QED
    BY <1>1, <1>2, <1>3, <1>4, <1>5, <1>6, <1>7, <1>8, <1>9, <1>10,
       <1>11, <1>12, <1>13, <1>14, <1>15, <1>16, <1>17, <1>18, <1>19, <1>20,
       <1>21, <1>22, <1>23
       DEF Next, Create, Delete, Endpoint

\* A rule is written by a Create that began.
LEMMA NextRulesBounded == ASSUME TypeOK, RulesBounded, Next PROVE RulesBounded'
  <1> USE DEF TypeOK, RulesBounded, Actors, Step
  <1>1. ASSUME NEW a \in Admins, CreateBegin(a) PROVE RulesBounded'
    <2>1. Unruled' \subseteq Unruled \cup {a}
      BY <1>1 DEF CreateBegin, Begin, Unruled
    <2> QED
      BY <1>1, <2>1, UnruledMoves DEF CreateBegin, Begin, host
  <1>2. ASSUME NEW a \in Admins, CreateAllocate(a) PROVE RulesBounded'
    <2>1. Unruled' \subseteq Unruled
      BY <1>2 DEF CreateAllocate, Unruled, Allocated
    <2> QED
      BY <1>2, <2>1, UnruledMoves DEF CreateAllocate, host, history, Allocated
  <1>3. ASSUME NEW a \in Admins, CreateBridge(a) PROVE RulesBounded'
    <2>1. Unruled' \subseteq Unruled
      BY <1>3 DEF CreateBridge, Unruled
    <2> QED
      BY <1>3, <2>1, UnruledMoves DEF CreateBridge, host, history
  <1>4. ASSUME NEW a \in Admins, CreateAddr(a) PROVE RulesBounded'
    <2>1. Unruled' \subseteq Unruled
      BY <1>4 DEF CreateAddr, Unruled
    <2> QED
      BY <1>4, <2>1, UnruledMoves DEF CreateAddr, host, history
  <1>5. ASSUME NEW a \in Admins, CreateUp(a) PROVE RulesBounded'
    <2>1. Unruled' \subseteq Unruled
      BY <1>5 DEF CreateUp, Unruled
    <2> QED
      BY <1>5, <2>1, UnruledMoves DEF CreateUp, host, history
  <1>6. ASSUME NEW a \in Admins, CreateSnat(a) PROVE RulesBounded'
    <2>1. a \in Unruled /\ Unruled' \subseteq Unruled \ {a}
      BY <1>6 DEF CreateSnat, Unruled
    <2> QED
      BY <1>6, <2>1, UnruledMoves DEF CreateSnat, history
  <1>7. ASSUME NEW a \in Admins, CreatePut(a) PROVE RulesBounded'
    <2>1. Unruled' \subseteq Unruled
      BY <1>7 DEF CreatePut, Unruled
    <2> QED
      BY <1>7, <2>1, UnruledMoves DEF CreatePut, host, history
  <1>8. ASSUME NEW a \in Admins, CreateFails(a) PROVE RulesBounded'
    <2>1. Unruled' \subseteq Unruled
      BY <1>8 DEF CreateFails, Unruled
    <2> QED
      BY <1>8, <2>1, UnruledMoves DEF CreateFails, host, history
  <1>9. ASSUME NEW a \in Admins, DeleteBegin(a) PROVE RulesBounded'
    <2>1. Unruled' \subseteq Unruled \cup {a}
      BY <1>9 DEF DeleteBegin, Begin, Unruled
    <2> QED
      BY <1>9, <2>1, UnruledMoves DEF DeleteBegin, Begin, host
  <1>10. ASSUME NEW a \in Admins, DeleteSnat(a) PROVE RulesBounded'
    <2>1. Unruled' \subseteq Unruled
      BY <1>10 DEF DeleteSnat, Unruled
    <2> QED
      BY <1>10, <2>1, UnruledMoves DEF DeleteSnat, host, history
  <1>11. ASSUME NEW a \in Admins, DeleteLink(a) PROVE RulesBounded'
    <2>1. Unruled' \subseteq Unruled
      BY <1>11 DEF DeleteLink, Unruled
    <2> QED
      BY <1>11, <2>1, UnruledMoves DEF DeleteLink, host, history
  <1>12. ASSUME NEW a \in Admins, DeleteRecord(a) PROVE RulesBounded'
    <2>1. Unruled' \subseteq Unruled
      BY <1>12 DEF DeleteRecord, Unruled
    <2> QED
      BY <1>12, <2>1, UnruledMoves DEF DeleteRecord, host, history
  <1>13. ASSUME NEW a \in Admins, DeleteKey(a) PROVE RulesBounded'
    <2>1. Unruled' \subseteq Unruled
      BY <1>13 DEF DeleteKey, Unruled
    <2> QED
      BY <1>13, <2>1, UnruledMoves DEF DeleteKey, host, history
  <1>14. ASSUME NEW c \in Containers, ConnectBegin(c) PROVE RulesBounded'
    <2>1. Unruled' = Unruled
      BY <1>14, NetworkAssumption DEF ConnectBegin, Begin, Unruled
    <2> QED
      BY <1>14, <2>1, UnruledMoves DEF ConnectBegin, Begin, host
  <1>15. ASSUME NEW c \in Containers, PrepareFails(c) PROVE RulesBounded'
    <2>1. Unruled' = Unruled
      BY <1>15, NetworkAssumption DEF PrepareFails, Begin, Unruled
    <2> QED
      BY <1>15, <2>1, UnruledMoves DEF PrepareFails, Begin, host
  <1>16. ASSUME NEW c \in Containers, ConnectAllocate(c) PROVE RulesBounded'
    <2>1. Unruled' \subseteq Unruled
      BY <1>16, NetworkAssumption DEF ConnectAllocate, Unruled, Allocated
    <2> QED
      BY <1>16, <2>1, UnruledMoves DEF ConnectAllocate, host, history, Allocated
  <1>17. ASSUME NEW c \in Containers, ConnectVeth(c) PROVE RulesBounded'
    <2>1. Unruled' \subseteq Unruled
      BY <1>17, NetworkAssumption DEF ConnectVeth, Unruled
    <2> QED
      BY <1>17, <2>1, UnruledMoves DEF ConnectVeth, host, history
  <1>18. ASSUME NEW c \in Containers, ConnectConfig(c) PROVE RulesBounded'
    <2>1. Unruled' \subseteq Unruled
      BY <1>18, NetworkAssumption DEF ConnectConfig, Unruled
    <2> QED
      BY <1>18, <2>1, UnruledMoves DEF ConnectConfig, host, history
  <1>19. ASSUME NEW c \in Containers, Persist(c) PROVE RulesBounded'
    <2>1. Unruled' \subseteq Unruled
      BY <1>19, NetworkAssumption DEF Persist, Unruled
    <2> QED
      BY <1>19, <2>1, UnruledMoves DEF Persist, host, history
  <1>20. ASSUME NEW c \in Containers, DisconnectBegin(c) PROVE RulesBounded'
    <2>1. Unruled' \subseteq Unruled
      BY <1>20, NetworkAssumption DEF DisconnectBegin, Unruled
    <2> QED
      BY <1>20, <2>1, UnruledMoves DEF DisconnectBegin, host, history
  <1>21. ASSUME NEW c \in Containers, DisconnectRelease(c) PROVE RulesBounded'
    <2>1. Unruled' \subseteq Unruled
      BY <1>21, NetworkAssumption DEF DisconnectRelease, Unruled
    <2> QED
      BY <1>21, <2>1, UnruledMoves DEF DisconnectRelease, host, history
  <1>22. ASSUME NEW c \in Containers, Settle(c) PROVE RulesBounded'
    <2>1. Unruled' \subseteq Unruled
      BY <1>22, NetworkAssumption DEF Settle, Unruled
    <2> QED
      BY <1>22, <2>1, UnruledMoves DEF Settle, host, history
  <1>23. CASE Crash
    <2>1. Unruled' \subseteq Unruled
      BY <1>23 DEF Crash, Unruled
    <2> QED
      BY <1>23, <2>1, UnruledMoves DEF Crash, host
  <1> QED
    BY <1>1, <1>2, <1>3, <1>4, <1>5, <1>6, <1>7, <1>8, <1>9, <1>10,
       <1>11, <1>12, <1>13, <1>14, <1>15, <1>16, <1>17, <1>18, <1>19, <1>20,
       <1>21, <1>22, <1>23
       DEF Next, Create, Delete, Endpoint

-----------------------------------------------------------------------------
(* What is kept as long as no Delete overlapped anything.                  *)

\* overlap is never reset.
LEMMA OverlapIsKept == ASSUME Next, ~overlap' PROVE ~overlap
  BY DEF Next, Create, Delete, Endpoint, CreateBegin, CreateAllocate, CreateBridge,
     CreateAddr, CreateUp, CreateSnat, CreatePut, CreateFails, DeleteBegin, DeleteSnat,
     DeleteLink, DeleteRecord, DeleteKey, ConnectBegin, ConnectAllocate, ConnectVeth,
     ConnectConfig, PrepareFails, Persist, DisconnectBegin, DisconnectRelease, Settle,
     Crash, Begin, history

\* Nor is stray.
LEMMA StrayIsKept == ASSUME Next, ~stray' PROVE ~stray
  BY DEF Next, Create, Delete, Endpoint, CreateBegin, CreateAllocate, CreateBridge,
     CreateAddr, CreateUp, CreateSnat, CreatePut, CreateFails, DeleteBegin, DeleteSnat,
     DeleteLink, DeleteRecord, DeleteKey, ConnectBegin, ConnectAllocate, ConnectVeth,
     ConnectConfig, PrepareFails, Persist, DisconnectBegin, DisconnectRelease, Settle,
     Crash, Begin, history

\* An operation that ends forgets its address.
LEMMA NextHolds ==
  ASSUME TypeOK, Kinds, Built, Holds, ~overlap', Next PROVE Holds'
  <1> USE NetworkAssumption DEF TypeOK, Kinds, Actors, Making, Attaching, Deleting, None, Step, db, host, config, history, Forget, Holds, Built
  <1>1. ASSUME NEW a \in Admins, CreateBegin(a) PROVE Holds'
    BY <1>1 DEF CreateBegin, Begin
  <1>2. ASSUME NEW a \in Admins, CreateAllocate(a) PROVE Holds'
    BY <1>2, Allocates DEF CreateAllocate
  <1>3. ASSUME NEW a \in Admins, CreateBridge(a) PROVE Holds'
    BY <1>3 DEF CreateBridge
  <1>4. ASSUME NEW a \in Admins, CreateAddr(a) PROVE Holds'
    BY <1>4 DEF CreateAddr
  <1>5. ASSUME NEW a \in Admins, CreateUp(a) PROVE Holds'
    BY <1>5 DEF CreateUp
  <1>6. ASSUME NEW a \in Admins, CreateSnat(a) PROVE Holds'
    BY <1>6 DEF CreateSnat
  <1>7. ASSUME NEW a \in Admins, CreatePut(a) PROVE Holds'
    BY <1>7 DEF CreatePut
  <1>8. ASSUME NEW a \in Admins, CreateFails(a) PROVE Holds'
    BY <1>8 DEF CreateFails
  <1>9. ASSUME NEW a \in Admins, DeleteBegin(a) PROVE Holds'
    BY <1>9 DEF DeleteBegin, Begin
  <1>10. ASSUME NEW a \in Admins, DeleteSnat(a) PROVE Holds'
    BY <1>10 DEF DeleteSnat
  <1>11. ASSUME NEW a \in Admins, DeleteLink(a) PROVE Holds'
    BY <1>11 DEF DeleteLink
  <1>12. ASSUME NEW a \in Admins, DeleteRecord(a) PROVE Holds'
    BY <1>12 DEF DeleteRecord
  <1>13. ASSUME NEW a \in Admins, DeleteKey(a) PROVE Holds'
    BY <1>13 DEF DeleteKey
  <1>14. ASSUME NEW c \in Containers, ConnectBegin(c) PROVE Holds'
    BY <1>14 DEF ConnectBegin, Begin
  <1>15. ASSUME NEW c \in Containers, PrepareFails(c) PROVE Holds'
    BY <1>15 DEF PrepareFails, Begin
  <1>16. ASSUME NEW c \in Containers, ConnectAllocate(c) PROVE Holds'
    BY <1>16, Allocates DEF ConnectAllocate
  <1>17. ASSUME NEW c \in Containers, ConnectVeth(c) PROVE Holds'
    BY <1>17 DEF ConnectVeth
  <1>18. ASSUME NEW c \in Containers, ConnectConfig(c) PROVE Holds'
    BY <1>18 DEF ConnectConfig
  <1>19. ASSUME NEW c \in Containers, Persist(c) PROVE Holds'
    BY <1>19 DEF Persist
  <1>20. ASSUME NEW c \in Containers, DisconnectBegin(c) PROVE Holds'
    BY <1>20 DEF DisconnectBegin
  <1>21. ASSUME NEW c \in Containers, DisconnectRelease(c) PROVE Holds'
    BY <1>21, Releases DEF DisconnectRelease
  <1>22. ASSUME NEW c \in Containers, Settle(c) PROVE Holds'
    BY <1>22 DEF Settle
  <1>23. CASE Crash
    BY <1>23 DEF Crash
  <1> QED
    BY <1>1, <1>2, <1>3, <1>4, <1>5, <1>6, <1>7, <1>8, <1>9, <1>10,
       <1>11, <1>12, <1>13, <1>14, <1>15, <1>16, <1>17, <1>18, <1>19, <1>20,
       <1>21, <1>22, <1>23
       DEF Next, Create, Delete, Endpoint

\* What begins finds no Delete, a Delete finds nothing else.
LEMMA NextAlone ==
  ASSUME TypeOK, Kinds, Alone, ~overlap', Next PROVE Alone'
  <1> USE NetworkAssumption DEF TypeOK, Kinds, Actors, Making, Attaching, Deleting, None, Step, db, host, config, history, Forget, Alone
  <1>1. ASSUME NEW a \in Admins, CreateBegin(a) PROVE Alone'
    BY <1>1 DEF CreateBegin, Begin
  <1>2. ASSUME NEW a \in Admins, CreateAllocate(a) PROVE Alone'
    BY <1>2, Allocates DEF CreateAllocate
  <1>3. ASSUME NEW a \in Admins, CreateBridge(a) PROVE Alone'
    BY <1>3 DEF CreateBridge
  <1>4. ASSUME NEW a \in Admins, CreateAddr(a) PROVE Alone'
    BY <1>4 DEF CreateAddr
  <1>5. ASSUME NEW a \in Admins, CreateUp(a) PROVE Alone'
    BY <1>5 DEF CreateUp
  <1>6. ASSUME NEW a \in Admins, CreateSnat(a) PROVE Alone'
    BY <1>6 DEF CreateSnat
  <1>7. ASSUME NEW a \in Admins, CreatePut(a) PROVE Alone'
    BY <1>7 DEF CreatePut
  <1>8. ASSUME NEW a \in Admins, CreateFails(a) PROVE Alone'
    BY <1>8 DEF CreateFails
  <1>9. ASSUME NEW a \in Admins, DeleteBegin(a) PROVE Alone'
    BY <1>9 DEF DeleteBegin, Begin
  <1>10. ASSUME NEW a \in Admins, DeleteSnat(a) PROVE Alone'
    BY <1>10 DEF DeleteSnat
  <1>11. ASSUME NEW a \in Admins, DeleteLink(a) PROVE Alone'
    BY <1>11 DEF DeleteLink
  <1>12. ASSUME NEW a \in Admins, DeleteRecord(a) PROVE Alone'
    BY <1>12 DEF DeleteRecord
  <1>13. ASSUME NEW a \in Admins, DeleteKey(a) PROVE Alone'
    BY <1>13 DEF DeleteKey
  <1>14. ASSUME NEW c \in Containers, ConnectBegin(c) PROVE Alone'
    BY <1>14 DEF ConnectBegin, Begin
  <1>15. ASSUME NEW c \in Containers, PrepareFails(c) PROVE Alone'
    BY <1>15 DEF PrepareFails, Begin
  <1>16. ASSUME NEW c \in Containers, ConnectAllocate(c) PROVE Alone'
    BY <1>16, Allocates DEF ConnectAllocate
  <1>17. ASSUME NEW c \in Containers, ConnectVeth(c) PROVE Alone'
    BY <1>17 DEF ConnectVeth
  <1>18. ASSUME NEW c \in Containers, ConnectConfig(c) PROVE Alone'
    BY <1>18 DEF ConnectConfig
  <1>19. ASSUME NEW c \in Containers, Persist(c) PROVE Alone'
    BY <1>19 DEF Persist
  <1>20. ASSUME NEW c \in Containers, DisconnectBegin(c) PROVE Alone'
    BY <1>20 DEF DisconnectBegin
  <1>21. ASSUME NEW c \in Containers, DisconnectRelease(c) PROVE Alone'
    BY <1>21, Releases DEF DisconnectRelease
  <1>22. ASSUME NEW c \in Containers, Settle(c) PROVE Alone'
    BY <1>22 DEF Settle
  <1>23. CASE Crash
    BY <1>23 DEF Crash
  <1> QED
    BY <1>1, <1>2, <1>3, <1>4, <1>5, <1>6, <1>7, <1>8, <1>9, <1>10,
       <1>11, <1>12, <1>13, <1>14, <1>15, <1>16, <1>17, <1>18, <1>19, <1>20,
       <1>21, <1>22, <1>23
       DEF Next, Create, Delete, Endpoint

\* Who does not write the bitmap marks and frees nothing.
LEMMA BitmapUntouched == ASSUME UNCHANGED key PROVE Taken' = Taken
  BY DEF Taken, Marked, Loaded

\* What is marked is given to nobody; what is given back was not the bridge's.
LEMMA NextReserved ==
  ASSUME TypeOK, Kinds, Holds, Alone, Built, Reserved, ~overlap', ~stray', Next
  PROVE  Reserved'
  <1> USE NetworkAssumption DEF TypeOK, Kinds, Actors, Making, Attaching, Deleting, None, Step, db, host, config, history, Forget, Holds, Alone, Reserved
  <1>1. ASSUME NEW a \in Admins, CreateBegin(a) PROVE Reserved'
    BY <1>1, BitmapUntouched DEF CreateBegin, Begin
  <1>2. ASSUME NEW a \in Admins, CreateAllocate(a) PROVE Reserved'
    BY <1>2, Allocates DEF CreateAllocate
  <1>3. ASSUME NEW a \in Admins, CreateBridge(a) PROVE Reserved'
    BY <1>3, BitmapUntouched DEF CreateBridge
  <1>4. ASSUME NEW a \in Admins, CreateAddr(a) PROVE Reserved'
    BY <1>4, BitmapUntouched DEF CreateAddr
  <1>5. ASSUME NEW a \in Admins, CreateUp(a) PROVE Reserved'
    BY <1>5, BitmapUntouched DEF CreateUp
  <1>6. ASSUME NEW a \in Admins, CreateSnat(a) PROVE Reserved'
    BY <1>6, BitmapUntouched DEF CreateSnat
  <1>7. ASSUME NEW a \in Admins, CreatePut(a) PROVE Reserved'
    BY <1>7, BitmapUntouched DEF CreatePut
  <1>8. ASSUME NEW a \in Admins, CreateFails(a) PROVE Reserved'
    BY <1>8, BitmapUntouched DEF CreateFails
  <1>9. ASSUME NEW a \in Admins, DeleteBegin(a) PROVE Reserved'
    BY <1>9, BitmapUntouched DEF DeleteBegin, Begin
  <1>10. ASSUME NEW a \in Admins, DeleteSnat(a) PROVE Reserved'
    BY <1>10, BitmapUntouched DEF DeleteSnat
  <1>11. ASSUME NEW a \in Admins, DeleteLink(a) PROVE Reserved'
    BY <1>11, BitmapUntouched DEF DeleteLink
  <1>12. ASSUME NEW a \in Admins, DeleteRecord(a) PROVE Reserved'
    BY <1>12, BitmapUntouched DEF DeleteRecord
  <1>13. ASSUME NEW a \in Admins, DeleteKey(a) PROVE Reserved'
    BY <1>13 DEF DeleteKey, Built
  <1>14. ASSUME NEW c \in Containers, ConnectBegin(c) PROVE Reserved'
    BY <1>14, BitmapUntouched DEF ConnectBegin, Begin
  <1>15. ASSUME NEW c \in Containers, PrepareFails(c) PROVE Reserved'
    BY <1>15, BitmapUntouched DEF PrepareFails, Begin
  <1>16. ASSUME NEW c \in Containers, ConnectAllocate(c) PROVE Reserved'
    BY <1>16, Allocates DEF ConnectAllocate
  <1>17. ASSUME NEW c \in Containers, ConnectVeth(c) PROVE Reserved'
    BY <1>17, BitmapUntouched DEF ConnectVeth
  <1>18. ASSUME NEW c \in Containers, ConnectConfig(c) PROVE Reserved'
    BY <1>18, BitmapUntouched DEF ConnectConfig
  <1>19. ASSUME NEW c \in Containers, Persist(c) PROVE Reserved'
    BY <1>19, BitmapUntouched DEF Persist
  <1>20. ASSUME NEW c \in Containers, DisconnectBegin(c) PROVE Reserved'
    BY <1>20, BitmapUntouched DEF DisconnectBegin
  <1>21. ASSUME NEW c \in Containers, DisconnectRelease(c) PROVE Reserved'
    <2>1. Taken' = IF cfg[c] = None THEN Taken ELSE Taken \ {cfg[c]}
      BY <1>21, Releases
    <2>2. ip' = [ip EXCEPT ![c] = None] /\ UNCHANGED addrs /\ cfg[c] \in {None, ip[c]}
      BY <1>21 DEF DisconnectRelease
    <2> QED
      BY <2>1, <2>2
  <1>22. ASSUME NEW c \in Containers, Settle(c) PROVE Reserved'
    BY <1>22, BitmapUntouched DEF Settle
  <1>23. CASE Crash
    BY <1>23, BitmapUntouched DEF Crash
  <1> QED
    BY <1>1, <1>2, <1>3, <1>4, <1>5, <1>6, <1>7, <1>8, <1>9, <1>10,
       <1>11, <1>12, <1>13, <1>14, <1>15, <1>16, <1>17, <1>18, <1>19, <1>20,
       <1>21, <1>22, <1>23
       DEF Next, Create, Delete, Endpoint

\* A Create leaves a bridge that works, a Delete runs beside none.
LEMMA NextBuilt ==
  ASSUME TypeOK, Kinds, Alone, Built, RecordedMeansBuilt, ~overlap, ~overlap', Next
  PROVE  Built' /\ RecordedMeansBuilt'
  <1> USE NetworkAssumption DEF TypeOK, Kinds, Actors, Making, Attaching, Deleting, None, Step, db, host, config, history, Forget, Alone, Built, RecordedMeansBuilt
  <1>1. ASSUME NEW a \in Admins, CreateBegin(a) PROVE Built' /\ RecordedMeansBuilt'
    BY <1>1 DEF CreateBegin, Begin
  <1>2. ASSUME NEW a \in Admins, CreateAllocate(a) PROVE Built' /\ RecordedMeansBuilt'
    BY <1>2, Allocates DEF CreateAllocate
  <1>3. ASSUME NEW a \in Admins, CreateBridge(a) PROVE Built' /\ RecordedMeansBuilt'
    BY <1>3 DEF CreateBridge
  <1>4. ASSUME NEW a \in Admins, CreateAddr(a) PROVE Built' /\ RecordedMeansBuilt'
    BY <1>4 DEF CreateAddr
  <1>5. ASSUME NEW a \in Admins, CreateUp(a) PROVE Built' /\ RecordedMeansBuilt'
    BY <1>5 DEF CreateUp
  <1>6. ASSUME NEW a \in Admins, CreateSnat(a) PROVE Built' /\ RecordedMeansBuilt'
    BY <1>6 DEF CreateSnat
  <1>7. ASSUME NEW a \in Admins, CreatePut(a) PROVE Built' /\ RecordedMeansBuilt'
    BY <1>7 DEF CreatePut
  <1>8. ASSUME NEW a \in Admins, CreateFails(a) PROVE Built' /\ RecordedMeansBuilt'
    BY <1>8 DEF CreateFails
  <1>9. ASSUME NEW a \in Admins, DeleteBegin(a) PROVE Built' /\ RecordedMeansBuilt'
    BY <1>9 DEF DeleteBegin, Begin
  <1>10. ASSUME NEW a \in Admins, DeleteSnat(a) PROVE Built' /\ RecordedMeansBuilt'
    BY <1>10 DEF DeleteSnat
  <1>11. ASSUME NEW a \in Admins, DeleteLink(a) PROVE Built' /\ RecordedMeansBuilt'
    BY <1>11 DEF DeleteLink
  <1>12. ASSUME NEW a \in Admins, DeleteRecord(a) PROVE Built' /\ RecordedMeansBuilt'
    BY <1>12 DEF DeleteRecord
  <1>13. ASSUME NEW a \in Admins, DeleteKey(a) PROVE Built' /\ RecordedMeansBuilt'
    BY <1>13 DEF DeleteKey
  <1>14. ASSUME NEW c \in Containers, ConnectBegin(c) PROVE Built' /\ RecordedMeansBuilt'
    BY <1>14 DEF ConnectBegin, Begin
  <1>15. ASSUME NEW c \in Containers, PrepareFails(c) PROVE Built' /\ RecordedMeansBuilt'
    BY <1>15 DEF PrepareFails, Begin
  <1>16. ASSUME NEW c \in Containers, ConnectAllocate(c) PROVE Built' /\ RecordedMeansBuilt'
    BY <1>16, Allocates DEF ConnectAllocate
  <1>17. ASSUME NEW c \in Containers, ConnectVeth(c) PROVE Built' /\ RecordedMeansBuilt'
    BY <1>17 DEF ConnectVeth
  <1>18. ASSUME NEW c \in Containers, ConnectConfig(c) PROVE Built' /\ RecordedMeansBuilt'
    BY <1>18 DEF ConnectConfig
  <1>19. ASSUME NEW c \in Containers, Persist(c) PROVE Built' /\ RecordedMeansBuilt'
    BY <1>19 DEF Persist
  <1>20. ASSUME NEW c \in Containers, DisconnectBegin(c) PROVE Built' /\ RecordedMeansBuilt'
    BY <1>20 DEF DisconnectBegin
  <1>21. ASSUME NEW c \in Containers, DisconnectRelease(c) PROVE Built' /\ RecordedMeansBuilt'
    BY <1>21, Releases DEF DisconnectRelease
  <1>22. ASSUME NEW c \in Containers, Settle(c) PROVE Built' /\ RecordedMeansBuilt'
    BY <1>22 DEF Settle
  <1>23. CASE Crash
    BY <1>23 DEF Crash
  <1> QED
    BY <1>1, <1>2, <1>3, <1>4, <1>5, <1>6, <1>7, <1>8, <1>9, <1>10,
       <1>11, <1>12, <1>13, <1>14, <1>15, <1>16, <1>17, <1>18, <1>19, <1>20,
       <1>21, <1>22, <1>23
       DEF Next, Create, Delete, Endpoint

\* The gateway a container has read is on the bridge, or there is no bridge.
LEMMA NextRouted ==
  ASSUME TypeOK, Kinds, Holds, Alone, Built, Routed, ~overlap', Next PROVE Routed'
  <1> USE NetworkAssumption DEF TypeOK, Kinds, Actors, Making, Attaching, Deleting, None, Step, db, host, config, history, Forget, Alone, Built, Routed, Demolished
  <1>1. ASSUME NEW a \in Admins, CreateBegin(a) PROVE Routed'
    BY <1>1 DEF CreateBegin, Begin
  <1>2. ASSUME NEW a \in Admins, CreateAllocate(a) PROVE Routed'
    BY <1>2, Allocates DEF CreateAllocate
  <1>3. ASSUME NEW a \in Admins, CreateBridge(a) PROVE Routed'
    BY <1>3 DEF CreateBridge
  <1>4. ASSUME NEW a \in Admins, CreateAddr(a) PROVE Routed'
    BY <1>4 DEF CreateAddr
  <1>5. ASSUME NEW a \in Admins, CreateUp(a) PROVE Routed'
    BY <1>5 DEF CreateUp
  <1>6. ASSUME NEW a \in Admins, CreateSnat(a) PROVE Routed'
    BY <1>6 DEF CreateSnat
  <1>7. ASSUME NEW a \in Admins, CreatePut(a) PROVE Routed'
    BY <1>7 DEF CreatePut
  <1>8. ASSUME NEW a \in Admins, CreateFails(a) PROVE Routed'
    BY <1>8 DEF CreateFails
  <1>9. ASSUME NEW a \in Admins, DeleteBegin(a) PROVE Routed'
    BY <1>9 DEF DeleteBegin, Begin
  <1>10. ASSUME NEW a \in Admins, DeleteSnat(a) PROVE Routed'
    BY <1>10 DEF DeleteSnat
  <1>11. ASSUME NEW a \in Admins, DeleteLink(a) PROVE Routed'
    BY <1>11 DEF DeleteLink
  <1>12. ASSUME NEW a \in Admins, DeleteRecord(a) PROVE Routed'
    BY <1>12 DEF DeleteRecord
  <1>13. ASSUME NEW a \in Admins, DeleteKey(a) PROVE Routed'
    BY <1>13 DEF DeleteKey
  <1>14. ASSUME NEW c \in Containers, ConnectBegin(c) PROVE Routed'
    BY <1>14 DEF ConnectBegin, Begin
  <1>15. ASSUME NEW c \in Containers, PrepareFails(c) PROVE Routed'
    BY <1>15 DEF PrepareFails, Begin
  <1>16. ASSUME NEW c \in Containers, ConnectAllocate(c) PROVE Routed'
    BY <1>16, Allocates DEF ConnectAllocate
  <1>17. ASSUME NEW c \in Containers, ConnectVeth(c) PROVE Routed'
    BY <1>17 DEF ConnectVeth
  <1>18. ASSUME NEW c \in Containers, ConnectConfig(c) PROVE Routed'
    BY <1>18 DEF ConnectConfig
  <1>19. ASSUME NEW c \in Containers, Persist(c) PROVE Routed'
    BY <1>19 DEF Persist
  <1>20. ASSUME NEW c \in Containers, DisconnectBegin(c) PROVE Routed'
    BY <1>20 DEF DisconnectBegin, Holds
  <1>21. ASSUME NEW c \in Containers, DisconnectRelease(c) PROVE Routed'
    BY <1>21, Releases DEF DisconnectRelease
  <1>22. ASSUME NEW c \in Containers, Settle(c) PROVE Routed'
    BY <1>22 DEF Settle
  <1>23. CASE Crash
    BY <1>23 DEF Crash
  <1> QED
    BY <1>1, <1>2, <1>3, <1>4, <1>5, <1>6, <1>7, <1>8, <1>9, <1>10,
       <1>11, <1>12, <1>13, <1>14, <1>15, <1>16, <1>17, <1>18, <1>19, <1>20,
       <1>21, <1>22, <1>23
       DEF Next, Create, Delete, Endpoint

-----------------------------------------------------------------------------
\* Every step keeps the invariant.
LEMMA NextIInv == IInv /\ [Next]_vars => IInv'
  <1>1. ASSUME IInv, Next PROVE IInv'
    <2>1. RulesBounded'
      BY <1>1, NextRulesBounded DEF IInv
    <2>2. TypeOK' /\ Kinds'
      BY <1>1, <2>1, NextTypeOK, NextKinds DEF IInv
    <2>3. ASSUME ~overlap' PROVE Quiet'
      <3>1. ~overlap
        BY <1>1, <2>3, OverlapIsKept
      <3>2. TypeOK /\ Kinds /\ Quiet
        BY <1>1, <3>1 DEF IInv
      <3> QED
        BY <1>1, <2>3, <3>1, <3>2, StrayIsKept, NextHolds, NextReserved, NextAlone,
           NextBuilt, NextRouted DEF Quiet
    <2> QED
      BY <2>1, <2>2, <2>3 DEF IInv
  <1>2. ASSUME IInv, UNCHANGED vars PROVE IInv'
    <2> USE <1>2 DEF vars
    <2>1. TypeOK' /\ Kinds'
      BY DEF IInv, TypeOK, Kinds
    <2>2. RulesBounded'
      BY DEF IInv, RulesBounded, Unruled
    <2>3. Quiet => Quiet'
      BY DEF Quiet, Holds, Reserved, Taken, Marked, Loaded, Alone, Built,
         RecordedMeansBuilt, Routed, Demolished
    <2> QED
      BY <2>1, <2>2, <2>3 DEF IInv
  <1> QED
    BY <1>1, <1>2

\* The inductive invariant holds in every reachable state.
THEOREM Invariance == Spec => []IInv
  BY InitIInv, NextIInv, PTL DEF Spec

\* A record stands for a network that works, whatever Creates ran side by side
\* or failed half-way, unless a Delete overlapped another operation.
THEOREM RecordedNetworksWork == Spec => []RecordedMeansBuilt
  <1>1. IInv => RecordedMeansBuilt
    BY DEF IInv, Quiet, RecordedMeansBuilt
  <1> QED
    BY <1>1, Invariance, PTL

\* No container is given an address that the bridge answers for, as long as no
\* Delete overlaps another operation and no container releases an address that
\* is not its own.
THEOREM BridgeAddressesAreReserved == Spec => []BridgeAddressesReserved
  <1>1. IInv => BridgeAddressesReserved
    BY DEF IInv, Quiet, Reserved, Taken, Marked, BridgeAddressesReserved
  <1> QED
    BY <1>1, Invariance, PTL

\* The default route of an attached container leads to the bridge.
THEOREM GatewaysAreReachable == Spec => []GatewayReachable
  <1>1. IInv => GatewayReachable
    BY DEF IInv, Quiet, Routed, GatewayReachable
  <1> QED
    BY <1>1, Invariance, PTL

\* No address has two holders, and what an operation or a container holds is
\* marked, until a Delete overlaps another operation or a container releases an
\* address it does not hold: the other half of the books that module IPAM keeps
\* for containers.
THEOREM HoldersAreApart ==
  Spec => [](~overlap /\ ~stray =>
                /\ \A a, b \in Actors : a # b /\ ip[a] = ip[b] => ip[a] = None
                /\ \A a \in Actors : ip[a] # None => Has(Loaded, ip[a]))
  <1>1. IInv => (~overlap /\ ~stray =>
                   /\ \A a, b \in Actors : a # b /\ ip[a] = ip[b] => ip[a] = None
                   /\ \A a \in Actors : ip[a] # None => Has(Loaded, ip[a]))
    BY DEF IInv, Quiet, Reserved, Taken, Marked
  <1> QED
    BY <1>1, Invariance, PTL

\* Type correctness.
THEOREM TypeCorrect == Spec => []TypeOK
  <1>1. IInv => TypeOK
    BY DEF IInv
  <1> QED
    BY <1>1, Invariance, PTL

\* The address handed out is the lowest one that is not marked, whoever else
\* is at work and whether or not a Delete overlaps.
THEOREM AllocationIsFirstFit == Spec => LeastFreeAllocated
  <1> DEFINE Least(a) ==
        pc[a] = "allocate" /\ pc'[a] \in {"bridge", "veth"} =>
            LET free == (0 .. Size - 1) \ Marked(Loaded, Size)
            IN  ip'[a] \in free /\ \A o \in free : ip'[a] <= o
  <1>1. ASSUME TypeOK, [Next]_vars, NEW a \in Actors, pc[a] = "allocate",
               pc'[a] \in {"bridge", "veth"}
        PROVE  \E to, exhausted \in {"bridge", "idle", "veth", "detach"} :
                  exhausted \notin {"bridge", "veth"} /\ Allocated(a, to, exhausted)
    <2> USE NetworkAssumption DEF TypeOK, Actors, Step
    <2>1. ASSUME NEW b \in Admins, Create(b) \/ Delete(b)
          PROVE  b = a /\ CreateAllocate(b)
      BY <1>1, <2>1 DEF Create, Delete, CreateBegin, CreateAllocate, CreateBridge,
         CreateAddr, CreateUp, CreateSnat, CreatePut, CreateFails, DeleteBegin,
         DeleteSnat, DeleteLink, DeleteRecord, DeleteKey, Begin, Allocated
    <2>2. ASSUME NEW c \in Containers, Endpoint(c)
          PROVE  c = a /\ ConnectAllocate(c)
      BY <1>1, <2>2 DEF Endpoint, ConnectBegin, ConnectAllocate, ConnectVeth,
         ConnectConfig, PrepareFails, Persist, DisconnectBegin, DisconnectRelease,
         Settle, Begin, Allocated
    <2>3. ~Crash
      BY <1>1 DEF Crash
    <2>4. ~UNCHANGED vars
      BY <1>1 DEF vars
    <2>5. Next
      BY <1>1, <2>4
    <2>6. CASE \E b \in Admins : Create(b) \/ Delete(b)
      BY <2>1, <2>6 DEF CreateAllocate
    <2>7. CASE \E c \in Containers : Endpoint(c)
      BY <2>2, <2>7 DEF ConnectAllocate
    <2> QED
      BY <2>3, <2>5, <2>6, <2>7 DEF Next
  <1>2. ASSUME TypeOK, [Next]_vars, NEW a \in Actors PROVE Least(a)
    <2> SUFFICES ASSUME pc[a] = "allocate", pc'[a] \in {"bridge", "veth"}
                 PROVE  ip'[a] \in Address \ Taken /\ \A o \in Address \ Taken : ip'[a] <= o
      BY DEF Taken, Address
    <2>1. PICK to, exhausted \in {"bridge", "idle", "veth", "detach"} :
              exhausted \notin {"bridge", "veth"} /\ Allocated(a, to, exhausted)
      BY <1>1, <1>2
    <2>2. ~(pc' = [pc EXCEPT ![a] = exhausted])
      BY <1>2, <2>1 DEF TypeOK
    <2>3. PICK o \in Address \ {None} :
              /\ o \notin Taken /\ \A p \in Address \ Taken : o <= p
              /\ ip' = [ip EXCEPT ![a] = o]
      BY <1>2, <2>1, <2>2, Allocates
    <2>4. ip'[a] = o
      BY <1>2, <2>3 DEF TypeOK
    <2> QED
      BY <2>3, <2>4
  <1>3. TypeOK /\ [Next]_vars => [\A a \in Actors : Least(a)]_vars
    BY <1>2
  <1> QED
    BY <1>3, TypeCorrect, PTL DEF Spec, LeastFreeAllocated

-----------------------------------------------------------------------------
(* The first offset, which stands for "exhausted", is never free.          *)

FirstMarked == 0 \in Taken

\* NewSubnetBitmap marks it.
LEMMA NewMarksFirst ==
  ASSUME NEW size \in Nat \ {0} PROVE Has(NewBitmap(size), 0)
  <1> DEFINE empty == [i \in Indices(size) |-> {}]
  <1>1. empty \in Bitmaps(size) /\ 0 \in 0 .. size - 1 /\ size - 1 \in 0 .. size - 1
    BY DEF Bitmaps
  <1> HIDE DEF empty
  <1>2. SetBit(empty, 0) \in Bitmaps(size) /\ Has(SetBit(empty, 0), 0)
    BY <1>1, MarkOne
  <1>3. Has(SetBit(SetBit(empty, 0), size - 1), 0)
    BY <1>1, <1>2, MarkOne
  <1> QED
    BY <1>3 DEF NewBitmap, empty

\* So does every bitmap that a run begins with.
LEMMA InitFirstMarked == Init => FirstMarked
  <1> SUFFICES ASSUME Init PROVE Has(Loaded, 0)
    BY NetworkAssumption DEF FirstMarked, Taken, Marked
  <1>1. CASE key = NoKey
    BY <1>1, NewMarksFirst, NetworkAssumption DEF Loaded
  <1>2. CASE key # NoKey
    <2>1. key = [i \in Indices(Size) |->
                    NewBitmap(Size)[i] \cup {o % W : o \in {l \in Leaked : l \div W = i}}]
      BY <1>2 DEF Init
    <2>2. 0 \div W \in Indices(Size)
      BY WordOfOffset, NetworkAssumption
    <2>3. Has(NewBitmap(Size), 0)
      BY NewMarksFirst, NetworkAssumption
    <2> QED
      BY <1>2, <2>1, <2>2, <2>3 DEF Loaded, Has
  <1> QED
    BY <1>1, <1>2

\* A release frees an address, and the first offset is none.
LEMMA NextFirstMarked ==
  ASSUME TypeOK, FirstMarked, [Next]_vars PROVE FirstMarked'
  <1>1. ASSUME UNCHANGED key PROVE FirstMarked'
    BY <1>1 DEF FirstMarked, Taken, Loaded
  <1>2. ASSUME NEW a \in Actors, NEW to, NEW exhausted, Allocated(a, to, exhausted)
        PROVE  FirstMarked'
    BY <1>2, Allocates DEF FirstMarked
  <1>3. ASSUME NEW c \in Containers, DisconnectRelease(c) PROVE FirstMarked'
    BY <1>3, Releases DEF FirstMarked, None
  <1>4. ASSUME key' = NoKey PROVE FirstMarked'
    BY <1>4, NewMarksFirst, NetworkAssumption DEF FirstMarked, Taken, Marked, Loaded
  <1>5. ASSUME NEW b \in Admins, Create(b) PROVE FirstMarked'
    <2>1. CASE CreateAllocate(b)
      BY <1>2, <2>1 DEF CreateAllocate, Actors
    <2>2. CASE ~CreateAllocate(b)
      BY <1>1, <1>5, <2>2 DEF Create, CreateBegin, CreateBridge, CreateAddr, CreateUp,
         CreateSnat, CreatePut, CreateFails, Begin, db
    <2> QED
      BY <2>1, <2>2
  <1>6. ASSUME NEW b \in Admins, Delete(b) PROVE FirstMarked'
    BY <1>1, <1>4, <1>6 DEF Delete, DeleteBegin, DeleteSnat, DeleteLink, DeleteRecord,
       DeleteKey, Begin, db
  <1>7. ASSUME NEW c \in Containers, Endpoint(c) PROVE FirstMarked'
    <2>1. CASE ConnectAllocate(c)
      BY <1>2, <2>1 DEF ConnectAllocate, Actors
    <2>2. CASE DisconnectRelease(c)
      BY <1>3, <2>2
    <2>3. CASE ~ConnectAllocate(c) /\ ~DisconnectRelease(c)
      BY <1>1, <1>7, <2>3 DEF Endpoint, ConnectBegin, ConnectVeth, ConnectConfig,
         PrepareFails, Persist, DisconnectBegin, Settle, Begin, db
    <2> QED
      BY <2>1, <2>2, <2>3
  <1>8. CASE Crash
    BY <1>1, <1>8 DEF Crash, db
  <1>9. CASE UNCHANGED vars
    BY <1>1, <1>9 DEF vars
  <1> QED
    BY <1>5, <1>6, <1>7, <1>8, <1>9 DEF Next

\* An allocation that gives up has found every offset of the subnet marked: no
\* Create or Connect is turned away while there is an address for it.
THEOREM RefusedMeansFull ==
  Spec => [][\A a \in Actors :
               pc[a] = "allocate" /\ pc'[a] \notin {"allocate", "bridge", "veth"} =>
                  crashes' # crashes \/ Marked(Loaded, Size) = 0 .. Size - 1]_vars
  <1> DEFINE Full(a) ==
        pc[a] = "allocate" /\ pc'[a] \notin {"allocate", "bridge", "veth"} =>
            crashes' # crashes \/ Marked(Loaded, Size) = 0 .. Size - 1
  <1>1. ASSUME TypeOK, FirstMarked, [Next]_vars, NEW a \in Actors,
               pc[a] = "allocate", pc'[a] \notin {"allocate", "bridge", "veth"},
               crashes' = crashes
        PROVE  Marked(Loaded, Size) = 0 .. Size - 1
    <2> USE NetworkAssumption DEF TypeOK, Actors, Step
    <2>1. ASSUME NEW b \in Admins, Create(b) \/ Delete(b)
          PROVE  b = a /\ CreateAllocate(b)
      BY <1>1, <2>1 DEF Create, Delete, CreateBegin, CreateAllocate, CreateBridge,
         CreateAddr, CreateUp, CreateSnat, CreatePut, CreateFails, DeleteBegin,
         DeleteSnat, DeleteLink, DeleteRecord, DeleteKey, Begin, Allocated
    <2>2. ASSUME NEW c \in Containers, Endpoint(c)
          PROVE  c = a /\ ConnectAllocate(c)
      BY <1>1, <2>2 DEF Endpoint, ConnectBegin, ConnectAllocate, ConnectVeth,
         ConnectConfig, PrepareFails, Persist, DisconnectBegin, DisconnectRelease,
         Settle, Begin, Allocated
    <2>3. ~Crash
      BY <1>1 DEF Crash
    <2>4. Next
      BY <1>1 DEF vars
    <2>5. CreateAllocate(a) \/ ConnectAllocate(a)
      BY <2>1, <2>2, <2>3, <2>4 DEF Next
    <2>6. AllocateNext(Loaded, Size) = 0
      BY <1>1, <2>5 DEF CreateAllocate, ConnectAllocate, Allocated, None
    <2>7. Loaded \in Bitmaps(Size) /\ Has(Loaded, 0)
      BY <1>1, LoadedIsBitmap DEF FirstMarked, Taken, Marked
    <2>8. \A p \in 0 .. Size - 1 : Has(Loaded, p)
      BY <2>6, <2>7, ExhaustedMeansFull
    <2> QED
      BY <2>8 DEF Marked
  <1>2. TypeOK /\ FirstMarked /\ [Next]_vars => [\A a \in Actors : Full(a)]_vars
    BY <1>1
  <1>3. TypeOK /\ FirstMarked /\ [Next]_vars => FirstMarked'
    BY NextFirstMarked
  <1> QED
    BY <1>2, <1>3, InitFirstMarked, TypeCorrect, PTL DEF Spec
=============================================================================
