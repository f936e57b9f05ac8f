---------------------------- MODULE SubnetBitmap -----------------------------
(***************************************************************************)
(* The bitmap of a subnet's addresses (internal/network/subnet_bitmap.go): *)
(* an array of words of W bits (64 in the code), a word being the set of   *)
(* its bits that are 1.  An address is its offset from the subnet's base;  *)
(* size is the number of offsets, a power of two.                          *)
(***************************************************************************)
EXTENDS Naturals, FiniteSetsExt

CONSTANT W
ASSUME WAssumption == W \in Nat \ {0}

Bits == 0 .. W - 1
FullWord == Bits

\* The words of a subnet of that size: (size + W - 1) / W of them.
Indices(size) == 0 .. (size + W - 1) \div W - 1
Bitmaps(size) == [Indices(size) -> SUBSET Bits]

\* IP to offset is an error outside the subnet.
InSubnet(o, size) == o \in 0 .. size - 1

Has(words, o) == (o % W) \in words[o \div W]
SetBit(words, o) == [words EXCEPT ![o \div W] = @ \cup {o % W}]
ClearBit(words, o) == [words EXCEPT ![o \div W] = @ \ {o % W}]

\* NewSubnetBitmap: the network's and the broadcast address are marked.
NewBitmap(size) ==
    SetBit(SetBit([i \in Indices(size) |-> {}], 0), size - 1)

\* Mutant: the end of the subnet is not looked at.
FreeBitsUnbounded(words, size, i) == FullWord \ words[i]

\* Word i's zero bits; none of a full word, none past the end of the subnet.
FreeBits(words, size, i) ==
    {j \in FullWord \ words[i] : i * W + j < size}

\* AllocateNext: the first zero bit of the first word that has one; 0, which is
\* marked from the beginning, stands for the error of an exhausted subnet.
AllocateNext(words, size) ==
    LET open == {i \in DOMAIN words : FreeBits(words, size, i) # {}}
    IN  IF open = {} THEN 0
        ELSE Min(open) * W + Min(FreeBits(words, size, Min(open)))

\* Count, the number of ones, and Available.
Count(words) == MapThenSumSet(LAMBDA i : Cardinality(words[i]),
                               DOMAIN words)
Available(words, size) == size - Count(words)

\* The offsets that are marked: what the words stand for.
Marked(words, size) == {o \in 0 .. size - 1 : Has(words, o)}
=============================================================================
