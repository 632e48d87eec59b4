------------------------------ MODULE Allocator ------------------------------
(***************************************************************************)
(* The free-list allocator of src/allocator/linked_list.rs, which serves   *)
(* the global allocator, the page tables, the guest's RAM and the virtio   *)
(* queue.  Every call runs under the ALLOCATOR mutex, hence is one step.   *)
(* A node is stored in the first bytes of the region that it describes, so *)
(* a region is its address and its size.  Addresses are far below 2^64.    *)
(***************************************************************************)
EXTENDS Integers, Sequences

CONSTANTS
  HeapStart, HeapSize,  \* the region that init is given
  NodeSize, NodeAlign,  \* size_of and align_of ListNode
  Sizes, Aligns         \* the requests: sizes in bytes, alignments

\* add_free_region asserts the first three of init's region; alignments are
\* powers of two, and a layout's size may be zero only for a caller that does not
\* call the allocator.
ASSUME HeapAssumption ==
  /\ HeapStart \in Nat /\ HeapSize \in Nat
  /\ HeapStart % NodeAlign = 0
  /\ HeapSize >= NodeSize
ASSUME NodeAssumption ==
  /\ NodeSize \in Nat \ {0} /\ NodeAlign \in Nat \ {0}
  /\ NodeSize % NodeAlign = 0
ASSUME RequestAssumption ==
  /\ Sizes \subseteq Nat \ {0}
  /\ Aligns \subseteq Nat \ {0}
  /\ \A a \in Aligns : a % NodeAlign = 0 \/ NodeAlign % a = 0

VARIABLES
  free,  \* the list behind head: regions, the first one first
  live,  \* the blocks that callers hold, as they asked for them
  lost   \* the gaps in front of aligned blocks, which are in no list any more

vars == <<free, live, lost>>

Region == [start : Nat, size : Nat]
Block  == [start : Nat, size : Sizes, align : Aligns]

TypeOK ==
  /\ free \in Seq(Region)
  /\ live \subseteq Block
  /\ lost \subseteq Region

End(r) == r.start + r.size

-----------------------------------------------------------------------------

align_up(addr, align) == ((addr + align - 1) \div align) * align

\* The two results of size_align.
RoundedSize(size) == align_up(IF size >= NodeSize THEN size ELSE NodeSize, NodeAlign)
UsedAlign(align)  == IF align >= NodeAlign THEN align ELSE NodeAlign

\* validate_region returns Ok(AllocStart): the block fits, and what is left behind
\* it is nothing or holds a node.
AllocStart(r, align) == align_up(r.start, align)

Excess(r, size, align) == End(r) - (AllocStart(r, align) + size)

\* Mutant: the subtraction wraps around, as an unchecked one does.
ValidWraps(r, size, align) ==
  \/ Excess(r, size, align) <= 0
  \/ Excess(r, size, align) >= NodeSize

Valid(r, size, align) ==
  \/ Excess(r, size, align) = 0
  \/ Excess(r, size, align) >= NodeSize

\* The list without its i-th region.
Unlinked(s, i) == SubSeq(s, 1, i - 1) \o SubSeq(s, i + 1, Len(s))

\* add_free_region: the new node becomes the first one.
Linked(s, start, size) == <<[start |-> start, size |-> size]>> \o s

-----------------------------------------------------------------------------

Init ==
  /\ free = Linked(<<>>, HeapStart, HeapSize)
  /\ live = {}
  /\ lost = {}

\* find_and_take_region stops at the i-th region.
TakesRegion(i, size, align) ==
  /\ Valid(free[i], size, align)
  /\ \A j \in 1 .. i - 1 : ~Valid(free[j], size, align)

\* Mutant: what is left behind the block is not linked.
AllocWhole(i, req, align) ==
  LET size  == RoundedSize(req)
      used  == UsedAlign(align)
      r     == free[i]
      start == AllocStart(r, used)
  IN
  /\ TakesRegion(i, size, used)
  /\ free' = Unlinked(free, i)
  /\ live' = live \cup {[start |-> start, size |-> req, align |-> align]}
  /\ lost' = IF start > r.start
               THEN lost \cup {[start |-> r.start, size |-> start - r.start]}
               ELSE lost

\* alloc finds a region, returns its aligned part and links what is left behind.
AllocFrom(i, req, align) ==
  LET size  == RoundedSize(req)
      used  == UsedAlign(align)
      r     == free[i]
      start == AllocStart(r, used)
      rest  == Excess(r, size, used)
  IN
  /\ TakesRegion(i, size, used)
  /\ free' = IF rest > 0 THEN Linked(Unlinked(free, i), start + size, rest)
                         ELSE Unlinked(free, i)
  /\ live' = live \cup {[start |-> start, size |-> req, align |-> align]}
  /\ lost' = IF start > r.start
               THEN lost \cup {[start |-> r.start, size |-> start - r.start]}
               ELSE lost

\* alloc returns null.
AllocNull(req, align) ==
  /\ \A i \in DOMAIN free : ~Valid(free[i], RoundedSize(req), UsedAlign(align))
  /\ UNCHANGED vars

\* Mutant: the size is rounded to the alignment of the block.
DeallocAligned(b) ==
  /\ free' = Linked(free, b.start, align_up(RoundedSize(b.size), b.align))
  /\ live' = live \ {b}
  /\ UNCHANGED lost

\* dealloc_aligned, with the layout that the block was allocated with.
Dealloc(b) ==
  /\ free' = Linked(free, b.start, RoundedSize(b.size))
  /\ live' = live \ {b}
  /\ UNCHANGED lost

Next ==
  \/ \E req \in Sizes, align \in Aligns :
       (\E i \in DOMAIN free : AllocFrom(i, req, align)) \/ AllocNull(req, align)
  \/ \E b \in live : Dealloc(b)

Spec == Init /\ [][Next]_vars

-----------------------------------------------------------------------------
(* Properties *)

\* The region that a caller's block occupies.
Extent(b) == [start |-> b.start, size |-> RoundedSize(b.size)]

Separate(r, s) == End(r) <= s.start \/ End(s) <= r.start

Within(r) == HeapStart <= r.start /\ End(r) <= HeapStart + HeapSize

\* The regions of the free list lie in the heap and do not overlap.
FreeSeparate ==
  /\ \A i \in DOMAIN free : Within(free[i])
  /\ \A i, j \in DOMAIN free : i # j => Separate(free[i], free[j])

\* No node of the free list lies in a block that a caller holds.
LiveUntouched ==
  \A i \in DOMAIN free : \A b \in live : Separate(free[i], Extent(b))

\* The assertions of add_free_region: every free region is aligned for a node and
\* has room for one.
NodesFit ==
  \A i \in DOMAIN free : free[i].start % NodeAlign = 0 /\ free[i].size >= NodeSize

\* NodesSafe: add_free_region, which writes its nodes into the memory that it links,
\* overwrites neither another node nor a block that a caller holds, and its
\* assertions hold whenever it is called.
NodesSafe == FreeSeparate /\ LiveUntouched /\ NodesFit

\* What alloc returned is aligned as asked, in the heap and shared with
\* no other block.
LiveSound ==
  /\ \A b \in live : Within(Extent(b)) /\ b.start % UsedAlign(b.align) = 0
  /\ \A b, c \in live : b # c => Separate(Extent(b), Extent(c))

\* Every byte of the heap is free, held or in a gap.
Accounted ==
  \A a \in HeapStart .. (HeapStart + HeapSize - 1) :
    \/ \E i \in DOMAIN free : free[i].start <= a /\ a < End(free[i])
    \/ \E b \in live : b.start <= a /\ a < End(Extent(b))
    \/ \E g \in lost : g.start <= a /\ a < End(g)

\* Regions start at multiples of NodeAlign, so only a request with a stricter
\* alignment leaves a gap, and one shorter than its alignment.
GapsFromAlignment ==
  \A g \in lost : \E a \in Aligns : a > NodeAlign /\ g.size < a

\* LossBounded: splitting and linking lose nothing but the gaps in front of blocks
\* whose alignment is stricter than a node's, each shorter than that alignment.
LossBounded == Accounted /\ GapsFromAlignment

\* The inductive invariant.
IInv == TypeOK /\ FreeSeparate /\ LiveUntouched /\ NodesFit /\ LiveSound

HeapOf == INSTANCE Heap

\* IsHeap: the free list implements the heap that callers rely on.
IsHeap == HeapOf!Spec
=============================================================================
