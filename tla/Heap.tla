-------------------------------- MODULE Heap --------------------------------
(***************************************************************************)
(* What a caller may rely on in the hypervisor's heap: the blocks that it  *)
(* holds lie in the heap, are aligned as requested and do not overlap.     *)
(* Which block a request gets, and whether it gets one, is not specified.  *)
(***************************************************************************)
EXTENDS Integers

CONSTANTS
  HeapStart, HeapSize,  \* the heap handed to LinkedListAllocator::init
  Sizes, Aligns         \* the requests: sizes in bytes, alignments

VARIABLE live  \* the blocks that callers hold

Block == [start : HeapStart .. (HeapStart + HeapSize - 1), size : Sizes, align : Aligns]

InHeap(b) == HeapStart <= b.start /\ b.start + b.size <= HeapStart + HeapSize

Separate(b, c) == b.start + b.size <= c.start \/ c.start + c.size <= b.start

Init == live = {}

Grant(b) ==
  /\ InHeap(b)
  /\ b.start % b.align = 0
  /\ \A c \in live : Separate(b, c)
  /\ live' = live \cup {b}

GiveBack(b) == live' = live \ {b}

Next == (\E b \in Block : Grant(b)) \/ (\E b \in live : GiveBack(b))

Spec == Init /\ [][Next]_live
=============================================================================
