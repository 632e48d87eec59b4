---------------------------- MODULE MCAllocator ----------------------------
(* Instance of Allocator for TLC, in units of 4 bytes: align_of ListNode is *)
(* 2, size_of ListNode is 4, and the heap does not end at a multiple of 2.  *)
EXTENDS Allocator

SmallSizes == {1, 5, 8}
SomeAligns == {1, 4, 8}
=============================================================================
