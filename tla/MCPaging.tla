------------------------------ MODULE MCPaging ------------------------------
(* Instance of Paging for TLC: tables of two descriptors; address spaces of  *)
(* 4, 8 and 16 pages, with three or four levels and concatenated tables.     *)
EXTENDS Paging

RangesMC == {[bits |-> 2, level |-> 1], [bits |-> 3, level |-> 1],
             [bits |-> 4, level |-> 1], [bits |-> 4, level |-> 0]}

\* The memory is aligned for blocks of all sizes, of two pages and of none.
RequestsMC ==
  {[pa |-> p, ipa |-> i, size |-> s, perm |-> 1 + (p % 3), whole |-> TRUE] :
     p \in {16, 17, 18}, i \in {0, 1, 2}, s \in {1, 3, 6, 8}}
  \cup {[pa |-> 16, ipa |-> 0, size |-> 1, perm |-> 1, whole |-> FALSE]}
=============================================================================
