------------------------------- MODULE Paging -------------------------------
(***************************************************************************)
(* The stage-2 translation tables of src/paging.rs: the setup of the       *)
(* top-level table and map_address_stage2, whose recursion over the levels *)
(* is a stack of frames here, one descriptor per step.                     *)
(*                                                                         *)
(* Addresses are numbers of pages.  A table is a function from indices to  *)
(* descriptors and is named by the order of its allocation, the top-level  *)
(* one (with all its concatenated parts) by 0.  Translate is the walk that *)
(* the hardware makes.                                                     *)
(***************************************************************************)
EXTENDS Integers, Sequences, FiniteSets

CONSTANTS
  IndexBits,  \* bits of an address that one level resolves: 9
  Ranges,     \* what init_stage2_translation_table sets for the CPU's PARange:
              \* bits of a page number (52 - T0SZ) and the first level
  Requests,   \* the calls: pa, ipa, size, perm, whole (size is a number of pages)
  MaxCalls,   \* bound: calls of map_address_stage2
  MaxTables   \* bound: tables that there is memory for

Fan == 2^IndexBits

ASSUME PagingAssumption ==
  /\ IndexBits \in Nat \ {0} /\ MaxCalls \in Nat /\ MaxTables \in Nat
  /\ \A r \in Ranges : r.bits \in Nat \ {0} /\ r.level \in {0, 1}
  /\ \A r \in Requests :
       /\ r.pa \in Nat /\ r.ipa \in Nat /\ r.size \in Nat \ {0}
       /\ r.perm \in 0 .. 3 /\ r.whole \in BOOLEAN

VARIABLES
  pc,      \* "boot", "idle", "walk", "next", "panic"
  vtcr,    \* the range that VTCR_EL2 is set up for
  tables,  \* the tables in memory
  req,     \* the arguments of the running or last call
  pa, ipa, remaining,  \* what is left to map
  stack,   \* the calls of _map_address_stage2: table, level and descriptor
  calls,
  result   \* what the last call returned

vars == <<pc, vtcr, tables, req, pa, ipa, remaining, stack, calls, result>>

NoRequest == [pa |-> 0, ipa |-> 0, size |-> 0, perm |-> 0, whole |-> TRUE]

Empty == [kind |-> "none", addr |-> 0, perm |-> 0]

\* Pages that a descriptor of a level stands for.
Span(level) == 2^(IndexBits * (3 - level))

number_of_concatenated_page_tables(r) ==
  LET one == IndexBits * (4 - r.level) IN IF r.bits < one THEN 1 ELSE 2^(r.bits - one)

\* What arithmetic says of these powers of 2.
ASSUME SpanAssumption ==
  /\ Fan \in Nat \ {0, 1} /\ Span(3) = 1
  /\ \A l \in 0 .. 2 : Span(l) = Fan * Span(l + 1)
  /\ \A r \in Ranges :
       /\ number_of_concatenated_page_tables(r) \in Nat \ {0}
       /\ 2^r.bits \in Nat
       /\ 2^r.bits <= number_of_concatenated_page_tables(r) * Fan * Span(r.level)

\* create_vm maps guest RAM, whose address every CPU can translate.
ASSUME RequestAssumption == \A r \in Ranges, q \in Requests : q.ipa < 2^r.bits

\* num_of_descriptors
Count(level) ==
  IF level = vtcr.level THEN number_of_concatenated_page_tables(vtcr) * Fan ELSE Fan

\* A call of _map_address_stage2 begins at the descriptor of the address.
Frame(t, level, a) == [table |-> t, level |-> level, at |-> (a \div Span(level)) % Count(level)]

Top == stack[Len(stack)]
Rest == SubSeq(stack, 1, Len(stack) - 1)
Descriptor == tables[Top.table][Top.at]

Init ==
  /\ pc = "boot"
  /\ vtcr \in Ranges
  /\ tables = <<>>
  /\ req = NoRequest
  /\ pa = 0 /\ ipa = 0 /\ remaining = 0
  /\ stack = <<>>
  /\ calls = 0
  /\ result = "none"

-----------------------------------------------------------------------------

\* The top-level table is allocated and emptied, or there is no memory for it.
init_stage2_translation_table ==
  /\ pc = "boot"
  /\ \/ /\ tables' = [t \in {0} |-> [i \in 0 .. Count(vtcr.level) - 1 |-> Empty]]
        /\ pc' = "idle"
     \/ pc' = "panic" /\ UNCHANGED tables
  /\ UNCHANGED <<vtcr, req, pa, ipa, remaining, stack, calls, result>>

map_address_stage2(r) ==
  /\ pc = "idle" /\ calls < MaxCalls
  /\ req' = r
  /\ calls' = calls + 1
  /\ IF r.whole
       THEN /\ pa' = r.pa /\ ipa' = r.ipa /\ remaining' = r.size
            /\ stack' = <<Frame(0, vtcr.level, r.ipa)>>
            /\ result' = "none"
            /\ pc' = "walk"
       ELSE result' = "err" /\ UNCHANGED <<pc, pa, ipa, remaining, stack>>
  /\ UNCHANGED <<vtcr, tables>>

\* A page or block descriptor is written and the addresses move on.
PutLeaf(kind) ==
  /\ tables' = [tables EXCEPT ![Top.table][Top.at] = [kind |-> kind, addr |-> pa, perm |-> req.perm]]
  /\ pa' = pa + Span(Top.level)
  /\ ipa' = ipa + Span(Top.level)
  /\ remaining' = remaining - Span(Top.level)
  /\ pc' = "next"
  /\ UNCHANGED <<vtcr, req, stack, calls, result>>

PutPage == pc = "walk" /\ Top.level = 3 /\ PutLeaf("page")

\* Mutant: the alignment of the guest's address is not looked at.
BlockFitsPa ==
  /\ Top.level \in {1, 2}
  /\ remaining >= Span(Top.level)
  /\ pa % Span(Top.level) = 0

\* Mutant: blocks at every level.
BlockFitsAny ==
  /\ Top.level < 3
  /\ remaining >= Span(Top.level)
  /\ pa % Span(Top.level) = 0
  /\ ipa % Span(Top.level) = 0

BlockFits ==
  /\ Top.level \in {1, 2}
  /\ remaining >= Span(Top.level)
  /\ pa % Span(Top.level) = 0
  /\ ipa % Span(Top.level) = 0

\* Mutant: the valid bits of a table.
PutBlockAsTable == pc = "walk" /\ BlockFits /\ PutLeaf("table")

PutBlock == pc = "walk" /\ BlockFits /\ PutLeaf("block")

Descends == pc = "walk" /\ Top.level < 3 /\ ~BlockFits

\* The descriptor has a table.
Descend ==
  /\ Descends /\ Descriptor.kind = "table"
  /\ stack' = Append(stack, Frame(Descriptor.addr, Top.level + 1, ipa))
  /\ UNCHANGED <<pc, vtcr, tables, req, pa, ipa, remaining, calls, result>>

\* It has none, and gets one that is empty.  A block that was there is gone.
NewTable ==
  LET t == Cardinality(DOMAIN tables) IN
  /\ Descends /\ Descriptor.kind # "table"
  /\ t <= MaxTables
  /\ tables' = [u \in DOMAIN tables \cup {t} |->
                  IF u = t THEN [i \in 0 .. Fan - 1 |-> Empty]
                  ELSE IF u # Top.table THEN tables[u]
                  ELSE [tables[u] EXCEPT ![Top.at] = [kind |-> "table", addr |-> t, perm |-> 0]]]
  /\ stack' = Append(stack, Frame(t, Top.level + 1, ipa))
  /\ UNCHANGED <<pc, vtcr, req, pa, ipa, remaining, calls, result>>

\* There is no memory for a table: every frame returns the error.
NoTable ==
  /\ Descends /\ Descriptor.kind # "table"
  /\ stack' = <<>>
  /\ result' = "err"
  /\ pc' = "idle"
  /\ UNCHANGED <<vtcr, tables, req, pa, ipa, remaining, calls>>

\* The end of the loop's body: a frame returns when nothing remains or its table is
\* at its end, and goes on with the next descriptor otherwise.
NextDescriptor ==
  /\ pc = "next" /\ stack # <<>>
  /\ IF remaining = 0 \/ Top.at = Count(Top.level) - 1
       THEN stack' = Rest /\ UNCHANGED pc
       ELSE stack' = [stack EXCEPT ![Len(stack)].at = @ + 1] /\ pc' = "walk"
  /\ UNCHANGED <<vtcr, tables, req, pa, ipa, remaining, calls, result>>

\* map_address_stage2 returns Ok, also if the top-level table was at its end.
Return ==
  /\ pc = "next" /\ stack = <<>>
  /\ result' = "ok"
  /\ pc' = "idle"
  /\ UNCHANGED <<vtcr, tables, req, pa, ipa, remaining, stack, calls>>

Next ==
  \/ init_stage2_translation_table
  \/ \E r \in Requests : map_address_stage2(r)
  \/ PutPage \/ PutBlock \/ Descend \/ NewTable \/ NoTable
  \/ NextDescriptor \/ Return

Spec == Init /\ [][Next]_vars

-----------------------------------------------------------------------------
(* The hardware *)

Fault == [addr |-> -1, perm |-> 0]

\* The descriptor of page p in table t of a level, with tables T in memory.  There
\* is none in table -1.
Entry(T, t, l, p) == IF t = -1 THEN Empty ELSE T[t][(p \div Span(l)) % Count(l)]

NextTable(d) == IF d.kind = "table" THEN d.addr ELSE -1

\* The walk for page p: the descriptor that it meets at each level.
Descriptors(T, p) ==
  LET at[l \in vtcr.level .. 3] ==
        Entry(T, IF l = vtcr.level THEN 0 ELSE NextTable(at[l - 1]), l, p)
  IN at

\* The levels at which it ends with a valid descriptor: blocks exist at levels 1 and
\* 2, pages at level 3.
LeafLevels(T, p) ==
  LET at == Descriptors(T, p) IN
  {l \in DOMAIN at : <<at[l].kind, l>> \in {<<"block", 1>>, <<"block", 2>>, <<"page", 3>>}}

Translate(T, p) ==
  LET levels == LeafLevels(T, p) IN
  IF levels = {} THEN Fault
  ELSE LET l == CHOOSE l \in levels : TRUE
           d == Descriptors(T, p)[l]
       IN [addr |-> d.addr + (p % Span(l)), perm |-> d.perm]

Space == 0 .. 2^vtcr.bits - 1

InRange(p) == req.ipa <= p /\ p < req.ipa + req.size

Wanted(p) == [addr |-> req.pa + (p - req.ipa), perm |-> req.perm]

-----------------------------------------------------------------------------
(* Properties *)

\* MapsRange: when map_address_stage2 has returned Ok, the hardware translates every
\* page of the range that it can address to its page of memory, with the permission
\* that was asked for, whatever the tables held before.
MapsRange ==
  result = "ok" => \A p \in Space : InRange(p) => Translate(tables, p) = Wanted(p)

\* OthersKept: no step of a call gives a page another translation than the one that
\* was asked for.  A page outside the range loses its own only when it shared a
\* block with a page of the range, which becomes a table.
KeepsOthers(p) ==
  \/ Translate(tables', p) = Translate(tables, p)
  \/ InRange(p) /\ Translate(tables', p) \in {Wanted(p), Fault}
  \/ /\ Translate(tables', p) = Fault
     /\ \E l \in LeafLevels(tables, p) : ipa \div Span(l) = p \div Span(l)

OthersKept == [][stack # <<>> => \A p \in Space : KeepsOthers(p)]_tables

\* TablesTree: a table hangs under one descriptor at most, and never under one of
\* itself: the walk that writes tables and the hardware's cannot meet a table twice.
TablesTree ==
  LET links == {a \in UNION {{t} \X DOMAIN tables[t] : t \in DOMAIN tables} :
                  tables[a[1]][a[2]].kind = "table"}
  IN /\ \A a, b \in links : tables[a[1]][a[2]].addr = tables[b[1]][b[2]].addr => a = b
     /\ \A a \in links : tables[a[1]][a[2]].addr \in DOMAIN tables \ {0, a[1]}
=============================================================================
