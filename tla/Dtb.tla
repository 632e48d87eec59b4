--------------------------------- MODULE Dtb ---------------------------------
(***************************************************************************)
(* The search for nodes in a flattened device tree (src/dtb.rs).  The      *)
(* recursion of _search_node and _search_node_by_compatible is a stack of  *)
(* frames, one for each node that is open, and one step reads one word.    *)
(*                                                                         *)
(* The structure block is a sequence of words: the tokens, the name behind *)
(* FDT_BEGIN_NODE, which is not a token, and one word for a whole          *)
(* property.  A property holds strings or 32-bit cells.                    *)
(***************************************************************************)
EXTENDS Integers, Sequences, FiniteSets

CONSTANT CellBase  \* a cell counts from 0 to CellBase - 1: 2^32

VARIABLES
  tree,  \* the words
  want,  \* what is searched: by "name" or "compatible"
  find   \* the search: state, p (pointer), frames, cells at the start, node

Word(i) == IF i \in DOMAIN tree THEN tree[i] ELSE [t |-> "past", key |-> "", str |-> {}, num |-> <<>>]

DefaultCells == [address |-> 2, size |-> 1]

NoNode == [start |-> 0, cells |-> DefaultCells]

Idle == [state |-> "idle", p |-> 1, frames |-> <<>>, cells |-> DefaultCells, node |-> NoNode]

-----------------------------------------------------------------------------
(* Properties of a node *)

\* The words of a node in front of its first child or its end.
Own(n) == {i \in n.start .. Len(tree) : \A j \in n.start .. i : Word(j).t \in {"prop", "nop"}}

Named(n, key) == {i \in Own(n) : Word(i).t = "prop" /\ Word(i).key = key}

First(S) == CHOOSE i \in S : \A j \in S : i <= j
Last(S)  == CHOOSE i \in S : \A j \in S : i >= j

\* get_property; 0 is None.
get_property(n, key) == IF Named(n, key) = {} THEN 0 ELSE First(Named(n, key))

\* The cells that get_property returns with the property at i.
CellsAt(n, i) ==
  LET a == {j \in Named(n, "#address-cells") : j <= i}
      s == {j \in Named(n, "#size-cells") : j <= i}
  IN [address |-> IF a = {} THEN n.cells.address ELSE Word(Last(a)).num[1],
      size    |-> IF s = {} THEN n.cells.size ELSE Word(Last(s)).num[1]]

is_node_operational(n) ==
  LET i == get_property(n, "status") IN i = 0 \/ Word(i).str = {"okay"}

\* The number in cells lo + 1 .. lo + len: a usize keeps the last two.
Number(num, lo, len) ==
  LET cell(k) == IF k > lo THEN num[k] ELSE 0 IN
  IF len = 0 THEN 0 ELSE cell(lo + len - 1) * CellBase + num[lo + len]

NoReg == [base |-> -1, size |-> 0]

read_reg_property(n, index) ==
  LET i == get_property(n, "reg")
      c == CellsAt(n, i)
      lo == (c.address + c.size) * index
  IN IF i = 0 \/ lo + c.address + c.size > Len(Word(i).num) THEN NoReg
     ELSE [base |-> Number(Word(i).num, lo, c.address),
           size |-> Number(Word(i).num, lo + c.address, c.size)]

-----------------------------------------------------------------------------
(* Searching *)

\* Mutant: the tree is searched from its start again.
Restart == find.state = "found" /\ find' = [Idle EXCEPT !.state = "scan"]

\* search_node or search_node_by_compatible is called, without a node and with the
\* one that was found last.
Search      == find.state = "idle" /\ find' = [Idle EXCEPT !.state = "scan"]
SearchAgain == find.state = "found" /\ find' = [find EXCEPT !.state = "skip", !.p = find.node.start]

w     == Word(find.p)
Depth == Len(find.frames)
Top   == find.frames[Depth]

\* What a node takes over from the node around it.
Inherited == IF Depth = 0 THEN find.cells ELSE Top.cells

Found(start, cells) ==
  find' = [find EXCEPT !.state = "found", !.node = [start |-> start, cells |-> cells]]

NotFound == find' = [find EXCEPT !.state = "none"]

ScanOpen ==
  /\ find.state = "scan" /\ w.t = "begin"
  /\ IF want.by = "name" /\ Word(find.p + 1).str = {want.what}
       THEN Found(find.p + 2, Inherited)
       ELSE find' = [find EXCEPT !.p = @ + 2,
                                 !.frames = Append(@, [start |-> find.p + 2, cells |-> Inherited])]

\* At the end of the outermost node that is searched, its caller steps over one more
\* word.
AfterEnd == IF Depth = 1 THEN 2 ELSE 1

ScanClose ==
  /\ find.state = "scan" /\ w.t = "end" /\ Depth > 0
  /\ find' = [find EXCEPT !.p = @ + AfterEnd,
                          !.frames = SubSeq(@, 1, Depth - 1)]

\* Mutant: the cells of all open nodes change.
CellsEverywhere(f, field, n) == [i \in DOMAIN f |-> [f[i] EXCEPT !.cells[field] = n]]

\* check_address_and_size_cells
SetCells(f, field, n) == [f EXCEPT ![Len(f)].cells[field] = n]

ScanProp ==
  /\ find.state = "scan" /\ w.t = "prop" /\ Depth > 0
  /\ IF want.by = "compatible" /\ w.key = "compatible" /\ want.what \in w.str
       THEN Found(Top.start, Top.cells)
       ELSE find' = [find EXCEPT
              !.p = @ + 1,
              !.frames = IF w.key = "#address-cells" THEN SetCells(@, "address", w.num[1])
                         ELSE IF w.key = "#size-cells" THEN SetCells(@, "size", w.num[1])
                         ELSE @]

\* _skip_to_next_node, which takes the name of a child for a token: it gets over a
\* node without children only.
SkipWord ==
  /\ find.state = "skip" /\ w.t = "prop"
  /\ find' = [find EXCEPT !.p = @ + 1]

SkipEnd ==
  /\ find.state = "skip" /\ w.t = "end"
  /\ find' = [find EXCEPT !.state = "scan", !.p = @ + 1, !.frames = <<>>, !.cells = find.node.cells]

\* skip_nop
Nop ==
  /\ find.state \in {"scan", "skip"} /\ w.t = "nop"
  /\ find' = [find EXCEPT !.p = @ + 1]

\* Every other word is an error, and the search returns None.
ScanFails ==
  /\ find.state = "scan"
  /\ w.t \in {"stop", "name", "past"} \/ (Depth = 0 /\ w.t \in {"end", "prop"})
  /\ NotFound

SkipFails ==
  /\ find.state = "skip" /\ w.t \in {"begin", "stop", "name", "past"}
  /\ NotFound

Scan == Search \/ ScanOpen \/ ScanClose \/ ScanProp \/ SkipWord \/ SkipEnd \/ Nop
          \/ ScanFails \/ SkipFails

-----------------------------------------------------------------------------
(* The tree by its definition *)

\* Nodes by the word behind their names.
Nodes == {i + 2 : i \in {i \in DOMAIN tree : tree[i].t = "begin"}}

Bare(i) == [start |-> i, cells |-> DefaultCells]

Compatible(i, what) == \E j \in Named(Bare(i), "compatible") : what \in Word(j).str

\* How many nodes are open in front of the word at k, and around a node.
Open(words, k) ==
  LET before(t) == {j \in 1 .. k - 1 : j \in DOMAIN words /\ words[j].t = t}
  IN Cardinality(before("begin")) - Cardinality(before("end"))

Level(i) == Open(tree, i - 2)

ParentOf(i) == Last({j \in Nodes : j < i /\ Level(j) = Level(i) - 1})

\* The cells that a node's reg is to be read with, where its parent gives them.
TrueCells(i) == CellsAt(Bare(ParentOf(i)), Len(tree))

\* Its parent gives both.
GivenCells(i) ==
  /\ Level(i) > 0
  /\ \A key \in {"#address-cells", "#size-cells"} : Named(Bare(ParentOf(i)), key) # {}

HasCells(i) == Named(Bare(i), "#address-cells") \cup Named(Bare(i), "#size-cells") # {}
=============================================================================
