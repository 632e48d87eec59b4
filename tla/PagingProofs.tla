---------------------------- MODULE PagingProofs ----------------------------
(***************************************************************************)
(* The stage-2 tables of module Paging for tables of every size, every     *)
(* address space and every sequence of calls: the tables form a tree, a    *)
(* call maps what it was asked for, and it leaves the other pages alone.   *)
(***************************************************************************)
EXTENDS Paging, FiniteSetTheorems, TLAPS

\* The pages that the tables cover, and the descriptor of a page at a level.
Width == Count(vtcr.level) * Span(vtcr.level)
Index(p, l) == (p \div Span(l)) % Count(l)

\* The descriptors of a table that is in memory.
Size(t) == IF t = 0 THEN Count(vtcr.level) ELSE Fan

Link(t, i) == t \in DOMAIN tables /\ i \in DOMAIN tables[t] /\ tables[t][i].kind = "table"

TreeInv ==
  /\ vtcr \in Ranges
  /\ IF pc \in {"boot", "panic"} THEN DOMAIN tables = {}
     ELSE \E n \in Nat \ {0} : DOMAIN tables = 0 .. n - 1
  /\ \A t \in DOMAIN tables : DOMAIN tables[t] = 0 .. Size(t) - 1
  /\ \A t, i \in Nat : Link(t, i) => tables[t][i].addr \in DOMAIN tables \ {0}
  /\ \A t, i, u, j \in Nat :
       Link(t, i) /\ Link(u, j) /\ tables[t][i].addr = tables[u][j].addr => t = u /\ i = j

\* The page that the frames of the stack stand at: the next one, or the last one
\* that was mapped.
Current == IF pc = "walk" THEN ipa ELSE ipa - 1

\* The frames go down the tree, each in the table of the descriptor of the one above.
FrameOK(k) ==
  /\ stack[k].level = vtcr.level + k - 1
  /\ stack[k].at = Index(Current, stack[k].level)
  /\ stack[k].table \in DOMAIN tables /\ stack[k].at \in DOMAIN tables[stack[k].table]
  /\ k = 1 => stack[k].table = 0
  /\ k < Len(stack) => /\ tables[stack[k].table][stack[k].at].kind = "table"
                       /\ tables[stack[k].table][stack[k].at].addr = stack[k + 1].table

Frame0 == [table : Nat, level : 0 .. 3, at : Nat]

StackInv ==
  /\ stack \in Seq(Frame0)
  /\ Len(stack) <= 4 - vtcr.level
  /\ \A k \in 1 .. Len(stack) : FrameOK(k)
  /\ pc \notin {"walk", "next"} => stack = <<>>
  /\ pc = "walk" => stack # <<>>

\* A table is used at one level only.
Levels(lev) ==
  /\ lev \in [DOMAIN tables -> 0 .. 3]
  /\ 0 \in DOMAIN tables => lev[0] = vtcr.level
  /\ \A t, i \in Nat : Link(t, i) => lev[t] < 3 /\ lev[tables[t][i].addr] = lev[t] + 1
  /\ \A k \in 1 .. Len(stack) : lev[stack[k].table] = stack[k].level

LevelInv == \E lev \in [DOMAIN tables -> 0 .. 3] : Levels(lev)

\* How far a call is.  It begins anywhere, and goes on at the start of what the
\* descriptor at the top of the stack stands for.
NumInv ==
  /\ pa \in Nat /\ ipa \in Nat /\ remaining \in Nat
  /\ pc \in {"walk", "next"} =>
       /\ req \in Requests
       /\ req.ipa <= ipa /\ ipa <= Width
       /\ pa = req.pa + (ipa - req.ipa)
       /\ remaining = req.size - (ipa - req.ipa)
  /\ pc = "walk" =>
       /\ ipa < Width /\ remaining > 0
       /\ ipa = req.ipa \/ ipa % Span(Top.level) = 0
  /\ pc = "next" =>
       /\ req.ipa < ipa
       /\ remaining = 0 \/ (IF stack = <<>> THEN ipa = Width ELSE ipa % Span(Top.level) = 0)

\* The pages behind the call are mapped.
DoneInv ==
  /\ pc \in {"boot", "walk", "next"} => result = "none"
  /\ pc \in {"walk", "next"} =>
       \A p \in Space : req.ipa <= p /\ p < ipa => Translate(tables, p) = Wanted(p)

Inv == TreeInv /\ StackInv /\ LevelInv /\ NumInv /\ DoneInv /\ MapsRange

-----------------------------------------------------------------------------
(* Numbers *)

LEMMA Division ==
  ASSUME NEW a \in Nat, NEW s \in Nat \ {0}
  PROVE  /\ a \div s \in Nat /\ (a % s) \in 0 .. s - 1
         /\ a = (a \div s) * s + (a % s)
  OBVIOUS

LEMMA Quotient ==
  ASSUME NEW a \in Nat, NEW s \in Nat \ {0}, NEW u \in Nat, NEW x \in 0 .. s - 1, a = u * s + x
  PROVE  a \div s = u /\ (a % s) = x
<1> DEFINE q == a \div s
           r == a % s
<1>1. q \in Nat /\ r \in 0 .. s - 1 /\ a = q * s + r
  BY Division
<1> HIDE DEF q, r
<1>2. ~(q > u)
  <2> SUFFICES ASSUME q >= u + 1 PROVE FALSE
    BY <1>1
  <2>1. q * s >= (u + 1) * s
    BY <1>1
  <2>2. QED
    BY <1>1, <2>1
<1>3. ~(q < u)
  <2> SUFFICES ASSUME u >= q + 1 PROVE FALSE
    BY <1>1
  <2>1. u * s >= (q + 1) * s
    BY <1>1
  <2>2. QED
    BY <1>1, <2>1
<1>4. q = u
  BY <1>1, <1>2, <1>3
<1>5. QED
  BY <1>1, <1>4 DEF q, r

\* A division in two steps.
LEMMA DivDiv ==
  ASSUME NEW a \in Nat, NEW s \in Nat \ {0}, NEW f \in Nat \ {0}
  PROVE  a \div (f * s) = (a \div s) \div f
<1> DEFINE q == a \div s
           r == a % s
           u == q \div f
           v == q % f
<1>1. q \in Nat /\ r \in 0 .. s - 1 /\ a = q * s + r
  BY Division
<1>2. u \in Nat /\ v \in 0 .. f - 1 /\ q = u * f + v
  BY <1>1, Division
<1> HIDE DEF q, r, u, v
<1>3. a = u * (f * s) + (v * s + r)
  BY <1>1, <1>2
<1>4. v * s \in Nat /\ v * s <= (f - 1) * s
  BY <1>2
<1>5. f * s \in Nat \ {0} /\ (f - 1) * s = f * s - s
  OBVIOUS
<1>6. v * s + r \in 0 .. (f * s) - 1
  BY <1>1, <1>4, <1>5
<1> DEFINE m == f * s
           x == v * s + r
<1>7. m \in Nat \ {0} /\ x \in 0 .. m - 1 /\ a = u * m + x
  BY <1>3, <1>5, <1>6
<1> HIDE DEF m, x
<1>8. a \div m = u
  BY <1>2, <1>7, Quotient
<1>9. QED
  BY <1>8 DEF m, u, q

\* The next number is in the next part at a boundary, and in the same one elsewhere.
LEMMA NextPart ==
  ASSUME NEW a \in Nat \ {0}, NEW s \in Nat \ {0}
  PROVE  IF a % s = 0 THEN (a - 1) \div s = (a \div s) - 1 ELSE (a - 1) \div s = a \div s
<1> DEFINE q == a \div s
           r == a % s
<1>1. q \in Nat /\ r \in 0 .. s - 1 /\ a = q * s + r
  BY Division
<1> HIDE DEF q, r
<1>2. CASE r = 0
  <2>1. q # 0
    BY <1>1, <1>2
  <2>2. a - 1 = (q - 1) * s + (s - 1)
    BY <1>1, <1>2
  <2>3. (a - 1) \div s = q - 1
    BY <1>1, <2>1, <2>2, Quotient
  <2>4. QED
    BY <1>2, <2>3 DEF q, r
<1>3. CASE r # 0
  <2>1. a - 1 = q * s + (r - 1)
    BY <1>1
  <2>2. (a - 1) \div s = q
    BY <1>1, <1>3, <2>1, Quotient
  <2>3. QED
    BY <1>3, <2>2 DEF q, r
<1>4. QED
  BY <1>2, <1>3

\* All of a part that begins at a boundary.
LEMMA WholePart ==
  ASSUME NEW a \in Nat, NEW s \in Nat \ {0}, a % s = 0, NEW p \in Nat
  PROVE  /\ p \div s = a \div s <=> a <= p /\ p < a + s
         /\ a <= p /\ p < a + s => (p % s) = p - a
<1> DEFINE q == a \div s
<1>1. q \in Nat /\ a = q * s
  BY Division
<1> DEFINE u == p \div s
           x == p % s
<1>2. u \in Nat /\ x \in 0 .. s - 1 /\ p = u * s + x
  BY Division
<1> HIDE DEF q, u, x
<1>3. u = q => a <= p /\ p < a + s
  BY <1>1, <1>2
<1>4. ASSUME a <= p, p < a + s PROVE p \div s = q /\ (p % s) = p - a
  <2>1. p = q * s + (p - a) /\ p - a \in 0 .. s - 1
    BY <1>1, <1>4
  <2>2. QED
    BY <1>1, <2>1, Quotient
<1>5. QED
  BY <1>3, <1>4 DEF q, u

LEMMA Below ==
  ASSUME NEW c \in Nat, NEW s \in Nat \ {0}, NEW p \in Nat, p < c * s
  PROVE  p \div s < c
<1> DEFINE q == p \div s
<1>1. q \in Nat /\ q * s <= p
  BY Division
<1> HIDE DEF q
<1>2. ~(q >= c)
  <2> SUFFICES ASSUME q >= c PROVE FALSE
    OBVIOUS
  <2>1. q * s >= c * s
    BY <1>1
  <2>2. QED
    BY <1>1, <2>1
<1>3. QED
  BY <1>1, <1>2 DEF q

\* What descriptors and tables stand for.
LEMMA Spans ==
  ASSUME vtcr \in Ranges
  PROVE  /\ vtcr.level \in {0, 1} /\ Fan \in Nat \ {0, 1}
         /\ Span(3) = 1 /\ \A l \in 1 .. 3 : Span(l - 1) = Fan * Span(l)
         /\ \A l \in 0 .. 3 : Span(l) \in Nat \ {0} /\ Count(l) \in Nat \ {0}
         /\ \A l \in 0 .. 3 : l # vtcr.level => Count(l) = Fan
         /\ Width \in Nat /\ 2^vtcr.bits \in Nat /\ 2^vtcr.bits <= Width
<1>1. vtcr.level \in {0, 1} /\ Fan \in Nat \ {0, 1}
  BY PagingAssumption, SpanAssumption
<1>2. Span(3) = 1 /\ \A l \in 0 .. 2 : Span(l) = Fan * Span(l + 1)
  BY SpanAssumption
<1>3. \A l \in 1 .. 3 : l - 1 \in 0 .. 2 /\ (l - 1) + 1 = l
  OBVIOUS
<1>4. \A l \in 1 .. 3 : Span(l - 1) = Fan * Span(l)
  BY <1>2, <1>3
<1>5. \A l \in 0 .. 3 : Span(l) \in Nat \ {0}
  <2>1. \A x, y \in Nat \ {0} : x * y \in Nat \ {0}
    OBVIOUS
  <2>2. Span(3) \in Nat \ {0}
    BY <1>2
  <2>3. Span(2) = Fan * Span(3) /\ Span(1) = Fan * Span(2) /\ Span(0) = Fan * Span(1)
    BY <1>2
  <2>4. Span(2) \in Nat \ {0}
    BY <1>1, <2>1, <2>2, <2>3
  <2>5. Span(1) \in Nat \ {0}
    BY <1>1, <2>1, <2>3, <2>4
  <2>6. Span(0) \in Nat \ {0}
    BY <1>1, <2>1, <2>3, <2>5
  <2>7. QED
    BY <2>2, <2>4, <2>5, <2>6
<1> DEFINE n == number_of_concatenated_page_tables(vtcr)
<1>6. n \in Nat \ {0} /\ 2^vtcr.bits \in Nat /\ 2^vtcr.bits <= n * Fan * Span(vtcr.level)
  BY SpanAssumption
<1> HIDE DEF n
<1>7. n * Fan \in Nat \ {0}
  BY <1>1, <1>6
<1>8. \A l \in 0 .. 3 : Count(l) = IF l = vtcr.level THEN n * Fan ELSE Fan
  BY DEF Count, n
<1>9. \A l \in 0 .. 3 : Count(l) \in Nat \ {0} /\ (l # vtcr.level => Count(l) = Fan)
  BY <1>1, <1>7, <1>8
<1>10. Width = n * Fan * Span(vtcr.level)
  BY <1>1, <1>8 DEF Width
<1>11. Width \in Nat
  BY <1>1, <1>5, <1>7, <1>10
<1>12. QED
  BY <1>1, <1>2, <1>4, <1>5, <1>6, <1>9, <1>10, <1>11

LEMMA UpPart ==
  ASSUME vtcr \in Ranges, NEW a \in Nat, NEW l \in 1 .. 3
  PROVE  a \div Span(l - 1) = (a \div Span(l)) \div Fan
  BY Spans, DivDiv

\* What holds at the first level and goes on to the next, holds at all.
LEMMA EachLevel ==
  ASSUME NEW lo \in {0, 1}, NEW P, lo \in P, \A l \in lo + 1 .. 3 : l - 1 \in P => l \in P
  PROVE  lo .. 3 \subseteq P
<1>1. lo + 1 \in P
  BY lo + 1 \in lo + 1 .. 3 /\ (lo + 1) - 1 = lo
<1>2. lo + 2 \in P
  BY <1>1, lo + 2 \in lo + 1 .. 3 /\ (lo + 2) - 1 = lo + 1
<1>3. lo + 3 \in lo + 1 .. 3 => lo + 3 \in P
  BY <1>2, (lo + 3) - 1 = lo + 2
<1>4. QED
  BY <1>1, <1>2, <1>3

\* Two pages are in the same part at a level if they have the same index at that
\* level and at those above.
LEMMA SamePart ==
  ASSUME vtcr \in Ranges, NEW p \in Nat, NEW q \in Nat, p < Width, q < Width
  PROVE  \A l \in vtcr.level .. 3 :
           p \div Span(l) = q \div Span(l)
             <=> \A j \in vtcr.level .. l : Index(p, j) = Index(q, j)
<1> DEFINE lo == vtcr.level
           P == {l \in lo .. 3 : p \div Span(l) = q \div Span(l)
                                   <=> \A j \in lo .. l : Index(p, j) = Index(q, j)}
<1>1. lo \in {0, 1} /\ Fan \in Nat \ {0}
  BY Spans
<1>2. lo \in P
  <2>1. Span(lo) \in Nat \ {0} /\ Count(lo) \in Nat \ {0}
    BY <1>1, Spans
  <2>2. p \div Span(lo) < Count(lo) /\ q \div Span(lo) < Count(lo)
    BY <2>1, Below DEF Width
  <2>3. p \div Span(lo) \in Nat /\ q \div Span(lo) \in Nat
    BY <2>1, Division
  <2>4. \A x, c \in Nat : x < c => x % c = x
    OBVIOUS
  <2>5. Index(p, lo) = p \div Span(lo) /\ Index(q, lo) = q \div Span(lo)
    BY <2>1, <2>2, <2>3, <2>4 DEF Index
  <2>6. \A j \in lo .. lo : j = lo
    BY <1>1
  <2>7. lo \in lo .. lo /\ lo \in lo .. 3
    BY <1>1
  <2>8. QED
    BY <2>5, <2>6, <2>7
<1>3. ASSUME NEW l \in lo + 1 .. 3, l - 1 \in P PROVE l \in P
  <2> DEFINE x == p \div Span(l)
             y == q \div Span(l)
  <2>1. l \in 1 .. 3 /\ l \in 0 .. 3 /\ l # lo /\ l \in lo .. 3
    BY <1>1
  <2>2. p \div Span(l - 1) = x \div Fan /\ q \div Span(l - 1) = y \div Fan
    BY <2>1, UpPart
  <2>3. Index(p, l) = x % Fan /\ Index(q, l) = y % Fan
    BY <2>1, Spans DEF Index
  <2>4. x \in Nat /\ y \in Nat
    BY <2>1, Spans, Division
  <2> HIDE DEF x, y
  <2>5. x = (x \div Fan) * Fan + (x % Fan) /\ y = (y \div Fan) * Fan + (y % Fan)
    BY <1>1, <2>4, Division
  <2>6. x = y <=> (x \div Fan) = (y \div Fan) /\ (x % Fan) = (y % Fan)
    BY <2>5
  <2>7. (x \div Fan) = (y \div Fan) <=> \A j \in lo .. l - 1 : Index(p, j) = Index(q, j)
    BY <1>3, <2>2
  <2>8. \A j \in lo .. l : j = l \/ j \in lo .. l - 1
    BY <1>1
  <2>9. \A j \in lo .. l - 1 : j \in lo .. l
    BY <1>1
  <2>10. l \in lo .. l
    BY <1>1
  <2>11. x = y <=> \A j \in lo .. l : Index(p, j) = Index(q, j)
    BY <2>3, <2>6, <2>7, <2>8, <2>9, <2>10
  <2>12. QED
    BY <2>1, <2>11 DEF x, y
<1> HIDE DEF P
<1>4. lo .. 3 \subseteq P
  BY <1>1, <1>2, <1>3, EachLevel
<1>5. QED
  BY <1>4 DEF P

\* The tables cover whole parts.
LEMMA Covered ==
  ASSUME vtcr \in Ranges
  PROVE  \A l \in vtcr.level .. 3 : \E w \in Nat : Width = w * Span(l)
<1> DEFINE lo == vtcr.level
           P == {l \in lo .. 3 : \E w \in Nat : Width = w * Span(l)}
<1>1. lo \in {0, 1} /\ lo \in 0 .. 3 /\ Fan \in Nat
  BY Spans
<1>2. lo \in P
  BY <1>1, Spans DEF Width
<1>3. ASSUME NEW l \in lo + 1 .. 3, l - 1 \in P PROVE l \in P
  <2>1. l \in 1 .. 3 /\ l \in lo .. 3 /\ l \in 0 .. 3
    BY <1>1
  <2>2. PICK w \in Nat : Width = w * Span(l - 1)
    BY <1>3
  <2>3. Span(l - 1) = Fan * Span(l) /\ Span(l) \in Nat
    BY <2>1, Spans
  <2>4. Width = (w * Fan) * Span(l) /\ w * Fan \in Nat
    BY <1>1, <2>2, <2>3
  <2>5. QED
    BY <2>1, <2>4
<1> HIDE DEF P
<1>4. lo .. 3 \subseteq P
  BY <1>1, <1>2, <1>3, EachLevel
<1>5. QED
  BY <1>4 DEF P

LEMMA Multiple == ASSUME NEW w \in Nat, NEW s \in Nat \ {0} PROVE (w * s) \div s = w /\ (w * s) % s = 0
<1> DEFINE a == w * s
<1>1. a \in Nat /\ a = w * s + 0 /\ 0 \in 0 .. s - 1
  OBVIOUS
<1> HIDE DEF a
<1>2. a \div s = w /\ (a % s) = 0
  BY <1>1, Quotient
<1>3. QED
  BY <1>2 DEF a

\* Behind the last page, the index is 0 at every level.
LEMMA LastIndex ==
  ASSUME vtcr \in Ranges, NEW l \in vtcr.level .. 3
  PROVE  Index(Width, l) = 0
<1> DEFINE lo == vtcr.level
<1>a. lo \in {0, 1}
  BY Spans
<1>b. l \in 0 .. 3
  BY <1>a
<1>1. lo \in {0, 1} /\ l \in 0 .. 3 /\ Fan \in Nat \ {0} /\ Span(l) \in Nat \ {0} /\ Count(l) \in Nat \ {0}
  BY <1>a, <1>b, Spans
<1>2. CASE l = lo
  <2>1. Width = Count(l) * Span(l)
    BY <1>2 DEF Width
  <2>2. Width \div Span(l) = Count(l)
    BY <1>1, <2>1, Multiple
  <2>3. Count(l) % Count(l) = 0
    BY <1>1
  <2>4. QED
    BY <2>2, <2>3 DEF Index
<1>3. CASE l # lo
  <2>1. l - 1 \in lo .. 3 /\ l \in 1 .. 3
    BY <1>1, <1>3
  <2>2. PICK w \in Nat : Width = w * Span(l - 1)
    BY <2>1, Covered
  <2>3. Span(l - 1) = Fan * Span(l) /\ Count(l) = Fan
    BY <1>1, <1>3, <2>1, Spans
  <2>4. Width = (w * Fan) * Span(l) /\ w * Fan \in Nat
    BY <1>1, <2>2, <2>3
  <2>5. Width \div Span(l) = w * Fan
    BY <1>1, <2>4, Multiple
  <2>6. (w * Fan) % Fan = 0
    BY <1>1, Multiple
  <2>7. QED
    BY <2>3, <2>5, <2>6 DEF Index
<1>4. QED
  BY <1>2, <1>3

\* A part that begins inside what the tables cover ends inside, and all its pages
\* have the same indices.
LEMMA PartInside ==
  ASSUME vtcr \in Ranges, NEW l \in vtcr.level .. 3, NEW a \in Nat, a < Width, a % Span(l) = 0
  PROVE  /\ a + Span(l) <= Width /\ (a + Span(l)) % Span(l) = 0
         /\ \A j \in vtcr.level .. l : Index((a + Span(l)) - 1, j) = Index(a, j)
<1> DEFINE s == Span(l)
           q == a \div s
           b == (a + s) - 1
<1>a. vtcr.level \in {0, 1}
  BY Spans
<1>b. l \in 0 .. 3
  BY <1>a
<1>1. l \in 0 .. 3 /\ s \in Nat \ {0} /\ Width \in Nat /\ (a % s) = 0
  BY <1>b, Spans
<1>2. PICK w \in Nat : Width = w * s
  BY Covered
<1> HIDE DEF s
<1>3. q \in Nat /\ a = q * s
  <2>1. q \in Nat /\ (a % s) \in 0 .. s - 1 /\ a = q * s + (a % s)
    BY <1>1, Division
  <2>2. q * s \in Nat
    BY <1>1, <2>1
  <2>3. QED
    BY <1>1, <2>1, <2>2
<1>4. b \in Nat /\ b \div s = a \div s
  <2>1. b \in Nat /\ a <= b /\ b < a + s
    BY <1>1
  <2> HIDE DEF b
  <2>2. QED
    BY <1>1, <2>1, WholePart
<1> HIDE DEF q
<1>5. q + 1 <= w
  <2> SUFFICES ASSUME q >= w PROVE FALSE
    BY <1>2, <1>3
  <2>1. q * s >= w * s
    BY <1>1, <1>2, <1>3
  <2>2. QED
    BY <1>1, <1>2, <1>3, <2>1
<1>6. (q + 1) * s <= w * s /\ (q + 1) * s = a + s
  BY <1>1, <1>2, <1>3, <1>5
<1>7. a + s <= Width
  BY <1>2, <1>6
<1>8. (a + s) % s = 0
  BY <1>1, <1>3, <1>6, Multiple
<1>9. b < Width
  BY <1>1, <1>7
<1> HIDE DEF b
<1>10. b \div Span(l) = a \div Span(l)
  BY <1>4 DEF s
<1>11. \A j \in vtcr.level .. l : Index(b, j) = Index(a, j)
  BY <1>4, <1>9, <1>10, SamePart
<1>12. QED
  BY <1>7, <1>8, <1>11 DEF b, s

\* At the end of a table, the part of the table above ends too; elsewhere the next
\* descriptor follows in the same table.
LEMMA NextIndex ==
  ASSUME vtcr \in Ranges, NEW l \in vtcr.level .. 3, NEW a \in Nat \ {0}, a <= Width, a % Span(l) = 0
  PROVE  IF Index(a - 1, l) = Count(l) - 1
         THEN IF l = vtcr.level THEN a = Width ELSE a % Span(l - 1) = 0
         ELSE /\ a < Width /\ Index(a, l) = Index(a - 1, l) + 1
              /\ \A j \in vtcr.level .. l - 1 : Index(a, j) = Index(a - 1, j)
<1> DEFINE lo == vtcr.level
           s == Span(l)
           c == Count(l)
           x == a \div s
           i == (x - 1) % c
           y == (x - 1) \div c
<1>a. lo \in {0, 1}
  BY Spans
<1>b. l \in 0 .. 3
  BY <1>a
<1>1. /\ lo \in {0, 1} /\ l \in 0 .. 3 /\ s \in Nat \ {0} /\ c \in Nat \ {0} /\ Width \in Nat
      /\ Fan \in Nat \ {0} /\ (a % s) = 0
  BY <1>a, <1>b, Spans
<1> HIDE DEF s, c
<1>2. x \in Nat /\ a = x * s
  <2>1. x \in Nat /\ (a % s) \in 0 .. s - 1 /\ a = x * s + (a % s)
    BY <1>1, Division
  <2>2. x * s \in Nat
    BY <1>1, <2>1
  <2>3. QED
    BY <1>1, <2>1, <2>2
<1>3. (a - 1) \div s = x - 1
  BY <1>1, NextPart
<1>4. x # 0
  BY <1>1, <1>2
<1>5. Index(a - 1, l) = i /\ Index(a, l) = x % c
  BY <1>3 DEF Index, s, c
<1> HIDE DEF x
<1>6. y \in Nat /\ i \in 0 .. c - 1 /\ x - 1 = y * c + i
  <2> DEFINE z == x - 1
  <2>1. z \in Nat
    BY <1>2, <1>4
  <2> HIDE DEF z
  <2>2. z \div c \in Nat /\ (z % c) \in 0 .. c - 1 /\ z = (z \div c) * c + (z % c)
    BY <1>1, <2>1, Division
  <2>3. QED
    BY <2>2 DEF z
<1> HIDE DEF i, y
<1>7. CASE i = c - 1
  <2>1. x = (y + 1) * c
    <3>1. y * c \in Nat /\ (y + 1) * c = y * c + c
      BY <1>1, <1>6
    <3> DEFINE m == y * c
    <3>2. m \in Nat /\ (y + 1) * c = m + c /\ x - 1 = m + i
      BY <1>6, <3>1
    <3> HIDE DEF m
    <3>3. QED
      BY <1>1, <1>2, <1>6, <1>7, <3>2
  <2>2. CASE l = lo
    <3>1. Width = c * s
      BY <2>2 DEF Width, s, c
    <3>2. ~(y >= 1)
      <4> SUFFICES ASSUME y >= 1 PROVE FALSE
        OBVIOUS
      <4>1. (y + 1) * c >= 2 * c
        BY <1>1, <1>6
      <4>2. x > c
        BY <1>1, <1>2, <2>1, <4>1
      <4>3. x * s >= (c + 1) * s
        BY <1>1, <1>2, <4>2
      <4>4. (c + 1) * s = c * s + s /\ c * s \in Nat
        BY <1>1
      <4>5. QED
        BY <1>1, <1>2, <3>1, <4>3, <4>4
    <3>3. y = 0
      BY <1>6, <3>2
    <3>4. x = c
      BY <1>1, <2>1, <3>3
    <3>5. QED
      BY <1>2, <1>5, <1>7, <2>2, <3>1, <3>4 DEF c
  <2>3. CASE l # lo
    <3>1. l \in 1 .. 3 /\ c = Fan
      BY <1>1, <2>3, Spans DEF c
    <3>2. Span(l - 1) = Fan * s /\ Span(l - 1) \in Nat \ {0}
      BY <1>1, <3>1, Spans DEF s
    <3>3. a = (y + 1) * Span(l - 1)
      BY <1>1, <1>2, <1>6, <2>1, <3>1, <3>2
    <3>4. a % Span(l - 1) = 0
      BY <1>6, <3>2, <3>3, Multiple
    <3>5. QED
      BY <1>5, <1>7, <2>3, <3>4 DEF c
  <2>4. QED
    BY <2>2, <2>3
<1>8. CASE i # c - 1
  <2>1. x = y * c + (i + 1) /\ i + 1 \in 0 .. c - 1
    BY <1>1, <1>2, <1>6, <1>8
  <2>2. x % c = i + 1
    BY <1>1, <1>2, <1>6, <2>1, Quotient
  <2>3. Index(a, l) = i + 1
    BY <1>5, <2>2
  <2>4. a < Width
    <3>1. a = Width => Index(a, l) = 0
      BY LastIndex
    <3>2. QED
      BY <1>1, <1>6, <2>3, <3>1
  <2>5. ASSUME NEW j \in lo .. l - 1 PROVE Index(a, j) = Index(a - 1, j)
    <3>1. l # lo /\ l \in 1 .. 3 /\ l - 1 \in lo .. 3
      BY <1>1
    <3>2. c = Fan
      BY <1>1, <3>1, Spans DEF c
    <3>3. (x - 1) \div Fan = x \div Fan
      <4>1. x \in Nat \ {0} /\ (x % Fan) # 0
        BY <1>2, <1>4, <1>6, <2>2, <3>2
      <4>2. QED
        BY <1>1, <4>1, NextPart
    <3>4. a \div Span(l - 1) = x \div Fan
      BY <3>1, UpPart DEF x, s
    <3>5. (a - 1) \div Span(l - 1) = (x - 1) \div Fan
      <4>1. a - 1 \in Nat
        OBVIOUS
      <4>2. (a - 1) \div Span(l - 1) = ((a - 1) \div Span(l)) \div Fan
        BY <3>1, <4>1, UpPart
      <4>3. QED
        BY <1>3, <4>2 DEF s
    <3> DEFINE p == a - 1
    <3>6. p \in Nat /\ p < Width /\ a < Width
      BY <1>1, <2>4
    <3>7. p \div Span(l - 1) = a \div Span(l - 1)
      BY <3>3, <3>4, <3>5
    <3> HIDE DEF p
    <3>8. Index(p, j) = Index(a, j)
      BY <3>1, <3>6, <3>7, SamePart
    <3>9. QED
      BY <3>8 DEF p
  <2>6. QED
    BY <1>5, <1>8, <2>3, <2>4, <2>5 DEF c
<1>9. QED
  BY <1>7, <1>8

-----------------------------------------------------------------------------
(* Walks *)

\* The table in which the walk for a page is at a level.
TableAt(T, p, l) == IF l = vtcr.level THEN 0 ELSE NextTable(Descriptors(T, p)[l - 1])

\* The recursion of the walk ends behind four levels.
LEMMA Walk ==
  ASSUME vtcr \in Ranges, NEW T, NEW p
  PROVE  Descriptors(T, p) = [l \in vtcr.level .. 3 |-> Entry(T, TableAt(T, p, l), l, p)]
<1> DEFINE lo == vtcr.level
           a == Entry(T, 0, lo, p)
           b == Entry(T, NextTable(a), lo + 1, p)
           c == Entry(T, NextTable(b), lo + 2, p)
           d == Entry(T, NextTable(c), lo + 3, p)
           w == [l \in lo .. 3 |-> IF l = lo THEN a ELSE IF l = lo + 1 THEN b
                                   ELSE IF l = lo + 2 THEN c ELSE d]
<1>1. lo \in {0, 1}
  BY Spans
<1> HIDE DEF lo, a, b, c, d
<1>2. ASSUME NEW l \in lo .. 3
      PROVE  w[l] = Entry(T, IF l = lo THEN 0 ELSE NextTable(w[l - 1]), l, p)
  BY <1>1 DEF a, b, c, d
<1>3. w = [l \in lo .. 3 |-> Entry(T, IF l = lo THEN 0 ELSE NextTable(w[l - 1]), l, p)]
  BY <1>2
<1> HIDE DEF w
<1>4. Descriptors(T, p) =
        CHOOSE at : at = [l \in lo .. 3 |-> Entry(T, IF l = lo THEN 0 ELSE NextTable(at[l - 1]), l, p)]
  BY DEF Descriptors, lo
<1>5. Descriptors(T, p) =
        [l \in lo .. 3 |-> Entry(T, IF l = lo THEN 0 ELSE NextTable(Descriptors(T, p)[l - 1]), l, p)]
  BY <1>3, <1>4, Zenon
<1>6. \A l : (IF l = lo THEN 0 ELSE NextTable(Descriptors(T, p)[l - 1])) = TableAt(T, p, l)
  BY DEF TableAt, lo
<1>7. QED
  BY <1>5, <1>6 DEF lo

LEMMA WalkAt ==
  ASSUME vtcr \in Ranges, NEW T, NEW p, NEW l \in vtcr.level .. 3
  PROVE  Descriptors(T, p)[l] = Entry(T, TableAt(T, p, l), l, p)
<1>1. vtcr.level \in {0, 1}
  BY Spans
<1>2. QED
  BY <1>1, Walk

\* A walk that finds no table finds nothing more.
LEMMA Over ==
  ASSUME vtcr \in Ranges, NEW T, NEW p, NEW l \in vtcr.level .. 3,
         Descriptors(T, p)[l].kind # "table"
  PROVE  \A j \in vtcr.level .. 3 : j > l => Descriptors(T, p)[j] = Empty
<1> DEFINE lo == vtcr.level
           P == {j \in lo .. 3 : j > l => Descriptors(T, p)[j] = Empty}
<1>1. lo \in {0, 1}
  BY Spans
<1>2. lo \in P
  BY <1>1
<1>3. ASSUME NEW j \in lo + 1 .. 3, j - 1 \in P PROVE j \in P
  <2> SUFFICES ASSUME j > l PROVE Descriptors(T, p)[j] = Empty
    BY <1>1
  <2>1. Descriptors(T, p)[j - 1].kind # "table"
    <3>1. CASE j - 1 = l
      BY <3>1
    <3>2. CASE j - 1 > l
      BY <1>3, <3>2 DEF Empty
    <3>3. QED
      BY <1>1, <3>1, <3>2
  <2>2. TableAt(T, p, j) = -1
    BY <1>1, <2>1 DEF TableAt, NextTable
  <2>3. Descriptors(T, p)[j] = Entry(T, TableAt(T, p, j), j, p)
    BY <1>1, Walk
  <2>4. QED
    BY <2>2, <2>3 DEF Entry
<1> HIDE DEF P
<1>4. lo .. 3 \subseteq P
  BY <1>1, <1>2, <1>3, EachLevel
<1>5. QED
  BY <1>4 DEF P

\* What a walk that ends at a page or block descriptor gives.
LEMMA Leaf ==
  ASSUME vtcr \in Ranges, NEW T, NEW p, NEW l \in vtcr.level .. 3,
         <<Descriptors(T, p)[l].kind, l>> \in {<<"block", 1>>, <<"block", 2>>, <<"page", 3>>}
  PROVE  Translate(T, p) = [addr |-> Descriptors(T, p)[l].addr + (p % Span(l)),
                            perm |-> Descriptors(T, p)[l].perm]
<1> DEFINE d == Descriptors(T, p)
           lo == vtcr.level
<1>1. DOMAIN d = lo .. 3 /\ lo \in {0, 1}
  BY Walk, Spans
<1>2. l \in LeafLevels(T, p)
  BY <1>1 DEF LeafLevels
<1>3. ASSUME NEW j \in LeafLevels(T, p) PROVE j = l
  <2>1. j \in lo .. 3 /\ <<d[j].kind, j>> \in {<<"block", 1>>, <<"block", 2>>, <<"page", 3>>}
    BY <1>1, <1>3 DEF LeafLevels
  <2>2. d[j].kind \in {"block", "page"} /\ d[l].kind \in {"block", "page"}
    BY <2>1
  <2>3. ~(j > l)
    BY <2>1, <2>2, Over DEF Empty
  <2>4. ~(l > j)
    BY <2>1, <2>2, Over DEF Empty
  <2>5. QED
    BY <1>1, <2>1, <2>3, <2>4
<1>4. LeafLevels(T, p) = {l}
  BY <1>2, <1>3
<1>5. (CHOOSE x \in {l} : TRUE) = l
  OBVIOUS
<1>6. QED
  BY <1>4, <1>5 DEF Translate

LEMMA NoLeaf ==
  ASSUME vtcr \in Ranges, NEW T, NEW p,
         \A l \in vtcr.level .. 3 :
           <<Descriptors(T, p)[l].kind, l>> \notin {<<"block", 1>>, <<"block", 2>>, <<"page", 3>>}
  PROVE  Translate(T, p) = Fault
<1>1. DOMAIN Descriptors(T, p) = vtcr.level .. 3
  BY Walk
<1>2. LeafLevels(T, p) = {}
  BY <1>1 DEF LeafLevels
<1>3. QED
  BY <1>2 DEF Translate

LEMMA SameWalk ==
  ASSUME vtcr \in Ranges, NEW T, NEW U, NEW p,
         \A l \in vtcr.level .. 3 : Descriptors(T, p)[l] = Descriptors(U, p)[l]
  PROVE  Translate(T, p) = Translate(U, p)
<1>1. Descriptors(T, p) = [l \in vtcr.level .. 3 |-> Descriptors(T, p)[l]]
  BY Walk
<1>2. Descriptors(U, p) = [l \in vtcr.level .. 3 |-> Descriptors(U, p)[l]]
  BY Walk
<1>3. Descriptors(T, p) = Descriptors(U, p)
  BY <1>1, <1>2
<1>4. QED
  BY <1>3 DEF Translate, LeafLevels

\* There are tables once they are set up.
Ready == pc \notin {"boot", "panic"}

LEMMA InTable ==
  ASSUME TreeInv, NEW p \in Nat, NEW l \in vtcr.level .. 3
  PROVE  Index(p, l) \in Nat /\ Index(p, l) \in 0 .. Count(l) - 1
<1>1. vtcr \in Ranges
  BY DEF TreeInv
<1>2. vtcr.level \in {0, 1}
  BY <1>1, Spans
<1>3. Span(l) \in Nat \ {0} /\ Count(l) \in Nat \ {0}
  BY <1>1, <1>2, Spans
<1> DEFINE x == p \div Span(l)
           c == Count(l)
<1>4. x \in Nat /\ c \in Nat \ {0} /\ Index(p, l) = x % c
  BY <1>3, Division DEF Index
<1> HIDE DEF x, c
<1>5. (x % c) \in 0 .. c - 1
  BY <1>4, Division
<1>6. QED
  BY <1>4, <1>5 DEF c

\* A walk goes down one level in each step.
LEMMA WalkTable ==
  ASSUME TreeInv, Ready, NEW lev, Levels(lev), NEW p \in Nat
  PROVE  \A l \in vtcr.level .. 3 :
           \/ TableAt(tables, p, l) = -1
           \/ /\ TableAt(tables, p, l) \in DOMAIN tables
              /\ TableAt(tables, p, l) \in Nat
              /\ lev[TableAt(tables, p, l)] = l
              /\ Index(p, l) \in DOMAIN tables[TableAt(tables, p, l)]
<1> DEFINE lo == vtcr.level
           t(l) == TableAt(tables, p, l)
           P == {l \in lo .. 3 :
                   \/ t(l) = -1
                   \/ t(l) \in DOMAIN tables /\ t(l) \in Nat /\ lev[t(l)] = l
                      /\ Index(p, l) \in DOMAIN tables[t(l)]}
<1>1. vtcr \in Ranges /\ lo \in {0, 1}
  BY Spans DEF TreeInv
<1>2. PICK n \in Nat \ {0} : DOMAIN tables = 0 .. n - 1
  BY DEF TreeInv, Ready
<1>3. \A l \in lo .. 3 : Index(p, l) \in Nat /\ Index(p, l) \in 0 .. Count(l) - 1
  BY InTable
<1>4. lo \in P
  <2>1. t(lo) = 0 /\ 0 \in DOMAIN tables
    BY <1>2 DEF TableAt
  <2>2. DOMAIN tables[0] = 0 .. Count(lo) - 1
    BY <2>1 DEF TreeInv, Size
  <2>3. lev[0] = lo
    BY <2>1 DEF Levels
  <2>4. lo \in lo .. 3 /\ Index(p, lo) \in DOMAIN tables[0]
    BY <1>1, <1>3, <2>2
  <2>5. QED
    BY <2>1, <2>3, <2>4
<1>5. ASSUME NEW l \in lo + 1 .. 3, l - 1 \in P PROVE l \in P
  <2> DEFINE u == t(l - 1)
             i == Index(p, l - 1)
             d == Descriptors(tables, p)[l - 1]
  <2>1. l - 1 \in lo .. 3 /\ l # lo /\ l \in 0 .. 3 /\ l \in lo .. 3
    BY <1>1
  <2>2. t(l) = NextTable(d)
    BY <2>1 DEF TableAt
  <2>3. d = Entry(tables, u, l - 1, p)
    BY <1>1, <2>1, Walk
  <2> SUFFICES ASSUME t(l) # -1
               PROVE  t(l) \in DOMAIN tables /\ t(l) \in Nat /\ lev[t(l)] = l
                      /\ Index(p, l) \in DOMAIN tables[t(l)]
    BY <2>1
  <2>4. d.kind = "table" /\ t(l) = d.addr
    BY <2>2 DEF NextTable
  <2>5. u # -1
    BY <2>3, <2>4 DEF Entry, Empty
  <2>6. u \in DOMAIN tables /\ u \in Nat /\ lev[u] = l - 1 /\ i \in DOMAIN tables[u]
    BY <1>5, <2>5
  <2>7. d = tables[u][i]
    BY <2>3, <2>5 DEF Entry, Index
  <2>8. i \in Nat
    BY <1>3, <2>1
  <2> HIDE DEF u, i, d, t
  <2>9. Link(u, i)
    BY <2>4, <2>6, <2>7 DEF Link
  <2>10. t(l) \in DOMAIN tables \ {0} /\ lev[t(l)] = (l - 1) + 1
    BY <2>4, <2>6, <2>7, <2>8, <2>9 DEF TreeInv, Levels
  <2>11. DOMAIN tables[t(l)] = 0 .. Fan - 1
    BY <2>10 DEF TreeInv, Size
  <2>12. Count(l) = Fan
    BY <2>1, Spans DEF TreeInv
  <2>13. QED
    BY <1>2, <1>3, <2>1, <2>10, <2>11, <2>12
<1> HIDE DEF P
<1>6. lo .. 3 \subseteq P
  BY <1>1, <1>4, <1>5, EachLevel
<1>7. QED
  BY <1>6 DEF P

\* T has the descriptors of the tables, except one.
SameBut(T, t, i) ==
  \A u \in DOMAIN tables : \A j \in DOMAIN tables[u] : u # t \/ j # i => T[u][j] = tables[u][j]

\* One descriptor changes: only the walks that meet it do, and not above it.
LEMMA Change ==
  ASSUME TreeInv, Ready, NEW lev, Levels(lev), NEW p \in Nat,
         NEW T, NEW t \in DOMAIN tables, NEW i, SameBut(T, t, i)
  PROVE  /\ \A l \in vtcr.level .. 3 :
               l < lev[t] => Descriptors(T, p)[l] = Descriptors(tables, p)[l]
         /\ ~(TableAt(tables, p, lev[t]) = t /\ Index(p, lev[t]) = i) =>
               \A l \in vtcr.level .. 3 : Descriptors(T, p)[l] = Descriptors(tables, p)[l]
<1> DEFINE lo == vtcr.level
           d == Descriptors(tables, p)
           e == Descriptors(T, p)
<1>1. lo \in {0, 1} /\ vtcr \in Ranges
  BY Spans DEF TreeInv
<1>2. lev[t] \in 0 .. 3
  BY DEF Levels
<1>3. ASSUME NEW l \in lo .. 3, TableAt(T, p, l) = TableAt(tables, p, l),
             l # lev[t] \/ TableAt(tables, p, l) # t \/ Index(p, l) # i
      PROVE  e[l] = d[l]
  <2> DEFINE u == TableAt(tables, p, l)
  <2>1. e[l] = Entry(T, u, l, p) /\ d[l] = Entry(tables, u, l, p)
    BY <1>1, <1>3, Walk
  <2>2. \/ u = -1
        \/ u \in DOMAIN tables /\ lev[u] = l /\ Index(p, l) \in DOMAIN tables[u]
    BY <1>3, WalkTable
  <2>3. u = -1 \/ T[u][Index(p, l)] = tables[u][Index(p, l)]
    BY <1>3, <2>2 DEF SameBut
  <2>4. QED
    BY <2>1, <2>3 DEF Entry, Index
<1>4. TableAt(T, p, lo) = TableAt(tables, p, lo)
  BY DEF TableAt
<1>5. ASSUME NEW l \in lo + 1 .. 3, e[l - 1] = d[l - 1]
      PROVE  TableAt(T, p, l) = TableAt(tables, p, l)
  BY <1>5 DEF TableAt
<1>6. \A l \in lo .. 3 : l < lev[t] => e[l] = d[l]
  <2> DEFINE P == {l \in lo .. 3 : l < lev[t] => e[l] = d[l]}
  <2>1. lo \in P
    BY <1>1, <1>3, <1>4
  <2>2. ASSUME NEW l \in lo + 1 .. 3, l - 1 \in P PROVE l \in P
    <3>1. l \in lo .. 3
      BY <1>1
    <3>2. l < lev[t] => e[l - 1] = d[l - 1]
      BY <1>1, <1>2, <2>2
    <3>3. QED
      BY <1>3, <1>5, <3>1, <3>2
  <2> HIDE DEF P
  <2>3. lo .. 3 \subseteq P
    BY <1>1, <2>1, <2>2, EachLevel
  <2>4. QED
    BY <2>3 DEF P
<1>7. ASSUME ~(TableAt(tables, p, lev[t]) = t /\ Index(p, lev[t]) = i)
      PROVE  \A l \in lo .. 3 : e[l] = d[l]
  <2> DEFINE P == {l \in lo .. 3 : e[l] = d[l]}
  <2>1. lo \in P
    BY <1>1, <1>3, <1>4, <1>7
  <2>2. ASSUME NEW l \in lo + 1 .. 3, l - 1 \in P PROVE l \in P
    <3>1. l \in lo .. 3
      BY <1>1
    <3>2. TableAt(T, p, l) = TableAt(tables, p, l)
      BY <1>5, <2>2
    <3>3. QED
      BY <1>3, <1>7, <3>1, <3>2
  <2> HIDE DEF P
  <2>3. lo .. 3 \subseteq P
    BY <1>1, <2>1, <2>2, EachLevel
  <2>4. QED
    BY <2>3 DEF P
<1>8. QED
  BY <1>6, <1>7

-----------------------------------------------------------------------------
(* The stack *)

\* The frame of a level.
FrameOf(l) == stack[l - vtcr.level + 1]
HasFrame(l) == l \in vtcr.level .. 3 /\ l - vtcr.level + 1 <= Len(stack)

LEMMA Frames ==
  ASSUME TreeInv, StackInv, NEW l, HasFrame(l)
  PROVE  /\ vtcr \in Ranges /\ vtcr.level \in {0, 1} /\ l \in 0 .. 3
         /\ FrameOf(l).level = l /\ FrameOf(l).at = Index(Current, l)
         /\ FrameOf(l).table \in DOMAIN tables /\ FrameOf(l).table \in Nat
         /\ FrameOf(l).at \in DOMAIN tables[FrameOf(l).table] /\ FrameOf(l).at \in Nat
         /\ l = vtcr.level => FrameOf(l).table = 0
         /\ l # vtcr.level =>
              /\ HasFrame(l - 1)
              /\ tables[FrameOf(l - 1).table][FrameOf(l - 1).at].kind = "table"
              /\ tables[FrameOf(l - 1).table][FrameOf(l - 1).at].addr = FrameOf(l).table
<1>1. vtcr \in Ranges /\ vtcr.level \in {0, 1}
  BY Spans DEF TreeInv
<1> DEFINE lo == vtcr.level
           k == l - lo + 1
<1>2. l \in lo .. 3 /\ k \in 1 .. Len(stack) /\ Len(stack) \in Nat
  BY <1>1 DEF HasFrame, StackInv
<1>3. /\ stack[k].level = lo + k - 1
      /\ stack[k].at = Index(Current, stack[k].level)
      /\ stack[k].table \in DOMAIN tables /\ stack[k].at \in DOMAIN tables[stack[k].table]
      /\ k = 1 => stack[k].table = 0
  BY <1>2 DEF StackInv, FrameOK
<1>4. stack[k].table \in Nat /\ stack[k].at \in Nat
  <2>1. stack \in Seq(Frame0)
    BY DEF StackInv
  <2>2. stack[k] \in Frame0
    BY <1>2, <2>1
  <2>3. QED
    BY <2>2 DEF Frame0
<1>5. lo + k - 1 = l /\ (l = lo => k = 1)
  BY <1>1, <1>2
<1>6. ASSUME l # lo
      PROVE  /\ HasFrame(l - 1)
             /\ tables[FrameOf(l - 1).table][FrameOf(l - 1).at].kind = "table"
             /\ tables[FrameOf(l - 1).table][FrameOf(l - 1).at].addr = FrameOf(l).table
  <2>1. l - 1 \in lo .. 3 /\ (l - 1) - lo + 1 = k - 1 /\ k - 1 \in 1 .. Len(stack)
        /\ k - 1 < Len(stack) /\ (k - 1) + 1 = k
    BY <1>1, <1>2, <1>6
  <2>2. FrameOf(l - 1) = stack[k - 1] /\ FrameOf(l) = stack[k]
    BY <2>1 DEF FrameOf
  <2>3. /\ tables[stack[k - 1].table][stack[k - 1].at].kind = "table"
        /\ tables[stack[k - 1].table][stack[k - 1].at].addr = stack[k].table
    BY <2>1 DEF StackInv, FrameOK
  <2>4. HasFrame(l - 1)
    BY <2>1 DEF HasFrame
  <2>5. QED
    BY <2>2, <2>3, <2>4
<1>7. FrameOf(l) = stack[k] /\ l \in 0 .. 3
  BY <1>1, <1>2 DEF FrameOf
<1>8. QED
  BY <1>1, <1>3, <1>4, <1>5, <1>6, <1>7

\* A page with the indices of the frames above goes through the table of a frame.
LEMMA OnPath ==
  ASSUME TreeInv, StackInv, NEW p \in Nat
  PROVE  \A l \in vtcr.level .. 3 :
           HasFrame(l) /\ (\A j \in vtcr.level .. l - 1 : Index(p, j) = Index(Current, j))
             => TableAt(tables, p, l) = FrameOf(l).table
<1> DEFINE lo == vtcr.level
           P == {l \in lo .. 3 :
                   HasFrame(l) /\ (\A j \in lo .. l - 1 : Index(p, j) = Index(Current, j))
                     => TableAt(tables, p, l) = FrameOf(l).table}
<1>1. vtcr \in Ranges /\ lo \in {0, 1}
  BY Spans DEF TreeInv
<1>2. lo \in P
  <2>1. lo \in lo .. 3
    BY <1>1
  <2>2. QED
    BY <2>1, Frames DEF TableAt
<1>3. ASSUME NEW l \in lo + 1 .. 3, l - 1 \in P PROVE l \in P
  <2>1. l \in lo .. 3 /\ l - 1 \in lo .. 3 /\ l # lo
    BY <1>1
  <2> SUFFICES ASSUME HasFrame(l), \A j \in lo .. l - 1 : Index(p, j) = Index(Current, j)
               PROVE  TableAt(tables, p, l) = FrameOf(l).table
    BY <2>1
  <2> DEFINE f == FrameOf(l - 1)
  <2>2. /\ HasFrame(l - 1) /\ tables[f.table][f.at].kind = "table"
        /\ tables[f.table][f.at].addr = FrameOf(l).table
    BY <2>1, Frames
  <2>3. f.at = Index(Current, l - 1) /\ f.table \in Nat
    BY <2>2, Frames
  <2>4. \A j \in lo .. (l - 1) - 1 : j \in lo .. l - 1
    BY <1>1
  <2>5. TableAt(tables, p, l - 1) = f.table
    BY <1>3, <2>2, <2>4
  <2>6. Index(p, l - 1) = f.at
    BY <1>1, <2>1, <2>3
  <2>7. Descriptors(tables, p)[l - 1] = Entry(tables, f.table, l - 1, p)
    BY <1>1, <2>1, <2>5, Walk
  <2>8. Descriptors(tables, p)[l - 1] = tables[f.table][f.at]
    BY <2>3, <2>6, <2>7 DEF Entry, Index
  <2>9. QED
    BY <2>1, <2>2, <2>8 DEF TableAt, NextTable
<1> HIDE DEF P
<1>4. lo .. 3 \subseteq P
  BY <1>1, <1>2, <1>3, EachLevel
<1>5. QED
  BY <1>4 DEF P

\* No other page does: there is one way to each table.
LEMMA OffPath ==
  ASSUME TreeInv, StackInv, Ready, NEW lev, Levels(lev), NEW p \in Nat
  PROVE  \A l \in vtcr.level .. 3 :
           HasFrame(l) /\ TableAt(tables, p, l) = FrameOf(l).table
             => \A j \in vtcr.level .. l - 1 : Index(p, j) = Index(Current, j)
<1> DEFINE lo == vtcr.level
           P == {l \in lo .. 3 :
                   HasFrame(l) /\ TableAt(tables, p, l) = FrameOf(l).table
                     => \A j \in lo .. l - 1 : Index(p, j) = Index(Current, j)}
<1>1. vtcr \in Ranges /\ lo \in {0, 1}
  BY Spans DEF TreeInv
<1>2. lo \in P
  BY <1>1
<1>3. ASSUME NEW l \in lo + 1 .. 3, l - 1 \in P PROVE l \in P
  <2>1. l \in lo .. 3 /\ l - 1 \in lo .. 3 /\ l # lo
    BY <1>1
  <2> SUFFICES ASSUME HasFrame(l), TableAt(tables, p, l) = FrameOf(l).table,
                      NEW j \in lo .. l - 1
               PROVE  Index(p, j) = Index(Current, j)
    BY <2>1
  <2> DEFINE f == FrameOf(l - 1)
             u == TableAt(tables, p, l - 1)
             i == Index(p, l - 1)
             d == Descriptors(tables, p)[l - 1]
  <2>2. /\ HasFrame(l - 1) /\ tables[f.table][f.at].kind = "table"
        /\ tables[f.table][f.at].addr = FrameOf(l).table
        /\ FrameOf(l).table \in Nat
    BY <2>1, Frames
  <2>3. /\ f.at = Index(Current, l - 1) /\ f.at \in DOMAIN tables[f.table] /\ f.at \in Nat
        /\ f.table \in Nat /\ f.table \in DOMAIN tables
    BY <2>2, Frames
  <2>4. NextTable(d) = FrameOf(l).table
    BY <2>1 DEF TableAt
  <2>5. d.kind = "table" /\ d.addr = FrameOf(l).table
    BY <2>2, <2>4 DEF NextTable
  <2>6. d = Entry(tables, u, l - 1, p)
    BY <1>1, <2>1, Walk
  <2>7. u # -1
    BY <2>5, <2>6 DEF Entry, Empty
  <2>8. u \in DOMAIN tables /\ u \in Nat /\ lev[u] = l - 1 /\ i \in DOMAIN tables[u]
    BY <2>1, <2>7, WalkTable
  <2>9. d = tables[u][i]
    BY <2>6, <2>7 DEF Entry, Index
  <2>10. i \in Nat
    BY <2>1, InTable
  <2> HIDE DEF f, u, i, d
  <2>11. Link(u, i) /\ Link(f.table, f.at)
    BY <2>2, <2>3, <2>5, <2>8, <2>9 DEF Link
  <2>12. u = f.table /\ i = f.at
    BY <2>2, <2>3, <2>5, <2>8, <2>9, <2>10, <2>11 DEF TreeInv
  <2>13. CASE j = l - 1
    BY <2>3, <2>12, <2>13 DEF i
  <2>14. CASE j # l - 1
    <3>1. j \in lo .. (l - 1) - 1
      BY <1>1, <2>14
    <3>2. QED
      BY <1>3, <2>2, <2>12, <3>1 DEF u, f
  <2>15. QED
    BY <2>13, <2>14
<1> HIDE DEF P
<1>4. lo .. 3 \subseteq P
  BY <1>1, <1>2, <1>3, EachLevel
<1>5. QED
  BY <1>4 DEF P

LEMMA TopFrame ==
  ASSUME TreeInv, StackInv, stack # <<>>
  PROVE  /\ Len(stack) \in Nat \ {0} /\ Top.level = vtcr.level + Len(stack) - 1
         /\ HasFrame(Top.level) /\ Top = FrameOf(Top.level) /\ Top.level \in vtcr.level .. 3
         /\ Top.table \in DOMAIN tables /\ Top.table \in Nat
         /\ Top.at \in DOMAIN tables[Top.table] /\ Top.at \in Nat
         /\ Top.at = Index(Current, Top.level)
<1> DEFINE n == Len(stack)
           lo == vtcr.level
<1>1. vtcr \in Ranges /\ lo \in {0, 1}
  BY Spans DEF TreeInv
<1>2. n \in Nat \ {0} /\ n <= 4 - lo
  <2>1. stack \in Seq(Frame0) /\ n <= 4 - lo
    BY DEF StackInv
  <2>2. QED
    BY <2>1
<1>3. Top = stack[n] /\ stack[n].level = lo + n - 1
  BY <1>2 DEF Top, StackInv, FrameOK
<1>4. Top.level \in lo .. 3 /\ Top.level - lo + 1 = n
  BY <1>1, <1>2, <1>3
<1>5. HasFrame(Top.level) /\ Top = FrameOf(Top.level)
  BY <1>2, <1>3, <1>4 DEF HasFrame, FrameOf
<1>6. QED
  BY <1>2, <1>3, <1>4, <1>5, Frames

\* The walks that meet the descriptor at the top of the stack are those for the pages
\* that it stands for.
LEMMA Hit ==
  ASSUME TreeInv, StackInv, Ready, NEW lev, Levels(lev), stack # <<>>,
         Current \in Nat, Current < Width, NEW p \in Nat, p < Width
  PROVE  TableAt(tables, p, Top.level) = Top.table /\ Index(p, Top.level) = Top.at
           <=> p \div Span(Top.level) = Current \div Span(Top.level)
<1> DEFINE lo == vtcr.level
           l == Top.level
           Above == \A j \in lo .. l - 1 : Index(p, j) = Index(Current, j)
<1>1. vtcr \in Ranges /\ lo \in {0, 1}
  BY Spans DEF TreeInv
<1>2. l \in lo .. 3 /\ HasFrame(l) /\ Top = FrameOf(l) /\ Top.at = Index(Current, l)
  BY TopFrame
<1> HIDE DEF l
<1>3. TableAt(tables, p, l) = FrameOf(l).table <=> Above
  BY <1>2, OnPath, OffPath
<1>4. p \div Span(l) = Current \div Span(l) <=> \A j \in lo .. l : Index(p, j) = Index(Current, j)
  <2> DEFINE q == Current
  <2> HIDE DEF q
  <2>1. q \in Nat /\ q < Width
    BY DEF q
  <2>2. p \div Span(l) = q \div Span(l) <=> \A j \in lo .. l : Index(p, j) = Index(q, j)
    BY <1>1, <1>2, <2>1, SamePart
  <2>3. QED
    BY <2>2 DEF q
<1>5. (\A j \in lo .. l : Index(p, j) = Index(Current, j))
        <=> Above /\ Index(p, l) = Index(Current, l)
  <2>1. \A j \in lo .. l : j = l \/ j \in lo .. l - 1
    BY <1>1, <1>2
  <2>2. \A j \in lo .. l - 1 : j \in lo .. l
    BY <1>1, <1>2
  <2>3. l \in lo .. l
    BY <1>1, <1>2
  <2>4. QED
    BY <2>1, <2>2, <2>3
<1>6. QED
  BY <1>2, <1>3, <1>4, <1>5 DEF l

\* What a write of the descriptor at the top of the stack does to the walks.
LEMMA Write ==
  ASSUME TreeInv, StackInv, Ready, LevelInv, stack # <<>>,
         Current \in Nat, Current < Width, NEW p \in Nat, p < Width,
         NEW T, SameBut(T, Top.table, Top.at)
  PROVE  IF p \div Span(Top.level) = Current \div Span(Top.level)
         THEN /\ \A l \in vtcr.level .. Top.level - 1 : Descriptors(tables, p)[l].kind = "table"
              /\ \A l \in vtcr.level .. Top.level - 1 : Descriptors(T, p)[l].kind = "table"
              /\ Descriptors(tables, p)[Top.level] = tables[Top.table][Top.at]
              /\ Descriptors(T, p)[Top.level] = T[Top.table][Top.at]
         ELSE Translate(T, p) = Translate(tables, p)
<1>1. PICK lev : Levels(lev)
  BY DEF LevelInv
<1> DEFINE lo == vtcr.level
           l == Top.level
           d == Descriptors(tables, p)
           e == Descriptors(T, p)
<1>2. vtcr \in Ranges /\ lo \in {0, 1}
  BY Spans DEF TreeInv
<1>3. /\ Len(stack) \in Nat \ {0} /\ l \in lo .. 3
      /\ HasFrame(l) /\ Top = FrameOf(l) /\ Top.table \in DOMAIN tables /\ Top.table \in Nat
  BY TopFrame
<1>4. lev[Top.table] = l
  BY <1>1, <1>3 DEF Levels, Top
<1>5. /\ \A j \in lo .. 3 : j < l => e[j] = d[j]
      /\ ~(TableAt(tables, p, l) = Top.table /\ Index(p, l) = Top.at) =>
           \A j \in lo .. 3 : e[j] = d[j]
  <2> DEFINE t == Top.table
             i == Top.at
  <2>1. SameBut(T, t, i)
    OBVIOUS
  <2>2. t \in DOMAIN tables
    BY <1>3
  <2> HIDE DEF t, i
  <2>3. /\ \A j \in vtcr.level .. 3 :
             j < lev[t] => Descriptors(T, p)[j] = Descriptors(tables, p)[j]
        /\ ~(TableAt(tables, p, lev[t]) = t /\ Index(p, lev[t]) = i) =>
             \A j \in vtcr.level .. 3 : Descriptors(T, p)[j] = Descriptors(tables, p)[j]
    BY <1>1, <2>1, <2>2, Change
  <2>4. QED
    BY <1>4, <2>3 DEF t, i
<1>6. TableAt(tables, p, l) = Top.table /\ Index(p, l) = Top.at
        <=> p \div Span(l) = Current \div Span(l)
  BY <1>1, Hit
<1>7. CASE p \div Span(l) = Current \div Span(l)
  <2>1. TableAt(tables, p, l) = Top.table /\ Index(p, l) = Top.at
    BY <1>6, <1>7
  <2>2. TableAt(T, p, l) = TableAt(tables, p, l)
    <3>1. l = lo \/ (l - 1 \in lo .. 3 /\ l - 1 < l)
      BY <1>2, <1>3
    <3>2. QED
      BY <1>5, <3>1 DEF TableAt
  <2>3. d[l] = Entry(tables, Top.table, l, p) /\ e[l] = Entry(T, Top.table, l, p)
    BY <1>2, <1>3, <2>1, <2>2, Walk
  <2>4. d[l] = tables[Top.table][Top.at] /\ e[l] = T[Top.table][Top.at]
    BY <1>3, <2>1, <2>3 DEF Entry, Index
  <2>5. ASSUME NEW j \in lo .. l - 1 PROVE d[j].kind = "table" /\ e[j].kind = "table"
    <3>1. j \in lo .. 3 /\ j < l
      BY <1>2, <1>3
    <3>2. d[j].kind # "table" => d[l] = Empty /\ TableAt(tables, p, l) = -1
      <4> SUFFICES ASSUME d[j].kind # "table" PROVE d[l] = Empty /\ TableAt(tables, p, l) = -1
        OBVIOUS
      <4>1. \A x \in lo .. 3 : x > j => d[x] = Empty
        BY <1>2, <3>1, Over
      <4>2. d[l] = Empty
        BY <1>3, <3>1, <4>1
      <4>3. l - 1 = j \/ (l - 1 \in lo .. 3 /\ l - 1 > j)
        BY <1>2, <1>3, <3>1
      <4>4. d[l - 1].kind # "table" /\ l # lo
        BY <1>2, <1>3, <3>1, <4>1, <4>3 DEF Empty
      <4>5. QED
        BY <4>2, <4>4 DEF TableAt, NextTable
    <3>3. d[j].kind = "table"
      BY <1>3, <2>1, <3>2
    <3>4. QED
      BY <1>5, <3>1, <3>3
  <2>6. QED
    BY <1>7, <2>4, <2>5
<1>8. CASE ~(p \div Span(l) = Current \div Span(l))
  <2>1. \A j \in lo .. 3 : e[j] = d[j]
    BY <1>5, <1>6, <1>8
  <2>2. Translate(T, p) = Translate(tables, p)
    BY <1>2, <2>1, SameWalk
  <2>3. QED
    BY <1>8, <2>2
<1>9. QED
  BY <1>7, <1>8

LEMMA Walking ==
  ASSUME TreeInv, StackInv, NumInv, pc = "walk"
  PROVE  /\ vtcr \in Ranges /\ Ready /\ stack # <<>>
         /\ Current = ipa /\ Current \in Nat /\ Current < Width
         /\ Top.level \in vtcr.level .. 3 /\ Top.level \in 0 .. 3 /\ Span(Top.level) \in Nat \ {0}
         /\ req \in Requests /\ req.pa \in Nat /\ req.ipa \in Nat /\ req.size \in Nat
<1>1. vtcr \in Ranges /\ vtcr.level \in {0, 1}
  BY Spans DEF TreeInv
<1>2. Ready /\ stack # <<>> /\ Current = ipa /\ Current \in Nat /\ Current < Width
  BY DEF Ready, StackInv, Current, NumInv
<1>3. Top.level \in vtcr.level .. 3
  BY <1>2, TopFrame
<1>4. Top.level \in 0 .. 3
  BY <1>1, <1>3
<1>5. req \in Requests
  BY DEF NumInv
<1>6. QED
  BY <1>1, <1>2, <1>3, <1>4, <1>5, Spans, PagingAssumption

LEMMA Spaces == ASSUME TreeInv, NEW p \in Space PROVE p \in Nat /\ p < Width
<1>1. vtcr \in Ranges
  BY DEF TreeInv
<1>2. 2^vtcr.bits \in Nat /\ 2^vtcr.bits <= Width /\ Width \in Nat
  BY <1>1, Spans
<1>3. QED
  BY <1>2 DEF Space

\* The kinds of descriptors that end a walk.
Leaves == {<<"block", 1>>, <<"block", 2>>, <<"page", 3>>}

\* A page or block descriptor maps the pages that it stands for, and no others.
LEMMA LeafEffect ==
  ASSUME TreeInv, StackInv, LevelInv, NumInv, pc = "walk",
         NEW kind, <<kind, Top.level>> \in Leaves,
         ipa % Span(Top.level) = 0, remaining >= Span(Top.level),
         NEW T, T = [tables EXCEPT ![Top.table][Top.at] =
                       [kind |-> kind, addr |-> pa, perm |-> req.perm]],
         NEW p \in Space
  PROVE  IF ipa <= p /\ p < ipa + Span(Top.level)
         THEN InRange(p) /\ Translate(T, p) = Wanted(p)
         ELSE Translate(T, p) = Translate(tables, p)
<1> DEFINE l == Top.level
           s == Span(l)
           leaf == [kind |-> kind, addr |-> pa, perm |-> req.perm]
<1>1. /\ vtcr \in Ranges /\ Ready /\ stack # <<>>
      /\ Current = ipa /\ Current \in Nat /\ Current < Width
      /\ l \in vtcr.level .. 3 /\ s \in Nat \ {0}
      /\ req.pa \in Nat /\ req.ipa \in Nat /\ req.size \in Nat
  BY Walking
<1>2. p \in Nat /\ p < Width
  BY Spaces
<1>3. /\ Top.table \in DOMAIN tables /\ Top.at \in DOMAIN tables[Top.table]
  BY <1>1, TopFrame
<1>4. SameBut(T, Top.table, Top.at)
  BY <1>3 DEF SameBut
<1>5. T[Top.table][Top.at] = leaf
  BY <1>3
<1>6. /\ p \div s = ipa \div s <=> ipa <= p /\ p < ipa + s
      /\ ipa <= p /\ p < ipa + s => (p % s) = p - ipa
  BY <1>1, <1>2, WholePart
<1>7. IF p \div s = ipa \div s THEN Descriptors(T, p)[l] = T[Top.table][Top.at]
      ELSE Translate(T, p) = Translate(tables, p)
  BY <1>1, <1>2, <1>4, Write
<1>8. CASE ipa <= p /\ p < ipa + s
  <2>1. Descriptors(T, p)[l] = leaf /\ leaf.kind = kind /\ leaf.addr = pa /\ leaf.perm = req.perm
    BY <1>5, <1>6, <1>7, <1>8
  <2>2. Translate(T, p) = [addr |-> pa + (p % s), perm |-> req.perm]
    BY <1>1, <2>1, Leaf DEF Leaves
  <2>3. /\ pa = req.pa + (ipa - req.ipa) /\ remaining = req.size - (ipa - req.ipa)
        /\ ipa \in Nat /\ req.ipa <= ipa
    BY DEF NumInv
  <2>4. pa + (p % s) = req.pa + (p - req.ipa)
    BY <1>1, <1>2, <1>6, <1>8, <2>3
  <2>5. InRange(p)
    BY <1>1, <1>2, <1>8, <2>3, SMTT(30) DEF InRange
  <2>6. QED
    BY <1>8, <2>2, <2>4, <2>5 DEF Wanted
<1>9. CASE ~(ipa <= p /\ p < ipa + s)
  BY <1>6, <1>7, <1>9
<1>10. QED
  BY <1>8, <1>9

\* The tables with an empty one more, table n, under descriptor i of table t.
Hung(t, i, n) ==
  [u \in DOMAIN tables \cup {n} |->
     IF u = n THEN [j \in 0 .. Fan - 1 |-> Empty]
     ELSE IF u # t THEN tables[u]
     ELSE [tables[u] EXCEPT ![i] = [kind |-> "table", addr |-> n, perm |-> 0]]]

\* A new table takes the place of a block at most.
LEMMA TableEffect ==
  ASSUME TreeInv, StackInv, LevelInv, NumInv, pc = "walk", Top.level < 3, Descriptor.kind # "table",
         NEW t \in Nat, t \notin DOMAIN tables, NEW T, T = Hung(Top.table, Top.at, t),
         NEW p \in Space
  PROVE  IF p \div Span(Top.level) = ipa \div Span(Top.level)
         THEN /\ Translate(T, p) = Fault
              /\ Translate(tables, p) = Fault \/ Top.level \in LeafLevels(tables, p)
         ELSE Translate(T, p) = Translate(tables, p)
<1> DEFINE l == Top.level
           lo == vtcr.level
           s == Span(l)
           link == [kind |-> "table", addr |-> t, perm |-> 0]
           d == Descriptors(tables, p)
           e == Descriptors(T, p)
<1>1. /\ vtcr \in Ranges /\ Ready /\ stack # <<>>
      /\ Current = ipa /\ Current \in Nat /\ Current < Width
      /\ l \in lo .. 3 /\ l \in 0 .. 3 /\ s \in Nat \ {0}
  BY Walking
<1>2. p \in Nat /\ p < Width /\ lo \in {0, 1}
  BY <1>1, Spaces, Spans
<1>3. /\ Top.table \in DOMAIN tables /\ Top.at \in DOMAIN tables[Top.table]
  BY <1>1, TopFrame
<1>4. SameBut(T, Top.table, Top.at)
  BY <1>3 DEF SameBut, Hung
<1>5. T[Top.table][Top.at] = link
  BY <1>3 DEF Hung
<1>6. IF p \div s = ipa \div s
      THEN /\ \A j \in lo .. l - 1 : d[j].kind = "table"
           /\ \A j \in lo .. l - 1 : e[j].kind = "table"
           /\ d[l] = tables[Top.table][Top.at]
           /\ e[l] = T[Top.table][Top.at]
      ELSE Translate(T, p) = Translate(tables, p)
  BY <1>1, <1>2, <1>4, Write
<1>7. CASE p \div s = ipa \div s
  <2>1. /\ \A j \in lo .. l - 1 : d[j].kind = "table" /\ e[j].kind = "table"
        /\ d[l] = Descriptor /\ e[l] = link
    BY <1>5, <1>6, <1>7 DEF Descriptor
  <2>2. l + 1 \in lo .. 3 /\ l + 1 \in 0 .. 3 /\ l + 1 # lo /\ (l + 1) - 1 = l
    BY <1>1, <1>2
  <2>3. TableAt(T, p, l + 1) = t
    BY <2>1, <2>2 DEF TableAt, NextTable
  <2>4. e[l + 1] = Empty
    <3>1. e[l + 1] = Entry(T, t, l + 1, p)
      BY <1>1, <2>2, <2>3, WalkAt
    <3>2. Index(p, l + 1) \in 0 .. Fan - 1
      BY <1>1, <1>2, <2>2, InTable, Spans
    <3>3. T[t] = [i \in 0 .. Fan - 1 |-> Empty]
      BY DEF Hung
    <3>4. QED
      BY <3>1, <3>2, <3>3 DEF Entry, Index
  <2>5. \A j \in lo .. 3 : j > l + 1 => e[j] = Empty
    BY <1>1, <2>2, <2>4, Over DEF Empty
  <2>6. \A j \in lo .. 3 : j \in lo .. l - 1 \/ j = l \/ j = l + 1 \/ j > l + 1
    BY <1>1, <1>2
  <2>7. ASSUME NEW j \in lo .. 3 PROVE e[j].kind \in {"table", "none"}
    <3> HIDE DEF e, d, l, lo
    <3>1. CASE j \in lo .. l - 1
      BY <2>1, <3>1
    <3>2. CASE j = l
      BY <2>1, <3>2
    <3>3. CASE j = l + 1 \/ j > l + 1
      BY <2>4, <2>5, <3>3 DEF Empty
    <3>4. QED
      BY <2>6, <3>1, <3>2, <3>3
  <2>8. Translate(T, p) = Fault
    BY <1>1, <2>7, NoLeaf
  <2>9. d[l].kind # "table"
    BY <2>1
  <2>10. \A j \in lo .. 3 : j > l => d[j] = Empty
    BY <1>1, <2>9, Over
  <2>11. CASE <<d[l].kind, l>> \in Leaves
    <3>1. DOMAIN d = lo .. 3
      BY <1>1, Walk
    <3>2. l \in LeafLevels(tables, p)
      BY <1>1, <2>11, <3>1 DEF LeafLevels, Leaves
    <3>3. QED
      BY <1>7, <2>8, <3>2
  <2>12. CASE <<d[l].kind, l>> \notin Leaves
    <3>1. ASSUME NEW j \in lo .. 3 PROVE <<d[j].kind, j>> \notin Leaves
      <4> HIDE DEF d, l, lo
      <4>1. CASE j \in lo .. l - 1
        BY <2>1, <4>1 DEF Leaves
      <4>2. CASE j = l
        BY <2>12, <4>2
      <4>3. CASE j = l + 1 \/ j > l + 1
        <5>1. j > l
          BY <1>1, <1>2, <4>3
        <5>2. QED
          BY <2>10, <5>1 DEF Empty, Leaves
      <4>4. QED
        BY <2>6, <4>1, <4>2, <4>3
    <3>2. Translate(tables, p) = Fault
      BY <1>1, <3>1, NoLeaf DEF Leaves
    <3>3. QED
      BY <1>7, <2>8, <3>2
  <2>13. QED
    BY <2>11, <2>12
<1>8. CASE p \div s # ipa \div s
  BY <1>6, <1>8
<1>9. QED
  BY <1>7, <1>8

-----------------------------------------------------------------------------
(* The tree *)

LEMMA InitInv == Init => Inv
<1> SUFFICES ASSUME Init PROVE Inv
  OBVIOUS
<1>1. DOMAIN tables = {}
  BY DEF Init
<1>2. TreeInv
  BY <1>1 DEF Init, TreeInv, Link
<1>3. StackInv
  <2>1. stack = <<>> /\ Len(stack) = 0 /\ stack \in Seq(Frame0) /\ pc = "boot"
    BY DEF Init
  <2>2. vtcr.level \in {0, 1}
    BY <1>2, Spans DEF TreeInv
  <2>3. QED
    BY <2>1, <2>2 DEF StackInv
<1>4. LevelInv
  <2> DEFINE lev == [t \in DOMAIN tables |-> 0]
  <2>1. lev \in [DOMAIN tables -> 0 .. 3]
    OBVIOUS
  <2>2. Len(stack) = 0
    BY DEF Init
  <2>3. Levels(lev)
    BY <1>1, <2>1, <2>2 DEF Levels, Link
  <2>4. QED
    BY <2>1, <2>3 DEF LevelInv
<1>5. NumInv /\ DoneInv /\ MapsRange
  BY DEF Init, NumInv, DoneInv, MapsRange
<1>6. QED
  BY <1>2, <1>3, <1>4, <1>5 DEF Inv

\* What depends on VTCR_EL2 alone.
LEMMA Fixed ==
  ASSUME vtcr' = vtcr
  PROVE  /\ \A l : Count(l)' = Count(l)
         /\ \A t : Size(t)' = Size(t)
         /\ Width' = Width /\ Space' = Space
<1>1. \A l : Count(l)' = Count(l)
  BY DEF Count, number_of_concatenated_page_tables
<1>2. \A t : Size(t)' = Size(t)
  BY <1>1 DEF Size
<1>3. Width' = Width
  BY <1>1 DEF Width
<1>4. QED
  BY <1>1, <1>2, <1>3 DEF Space

\* The number of tables.
LEMMA Number ==
  ASSUME NEW n \in Nat
  PROVE  Cardinality(0 .. n - 1) = n
  BY FS_Interval

LEMMA TreeKept ==
  ASSUME TreeInv, vtcr' = vtcr, tables' = tables, Ready' <=> Ready
  PROVE  TreeInv'
<1>1. \A t : Size(t)' = Size(t)
  BY Fixed
<1>2. \A t, i : Link(t, i)' <=> Link(t, i)
  BY DEF Link
<1>3. QED
  BY <1>1, <1>2 DEF TreeInv, Ready

\* A table that is set up is empty.
LEMMA TreeFirst ==
  ASSUME TreeInv, vtcr' = vtcr, pc' = "idle",
         tables' = [t \in {0} |-> [i \in 0 .. Count(vtcr.level) - 1 |-> Empty]]
  PROVE  TreeInv' /\ \A t, i \in Nat : ~Link(t, i)'
<1>1. DOMAIN tables' = 0 .. 1 - 1
  OBVIOUS
<1>2. tables'[0] = [i \in 0 .. Count(vtcr.level) - 1 |-> Empty]
  OBVIOUS
<1>3. DOMAIN tables'[0] = 0 .. Size(0)' - 1
  BY <1>2, Fixed DEF Size
<1>4. \A t, i : ~Link(t, i)'
  BY <1>1, <1>2 DEF Link, Empty
<1>5. \A t \in DOMAIN tables' : t = 0
  OBVIOUS
<1>6. \A t \in DOMAIN tables' : DOMAIN tables'[t] = 0 .. Size(t)' - 1
  BY <1>3, <1>5
<1>7. vtcr' \in Ranges /\ \E n \in Nat \ {0} : DOMAIN tables' = 0 .. n - 1
  <2>1. 1 \in Nat \ {0}
    OBVIOUS
  <2>2. QED
    BY <1>1, <2>1 DEF TreeInv
<1>8. QED
  BY <1>4, <1>6, <1>7 DEF TreeInv

\* A page or block descriptor takes the place of another.
LEMMA TreeLeaf ==
  ASSUME TreeInv, Ready, Ready', vtcr' = vtcr, NEW t \in DOMAIN tables, NEW i \in DOMAIN tables[t],
         NEW e, e.kind # "table", tables' = [tables EXCEPT ![t][i] = e]
  PROVE  /\ TreeInv' /\ DOMAIN tables' = DOMAIN tables
         /\ \A u \in DOMAIN tables : DOMAIN tables'[u] = DOMAIN tables[u]
         /\ \A u, j \in Nat : Link(u, j)' => Link(u, j) /\ tables'[u][j] = tables[u][j]
<1>1. DOMAIN tables' = DOMAIN tables /\ \A u \in DOMAIN tables : DOMAIN tables'[u] = DOMAIN tables[u]
  OBVIOUS
<1>2. \A u \in DOMAIN tables : \A j \in DOMAIN tables[u] :
        tables'[u][j] = IF u = t /\ j = i THEN e ELSE tables[u][j]
  OBVIOUS
<1>3. \A u, j \in Nat : Link(u, j)' => Link(u, j) /\ tables'[u][j] = tables[u][j]
  BY <1>1, <1>2 DEF Link
<1>4. \A u : Size(u)' = Size(u)
  BY Fixed
<1>5. TreeInv'
  <2>1. vtcr' \in Ranges /\ \E n \in Nat \ {0} : DOMAIN tables' = 0 .. n - 1
    BY <1>1 DEF TreeInv, Ready
  <2>2. \A u \in DOMAIN tables' : DOMAIN tables'[u] = 0 .. Size(u)' - 1
    BY <1>1, <1>4 DEF TreeInv
  <2>3. \A u, j \in Nat : Link(u, j)' => tables'[u][j].addr \in DOMAIN tables' \ {0}
    BY <1>1, <1>3 DEF TreeInv
  <2>4. \A u, j, v, k \in Nat :
          Link(u, j)' /\ Link(v, k)' /\ tables'[u][j].addr = tables'[v][k].addr => u = v /\ j = k
    BY <1>3, SMTT(30) DEF TreeInv
  <2>5. QED
    BY <2>1, <2>2, <2>3, <2>4 DEF TreeInv, Ready
<1>6. QED
  BY <1>1, <1>3, <1>5

\* The only link that a step adds is the one to table n.
OneLink(t, i, n) ==
  \A u, j \in Nat : Link(u, j)' =>
    \/ Link(u, j) /\ tables'[u][j] = tables[u][j]
    \/ u = t /\ j = i /\ tables'[u][j].addr = n

\* A new table hangs under one descriptor.
LEMMA TreeTable ==
  ASSUME TreeInv, Ready, Ready', vtcr' = vtcr, NEW t \in DOMAIN tables, NEW i \in DOMAIN tables[t],
         NEW n, n = Cardinality(DOMAIN tables), tables' = Hung(t, i, n)
  PROVE  /\ n \in Nat \ {0} /\ n \notin DOMAIN tables
         /\ DOMAIN tables' = DOMAIN tables \cup {n}
         /\ \A u \in DOMAIN tables : DOMAIN tables'[u] = DOMAIN tables[u]
         /\ OneLink(t, i, n) /\ TreeInv'
<1>1. PICK m \in Nat \ {0} : DOMAIN tables = 0 .. m - 1
  BY DEF TreeInv, Ready
<1>2. n = m
  BY <1>1, Number
<1>3. n \in Nat \ {0} /\ n \notin DOMAIN tables /\ DOMAIN tables \cup {n} = 0 .. (n + 1) - 1
  BY <1>1, <1>2
<1>4. DOMAIN tables' = DOMAIN tables \cup {n}
  BY DEF Hung
<1>5. tables'[n] = [j \in 0 .. Fan - 1 |-> Empty]
  BY DEF Hung
<1>6. \A u \in DOMAIN tables : DOMAIN tables'[u] = DOMAIN tables[u]
  BY <1>3 DEF Hung
<1>7. \A u \in DOMAIN tables : \A j \in DOMAIN tables[u] :
        tables'[u][j] = IF u = t /\ j = i THEN [kind |-> "table", addr |-> n, perm |-> 0]
                        ELSE tables[u][j]
  BY <1>3 DEF Hung
<1>8. ASSUME NEW u \in Nat, NEW j \in Nat, Link(u, j)'
      PROVE  \/ Link(u, j) /\ tables'[u][j] = tables[u][j]
             \/ u = t /\ j = i /\ tables'[u][j].addr = n
  <2>1. u \in DOMAIN tables' /\ j \in DOMAIN tables'[u] /\ tables'[u][j].kind = "table"
    BY <1>8 DEF Link
  <2>2. u # n
    <3>1. u = n => tables'[u][j] = Empty
      BY <1>5, <2>1
    <3>2. QED
      BY <2>1, <3>1 DEF Empty
  <2>3. u \in DOMAIN tables /\ j \in DOMAIN tables[u]
    BY <1>4, <1>6, <2>1, <2>2
  <2>4. QED
    BY <1>7, <2>1, <2>3 DEF Link
<1>9. \A u : Size(u)' = Size(u)
  BY Fixed
<1>10. TreeInv'
  <2>1. vtcr' \in Ranges /\ \E x \in Nat \ {0} : DOMAIN tables' = 0 .. x - 1
    <3>1. n + 1 \in Nat \ {0}
      BY <1>3
    <3>2. QED
      BY <1>3, <1>4, <3>1 DEF TreeInv
  <2>2. \A u \in DOMAIN tables' : DOMAIN tables'[u] = 0 .. Size(u)' - 1
    BY <1>3, <1>4, <1>5, <1>6, <1>9 DEF TreeInv, Size
  <2>3. \A u, j \in Nat : Link(u, j)' => tables'[u][j].addr \in DOMAIN tables' \ {0}
    BY <1>3, <1>4, <1>8 DEF TreeInv
  <2>4. \A u, j \in Nat : Link(u, j) => tables[u][j].addr # n
    BY <1>3 DEF TreeInv
  <2>5. \A u, j, v, k \in Nat :
          Link(u, j)' /\ Link(v, k)' /\ tables'[u][j].addr = tables'[v][k].addr => u = v /\ j = k
    <3> SUFFICES ASSUME NEW u \in Nat, NEW j \in Nat, NEW v \in Nat, NEW k \in Nat,
                        Link(u, j)', Link(v, k)', tables'[u][j].addr = tables'[v][k].addr
                 PROVE  u = v /\ j = k
      OBVIOUS
    <3>1. CASE Link(u, j) /\ tables'[u][j] = tables[u][j] /\ Link(v, k) /\ tables'[v][k] = tables[v][k]
      <4>1. tables[u][j].addr = tables[v][k].addr
        BY <3>1
      <4>2. QED
        BY <3>1, <4>1 DEF TreeInv
    <3>2. CASE tables'[u][j].addr = n
      <4>1. ~(Link(v, k) /\ tables'[v][k] = tables[v][k])
        BY <2>4, <3>2
      <4>2. ~(Link(u, j) /\ tables'[u][j] = tables[u][j])
        BY <2>4, <3>2
      <4>3. u = t /\ j = i
        BY <1>8, <4>2
      <4>4. v = t /\ k = i
        BY <1>8, <4>1
      <4>5. QED
        BY <4>3, <4>4
    <3>3. QED
      BY <1>8, <3>1, <3>2
  <2>6. QED
    BY <2>1, <2>2, <2>3, <2>5 DEF TreeInv, Ready
<1>11. OneLink(t, i, n)
  BY <1>8 DEF OneLink
<1>12. QED
  BY <1>3, <1>4, <1>6, <1>10, <1>11

-----------------------------------------------------------------------------
(* The steps on the stack *)

\* A frame that a step leaves where it is, while the call goes on to a page with the
\* same index at its level.
LEMMA FrameKept ==
  ASSUME vtcr' = vtcr, NEW k \in Nat, FrameOK(k), stack'[k] = stack[k],
         Index(Current', stack[k].level) = Index(Current, stack[k].level),
         stack[k].table \in DOMAIN tables',
         DOMAIN tables'[stack[k].table] = DOMAIN tables[stack[k].table],
         k < Len(stack') =>
           /\ tables'[stack[k].table][stack[k].at].kind = "table"
           /\ tables'[stack[k].table][stack[k].at].addr = stack'[k + 1].table
  PROVE  FrameOK(k)'
<1>1. Index(Current, stack[k].level)' = Index(Current', stack'[k].level)
  BY DEF Index, Count, number_of_concatenated_page_tables
<1>2. QED
  BY <1>1 DEF FrameOK

\* The frames below the top are in other tables.
LEMMA Apart ==
  ASSUME TreeInv, StackInv, LevelInv, stack # <<>>, NEW k \in 1 .. Len(stack)
  PROVE  /\ FrameOK(k) /\ stack[k].level \in vtcr.level .. Top.level
         /\ stack[k].table \in DOMAIN tables /\ stack[k].at \in DOMAIN tables[stack[k].table]
         /\ k # Len(stack) =>
              /\ stack[k].table # Top.table /\ k < Len(stack)
              /\ tables[stack[k].table][stack[k].at].kind = "table"
              /\ tables[stack[k].table][stack[k].at].addr = stack[k + 1].table
<1>1. PICK lev : Levels(lev)
  BY DEF LevelInv
<1>2. /\ vtcr.level \in {0, 1} /\ Len(stack) \in Nat \ {0}
      /\ Top.level = vtcr.level + Len(stack) - 1
  BY TopFrame, Spans DEF TreeInv
<1>3. FrameOK(k)
  BY DEF StackInv
<1>4. stack[k].level = vtcr.level + k - 1
  BY <1>3 DEF FrameOK
<1>5. stack[k].level \in vtcr.level .. Top.level
  BY <1>2, <1>4
<1>6. lev[stack[k].table] = stack[k].level /\ lev[Top.table] = Top.level
  BY <1>1, <1>2 DEF Levels, Top
<1>7. k # Len(stack) => k < Len(stack) /\ stack[k].level # Top.level
  BY <1>2, <1>4
<1>8. QED
  BY <1>3, <1>5, <1>6, <1>7 DEF FrameOK

\* A page or block descriptor at the top leaves the frames.
LEMMA StackLeaf ==
  ASSUME TreeInv, StackInv, LevelInv, vtcr' = vtcr, stack' = stack, stack # <<>>,
         pc' \in {"walk", "next"}, DOMAIN tables' = DOMAIN tables,
         \A u \in DOMAIN tables : DOMAIN tables'[u] = DOMAIN tables[u],
         SameBut(tables', Top.table, Top.at),
         \A j \in vtcr.level .. Top.level : Index(Current', j) = Index(Current, j)
  PROVE  StackInv'
<1>1. ASSUME NEW k \in 1 .. Len(stack') PROVE FrameOK(k)'
  <2>1. k \in 1 .. Len(stack) /\ k \in Nat /\ Len(stack) \in Nat
    BY TopFrame
  <2>2. /\ FrameOK(k) /\ stack[k].level \in vtcr.level .. Top.level
        /\ stack[k].table \in DOMAIN tables /\ stack[k].at \in DOMAIN tables[stack[k].table]
        /\ k # Len(stack) =>
             /\ stack[k].table # Top.table /\ k < Len(stack)
             /\ tables[stack[k].table][stack[k].at].kind = "table"
             /\ tables[stack[k].table][stack[k].at].addr = stack[k + 1].table
    BY <2>1, Apart
  <2>3. k < Len(stack') => tables'[stack[k].table][stack[k].at] = tables[stack[k].table][stack[k].at]
    BY <2>1, <2>2 DEF SameBut
  <2>4. QED
    BY <2>1, <2>2, <2>3, FrameKept
<1>2. QED
  BY <1>1 DEF StackInv

\* A frame for the table under the descriptor at the top.
LEMMA Push ==
  ASSUME TreeInv, StackInv, LevelInv, NumInv, pc = "walk", pc' = "walk", ipa' = ipa, vtcr' = vtcr,
         Top.level < 3, NEW t \in Nat, t \in DOMAIN tables', DOMAIN tables'[t] = 0 .. Fan - 1,
         DOMAIN tables \subseteq DOMAIN tables',
         \A u \in DOMAIN tables : DOMAIN tables'[u] = DOMAIN tables[u],
         SameBut(tables', Top.table, Top.at),
         tables'[Top.table][Top.at].kind = "table", tables'[Top.table][Top.at].addr = t,
         stack' = Append(stack, Frame(t, Top.level + 1, ipa))
  PROVE  StackInv'
<1>a. PICK n : n = Len(stack)
  OBVIOUS
<1> DEFINE lo == vtcr.level
           l == Top.level + 1
           f == Frame(t, l, ipa)
<1>1. /\ vtcr \in Ranges /\ Ready /\ stack # <<>> /\ Current = ipa /\ ipa \in Nat
      /\ Top.level \in lo .. 3 /\ Top.level \in 0 .. 3
  BY Walking
<1>2. n \in Nat \ {0} /\ Top.level = lo + n - 1 /\ lo \in {0, 1}
  BY <1>1, <1>a, TopFrame, Spans
<1>3. l \in lo .. 3 /\ l \in 0 .. 3 /\ l # lo /\ l = lo + (n + 1) - 1 /\ n + 1 <= 4 - lo
  <2> DEFINE m == Top.level
  <2>1. m \in 0 .. 3 /\ m < 3 /\ m = lo + n - 1
    BY <1>1, <1>2
  <2> HIDE DEF m, lo
  <2>2. m + 1 \in lo .. 3 /\ m + 1 \in 0 .. 3 /\ m + 1 # lo /\ m + 1 = lo + (n + 1) - 1 /\ n + 1 <= 4 - lo
    BY <1>2, <2>1
  <2>3. QED
    BY <2>2 DEF m
<1>4. f.table = t /\ f.level = l /\ f.at = Index(ipa, l)
  BY DEF Frame, Index
<1>5. Index(ipa, l) \in Nat /\ Index(ipa, l) \in 0 .. Fan - 1
  BY <1>1, <1>3, InTable, Spans
<1>6. f \in Frame0
  BY <1>3, <1>5 DEF Frame0, Frame, Index
<1>7. stack \in Seq(Frame0)
  BY DEF StackInv
<1> HIDE DEF f, l
<1>8. /\ stack' \in Seq(Frame0) /\ Len(stack') = n + 1 /\ stack'[n + 1] = f
      /\ \A k \in 1 .. n : stack'[k] = stack[k]
  <2>1. stack' = Append(stack, f)
    BY DEF f, l
  <2>2. QED
    BY <1>6, <1>7, <1>a, <2>1
<1>9. Current' = ipa
  BY DEF Current
<1>10. ASSUME NEW k \in 1 .. n PROVE FrameOK(k)'
  <2>1. k \in Nat /\ k < Len(stack') /\ stack'[k] = stack[k]
    BY <1>2, <1>8
  <2>2. /\ FrameOK(k)
        /\ stack[k].table \in DOMAIN tables /\ stack[k].at \in DOMAIN tables[stack[k].table]
        /\ k # n =>
             /\ stack[k].table # Top.table /\ k < n
             /\ tables[stack[k].table][stack[k].at].kind = "table"
             /\ tables[stack[k].table][stack[k].at].addr = stack[k + 1].table
    BY <1>1, <1>a, Apart
  <2>3. CASE k = n
    <3>1. stack[k] = Top /\ stack'[k + 1].table = t
      BY <1>4, <1>8, <1>a, <2>3 DEF Top
    <3>2. QED
      BY <1>1, <1>9, <2>1, <2>2, <3>1, FrameKept
  <2>4. CASE k # n
    <3>1. tables'[stack[k].table][stack[k].at] = tables[stack[k].table][stack[k].at]
      BY <2>2, <2>4 DEF SameBut
    <3>2. k + 1 \in 1 .. n
      BY <1>2, <2>2, <2>4
    <3>3. stack'[k + 1] = stack[k + 1]
      BY <1>8, <3>2
    <3>4. QED
      BY <1>1, <1>9, <2>1, <2>2, <2>4, <3>1, <3>3, FrameKept
  <2>5. QED
    BY <2>3, <2>4
<1>11. FrameOK(n + 1)'
  <2>1. Index(Current, stack[n + 1].level)' = Index(Current', stack'[n + 1].level)
    BY DEF Index, Count, number_of_concatenated_page_tables
  <2>2. /\ stack'[n + 1].level = vtcr' .level + (n + 1) - 1
        /\ stack'[n + 1].at = Index(Current, stack[n + 1].level)'
        /\ stack'[n + 1].table \in DOMAIN tables'
        /\ stack'[n + 1].at \in DOMAIN tables'[stack'[n + 1].table]
    BY <1>3, <1>4, <1>5, <1>8, <1>9, <2>1
  <2>3. n + 1 # 1 /\ ~(n + 1 < Len(stack'))
    BY <1>2, <1>8
  <2>4. QED
    BY <2>2, <2>3 DEF FrameOK
<1>12. \A k \in 1 .. n + 1 : k \in 1 .. n \/ k = n + 1
  BY <1>2
<1>13. \A k \in 1 .. Len(stack') : FrameOK(k)'
  BY <1>8, <1>10, <1>11, <1>12
<1>14. stack' # <<>>
  BY <1>2, <1>8
<1>15. QED
  BY <1>3, <1>8, <1>13, <1>14 DEF StackInv

\* The table of a level has the descriptors of that level.
LEMMA TopDomain ==
  ASSUME TreeInv, StackInv, LevelInv, Ready, stack # <<>>
  PROVE  DOMAIN tables[Top.table] = 0 .. Count(Top.level) - 1
<1>1. PICK lev : Levels(lev)
  BY DEF LevelInv
<1>2. /\ HasFrame(Top.level) /\ Top = FrameOf(Top.level) /\ Top.level \in vtcr.level .. 3
      /\ Top.table \in DOMAIN tables /\ Top.table \in Nat /\ Len(stack) \in Nat \ {0}
  BY TopFrame
<1>3. DOMAIN tables[Top.table] = 0 .. Size(Top.table) - 1
  BY <1>2 DEF TreeInv
<1>4. /\ vtcr.level \in {0, 1} /\ vtcr \in Ranges
      /\ Top.level \in 0 .. 3 /\ (Top.level # vtcr.level => Count(Top.level) = Fan)
  <2>1. vtcr.level \in {0, 1} /\ vtcr \in Ranges
    BY Spans DEF TreeInv
  <2>2. Top.level \in 0 .. 3
    BY <1>2, <2>1
  <2>3. QED
    BY <2>1, <2>2, Spans
<1>5. CASE Top.level = vtcr.level
  <2>1. Top.table = 0
    BY <1>2, <1>5, Frames
  <2>2. QED
    BY <1>3, <1>5, <2>1 DEF Size
<1>6. CASE Top.level # vtcr.level
  <2>1. lev[Top.table] = Top.level
    BY <1>1, <1>2 DEF Levels, Top
  <2>2. Top.table # 0
    BY <1>1, <1>2, <1>6, <2>1 DEF Levels
  <2>3. QED
    BY <1>3, <1>4, <1>6, <2>2 DEF Size
<1>7. QED
  BY <1>5, <1>6

\* A frame returns.
LEMMA Pop ==
  ASSUME TreeInv, StackInv, LevelInv, stack # <<>>, pc = "next", pc' = "next",
         vtcr' = vtcr, tables' = tables, ipa' = ipa, stack' = Rest
  PROVE  /\ StackInv' /\ Len(stack') = Len(stack) - 1
         /\ \A k \in 1 .. Len(stack') : k \in 1 .. Len(stack) /\ stack'[k] = stack[k]
<1>1. PICK n : n = Len(stack)
  OBVIOUS
<1>2. n \in Nat \ {0} /\ stack \in Seq(Frame0) /\ n <= 4 - vtcr.level /\ vtcr.level \in {0, 1}
  BY <1>1, TopFrame, Spans DEF StackInv, TreeInv
<1>3. stack' = SubSeq(stack, 1, n - 1)
  BY <1>1 DEF Rest
<1>4. stack' \in Seq(Frame0) /\ Len(stack') = n - 1 /\ \A k \in 1 .. n - 1 : stack'[k] = stack[k]
  BY <1>1, <1>2, <1>3
<1>5. Current' = Current
  BY DEF Current
<1>6. ASSUME NEW k \in 1 .. n - 1 PROVE FrameOK(k)'
  <2>1. k \in Nat /\ k \in 1 .. n /\ k # n /\ stack'[k] = stack[k]
    BY <1>2, <1>4
  <2>2. /\ FrameOK(k) /\ stack[k].table \in DOMAIN tables
        /\ tables[stack[k].table][stack[k].at].kind = "table"
        /\ tables[stack[k].table][stack[k].at].addr = stack[k + 1].table
    BY <1>1, <2>1, Apart
  <2>3. k < Len(stack') => stack'[k + 1] = stack[k + 1]
    <3> SUFFICES ASSUME k < n - 1 PROVE stack'[k + 1] = stack[k + 1]
      BY <1>4
    <3>1. k + 1 \in 1 .. n - 1
      BY <1>2
    <3>2. QED
      BY <1>4, <3>1
  <2>4. QED
    BY <1>5, <2>1, <2>2, <2>3, FrameKept
<1>7. Len(stack') <= 4 - vtcr'.level
  BY <1>2, <1>4
<1>8. StackInv'
  BY <1>4, <1>6, <1>7 DEF StackInv
<1>9. \A k \in 1 .. n - 1 : k \in 1 .. n
  BY <1>2
<1>10. QED
  BY <1>1, <1>4, <1>8, <1>9

\* The frame at the top goes on with the next descriptor.
LEMMA Advance ==
  ASSUME TreeInv, StackInv, LevelInv, NumInv, stack # <<>>, pc = "next", pc' = "walk",
         vtcr' = vtcr, tables' = tables, ipa' = ipa, remaining # 0, Top.at # Count(Top.level) - 1,
         stack' = [stack EXCEPT ![Len(stack)].at = @ + 1]
  PROVE  /\ StackInv' /\ ipa < Width /\ ipa % Span(Top.level) = 0
         /\ Len(stack') = Len(stack) /\ Top'.level = Top.level
         /\ \A k \in 1 .. Len(stack) :
              stack'[k].table = stack[k].table /\ stack'[k].level = stack[k].level
<1>1. PICK n : n = Len(stack)
  OBVIOUS
<1> DEFINE lo == vtcr.level
           l == Top.level
<1>2. /\ vtcr \in Ranges /\ lo \in {0, 1} /\ n \in Nat \ {0} /\ stack \in Seq(Frame0)
      /\ n <= 4 - lo
  BY <1>1, TopFrame, Spans DEF StackInv, TreeInv
<1>3. /\ l \in lo .. 3 /\ l = lo + n - 1 /\ Top.table \in DOMAIN tables /\ Top.table \in Nat
      /\ Top.at = Index(Current, l) /\ Top.at \in Nat /\ l \in 0 .. 3
  BY <1>1, <1>2, TopFrame
<1>4. /\ ipa \in Nat \ {0} /\ ipa <= Width /\ ipa % Span(l) = 0
  <2>1. ipa \in Nat /\ req \in Requests /\ req.ipa < ipa /\ ipa <= Width /\ ipa % Span(l) = 0
    BY DEF NumInv
  <2>2. req.ipa \in Nat
    BY <2>1, PagingAssumption
  <2>3. QED
    BY <2>1, <2>2
<1>5. Current = ipa - 1 /\ Current' = ipa
  BY DEF Current
<1> HIDE DEF l
<1>6. /\ ipa < Width /\ Index(ipa, l) = Top.at + 1
      /\ \A j \in lo .. l - 1 : Index(ipa, j) = Index(Current, j)
  <2>1. Index(ipa - 1, l) # Count(l) - 1
    BY <1>3, <1>5 DEF l
  <2>2. /\ ipa < Width /\ Index(ipa, l) = Index(ipa - 1, l) + 1
        /\ \A j \in lo .. l - 1 : Index(ipa, j) = Index(ipa - 1, j)
    BY <1>2, <1>3, <1>4, <2>1, NextIndex
  <2>3. QED
    BY <1>3, <1>5, <2>2
<1> DEFINE f == [Top EXCEPT !.at = Top.at + 1]
<1>7. Top \in Frame0 /\ Top = stack[n]
  BY <1>1, <1>2 DEF Top
<1>8. f \in Frame0 /\ f.table = Top.table /\ f.level = l /\ f.at = Top.at + 1
  BY <1>3, <1>7 DEF Frame0, l
<1> HIDE DEF f
<1>9. /\ stack' = [stack EXCEPT ![n] = f]
  BY <1>1, <1>7 DEF f
<1>10. /\ stack' \in Seq(Frame0) /\ Len(stack') = n /\ stack'[n] = f
       /\ \A k \in 1 .. n : k # n => stack'[k] = stack[k]
  BY <1>1, <1>2, <1>8, <1>9
<1>11. ASSUME NEW k \in 1 .. n, k # n PROVE FrameOK(k)'
  <2>1. k \in Nat /\ stack'[k] = stack[k] /\ k + 1 \in 1 .. n
    BY <1>2, <1>10, <1>11
  <2>2. /\ FrameOK(k) /\ stack[k].table \in DOMAIN tables
        /\ tables[stack[k].table][stack[k].at].kind = "table"
        /\ tables[stack[k].table][stack[k].at].addr = stack[k + 1].table
    BY <1>1, <1>11, Apart
  <2>3. stack'[k + 1].table = stack[k + 1].table
    <3>1. CASE k + 1 = n
      BY <1>7, <1>8, <1>10, <3>1
    <3>2. CASE k + 1 # n
      BY <1>10, <2>1, <3>2
    <3>3. QED
      BY <3>1, <3>2
  <2>4. stack[k].level \in lo .. l - 1
    <3>1. stack[k].level = lo + k - 1
      BY <2>2 DEF FrameOK
    <3>2. QED
      BY <1>2, <1>3, <1>11, <3>1 DEF l
  <2>5. QED
    BY <1>5, <1>6, <2>1, <2>2, <2>3, <2>4, FrameKept
<1>12. FrameOK(n)'
  <2>1. Index(Current, stack[n].level)' = Index(Current', stack'[n].level)
    BY DEF Index, Count, number_of_concatenated_page_tables
  <2>2. n = 1 => Top.table = 0
    BY <1>1, <1>7 DEF StackInv, FrameOK
  <2>3. f.at \in DOMAIN tables[Top.table]
    <3>1. Index(ipa, l) \in 0 .. Count(l) - 1
      BY <1>3, <1>4, InTable DEF l
    <3>2. DOMAIN tables[Top.table] = 0 .. Count(l) - 1
      BY TopDomain DEF l, Ready
    <3>3. QED
      BY <1>6, <1>8, <3>1, <3>2
  <2>4. /\ stack'[n].level = vtcr'.level + n - 1
        /\ stack'[n].at = Index(Current, stack[n].level)'
        /\ stack'[n].table \in DOMAIN tables'
        /\ stack'[n].at \in DOMAIN tables'[stack'[n].table]
        /\ n = 1 => stack'[n].table = 0
    BY <1>3, <1>5, <1>6, <1>8, <1>10, <2>1, <2>2, <2>3 DEF l
  <2>5. ~(n < Len(stack'))
    BY <1>2, <1>10
  <2>6. QED
    BY <2>4, <2>5 DEF FrameOK
<1>13. \A k \in 1 .. Len(stack') : FrameOK(k)'
  BY <1>10, <1>11, <1>12
<1>14. StackInv'
  BY <1>2, <1>10, <1>13 DEF StackInv
<1>15. Top' = f
  BY <1>10 DEF Top
<1>16. \A k \in 1 .. n : stack'[k].table = stack[k].table /\ stack'[k].level = stack[k].level
  BY <1>7, <1>8, <1>10 DEF l
<1>17. QED
  BY <1>1, <1>4, <1>6, <1>8, <1>10, <1>14, <1>15, <1>16 DEF l

LEMMA LevelsKept ==
  ASSUME NEW lev, Levels(lev), vtcr' = vtcr, DOMAIN tables' = DOMAIN tables,
         \A u, j \in Nat : Link(u, j)' => Link(u, j) /\ tables'[u][j] = tables[u][j],
         \A k \in 1 .. Len(stack') : lev[stack'[k].table] = stack'[k].level
  PROVE  LevelInv'
<1>1. lev \in [DOMAIN tables' -> 0 .. 3] /\ (0 \in DOMAIN tables' => lev[0] = vtcr'.level)
  BY DEF Levels
<1>2. \A u, j \in Nat : Link(u, j)' => lev[u] < 3 /\ lev[tables'[u][j].addr] = lev[u] + 1
  BY DEF Levels
<1>3. Levels(lev)'
  BY <1>1, <1>2 DEF Levels
<1>4. QED
  BY <1>1, <1>3 DEF LevelInv

\* The frames behind a step: those before it, and one for table n.
NewFrames(lev, t, n) ==
  \A k \in 1 .. Len(stack') :
    \/ stack'[k].table \in DOMAIN tables /\ lev[stack'[k].table] = stack'[k].level
    \/ stack'[k].table = n /\ stack'[k].level = lev[t] + 1

\* A new table belongs to the level below the top.
LEMMA LevelsTable ==
  ASSUME NEW lev, Levels(lev), vtcr' = vtcr, NEW t \in DOMAIN tables, NEW i, NEW n,
         n \in Nat \ {0}, n \notin DOMAIN tables, DOMAIN tables' = DOMAIN tables \cup {n},
         \A u, j \in Nat : Link(u, j) => tables[u][j].addr \in DOMAIN tables,
         OneLink(t, i, n), lev[t] < 3, NewFrames(lev, t, n)
  PROVE  LevelInv'
<1> DEFINE m == [u \in DOMAIN tables \cup {n} |-> IF u = n THEN lev[t] + 1 ELSE lev[u]]
<1>1. lev \in [DOMAIN tables -> 0 .. 3] /\ (0 \in DOMAIN tables => lev[0] = vtcr.level)
  BY DEF Levels
<1>2. lev[t] \in 0 .. 3 /\ lev[t] + 1 \in 0 .. 3
  BY <1>1
<1>3. m \in [DOMAIN tables' -> 0 .. 3]
  BY <1>1, <1>2
<1>4. m[n] = lev[t] + 1 /\ \A u \in DOMAIN tables : m[u] = lev[u]
  OBVIOUS
<1> HIDE DEF m
<1>5. 0 \in DOMAIN tables' => m[0] = vtcr'.level
  BY <1>1, <1>4
<1>6. ASSUME NEW u \in Nat, NEW j \in Nat, Link(u, j)'
      PROVE  m[u] < 3 /\ m[tables'[u][j].addr] = m[u] + 1
  <2>1. CASE Link(u, j) /\ tables'[u][j] = tables[u][j]
    <3>1. u \in DOMAIN tables /\ tables[u][j].addr \in DOMAIN tables
      BY <2>1 DEF Link
    <3>2. lev[u] < 3 /\ lev[tables[u][j].addr] = lev[u] + 1
      BY <2>1 DEF Levels
    <3>3. QED
      BY <1>4, <2>1, <3>1, <3>2
  <2>2. CASE u = t /\ j = i /\ tables'[u][j].addr = n
    BY <1>4, <2>2
  <2>3. QED
    BY <1>6, <2>1, <2>2 DEF OneLink
<1>7. \A k \in 1 .. Len(stack') : m[stack'[k].table] = stack'[k].level
  BY <1>4 DEF NewFrames
<1>8. PICK lv : lv = m
  OBVIOUS
<1>9. Levels(lv)'
  BY <1>3, <1>5, <1>6, <1>7, <1>8 DEF Levels
<1>10. QED
  BY <1>3, <1>8, <1>9 DEF LevelInv

\* The walk in the tables behind a step.
LEMMA TranslateNext ==
  ASSUME vtcr' = vtcr, NEW p
  PROVE  Translate(tables, p)' = Translate(tables', p)
<1>1. \A l : Count(l)' = Count(l)
  BY DEF Count, number_of_concatenated_page_tables
<1>2. \A t, l : Entry(tables, t, l, p)' = Entry(tables', t, l, p)
  BY <1>1 DEF Entry
<1>3. Descriptors(tables, p)' = Descriptors(tables', p)
  BY <1>2 DEF Descriptors
<1>4. LeafLevels(tables, p)' = LeafLevels(tables', p)
  BY <1>3 DEF LeafLevels
<1>5. QED
  BY <1>3, <1>4 DEF Translate

-----------------------------------------------------------------------------
(* The steps of a call *)

LEMMA StepLeaf ==
  ASSUME Inv, pc = "walk", NEW kind, <<kind, Top.level>> \in Leaves,
         ipa % Span(Top.level) = 0, remaining >= Span(Top.level), PutLeaf(kind)
  PROVE  Inv'
<1> DEFINE l == Top.level
           s == Span(l)
           leaf == [kind |-> kind, addr |-> pa, perm |-> req.perm]
<1>1. TreeInv /\ StackInv /\ LevelInv /\ NumInv /\ DoneInv
  BY DEF Inv
<1>2. /\ vtcr' = vtcr /\ req' = req /\ stack' = stack /\ result' = result /\ pc' = "next"
      /\ pa' = pa + s /\ ipa' = ipa + s /\ remaining' = remaining - s
  BY DEF PutLeaf
<1>2b. tables' = [tables EXCEPT ![Top.table][Top.at] = leaf]
  BY DEF PutLeaf
<1>3. /\ vtcr \in Ranges /\ Ready /\ stack # <<>> /\ Current = ipa /\ ipa \in Nat /\ ipa < Width
      /\ l \in vtcr.level .. 3 /\ s \in Nat \ {0} /\ req \in Requests
      /\ req.pa \in Nat /\ req.ipa \in Nat /\ req.size \in Nat
  BY <1>1, Walking
<1>4. /\ Top.table \in DOMAIN tables /\ Top.at \in DOMAIN tables[Top.table]
      /\ Top.table \in Nat /\ Top.at \in Nat
  BY <1>1, <1>3, TopFrame
<1>5. leaf.kind # "table"
  BY DEF Leaves
<1>6. /\ TreeInv' /\ DOMAIN tables' = DOMAIN tables
      /\ \A u \in DOMAIN tables : DOMAIN tables'[u] = DOMAIN tables[u]
      /\ \A u, j \in Nat : Link(u, j)' => Link(u, j) /\ tables'[u][j] = tables[u][j]
  <2>1. Ready'
    BY <1>2 DEF Ready
  <2>2. PICK t, i, e : t = Top.table /\ i = Top.at /\ e = leaf
    OBVIOUS
  <2>3. t \in DOMAIN tables /\ i \in DOMAIN tables[t] /\ e.kind # "table"
    BY <1>4, <1>5, <2>2
  <2>4. tables' = [tables EXCEPT ![t][i] = e]
    BY <1>2b, <2>2
  <2>5. QED
    BY <1>1, <1>2, <1>3, <2>1, <2>3, <2>4, TreeLeaf, Zenon
<1>7. /\ ipa + s <= Width /\ (ipa + s) % s = 0
      /\ \A j \in vtcr.level .. l : Index((ipa + s) - 1, j) = Index(ipa, j)
  BY <1>3, PartInside
<1>8. SameBut(tables', Top.table, Top.at)
  BY <1>2b, <1>4 DEF SameBut
<1>9. StackInv'
  <2>1. Current' = (ipa + s) - 1
    BY <1>2 DEF Current
  <2>2. \A j \in vtcr.level .. Top.level : Index(Current', j) = Index(Current, j)
    BY <1>3, <1>7, <2>1
  <2>3. QED
    BY <1>1, <1>2, <1>3, <1>6, <1>8, <2>2, StackLeaf
<1>10. LevelInv'
  <2>1. PICK lev : Levels(lev)
    BY <1>1 DEF LevelInv
  <2>2. \A k \in 1 .. Len(stack') : lev[stack'[k].table] = stack'[k].level
    BY <1>2, <2>1 DEF Levels
  <2>3. QED
    BY <1>2, <1>6, <2>1, <2>2, LevelsKept
<1>11. NumInv'
  <2>1. /\ pa \in Nat /\ remaining \in Nat /\ req.ipa <= ipa
        /\ pa = req.pa + (ipa - req.ipa) /\ remaining = req.size - (ipa - req.ipa)
    BY <1>1 DEF NumInv
  <2>2. Width' = Width /\ Top' = Top
    BY <1>2, Fixed DEF Top
  <2>3. /\ pa' \in Nat /\ ipa' \in Nat /\ remaining' \in Nat
        /\ req.ipa <= ipa' /\ ipa' <= Width /\ req.ipa < ipa'
        /\ pa' = req.pa + (ipa' - req.ipa) /\ remaining' = req.size - (ipa' - req.ipa)
    <3>1. remaining >= s /\ s \in Nat \ {0} /\ ipa \in Nat /\ req.ipa \in Nat /\ ipa + s <= Width
      BY <1>3, <1>7
    <3>2. pa' = pa + s /\ ipa' = ipa + s /\ remaining' = remaining - s
      BY <1>2
    <3>3. req.pa \in Nat /\ req.size \in Nat
      BY <1>3
    <3> HIDE DEF s
    <3>4. pa' \in Nat /\ ipa' \in Nat
      BY <3>2, <2>1, <3>1
    <3>5. remaining' \in Nat
      BY <3>2, <2>1, <3>1
    <3>6. req.ipa <= ipa' /\ ipa' <= Width /\ req.ipa < ipa'
      BY <3>2, <2>1, <3>1
    <3>7. pa' = req.pa + (ipa' - req.ipa)
      BY <3>2, <3>3, <2>1, <3>1
    <3>8. remaining' = req.size - (ipa' - req.ipa)
      BY <3>2, <3>3, <2>1, <3>1
    <3>9. QED
      BY <3>4, <3>5, <3>6, <3>7, <3>8
  <2>4. ipa' % Span(Top.level)' = 0
    BY <1>2, <1>7, <2>2
  <2>5. QED
    BY <1>2, <1>3, <2>2, <2>3, <2>4 DEF NumInv
<1>12. result' = "none"
  BY <1>1, <1>2 DEF DoneInv
<1>13. DoneInv'
  <2> SUFFICES ASSUME NEW p \in Space', req.ipa <= p, p < ipa + s
               PROVE  Translate(tables, p)' = Wanted(p)'
    BY <1>2, <1>12 DEF DoneInv
  <2>1. p \in Space /\ p \in Nat
    BY <1>1, <1>2, Fixed, Spaces
  <2>2. IF ipa <= p /\ p < ipa + s THEN Translate(tables', p) = Wanted(p)
        ELSE Translate(tables', p) = Translate(tables, p)
    <3> DEFINE T == tables'
    <3>1. T = [tables EXCEPT ![Top.table][Top.at] = [kind |-> kind, addr |-> pa, perm |-> req.perm]]
      BY <1>2b
    <3> HIDE DEF T
    <3>2. IF ipa <= p /\ p < ipa + Span(Top.level) THEN InRange(p) /\ Translate(T, p) = Wanted(p)
          ELSE Translate(T, p) = Translate(tables, p)
      BY <1>1, <2>1, <3>1, LeafEffect
    <3>3. QED
      BY <3>2 DEF T
  <2>3. p < ipa => Translate(tables, p) = Wanted(p)
    BY <1>1, <2>1 DEF DoneInv
  <2>4. Translate(tables', p) = Wanted(p)
    BY <1>3, <2>1, <2>2, <2>3
  <2>5. Translate(tables, p)' = Translate(tables', p) /\ Wanted(p)' = Wanted(p)
    BY <1>2, TranslateNext DEF Wanted
  <2>6. QED
    BY <2>4, <2>5
<1>14. MapsRange'
  BY <1>12 DEF MapsRange
<1>15. QED
  BY <1>6, <1>9, <1>10, <1>11, <1>13, <1>14 DEF Inv

\* The stack behind a push.
LEMMA Pushed ==
  ASSUME StackInv, NEW f, stack' = Append(stack, f)
  PROVE  /\ Top' = f /\ stack' # <<>> /\ Len(stack') = Len(stack) + 1
         /\ \A k \in 1 .. Len(stack') : stack'[k] = f \/ (k \in 1 .. Len(stack) /\ stack'[k] = stack[k])
<1>1. stack \in Seq(Frame0)
  BY DEF StackInv
<1>2. PICK n : n = Len(stack)
  OBVIOUS
<1>3. n \in Nat /\ Len(stack') = n + 1 /\ stack'[n + 1] = f /\ \A k \in 1 .. n : stack'[k] = stack[k]
  BY <1>1, <1>2
<1>4. \A k \in 1 .. n + 1 : k \in 1 .. n \/ k = n + 1
  BY <1>3
<1>5. Top' = f
  BY <1>3 DEF Top
<1>6. QED
  BY <1>2, <1>3, <1>4, <1>5

LEMMA PushNum ==
  ASSUME TreeInv, StackInv, NumInv, pc = "walk", Top.level < 3, NEW t,
         pc' = pc, vtcr' = vtcr, req' = req, pa' = pa, ipa' = ipa, remaining' = remaining,
         stack' = Append(stack, Frame(t, Top.level + 1, ipa))
  PROVE  NumInv'
<1> DEFINE l == Top.level
<1>1. Top'.level = l + 1 /\ Width' = Width
  BY Pushed, Fixed DEF Frame
<1>2. vtcr \in Ranges /\ l \in 0 .. 3 /\ ipa \in Nat
  BY Walking
<1>3. ipa % Span(l) = 0 => ipa % Span(l + 1) = 0
  <2> DEFINE s == Span(l)
             u == Span(l + 1)
             q == ipa \div s
  <2> SUFFICES ASSUME (ipa % s) = 0 PROVE (ipa % u) = 0
    OBVIOUS
  <2>1. l + 1 \in 1 .. 3 /\ l + 1 \in 0 .. 3 /\ (l + 1) - 1 = l
    BY <1>2
  <2>2. s = Fan * u /\ s \in Nat \ {0} /\ u \in Nat \ {0} /\ Fan \in Nat
    BY <1>2, <2>1, Spans
  <2> HIDE DEF s, u
  <2>3. q \in Nat /\ (ipa % s) \in 0 .. s - 1 /\ ipa = q * s + (ipa % s)
    BY <1>2, <2>2, Division, ZenonT(60)
  <2> HIDE DEF q
  <2>4. q * s \in Nat
    BY <2>2, <2>3
  <2>5. ipa = q * s
    BY <2>3, <2>4
  <2>6. ipa = (q * Fan) * u /\ q * Fan \in Nat
    BY <2>2, <2>3, <2>5
  <2>7. QED
    BY <2>2, <2>6, Multiple
<1>4. NumInv
  OBVIOUS
<1>5. Span(Top.level)' = Span(l + 1)
  BY <1>1 DEF Span
<1>6. QED
  BY <1>1, <1>3, <1>4, <1>5 DEF NumInv

LEMMA StepDescend == ASSUME Inv, Descend PROVE Inv'
<1> DEFINE d == Descriptor
<1>1. TreeInv /\ StackInv /\ LevelInv /\ NumInv /\ DoneInv /\ MapsRange
  BY DEF Inv
<1>2. /\ pc = "walk" /\ Top.level < 3 /\ d.kind = "table"
      /\ pc' = pc /\ vtcr' = vtcr /\ tables' = tables /\ req' = req /\ pa' = pa /\ ipa' = ipa
      /\ remaining' = remaining /\ result' = result
      /\ stack' = Append(stack, Frame(d.addr, Top.level + 1, ipa))
  BY DEF Descend, Descends
<1>3. /\ vtcr \in Ranges /\ Ready /\ stack # <<>>
  BY <1>1, <1>2, Walking
<1>4. /\ Top.table \in DOMAIN tables /\ Top.at \in DOMAIN tables[Top.table]
      /\ Top.table \in Nat /\ Top.at \in Nat /\ Len(stack) \in Nat \ {0}
  BY <1>1, <1>3, TopFrame
<1>5. d = tables[Top.table][Top.at]
  BY DEF Descriptor
<1> HIDE DEF d
<1>6. Link(Top.table, Top.at)
  BY <1>2, <1>4, <1>5 DEF Link
<1>7. d.addr \in DOMAIN tables \ {0} /\ d.addr \in Nat /\ DOMAIN tables[d.addr] = 0 .. Fan - 1
  <2>1. d.addr \in DOMAIN tables \ {0}
    BY <1>1, <1>4, <1>5, <1>6 DEF TreeInv
  <2>2. PICK n \in Nat \ {0} : DOMAIN tables = 0 .. n - 1
    BY <1>1, <1>3 DEF TreeInv, Ready
  <2>3. QED
    BY <1>1, <2>1, <2>2 DEF TreeInv, Size
<1>8. TreeInv'
  BY <1>1, <1>2, TreeKept DEF Ready
<1>9. StackInv'
  <2>1. SameBut(tables', Top.table, Top.at)
    BY <1>2 DEF SameBut
  <2>2. PICK t : t = d.addr
    OBVIOUS
  <2>3. /\ t \in Nat /\ t \in DOMAIN tables' /\ DOMAIN tables'[t] = 0 .. Fan - 1
        /\ tables'[Top.table][Top.at].kind = "table" /\ tables'[Top.table][Top.at].addr = t
        /\ stack' = Append(stack, Frame(t, Top.level + 1, ipa))
    BY <1>2, <1>5, <1>7, <2>2
  <2>4. QED
    BY <1>1, <1>2, <2>1, <2>3, Push
<1>10. LevelInv'
  <2>1. PICK lev : Levels(lev)
    BY <1>1 DEF LevelInv
  <2>2. lev[Top.table] = Top.level /\ lev[d.addr] = Top.level + 1
    BY <1>4, <1>5, <1>6, <2>1 DEF Levels, Top
  <2> DEFINE f == Frame(d.addr, Top.level + 1, ipa)
  <2>3. f.table = d.addr /\ f.level = Top.level + 1
    BY DEF Frame
  <2>4. stack' = Append(stack, f)
    BY <1>2
  <2> HIDE DEF f
  <2>5. \A k \in 1 .. Len(stack') : stack'[k] = f \/ (k \in 1 .. Len(stack) /\ stack'[k] = stack[k])
    BY <1>1, <2>4, Pushed
  <2>6. \A k \in 1 .. Len(stack') : lev[stack'[k].table] = stack'[k].level
    BY <2>1, <2>2, <2>3, <2>5 DEF Levels
  <2>7. \A u, j \in Nat : Link(u, j)' => Link(u, j) /\ tables'[u][j] = tables[u][j]
    BY <1>2 DEF Link
  <2>8. QED
    BY <1>2, <2>1, <2>6, <2>7, LevelsKept
<1>11. NumInv'
  <2>1. PICK t : t = d.addr
    OBVIOUS
  <2>2. QED
    BY <1>1, <1>2, <2>1, PushNum
<1>12. Space' = Space /\ \A p : Translate(tables, p)' = Translate(tables, p)
  BY <1>2, Fixed, TranslateNext
<1>13. DoneInv' /\ MapsRange'
  BY <1>1, <1>2, <1>12 DEF DoneInv, MapsRange, Wanted, InRange
<1>14. QED
  BY <1>8, <1>9, <1>10, <1>11, <1>13 DEF Inv

\* A new table takes nothing from the pages behind the call: it is made for the
\* descriptor of the next one.
LEMMA TableBehind ==
  ASSUME TreeInv, StackInv, LevelInv, NumInv, pc = "walk", NEW p \in Nat, req.ipa <= p, p < ipa
  PROVE  p \div Span(Top.level) # ipa \div Span(Top.level)
<1> DEFINE s == Span(Top.level)
<1>1. s \in Nat \ {0} /\ ipa \in Nat /\ req.ipa \in Nat
  BY Walking
<1>2. ipa # req.ipa
  BY <1>1
<1>3. (ipa % s) = 0
  BY <1>2 DEF NumInv
<1> HIDE DEF s
<1>4. p \div s = ipa \div s <=> ipa <= p /\ p < ipa + s
  BY <1>1, <1>3, WholePart
<1>5. p \div s # ipa \div s
  BY <1>1, <1>4
<1>6. QED
  BY <1>5 DEF s

LEMMA StepTable == ASSUME Inv, NewTable PROVE Inv'
<1> DEFINE l == Top.level
<1>1. TreeInv /\ StackInv /\ LevelInv /\ NumInv /\ DoneInv
  BY DEF Inv
<1>2. PICK n : n = Cardinality(DOMAIN tables)
  OBVIOUS
<1>3. /\ pc = "walk" /\ l < 3 /\ Descriptor.kind # "table"
      /\ pc' = pc /\ vtcr' = vtcr /\ req' = req /\ pa' = pa /\ ipa' = ipa
      /\ remaining' = remaining /\ result' = result
      /\ stack' = Append(stack, Frame(n, l + 1, ipa))
  BY <1>2 DEF NewTable, Descends
<1>4. tables' = Hung(Top.table, Top.at, n)
  BY <1>2 DEF NewTable, Hung
<1>5. vtcr \in Ranges /\ Ready /\ stack # <<>> /\ Ready'
  BY <1>1, <1>3, Walking DEF Ready
<1>6. /\ Top.table \in DOMAIN tables /\ Top.at \in DOMAIN tables[Top.table]
      /\ Top.table \in Nat /\ Top.at \in Nat /\ Len(stack) \in Nat \ {0}
  BY <1>1, <1>5, TopFrame
<1>7. PICK t, i : t = Top.table /\ i = Top.at
  OBVIOUS
<1>8. /\ n \in Nat \ {0} /\ n \notin DOMAIN tables
      /\ DOMAIN tables' = DOMAIN tables \cup {n}
      /\ \A u \in DOMAIN tables : DOMAIN tables'[u] = DOMAIN tables[u]
      /\ OneLink(t, i, n) /\ TreeInv'
  <2>1. tables' = Hung(t, i, n)
    BY <1>4, <1>7
  <2>2. t \in DOMAIN tables /\ i \in DOMAIN tables[t]
    BY <1>6, <1>7
  <2>3. QED
    BY <1>1, <1>2, <1>3, <1>5, <2>1, <2>2, TreeTable
<1>9. tables'[Top.table][Top.at] = [kind |-> "table", addr |-> n, perm |-> 0]
  BY <1>4, <1>6, <1>8 DEF Hung
<1>10. n \in DOMAIN tables' /\ DOMAIN tables'[n] = 0 .. Fan - 1
  BY <1>4 DEF Hung
<1>11. SameBut(tables', Top.table, Top.at)
  BY <1>4, <1>6, <1>8 DEF SameBut, Hung
<1>12. StackInv'
  <2>1. DOMAIN tables \subseteq DOMAIN tables' /\ n \in Nat
    BY <1>8
  <2>2. tables'[Top.table][Top.at].kind = "table" /\ tables'[Top.table][Top.at].addr = n
    BY <1>9
  <2>3. QED
    BY <1>1, <1>3, <1>8, <1>10, <1>11, <2>1, <2>2, Push
<1>13. LevelInv'
  <2>1. PICK lev : Levels(lev)
    BY <1>1 DEF LevelInv
  <2>2. lev[t] = l /\ lev[t] < 3 /\ t \in DOMAIN tables
    BY <1>3, <1>6, <1>7, <2>1 DEF Levels, Top
  <2> DEFINE f == Frame(n, l + 1, ipa)
  <2>3. f.table = n /\ f.level = l + 1
    BY DEF Frame
  <2>4. stack' = Append(stack, f)
    BY <1>3
  <2> HIDE DEF f
  <2>5. \A k \in 1 .. Len(stack') : stack'[k] = f \/ (k \in 1 .. Len(stack) /\ stack'[k] = stack[k])
    BY <1>1, <2>4, Pushed
  <2>6. \A k \in 1 .. Len(stack) : stack[k].table \in DOMAIN tables /\ lev[stack[k].table] = stack[k].level
    BY <1>1, <2>1 DEF Levels, StackInv, FrameOK
  <2>7. NewFrames(lev, t, n)
    BY <2>2, <2>3, <2>5, <2>6 DEF NewFrames
  <2>8. \A u, j \in Nat : Link(u, j) => tables[u][j].addr \in DOMAIN tables
    BY <1>1 DEF TreeInv
  <2> HIDE DEF l
  <2>9. QED
    BY <1>3, <1>8, <2>1, <2>2, <2>7, <2>8, LevelsTable
<1>14. NumInv'
  BY <1>1, <1>3, PushNum
<1>15. result' = "none"
  BY <1>1, <1>3 DEF DoneInv
<1>16. DoneInv'
  <2> SUFFICES ASSUME NEW p \in Space', req.ipa <= p, p < ipa
               PROVE  Translate(tables, p)' = Wanted(p)'
    BY <1>3, <1>15 DEF DoneInv
  <2>1. p \in Space /\ p \in Nat
    BY <1>1, <1>3, Fixed, Spaces
  <2>2. p \div Span(l) # ipa \div Span(l)
    BY <1>1, <1>3, <2>1, TableBehind
  <2>3. Translate(tables', p) = Translate(tables, p)
    <3> DEFINE T == tables'
    <3>1. T = Hung(Top.table, Top.at, n) /\ n \in Nat
      BY <1>4, <1>8
    <3> HIDE DEF T
    <3>2. Translate(T, p) = Translate(tables, p)
      BY <1>1, <1>3, <1>8, <2>1, <2>2, <3>1, TableEffect
    <3>3. QED
      BY <3>2 DEF T
  <2>4. Translate(tables, p) = Wanted(p)
    BY <1>1, <1>3, <2>1 DEF DoneInv
  <2>5. Translate(tables, p)' = Translate(tables', p) /\ Wanted(p)' = Wanted(p)
    BY <1>3, TranslateNext DEF Wanted
  <2>6. QED
    BY <2>3, <2>4, <2>5
<1>17. MapsRange'
  BY <1>15 DEF MapsRange
<1>18. QED
  BY <1>8, <1>12, <1>13, <1>14, <1>16, <1>17 DEF Inv

\* A step that changes neither tables nor VTCR_EL2 nor the request.
LEMMA SamePages ==
  ASSUME vtcr' = vtcr, tables' = tables, req' = req
  PROVE  /\ Width' = Width /\ Space' = Space
         /\ \A p : Translate(tables, p)' = Translate(tables, p)
         /\ \A p : (Wanted(p)' = Wanted(p)) /\ (InRange(p)' <=> InRange(p))
  BY Fixed, TranslateNext DEF Wanted, InRange

\* The empty stack, when no call runs.
LEMMA NoFrames ==
  ASSUME TreeInv, LevelInv, vtcr' = vtcr, tables' = tables, stack' = <<>>
  PROVE  LevelInv' /\ (pc' # "walk" => StackInv')
<1>1. PICK lev : Levels(lev)
  BY DEF LevelInv
<1>2. Len(stack') = 0
  OBVIOUS
<1>3. \A u, j \in Nat : Link(u, j)' => Link(u, j) /\ tables'[u][j] = tables[u][j]
  BY DEF Link
<1>4. LevelInv'
  BY <1>1, <1>2, <1>3, LevelsKept
<1>5. vtcr'.level \in {0, 1}
  BY Spans DEF TreeInv
<1>6. stack' \in Seq(Frame0) /\ Len(stack') <= 4 - vtcr'.level
  BY <1>2, <1>5
<1>7. QED
  BY <1>2, <1>4, <1>6 DEF StackInv

LEMMA StepBoot == ASSUME Inv, init_stage2_translation_table PROVE Inv'
<1>1. TreeInv /\ StackInv /\ LevelInv /\ NumInv /\ DoneInv /\ MapsRange
  BY DEF Inv
<1>2. /\ pc = "boot" /\ vtcr' = vtcr /\ req' = req /\ pa' = pa /\ ipa' = ipa
      /\ remaining' = remaining /\ stack' = stack /\ result' = result
      /\ pc' \in {"idle", "panic"}
  BY DEF init_stage2_translation_table
<1>3. stack' = <<>> /\ Len(stack') = 0 /\ vtcr \in Ranges
  BY <1>1, <1>2 DEF StackInv, TreeInv
<1>4. StackInv'
  <2>1. vtcr'.level \in {0, 1}
    BY <1>2, <1>3, Spans
  <2>2. QED
    BY <1>2, <1>3, <2>1 DEF StackInv
<1>5. NumInv' /\ DoneInv'
  BY <1>1, <1>2 DEF NumInv, DoneInv
<1>6. CASE pc' = "panic" /\ tables' = tables
  <2>1. TreeInv'
    BY <1>1, <1>2, <1>6, TreeKept DEF Ready
  <2>2. LevelInv'
    BY <1>1, <1>2, <1>3, <1>6, NoFrames
  <2>3. MapsRange'
    BY <1>1, <1>2, <1>6, SamePages DEF MapsRange
  <2>4. QED
    BY <1>4, <1>5, <2>1, <2>2, <2>3 DEF Inv
<1>7. CASE pc' = "idle" /\ tables' = [t \in {0} |-> [i \in 0 .. Count(vtcr.level) - 1 |-> Empty]]
  <2>1. TreeInv' /\ \A t, i \in Nat : ~Link(t, i)'
    BY <1>1, <1>2, <1>7, TreeFirst
  <2>2. LevelInv'
    <3>1. PICK lev : lev = [t \in {0} |-> vtcr.level]
      OBVIOUS
    <3>2. vtcr.level \in 0 .. 3
      <4>1. vtcr.level \in {0, 1}
        BY <1>3, Spans
      <4>2. QED
        BY <4>1
    <3>3. DOMAIN tables' = {0}
      BY <1>7
    <3>4. lev \in [DOMAIN tables' -> 0 .. 3] /\ lev[0] = vtcr'.level
      BY <1>2, <3>1, <3>2, <3>3
    <3>5. Levels(lev)'
      BY <1>3, <2>1, <3>4 DEF Levels
    <3>6. QED
      BY <3>4, <3>5 DEF LevelInv
  <2>3. MapsRange'
    BY <1>1, <1>2 DEF MapsRange, DoneInv
  <2>4. QED
    BY <1>4, <1>5, <2>1, <2>2, <2>3 DEF Inv
<1>8. QED
  BY <1>6, <1>7 DEF init_stage2_translation_table

LEMMA StepCall == ASSUME Inv, NEW r \in Requests, map_address_stage2(r) PROVE Inv'
<1>1. TreeInv /\ StackInv /\ LevelInv /\ NumInv /\ DoneInv
  BY DEF Inv
<1>2. pc = "idle" /\ vtcr' = vtcr /\ tables' = tables /\ req' = r
  BY DEF map_address_stage2
<1>3. vtcr \in Ranges /\ stack = <<>> /\ Ready
  BY <1>1, <1>2 DEF TreeInv, StackInv, Ready
<1>4. CASE ~r.whole
  <2>1. pc' = "idle" /\ pa' = pa /\ ipa' = ipa /\ remaining' = remaining /\ stack' = <<>> /\ result' = "err"
    BY <1>2, <1>3, <1>4 DEF map_address_stage2
  <2>2. TreeInv'
    BY <1>1, <1>2, <1>3, <2>1, TreeKept DEF Ready
  <2>3. LevelInv' /\ StackInv'
    BY <1>1, <1>2, <2>1, NoFrames
  <2>4. NumInv' /\ DoneInv' /\ MapsRange'
    BY <1>1, <2>1 DEF NumInv, DoneInv, MapsRange
  <2>5. QED
    BY <2>2, <2>3, <2>4 DEF Inv
<1>5. CASE r.whole
  <2> DEFINE lo == vtcr.level
             f == Frame(0, lo, r.ipa)
  <2>1. /\ pa' = r.pa /\ ipa' = r.ipa /\ remaining' = r.size /\ stack' = <<f>>
        /\ result' = "none" /\ pc' = "walk"
    BY <1>5 DEF map_address_stage2
  <2>2. r.pa \in Nat /\ r.ipa \in Nat /\ r.size \in Nat \ {0} /\ r.ipa < 2^vtcr.bits
    BY <1>3, PagingAssumption, RequestAssumption
  <2>3. lo \in {0, 1} /\ lo \in lo .. 3 /\ lo \in 0 .. 3
    <3>1. lo \in {0, 1}
      BY <1>3, Spans
    <3>2. QED
      BY <3>1
  <2>4. r.ipa < Width /\ Width' = Width /\ Width \in Nat
    <3>1. 2^vtcr.bits \in Nat /\ 2^vtcr.bits <= Width /\ Width \in Nat
      BY <1>3, Spans
    <3>2. QED
      BY <1>2, <2>2, <3>1, Fixed
  <2>5. TreeInv'
    BY <1>1, <1>2, <1>3, <2>1, TreeKept DEF Ready
  <2>6. 0 \in DOMAIN tables /\ DOMAIN tables[0] = 0 .. Count(lo) - 1
    <3>1. PICK n \in Nat \ {0} : DOMAIN tables = 0 .. n - 1
      BY <1>1, <1>3 DEF TreeInv, Ready
    <3>2. 0 \in DOMAIN tables
      BY <3>1
    <3>3. QED
      BY <1>1, <3>2 DEF TreeInv, Size
  <2>7. f.table = 0 /\ f.level = lo /\ f.at = Index(r.ipa, lo)
    BY DEF Frame, Index
  <2>8. Index(r.ipa, lo) \in Nat /\ Index(r.ipa, lo) \in DOMAIN tables[0]
    BY <1>1, <2>2, <2>3, <2>6, InTable
  <2>9. f \in Frame0
    BY <2>3, <2>8 DEF Frame0, Frame, Index
  <2> HIDE DEF f
  <2>10. stack' \in Seq(Frame0) /\ Len(stack') = 1 /\ stack'[1] = f /\ stack' # <<>>
    BY <2>1, <2>9
  <2>11. FrameOK(1)'
    <3>1. Index(Current, stack[1].level)' = Index(Current', stack'[1].level)
      BY <1>2 DEF Index, Count, number_of_concatenated_page_tables
    <3>2. Current' = r.ipa
      BY <2>1 DEF Current
    <3>3. stack'[1].level = vtcr'.level + 1 - 1
      <4>1. lo + 1 - 1 = lo /\ vtcr'.level = lo
        BY <1>2, <2>3
      <4>2. QED
        BY <2>7, <2>10, <4>1
    <3>4. stack'[1].at = Index(Current, stack[1].level)'
      BY <2>7, <2>10, <3>1, <3>2
    <3>5. /\ stack'[1].table \in DOMAIN tables' /\ stack'[1].at \in DOMAIN tables'[stack'[1].table]
          /\ stack'[1].table = 0 /\ ~(1 < Len(stack'))
      BY <1>2, <2>6, <2>7, <2>8, <2>10
    <3>6. QED
      BY <3>3, <3>4, <3>5 DEF FrameOK
  <2>12. \A k \in 1 .. Len(stack') : k = 1
    BY <2>10
  <2>13. StackInv'
    BY <1>2, <2>1, <2>3, <2>10, <2>11, <2>12 DEF StackInv
  <2>14. LevelInv'
    <3>1. PICK lev : Levels(lev)
      BY <1>1 DEF LevelInv
    <3>2. \A k \in 1 .. Len(stack') : lev[stack'[k].table] = stack'[k].level
      BY <2>6, <2>7, <2>10, <2>12, <3>1 DEF Levels
    <3>3. \A u, j \in Nat : Link(u, j)' => Link(u, j) /\ tables'[u][j] = tables[u][j]
      BY <1>2 DEF Link
    <3>4. QED
      BY <1>2, <3>1, <3>2, <3>3, LevelsKept
  <2>15. NumInv'
    <3>1. /\ r.ipa <= r.ipa /\ r.ipa <= Width /\ r.pa = r.pa + (r.ipa - r.ipa)
          /\ r.size = r.size - (r.ipa - r.ipa) /\ r.size > 0
      BY <2>2, <2>4
    <3>2. QED
      BY <1>2, <2>1, <2>2, <2>4, <3>1 DEF NumInv
  <2>16. DoneInv'
    <3>1. ASSUME NEW p \in Space' PROVE ~(r.ipa <= p /\ p < r.ipa)
      BY <2>2, <2>5, <1>1, <1>2, Fixed, Spaces
    <3>2. QED
      BY <1>2, <2>1, <3>1 DEF DoneInv
  <2>17. MapsRange'
    BY <2>1 DEF MapsRange
  <2>18. QED
    BY <2>5, <2>13, <2>14, <2>15, <2>16, <2>17 DEF Inv
<1>6. QED
  BY <1>4, <1>5

LEMMA StepNoTable == ASSUME Inv, NoTable PROVE Inv'
<1>1. TreeInv /\ StackInv /\ LevelInv /\ NumInv /\ DoneInv
  BY DEF Inv
<1>2. /\ pc = "walk" /\ pc' = "idle" /\ vtcr' = vtcr /\ tables' = tables /\ stack' = <<>>
      /\ pa' = pa /\ ipa' = ipa /\ remaining' = remaining /\ result' = "err"
  BY DEF NoTable, Descends
<1>3. TreeInv'
  BY <1>1, <1>2, TreeKept DEF Ready
<1>4. LevelInv' /\ StackInv'
  BY <1>1, <1>2, NoFrames
<1>5. NumInv' /\ DoneInv' /\ MapsRange'
  BY <1>1, <1>2 DEF NumInv, DoneInv, MapsRange
<1>6. QED
  BY <1>3, <1>4, <1>5 DEF Inv

\* The level of the frame at the top behind a step.
LEMMA TopNext ==
  ASSUME TreeInv', StackInv', vtcr' = vtcr, stack' # <<>>
  PROVE  Top'.level = vtcr.level + Len(stack') - 1
<1>1. stack' \in Seq(Frame0)
  BY DEF StackInv
<1>2. PICK n : n = Len(stack')
  OBVIOUS
<1>3. n \in 1 .. Len(stack')
  BY <1>1, <1>2
<1>4. FrameOK(n)'
  BY <1>3 DEF StackInv
<1>5. Top' = stack'[n]
  BY <1>2 DEF Top
<1>6. QED
  BY <1>2, <1>4, <1>5 DEF FrameOK

LEMMA StepNext == ASSUME Inv, NextDescriptor PROVE Inv'
<1> DEFINE lo == vtcr.level
           l == Top.level
<1>1. TreeInv /\ StackInv /\ LevelInv /\ NumInv /\ DoneInv
  BY DEF Inv
<1>2. /\ pc = "next" /\ stack # <<>> /\ vtcr' = vtcr /\ tables' = tables /\ req' = req
      /\ pa' = pa /\ ipa' = ipa /\ remaining' = remaining /\ result' = result
      /\ pc' \in {"walk", "next"}
  BY DEF NextDescriptor
<1>3. /\ Width' = Width /\ Space' = Space
      /\ \A p : Translate(tables, p)' = Translate(tables, p)
      /\ \A p : Wanted(p)' = Wanted(p)
  BY <1>2, SamePages
<1>4. TreeInv'
  BY <1>1, <1>2, TreeKept DEF Ready
<1>5. result' = "none"
  BY <1>1, <1>2 DEF DoneInv
<1>6. DoneInv' /\ MapsRange'
  BY <1>1, <1>2, <1>3, <1>5 DEF DoneInv, MapsRange
<1>7. PICK lev : Levels(lev)
  BY <1>1 DEF LevelInv
<1>8. \A u, j \in Nat : Link(u, j)' => Link(u, j) /\ tables'[u][j] = tables[u][j]
  BY <1>2 DEF Link
<1>9. /\ vtcr \in Ranges /\ lo \in {0, 1} /\ l \in lo .. 3 /\ l = lo + Len(stack) - 1
      /\ Len(stack) \in Nat \ {0} /\ Top.at = Index(Current, l) /\ Current = ipa - 1
  BY <1>1, <1>2, TopFrame, Spans DEF TreeInv, Current
<1>10. /\ req \in Requests /\ req.ipa \in Nat /\ ipa \in Nat \ {0} /\ ipa <= Width
       /\ remaining \in Nat /\ req.ipa < ipa
       /\ pa = req.pa + (ipa - req.ipa) /\ remaining = req.size - (ipa - req.ipa)
       /\ remaining = 0 \/ ipa % Span(l) = 0
  <2>1. /\ req \in Requests /\ ipa \in Nat /\ req.ipa < ipa /\ ipa <= Width /\ remaining \in Nat
        /\ pa = req.pa + (ipa - req.ipa) /\ remaining = req.size - (ipa - req.ipa)
        /\ remaining = 0 \/ ipa % Span(l) = 0
    BY <1>1, <1>2 DEF NumInv
  <2>2. req.ipa \in Nat
    BY <2>1, PagingAssumption
  <2>3. QED
    BY <2>1, <2>2
<1>11. CASE remaining = 0 \/ Top.at = Count(l) - 1
  <2>1. stack' = Rest /\ pc' = "next"
    BY <1>2, <1>11 DEF NextDescriptor
  <2>2. /\ StackInv' /\ Len(stack') = Len(stack) - 1
        /\ \A k \in 1 .. Len(stack') : k \in 1 .. Len(stack) /\ stack'[k] = stack[k]
    BY <1>1, <1>2, <2>1, Pop
  <2>3. LevelInv'
    <3>1. \A k \in 1 .. Len(stack') : lev[stack'[k].table] = stack'[k].level
      BY <1>7, <2>2 DEF Levels
    <3>2. QED
      BY <1>2, <1>7, <1>8, <3>1, LevelsKept
  <2>4. remaining = 0 \/ (IF stack' = <<>> THEN ipa = Width ELSE ipa % Span(Top'.level) = 0)
    <3> SUFFICES ASSUME remaining # 0
                 PROVE  IF stack' = <<>> THEN ipa = Width ELSE ipa % Span(Top'.level) = 0
      OBVIOUS
    <3>1. Index(ipa - 1, l) = Count(l) - 1 /\ ipa % Span(l) = 0
      BY <1>9, <1>10, <1>11
    <3>2. IF l = lo THEN ipa = Width ELSE ipa % Span(l - 1) = 0
      BY <1>9, <1>10, <3>1, NextIndex
    <3>3. CASE stack' = <<>>
      <4>1. Len(stack) = 1
        BY <1>9, <2>2, <3>3
      <4>2. l = lo
        BY <1>9, <4>1
      <4>3. QED
        BY <3>2, <3>3, <4>2
    <3>4. CASE stack' # <<>>
      <4>1. Len(stack') \in Nat \ {0}
        BY <2>2, <3>4 DEF StackInv
      <4>2. Top'.level = lo + Len(stack') - 1
        BY <1>2, <1>4, <2>2, <3>4, TopNext
      <4>3. Top'.level = l - 1 /\ l # lo
        BY <1>9, <2>2, <4>1, <4>2, SMTT(30)
      <4>4. QED
        BY <3>2, <3>4, <4>3
    <3>5. QED
      BY <3>3, <3>4
  <2>5. NumInv'
    <3>1. /\ pa \in Nat /\ ipa \in Nat /\ req.ipa <= ipa
      BY <1>1, <1>10 DEF NumInv
    <3>2. Span(Top.level)' = Span(Top'.level)
      BY DEF Span
    <3>3. QED
      BY <1>2, <1>3, <1>10, <2>1, <2>4, <3>1, <3>2 DEF NumInv
  <2>6. QED
    BY <1>4, <1>6, <2>2, <2>3, <2>5 DEF Inv
<1>12. CASE ~(remaining = 0 \/ Top.at = Count(l) - 1)
  <2>1. stack' = [stack EXCEPT ![Len(stack)].at = @ + 1] /\ pc' = "walk"
    BY <1>2, <1>12 DEF NextDescriptor
  <2>2. /\ StackInv' /\ ipa < Width /\ ipa % Span(l) = 0
        /\ Len(stack') = Len(stack) /\ Top'.level = l
        /\ \A k \in 1 .. Len(stack) :
             stack'[k].table = stack[k].table /\ stack'[k].level = stack[k].level
    BY <1>1, <1>2, <1>12, <2>1, Advance
  <2>3. LevelInv'
    <3>1. \A k \in 1 .. Len(stack') : lev[stack'[k].table] = stack'[k].level
      BY <1>7, <2>2 DEF Levels
    <3>2. QED
      BY <1>2, <1>7, <1>8, <3>1, LevelsKept
  <2>4. NumInv'
    <3>1. pa \in Nat /\ req.ipa <= ipa /\ remaining > 0 /\ Span(Top.level)' = Span(l)
      BY <1>1, <1>10, <1>12, <2>2 DEF NumInv, Span
    <3>2. QED
      BY <1>2, <1>3, <1>10, <2>1, <2>2, <3>1 DEF NumInv
  <2>5. QED
    BY <1>4, <1>6, <2>2, <2>3, <2>4 DEF Inv
<1>13. QED
  BY <1>11, <1>12

LEMMA StepReturn == ASSUME Inv, Return PROVE Inv'
<1>1. TreeInv /\ StackInv /\ LevelInv /\ NumInv /\ DoneInv
  BY DEF Inv
<1>2. /\ pc = "next" /\ stack = <<>> /\ vtcr' = vtcr /\ tables' = tables /\ req' = req
      /\ pa' = pa /\ ipa' = ipa /\ remaining' = remaining /\ stack' = stack
      /\ pc' = "idle" /\ result' = "ok"
  BY DEF Return
<1>3. /\ Space' = Space /\ \A p : Translate(tables, p)' = Translate(tables, p)
      /\ \A p : (Wanted(p)' = Wanted(p)) /\ (InRange(p)' <=> InRange(p))
  BY <1>2, SamePages
<1>4. TreeInv'
  BY <1>1, <1>2, TreeKept DEF Ready
<1>5. LevelInv' /\ StackInv'
  BY <1>1, <1>2, NoFrames
<1>6. NumInv' /\ DoneInv'
  BY <1>1, <1>2 DEF NumInv, DoneInv
<1>7. ASSUME NEW p \in Space, InRange(p) PROVE Translate(tables, p) = Wanted(p)
  <2>1. p \in Nat /\ p < Width /\ req.ipa <= p /\ p < req.ipa + req.size
    BY <1>1, <1>7, Spaces DEF InRange
  <2>2. /\ req \in Requests /\ ipa \in Nat /\ remaining = req.size - (ipa - req.ipa)
        /\ remaining = 0 \/ ipa = Width
    BY <1>1, <1>2 DEF NumInv
  <2>3. req.ipa \in Nat /\ req.size \in Nat
    BY <2>2, PagingAssumption
  <2>4. p < ipa
    BY <2>1, <2>2, <2>3
  <2>5. QED
    BY <1>1, <1>2, <2>1, <2>4 DEF DoneInv
<1>8. MapsRange'
  BY <1>3, <1>7 DEF MapsRange
<1>9. QED
  BY <1>4, <1>5, <1>6, <1>8 DEF Inv

-----------------------------------------------------------------------------
(* The theorems *)

\* A page or block descriptor is written where the whole of what it stands for is
\* asked for.
LEMMA LeafStep ==
  ASSUME Inv, PutPage \/ PutBlock
  PROVE  /\ pc = "walk" /\ ipa % Span(Top.level) = 0 /\ remaining >= Span(Top.level)
         /\ \E kind : <<kind, Top.level>> \in Leaves /\ PutLeaf(kind)
<1>1. TreeInv /\ StackInv /\ NumInv
  BY DEF Inv
<1>2. CASE PutPage
  <2>1. pc = "walk" /\ Top.level = 3 /\ PutLeaf("page")
    BY <1>2 DEF PutPage
  <2>2. vtcr \in Ranges /\ ipa \in Nat /\ remaining \in Nat /\ remaining > 0
    BY <1>1, <2>1 DEF TreeInv, NumInv
  <2>3. Span(Top.level) = 1
    BY <2>1, <2>2, Spans
  <2>4. ipa % Span(Top.level) = 0 /\ remaining >= Span(Top.level)
    BY <2>2, <2>3
  <2>5. <<"page", Top.level>> \in Leaves
    BY <2>1 DEF Leaves
  <2>6. QED
    BY <2>1, <2>4, <2>5
<1>3. CASE PutBlock
  <2>1. /\ pc = "walk" /\ Top.level \in {1, 2} /\ PutLeaf("block")
        /\ remaining >= Span(Top.level) /\ ipa % Span(Top.level) = 0
    BY <1>3 DEF PutBlock, BlockFits
  <2>2. <<"block", Top.level>> \in Leaves
    BY <2>1 DEF Leaves
  <2>3. QED
    BY <2>1, <2>2
<1>4. QED
  BY <1>2, <1>3

\* Every step of the paging code keeps the tables a tree, the frames of
\* _map_address_stage2 on one path through it, and the pages behind it mapped.
THEOREM Invariance == Spec => []Inv
<1>1. Inv /\ [Next]_vars => Inv'
  <2> SUFFICES ASSUME Inv, [Next]_vars PROVE Inv'
    OBVIOUS
  <2>1. CASE init_stage2_translation_table
    BY <2>1, StepBoot
  <2>2. CASE \E r \in Requests : map_address_stage2(r)
    BY <2>2, StepCall
  <2>3. CASE PutPage \/ PutBlock
    BY <2>3, LeafStep, StepLeaf
  <2>4. CASE Descend
    BY <2>4, StepDescend
  <2>5. CASE NewTable
    BY <2>5, StepTable
  <2>6. CASE NoTable
    BY <2>6, StepNoTable
  <2>7. CASE NextDescriptor
    BY <2>7, StepNext
  <2>8. CASE Return
    BY <2>8, StepReturn
  <2>9. CASE UNCHANGED vars
    <3>1. /\ pc' = pc /\ vtcr' = vtcr /\ tables' = tables /\ req' = req /\ pa' = pa /\ ipa' = ipa
          /\ remaining' = remaining /\ stack' = stack /\ result' = result
      BY <2>9 DEF vars
    <3>2. TreeInv' /\ LevelInv'
      BY <3>1 DEF Inv, TreeInv, LevelInv, Levels, Link, Size, Count, number_of_concatenated_page_tables
    <3>3. StackInv'
      BY <3>1 DEF Inv, StackInv, FrameOK, Current, Index, Count, number_of_concatenated_page_tables
    <3>4. NumInv'
      BY <3>1, Fixed DEF Inv, NumInv, Top
    <3>5. DoneInv' /\ MapsRange'
      BY <3>1, SamePages DEF Inv, DoneInv, MapsRange
    <3>6. QED
      BY <3>2, <3>3, <3>4, <3>5 DEF Inv
  <2>10. QED
    BY <2>1, <2>2, <2>3, <2>4, <2>5, <2>6, <2>7, <2>8, <2>9 DEF Next
<1>2. QED
  BY <1>1, InitInv, PTL DEF Spec

\* When map_address_stage2 has returned Ok, every page of the range is translated
\* as it was asked for: for tables and address spaces of every size.
THEOREM RangeIsMapped == Spec => []MapsRange
<1>1. Inv => MapsRange
  BY DEF Inv
<1>2. QED
  BY <1>1, Invariance, PTL

\* The tables that the paging code links are a tree, whatever calls it gets and
\* wherever it runs out of memory.
THEOREM AlwaysTree == Spec => []TablesTree
<1>1. Inv => TablesTree
  <2> SUFFICES ASSUME Inv PROVE TablesTree
    OBVIOUS
  <2> DEFINE links == {a \in UNION {{t} \X DOMAIN tables[t] : t \in DOMAIN tables} :
                         tables[a[1]][a[2]].kind = "table"}
  <2>1. TreeInv /\ LevelInv
    BY DEF Inv
  <2>2. PICK lev : Levels(lev)
    BY <2>1 DEF LevelInv
  <2>3. ASSUME NEW a \in links
        PROVE  /\ a[1] \in Nat /\ a[2] \in Nat /\ Link(a[1], a[2]) /\ a = <<a[1], a[2]>>
               /\ tables[a[1]][a[2]].addr \in DOMAIN tables \ {0, a[1]}
    <3>1. PICK t \in DOMAIN tables : a \in {t} \X DOMAIN tables[t]
      OBVIOUS
    <3>2. a[1] = t /\ a[2] \in DOMAIN tables[t] /\ a = <<a[1], a[2]>>
      BY <3>1
    <3>3. t \in Nat
      BY <2>1, <3>1 DEF TreeInv
    <3>4. a[2] \in Nat
      <4>1. vtcr \in Ranges
        BY <2>1 DEF TreeInv
      <4>2. vtcr.level \in {0, 1} /\ Fan \in Nat
        BY <4>1, Spans
      <4>3. Count(vtcr.level) \in Nat
        BY <4>1, <4>2, Spans
      <4>4. Size(t) \in Nat
        BY <4>2, <4>3 DEF Size
      <4>5. DOMAIN tables[t] = 0 .. Size(t) - 1
        BY <2>1, <3>1 DEF TreeInv
      <4>6. QED
        BY <3>2, <4>4, <4>5
    <3>5. Link(t, a[2])
      BY <3>1, <3>2 DEF Link
    <3>6. tables[t][a[2]].addr \in DOMAIN tables \ {0}
      BY <2>1, <3>3, <3>4, <3>5 DEF TreeInv
    <3>7. lev[tables[t][a[2]].addr] = lev[t] + 1 /\ lev[t] \in 0 .. 3
      BY <2>2, <3>1, <3>3, <3>4, <3>5 DEF Levels
    <3>8. QED
      BY <3>2, <3>3, <3>4, <3>5, <3>6, <3>7
  <2>4. ASSUME NEW a \in links, NEW b \in links,
               tables[a[1]][a[2]].addr = tables[b[1]][b[2]].addr
        PROVE  a = b
    <3>1. a[1] = b[1] /\ a[2] = b[2]
      BY <2>1, <2>3, <2>4 DEF TreeInv
    <3>2. QED
      BY <2>3, <3>1
  <2>5. QED
    BY <2>3, <2>4 DEF TablesTree
<1>2. QED
  BY <1>1, Invariance, PTL

\* No step of a call translates a page of another range anew: it keeps its
\* translation, or loses it with a block that becomes a table.
THEOREM OthersAreKept == Spec => OthersKept
<1>1. Inv /\ [Next]_vars => [stack # <<>> => \A p \in Space : KeepsOthers(p)]_tables
  <2> SUFFICES ASSUME Inv, [Next]_vars, tables' # tables, stack # <<>>, NEW p \in Space
               PROVE  KeepsOthers(p)
    OBVIOUS
  <2>1. TreeInv /\ StackInv /\ LevelInv /\ NumInv
    BY DEF Inv
  <2>2. PutPage \/ PutBlock \/ NewTable
    <3>1. ~init_stage2_translation_table
      BY <2>1 DEF init_stage2_translation_table, StackInv
    <3>2. QED
      BY <3>1 DEF Next, vars, map_address_stage2, Descend, NoTable, NextDescriptor, Return
  <2> DEFINE T == tables'
             l == Top.level
  <2>3. CASE PutPage \/ PutBlock
    <3>1. /\ pc = "walk" /\ ipa % Span(l) = 0 /\ remaining >= Span(l)
          /\ \E kind : <<kind, l>> \in Leaves /\ PutLeaf(kind)
      BY <2>3, LeafStep
    <3>2. PICK kind : <<kind, l>> \in Leaves /\ PutLeaf(kind)
      BY <3>1
    <3>3. T = [tables EXCEPT ![Top.table][Top.at] = [kind |-> kind, addr |-> pa, perm |-> req.perm]]
      BY <3>2 DEF PutLeaf
    <3> HIDE DEF T
    <3>4. (InRange(p) /\ Translate(T, p) = Wanted(p)) \/ Translate(T, p) = Translate(tables, p)
      BY <2>1, <3>1, <3>2, <3>3, LeafEffect
    <3>5. QED
      BY <3>4 DEF KeepsOthers, T
  <2>4. CASE NewTable
    <3>1. PICK n : n = Cardinality(DOMAIN tables)
      OBVIOUS
    <3>2. pc = "walk" /\ l < 3 /\ Descriptor.kind # "table" /\ T = Hung(Top.table, Top.at, n)
      BY <2>4, <3>1 DEF NewTable, Descends, Hung
    <3>3. n \in Nat /\ n \notin DOMAIN tables
      <4>1. PICK m \in Nat \ {0} : DOMAIN tables = 0 .. m - 1
        BY <2>1, <3>2 DEF TreeInv
      <4>2. n = m
        BY <3>1, <4>1, Number
      <4>3. QED
        BY <4>1, <4>2
    <3> HIDE DEF T
    <3>4. IF p \div Span(l) = ipa \div Span(l)
          THEN /\ Translate(T, p) = Fault
               /\ Translate(tables, p) = Fault \/ l \in LeafLevels(tables, p)
          ELSE Translate(T, p) = Translate(tables, p)
      BY <2>1, <3>2, <3>3, TableEffect
    <3>5. QED
      BY <3>4 DEF KeepsOthers, T
  <2>5. QED
    BY <2>2, <2>3, <2>4
<1>2. QED
  BY <1>1, Invariance, PTL DEF Spec, OthersKept
=============================================================================
