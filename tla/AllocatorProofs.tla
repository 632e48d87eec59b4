-------------------------- MODULE AllocatorProofs --------------------------
(***************************************************************************)
(* Proofs about Allocator: for every heap, node layout and set of requests *)
(* the free list keeps its regions and the callers' blocks apart, hence    *)
(* implements Heap.                                                        *)
(***************************************************************************)
EXTENDS Allocator, SequenceTheorems, TLAPS

-----------------------------------------------------------------------------
(* Arithmetic *)

\* Division with remainder.
LEMMA DivMod ==
  ASSUME NEW x \in Nat, NEW a \in Nat \ {0}
  PROVE  /\ x \div a \in Nat
         /\ x % a \in Nat
         /\ x % a < a
         /\ x = a * (x \div a) + (x % a)
OBVIOUS

\* A multiple leaves no remainder.
LEMMA MultipleMod ==
  ASSUME NEW k \in Nat, NEW a \in Nat \ {0}
  PROVE  (k * a) % a = 0
OBVIOUS

\* A number without remainder is a multiple.
LEMMA ModMultiple ==
  ASSUME NEW x \in Nat, NEW a \in Nat \ {0}, x % a = 0
  PROVE  \E k \in Nat : x = k * a
<1>1. x = a * (x \div a) + (x % a) /\ x \div a \in Nat  BY DivMod
<1> QED  BY <1>1

\* Divisibility is transitive.
LEMMA ModTransitive ==
  ASSUME NEW x \in Nat, NEW a \in Nat \ {0}, NEW n \in Nat \ {0},
         x % a = 0, a % n = 0
  PROVE  x % n = 0
<1>1. PICK k \in Nat : x = k * a  BY ModMultiple
<1>2. PICK l \in Nat : a = l * n  BY ModMultiple
<1>3. x = (k * l) * n /\ k * l \in Nat  BY <1>1, <1>2
<1> QED  BY <1>3, MultipleMod

\* The sum of two multiples is one.
LEMMA ModSum ==
  ASSUME NEW x \in Nat, NEW y \in Nat, NEW n \in Nat \ {0}, x % n = 0, y % n = 0
  PROVE  (x + y) % n = 0
<1>1. PICK k \in Nat : x = k * n  BY ModMultiple
<1>2. PICK l \in Nat : y = l * n  BY ModMultiple
<1>3. x + y = (k + l) * n /\ k + l \in Nat  BY <1>1, <1>2
<1> QED  BY <1>3, MultipleMod

\* align_up returns the next multiple.
LEMMA AlignUp ==
  ASSUME NEW x \in Nat, NEW a \in Nat \ {0}
  PROVE  /\ align_up(x, a) \in Nat
         /\ x <= align_up(x, a)
         /\ align_up(x, a) < x + a
         /\ align_up(x, a) % a = 0
<1> DEFINE y == x + a - 1
           q == y \div a
<1>1. y \in Nat  OBVIOUS
<1>2. q \in Nat /\ y % a \in Nat /\ y % a < a /\ y = a * q + (y % a)  BY <1>1, DivMod
<1>3. align_up(x, a) = q * a  BY DEF align_up
<1>4. q * a \in Nat /\ q * a = a * q  BY <1>2
<1>5. (q * a) % a = 0  BY <1>2, MultipleMod
<1> HIDE DEF q
<1> QED  BY <1>1, <1>2, <1>3, <1>4, <1>5

\* align_up leaves a multiple where it is.
LEMMA AlignUpMultiple ==
  ASSUME NEW x \in Nat, NEW a \in Nat \ {0}, x % a = 0
  PROVE  align_up(x, a) = x
<1>1. PICK k \in Nat : x = k * a  BY ModMultiple
<1>2. (k * a + a - 1) \div a = k  OBVIOUS
<1> QED  BY <1>1, <1>2 DEF align_up

\* size_align, the size: it covers the request and a node, and keeps the alignment.
LEMMA SizeRounded ==
  ASSUME NEW req \in Sizes
  PROVE  /\ RoundedSize(req) \in Nat
         /\ RoundedSize(req) >= req
         /\ RoundedSize(req) >= NodeSize
         /\ RoundedSize(req) % NodeAlign = 0
<1> DEFINE m == IF req >= NodeSize THEN req ELSE NodeSize
<1>1. req \in Nat /\ NodeSize \in Nat /\ NodeAlign \in Nat \ {0}
  BY NodeAssumption, RequestAssumption
<1>2. m \in Nat /\ m >= req /\ m >= NodeSize  BY <1>1
<1>3. RoundedSize(req) = align_up(m, NodeAlign)  BY DEF RoundedSize
<1> HIDE DEF m
<1>4. /\ align_up(m, NodeAlign) \in Nat
      /\ m <= align_up(m, NodeAlign)
      /\ align_up(m, NodeAlign) % NodeAlign = 0
  BY <1>1, <1>2, AlignUp
<1> QED  BY <1>1, <1>2, <1>3, <1>4

\* size_align, the alignment: it implies the node's and the requested one.
LEMMA AlignUsed ==
  ASSUME NEW a \in Aligns
  PROVE  /\ UsedAlign(a) \in Nat \ {0}
         /\ UsedAlign(a) % NodeAlign = 0
         /\ UsedAlign(a) % a = 0
<1>1. a \in Nat \ {0} /\ NodeAlign \in Nat \ {0}  BY NodeAssumption, RequestAssumption
<1>2. a % NodeAlign = 0 \/ NodeAlign % a = 0  BY RequestAssumption
<1>3. a % a = 0 /\ NodeAlign % NodeAlign = 0  BY <1>1
<1>4. CASE a >= NodeAlign
  <2>1. a % NodeAlign = 0
    <3>1. CASE NodeAlign % a = 0
      <4>1. CASE a > NodeAlign
        <5>1. NodeAlign % a = NodeAlign  BY <1>1, <4>1
        <5> QED  BY <1>1, <3>1, <5>1
      <4> QED  BY <1>1, <1>3, <1>4, <4>1
    <3> QED  BY <1>2, <3>1
  <2> QED  BY <1>1, <1>3, <1>4, <2>1 DEF UsedAlign
<1>5. CASE a < NodeAlign
  <2>1. NodeAlign % a = 0
    <3>1. CASE a % NodeAlign = 0
      <4>1. a % NodeAlign = a  BY <1>1, <1>5
      <4> QED  BY <1>1, <3>1, <4>1
    <3> QED  BY <1>2, <3>1
  <2> QED  BY <1>1, <1>3, <1>5, <2>1 DEF UsedAlign
<1> QED  BY <1>1, <1>4, <1>5

-----------------------------------------------------------------------------
(* The free list *)

\* What the invariant says of a list alone.
GoodRegion(r) == Within(r) /\ r.start % NodeAlign = 0 /\ r.size >= NodeSize

GoodList(s) ==
  /\ \A i \in DOMAIN s : GoodRegion(s[i])
  /\ \A i, j \in DOMAIN s : i # j => Separate(s[i], s[j])

\* Taking a region out leaves the others, once each.
LEMMA UnlinkedList ==
  ASSUME NEW s \in Seq(Region), NEW i \in DOMAIN s
  PROVE  /\ Unlinked(s, i) \in Seq(Region)
         /\ Len(Unlinked(s, i)) = Len(s) - 1
         /\ \A k \in 1 .. Len(s) - 1 :
              Unlinked(s, i)[k] = IF k < i THEN s[k] ELSE s[k + 1]
<1> DEFINE u == SubSeq(s, 1, i - 1)
           v == SubSeq(s, i + 1, Len(s))
<1>1. i \in 1 .. Len(s) /\ Len(s) \in Nat  OBVIOUS
<1>2. u \in Seq(Region) /\ Len(u) = i - 1 /\ \A k \in 1 .. i - 1 : u[k] = s[k]
  BY <1>1
<1>3. /\ v \in Seq(Region) /\ Len(v) = Len(s) - i
      /\ \A k \in 1 .. Len(s) - i : v[k] = s[k + i]
  BY <1>1
<1>4. Unlinked(s, i) = u \o v  BY DEF Unlinked
<1> HIDE DEF u, v
<1>5. u \o v \in Seq(Region) /\ Len(u \o v) = Len(s) - 1  BY <1>1, <1>2, <1>3
<1>6. ASSUME NEW k \in 1 .. Len(s) - 1
      PROVE  (u \o v)[k] = IF k < i THEN s[k] ELSE s[k + 1]
  <2>1. CASE k < i  BY <1>1, <1>2, <1>3, <2>1
  <2>2. CASE k >= i
    <3>0. k \in 1 .. Len(u) + Len(v) /\ ~(k <= Len(u))  BY <1>1, <1>2, <1>3, <2>2
    <3>1. (u \o v)[k] = v[k - Len(u)]  BY <1>2, <1>3, <3>0, ConcatProperties
    <3>2. k - Len(u) \in 1 .. Len(s) - i /\ (k - Len(u)) + i = k + 1
      BY <1>1, <1>2, <2>2
    <3>3. v[k - Len(u)] = s[k + 1]  BY <1>3, <3>2
    <3>4. ~(k < i)  BY <1>1, <2>2
    <3> QED  BY <3>1, <3>3, <3>4
  <2>3. k < i \/ k >= i  BY <1>1
  <2> QED  BY <2>1, <2>2, <2>3
<1> QED  BY <1>4, <1>5, <1>6

\* The same as facts about the elements.
LEMMA UnlinkedElements ==
  ASSUME NEW s \in Seq(Region), NEW i \in DOMAIN s
  PROVE  LET t == Unlinked(s, i) IN
         /\ t \in Seq(Region)
         /\ \A k \in DOMAIN t : \E j \in DOMAIN s : j # i /\ t[k] = s[j]
         /\ \A k, l \in DOMAIN t : k # l =>
              \E j, m \in DOMAIN s : j # m /\ t[k] = s[j] /\ t[l] = s[m]
         /\ \A j \in DOMAIN s : j # i => \E k \in DOMAIN t : t[k] = s[j]
<1> DEFINE t == Unlinked(s, i)
           from(k) == IF k < i THEN k ELSE k + 1
<1>1. i \in 1 .. Len(s) /\ DOMAIN s = 1 .. Len(s) /\ Len(s) \in Nat  OBVIOUS
<1>2. t \in Seq(Region) /\ DOMAIN t = 1 .. Len(s) - 1  BY <1>1, UnlinkedList
<1>3. ASSUME NEW k \in DOMAIN t
      PROVE  from(k) \in DOMAIN s /\ from(k) # i /\ t[k] = s[from(k)]
  <2>1. t[k] = IF k < i THEN s[k] ELSE s[k + 1]  BY <1>2, UnlinkedList
  <2>2. from(k) \in DOMAIN s /\ from(k) # i  BY <1>1, <1>2
  <2> QED  BY <2>1, <2>2
<1>4. \A k, l \in DOMAIN t : k # l => from(k) # from(l)  BY <1>1, <1>2
<1>5. ASSUME NEW j \in DOMAIN s, j # i
      PROVE  \E k \in DOMAIN t : t[k] = s[j]
  <2>1. CASE j < i  BY <1>1, <1>2, <1>3, <2>1
  <2>2. CASE j > i
    <3>1. j - 1 \in DOMAIN t /\ from(j - 1) = j  BY <1>1, <1>2, <2>2
    <3> QED  BY <1>3, <3>1
  <2> QED  BY <1>1, <1>5, <2>1, <2>2
<1> HIDE DEF t, from
<1>6. \A k \in DOMAIN t : \E j \in DOMAIN s : j # i /\ t[k] = s[j]  BY <1>3
<1>7. \A k, l \in DOMAIN t : k # l =>
        \E j, m \in DOMAIN s : j # m /\ t[k] = s[j] /\ t[l] = s[m]
  BY <1>3, <1>4
<1> QED  BY <1>2, <1>5, <1>6, <1>7 DEF t

\* Linking puts the new region in front of the others.
LEMMA LinkedElements ==
  ASSUME NEW s \in Seq(Region), NEW start \in Nat, NEW size \in Nat
  PROVE  LET t == Linked(s, start, size) IN
         /\ t \in Seq(Region)
         /\ DOMAIN t = 1 .. Len(s) + 1
         /\ t[1] = [start |-> start, size |-> size]
         /\ \A k \in DOMAIN t : k # 1 => k - 1 \in DOMAIN s /\ t[k] = s[k - 1]
         /\ \A j \in DOMAIN s : j + 1 \in DOMAIN t /\ t[j + 1] = s[j]
<1> DEFINE e == [start |-> start, size |-> size]
<1>1. e \in Region  BY DEF Region
<1> HIDE DEF e
<1>2. Linked(s, start, size) = <<e>> \o s  BY DEF Linked, e
<1>3. <<e>> \in Seq(Region) /\ Len(<<e>>) = 1 /\ <<e>>[1] = e  BY <1>1
<1>4. Len(s) \in Nat /\ DOMAIN s = 1 .. Len(s)  OBVIOUS
<1>5. <<e>> \o s \in Seq(Region) /\ Len(<<e>> \o s) = Len(s) + 1  BY <1>3, <1>4
<1>6. \A k \in 1 .. Len(s) + 1 : (<<e>> \o s)[k] = IF k <= 1 THEN e ELSE s[k - 1]
  BY <1>3, <1>4
<1> QED  BY <1>2, <1>4, <1>5, <1>6 DEF e

\* Linking keeps the regions that were in the list.
LEMMA LinkedKeeps ==
  ASSUME NEW s \in Seq(Region), NEW start \in Nat, NEW size \in Nat
  PROVE  \A j \in DOMAIN s : \E k \in DOMAIN Linked(s, start, size) :
           Linked(s, start, size)[k] = s[j]
<1> DEFINE t == Linked(s, start, size)
           e == [start |-> start, size |-> size]
<1>1. /\ t \in Seq(Region) /\ t[1] = e
      /\ \A k \in DOMAIN t : k # 1 => k - 1 \in DOMAIN s /\ t[k] = s[k - 1]
      /\ DOMAIN t = 1 .. Len(s) + 1
  BY LinkedElements
<1> HIDE DEF t
<1>2. ASSUME NEW j \in DOMAIN s  PROVE \E k \in DOMAIN t : t[k] = s[j]
  <2>1. j \in 1 .. Len(s) /\ Len(s) \in Nat  OBVIOUS
  <2>2. j + 1 \in DOMAIN t /\ j + 1 # 1 /\ (j + 1) - 1 = j  BY <1>1, <2>1
  <2> QED  BY <1>1, <2>2
<1> QED  BY <1>2 DEF t

\* A good region that is apart from a good list can be linked.
LEMMA LinkGood ==
  ASSUME NEW s \in Seq(Region), GoodList(s), NEW start \in Nat, NEW size \in Nat,
         GoodRegion([start |-> start, size |-> size]),
         \A j \in DOMAIN s : Separate([start |-> start, size |-> size], s[j])
  PROVE  GoodList(Linked(s, start, size))
<1> DEFINE t == Linked(s, start, size)
           e == [start |-> start, size |-> size]
<1>1. /\ t \in Seq(Region) /\ t[1] = e
      /\ \A k \in DOMAIN t : k # 1 => k - 1 \in DOMAIN s /\ t[k] = s[k - 1]
      /\ DOMAIN t = 1 .. Len(s) + 1
  BY LinkedElements
<1> HIDE DEF t
<1>2. ASSUME NEW k \in DOMAIN t  PROVE GoodRegion(t[k])
  BY <1>1 DEF GoodList
<1>3. ASSUME NEW k \in DOMAIN t, NEW l \in DOMAIN t, k # l
      PROVE  Separate(t[k], t[l])
  <2>1. CASE k = 1
    <3>1. l - 1 \in DOMAIN s /\ t[l] = s[l - 1]  BY <1>1, <1>3, <2>1
    <3> QED  BY <1>1, <2>1, <3>1
  <2>2. CASE l = 1
    <3>1. k - 1 \in DOMAIN s /\ t[k] = s[k - 1]  BY <1>1, <1>3, <2>2
    <3>2. Separate(e, s[k - 1])  BY <3>1
    <3> QED  BY <1>1, <2>2, <3>1, <3>2 DEF Separate
  <2>3. CASE k # 1 /\ l # 1
    <3>1. k - 1 \in DOMAIN s /\ t[k] = s[k - 1]  BY <1>1, <2>3
    <3>2. l - 1 \in DOMAIN s /\ t[l] = s[l - 1]  BY <1>1, <2>3
    <3>3. k - 1 # l - 1  BY <1>1, <1>3
    <3> QED  BY <3>1, <3>2, <3>3 DEF GoodList
  <2> QED  BY <2>1, <2>2, <2>3
<1> QED  BY <1>2, <1>3 DEF GoodList, t

\* Unlinking keeps a list good and its regions apart from the one taken out.
LEMMA UnlinkGood ==
  ASSUME NEW s \in Seq(Region), GoodList(s), NEW i \in DOMAIN s
  PROVE  /\ GoodList(Unlinked(s, i))
         /\ \A k \in DOMAIN Unlinked(s, i) : Separate(s[i], Unlinked(s, i)[k])
<1> DEFINE t == Unlinked(s, i)
<1>1. /\ \A k \in DOMAIN t : \E j \in DOMAIN s : j # i /\ t[k] = s[j]
      /\ \A k, l \in DOMAIN t : k # l =>
           \E j, m \in DOMAIN s : j # m /\ t[k] = s[j] /\ t[l] = s[m]
  BY UnlinkedElements
<1> HIDE DEF t
<1> QED  BY <1>1 DEF GoodList, t

-----------------------------------------------------------------------------
(* The steps *)

\* What alloc cuts out of a valid region: an aligned block and a good rest.
LEMMA Cut ==
  ASSUME NEW r \in Region, GoodRegion(r), NEW req \in Sizes, NEW align \in Aligns,
         Valid(r, RoundedSize(req), UsedAlign(align))
  PROVE  LET size  == RoundedSize(req)
             used  == UsedAlign(align)
             start == AllocStart(r, used)
             rest  == Excess(r, size, used)
         IN
         /\ size \in Nat /\ start \in Nat /\ rest \in Nat
         /\ size >= NodeSize
         /\ r.start <= start
         /\ start < r.start + used
         /\ start + size + rest = End(r)
         /\ start % used = 0
         /\ rest > 0 => GoodRegion([start |-> start + size, size |-> rest])
<1> DEFINE size  == RoundedSize(req)
           used  == UsedAlign(align)
           start == AllocStart(r, used)
           rest  == Excess(r, size, used)
<1>1. NodeSize \in Nat \ {0} /\ NodeAlign \in Nat \ {0} /\ HeapStart \in Nat /\ HeapSize \in Nat
  BY NodeAssumption, HeapAssumption
<1>2. r.start \in Nat /\ r.size \in Nat  BY DEF Region
<1>3. size \in Nat /\ size >= NodeSize /\ size % NodeAlign = 0  BY SizeRounded
<1>4. used \in Nat \ {0} /\ used % NodeAlign = 0  BY AlignUsed
<1> HIDE DEF size, used
<1>5. start \in Nat /\ r.start <= start /\ start < r.start + used /\ start % used = 0
  BY <1>2, <1>4, AlignUp DEF AllocStart
<1>6. start % NodeAlign = 0  BY <1>1, <1>4, <1>5, ModTransitive
<1> HIDE DEF start
<1>7. rest = (r.start + r.size) - (start + size)  BY DEF Excess, End, start
<1>8. rest = 0 \/ rest >= NodeSize  BY DEF Valid, size, used
<1> HIDE DEF rest
<1>9. rest \in Nat  BY <1>1, <1>2, <1>3, <1>5, <1>7, <1>8
<1>10. start + size + rest = End(r)  BY <1>2, <1>3, <1>5, <1>7, <1>9 DEF End
<1>11. (start + size) % NodeAlign = 0  BY <1>1, <1>3, <1>5, <1>6, ModSum
<1>12. ASSUME rest > 0
       PROVE  GoodRegion([start |-> start + size, size |-> rest])
  <2>1. rest >= NodeSize  BY <1>8, <1>9, <1>12
  <2>2. HeapStart <= r.start /\ End(r) <= HeapStart + HeapSize  BY DEF GoodRegion, Within
  <2>3. HeapStart <= start + size  BY <1>1, <1>2, <1>3, <1>5, <2>2
  <2>4. (start + size) + rest <= HeapStart + HeapSize  BY <1>10, <2>2
  <2> QED  BY <1>11, <2>1, <2>3, <2>4 DEF GoodRegion, Within, End
<1> QED  BY <1>3, <1>5, <1>9, <1>10, <1>12 DEF size, used, start, rest

\* A part of a region is apart from whatever the region is apart from.
LEMMA PartSeparate ==
  ASSUME NEW r \in Region, NEW p \in Region, NEW x \in Region,
         r.start <= p.start, End(p) <= End(r), Separate(r, x)
  PROVE  Separate(p, x) /\ Separate(x, p)
BY DEF Separate, End, Region

\* The parts of the inductive invariant that concern the list alone.
LEMMA ListPart ==
  ASSUME TypeOK
  PROVE  FreeSeparate /\ NodesFit <=> GoodList(free)
BY DEF FreeSeparate, NodesFit, GoodList, GoodRegion

\* The regions that blocks occupy.
LEMMA ExtentType ==
  ASSUME NEW b \in Block
  PROVE  Extent(b) \in Region /\ Extent(b).start = b.start /\ End(Extent(b)) >= b.start
<1>1. b.start \in Nat /\ b.size \in Sizes  BY DEF Block
<1>2. RoundedSize(b.size) \in Nat  BY <1>1, SizeRounded
<1> QED  BY <1>1, <1>2 DEF Extent, Region, End

\* The initial state.
LEMMA InitInv == Init => IInv
<1> SUFFICES ASSUME Init PROVE IInv  OBVIOUS
<1>1. HeapStart \in Nat /\ HeapSize \in Nat /\ HeapStart % NodeAlign = 0 /\ HeapSize >= NodeSize
  BY HeapAssumption
<1>2. GoodRegion([start |-> HeapStart, size |-> HeapSize])
  BY <1>1 DEF GoodRegion, Within, End
<1>3. <<>> \in Seq(Region) /\ DOMAIN <<>> = {} /\ GoodList(<<>>)  BY DEF GoodList
<1>4. free = Linked(<<>>, HeapStart, HeapSize) /\ live = {} /\ lost = {}  BY DEF Init
<1>5. GoodList(free)
  <2> DEFINE none == <<>>
  <2>1. none \in Seq(Region) /\ GoodList(none)  BY <1>3
  <2>2. \A j \in DOMAIN none : Separate([start |-> HeapStart, size |-> HeapSize], none[j])
    BY <1>3
  <2> HIDE DEF none
  <2>3. GoodList(Linked(none, HeapStart, HeapSize))  BY <1>1, <1>2, <2>1, <2>2, LinkGood
  <2> QED  BY <1>4, <2>3 DEF none
<1>6. free \in Seq(Region)  BY <1>1, <1>3, <1>4, LinkedElements
<1>7. TypeOK  BY <1>4, <1>6 DEF TypeOK
<1> QED  BY <1>4, <1>5, <1>7, ListPart DEF IInv, LiveUntouched, LiveSound

\* alloc keeps the invariant.
LEMMA AllocInv ==
  ASSUME IInv, NEW req \in Sizes, NEW align \in Aligns, NEW i \in DOMAIN free,
         AllocFrom(i, req, align)
  PROVE  IInv'
<1> DEFINE size  == RoundedSize(req)
           used  == UsedAlign(align)
           r     == free[i]
           start == AllocStart(r, used)
           rest  == Excess(r, size, used)
           u     == Unlinked(free, i)
           nb    == [start |-> start, size |-> req, align |-> align]
           e     == [start |-> start + size, size |-> rest]
           gap   == [start |-> r.start, size |-> start - r.start]
<1>1. free \in Seq(Region) /\ live \subseteq Block /\ lost \subseteq Region
  BY DEF IInv, TypeOK
<1>2. GoodList(free)  BY ListPart DEF IInv
<1>3. r \in Region /\ GoodRegion(r)  BY <1>1, <1>2 DEF GoodList
<1>4. /\ free' = IF rest > 0 THEN Linked(u, start + size, rest) ELSE u
      /\ live' = live \cup {nb}
      /\ lost' = IF start > r.start THEN lost \cup {gap} ELSE lost
      /\ Valid(r, size, used)
  BY DEF AllocFrom, TakesRegion
<1>5. /\ size \in Nat /\ start \in Nat /\ rest \in Nat
      /\ r.start <= start
      /\ start + size + rest = End(r)
      /\ start % used = 0
      /\ rest > 0 => GoodRegion(e)
  BY <1>3, <1>4, Cut
<1>6. NodeSize \in Nat /\ HeapStart \in Nat /\ HeapSize \in Nat  BY NodeAssumption, HeapAssumption
<1>7. Extent(nb) = [start |-> start, size |-> size]  BY DEF Extent
<1>8. used = UsedAlign(nb.align)  OBVIOUS
<1> HIDE DEF size, start, rest, used
<1>9. nb \in Block /\ nb.start = start  BY <1>5 DEF Block
<1> HIDE DEF nb
<1>10. e \in Region /\ e.start = start + size /\ End(e) = End(r)
  BY <1>5 DEF Region, End
<1>11. /\ u \in Seq(Region)
       /\ \A k \in DOMAIN u : \E j \in DOMAIN free : j # i /\ u[k] = free[j]
  BY <1>1, UnlinkedElements
<1>12. GoodList(u) /\ \A k \in DOMAIN u : Separate(r, u[k])  BY <1>1, <1>2, UnlinkGood
<1>13. /\ Extent(nb) \in Region
       /\ r.start <= Extent(nb).start
       /\ End(Extent(nb)) <= End(r)
       /\ Separate(e, Extent(nb))
  <2>1. Extent(nb) \in Region  BY <1>5, <1>7 DEF Region
  <2>2. Extent(nb).start = start /\ End(Extent(nb)) = start + size  BY <1>7 DEF End
  <2> QED  BY <1>5, <1>10, <2>1, <2>2 DEF Separate
<1> HIDE DEF e, u
<1>14. free' \in Seq(Region) /\ GoodList(free')
  <2>1. CASE rest > 0
    <3>1. start + size \in Nat  BY <1>5
    <3>2. r.start <= e.start /\ End(e) <= End(r)
      <4>1. r.start \in Nat /\ r.size \in Nat  BY <1>3 DEF Region
      <4> QED  BY <1>5, <1>10, <4>1 DEF End
    <3>3. \A k \in DOMAIN u : Separate(e, u[k])
      BY <1>3, <1>10, <1>11, <1>12, <3>2, PartSeparate
    <3>4. GoodList(Linked(u, start + size, rest))
      BY <1>5, <1>11, <1>12, <2>1, <3>1, <3>3, LinkGood DEF e
    <3>5. Linked(u, start + size, rest) \in Seq(Region)  BY <1>5, <1>11, <3>1, LinkedElements
    <3> QED  BY <1>4, <2>1, <3>4, <3>5
  <2>2. CASE ~(rest > 0)  BY <1>4, <1>11, <1>12, <2>2
  <2> QED  BY <2>1, <2>2
<1>15. \A k \in DOMAIN free' :
         free'[k] = e \/ \E j \in DOMAIN free : j # i /\ free'[k] = free[j]
  <2>1. CASE rest > 0
    <3>1. start + size \in Nat  BY <1>5
    <3>2. /\ free'[1] = e
          /\ \A k \in DOMAIN free' : k # 1 => k - 1 \in DOMAIN u /\ free'[k] = u[k - 1]
      BY <1>4, <1>5, <1>11, <2>1, <3>1, LinkedElements DEF e
    <3> QED  BY <1>11, <3>2
  <2>2. CASE ~(rest > 0)  BY <1>4, <1>11, <2>2
  <2> QED  BY <2>1, <2>2
<1>16. TypeOK'
  <2>1. gap \in Region
    <3>1. r.start \in Nat  BY <1>3 DEF Region
    <3> QED  BY <1>5, <3>1 DEF Region
  <2> QED  BY <1>1, <1>4, <1>9, <1>14, <2>1 DEF TypeOK
<1>17. LiveUntouched'
  <2> SUFFICES ASSUME NEW k \in DOMAIN free', NEW b \in live'
               PROVE  Separate(free'[k], Extent(b))
    BY DEF LiveUntouched, Extent, RoundedSize, align_up
  <2>1. CASE free'[k] = e
    <3>1. CASE b = nb  BY <1>13, <2>1, <3>1
    <3>2. CASE b \in live
      <4>1. Separate(r, Extent(b)) /\ Extent(b) \in Region
        BY <1>1, <3>2, ExtentType DEF IInv, LiveUntouched
      <4>2. r.start <= e.start
        <5>1. r.start \in Nat  BY <1>3 DEF Region
        <5> QED  BY <1>5, <1>10, <5>1
      <4>3. End(e) <= End(r)
        <5>1. End(r) \in Nat  BY <1>3 DEF Region, End
        <5> QED  BY <1>10, <5>1
      <4> QED  BY <1>3, <1>10, <2>1, <4>1, <4>2, <4>3, PartSeparate
    <3> QED  BY <1>4, <3>1, <3>2
  <2>2. ASSUME NEW j \in DOMAIN free, j # i, free'[k] = free[j]
        PROVE  Separate(free'[k], Extent(b))
    <3>1. CASE b = nb
      <4>1. Separate(r, free[j]) /\ free[j] \in Region  BY <1>1, <1>2, <2>2 DEF GoodList
      <4> QED  BY <1>3, <1>13, <2>2, <3>1, <4>1, PartSeparate
    <3>2. CASE b \in live  BY <2>2, <3>2 DEF IInv, LiveUntouched
    <3> QED  BY <1>4, <3>1, <3>2
  <2> QED  BY <1>15, <2>1, <2>2
<1>18. LiveSound'
  <2>1. Within(Extent(nb))
    <3>1. r.start \in Nat /\ End(r) \in Nat  BY <1>3 DEF Region, End
    <3>2. HeapStart <= r.start /\ End(r) <= HeapStart + HeapSize  BY <1>3 DEF GoodRegion, Within
    <3>3. Extent(nb).start \in Nat /\ End(Extent(nb)) \in Nat  BY <1>13 DEF Region, End
    <3> QED  BY <1>6, <1>13, <3>1, <3>2, <3>3 DEF Within
  <2>2. nb.start % UsedAlign(nb.align) = 0  BY <1>5, <1>8, <1>9
  <2>3. ASSUME NEW b \in live
        PROVE  Separate(Extent(nb), Extent(b)) /\ Separate(Extent(b), Extent(nb))
    <3>1. Separate(r, Extent(b)) /\ Extent(b) \in Region
      BY <1>1, ExtentType DEF IInv, LiveUntouched
    <3> QED  BY <1>3, <1>13, <3>1, PartSeparate
  <2>4. \A b \in live' : Within(Extent(b)) /\ b.start % UsedAlign(b.align) = 0
    BY <1>4, <2>1, <2>2 DEF IInv, LiveSound
  <2>5. \A b, c \in live' : b # c => Separate(Extent(b), Extent(c))
    BY <1>4, <2>3 DEF IInv, LiveSound
  <2> QED  BY <2>4, <2>5 DEF LiveSound, Extent, Within, Separate, End, UsedAlign, RoundedSize, align_up
<1>19. FreeSeparate' /\ NodesFit'
  BY <1>14 DEF FreeSeparate, NodesFit, GoodList, GoodRegion
<1> QED  BY <1>16, <1>17, <1>18, <1>19 DEF IInv

\* dealloc keeps the invariant.
LEMMA DeallocInv ==
  ASSUME IInv, NEW b \in live, Dealloc(b)
  PROVE  IInv'
<1>1. free \in Seq(Region) /\ live \subseteq Block /\ lost \subseteq Region
  BY DEF IInv, TypeOK
<1>2. GoodList(free)  BY ListPart DEF IInv
<1>3. b \in Block /\ b.start \in Nat /\ b.size \in Sizes /\ b.align \in Aligns
  BY <1>1 DEF Block
<1> DEFINE size == RoundedSize(b.size)
<1>4. size \in Nat /\ size >= NodeSize  BY <1>3, SizeRounded
<1>5. /\ free' = Linked(free, b.start, size)
      /\ live' = live \ {b} /\ lost' = lost
  BY DEF Dealloc
<1>6. Extent(b) = [start |-> b.start, size |-> size]  BY DEF Extent
<1> HIDE DEF size
<1>7. b.start % NodeAlign = 0
  <2>1. b.start % UsedAlign(b.align) = 0  BY DEF IInv, LiveSound
  <2>2. UsedAlign(b.align) \in Nat \ {0} /\ UsedAlign(b.align) % NodeAlign = 0
    BY <1>3, AlignUsed
  <2> QED  BY <1>3, <2>1, <2>2, NodeAssumption, ModTransitive
<1>8. GoodRegion(Extent(b))
  <2>1. Within(Extent(b))  BY DEF IInv, LiveSound
  <2> QED  BY <1>4, <1>6, <1>7, <2>1 DEF GoodRegion
<1>9. \A j \in DOMAIN free : Separate(Extent(b), free[j])
  BY DEF IInv, LiveUntouched, Separate
<1>10. free' \in Seq(Region) /\ GoodList(free')
  <2>1. GoodList(Linked(free, b.start, size))
    BY <1>1, <1>2, <1>3, <1>4, <1>6, <1>8, <1>9, LinkGood
  <2>2. Linked(free, b.start, size) \in Seq(Region)  BY <1>1, <1>3, <1>4, LinkedElements
  <2> QED  BY <1>5, <2>1, <2>2
<1>11. \A k \in DOMAIN free' :
         free'[k] = Extent(b) \/ \E j \in DOMAIN free : free'[k] = free[j]
  <2>1. /\ free'[1] = Extent(b)
        /\ \A k \in DOMAIN free' : k # 1 => k - 1 \in DOMAIN free /\ free'[k] = free[k - 1]
    BY <1>1, <1>3, <1>4, <1>5, <1>6, LinkedElements
  <2> QED  BY <2>1
<1>12. TypeOK'  BY <1>1, <1>5, <1>10 DEF TypeOK
<1>13. LiveUntouched'
  <2> SUFFICES ASSUME NEW k \in DOMAIN free', NEW c \in live'
               PROVE  Separate(free'[k], Extent(c))
    BY DEF LiveUntouched, Extent, RoundedSize, align_up
  <2>1. c \in live /\ c # b  BY <1>5
  <2>2. CASE free'[k] = Extent(b)  BY <2>1, <2>2 DEF IInv, LiveSound
  <2>3. CASE \E j \in DOMAIN free : free'[k] = free[j]  BY <2>1, <2>3 DEF IInv, LiveUntouched
  <2> QED  BY <1>11, <2>2, <2>3
<1>14. LiveSound'
  <2>1. \A c \in live' : Within(Extent(c)) /\ c.start % UsedAlign(c.align) = 0
    BY <1>5 DEF IInv, LiveSound
  <2>2. \A c, d \in live' : c # d => Separate(Extent(c), Extent(d))
    BY <1>5 DEF IInv, LiveSound
  <2> QED  BY <2>1, <2>2 DEF LiveSound, Extent, Within, Separate, End, UsedAlign, RoundedSize, align_up
<1>15. FreeSeparate' /\ NodesFit'
  BY <1>10 DEF FreeSeparate, NodesFit, GoodList, GoodRegion
<1> QED  BY <1>12, <1>13, <1>14, <1>15 DEF IInv

\* Every step keeps the invariant.
LEMMA NextInv == IInv /\ [Next]_vars => IInv'
<1> SUFFICES ASSUME IInv, [Next]_vars PROVE IInv'  OBVIOUS
<1>1. CASE UNCHANGED vars
  BY <1>1 DEF vars, IInv, TypeOK, FreeSeparate, LiveUntouched, NodesFit, LiveSound,
              Extent, Within, Separate, End, UsedAlign, RoundedSize, align_up
<1>2. ASSUME NEW req \in Sizes, NEW align \in Aligns, NEW i \in DOMAIN free,
             AllocFrom(i, req, align)
      PROVE  IInv'
  BY <1>2, AllocInv
<1>3. ASSUME NEW req \in Sizes, NEW align \in Aligns, AllocNull(req, align)
      PROVE  IInv'
  BY <1>1, <1>3 DEF AllocNull
<1>4. ASSUME NEW b \in live, Dealloc(b)  PROVE IInv'
  BY <1>4, DeallocInv
<1> QED  BY <1>1, <1>2, <1>3, <1>4 DEF Next

\* The inductive invariant holds in every reachable state.
THEOREM Invariance == Spec => []IInv
<1> QED  BY InitInv, NextInv, PTL DEF Spec

\* The free list keeps its type.
THEOREM TypeCorrect == Spec => []TypeOK
<1>1. IInv => TypeOK  BY DEF IInv
<1> QED  BY <1>1, Invariance, PTL

\* The allocator never writes a node over another or into a block that a caller
\* holds, and the assertions of add_free_region never fail.
THEOREM ListIsSafe == Spec => []NodesSafe
<1>1. IInv => NodesSafe  BY DEF IInv, NodesSafe
<1> QED  BY <1>1, Invariance, PTL

-----------------------------------------------------------------------------
(* The callers' view *)

\* The block that alloc returns is a block that Heap may grant.
LEMMA AllocGrants ==
  ASSUME IInv, IInv', NEW req \in Sizes, NEW align \in Aligns, NEW i \in DOMAIN free,
         AllocFrom(i, req, align)
  PROVE  \E b \in HeapOf!Block : HeapOf!Grant(b)
<1> DEFINE size  == RoundedSize(req)
           used  == UsedAlign(align)
           r     == free[i]
           start == AllocStart(r, used)
           nb    == [start |-> start, size |-> req, align |-> align]
<1>1. r \in Region /\ GoodRegion(r)
  BY ListPart DEF IInv, TypeOK, GoodList
<1>2. live' = live \cup {nb} /\ Valid(r, size, used)  BY DEF AllocFrom, TakesRegion
<1>3. /\ size \in Nat /\ start \in Nat /\ size >= NodeSize
      /\ r.start <= start /\ start + size <= End(r)
      /\ start % used = 0
  <2> DEFINE rest == Excess(r, size, used)
  <2>1. /\ size \in Nat /\ start \in Nat /\ rest \in Nat /\ size >= NodeSize
        /\ r.start <= start /\ start + size + rest = End(r) /\ start % used = 0
    BY <1>1, <1>2, Cut
  <2> HIDE DEF rest, size, start, used
  <2> QED  BY <2>1
<1>4. size >= req /\ req \in Nat \ {0}  BY SizeRounded, RequestAssumption
<1>5. start % align = 0
  <2>1. used \in Nat \ {0} /\ used % align = 0  BY AlignUsed
  <2>2. align \in Nat \ {0}  BY RequestAssumption
  <2> HIDE DEF used, start
  <2> QED  BY <1>3, <2>1, <2>2, ModTransitive
<1>6. Extent(nb) = [start |-> start, size |-> size]  BY DEF Extent
<1>7. nb.start = start /\ nb.size = req /\ nb.align = align  OBVIOUS
<1> HIDE DEF nb, size, start
<1>8. HeapStart \in Nat /\ HeapSize \in Nat /\ NodeSize \in Nat \ {0}
  BY HeapAssumption, NodeAssumption
<1>9. HeapStart <= start /\ start + size <= HeapStart + HeapSize
  <2>1. r.start \in Nat /\ End(r) \in Nat  BY <1>1 DEF Region, End
  <2>2. HeapStart <= r.start /\ End(r) <= HeapStart + HeapSize  BY <1>1 DEF GoodRegion, Within
  <2> QED  BY <1>3, <1>8, <2>1, <2>2
<1>10. nb \in HeapOf!Block
  <2>1. start \in HeapStart .. (HeapStart + HeapSize - 1)  BY <1>3, <1>4, <1>8, <1>9
  <2> QED  BY <2>1 DEF HeapOf!Block, nb
<1>11. HeapOf!InHeap(nb)  BY <1>3, <1>4, <1>7, <1>8, <1>9 DEF HeapOf!InHeap
<1>12. ASSUME NEW c \in live
       PROVE  HeapOf!Separate(nb, c)
  <2>1. c \in Block /\ c.start \in Nat /\ c.size \in Sizes  BY DEF IInv, TypeOK, Block
  <2>2. RoundedSize(c.size) \in Nat /\ RoundedSize(c.size) >= c.size /\ c.size \in Nat
    BY <2>1, SizeRounded, RequestAssumption
  <2>3. Extent(c) \in Region /\ Extent(nb) \in Region
    BY <1>3, <1>6, <2>1, ExtentType DEF Region
  <2>4. Separate(r, Extent(c))  BY DEF IInv, LiveUntouched
  <2>5. r.start <= Extent(nb).start /\ End(Extent(nb)) <= End(r)  BY <1>3, <1>6 DEF End
  <2>6. Separate(Extent(nb), Extent(c))  BY <1>1, <2>3, <2>4, <2>5, PartSeparate
  <2>7. Extent(c).start = c.start /\ Extent(c).size = RoundedSize(c.size)  BY DEF Extent
  <2>8. Extent(nb).start = start /\ Extent(nb).size = size  BY <1>6
  <2>9. \/ start + size <= c.start
        \/ c.start + RoundedSize(c.size) <= start
    BY <2>6, <2>7, <2>8 DEF Separate, End
  <2> QED  BY <1>3, <1>4, <1>7, <2>1, <2>2, <2>9 DEF HeapOf!Separate
<1> QED  BY <1>2, <1>5, <1>7, <1>10, <1>11, <1>12 DEF HeapOf!Grant

\* The free list implements the heap that callers rely on: every alloc is a grant
\* of an unused, aligned block or changes nothing for the callers, and every
\* dealloc gives a block back.
THEOREM Refinement == Spec => IsHeap
<1>1. Init => HeapOf!Init  BY DEF Init, HeapOf!Init
<1>2. IInv /\ IInv' /\ [Next]_vars => [HeapOf!Next]_live
  <2> SUFFICES ASSUME IInv, IInv', [Next]_vars PROVE [HeapOf!Next]_live  OBVIOUS
  <2>1. CASE UNCHANGED vars  BY <2>1 DEF vars
  <2>2. ASSUME NEW req \in Sizes, NEW align \in Aligns, NEW i \in DOMAIN free,
               AllocFrom(i, req, align)
        PROVE  HeapOf!Next
    BY <2>2, AllocGrants DEF HeapOf!Next
  <2>3. ASSUME NEW req \in Sizes, NEW align \in Aligns, AllocNull(req, align)
        PROVE  UNCHANGED live
    BY <2>3 DEF AllocNull, vars
  <2>4. ASSUME NEW b \in live, Dealloc(b)
        PROVE  HeapOf!Next
    BY <2>4 DEF Dealloc, HeapOf!Next, HeapOf!GiveBack
  <2> QED  BY <2>1, <2>2, <2>3, <2>4 DEF Next
<1> QED  BY <1>1, <1>2, Invariance, PTL DEF Spec, IsHeap, HeapOf!Spec

-----------------------------------------------------------------------------
(* Nothing is lost *)

\* alloc loses nothing but the gap in front of the block.
LEMMA AllocAccounts ==
  ASSUME IInv, Accounted, NEW req \in Sizes, NEW align \in Aligns,
         NEW i \in DOMAIN free, AllocFrom(i, req, align)
  PROVE  Accounted'
<1> DEFINE size  == RoundedSize(req)
           used  == UsedAlign(align)
           r     == free[i]
           start == AllocStart(r, used)
           rest  == Excess(r, size, used)
           u     == Unlinked(free, i)
           nb    == [start |-> start, size |-> req, align |-> align]
           gap   == [start |-> r.start, size |-> start - r.start]
<1>1. free \in Seq(Region) /\ r \in Region /\ GoodRegion(r)
  BY ListPart DEF IInv, TypeOK, GoodList
<1>2. /\ free' = IF rest > 0 THEN Linked(u, start + size, rest) ELSE u
      /\ live' = live \cup {nb}
      /\ lost' = IF start > r.start THEN lost \cup {gap} ELSE lost
      /\ Valid(r, size, used)
  BY DEF AllocFrom, TakesRegion
<1>3. /\ size \in Nat /\ start \in Nat /\ rest \in Nat
      /\ r.start <= start /\ start + size + rest = End(r)
  BY <1>1, <1>2, Cut
<1>4. nb.start = start /\ End(Extent(nb)) = start + size  BY DEF Extent, End
<1>5. r.start \in Nat /\ r.size \in Nat /\ End(r) = r.start + r.size  BY <1>1 DEF Region, End
<1> HIDE DEF size, start, rest, nb
<1>6. /\ u \in Seq(Region)
      /\ \A j \in DOMAIN free : j # i => \E k \in DOMAIN u : u[k] = free[j]
  BY <1>1, UnlinkedElements
<1> HIDE DEF u
<1>7. \A j \in DOMAIN free : j # i => \E k \in DOMAIN free' : free'[k] = free[j]
  <2>1. CASE rest > 0
    <3>1. start + size \in Nat  BY <1>3
    <3> DEFINE t == Linked(u, start + size, rest)
    <3>2. \A j \in DOMAIN u : \E k \in DOMAIN t : t[k] = u[j]
      BY <1>3, <1>6, <3>1, LinkedKeeps
    <3>3. free' = t  BY <1>2, <2>1
    <3> HIDE DEF t
    <3> QED  BY <1>6, <3>2, <3>3
  <2>2. CASE ~(rest > 0)  BY <1>2, <1>6, <2>2
  <2> QED  BY <2>1, <2>2
<1>8. rest > 0 => 1 \in DOMAIN free' /\ free'[1] = [start |-> start + size, size |-> rest]
  <2> SUFFICES ASSUME rest > 0
               PROVE  1 \in DOMAIN free' /\ free'[1] = [start |-> start + size, size |-> rest]
    OBVIOUS
  <2>1. start + size \in Nat /\ Len(u) \in Nat  BY <1>3, <1>6
  <2> QED  BY <1>2, <1>3, <1>6, <2>1, LinkedElements
<1>9. HeapStart \in Nat /\ HeapSize \in Nat  BY HeapAssumption
<1> SUFFICES ASSUME NEW a \in HeapStart .. (HeapStart + HeapSize - 1)
             PROVE  \/ \E k \in DOMAIN free' : free'[k].start <= a /\ a < End(free'[k])
                    \/ \E b \in live' : b.start <= a /\ a < End(Extent(b))
                    \/ \E g \in lost' : g.start <= a /\ a < End(g)
  BY DEF Accounted, Extent, End, RoundedSize, align_up
<1>10. a \in Nat  BY <1>9
<1>11. CASE \E b \in live : b.start <= a /\ a < End(Extent(b))  BY <1>2, <1>11
<1>12. CASE \E g \in lost : g.start <= a /\ a < End(g)  BY <1>2, <1>12
<1>13. ASSUME NEW j \in DOMAIN free, j # i, free[j].start <= a, a < End(free[j])
       PROVE  \E k \in DOMAIN free' : free'[k].start <= a /\ a < End(free'[k])
  BY <1>7, <1>13
<1>14. CASE r.start <= a /\ a < End(r)
  <2>1. CASE a < start
    <3>1. start > r.start  BY <1>3, <1>5, <1>10, <1>14, <2>1
    <3>2. gap \in lost'  BY <1>2, <3>1
    <3>3. gap.start <= a /\ a < End(gap)  BY <1>3, <1>5, <1>10, <1>14, <2>1 DEF End
    <3> QED  BY <3>2, <3>3
  <2>2. CASE start <= a /\ a < start + size  BY <1>2, <1>4, <2>2
  <2>3. CASE start + size <= a
    <3>1. rest > 0  BY <1>3, <1>10, <1>14, <2>3
    <3>2. free'[1].start <= a /\ a < End(free'[1])
      BY <1>3, <1>8, <1>10, <1>14, <2>3, <3>1 DEF End
    <3> QED  BY <1>8, <3>1, <3>2
  <2>4. a < start \/ (start <= a /\ a < start + size) \/ start + size <= a
    BY <1>3, <1>10
  <2> QED  BY <2>1, <2>2, <2>3, <2>4
<1> QED  BY <1>11, <1>12, <1>13, <1>14 DEF Accounted

\* dealloc loses nothing.
LEMMA DeallocAccounts ==
  ASSUME IInv, Accounted, NEW b \in live, Dealloc(b)
  PROVE  Accounted'
<1>1. free \in Seq(Region) /\ b.start \in Nat /\ b.size \in Sizes
  BY DEF IInv, TypeOK, Block
<1>2. RoundedSize(b.size) \in Nat  BY <1>1, SizeRounded
<1>3. free' = Linked(free, b.start, RoundedSize(b.size)) /\ live' = live \ {b} /\ lost' = lost
  BY DEF Dealloc
<1>4. /\ DOMAIN free' = 1 .. Len(free) + 1 /\ Len(free) \in Nat
      /\ free'[1] = Extent(b)
      /\ \A j \in DOMAIN free : j + 1 \in DOMAIN free' /\ free'[j + 1] = free[j]
  BY <1>1, <1>2, <1>3, LinkedElements DEF Extent
<1>5. 1 \in DOMAIN free' /\ free'[1].start = b.start  BY <1>4 DEF Extent
<1> SUFFICES ASSUME NEW a \in HeapStart .. (HeapStart + HeapSize - 1)
             PROVE  \/ \E k \in DOMAIN free' : free'[k].start <= a /\ a < End(free'[k])
                    \/ \E c \in live' : c.start <= a /\ a < End(Extent(c))
                    \/ \E g \in lost' : g.start <= a /\ a < End(g)
  BY DEF Accounted, Extent, End, RoundedSize, align_up
<1>6. CASE \E j \in DOMAIN free : free[j].start <= a /\ a < End(free[j])  BY <1>4, <1>6
<1>7. CASE \E c \in live : c.start <= a /\ a < End(Extent(c))  BY <1>3, <1>4, <1>5, <1>7
<1>8. CASE \E g \in lost : g.start <= a /\ a < End(g)  BY <1>3, <1>8
<1> QED  BY <1>6, <1>7, <1>8 DEF Accounted

\* Every byte of the heap stays accounted for: free, held by a caller, or in a gap
\* in front of an aligned block.
THEOREM NothingLost == Spec => []Accounted
<1>1. Init => Accounted
  <2> SUFFICES ASSUME Init, NEW a \in HeapStart .. (HeapStart + HeapSize - 1)
               PROVE  \E i \in DOMAIN free : free[i].start <= a /\ a < End(free[i])
    BY DEF Accounted
  <2>1. HeapStart \in Nat /\ HeapSize \in Nat  BY HeapAssumption
  <2>2. free = <<[start |-> HeapStart, size |-> HeapSize]>>  BY DEF Init, Linked
  <2>3. 1 \in DOMAIN free /\ free[1] = [start |-> HeapStart, size |-> HeapSize]  BY <2>2
  <2> QED  BY <2>1, <2>3 DEF End
<1>2. IInv /\ Accounted /\ [Next]_vars => Accounted'
  <2> SUFFICES ASSUME IInv, Accounted, [Next]_vars PROVE Accounted'  OBVIOUS
  <2>1. CASE UNCHANGED vars
    BY <2>1 DEF vars, Accounted, Extent, End, RoundedSize, align_up
  <2>2. ASSUME NEW req \in Sizes, NEW align \in Aligns, NEW i \in DOMAIN free,
               AllocFrom(i, req, align)
        PROVE  Accounted'
    BY <2>2, AllocAccounts
  <2>3. ASSUME NEW req \in Sizes, NEW align \in Aligns, AllocNull(req, align)
        PROVE  Accounted'
    BY <2>1, <2>3 DEF AllocNull
  <2>4. ASSUME NEW b \in live, Dealloc(b)  PROVE Accounted'
    BY <2>4, DeallocAccounts
  <2> QED  BY <2>1, <2>2, <2>3, <2>4 DEF Next
<1> QED  BY <1>1, <1>2, Invariance, PTL DEF Spec

\* Gaps come from requests with a stricter alignment than a node's, and are
\* shorter than that alignment.
THEOREM GapsBounded == Spec => []GapsFromAlignment
<1>1. Init => GapsFromAlignment  BY DEF Init, GapsFromAlignment
<1>2. IInv /\ GapsFromAlignment /\ [Next]_vars => GapsFromAlignment'
  <2> SUFFICES ASSUME IInv, GapsFromAlignment, [Next]_vars PROVE GapsFromAlignment'  OBVIOUS
  <2>1. CASE UNCHANGED lost  BY <2>1 DEF GapsFromAlignment
  <2>2. ASSUME NEW req \in Sizes, NEW align \in Aligns, NEW i \in DOMAIN free,
               AllocFrom(i, req, align)
        PROVE  GapsFromAlignment'
    <3> DEFINE used  == UsedAlign(align)
               r     == free[i]
               start == AllocStart(r, used)
    <3>1. r \in Region /\ GoodRegion(r)  BY ListPart DEF IInv, TypeOK, GoodList
    <3>2. /\ lost' = IF start > r.start
                       THEN lost \cup {[start |-> r.start, size |-> start - r.start]}
                       ELSE lost
          /\ Valid(r, RoundedSize(req), used)
      BY <2>2 DEF AllocFrom, TakesRegion
    <3>3. start \in Nat /\ r.start <= start /\ start < r.start + used  BY <3>1, <3>2, Cut
    <3>4. r.start \in Nat /\ r.start % NodeAlign = 0  BY <3>1 DEF Region, GoodRegion
    <3>5. align \in Nat /\ NodeAlign \in Nat \ {0}  BY RequestAssumption, NodeAssumption
    <3>6. CASE align > NodeAlign
      <4>1. used = align  BY <3>5, <3>6 DEF UsedAlign
      <4> HIDE DEF start, used
      <4>2. start - r.start < align  BY <3>3, <3>4, <3>5, <4>1
      <4> QED  BY <3>2, <3>6, <4>2 DEF GapsFromAlignment
    <3>7. CASE align <= NodeAlign
      <4>1. used = NodeAlign  BY <3>5, <3>7 DEF UsedAlign
      <4>2. start = r.start  BY <3>4, <3>5, <4>1, AlignUpMultiple DEF AllocStart
      <4> HIDE DEF start
      <4> QED  BY <2>1, <3>2, <3>4, <4>2
    <3> QED  BY <3>5, <3>6, <3>7
  <2>3. CASE UNCHANGED vars  BY <2>1, <2>3 DEF vars
  <2>4. ASSUME NEW req \in Sizes, NEW align \in Aligns, AllocNull(req, align)
        PROVE  GapsFromAlignment'
    BY <2>3, <2>4 DEF AllocNull
  <2>5. ASSUME NEW b \in live, Dealloc(b)  PROVE GapsFromAlignment'
    BY <2>1, <2>5 DEF Dealloc
  <2> QED  BY <2>2, <2>3, <2>4, <2>5 DEF Next
<1> QED  BY <1>1, <1>2, Invariance, PTL DEF Spec

\* What is lost of the heap is bounded by the alignments that callers ask for.
THEOREM LossIsBounded == Spec => []LossBounded
<1>1. Accounted /\ GapsFromAlignment => LossBounded  BY DEF LossBounded
<1> QED  BY <1>1, NothingLost, GapsBounded, PTL
=============================================================================
