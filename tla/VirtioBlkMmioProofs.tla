------------------------- MODULE VirtioBlkMmioProofs -------------------------
(***************************************************************************)
(* Proofs about the emulated block device and the guest's driver, for      *)
(* every size of the queue, every range of its indices and all chains.     *)
(***************************************************************************)
EXTENDS VirtioBlkMmio, FiniteSetTheorems, TLAPS

-----------------------------------------------------------------------------
(* Indices of the rings *)

LEMMA Sizes ==
  /\ QueueSize \in Nat /\ QueueSize > 0 /\ IdxMod \in Nat /\ QueueSize < IdxMod
  /\ Slot = 0 .. QueueSize - 1 /\ Idx = 0 .. IdxMod - 1
  BY QueueAssumption DEF Slot, Idx

\* An index that moves on by less than its range, and the way between two of them.
LEMMA AddMod ==
  ASSUME NEW i \in Idx, NEW n \in 0 .. IdxMod - 1
  PROVE  (i + n) % IdxMod = IF i + n < IdxMod THEN i + n ELSE i + n - IdxMod
  BY Sizes

LEMMA SubMod ==
  ASSUME NEW i \in Idx, NEW j \in Idx
  PROVE  (i - j) % IdxMod = IF i >= j THEN i - j ELSE i - j + IdxMod
  BY Sizes

\* A multiple of a number that is smaller than it is 0.
LEMMA SmallMultiple ==
  ASSUME NEW m \in Nat, NEW z \in Int, m * z < m, -m < m * z
  PROVE  z = 0
<1>1. CASE z >= 1
  <2>1. PICK y \in Nat : z = y + 1
    BY <1>1
  <2>2. m * z = m * y + m /\ m * y >= 0
    BY <2>1
  <2>3. QED
    BY <2>2
<1>2. CASE z <= -1
  <2>1. PICK y \in Nat : z = -y - 1
    BY <1>2
  <2>2. m * z = -(m * y) - m /\ m * y >= 0
    BY <2>1
  <2>3. QED
    BY <2>2
<1>3. QED
  BY <1>1, <1>2

LEMMA DivMod ==
  ASSUME NEW m \in Nat, m > 0, NEW x \in Int
  PROVE  x % m \in 0 .. m - 1 /\ \E q \in Int : x = m * q + (x % m)
<1>1. x % m \in 0 .. m - 1
  OBVIOUS
<1>2. x \div m \in Int /\ x = m * (x \div m) + (x % m)
  OBVIOUS
<1>3. QED
  BY <1>1, <1>2

\* Numbers have the same remainder only if their difference is a multiple.
LEMMA SameMod ==
  ASSUME NEW m \in Nat, m > 0, NEW x \in Int, NEW y \in Int
  PROVE  x % m = y % m <=> \E z \in Int : x - y = m * z
<1>1. PICK a \in Int : x = m * a + (x % m)
  BY DivMod
<1>2. PICK b \in Int : y = m * b + (y % m)
  BY DivMod
<1>3. ASSUME x % m = y % m PROVE \E z \in Int : x - y = m * z
  <2>1. x - y = m * (a - b) /\ a - b \in Int
    BY <1>1, <1>2, <1>3
  <2>2. QED
    BY <2>1
<1>4. ASSUME NEW z \in Int, x - y = m * z PROVE x % m = y % m
  <2>1. x % m \in 0 .. m - 1 /\ y % m \in 0 .. m - 1
    BY DivMod
  <2>2. m * (z - a + b) = (x % m) - (y % m)
    BY <1>1, <1>2, <1>4
  <2>3. z - a + b = 0
    BY <2>1, <2>2, SmallMultiple
  <2>4. m * (z - a + b) = 0
    BY <2>3
  <2>5. QED
    BY <2>1, <2>2, <2>4
<1>5. QED
  BY <1>3, <1>4

LEMMA WholeQueues == \E c \in Int : IdxMod = QueueSize * c
<1>1. IdxMod \in Int /\ QueueSize \in Nat /\ QueueSize > 0 /\ IdxMod % QueueSize = 0
  BY Sizes, QueueAssumption
<1>2. PICK c \in Int : IdxMod = QueueSize * c + (IdxMod % QueueSize)
  BY <1>1, DivMod
<1>3. QED
  BY <1>1, <1>2

\* The slot of an index does not depend on the wrap.
LEMMA ModMod ==
  ASSUME NEW x \in Int
  PROVE  (x % IdxMod) % QueueSize = x % QueueSize
<1>1. PICK c \in Int : IdxMod = QueueSize * c
  BY WholeQueues
<1>2. IdxMod \in Nat /\ IdxMod > 0
  BY Sizes
<1>3. x % IdxMod \in Int
  BY <1>2
<1>4. PICK a \in Int : x = IdxMod * a + (x % IdxMod)
  BY <1>2, DivMod
<1>5. x - (x % IdxMod) = QueueSize * (c * a) /\ c * a \in Int
  BY <1>1, <1>3, <1>4, Sizes
<1>6. QED
  BY <1>3, <1>5, Sizes, SameMod

\* Indices less than a queue apart have different slots, also across the wrap, because
\* the size of the queue divides the range of the indices.
LEMMA SlotsDiffer ==
  ASSUME NEW i \in Idx, NEW a \in 0 .. QueueSize - 1, NEW b \in 0 .. QueueSize - 1, a # b
  PROVE  ((i + a) % IdxMod) % QueueSize # ((i + b) % IdxMod) % QueueSize
<1> DEFINE p == (i + a) % IdxMod
           q == (i + b) % IdxMod
<1>1. PICK c \in Int : IdxMod = QueueSize * c
  BY WholeQueues
<1>2. p \in Int /\ q \in Int /\ p - q \in {a - b, a - b - IdxMod, a - b + IdxMod}
  <2>1. p = IF i + a < IdxMod THEN i + a ELSE i + a - IdxMod
    BY Sizes, AddMod
  <2>2. q = IF i + b < IdxMod THEN i + b ELSE i + b - IdxMod
    BY Sizes, AddMod
  <2> HIDE DEF p, q
  <2>3. QED
    BY <2>1, <2>2, Sizes
<1> HIDE DEF p, q
<1>3. ASSUME p % QueueSize = q % QueueSize PROVE FALSE
  <2>1. PICK z \in Int : p - q = QueueSize * z
    BY <1>2, <1>3, Sizes, SameMod
  <2>2. \E y \in Int : a - b = QueueSize * y
    <3>1. CASE p - q = a - b
      BY <2>1, <3>1
    <3>2. CASE p - q = a - b - IdxMod
      <4>1. a - b = QueueSize * (z + c) /\ z + c \in Int
        BY <1>1, <2>1, <3>2, Sizes
      <4>2. QED
        BY <4>1
    <3>3. CASE p - q = a - b + IdxMod
      <4>1. a - b = QueueSize * (z - c) /\ z - c \in Int
        BY <1>1, <2>1, <3>3, Sizes
      <4>2. QED
        BY <4>1
    <3>4. QED
      BY <1>2, <3>1, <3>2, <3>3
  <2>3. PICK y \in Int : a - b = QueueSize * y
    BY <2>2
  <2>4. a - b < QueueSize /\ -QueueSize < a - b
    BY Sizes
  <2>5. y = 0
    BY <2>3, <2>4, Sizes, SmallMultiple
  <2>6. a - b = 0
    BY <2>3, <2>5, Sizes
  <2>7. QED
    BY <2>6, Sizes
<1>4. QED
  BY <1>3 DEF p, q

LEMMA SlotIn ==
  ASSUME NEW i \in Idx PROVE i % QueueSize \in Slot
  BY Sizes

\* The slot of the n-th index from i on.
SlotAt(i, n) == ((i + n) % IdxMod) % QueueSize

\* How far index i is ahead of j.
Ahead(i, j) == (i - j) % IdxMod

LEMMA AheadType ==
  ASSUME NEW i \in Idx, NEW j \in Idx
  PROVE  Ahead(i, j) \in 0 .. IdxMod - 1 /\ (Ahead(i, j) = 0 <=> i = j)
         /\ (j + Ahead(i, j)) % IdxMod = i
<1>1. Ahead(i, j) = IF i >= j THEN i - j ELSE i - j + IdxMod
  BY SubMod DEF Ahead
<1>2. Ahead(i, j) \in 0 .. IdxMod - 1 /\ (Ahead(i, j) = 0 <=> i = j)
  BY <1>1, Sizes
<1>3. (j + Ahead(i, j)) % IdxMod =
        IF j + Ahead(i, j) < IdxMod THEN j + Ahead(i, j) ELSE j + Ahead(i, j) - IdxMod
  BY <1>2, AddMod
<1>4. QED
  BY <1>1, <1>2, <1>3, Sizes

\* An index that moves on gets further ahead of the others, and those less far ahead
\* of it.
LEMMA AheadMoves ==
  ASSUME NEW i \in Idx, NEW j \in Idx, NEW n \in Nat
  PROVE  /\ Ahead(i, j) + n < IdxMod =>
              (i + n) % IdxMod \in Idx /\ Ahead((i + n) % IdxMod, j) = Ahead(i, j) + n
         /\ n <= Ahead(i, j) =>
              (j + n) % IdxMod \in Idx /\ Ahead(i, (j + n) % IdxMod) = Ahead(i, j) - n
<1>1. Ahead(i, j) = IF i >= j THEN i - j ELSE i - j + IdxMod
  BY SubMod DEF Ahead
<1>2. ASSUME Ahead(i, j) + n < IdxMod
      PROVE  (i + n) % IdxMod \in Idx /\ Ahead((i + n) % IdxMod, j) = Ahead(i, j) + n
  <2>1. n \in 0 .. IdxMod - 1
    BY <1>1, <1>2, Sizes
  <2>2. (i + n) % IdxMod = IF i + n < IdxMod THEN i + n ELSE i + n - IdxMod
    BY <2>1, AddMod
  <2> DEFINE k == (i + n) % IdxMod
  <2>3. k \in Idx
    BY <2>1, <2>2, Sizes
  <2> HIDE DEF k
  <2>4. Ahead(k, j) = IF k >= j THEN k - j ELSE k - j + IdxMod
    BY <2>3, SubMod DEF Ahead
  <2>5. k = IF i + n < IdxMod THEN i + n ELSE i + n - IdxMod
    BY <2>2 DEF k
  <2>6. Ahead(k, j) = Ahead(i, j) + n
    BY <1>1, <1>2, <2>1, <2>3, <2>4, <2>5, Sizes
  <2>7. QED
    BY <2>3, <2>6 DEF k
<1>3. ASSUME n <= Ahead(i, j)
      PROVE  (j + n) % IdxMod \in Idx /\ Ahead(i, (j + n) % IdxMod) = Ahead(i, j) - n
  <2>1. n \in 0 .. IdxMod - 1
    BY <1>1, <1>3, Sizes
  <2>2. (j + n) % IdxMod = IF j + n < IdxMod THEN j + n ELSE j + n - IdxMod
    BY <2>1, AddMod
  <2> DEFINE k == (j + n) % IdxMod
  <2>3. k \in Idx
    BY <2>1, <2>2, Sizes
  <2> HIDE DEF k
  <2>4. Ahead(i, k) = IF i >= k THEN i - k ELSE i - k + IdxMod
    BY <2>3, SubMod DEF Ahead
  <2>5. k = IF j + n < IdxMod THEN j + n ELSE j + n - IdxMod
    BY <2>2 DEF k
  <2>6. Ahead(i, k) = Ahead(i, j) - n
    BY <1>1, <1>3, <2>1, <2>3, <2>4, <2>5, Sizes
  <2>7. QED
    BY <2>3, <2>6 DEF k
<1>4. QED
  BY <1>2, <1>3

\* Slots from an index that has moved on.
LEMMA SlotMoves ==
  ASSUME NEW i \in Idx, NEW n \in Nat, NEW k \in Nat
  PROVE  SlotAt((i + n) % IdxMod, k) = SlotAt(i, n + k)
<1>1. IdxMod \in Nat /\ IdxMod > 0 /\ i \in Int
  BY Sizes
<1>2. (i + n) % IdxMod \in Int
  BY <1>1
<1>3. PICK a \in Int : i + n = IdxMod * a + ((i + n) % IdxMod)
  BY <1>1, DivMod
<1> DEFINE x == i + (n + k)
           y == ((i + n) % IdxMod) + k
<1>4. x \in Int /\ y \in Int /\ x - y = IdxMod * a
  BY <1>1, <1>2, <1>3
<1> HIDE DEF x, y
<1>5. x % IdxMod = y % IdxMod
  BY <1>1, <1>4, SameMod
<1>6. QED
  BY <1>5 DEF SlotAt, x, y

\* Slots in a window of the queue's size, and a window that begins at the slot.
LEMMA SlotWindow ==
  ASSUME NEW i \in Idx
  PROVE  /\ \A n \in Nat : SlotAt(i, n) \in Slot
         /\ \A a, b \in 0 .. QueueSize - 1 : a # b => SlotAt(i, a) # SlotAt(i, b)
         /\ SlotAt(i, 0) = i % QueueSize
<1>1. ASSUME NEW n \in Nat PROVE SlotAt(i, n) \in Slot
  <2>1. (i + n) % IdxMod \in Idx
    BY Sizes
  <2>2. QED
    BY <2>1, SlotIn DEF SlotAt
<1>2. \A a, b \in 0 .. QueueSize - 1 : a # b => SlotAt(i, a) # SlotAt(i, b)
  BY SlotsDiffer DEF SlotAt
<1>3. SlotAt(i, 0) = i % QueueSize
  <2>1. i + 0 = i /\ i \in 0 .. IdxMod - 1
    BY Sizes
  <2>2. i % IdxMod = i
    BY <2>1, Sizes
  <2>3. QED
    BY <2>1, <2>2 DEF SlotAt
<1>4. QED
  BY <1>1, <1>2, <1>3

-----------------------------------------------------------------------------
(* The segments of a chain *)

LEMMA ChainType ==
  ASSUME NEW c \in Chains
  PROVE  /\ c.segs \in Seq({"ok", "fail", "unmapped"}) /\ Len(c.segs) \in Nat
         /\ c.header \in {"valid", "invalid"} /\ c.status \in {"mapped", "unmapped"}
  BY ChainAssumption DEF Chain

LEMMA OffsetType ==
  ASSUME NEW c \in Chains, NEW k \in 1 .. Len(c.segs)
  PROVE  SegOffset(c, k) \in Nat
<1>1. k \in Int
  BY ChainType
<1>2. IsFiniteSet(1 .. k - 1)
  BY <1>1, FS_Interval
<1>3. IsFiniteSet({j \in 1 .. k - 1 : c.segs[j] # "unmapped"})
  BY <1>2, FS_Subset
<1>4. QED
  BY <1>3, FS_CardinalityType DEF SegOffset

LEMMA TransfersType ==
  ASSUME NEW c \in Chains PROVE Transfers(c) \in SUBSET (Nat \X Nat)
<1>1. \A k \in 1 .. Len(c.segs) : k \in Nat /\ SegOffset(c, k) \in Nat
  BY OffsetType, ChainType
<1>2. QED
  BY <1>1 DEF Transfers

\* A segment whose predecessors all have an address is at its own offset.
LEMMA OffsetExact ==
  ASSUME NEW c \in Chains, NEW k \in 1 .. Len(c.segs),
         \A j \in 1 .. k : c.segs[j] # "unmapped"
  PROVE  SegOffset(c, k) = k - 1
<1>1. k \in Int /\ k >= 1
  BY ChainType
<1>2. {j \in 1 .. k - 1 : c.segs[j] # "unmapped"} = 1 .. k - 1
  BY <1>1
<1>3. Cardinality(1 .. k - 1) = k - 1
  BY <1>1, FS_Interval
<1>4. QED
  BY <1>2, <1>3 DEF SegOffset

\* As many segments are transferred as are fine.
LEMMA TransfersAll ==
  ASSUME NEW c \in Chains
  PROVE  Cardinality(Transfers(c)) = Len(c.segs) <=>
           \A k \in 1 .. Len(c.segs) : c.segs[k] = "ok"
<1> DEFINE n == Len(c.segs)
           oks == {j \in 1 .. n : c.segs[j] = "ok"}
           f == [k \in oks |-> <<k, SegOffset(c, k)>>]
<1>1. n \in Nat
  BY ChainType
<1>2. IsFiniteSet(1 .. n) /\ Cardinality(1 .. n) = n
  BY <1>1, FS_Interval
<1>3. /\ IsFiniteSet(oks) /\ (Cardinality(1 .. n) = Cardinality(oks) => 1 .. n = oks)
  BY <1>2, FS_Subset
<1>4. f \in Bijection(oks, Transfers(c))
  <2>1. f \in [oks -> Transfers(c)]
    BY DEF Transfers
  <2>2. \A a, b \in oks : f[a] = f[b] => a = b
    OBVIOUS
  <2>3. \A t \in Transfers(c) : \E a \in oks : f[a] = t
    BY DEF Transfers
  <2> HIDE DEF f, oks
  <2>4. QED
    BY <2>1, <2>2, <2>3 DEF Bijection, Injection, Surjection, IsInjective
<1>5. Cardinality(Transfers(c)) = Cardinality(oks)
  BY <1>3, <1>4, FS_Bijection DEF ExistsBijection
<1>6. Cardinality(oks) = n <=> oks = 1 .. n
  BY <1>2, <1>3
<1>7. QED
  BY <1>5, <1>6

-----------------------------------------------------------------------------
(* The invariant *)

\* What the registers that the driver has written have set.
SetupInv ==
  /\ "ok" \in setup => {"num", "pfn"} \subseteq setup
  /\ "num" \in setup => dev.size = QueueSize
  /\ "pfn" \in setup /\ "blind" \notin setup =>
       /\ dev.base = gpage /\ dev.page = gpage
       /\ "num" \in setup => dev.at = [base |-> gpage, size |-> QueueSize, page |-> gpage]

\* The rings are empty until the driver is done with the setup.
IdleInv ==
  "ok" \notin setup => avail.idx = 0 /\ dev.lastAvail = 0 /\ used.idx = 0 /\ lastUsed = 0

\* The requests that wait for the device, and the completions that wait for the driver.
Todo(k) == avail.ring[SlotAt(dev.lastAvail, k - 1)]
Done(k) == used.ring[SlotAt(lastUsed, k - 1)]

\* What operation() has left of a request that it completed.
Finished(h) ==
  /\ chain[h].header = "valid"
  /\ moved[h] = Transfers(chain[h])
  /\ chain[h].status = "mapped" => result[h] = StatusOf(chain[h], "none")

\* Each request in flight is in one place at most.
RingInv ==
  /\ used.idx = dev.usedId
  /\ Unread + Waiting <= Cardinality(inflight)
  /\ \A k \in 1 .. Unread : Done(k) \in inflight /\ Finished(Done(k))
  /\ \A k, l \in 1 .. Unread : k # l => Done(k) # Done(l)
  /\ \A k \in 1 .. Waiting : Todo(k) \in inflight
  /\ \A k, l \in 1 .. Waiting : k # l => Todo(k) # Todo(l)
  /\ \A k \in 1 .. Unread, l \in 1 .. Waiting : Done(k) # Todo(l)

MovedInv == \A h \in Slot : moved[h] = {} \/ moved[h] = Transfers(chain[h])

Inv == TypeOK /\ SetupInv /\ IdleInv /\ RingInv /\ MovedInv /\ Announced

\* The rings never hold more than the queue has room for.
LEMMA Room ==
  ASSUME TypeOK, RingInv
  PROVE  /\ Waiting \in Nat /\ Unread \in Nat /\ Unread + Waiting <= QueueSize
         /\ Waiting = Ahead(avail.idx, dev.lastAvail) /\ Unread = Ahead(used.idx, lastUsed)
         /\ IsFiniteSet(inflight) /\ Cardinality(inflight) \in Nat
<1>1. IsFiniteSet(Slot) /\ Cardinality(Slot) = QueueSize
  <2>1. IsFiniteSet(0 .. QueueSize - 1) /\ Cardinality(0 .. QueueSize - 1) = QueueSize
    BY FS_Interval, Sizes
  <2>2. QED
    BY <2>1, Sizes
<1>2. IsFiniteSet(inflight) /\ Cardinality(inflight) <= QueueSize
  BY <1>1, FS_Subset DEF TypeOK, Dev
<1>3. Cardinality(inflight) \in Nat
  BY <1>2, FS_CardinalityType
<1>4. Waiting = Ahead(avail.idx, dev.lastAvail) /\ Unread = Ahead(used.idx, lastUsed)
  BY DEF Waiting, Unread, Ahead
<1>5. Waiting \in Nat /\ Unread \in Nat
  <2>1. Ahead(avail.idx, dev.lastAvail) \in 0 .. IdxMod - 1
    BY AheadType DEF TypeOK, Dev
  <2>2. Ahead(used.idx, lastUsed) \in 0 .. IdxMod - 1
    BY AheadType DEF TypeOK, Dev
  <2>3. QED
    BY <1>4, <2>1, <2>2
<1>6. QED
  BY <1>2, <1>3, <1>4, <1>5, Sizes DEF RingInv

LEMMA TodoType ==
  ASSUME TypeOK, NEW k \in Nat \ {0}
  PROVE  Todo(k) \in Slot /\ Done(k) \in Slot
<1>1. SlotAt(dev.lastAvail, k - 1) \in Slot /\ SlotAt(lastUsed, k - 1) \in Slot
  BY SlotWindow DEF TypeOK, Dev
<1>2. QED
  BY <1>1 DEF Todo, Done, TypeOK, Dev

\* What operation() and the driver read, once the setup is done.
LEMMA RequestIsTodo ==
  ASSUME TypeOK, SetupInv, "ok" \in setup, NEW k \in Nat \ {0}
  PROVE  Request(k) = Todo(k)
<1>1. dev.size = QueueSize
  BY DEF SetupInv
<1>2. dev.lastAvail + k - 1 = dev.lastAvail + (k - 1)
  BY Sizes DEF TypeOK, Dev
<1>3. QED
  BY <1>1, <1>2 DEF Request, Todo, SlotAt

LEMMA UnreadIsDone ==
  ASSUME TypeOK, NEW k \in Nat \ {0}
  PROVE  UnreadHead(k) = Done(k)
<1>1. lastUsed + k - 1 = lastUsed + (k - 1) /\ lastUsed + (k - 1) \in Int
  BY Sizes DEF TypeOK, Dev
<1>2. QED
  BY <1>1, ModMod DEF UnreadHead, Done, SlotAt

LEMMA InitInv == Init => Inv
<1> SUFFICES ASSUME Init PROVE Inv
  OBVIOUS
<1>1. 0 \in Slot /\ 0 \in Idx
  BY Sizes
<1>2. chain \in [Slot -> Chains]
  BY ChainAssumption DEF Init
<1>3. NewDev \in Dev
  BY <1>1 DEF NewDev, Dev, Base, PageSize, Layout
<1>4. EmptyRing \in [idx : Idx, ring : [Slot -> Slot]]
  BY <1>1 DEF EmptyRing
<1>5. TypeOK
  BY <1>1, <1>2, <1>3, <1>4 DEF Init, TypeOK, Dev
<1>6. SetupInv /\ IdleInv /\ MovedInv
  BY DEF Init, SetupInv, IdleInv, MovedInv, NewDev, EmptyRing
<1>7. Unread = 0 /\ Waiting = 0
  BY <1>1, AheadType DEF Init, Unread, Waiting, Ahead, NewDev, EmptyRing
<1>8. Cardinality(inflight) = 0
  BY FS_EmptySet DEF Init
<1>9. RingInv
  BY <1>7, <1>8 DEF RingInv, Init, NewDev, EmptyRing
<1>10. Announced
  BY <1>7 DEF Announced
<1>11. QED
  BY <1>5, <1>6, <1>9, <1>10 DEF Inv

-----------------------------------------------------------------------------
(* Steps that leave the rings alone *)

LEMMA SameRings ==
  ASSUME Inv, UNCHANGED <<rings, inflight, lastUsed>>,
         dev'.lastAvail = dev.lastAvail, dev'.usedId = dev.usedId
  PROVE  RingInv' /\ MovedInv' /\ (Stuck' <=> Stuck) /\ Unread' = Unread
<1>1. Unread' = Unread /\ Waiting' = Waiting
  BY DEF Unread, Waiting, rings
<1>2. \A k : Todo(k)' = Todo(k) /\ Done(k)' = Done(k)
  BY DEF Todo, Done, rings
<1>3. \A h : Finished(h)' <=> Finished(h)
  BY DEF Finished, rings
<1>4. RingInv'
  BY <1>1, <1>2, <1>3 DEF Inv, RingInv, rings
<1>5. QED
  BY <1>1, <1>4 DEF Inv, MovedInv, Stuck, rings

LEMMA SetupStep ==
  ASSUME Inv,
         GuestWritePageSize \/ GuestWriteQueueNum \/ GuestWritePfn \/ GuestDriverOk
  PROVE  Inv'
<1> DEFINE Frame ==
             /\ SetupFrame
             /\ dev'.lastAvail = dev.lastAvail /\ dev'.usedId = dev.usedId
             /\ dev'.isr = dev.isr
             /\ dev' \in Dev
             /\ setup \subseteq setup' \cup {"blind"}
             /\ setup' \subseteq {"num", "pfn", "blind", "ok"}
<1>1. Frame
  <2>1. CASE GuestWritePageSize
    BY <2>1 DEF GuestWritePageSize, Inv, TypeOK, Dev
  <2>2. CASE GuestWriteQueueNum
    BY <2>2 DEF GuestWriteQueueNum, Inv, TypeOK, Dev, Layout
  <2>3. CASE GuestWritePfn
    <3>1. setup' \subseteq {"num", "pfn", "blind", "ok"} /\ setup \subseteq setup' \cup {"blind"}
      BY <2>3 DEF GuestWritePfn, Inv, TypeOK
    <3>2. SetupFrame
      BY <2>3 DEF GuestWritePfn
    <3>3. CASE UNCHANGED dev
      BY <3>1, <3>2, <3>3 DEF Inv, TypeOK
    <3>4. CASE dev' = [dev EXCEPT !.base = dev.page,
                         !.at = [base |-> dev.page, size |-> dev.size, page |-> dev.page]]
      BY <3>1, <3>2, <3>4 DEF Inv, TypeOK, Dev, Layout, Base
    <3>5. QED
      BY <2>3, <3>3, <3>4 DEF GuestWritePfn
  <2>4. CASE GuestDriverOk
    BY <2>4 DEF GuestDriverOk, Inv, TypeOK, Dev
  <2>5. QED
    BY <2>1, <2>2, <2>3, <2>4
<1>2. TypeOK'
  BY <1>1 DEF Inv, TypeOK, Dev, rings, SetupFrame
<1>3. SetupInv'
  <2>1. CASE GuestWritePageSize
    BY <2>1 DEF GuestWritePageSize, SetupFrame, Inv, TypeOK, Dev, SetupInv
  <2>2. CASE GuestWriteQueueNum
    BY <2>2 DEF GuestWriteQueueNum, SetupFrame, Inv, TypeOK, Dev, SetupInv
  <2>3. CASE GuestWritePfn
    <3>1. /\ "ok" \in setup' => "ok" \in setup
          /\ "num" \in setup' <=> "num" \in setup
          /\ "pfn" \in setup' /\ gpage' = gpage
          /\ "blind" \notin setup' => dev.page = gpage
      BY <2>3 DEF GuestWritePfn, SetupFrame
    <3>2. CASE UNCHANGED dev /\ dev.page # gpage
      BY <3>1, <3>2 DEF Inv, SetupInv
    <3>3. CASE dev' = [dev EXCEPT !.base = dev.page,
                         !.at = [base |-> dev.page, size |-> dev.size, page |-> dev.page]]
      <4>1. /\ dev'.size = dev.size /\ dev'.page = dev.page /\ dev'.base = dev.page
            /\ dev'.at = [base |-> dev.page, size |-> dev.size, page |-> dev.page]
        BY <3>3 DEF Inv, TypeOK, Dev
      <4>2. QED
        BY <3>1, <4>1 DEF Inv, SetupInv
    <3>4. QED
      BY <2>3, <3>2, <3>3 DEF GuestWritePfn
  <2>4. CASE GuestDriverOk
    BY <2>4 DEF GuestDriverOk, SetupFrame, Inv, TypeOK, Dev, SetupInv
  <2>5. QED
    BY <2>1, <2>2, <2>3, <2>4
<1>5. IdleInv'
  BY <1>1 DEF Inv, IdleInv, rings, SetupFrame
<1>6. RingInv' /\ MovedInv' /\ (Stuck' <=> Stuck) /\ Unread' = Unread
  BY <1>1, SameRings DEF SetupFrame
<1>7. Announced'
  BY <1>1, <1>6 DEF Inv, Announced, SetupFrame
<1>8. QED
  BY <1>2, <1>3, <1>5, <1>6, <1>7 DEF Inv

LEMMA TakeIrqStep ==
  ASSUME Inv, GuestTakeIrq \/ GuestReapEnd \/ GuestNotifyPanic PROVE Inv'
<1>1. /\ UNCHANGED <<rings, checks, inflight, lastUsed, gpage, setup>>
      /\ dev'.lastAvail = dev.lastAvail /\ dev'.usedId = dev.usedId
      /\ dev'.size = dev.size /\ dev'.base = dev.base /\ dev'.at = dev.at
      /\ dev'.page = dev.page
  BY DEF GuestTakeIrq, GuestReapEnd, GuestNotifyPanic, Inv, TypeOK, Dev, driver
<1>2. TypeOK'
  <2>1. CASE GuestTakeIrq
    <3>1. dev' \in Dev
      BY <2>1 DEF GuestTakeIrq, Inv, TypeOK, Dev
    <3>2. irq' \in BOOLEAN /\ handler' \in {"idle", "reap"} /\ panicked' = panicked
      BY <2>1 DEF GuestTakeIrq
    <3>3. QED
      BY <1>1, <3>1, <3>2 DEF Inv, TypeOK, Dev, rings
  <2>2. CASE GuestReapEnd
    BY <2>2 DEF GuestReapEnd, Inv, TypeOK, Dev, rings
  <2>3. CASE GuestNotifyPanic
    BY <2>3 DEF GuestNotifyPanic, Inv, TypeOK, Dev, rings, driver
  <2>4. QED
    BY <2>1, <2>2, <2>3
<1>3. SetupInv' /\ IdleInv'
  BY <1>1 DEF Inv, SetupInv, IdleInv, rings
<1>4. RingInv' /\ MovedInv' /\ (Stuck' <=> Stuck) /\ Unread' = Unread
  BY <1>1, SameRings
<1>5. Announced'
  <2>1. CASE GuestTakeIrq
    BY <1>4, <2>1 DEF GuestTakeIrq, Inv, Announced
  <2>2. CASE GuestReapEnd
    <3>1. Unread = 0
      BY <2>2, AheadType DEF GuestReapEnd, Unread, Ahead, Inv, TypeOK, Dev
    <3>2. QED
      BY <1>4, <3>1 DEF Announced
  <2>3. CASE GuestNotifyPanic
    BY <1>4, <2>3 DEF GuestNotifyPanic, Inv, Announced, driver
  <2>4. QED
    BY <2>1, <2>2, <2>3
<1>6. QED
  BY <1>2, <1>3, <1>4, <1>5 DEF Inv

LEMMA ResetStep ==
  ASSUME Inv, GuestReset PROVE Inv'
<1>1. 0 \in Slot /\ 0 \in Idx
  BY Sizes
<1>2. NewDev \in Dev
  BY <1>1 DEF NewDev, Dev, Base, PageSize, Layout
<1>3. EmptyRing \in [idx : Idx, ring : [Slot -> Slot]]
  BY <1>1 DEF EmptyRing
<1>4. TypeOK'
  BY <1>1, <1>2, <1>3 DEF GuestReset, Inv, TypeOK, Dev
<1>5. SetupInv' /\ IdleInv' /\ MovedInv'
  BY DEF GuestReset, SetupInv, IdleInv, MovedInv, NewDev, EmptyRing
<1>6. Unread' = 0 /\ Waiting' = 0
  BY <1>1, AheadType DEF GuestReset, Unread, Waiting, Ahead, NewDev, EmptyRing
<1>7. Cardinality(inflight') = 0
  BY FS_EmptySet DEF GuestReset
<1>8. RingInv'
  BY <1>6, <1>7 DEF RingInv, GuestReset, NewDev, EmptyRing
<1>9. Announced'
  BY <1>6 DEF Announced
<1>10. QED
  BY <1>4, <1>5, <1>8, <1>9 DEF Inv

\* The driver reaps the oldest completion.
LEMMA ReapStep ==
  ASSUME Inv, GuestReap PROVE Inv'
<1>1. /\ lastUsed # used.idx /\ handler = "reap" /\ lastUsed' = (lastUsed + 1) % IdxMod
      /\ inflight' = inflight \ {used.ring[lastUsed % QueueSize]}
      /\ UNCHANGED <<dev, rings, irq, checks, panicked, gpage, setup, handler>>
  BY DEF GuestReap
<1>2. TypeOK /\ RingInv /\ lastUsed \in Idx /\ used.idx \in Idx
  BY DEF Inv, TypeOK, Dev
<1>3. /\ Waiting \in Nat /\ Unread \in Nat /\ Unread + Waiting <= QueueSize
      /\ Unread = Ahead(used.idx, lastUsed)
      /\ IsFiniteSet(inflight) /\ Cardinality(inflight) \in Nat
  BY <1>2, Room
<1>4. Unread >= 1
  BY <1>1, <1>2, <1>3, AheadType
<1>5. lastUsed' \in Idx /\ Unread' = Unread - 1
  <2>1. lastUsed' \in Idx /\ Ahead(used.idx, lastUsed') = Ahead(used.idx, lastUsed) - 1
    BY <1>1, <1>2, <1>3, <1>4, AheadMoves
  <2>2. QED
    BY <1>1, <1>3, <2>1 DEF Unread, Ahead, rings
<1>6. Waiting' = Waiting
  BY <1>1 DEF Waiting, rings
<1>7. used.ring[lastUsed % QueueSize] = Done(1) /\ Done(1) \in inflight
  BY <1>2, <1>4, SlotWindow DEF Done, RingInv
<1>8. \A k \in Nat \ {0} : Done(k)' = Done(k + 1)
  <2>1. ASSUME NEW k \in Nat \ {0} PROVE Done(k)' = Done(k + 1)
    <3>1. SlotAt(lastUsed', k - 1) = SlotAt(lastUsed, 1 + (k - 1))
      BY <1>1, <1>2, SlotMoves
    <3>2. 1 + (k - 1) = (k + 1) - 1
      OBVIOUS
    <3>3. QED
      BY <1>1, <3>1, <3>2 DEF Done, rings
  <2>2. QED
    BY <2>1
<1>9. \A k : Todo(k)' = Todo(k)
  BY <1>1 DEF Todo, rings
<1>10. \A h : Finished(h)' <=> Finished(h)
  BY <1>1 DEF Finished, rings
<1>11. Cardinality(inflight') = Cardinality(inflight) - 1
  BY <1>1, <1>3, <1>7, FS_RemoveElement
<1>12. RingInv'
  <2>1. used'.idx = dev'.usedId
    BY <1>1, <1>2 DEF RingInv, rings
  <2>2. Unread' + Waiting' <= Cardinality(inflight')
    BY <1>2, <1>3, <1>5, <1>6, <1>11 DEF RingInv
  <2>3. \A k \in 1 .. Unread' : k \in Nat \ {0} /\ k + 1 \in 1 .. Unread /\ k + 1 # 1
    BY <1>3, <1>4, <1>5
  <2>4. \A k \in 1 .. Unread' : Done(k)' \in inflight' /\ Finished(Done(k))'
    BY <1>1, <1>2, <1>3, <1>4, <1>7, <1>8, <1>10, <2>3 DEF RingInv
  <2>5. \A k, l \in 1 .. Unread' : k # l => Done(k)' # Done(l)'
    BY <1>2, <1>8, <2>3 DEF RingInv
  <2>6. \A k \in 1 .. Waiting' : Todo(k)' \in inflight'
    BY <1>1, <1>2, <1>3, <1>4, <1>6, <1>7, <1>9 DEF RingInv
  <2>7. \A k, l \in 1 .. Waiting' : k # l => Todo(k)' # Todo(l)'
    BY <1>2, <1>6, <1>9 DEF RingInv
  <2>8. \A k \in 1 .. Unread', l \in 1 .. Waiting' : Done(k)' # Todo(l)'
    BY <1>2, <1>6, <1>8, <1>9, <2>3 DEF RingInv
  <2>9. QED
    BY <2>1, <2>2, <2>4, <2>5, <2>6, <2>7, <2>8 DEF RingInv
<1>13. TypeOK'
  BY <1>1, <1>2, <1>5 DEF TypeOK, Dev, rings
<1>14. SetupInv' /\ IdleInv'
  <2>1. "ok" \in setup
    BY <1>1 DEF Inv, IdleInv
  <2>2. QED
    BY <1>1, <2>1 DEF Inv, SetupInv, IdleInv
<1>15. MovedInv' /\ Announced'
  BY <1>1 DEF Inv, MovedInv, Announced, rings
<1>16. QED
  BY <1>12, <1>13, <1>14, <1>15 DEF Inv

\* The driver submits a request: no more than the queue has descriptors, so its slot of
\* the available ring holds none that waits.
LEMMA SubmitStep ==
  ASSUME Inv, NEW h \in Slot, NEW c \in Chains, GuestSubmit(h, c) PROVE Inv'
<1>1. /\ h \notin inflight /\ inflight' = inflight \cup {h} /\ "ok" \in setup
      /\ chain' = [chain EXCEPT ![h] = c]
      /\ result' = [result EXCEPT ![h] = "none"] /\ moved' = [moved EXCEPT ![h] = {}]
      /\ avail' = [idx  |-> (avail.idx + 1) % IdxMod,
                   ring |-> [avail.ring EXCEPT ![avail.idx % QueueSize] = h]]
      /\ UNCHANGED <<dev, used, irq, checks, panicked, lastUsed, gpage, setup, handler>>
  BY DEF GuestSubmit, Running
<1>2. TypeOK /\ RingInv /\ avail.idx \in Idx /\ dev.lastAvail \in Idx
  BY DEF Inv, TypeOK, Dev
<1>3. /\ Waiting \in Nat /\ Unread \in Nat /\ Unread + Waiting <= Cardinality(inflight)
      /\ Waiting = Ahead(avail.idx, dev.lastAvail)
      /\ IsFiniteSet(inflight) /\ Cardinality(inflight) \in Nat
  BY <1>2, Room DEF RingInv
<1>4. Cardinality(inflight') = Cardinality(inflight) + 1 /\ Cardinality(inflight') <= QueueSize
  <2>1. Cardinality(inflight \cup {h}) = Cardinality(inflight) + 1
    BY <1>1, <1>3, FS_AddElement
  <2>2. IsFiniteSet(0 .. QueueSize - 1) /\ Cardinality(0 .. QueueSize - 1) = QueueSize
    BY FS_Interval, Sizes
  <2>3. inflight \cup {h} \subseteq 0 .. QueueSize - 1
    <3>1. inflight \subseteq Slot /\ Slot = 0 .. QueueSize - 1
      BY <1>2, Sizes DEF TypeOK, Dev
    <3>2. QED
      BY <3>1
  <2>4. Cardinality(inflight \cup {h}) <= QueueSize
    BY <2>2, <2>3, FS_Subset
  <2>5. QED
    BY <1>1, <2>1, <2>4
<1> PICK W, U \in Nat : W = Waiting /\ U = Unread
  BY <1>3
<1>5. W + 1 <= QueueSize /\ W + 1 < IdxMod
  BY <1>3, <1>4, Sizes
<1>6. avail'.idx \in Idx /\ Waiting' = W + 1
  <2>1. avail'.idx = (avail.idx + 1) % IdxMod
    BY <1>1
  <2>2. avail'.idx \in Idx /\ Ahead(avail'.idx, dev.lastAvail) = W + 1
    BY <1>2, <1>3, <1>5, <2>1, AheadMoves
  <2>3. QED
    BY <1>1, <2>2 DEF Waiting, Ahead
<1>7. Unread' = U
  BY <1>1 DEF Unread
<1>8. avail.idx % QueueSize = SlotAt(dev.lastAvail, W)
  BY <1>2, <1>3, AheadType DEF SlotAt
<1>9. /\ SlotAt(dev.lastAvail, W) \in Slot
      /\ \A k \in 1 .. W : /\ SlotAt(dev.lastAvail, k - 1) \in Slot
                           /\ SlotAt(dev.lastAvail, k - 1) # SlotAt(dev.lastAvail, W)
  <2>1. /\ \A n \in Nat : SlotAt(dev.lastAvail, n) \in Slot
        /\ \A a, b \in 0 .. QueueSize - 1 :
             a # b => SlotAt(dev.lastAvail, a) # SlotAt(dev.lastAvail, b)
    BY <1>2, SlotWindow
  <2>2. \A k \in 1 .. W : k - 1 \in 0 .. QueueSize - 1 /\ k - 1 \in Nat /\ k - 1 # W
    BY <1>5, Sizes
  <2>3. W \in 0 .. QueueSize - 1
    BY <1>5, Sizes
  <2>4. QED
    BY <2>1, <2>2, <2>3
<1>10. /\ avail'.ring \in [Slot -> Slot]
       /\ avail'.ring[SlotAt(dev.lastAvail, W)] = h
       /\ \A s \in Slot : s # SlotAt(dev.lastAvail, W) => avail'.ring[s] = avail.ring[s]
  BY <1>1, <1>2, <1>8, <1>9 DEF TypeOK, Dev
<1>11. \A k \in 1 .. W : Todo(k)' = Todo(k)
  BY <1>1, <1>9, <1>10 DEF Todo
<1>12. Todo(W + 1)' = h
  <2>1. (W + 1) - 1 = W
    BY <1>3
  <2>2. avail'.ring[SlotAt(dev'.lastAvail, (W + 1) - 1)] = h
    BY <1>1, <1>10, <2>1
  <2>3. \A k : Todo(k)' = avail'.ring[SlotAt(dev'.lastAvail, k - 1)]
    BY DEF Todo
  <2>4. QED
    BY <2>2, <2>3, <1>6, <1>7
<1>13. \A k : Done(k)' = Done(k)
  BY <1>1 DEF Done
<1>14. \A g \in inflight : Finished(g) => Finished(g)'
  BY <1>1, <1>2 DEF Finished, TypeOK, Dev
<1>15. RingInv'
  <2>1. \A k \in 1 .. W + 1 : k \in 1 .. W \/ k = W + 1
    OBVIOUS
  <2>2. \A k \in 1 .. U : Done(k)' \in inflight' /\ Finished(Done(k))'
    BY <1>1, <1>2, <1>13, <1>14 DEF RingInv
  <2>3. \A k \in 1 .. W + 1 : Todo(k)' \in inflight'
    BY <1>1, <1>2, <1>11, <1>12, <2>1 DEF RingInv
  <2>4. \A k, l \in 1 .. W + 1 : k # l => Todo(k)' # Todo(l)'
    BY <1>1, <1>2, <1>11, <1>12, <2>1 DEF RingInv
  <2>5. \A k \in 1 .. U, l \in 1 .. W + 1 : Done(k)' # Todo(l)'
    BY <1>1, <1>2, <1>11, <1>12, <1>13, <2>1 DEF RingInv
  <2>6. \A k, l \in 1 .. U : k # l => Done(k)' # Done(l)'
    BY <1>2, <1>13 DEF RingInv
  <2>7. Unread' + Waiting' <= Cardinality(inflight')
    BY <1>3, <1>4, <1>6, <1>7
  <2>8. used'.idx = dev'.usedId
    BY <1>1, <1>2 DEF RingInv
  <2>9. QED
    BY <1>6, <1>7, <2>2, <2>3, <2>4, <2>5, <2>6, <2>7, <2>8 DEF RingInv
<1>16. TypeOK'
  <2>1. /\ avail' \in [idx : Idx, ring : [Slot -> Slot]]
        /\ inflight' \subseteq Slot
    BY <1>1, <1>2, <1>6, <1>10 DEF TypeOK, Dev
  <2>2. /\ chain' \in [Slot -> Chains] /\ result' \in [Slot -> {"none", "OK", "IOERR"}]
        /\ moved' \in [Slot -> SUBSET (Nat \X Nat)]
    BY <1>1, <1>2 DEF TypeOK, Dev
  <2>3. QED
    BY <1>1, <1>2, <2>1, <2>2 DEF TypeOK, Dev
<1>17. SetupInv' /\ IdleInv'
  BY <1>1 DEF Inv, SetupInv, IdleInv
<1>18. MovedInv'
  BY <1>1, <1>2 DEF Inv, MovedInv, TypeOK, Dev
<1>19. Announced'
  <2>1. Stuck => Stuck'
    BY <1>1, <1>2 DEF Stuck, TypeOK, Dev
  <2>2. QED
    BY <1>1, <1>7, <2>1 DEF Inv, Announced
<1>20. QED
  BY <1>15, <1>16, <1>17, <1>18, <1>19 DEF Inv

-----------------------------------------------------------------------------
(* operation() *)

\* A set of numbers that is not empty has a least member.
LEMMA LeastExists ==
  ASSUME NEW S, S \subseteq Nat, S # {}
  PROVE  \E k \in S : \A l \in S : k <= l
<1> DEFINE R == {p \in Nat \X Nat : p[1] < p[2]}
<1>1. IsWellFoundedOn(R, Nat)
  BY NatLessThanWellFounded, Zenon DEF OpToRel
<1>2. \A i, j \in Nat : j < i => <<j, i>> \in R
  OBVIOUS
<1> HIDE DEF R
<1>3. PICK i \in S : \A j \in S : <<j, i>> \notin R
  BY <1>1, WFMin
<1>4. ASSUME NEW j \in S PROVE i <= j
  <2>1. ~(j < i)
    BY <1>2, <1>3
  <2>2. QED
    BY <2>1
<1>5. QED
  BY <1>4

\* operation() stops at the first malformed request.
LEMMA StopFacts ==
  ASSUME Count \in Nat
  PROVE  /\ Stop \in 1 .. Count + 1
         /\ \A k \in 1 .. Count : k < Stop => chain[Request(k)].header # "invalid"
         /\ Stop <= Count => chain[Request(Stop)].header = "invalid"
         /\ Completed \in 0 .. Count /\ Taken \in 0 .. Count /\ Completed <= Taken
         /\ Signals <=> Stop > Count
         /\ Signals => Taken = Count /\ Completed = Count
<1> DEFINE invalid == {k \in 1 .. Count : chain[Request(k)].header = "invalid"}
<1>1. Stop = IF invalid = {} THEN Count + 1
             ELSE CHOOSE k \in invalid : \A l \in invalid : k <= l
  BY DEF Stop
<1>2. invalid # {} => Stop \in invalid /\ \A l \in invalid : Stop <= l
  <2> SUFFICES ASSUME invalid # {} PROVE Stop \in invalid /\ \A l \in invalid : Stop <= l
    OBVIOUS
  <2>1. invalid \subseteq Nat
    OBVIOUS
  <2> HIDE DEF invalid
  <2>2. \E k \in invalid : \A l \in invalid : k <= l
    BY <2>1, LeastExists
  <2>3. QED
    BY <1>1, <2>2
<1>3. Stop \in 1 .. Count + 1
  BY <1>1, <1>2
<1>4. \A k \in 1 .. Count : k < Stop => k \notin invalid
  BY <1>1, <1>2, <1>3
<1>5. Stop <= Count => Stop \in invalid
  <2>1. ~(Count + 1 <= Count)
    OBVIOUS
  <2>2. QED
    BY <1>1, <1>2, <2>1
<1>6. Completed = Stop - 1 /\ Taken = IF Stop <= Count THEN Stop ELSE Count
  BY DEF Completed, Taken
<1>7. Completed \in 0 .. Count /\ Taken \in 0 .. Count /\ Completed <= Taken
  BY <1>3, <1>6
<1>8. (Signals <=> Stop > Count) /\ (Signals => Taken = Count /\ Completed = Count)
  BY <1>3, <1>6 DEF Signals
<1>9. QED
  BY <1>3, <1>4, <1>5, <1>7, <1>8

\* operation() moves the completed requests from one ring to the other.
LEMMA OperationStep ==
  ASSUME Inv, GuestNotify PROVE Inv'
<1>1. TypeOK /\ SetupInv /\ RingInv /\ "ok" \in setup /\ Operation
  BY DEF Inv, GuestNotify, Running
<1>2. PICK W, U \in Nat : W = Waiting /\ U = Unread
  BY <1>1, Room
<1>3. /\ U + W <= QueueSize /\ QueueSize < IdxMod
      /\ W = Ahead(avail.idx, dev.lastAvail) /\ U = Ahead(dev.usedId, lastUsed)
      /\ U + W <= Cardinality(inflight) /\ Cardinality(inflight) \in Nat
      /\ QueueSize \in Nat /\ IdxMod \in Nat
  BY <1>1, <1>2, Room, Sizes DEF RingInv
<1>4. Count = W
  BY <1>2 DEF Count, Waiting
<1>5. PICK n, t \in 0 .. W :
        /\ n = Completed /\ t = Taken /\ n <= t /\ (Signals => t = W /\ n = W)
        /\ Signals \/ chain[Request(Stop)].header = "invalid"
        /\ Signals \/ (Stop = n + 1 /\ t = n + 1)
        /\ \A k \in 1 .. n : chain[Request(k)].header # "invalid"
  BY <1>2, <1>4, StopFacts DEF Completed, Taken, Signals
<1>6. \A k \in 1 .. W : Request(k) = Todo(k) /\ Todo(k) \in inflight /\ Todo(k) \in Slot
  BY <1>1, <1>2, RequestIsTodo DEF RingInv, TypeOK, Dev
<1>7. \A k \in 1 .. n : UsedSlot(k) = SlotAt(lastUsed, U + (k - 1))
  <2> SUFFICES ASSUME NEW k \in 1 .. n
               PROVE  UsedSlot(k) = SlotAt(lastUsed, U + (k - 1))
    OBVIOUS
  <2>1. dev.size = QueueSize /\ lastUsed \in Idx /\ dev.usedId \in Idx
    BY <1>1 DEF SetupInv, TypeOK, Dev
  <2>2. (lastUsed + U) % IdxMod = dev.usedId
    BY <1>3, <2>1, AheadType
  <2>3. SlotAt(dev.usedId, k - 1) = SlotAt(lastUsed, U + (k - 1))
    BY <2>1, <2>2, SlotMoves
  <2>4. dev.usedId + k - 1 = dev.usedId + (k - 1)
    BY <2>1, Sizes
  <2>5. QED
    BY <2>1, <2>3, <2>4 DEF UsedSlot, SlotAt
<1> DEFINE done == {Todo(k) : k \in 1 .. n}
<1>8. /\ dev'.lastAvail = (dev.lastAvail + t) % IdxMod
      /\ dev'.usedId = (dev.usedId + n) % IdxMod
      /\ dev'.isr = (dev.isr \/ Signals)
      /\ dev'.size = dev.size /\ dev'.base = dev.base /\ dev'.at = dev.at
      /\ dev'.page = dev.page /\ dev'.status = dev.status
      /\ irq' = (irq \/ Signals)
      /\ UNCHANGED <<avail, chain, checks, panicked, inflight, lastUsed, gpage, setup, handler>>
  BY <1>1, <1>5 DEF Operation, TypeOK, Dev, driver
<1>9. used' = [idx  |-> IF n > 0 THEN dev'.usedId ELSE used.idx,
               ring |-> [s \in Slot |->
                           IF \E k \in 1 .. n : UsedSlot(k) = s
                             THEN Request(CHOOSE k \in 1 .. n : UsedSlot(k) = s)
                             ELSE used.ring[s]]]
  BY <1>1, <1>5 DEF Operation
<1>10. {Request(k) : k \in 1 .. n} = done
  BY <1>5, <1>6
<1>11. /\ result' = [h \in Slot |-> IF h \in done THEN StatusOf(chain[h], result[h]) ELSE result[h]]
       /\ moved' = [h \in Slot |-> IF h \in done THEN Transfers(chain[h]) ELSE moved[h]]
  BY <1>1, <1>5, <1>10 DEF Operation
<1>12. dev'.lastAvail \in Idx /\ Waiting' = W - t
  <2>1. dev'.lastAvail \in Idx /\ Ahead(avail.idx, dev'.lastAvail) = W - t
    BY <1>1, <1>3, <1>5, <1>8, AheadMoves DEF TypeOK, Dev
  <2>2. QED
    BY <1>8, <2>1 DEF Waiting, Ahead
<1>13. dev'.usedId \in Idx /\ used'.idx = dev'.usedId /\ Unread' = U + n
  <2>1. dev'.usedId \in Idx /\ Ahead(dev'.usedId, lastUsed) = U + n
    BY <1>1, <1>3, <1>5, <1>8, AheadMoves DEF TypeOK, Dev
  <2>2. used'.idx = dev'.usedId
    <3>1. CASE n > 0
      BY <1>9, <3>1
    <3>2. CASE ~(n > 0)
      <4>1. n = 0 /\ dev.usedId \in 0 .. IdxMod - 1
        BY <1>1, <1>5, <3>2, Sizes DEF TypeOK, Dev
      <4>2. dev'.usedId = dev.usedId
        <5>1. dev'.usedId = (dev.usedId + n) % IdxMod
          BY <1>8
        <5>2. \A x \in 0 .. IdxMod - 1 : (x + 0) % IdxMod = x
          BY QueueAssumption
        <5>3. QED
          BY <4>1, <5>1, <5>2
      <4>3. QED
        BY <1>1, <1>9, <3>2, <4>2 DEF RingInv
    <3>3. QED
      BY <3>1, <3>2
  <2>3. QED
    BY <1>8, <2>1, <2>2 DEF Unread, Ahead
<1>14. \A k \in 1 .. W - t : Todo(k)' = Todo(k + t) /\ k + t \in 1 .. W
  <2> SUFFICES ASSUME NEW k \in 1 .. W - t PROVE Todo(k)' = Todo(k + t) /\ k + t \in 1 .. W
    OBVIOUS
  <2>1. SlotAt(dev'.lastAvail, k - 1) = SlotAt(dev.lastAvail, t + (k - 1))
    BY <1>1, <1>5, <1>8, SlotMoves DEF TypeOK, Dev
  <2>2. t + (k - 1) = (k + t) - 1 /\ k + t \in 1 .. W
    BY <1>5
  <2>3. QED
    BY <1>8, <2>1, <2>2 DEF Todo
<1>15. /\ \A j \in Nat : SlotAt(lastUsed, j) \in Slot
       /\ \A a, b \in 0 .. QueueSize - 1 : a # b => SlotAt(lastUsed, a) # SlotAt(lastUsed, b)
  BY <1>1, SlotWindow DEF TypeOK, Dev
<1>16. \A k \in 1 .. U : Done(k)' = Done(k)
  <2> SUFFICES ASSUME NEW k \in 1 .. U PROVE Done(k)' = Done(k)
    OBVIOUS
  <2>1. k - 1 \in 0 .. QueueSize - 1 /\ k - 1 \in Nat
    BY <1>3
  <2>2. ASSUME NEW l \in 1 .. n PROVE UsedSlot(l) # SlotAt(lastUsed, k - 1)
    <3>1. U + (l - 1) \in 0 .. QueueSize - 1 /\ U + (l - 1) # k - 1
      BY <1>3, <1>5
    <3>2. QED
      BY <1>7, <1>15, <2>1, <3>1
  <2>3. used'.ring[SlotAt(lastUsed, k - 1)] = used.ring[SlotAt(lastUsed, k - 1)]
    BY <1>9, <1>15, <2>1, <2>2
  <2>4. QED
    BY <1>8, <2>3 DEF Done
<1>17. \A k \in 1 .. n : Done(U + k)' = Todo(k)
  <2> SUFFICES ASSUME NEW k \in 1 .. n PROVE Done(U + k)' = Todo(k)
    OBVIOUS
  <2>1. U + (k - 1) \in 0 .. QueueSize - 1 /\ U + (k - 1) = (U + k) - 1 /\ U + (k - 1) \in Nat
    BY <1>3, <1>5
  <2> DEFINE s == SlotAt(lastUsed, U + (k - 1))
  <2>2. s \in Slot /\ UsedSlot(k) = s
    BY <1>7, <1>15, <2>1
  <2>3. ASSUME NEW l \in 1 .. n, UsedSlot(l) = s PROVE l = k
    <3>1. U + (l - 1) \in 0 .. QueueSize - 1
      BY <1>3, <1>5
    <3>2. U + (l - 1) = U + (k - 1)
      BY <1>7, <1>15, <2>1, <2>3, <3>1
    <3>3. QED
      BY <3>2
  <2> HIDE DEF s
  <2>4. (CHOOSE l \in 1 .. n : UsedSlot(l) = s) = k
    BY <2>2, <2>3
  <2>5. used'.ring[s] = Request(k)
    BY <1>9, <2>2, <2>4
  <2>6. used'.ring[s] = Todo(k)
    BY <1>5, <1>6, <2>5
  <2>7. QED
    BY <1>8, <2>1, <2>6 DEF Done, s
<1>18. done \subseteq Slot
  BY <1>5, <1>6
<1>19. \A h \in done : Finished(h)'
  <2> SUFFICES ASSUME NEW h \in done PROVE Finished(h)'
    OBVIOUS
  <2>1. PICK k \in 1 .. n : h = Todo(k) /\ h \in Slot
    BY <1>18
  <2>2. chain[h] \in Chains /\ chain[h].header # "invalid"
    BY <1>1, <1>5, <1>6, <2>1 DEF TypeOK, Dev
  <2>3. chain[h].header = "valid"
    BY <2>2, ChainType
  <2>4. moved'[h] = Transfers(chain[h]) /\ result'[h] = StatusOf(chain[h], result[h])
    BY <1>11, <2>1
  <2>5. chain[h].status = "mapped" => StatusOf(chain[h], result[h]) = StatusOf(chain[h], "none")
    BY DEF StatusOf
  <2>6. QED
    BY <1>8, <2>3, <2>4, <2>5 DEF Finished
<1>20. \A h \in Slot \ done : Finished(h) => Finished(h)'
  BY <1>8, <1>11 DEF Finished
<1>21. \A k \in 1 .. U : Done(k) \in Slot \ done
  <2>1. \A k \in 1 .. U, l \in 1 .. n : Done(k) # Todo(l)
    BY <1>1, <1>2, <1>5 DEF RingInv
  <2>2. QED
    BY <1>1, <1>2, <2>1, TodoType
<1>22. RingInv'
  <2>1. \A k \in 1 .. U + n : k \in 1 .. U \/ \E l \in 1 .. n : k = U + l
    <3>1. \A k \in 1 .. U + n : k \in 1 .. U \/ (k - U \in 1 .. n /\ k = U + (k - U))
      BY <1>5
    <3>2. QED
      BY <3>1
  <2>2. \A l \in 1 .. n : Todo(l) \in done /\ Todo(l) \in inflight /\ l \in 1 .. W
    BY <1>5, <1>6
  <2>3. \A k \in 1 .. U + n : \/ k \in 1 .. U /\ Done(k)' = Done(k) /\ Done(k) \in Slot \ done
                              \/ \E l \in 1 .. n : k = U + l /\ Done(k)' = Todo(l)
    BY <1>16, <1>17, <1>21, <2>1
  <2>4. \A k \in 1 .. U + n : Done(k)' \in inflight' /\ Finished(Done(k))'
    <3> SUFFICES ASSUME NEW k \in 1 .. U + n, NEW h, h = Done(k)'
                 PROVE  h \in inflight' /\ Finished(h)'
      OBVIOUS
    <3>1. CASE k \in 1 .. U /\ h = Done(k) /\ h \in Slot \ done
      BY <1>1, <1>2, <1>8, <1>20, <3>1 DEF RingInv
    <3>2. CASE \E l \in 1 .. n : h = Todo(l)
      BY <1>8, <1>19, <2>2, <3>2
    <3>3. QED
      BY <2>3, <3>1, <3>2
  <2>5. \A k, l \in 1 .. U + n : k # l => Done(k)' # Done(l)'
    <3>1. \A k, l \in 1 .. U : k # l => Done(k) # Done(l)
      BY <1>1, <1>2 DEF RingInv
    <3>2. \A k, l \in 1 .. n : k # l => Todo(k) # Todo(l)
      BY <1>1, <1>2, <2>2 DEF RingInv
    <3> SUFFICES ASSUME NEW k \in 1 .. U + n, NEW l \in 1 .. U + n, k # l
                 PROVE  Done(k)' # Done(l)'
      OBVIOUS
    <3>3. CASE k \in 1 .. U /\ Done(k)' = Done(k) /\ Done(k) \in Slot \ done
      BY <2>2, <2>3, <3>1, <3>3
    <3>4. ASSUME NEW a \in 1 .. n, k = U + a, Done(k)' = Todo(a)
          PROVE  Done(k)' # Done(l)'
      BY <2>2, <2>3, <3>2, <3>4
    <3>5. QED
      BY <2>3, <3>3, <3>4
  <2>6. \A k \in 1 .. W - t : Todo(k)' \in inflight'
    BY <1>6, <1>8, <1>14
  <2>7. \A k, l \in 1 .. W - t : k # l => Todo(k)' # Todo(l)'
    <3>1. \A k, l \in 1 .. W - t : k # l => k + t # l + t
      BY <1>5
    <3>2. QED
      BY <1>1, <1>2, <1>14, <3>1 DEF RingInv
  <2>8. \A k \in 1 .. U + n, l \in 1 .. W - t : Done(k)' # Todo(l)'
    <3> SUFFICES ASSUME NEW k \in 1 .. U + n, NEW l \in 1 .. W - t
                 PROVE  Done(k)' # Todo(l)'
      OBVIOUS
    <3>1. l + t \in 1 .. W /\ Todo(l)' = Todo(l + t)
      BY <1>14
    <3>2. CASE k \in 1 .. U /\ Done(k)' = Done(k)
      BY <1>1, <1>2, <3>1, <3>2 DEF RingInv
    <3>3. ASSUME NEW a \in 1 .. n, Done(k)' = Todo(a) PROVE Done(k)' # Todo(l)'
      <4>1. a # l + t /\ a \in 1 .. W
        BY <1>5
      <4>2. QED
        BY <1>1, <1>2, <3>1, <3>3, <4>1 DEF RingInv
    <3>4. QED
      BY <2>3, <3>2, <3>3
  <2>9. Unread' + Waiting' <= Cardinality(inflight')
    BY <1>3, <1>5, <1>8, <1>12, <1>13
  <2>10. QED
    BY <1>12, <1>13, <2>4, <2>5, <2>6, <2>7, <2>8, <2>9 DEF RingInv
<1>23. TypeOK'
  <2>1. \A s \in Slot : StatusOf(chain[s], result[s]) \in {"none", "OK", "IOERR"}
    BY <1>1 DEF StatusOf, TypeOK, Dev
  <2>2. \A s \in Slot : Transfers(chain[s]) \in SUBSET (Nat \X Nat)
    BY <1>1, TransfersType DEF TypeOK, Dev
  <2>3. /\ result' \in [Slot -> {"none", "OK", "IOERR"}]
        /\ moved' \in [Slot -> SUBSET (Nat \X Nat)]
    BY <1>1, <1>11, <2>1, <2>2 DEF TypeOK, Dev
  <2>4. used' \in [idx : Idx, ring : [Slot -> Slot]]
    <3>1. ASSUME NEW s \in Slot, \E k \in 1 .. n : UsedSlot(k) = s
          PROVE  Request(CHOOSE k \in 1 .. n : UsedSlot(k) = s) \in Slot
      <4>1. (CHOOSE k \in 1 .. n : UsedSlot(k) = s) \in 1 .. n
        BY <3>1
      <4>2. QED
        BY <1>5, <1>6, <4>1
    <3>2. used'.idx \in Idx
      BY <1>13
    <3>3. used'.ring \in [Slot -> Slot]
      BY <1>1, <1>9, <3>1 DEF TypeOK, Dev
    <3>4. QED
      BY <1>9, <3>2, <3>3
  <2>5. dev' \in Dev
    <3> DEFINE a == dev'.lastAvail
               u == dev'.usedId
               i == (dev.isr \/ Signals)
    <3>1. dev' = [dev EXCEPT !.lastAvail = a, !.usedId = u, !.isr = i]
      BY <1>1, <1>5, <1>8 DEF Operation
    <3>2. dev \in Dev /\ a \in Idx /\ u \in Idx /\ i \in BOOLEAN
      BY <1>1, <1>12, <1>13 DEF TypeOK
    <3> HIDE DEF a, u, i
    <3>3. QED
      BY <3>1, <3>2 DEF Dev
  <2>6. irq' \in BOOLEAN
    BY <1>1, <1>8 DEF Signals, TypeOK, Dev
  <2>7. QED
    BY <1>1, <1>8, <2>3, <2>4, <2>5, <2>6 DEF TypeOK, Dev
<1>24. SetupInv' /\ IdleInv'
  BY <1>1, <1>8 DEF SetupInv, IdleInv
<1>25. MovedInv'
  BY <1>8, <1>11 DEF Inv, MovedInv
<1>26. Announced'
  <2>1. CASE Signals
    BY <1>8, <2>1 DEF Announced
  <2>2. CASE ~Signals
    <3>1. n + 1 \in 1 .. W /\ chain[Request(n + 1)].header = "invalid"
      BY <1>5, <2>2
    <3>2. Todo(n + 1) \in inflight /\ chain[Todo(n + 1)].header = "invalid"
      BY <1>6, <3>1
    <3>3. Stuck'
      BY <1>8, <3>2 DEF Stuck
    <3>4. QED
      BY <3>3 DEF Announced
  <2>3. QED
    BY <2>1, <2>2
<1>27. QED
  BY <1>22, <1>23, <1>24, <1>25, <1>26 DEF Inv

-----------------------------------------------------------------------------
(* Theorems *)

LEMMA NextInv == Inv /\ [Next]_vars => Inv'
<1> SUFFICES ASSUME Inv, [Next]_vars PROVE Inv'
  OBVIOUS
<1>1. CASE GuestSetup
  BY <1>1, SetupStep, ResetStep DEF GuestSetup
<1>2. CASE GuestHandler
  BY <1>2, TakeIrqStep, ReapStep DEF GuestHandler
<1>3. CASE Notify
  BY <1>3, OperationStep, TakeIrqStep DEF Notify
<1>4. ASSUME NEW h \in Slot, NEW c \in Chains, GuestSubmit(h, c) PROVE Inv'
  BY <1>4, SubmitStep
<1>5. CASE UNCHANGED vars
  <2>1. RingInv' /\ MovedInv' /\ (Stuck' <=> Stuck) /\ Unread' = Unread
    BY <1>5, SameRings DEF vars, driver
  <2>2. TypeOK' /\ SetupInv' /\ IdleInv'
    BY <1>5 DEF Inv, TypeOK, Dev, SetupInv, IdleInv, vars, rings, driver
  <2>3. Announced'
    BY <1>5, <2>1 DEF Inv, Announced, vars, driver
  <2>4. QED
    BY <2>1, <2>2, <2>3 DEF Inv
<1>6. QED
  BY <1>1, <1>2, <1>3, <1>4, <1>5 DEF Next

\* The device and the driver agree on the rings at every moment.
THEOREM Invariance == Spec => []Inv
  BY InitInv, NextInv, PTL DEF Spec

\* Type correctness of the device, the rings and the driver.
THEOREM TypeCorrect == Spec => []TypeOK
<1>1. Inv => TypeOK
  BY DEF Inv
<1>2. QED
  BY <1>1, Invariance, PTL

\* In whatever order the driver writes the registers, and however often: once it is
\* done, the device looks for the rings where they are, unless the frame number was last
\* written while the device had another page size than the driver.
THEOREM SetupAlwaysAgrees == Spec => []SetupAgrees
<1>1. Inv => SetupAgrees
  BY DEF Inv, SetupInv, SetupAgrees
<1>2. QED
  BY <1>1, Invariance, PTL

\* For every size of the queue, also where the indices wrap: a completion is a request
\* in flight that is reported once and is not to be handled again.
THEOREM UsedExactlyOnce == Spec => []UsedOnce
<1>1. Inv => UsedOnce
  <2> SUFFICES ASSUME Inv PROVE UsedOnce
    OBVIOUS
  <2>1. TypeOK /\ SetupInv /\ RingInv /\ Waiting \in Nat /\ Unread \in Nat
    BY Room DEF Inv
  <2>2. \A k \in 1 .. Unread : UnreadHead(k) = Done(k)
    BY <2>1, UnreadIsDone
  <2>3. "ok" \notin setup => Waiting = 0
    BY <2>1, AheadType DEF Inv, IdleInv, Waiting, Ahead, TypeOK, Dev
  <2>4. \A l \in 1 .. Waiting : Request(l) = Todo(l)
    BY <2>1, <2>3, RequestIsTodo
  <2>5. QED
    BY <2>1, <2>2, <2>4 DEF UsedOnce, RingInv
<1>2. QED
  BY <1>1, Invariance, PTL

\* For every chain: the status byte of a completed request says whether all of its
\* segments were transferred.
THEOREM StatusIsHonest == Spec => []StatusHonest
<1>1. Inv => StatusHonest
  <2> SUFFICES ASSUME Inv, NEW k \in 1 .. Unread, NEW h, h = UnreadHead(k),
                      chain[h].status = "mapped"
               PROVE  result[h] = "OK" <=> Cardinality(moved[h]) = Len(chain[h].segs)
    BY DEF StatusHonest
  <2>1. TypeOK /\ RingInv /\ Unread \in Nat
    BY Room DEF Inv
  <2>2. h = Done(k)
    BY <2>1, UnreadIsDone
  <2>3. h \in Slot /\ Finished(h)
    BY <2>1, <2>2 DEF RingInv, TypeOK, Dev
  <2>4. chain[h] \in Chains
    BY <2>1, <2>3 DEF TypeOK, Dev
  <2>5. result[h] = "OK" <=> \A j \in 1 .. Len(chain[h].segs) : chain[h].segs[j] = "ok"
    BY <2>3 DEF Finished, StatusOf
  <2>6. QED
    BY <2>3, <2>4, <2>5, TransfersAll DEF Finished
<1>2. QED
  BY <1>1, Invariance, PTL

\* For every chain: a segment is transferred at its own offset, unless one before it
\* has no physical address.
THEOREM SegmentsInPlace == Spec => []InPlace
<1>1. Inv => InPlace
  <2> SUFFICES ASSUME Inv, NEW h \in Slot, NEW m \in moved[h],
                      \A j \in 1 .. m[1] : chain[h].segs[j] # "unmapped"
               PROVE  m[2] = m[1] - 1
    BY DEF InPlace
  <2>1. chain[h] \in Chains
    BY DEF Inv, TypeOK, Dev
  <2>2. m \in Transfers(chain[h])
    BY DEF Inv, MovedInv
  <2>3. PICK k \in 1 .. Len(chain[h].segs) : m = <<k, SegOffset(chain[h], k)>>
    BY <2>2 DEF Transfers
  <2>4. SegOffset(chain[h], k) = k - 1
    BY <2>1, <2>3, OffsetExact
  <2>5. QED
    BY <2>3, <2>4
<1>2. QED
  BY <1>1, Invariance, PTL

\* A completion that the driver has not seen is announced, or a malformed request has
\* kept operation() from its end.
THEOREM AlwaysAnnounced == Spec => []Announced
<1>1. Inv => Announced
  BY DEF Inv
<1>2. QED
  BY <1>1, Invariance, PTL
=============================================================================
