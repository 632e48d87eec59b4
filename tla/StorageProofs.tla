---------------------------- MODULE StorageProofs ----------------------------
(***************************************************************************)
(* Proofs about file access on the host's disk, for every size of the      *)
(* rings, every geometry of the file system and every sequence of calls.   *)
(***************************************************************************)
EXTENDS Storage, FiniteSetTheorems, TLAPS

Desc == D!Desc
Idx  == D!Idx

-----------------------------------------------------------------------------
(* allocate_descriptor *)

\* A set of numbers that is not empty has a lowest member.
LEMMA LowestIn ==
  ASSUME NEW S, S \subseteq Nat, S # {}
  PROVE  D!Lowest(S) \in S
<1> DEFINE R == {p \in Nat \X Nat : p[1] < p[2]}
<1>1. IsWellFoundedOn(R, Nat)
  BY NatLessThanWellFounded, Zenon DEF OpToRel
<1>2. \A i, j \in Nat : j < i => <<j, i>> \in R
  OBVIOUS
<1> HIDE DEF R
<1>3. PICK i \in S : \A j \in S : <<j, i>> \notin R
  BY <1>1, WFMin
<1>4. ASSUME NEW j \in S PROVE i <= j
  <2>1. ~(j < i)
    BY <1>2, <1>3
  <2>2. QED
    BY <2>1
<1>5. QED
  BY <1>4 DEF D!Lowest

\* The driver's module counts as this one does.
LEMMA SameCardinality == \A S : D!Cardinality(S) = Cardinality(S)
  BY Zenon DEF D!Cardinality, Cardinality

\* Three calls of allocate_descriptor return three descriptors that were free.
LEMMA AllocatedThree ==
  ASSUME NEW S, S \subseteq Desc, Cardinality(S) >= 3
  PROVE  \E a, b, c \in S : /\ a # b /\ a # c /\ b # c
                            /\ D!Allocated(S, 3) = <<a, b, c>>
<1> DEFINE a == D!Lowest(S)
           b == D!Lowest(S \ {a})
           c == D!Lowest(S \ {a, b})
<1>1. IsFiniteSet(S) /\ S \subseteq Nat
  <2>1. IsFiniteSet(0 .. NumDesc - 1)
    BY FS_Interval, RingAssumption
  <2>2. S \subseteq 0 .. NumDesc - 1
    BY DEF Desc, D!Desc
  <2>3. IsFiniteSet(S)
    BY <2>1, <2>2, FS_Subset
  <2>4. QED
    BY <2>2, <2>3, RingAssumption
<1>2. S # {}
  BY FS_EmptySet
<1>3. a \in S
  BY <1>1, <1>2, LowestIn
<1>4. IsFiniteSet(S \ {a}) /\ Cardinality(S \ {a}) = Cardinality(S) - 1
  BY <1>1, <1>3, FS_RemoveElement
<1>5. S \ {a} # {} /\ S \ {a} \subseteq Nat
  <2>1. Cardinality(S) \in Nat
    BY <1>1, FS_CardinalityType
  <2>2. Cardinality(S \ {a}) # 0
    BY <1>4, <2>1
  <2>3. QED
    BY <1>1, <2>2, FS_EmptySet
<1>6. b \in S \ {a}
  BY <1>5, LowestIn
<1>7. Cardinality((S \ {a}) \ {b}) = Cardinality(S \ {a}) - 1
  BY <1>4, <1>6, FS_RemoveElement
<1>8. S \ {a, b} # {} /\ S \ {a, b} \subseteq Nat
  <2>1. S \ {a, b} = (S \ {a}) \ {b}
    OBVIOUS
  <2>2. Cardinality(S) \in Nat
    BY <1>1, FS_CardinalityType
  <2>3. Cardinality((S \ {a}) \ {b}) # 0
    BY <1>4, <1>7, <2>2
  <2>4. QED
    BY <1>1, <2>1, <2>3, FS_EmptySet
<1>9. c \in S \ {a, b}
  BY <1>8, LowestIn
<1>10. D!Allocated(S, 3) = <<a, b, c>>
  BY DEF D!Allocated
<1> HIDE DEF a, b, c
<1>11. QED
  BY <1>3, <1>6, <1>9, <1>10

-----------------------------------------------------------------------------
(* operation_sync and the disk *)

\* The chain of the running call, as the descriptor table has it.
Chained ==
  /\ chain \in Desc \X Desc \X Desc
  /\ chain[1] # chain[2] /\ chain[1] # chain[3] /\ chain[2] # chain[3]
  /\ desc[chain[1]].to = "request" /\ desc[chain[1]].next = chain[2]
  /\ desc[chain[2]].to = "buffer"  /\ desc[chain[2]].next = chain[3]
  /\ desc[chain[3]].to = "status"
  /\ \A i \in 1 .. 3 : desc[chain[i]].call = call
  /\ free \cup {chain[1], chain[2], chain[3]} = Desc

\* What the disk reads when it takes the chain.
Mine ==
  [entries |-> <<desc[chain[1]], desc[chain[2]], desc[chain[3]]>>, done |-> FALSE]

Undone == {t \in taken : ~t.done}

DType ==
  /\ dpc \in {"new", "idle", "ring", "idx", "notify", "wait", "panic", "none"}
  /\ call \in {0, 1}
  /\ free \subseteq Desc
  /\ desc \in [Desc -> D!Entry]
  /\ avail \in [idx : Idx, ring : [Desc -> Desc]]
  /\ status \in {"FF", "OK", "IOERR"}
  /\ devIdx \in Idx
  /\ taken \subseteq [entries : D!Entry \X D!Entry \X D!Entry, done : BOOLEAN]

\* A request is published and not taken; taken and not answered; or there is none.
Published == avail.idx = (devIdx + 1) % IdxMod /\ avail.idx # devIdx
             /\ avail.ring[devIdx % NumDesc] = chain[1] /\ Undone = {}
Working   == avail.idx = devIdx /\ Undone = {Mine}
Quiet     == avail.idx = devIdx /\ Undone = {}

DInv ==
  /\ DType
  /\ dpc = "idle" => free = Desc
  /\ D!Busy => Chained
  /\ dpc \notin {"notify", "wait"} => Quiet
  /\ dpc \in {"ring", "idx"} => status = "FF"
  /\ dpc = "idx" => avail.ring[avail.idx % NumDesc] = chain[1]
  /\ dpc \in {"notify", "wait"} =>
       \/ status = "FF" /\ (Published \/ Working)
       \/ status # "FF" /\ Quiet

LEMMA IdxFacts ==
  /\ NumDesc \in Nat /\ NumDesc >= 3 /\ IdxMod \in Nat /\ IdxMod > NumDesc
  /\ \A i \in Idx : i \in Nat /\ i % NumDesc \in Desc /\ (i + 1) % IdxMod \in Idx
                    /\ (i + 1) % IdxMod # i
<1>1. NumDesc \in Nat /\ NumDesc >= 3 /\ IdxMod \in Nat /\ IdxMod > NumDesc
  BY RingAssumption
<1>2. ASSUME NEW i \in Idx
      PROVE  i \in Nat /\ i % NumDesc \in Desc /\ (i + 1) % IdxMod \in Idx
             /\ (i + 1) % IdxMod # i
  <2>1. i \in Nat /\ i < IdxMod
    BY <1>1 DEF Idx, D!Idx
  <2>2. i % NumDesc \in 0 .. NumDesc - 1
    BY <1>1, <2>1
  <2>3. (i + 1) % IdxMod = IF i + 1 = IdxMod THEN 0 ELSE i + 1
    BY <1>1, <2>1
  <2>4. QED
    BY <1>1, <2>1, <2>2, <2>3 DEF Idx, D!Idx, Desc, D!Desc
<1>3. QED
  BY <1>1, <1>2

LEMMA InitDInv == D!Init => DInv
<1> SUFFICES ASSUME D!Init PROVE DInv
  OBVIOUS
<1>1. 0 \in Desc /\ 0 \in Idx
  BY IdxFacts DEF Idx, D!Idx, Desc, D!Desc
<1>2. DType
  BY <1>1 DEF D!Init, DType, D!Entry, Desc, D!Call
<1>3. QED
  BY <1>2 DEF D!Init, DInv, D!Busy, Quiet, Undone

\* new
LEMMA NewDInv ==
  ASSUME DInv, NEW ok \in BOOLEAN, D!New(ok) PROVE DInv'
<1>1. DType'
  BY DEF D!New, DInv, DType, Desc
<1>2. QED
  BY <1>1 DEF D!New, DInv, D!Busy, Quiet, Undone, Desc

\* operation_sync finds the descriptors that it needs, and its chain is made of three
\* different ones.
LEMMA PrepareDInv ==
  ASSUME DInv, D!Prepare PROVE DInv' /\ dpc' = "ring"
<1>1. dpc = "idle" /\ free = Desc /\ Quiet
  BY DEF DInv, D!Prepare
<1>2. Cardinality(Desc) = NumDesc /\ NumDesc >= 3
  <2>1. Cardinality(0 .. NumDesc - 1) = NumDesc
    BY FS_Interval, RingAssumption
  <2>2. QED
    BY <2>1, RingAssumption DEF Desc, D!Desc
<1>3. PICK a, b, c \in Desc : /\ a # b /\ a # c /\ b # c
                              /\ D!Allocated(free, 3) = <<a, b, c>>
  BY <1>1, <1>2, AllocatedThree
<1> DEFINE new == 1 - call
<1>4. /\ free' = free \ D!Members(<<a, b, c>>)
      /\ dpc' = "ring" /\ call' = new /\ chain' = <<a, b, c>>
      /\ desc' = [desc EXCEPT
                    ![a] = [to |-> "request", call |-> new, next |-> b],
                    ![b] = [to |-> "buffer", call |-> new, next |-> c],
                    ![c] = [@ EXCEPT !.to = "status", !.call = new]]
      /\ status' = "FF"
      /\ UNCHANGED <<avail, devIdx, taken>>
  <2> DEFINE n == IF Cardinality(free) < 3 THEN Cardinality(free) ELSE 3
             t == D!Allocated(free, n)
  <2>1. /\ free' = free \ D!Members(t)
        /\ ~(n < 3) =>
             /\ dpc' = "ring" /\ call' = new /\ chain' = t
             /\ desc' = [desc EXCEPT
                           ![t[1]] = [to |-> "request", call |-> new, next |-> t[2]],
                           ![t[2]] = [to |-> "buffer", call |-> new, next |-> t[3]],
                           ![t[3]] = [@ EXCEPT !.to = "status", !.call = new]]
             /\ status' = "FF"
        /\ UNCHANGED <<avail, devIdx, taken>>
    BY SameCardinality DEF D!Prepare
  <2>2. n = 3
    BY <1>1, <1>2, RingAssumption
  <2>3. ~(n < 3) /\ t = <<a, b, c>>
    BY <1>3, <2>2
  <2> HIDE DEF n, t, new
  <2>4. QED
    BY <2>1, <2>3
<1>5. D!Members(<<a, b, c>>) = {a, b, c}
  BY DEF D!Members
<1>6. new \in {0, 1}
  BY DEF DInv, DType
<1> HIDE DEF new
<1>7. desc \in [Desc -> [to : {"none", "request", "buffer", "status"}, call : {0, 1}, next : Desc]]
  BY DEF DInv, DType, D!Entry, D!Call, Desc
<1>8. desc' \in [Desc -> [to : {"none", "request", "buffer", "status"}, call : {0, 1}, next : Desc]]
  BY <1>3, <1>4, <1>6, <1>7
<1>9. DType'
  BY <1>1, <1>4, <1>5, <1>6, <1>8 DEF DInv, DType, D!Entry, D!Call, Desc
<1>10. /\ desc'[a] = [to |-> "request", call |-> new, next |-> b]
       /\ desc'[b] = [to |-> "buffer", call |-> new, next |-> c]
       /\ desc'[c].to = "status" /\ desc'[c].call = new
  BY <1>3, <1>4, <1>7
<1>11. Chained'
  BY <1>1, <1>3, <1>4, <1>5, <1>10 DEF Chained
<1>12. Quiet'
  BY <1>1, <1>4 DEF Quiet, Undone
<1>13. QED
  BY <1>4, <1>9, <1>11, <1>12 DEF DInv, D!Busy

\* The request enters the ring and the index moves on; then it is published.
LEMMA PutRingDInv ==
  ASSUME DInv, D!PutRing PROVE DInv'
<1>1. /\ dpc = "ring" /\ dpc' = "idx"
      /\ avail' = [avail EXCEPT !.ring[avail.idx % NumDesc] = chain[1]]
      /\ UNCHANGED <<call, free, chain, desc, status, devIdx, taken>>
  BY DEF D!PutRing
<1>2. Chained /\ Quiet /\ status = "FF" /\ DType
  BY <1>1 DEF DInv, D!Busy
<1>3. avail.idx \in Idx /\ avail.idx % NumDesc \in Desc /\ chain[1] \in Desc
  BY <1>2, IdxFacts DEF DType, Chained
<1>4. /\ avail' \in [idx : Idx, ring : [Desc -> Desc]] /\ avail'.idx = avail.idx
      /\ avail'.ring[avail.idx % NumDesc] = chain[1]
  BY <1>1, <1>2, <1>3 DEF DType
<1>5. DType' /\ Chained' /\ Quiet'
  BY <1>1, <1>2, <1>4 DEF DType, Chained, Quiet, Undone
<1>6. QED
  BY <1>1, <1>2, <1>4, <1>5 DEF DInv, D!Busy

LEMMA PutIdxDInv ==
  ASSUME DInv, D!PutIdx PROVE DInv'
<1>1. /\ dpc = "idx" /\ UNCHANGED <<call, free, chain, desc, status, devIdx, taken>>
  BY DEF D!PutIdx
<1>2. Chained /\ Quiet /\ status = "FF" /\ DType /\ avail.ring[avail.idx % NumDesc] = chain[1]
  BY <1>1 DEF DInv, D!Busy
<1>3. Chained'
  BY <1>1, <1>2 DEF Chained
<1>4. CASE dpc' = "panic" /\ UNCHANGED avail
  BY <1>1, <1>2, <1>4 DEF DInv, DType, D!Busy, Quiet, Undone
<1>5. CASE dpc' = "notify" /\ avail' = [avail EXCEPT !.idx = (@ + 1) % IdxMod]
  <2>1. avail.idx \in Idx /\ (avail.idx + 1) % IdxMod \in Idx
        /\ (avail.idx + 1) % IdxMod # avail.idx
    BY <1>2, IdxFacts DEF DType
  <2>2. /\ avail' \in [idx : Idx, ring : [Desc -> Desc]]
        /\ avail'.idx = (avail.idx + 1) % IdxMod /\ avail'.ring = avail.ring
    BY <1>2, <1>5, <2>1 DEF DType
  <2>3. Published'
    BY <1>1, <1>2, <2>1, <2>2 DEF Published, Quiet, Undone
  <2>4. DType'
    BY <1>1, <1>2, <1>5, <2>2 DEF DType
  <2>5. QED
    BY <1>1, <1>2, <1>3, <1>5, <2>3, <2>4 DEF DInv, D!Busy
<1>6. QED
  BY <1>4, <1>5 DEF D!PutIdx

LEMMA NotifyDInv ==
  ASSUME DInv, D!Notify PROVE DInv'
<1>1. /\ dpc = "notify" /\ dpc' = "wait"
      /\ UNCHANGED <<call, free, chain, desc, avail, status, devIdx, taken>>
  BY DEF D!Notify
<1>2. DType' /\ Chained'
  BY <1>1 DEF DInv, D!Busy, DType, Chained
<1>3. (Published' <=> Published) /\ (Working' <=> Working) /\ (Quiet' <=> Quiet)
  BY <1>1 DEF Published, Working, Quiet, Undone, Mine
<1>4. QED
  BY <1>1, <1>2, <1>3 DEF DInv, D!Busy

\* The call returns when the disk has answered, and so it leaves nothing to it.
LEMMA ReturnDInv ==
  ASSUME DInv, D!Return PROVE DInv'
<1>1. /\ dpc = "wait" /\ dpc' = "idle" /\ status # "FF"
      /\ free' = free \cup D!Members(chain)
      /\ UNCHANGED <<call, chain, desc, avail, status, devIdx, taken>>
  BY DEF D!Return
<1>2. Chained /\ Quiet
  BY <1>1 DEF DInv, D!Busy
<1>3. D!Members(chain) = {chain[1], chain[2], chain[3]}
  BY <1>2 DEF D!Members, Chained
<1>4. free' = Desc
  BY <1>1, <1>2, <1>3 DEF Chained
<1>5. DType' /\ Quiet'
  BY <1>1, <1>2, <1>4 DEF DInv, DType, Quiet, Undone
<1>6. QED
  BY <1>1, <1>4, <1>5 DEF DInv, D!Busy

\* The disk reads the descriptors while the call waits for it.
LEMMA DevTakeDInv ==
  ASSUME DInv, D!DevTake PROVE DInv'
<1>1. /\ devIdx # avail.idx /\ devIdx' = (devIdx + 1) % IdxMod
      /\ UNCHANGED <<dpc, call, free, chain, desc, avail, status>>
  BY DEF D!DevTake, D!driver
<1>2. dpc \in {"notify", "wait"} /\ status = "FF" /\ Published /\ Chained /\ DType
  BY <1>1 DEF DInv, Quiet, Working, D!Busy
<1>3. taken' = taken \cup {Mine}
  <2>1. avail.ring[devIdx % NumDesc] = chain[1]
    BY <1>2 DEF Published
  <2> DEFINE d1 == desc[chain[1]]
             d2 == desc[d1.next]
             d3 == desc[d2.next]
  <2>2. taken' = taken \cup {[entries |-> <<d1, d2, d3>>, done |-> FALSE]}
    BY <2>1 DEF D!DevTake
  <2>3. d1.next = chain[2] /\ d2 = desc[chain[2]] /\ d3 = desc[chain[3]]
    BY <1>2 DEF Chained
  <2>4. QED
    BY <2>2, <2>3 DEF Mine
<1>4. Mine \in [entries : D!Entry \X D!Entry \X D!Entry, done : BOOLEAN] /\ ~Mine.done
  BY <1>2 DEF Mine, DType, Chained
<1>5. Mine' = Mine
  BY <1>1 DEF Mine
<1>6. Working'
  <2>1. avail'.idx = devIdx'
    BY <1>1, <1>2 DEF Published
  <2>2. Undone' = {Mine}
    BY <1>2, <1>3, <1>4 DEF Published, Undone
  <2>3. QED
    BY <1>5, <2>1, <2>2 DEF Working
<1>7. DType'
  <2>1. devIdx' \in Idx
    BY <1>1, <1>2, IdxFacts DEF DType
  <2>2. QED
    BY <1>1, <1>2, <1>3, <1>4, <2>1 DEF DType
<1>8. Chained'
  BY <1>1, <1>2 DEF Chained
<1>9. QED
  BY <1>1, <1>2, <1>6, <1>7, <1>8 DEF DInv, D!Busy

\* The disk answers the call that waits.
LEMMA DevStatusDInv ==
  ASSUME DInv, NEW t \in taken, NEW s \in {"OK", "IOERR"}, D!DevStatus(t, s) PROVE DInv'
<1>1. /\ ~t.done /\ status' = s /\ taken' = (taken \ {t}) \cup {[t EXCEPT !.done = TRUE]}
      /\ UNCHANGED <<dpc, call, free, chain, desc, avail, devIdx>>
  BY DEF D!DevStatus, D!driver
<1>2. t \in Undone
  BY <1>1 DEF Undone
<1>3. dpc \in {"notify", "wait"} /\ Working /\ Chained /\ DType
  BY <1>2 DEF DInv, Quiet, Published, D!Busy
<1>4. /\ [t EXCEPT !.done = TRUE].done
      /\ [t EXCEPT !.done = TRUE] \in [entries : D!Entry \X D!Entry \X D!Entry, done : BOOLEAN]
  BY <1>3 DEF DType
<1>5. Undone = {t}
  BY <1>2, <1>3 DEF Working
<1>6. Quiet'
  BY <1>1, <1>3, <1>4, <1>5 DEF Quiet, Working, Undone
<1>7. DType'
  BY <1>1, <1>3, <1>4 DEF DType
<1>8. Chained'
  BY <1>1, <1>3 DEF Chained
<1>9. QED
  BY <1>1, <1>3, <1>6, <1>7, <1>8 DEF DInv, D!Busy

LEMMA DevUsedDInv ==
  ASSUME DInv, NEW t \in taken, D!DevUsed(t) PROVE DInv'
<1>1. /\ t.done /\ taken' = taken \ {t}
      /\ UNCHANGED <<dpc, call, free, chain, desc, avail, status, devIdx>>
  BY DEF D!DevUsed, D!driver
<1>2. Undone' = Undone /\ Mine' = Mine
  BY <1>1 DEF Undone, Mine
<1>3. (Published' <=> Published) /\ (Working' <=> Working) /\ (Quiet' <=> Quiet)
  BY <1>1, <1>2 DEF Published, Working, Quiet
<1>4. DType' /\ (Chained' <=> Chained)
  BY <1>1 DEF DInv, DType, Chained
<1>5. QED
  BY <1>1, <1>3, <1>4 DEF DInv, D!Busy

LEMMA SameDInv ==
  ASSUME DInv, UNCHANGED driver PROVE DInv'
<1>1. /\ DType' /\ (Chained' <=> Chained)
      /\ (Published' <=> Published) /\ (Working' <=> Working) /\ (Quiet' <=> Quiet)
  BY DEF driver, DInv, DType, Chained, Published, Working, Quiet, Undone, Mine
<1>2. QED
  BY <1>1 DEF DInv, D!Busy, driver

LEMMA NextDInv == DInv /\ [AllNext]_allVars => DInv'
<1> SUFFICES ASSUME DInv, [AllNext]_allVars PROVE DInv'
  OBVIOUS
<1>1. CASE UNCHANGED driver
  BY <1>1, SameDInv
<1>2. CASE New
  BY <1>2, NewDInv DEF New
<1>3. CASE Issue
  BY <1>3, PrepareDInv DEF Issue
<1>4. CASE Submit
  BY <1>4, PutRingDInv, PutIdxDInv, NotifyDInv DEF Submit
<1>5. CASE Finish
  BY <1>5, ReturnDInv DEF Finish
<1>6. CASE Disk
  BY <1>6, DevTakeDInv, DevStatusDInv, DevUsedDInv DEF Disk, DiskMoves
<1>7. QED
  BY <1>1, <1>2, <1>3, <1>4, <1>5, <1>6
     DEF AllNext, FileStep, NextCall, NoBuffer, allVars

\* The rings and the descriptors between the driver and the disk are consistent at
\* every moment: at most one request is in the hands of the disk, and it is the one
\* that the running call waits for.
THEOREM RingsConsistent == AllSpec => []DInv
<1>1. AllInit => DInv
  BY InitDInv DEF AllInit
<1>2. QED
  BY <1>1, NextDInv, PTL DEF AllSpec

\* For every size of the rings and every sequence of calls, over the wrap of the
\* indices too: what the disk is working on is the request of the running call, none
\* of whose addresses is on a stack frame that is gone.
THEOREM TakesItsOwn == AllSpec => []TakesOwn
<1>1. DInv => TakesOwn
  <2> SUFFICES ASSUME DInv, NEW t \in taken, ~t.done
               PROVE  /\ D!Busy
                      /\ \A i \in 1 .. 3 : t.entries[i].call = call
                      /\ <<t.entries[1].to, t.entries[2].to, t.entries[3].to>>
                           = <<"request", "buffer", "status">>
    BY DEF TakesOwn, D!TakesOwn
  <2>1. t \in Undone
    BY DEF Undone
  <2>2. dpc \in {"notify", "wait"} /\ Working /\ Chained
    BY <2>1 DEF DInv, Quiet, Published, D!Busy
  <2>3. t = Mine
    BY <2>1, <2>2 DEF Working
  <2>4. QED
    BY <2>2, <2>3 DEF Mine, Chained, D!Busy
<1>2. QED
  BY <1>1, RingsConsistent, PTL

-----------------------------------------------------------------------------
(* The loops of read and write *)

\* Where in the file the running transfer begins, its cluster, and the offset in it.
Pos == req.offset + bufPtr
At  == 1 + (Pos \div ClusterSize)
Odd == Pos % ClusterSize

\* The sectors that are skipped in front of an offset, and what is left of it.
Skipped(o) == IF o > SectorSize THEN o \div SectorSize ELSE 0
Rest(o)    == IF o > SectorSize THEN o % SectorSize ELSE o

\* The clusters from the transfer's first to the file's k-th are adjacent.
Run(k) ==
  /\ k \in At .. Len(req.clusters)
  /\ \A j \in At .. k : req.clusters[j] = req.clusters[At] + (j - At)

\* The inner loop looks at the file's k-th cluster and has collected those before it.
Collected(k) ==
  /\ Run(k) /\ k <= LastIndex(req)
  /\ cluster = req.clusters[k] /\ first = req.clusters[At]
  /\ sectors = (k - At) * SectorsPerCluster
  /\ IF k = At THEN bytes = 0 /\ secOff = 0 /\ dataOff = Odd /\ backup = Odd
     ELSE /\ secOff = Skipped(Odd) /\ dataOff = 0 /\ backup = Rest(Odd)
          /\ bytes = (k - At) * ClusterSize - backup
  /\ bytes < length

RoundedUp ==
  (IF length = 0 THEN 1 ELSE (length + SectorSize - 1) \div SectorSize) * SectorSize

\* The sectors are collected.
Ready ==
  /\ bytes > 0 /\ bufPtr + bytes <= length
  /\ backup # 0 => bufPtr = 0 /\ backup = Rest(Odd)
  /\ \A i \in 0 .. bytes - 1 : (DiskAddress + backup) + i = FileByte(Pos + i)
  /\ backup = 0 => bytes <= sectors * SectorSize /\ bufPtr + sectors * SectorSize <= RoundedUp
  /\ \/ bufPtr + bytes = length
     \/ /\ EndsAtGap(req)
        /\ \E k \in 1 .. Len(req.clusters) - 1 :
             cluster = req.clusters[k] /\ Pos + bytes = k * ClusterSize

\* A call that has something to do and is not done.
Under ==
  /\ req.length # 0
  /\ req.offset < req.size /\ length = End(req) - req.offset /\ bufPtr < length
  /\ bufPtr > 0 => EndsAtGap(req) /\ Odd = 0

FType ==
  /\ req \in Requests
  /\ length \in Nat /\ dataOff \in Nat /\ backup \in Nat /\ sectors \in Nat
  /\ bytes \in Nat /\ secOff \in Nat /\ bufPtr \in Nat /\ first \in Nat
  /\ DOMAIN moved \subseteq Nat

LoopInv ==
  /\ pc = "start" => bufPtr = 0 /\ moved = <<>>
  /\ pc \in {"outer", "inner", "transfer"} => Under
  /\ pc = "outer" => cluster = req.clusters[At] /\ dataOff = Odd
  /\ pc = "inner" => \E k \in Nat : Collected(k)
  /\ pc = "transfer" => Ready

\* A call for nothing: one transfer, of one sector.
Nothing ==
  /\ length = 0 /\ bufPtr = 0 /\ bytes = 0
  /\ pc = "outer" => cluster \in Nat
  /\ pc = "inner" => sectors = 0
  /\ pc = "transfer" => sectors = 1

Loops == IF req.length = 0 THEN Nothing ELSE LoopInv

\* The bytes of the running transfer are in the caller's buffer.
Delivered ==
  \A i \in bufPtr .. bufPtr + bytes - 1 : i \in DOMAIN moved /\ moved[i] = FileByte(req.offset + i)

\* The driver and the disk work for a transfer, and the disk has moved the data when
\* it reports success.
CallInv ==
  /\ D!Busy => pc = "transfer" /\ (req.mode = "read" \/ backup = 0)
  /\ dpc \in {"notify", "wait"} /\ status = "OK" /\ backup = 0 => Delivered

FileInv == FType /\ Loops /\ CallInv /\ DataExact /\ WithinSector

\* The hypothesis of the theorems: the loops can serve the requests.  The run
\* fat32_split shows that it is needed.
Served == \A r \in Requests : CanServe(r)

-----------------------------------------------------------------------------
(* Numbers *)

LEMMA Division ==
  ASSUME NEW a \in Nat, NEW s \in Nat \ {0}
  PROVE  /\ a \div s \in Nat /\ (a % s) \in 0 .. s - 1
         /\ a = (a \div s) * s + (a % s)
  OBVIOUS

LEMMA LessFactor ==
  ASSUME NEW a \in Int, NEW b \in Int, NEW s \in Nat \ {0}, a * s < b * s
  PROVE  a < b
<1> SUFFICES ASSUME a >= b PROVE FALSE
  OBVIOUS
<1>1. a * s >= b * s
  OBVIOUS
<1>2. QED
  BY <1>1

LEMMA MoreFactor ==
  ASSUME NEW a \in Int, NEW b \in Int, NEW s \in Nat, a <= b
  PROVE  a * s <= b * s
  OBVIOUS

LEMMA Quotient ==
  ASSUME NEW a \in Nat, NEW s \in Nat \ {0}, NEW u \in Nat, NEW x \in 0 .. s - 1, a = u * s + x
  PROVE  a \div s = u /\ (a % s) = x
<1> DEFINE q == a \div s
           r == a % s
<1>1. q \in Nat /\ r \in 0 .. s - 1 /\ a = q * s + r
  BY Division
<1> HIDE DEF q, r
<1>2. (q - 1) * s = q * s - s /\ (u - 1) * s = u * s - s
  BY <1>1
<1>3. q - 1 < u
  <2>1. (q - 1) * s < u * s
    BY <1>1, <1>2
  <2>2. QED
    BY <1>1, <2>1, LessFactor
<1>4. u - 1 < q
  <2>1. (u - 1) * s < q * s
    BY <1>1, <1>2
  <2>2. QED
    BY <1>1, <2>1, LessFactor
<1>5. q = u
  BY <1>1, <1>3, <1>4
<1>6. QED
  BY <1>1, <1>5 DEF q, r

LEMMA AddMultiple ==
  ASSUME NEW a \in Nat, NEW s \in Nat \ {0}, NEW n \in Nat
  PROVE  (a + n * s) \div s = (a \div s) + n /\ ((a + n * s) % s) = (a % s)
<1> DEFINE q == a \div s
           r == a % s
<1>1. q \in Nat /\ r \in 0 .. s - 1 /\ a = q * s + r
  BY Division
<1> HIDE DEF q, r
<1>2. a + n * s = (q + n) * s + r /\ n * s \in Nat
  BY <1>1
<1>3. q + n \in Nat /\ a + n * s \in Nat
  BY <1>1, <1>2
<1>4. (a + n * s) \div s = q + n /\ ((a + n * s) % s) = r
  BY <1>1, <1>2, <1>3, Quotient
<1>5. QED
  BY <1>4 DEF q, r

LEMMA Geometry ==
  /\ SectorSize \in Nat \ {0} /\ SectorsPerCluster \in Nat \ {0} /\ FirstSector \in Nat
  /\ ClusterSize \in Nat \ {0} /\ ClusterSize = SectorSize * SectorsPerCluster
  /\ SectorSize <= ClusterSize
<1>1. SectorSize \in Nat \ {0} /\ SectorsPerCluster \in Nat \ {0} /\ FirstSector \in Nat
  BY GeometryAssumption
<1>2. SectorSize * SectorsPerCluster \in Nat \ {0} /\ SectorSize <= SectorSize * SectorsPerCluster
  BY <1>1
<1>3. QED
  BY <1>1, <1>2 DEF ClusterSize

\* The skipped sectors and the rest make up the offset.
LEMMA Rests ==
  ASSUME NEW o \in Nat
  PROVE  /\ Skipped(o) \in Nat /\ Rest(o) \in Nat /\ Rest(o) <= o
         /\ Skipped(o) * SectorSize + Rest(o) = o
         /\ Rest(0) = 0 /\ Skipped(0) = 0
<1>1. /\ o \div SectorSize \in Nat /\ (o % SectorSize) \in Nat
      /\ o = (o \div SectorSize) * SectorSize + (o % SectorSize)
      /\ (o \div SectorSize) * SectorSize \in Nat
  BY Geometry, Division
<1>2. 0 * SectorSize = 0
  BY Geometry
<1>3. QED
  BY <1>1, <1>2, Geometry DEF Skipped, Rest

\* Where the bytes of adjacent clusters are.
LEMMA Spread ==
  ASSUME NEW a \in Int, NEW c \in Int, NEW d \in Int, NEW n \in Int, NEW s \in Int
  PROVE  (a + ((c + d) - 2) * n) * s = (a + (c - 2) * n) * s + d * (s * n)
  OBVIOUS

LEMMA Files ==
  ASSUME NEW r \in Requests
  PROVE  /\ r.clusters \in Seq(Nat) /\ Len(r.clusters) \in Nat
         /\ DOMAIN r.clusters = 1 .. Len(r.clusters)
         /\ \A i \in 1 .. Len(r.clusters) : r.clusters[i] \in Nat /\ r.clusters[i] >= 2
         /\ \A i, j \in 1 .. Len(r.clusters) : r.clusters[i] = r.clusters[j] => i = j
         /\ r.offset \in Nat /\ r.length \in Nat /\ r.size \in Nat \ {0}
         /\ r.size <= Len(r.clusters) * ClusterSize
         /\ End(r) \in Nat /\ End(r) <= r.size
         /\ r.length # 0 => End(r) # 0
<1>1. /\ r.clusters \in Seq(Nat)
      /\ \A i, j \in DOMAIN r.clusters :
           r.clusters[i] >= 2 /\ (i # j => r.clusters[i] # r.clusters[j])
      /\ r.size \in 1 .. Len(r.clusters) * ClusterSize
      /\ r.offset \in Nat /\ r.length \in Nat
  BY RequestAssumption
<1>2. /\ Len(r.clusters) \in Nat /\ DOMAIN r.clusters = 1 .. Len(r.clusters)
      /\ \A i \in 1 .. Len(r.clusters) : r.clusters[i] \in Nat
  BY <1>1
<1>3. Len(r.clusters) * ClusterSize \in Nat
  <2>1. \A a, b \in Nat : a * b \in Nat
    OBVIOUS
  <2>2. QED
    BY <1>2, <2>1, Geometry, Zenon
<1>4. r.size \in Nat \ {0} /\ r.size <= Len(r.clusters) * ClusterSize
  BY <1>1, <1>3
<1>5. End(r) \in Nat /\ End(r) <= r.size /\ (r.length # 0 => End(r) # 0)
  BY <1>1, <1>4 DEF End
<1>6. QED
  BY <1>1, <1>2, <1>4, <1>5


\* The clusters of the range, seen from its end.
LEMMA LastCluster ==
  ASSUME NEW r \in Requests, r.length # 0
  PROVE  /\ LastIndex(r) \in Nat \ {0} /\ LastIndex(r) <= Len(r.clusters)
         /\ (LastIndex(r) - 1) * ClusterSize < End(r)
         /\ End(r) <= LastIndex(r) * ClusterSize
         /\ End(r) % ClusterSize = 0 => End(r) = LastIndex(r) * ClusterSize
<1> DEFINE e == End(r)
           c == ClusterSize
           n == Len(r.clusters)
           q == (e - 1) \div c
<1>1. e \in Nat \ {0} /\ c \in Nat \ {0} /\ n \in Nat /\ e <= r.size /\ r.size <= n * c /\ r.size \in Nat
  BY Files, Geometry
<1>2. LastIndex(r) = 1 + q
  BY DEF LastIndex
<1>3. PICK x \in 0 .. c - 1 : q \in Nat /\ e - 1 = q * c + x
  <2>1. e - 1 \in Nat
    BY <1>1
  <2>2. QED
    BY <1>1, <2>1, Division
<1> HIDE DEF e, c, n, q
<1>4. (q + 1) * c = q * c + c /\ (1 + q) - 1 = q /\ q * c \in Nat /\ n * c \in Nat /\ 1 + q = q + 1
  BY <1>1, <1>3
<1>5. q * c < e /\ e <= (q + 1) * c
  BY <1>1, <1>3, <1>4
<1>6. q < n
  <2>1. q * c < n * c
    BY <1>1, <1>3, <1>4
  <2>2. QED
    BY <1>1, <1>3, <2>1, LessFactor
<1>7. ASSUME e % c = 0 PROVE e = (q + 1) * c
  <2> DEFINE p == e \div c
  <2>0. p \in Nat /\ e = p * c + (e % c)
    BY <1>1, Division
  <2>1. p \in Nat /\ e = p * c
    <3> HIDE DEF p
    <3>1. p * c \in Nat
      BY <1>1, <2>0
    <3>2. QED
      BY <1>7, <2>0, <3>1
  <2> HIDE DEF p
  <2>2. q < p
    <3>1. q * c < p * c
      BY <1>5, <2>1
    <3>2. QED
      BY <1>1, <1>3, <2>1, <3>1, LessFactor
  <2>3. p <= q + 1
    <3>1. (p - 1) * c = p * c - c
      BY <1>1, <2>1
    <3>2. (p - 1) * c < (q + 1) * c
      BY <1>1, <1>4, <1>5, <2>1, <3>1
    <3>3. p - 1 < q + 1
      BY <1>1, <1>3, <2>1, <3>2, LessFactor
    <3>4. QED
      BY <1>3, <2>1, <3>3
  <2>4. p = q + 1
    BY <1>3, <2>1, <2>2, <2>3
  <2>5. QED
    BY <2>1, <2>4
<1>8. 1 + q \in Nat \ {0} /\ 1 + q <= n
  BY <1>1, <1>3, <1>6
<1>9. QED
  BY <1>2, <1>4, <1>5, <1>7, <1>8 DEF e, c, n

\* Where the running transfer begins.
LEMMA Begins ==
  ASSUME FType, Under
  PROVE  /\ Pos \in Nat /\ At \in Nat \ {0} /\ Odd \in 0 .. ClusterSize - 1
         /\ Pos = (At - 1) * ClusterSize + Odd
         /\ Pos < End(req) /\ End(req) = req.offset + length
         /\ At <= LastIndex(req)
         /\ bufPtr = 0 => At = FirstIndex(req) /\ Odd = req.offset % ClusterSize
<1>1. /\ req \in Requests /\ bufPtr \in Nat /\ req.offset \in Nat /\ length \in Nat
      /\ End(req) \in Nat /\ length = End(req) - req.offset /\ bufPtr < length
  BY Files DEF FType, Under
<1>2. Pos \in Nat /\ Pos < End(req) /\ End(req) = req.offset + length
  BY <1>1 DEF Pos
<1>3. At - 1 = Pos \div ClusterSize /\ At \in Nat \ {0} /\ Pos \div ClusterSize \in Nat
  BY <1>2, Division, Geometry DEF At
<1>4. Odd \in 0 .. ClusterSize - 1 /\ Pos = (At - 1) * ClusterSize + Odd
  BY <1>2, <1>3, Division, Geometry DEF Odd
<1>5. At <= LastIndex(req)
  <2> DEFINE l == LastIndex(req)
             a == At - 1
  <2>1. l \in Nat /\ End(req) <= l * ClusterSize
    BY <1>1, LastCluster DEF Under
  <2>2. a \in Nat /\ At = a + 1
    BY <1>3
  <2>3. a * ClusterSize < l * ClusterSize
    <3>1. a * ClusterSize \in Nat /\ l * ClusterSize \in Nat
      BY <2>1, <2>2, Geometry
    <3>2. QED
      BY <1>1, <1>2, <1>4, <2>1, <3>1, Geometry
  <2> HIDE DEF l, a
  <2>4. a < l
    BY <2>1, <2>2, <2>3, Geometry, LessFactor
  <2>5. QED
    BY <2>1, <2>2, <2>4 DEF l
<1>6. bufPtr = 0 => Pos = req.offset
  BY <1>1 DEF Pos
<1>7. QED
  BY <1>2, <1>3, <1>4, <1>5, <1>6 DEF At, Odd, FirstIndex

\* Where the FAT puts the bytes of adjacent clusters.
LEMMA RunBytes ==
  ASSUME req \in Requests, At \in Nat \ {0}, NEW k \in Nat, Run(k), NEW x \in Nat,
         (At - 1) * ClusterSize <= x, x < k * ClusterSize
  PROVE  FileByte(x) = cluster_to_sector(req.clusters[At]) * SectorSize + (x - (At - 1) * ClusterSize)
<1> DEFINE c == ClusterSize
           q == x \div c
           y == x % c
           a == At - 1
<1>1. c \in Nat \ {0} /\ a \in Nat /\ At = a + 1
  BY Geometry
<1>2. q \in Nat /\ y \in 0 .. c - 1 /\ x = q * c + y
  BY <1>1, Division
<1>3. a * c <= x /\ x < k * c
  OBVIOUS
<1>4. FileByte(x) = cluster_to_sector(req.clusters[1 + q]) * SectorSize + y
  BY DEF FileByte
<1> HIDE DEF c, q, y, a
<1>5. q * c \in Nat /\ (q + 1) * c = q * c + c /\ k * c \in Nat /\ a * c \in Nat
  BY <1>1, <1>2
<1>6. q < k
  <2>1. q * c < k * c
    BY <1>1, <1>2, <1>3, <1>5
  <2>2. QED
    BY <1>1, <1>2, <2>1, LessFactor
<1>7. a < q + 1
  <2>1. a * c < (q + 1) * c
    BY <1>1, <1>2, <1>3, <1>5
  <2>2. QED
    BY <1>1, <1>2, <2>1, LessFactor
<1>8. 1 + q \in At .. k
  BY <1>1, <1>2, <1>6, <1>7
<1> DEFINE b == req.clusters[At]
           d == q - a
<1>9. req.clusters[1 + q] = b + d
  <2>1. req.clusters[1 + q] = req.clusters[At] + ((1 + q) - At)
    BY <1>8 DEF Run
  <2>2. (1 + q) - At = d
    BY <1>1, <1>2
  <2>3. QED
    BY <2>1, <2>2
<1>10. b \in Nat /\ d \in Int
  <2>1. At \in 1 .. Len(req.clusters)
    BY <1>8, Files DEF Run
  <2>2. QED
    BY <1>1, <1>2, <2>1, Files
<1> HIDE DEF b, d
<1>11. cluster_to_sector(b + d) * SectorSize = cluster_to_sector(b) * SectorSize + d * c
  BY <1>10, Geometry, Spread DEF cluster_to_sector, c
<1>12. x - a * c = d * c + y
  <2>1. d * c = q * c - a * c
    BY <1>1, <1>2 DEF d
  <2>2. QED
    BY <1>1, <1>2, <1>5, <2>1
<1>13. cluster_to_sector(b) * SectorSize \in Int
  BY <1>10, Geometry DEF cluster_to_sector
<1>14. d * c \in Int
  BY <1>1, <1>10
<1>15. FileByte(x) = cluster_to_sector(b) * SectorSize + (x - a * c)
  BY <1>2, <1>4, <1>9, <1>11, <1>12, <1>13, <1>14
<1>16. QED
  BY <1>15 DEF a, b, c


-----------------------------------------------------------------------------
(* Collecting sectors *)

\* What the inner loop makes of its variables, in terms of the clusters it has seen.
LEMMA Skipping ==
  ASSUME FType, Under, NEW k \in Nat, Collected(k)
  PROVE  /\ k - At \in Nat /\ (k - At) * ClusterSize \in Nat
         /\ ((k - At) + 1) * ClusterSize = (k - At) * ClusterSize + ClusterSize
         /\ SkipSectors = Skipped(Odd) /\ SkipBackup = Rest(Odd) /\ SkipRest \in Nat
         /\ bytes + Rest(Odd) = (k - At) * ClusterSize + SkipRest
         /\ Rest(Odd) \in 0 .. ClusterSize - 1
         /\ Fits <=> length + Rest(Odd) <= (k - At) * ClusterSize + ClusterSize
<1> DEFINE b == Rest(Odd)
           c == ClusterSize
           d == k - At
<1>1. Odd \in Nat /\ Odd <= c - 1 /\ At \in Nat /\ c \in Nat \ {0} /\ SectorSize \in Nat \ {0}
  BY Begins, Geometry
<1>2. b \in Nat /\ b <= Odd /\ Rest(0) = 0
  BY <1>1, Rests
<1>3. d \in Nat
  BY <1>1, Files DEF Collected, Run, FType
<1>4. IF k = At THEN bytes = 0 /\ secOff = 0 /\ dataOff = Odd /\ backup = Odd
      ELSE secOff = Skipped(Odd) /\ dataOff = 0 /\ backup = b /\ bytes = d * c - backup
  BY DEF Collected
<1>5. length \in Nat /\ bytes \in Nat /\ bytes < length /\ backup \in Nat
  BY DEF FType, Collected
<1>6. SkipSectors = Skipped(Odd) /\ SkipBackup = b /\ SkipRest = (IF k = At THEN b ELSE 0)
  <2>1. CASE k = At
    BY <1>4, <2>1 DEF SkipSectors, SkipBackup, SkipRest, Skips, Skipped, Rest
  <2>2. CASE k # At
    <3>1. ~Skips
      BY <1>1, <1>4, <2>2 DEF Skips
    <3>2. QED
      BY <1>4, <2>2, <3>1 DEF SkipSectors, SkipBackup, SkipRest
  <2>3. QED
    BY <2>1, <2>2
<1>7. k = At => d = 0
  BY <1>1
<1>8. SkipRest \in Nat
  BY <1>2, <1>6
<1> HIDE DEF b, c, d
<1>9. d * c \in Nat /\ (d + 1) * c = d * c + c /\ (d = 0 => d * c = 0)
  BY <1>1, <1>3
<1>10. bytes + b = d * c + SkipRest
  <2>1. CASE k = At
    BY <1>2, <1>4, <1>6, <1>7, <1>9, <2>1
  <2>2. CASE k # At
    BY <1>2, <1>4, <1>5, <1>6, <1>9, <2>2
  <2>3. QED
    BY <2>1, <2>2
<1>11. b \in 0 .. c - 1
  BY <1>1, <1>2
<1>12. Fits <=> length + b <= d * c + c
  <2>1. Fits <=> length - bytes + SkipRest <= c
    BY DEF Fits, c
  <2>2. QED
    BY <1>1, <1>2, <1>5, <1>8, <1>9, <1>10, <2>1
<1>13. QED
  BY <1>3, <1>6, <1>8, <1>9, <1>10, <1>11, <1>12 DEF b, c, d

\* At a gap, no sector was skipped, and the range ends with its last cluster.
LEMMA GapFacts ==
  ASSUME FType, Under, EndsAtGap(req)
  PROVE  /\ Odd <= SectorSize /\ Rest(Odd) = Odd /\ Skipped(Odd) = 0
         /\ End(req) = LastIndex(req) * ClusterSize
         /\ LastIndex(req) < Len(req.clusters)
         /\ req.clusters[LastIndex(req) + 1] # req.clusters[LastIndex(req)] + 1
<1>1. Odd \in Nat
  BY Begins, Geometry
<1>2. Odd <= SectorSize
  BY <1>1, Begins, Geometry DEF Under, EndsAtGap, FType
<1>3. Rest(Odd) = Odd /\ Skipped(Odd) = 0
  BY <1>1, <1>2, Geometry DEF Rest, Skipped
<1>4. QED
  BY <1>2, <1>3, LastCluster DEF EndsAtGap, FType, Under

\* The last part is collected in the first transfer only, and then all clusters of the
\* range are adjacent.
LEMMA FitsOnce ==
  ASSUME Served, FType, Under, NEW k \in Nat, Collected(k), Fits
  PROVE  bufPtr = 0 /\ Run(LastIndex(req))
<1> DEFINE b == Rest(Odd)
           c == ClusterSize
           d == k - At
           l == LastIndex(req)
<1>1. /\ d \in Nat /\ d * c \in Nat /\ b \in Nat /\ c \in Nat \ {0}
      /\ length + b <= d * c + c
  BY Skipping, Geometry
<1>2. /\ Pos = (At - 1) * c + Odd /\ Odd \in Nat /\ At \in Nat \ {0}
      /\ End(req) = req.offset + length
      /\ Pos \in Nat /\ Pos < End(req) /\ Pos = req.offset + bufPtr
  BY Begins, Geometry DEF Pos
<1>3. /\ l \in Nat \ {0} /\ k <= l /\ req \in Requests /\ l <= Len(req.clusters)
      /\ length \in Nat /\ bufPtr \in Nat /\ req.offset \in Nat /\ k \in Nat /\ At <= k /\ At <= l
  <2>1. req \in Requests /\ req.length # 0
    BY DEF FType, Under
  <2>2. QED
    BY <2>1, LastCluster, Files, Begins DEF FType, Collected, Run
<1>4. k * c = (At - 1) * c + (d * c + c) /\ (At - 1) * c \in Int /\ k * c \in Int /\ l * c \in Int
  BY <1>1, <1>2, <1>3
<1>5. k * c <= l * c
  <2> HIDE DEF c, l
  <2>1. QED
    BY <1>1, <1>3, MoreFactor
<1>6. bufPtr = 0
  <2> SUFFICES ASSUME bufPtr > 0 PROVE FALSE
    BY <1>3
  <2>1. EndsAtGap(req) /\ Odd = 0
    BY DEF Under
  <2>2. End(req) = l * c
    BY <2>1, GapFacts
  <2> DEFINE u == (At - 1) * c
             v == d * c
             x == k * c
             y == l * c
  <2>3. /\ x = u + (v + c) /\ u \in Int /\ v \in Nat /\ x \in Int /\ y \in Int /\ x <= y
        /\ length + b <= v + c /\ Pos = u + 0 /\ End(req) = y
    BY <1>1, <1>2, <1>4, <1>5, <2>1, <2>2
  <2> HIDE DEF b, c, d, l, u, v, x, y
  <2>4. QED
    BY <1>1, <1>2, <1>3, <2>3
<1>7. CASE Adjacent(req)
  <2>1. At = FirstIndex(req)
    BY <1>6, Begins
  <2>2. QED
    BY <1>3, <1>6, <1>7, <2>1 DEF Adjacent, Run
<1>8. CASE EndsAtGap(req)
  <2>1. b = Odd
    BY <1>8, GapFacts
  <2>2. (l - 1) * c < End(req)
    BY <1>3, LastCluster DEF Under
  <2>3. End(req) <= k * c
    <3> DEFINE u == (At - 1) * c
               v == d * c
    <3>1. k * c = u + (v + c) /\ u \in Int /\ v \in Nat /\ c \in Nat /\ length + Odd <= v + c
      BY <1>1, <1>4, <2>1
    <3>2. End(req) = (u + Odd) + length
      BY <1>2, <1>3, <1>6
    <3> HIDE DEF u, v, c
    <3>3. QED
      BY <1>2, <1>3, <3>1, <3>2
  <2>4. l - 1 < k
    <3>1. (l - 1) * c \in Int
      BY <1>1, <1>3
    <3>2. (l - 1) * c < k * c
      <4> DEFINE x == (l - 1) * c
                 y == k * c
      <4>1. End(req) \in Int
        BY <1>2, <1>3
      <4>2. x \in Int /\ y \in Int /\ x < End(req) /\ End(req) <= y
        BY <1>4, <2>2, <2>3, <3>1, Zenon
      <4> HIDE DEF x, y
      <4>3. x < y
        BY <4>1, <4>2
      <4>4. QED
        BY <4>3 DEF x, y
    <3>3. l - 1 \in Int
      BY <1>3
    <3> HIDE DEF c, l
    <3>4. QED
      BY <1>1, <1>3, <3>2, <3>3, LessFactor
  <2>5. l = k
    BY <1>3, <2>4
  <2>6. QED
    BY <1>6, <2>5 DEF Collected
<1>9. QED
  BY <1>3, <1>7, <1>8 DEF Served, CanServe


\* What a step that keeps the request and the buffer's position does not change.
LEMMA SamePlace ==
  ASSUME req' = req, bufPtr' = bufPtr
  PROVE  /\ Pos' = Pos /\ At' = At /\ Odd' = Odd
         /\ \A k : Run(k)' <=> Run(k)
         /\ \A x : FileByte(x)' = FileByte(x)
         /\ EndsAtGap(req)' <=> EndsAtGap(req)
         /\ End(req)' = End(req) /\ LastIndex(req)' = LastIndex(req)
         /\ length' = length => (Under' <=> Under) /\ RoundedUp' = RoundedUp
<1>1. Pos' = Pos
  BY DEF Pos
<1>2. At' = At /\ Odd' = Odd
  BY <1>1 DEF At, Odd
<1>3. \A k : Run(k)' <=> Run(k)
  BY <1>2 DEF Run
<1>4. \A x : FileByte(x)' = FileByte(x)
  BY DEF FileByte
<1>5. EndsAtGap(req)' <=> EndsAtGap(req)
  BY Zenon
<1>6. End(req)' = End(req) /\ LastIndex(req)' = LastIndex(req)
  BY Zenon
<1>7. length' = length => (Under' <=> Under) /\ RoundedUp' = RoundedUp
  BY <1>2, <1>5, <1>6 DEF Under, RoundedUp
<1>8. QED
  BY <1>1, <1>2, <1>3, <1>4, <1>5, <1>6, <1>7

\* The bytes of a transfer that begins with the first of adjacent clusters.
LEMMA RunExact ==
  ASSUME FType, Under, NEW k \in Nat, Run(k), NEW n \in Nat, Pos + n <= k * ClusterSize
  PROVE  \A i \in 0 .. n - 1 :
           ((cluster_to_sector(req.clusters[At]) + Skipped(Odd)) * SectorSize + Rest(Odd)) + i
             = FileByte(Pos + i)
<1> SUFFICES ASSUME NEW i \in 0 .. n - 1
             PROVE  ((cluster_to_sector(req.clusters[At]) + Skipped(Odd)) * SectorSize + Rest(Odd)) + i
                      = FileByte(Pos + i)
  OBVIOUS
<1> DEFINE a == cluster_to_sector(req.clusters[At])
           s == SectorSize
           u == (At - 1) * ClusterSize
           x == Pos + i
           f == Skipped(Odd)
           b == Rest(Odd)
<1>1. Pos \in Nat /\ At \in Nat \ {0} /\ Odd \in Nat /\ Pos = u + Odd /\ s \in Nat
  BY Begins, Geometry
<1>2. f \in Nat /\ b \in Nat /\ f * s + b = Odd
  BY <1>1, Rests
<1>3. u \in Nat
  <2>1. At - 1 \in Nat
    BY <1>1
  <2>2. QED
    BY <2>1, Geometry
<1>4. x \in Nat /\ u <= x /\ x < k * ClusterSize
  <2>1. k * ClusterSize \in Nat /\ i \in Nat /\ i < n
    BY Geometry
  <2> HIDE DEF u
  <2>2. QED
    BY <1>1, <1>3, <2>1
<1>5. FileByte(x) = a * s + (x - u)
  BY <1>1, <1>4, RunBytes DEF FType
<1>6. a \in Int
  <2>1. At \in 1 .. Len(req.clusters)
    BY <1>1, Files DEF Run, FType
  <2>2. req.clusters[At] \in Nat
    BY <2>1, Files DEF FType
  <2>3. QED
    BY <2>2, Geometry DEF cluster_to_sector
<1> HIDE DEF a, s, u, f, b
<1>7. (a + f) * s = a * s + f * s /\ a * s \in Int /\ f * s \in Int
  BY <1>1, <1>2, <1>6
<1>8. ((a + f) * s + b) + i = a * s + (x - u)
  BY <1>1, <1>2, <1>3, <1>7
<1>9. QED
  BY <1>5, <1>8 DEF a, s, f, b

\* The sectors of a length, rounded up.
LEMMA Sectors ==
  ASSUME NEW n \in Nat \ {0}
  PROVE  /\ (n + SectorSize - 1) \div SectorSize = 1 + ((n - 1) \div SectorSize)
         /\ n <= (1 + ((n - 1) \div SectorSize)) * SectorSize
<1> DEFINE s == SectorSize
           q == (n - 1) \div s
<1>1. s \in Nat \ {0} /\ n - 1 \in Nat
  BY Geometry
<1>2. PICK y \in 0 .. s - 1 : q \in Nat /\ n - 1 = q * s + y
  BY <1>1, Division
<1>3. ((n - 1) + 1 * s) \div s = q + 1
  <2> DEFINE m == n - 1
  <2>1. m \in Nat /\ 1 \in Nat
    BY <1>1
  <2> HIDE DEF s, m
  <2>2. (m + 1 * s) \div s = (m \div s) + 1
    BY <1>1, <2>1, AddMultiple, Zenon
  <2>3. QED
    BY <2>2 DEF m
<1>4. (n - 1) + 1 * s = n + s - 1
  BY <1>1
<1> HIDE DEF s, q
<1>5. (1 + q) * s = q * s + s /\ q * s \in Nat
  BY <1>1, <1>2
<1>6. n <= (1 + q) * s
  BY <1>1, <1>2, <1>5
<1>7. 1 + q = q + 1
  BY <1>2
<1>8. QED
  BY <1>3, <1>4, <1>6, <1>7 DEF s, q

LEMMA LastReady ==
  ASSUME Served, FType, Under, NEW k \in Nat, Collected(k), InnerLast
  PROVE  FType' /\ Under' /\ Ready'
<1> DEFINE b == Rest(Odd)
           c == ClusterSize
           s == SectorSize
           n == SectorsPerCluster
           d == k - At
           l == LastIndex(req)
<1>1. /\ req' = req /\ bufPtr' = bufPtr /\ length' = length /\ first' = first
      /\ cluster' = cluster /\ moved' = moved
      /\ secOff' = SkipSectors /\ dataOff' = SkipRest /\ backup' = SkipBackup
      /\ sectors' = sectors + 1 + ((Left - 1) \div s)
      /\ bytes' = length /\ Fits
  BY DEF InnerLast
<1>2. bufPtr = 0 /\ Run(l)
  BY <1>1, FitsOnce
<1>3. /\ d \in Nat /\ d * c \in Nat /\ SkipRest \in Nat /\ SkipSectors = Skipped(Odd)
      /\ SkipBackup = b /\ b \in 0 .. c - 1 /\ bytes + b = d * c + SkipRest
  BY Skipping
<1>4. c \in Nat \ {0} /\ s \in Nat \ {0} /\ n \in Nat \ {0} /\ c = s * n
  BY Geometry
<1>5. /\ bytes \in Nat /\ length \in Nat \ {0} /\ bytes < length /\ sectors = d * n
      /\ first = req.clusters[At] /\ sectors \in Nat
  BY DEF Collected, FType
<1>6. Skipped(Odd) \in Nat /\ Odd \in Nat /\ Pos \in Nat /\ End(req) = req.offset + length
  BY Begins, Rests, Geometry
<1> DEFINE x == length - bytes + SkipRest - 1
<1>7. x \in Nat /\ x + d * c = (length + b) - 1
  <2> HIDE DEF b, c, d
  <2>1. QED
    BY <1>3, <1>4, <1>5
<1>8. sectors' = 1 + (((length + b) - 1) \div s)
  <2>1. d * n \in Nat /\ (d * n) * s = d * c
    BY <1>3, <1>4
  <2>2. (x + (d * n) * s) \div s = (x \div s) + d * n
    <3> HIDE DEF x, s, d, n
    <3>1. QED
      BY <1>4, <1>7, <2>1, AddMultiple
  <2>3. x \div s \in Nat
    BY <1>4, <1>7, Division
  <2>4. sectors' = d * n + 1 + (x \div s)
    <3>1. Left - 1 = x
      BY <1>3, <1>5 DEF Left
    <3>2. QED
      BY <1>1, <1>5, <3>1
  <2>5. (x + (d * n) * s) \div s = ((length + b) - 1) \div s
    BY <1>7, <2>1
  <2> HIDE DEF x, s, d, n, b
  <2>6. QED
    BY <2>1, <2>2, <2>3, <2>4, <2>5
<1>9. FType'
  <2>1. sectors' \in Nat
    <3>1. (length + b) - 1 \in Nat
      BY <1>3, <1>4, <1>5
    <3>2. ((length + b) - 1) \div s \in Nat
      BY <1>4, <3>1, Division
    <3>3. QED
      BY <1>8, <3>2
  <2>2. b \in Nat
    BY <1>3, <1>4
  <2>3. QED
    BY <1>1, <1>3, <1>5, <1>6, <2>1, <2>2 DEF FType
<1>10. Under'
  BY <1>1, SamePlace
<1>11. \A i \in 0 .. bytes' - 1 : (DiskAddress' + backup') + i = FileByte(Pos + i)'
  <2>1. l \in Nat /\ Pos + length <= l * c
    <3>1. Pos = req.offset + 0
      BY <1>2 DEF Pos
    <3>2. req.offset \in Nat
      BY Files DEF FType
    <3>3. Pos + length = End(req)
      BY <1>6, <3>1, <3>2
    <3>4. QED
      BY <3>3, LastCluster DEF FType, Under
  <2>2. \A i \in 0 .. length - 1 :
          ((cluster_to_sector(req.clusters[At]) + Skipped(Odd)) * SectorSize + Rest(Odd)) + i
            = FileByte(Pos + i)
    BY <1>2, <1>5, <2>1, RunExact
  <2>3. DiskAddress' = (cluster_to_sector(req.clusters[At]) + Skipped(Odd)) * SectorSize
    BY <1>1, <1>3, <1>5 DEF DiskAddress, cluster_to_sector
  <2>4. \A i : FileByte(Pos + i)' = FileByte(Pos + i)
    BY <1>1, SamePlace DEF FileByte
  <2>5. QED
    BY <1>1, <1>3, <2>2, <2>3, <2>4
<1>12. backup' = 0 => bytes' <= sectors' * SectorSize /\ bufPtr' + sectors' * SectorSize <= RoundedUp'
  <2> SUFFICES ASSUME b = 0
               PROVE  length <= sectors' * s /\ 0 + sectors' * s <= RoundedUp
    BY <1>1, <1>2, <1>3, SamePlace
  <2>1. sectors' = 1 + ((length - 1) \div s)
    BY <1>5, <1>8
  <2>2. length <= sectors' * s /\ sectors' * s = RoundedUp
    BY <1>5, <2>1, Sectors DEF RoundedUp
  <2>3. sectors' * s \in Nat
    <3>1. sectors' \in Nat
      BY <1>9 DEF FType
    <3>2. \A i, j \in Nat : i * j \in Nat
      OBVIOUS
    <3>3. QED
      BY <1>4, <3>1, <3>2, Zenon
  <2>4. QED
    BY <2>2, <2>3
<1>13. QED
  BY <1>1, <1>2, <1>3, <1>5, <1>9, <1>10, <1>11, <1>12, SamePlace DEF Ready


\* get_next_cluster finds the next one.
LEMMA NextFound ==
  ASSUME req \in Requests, NEW k \in 1 .. Len(req.clusters) - 1
  PROVE  NextCluster(req.clusters[k]) = req.clusters[k + 1] /\ req.clusters[k + 1] # 0
<1> DEFINE i == CHOOSE i \in DOMAIN req.clusters : req.clusters[i] = req.clusters[k]
<1>1. Len(req.clusters) \in Nat /\ DOMAIN req.clusters = 1 .. Len(req.clusters)
  BY Files
<1>2. k \in DOMAIN req.clusters /\ k < Len(req.clusters) /\ k + 1 \in 1 .. Len(req.clusters)
  BY <1>1
<1>3. i \in DOMAIN req.clusters /\ req.clusters[i] = req.clusters[k]
  BY <1>2
<1>4. i = k
  BY <1>1, <1>2, <1>3, Files, Zenon
<1>5. req.clusters[k + 1] >= 2 /\ req.clusters[k + 1] \in Nat
  BY <1>2, Files
<1>6. NextCluster(req.clusters[k]) = IF i < Len(req.clusters) THEN req.clusters[i + 1] ELSE 0
  BY Zenon DEF NextCluster
<1> HIDE DEF i
<1>7. QED
  BY <1>2, <1>4, <1>5, <1>6

\* A cluster that does not finish the range has a next one in the chain; if that is
\* not adjacent, the request is one that ends at a gap.
LEMMA GoesOn ==
  ASSUME Served, FType, Under, NEW k \in Nat, Collected(k), ~Fits
  PROVE  /\ k \in 1 .. Len(req.clusters) - 1
         /\ NextCluster(cluster) = req.clusters[k + 1] /\ req.clusters[k + 1] # 0
         /\ IF req.clusters[k + 1] = cluster + 1 THEN k + 1 <= LastIndex(req) ELSE EndsAtGap(req)
<1> DEFINE c == ClusterSize
           l == LastIndex(req)
           m == Len(req.clusters)
<1>1. /\ l \in Nat \ {0} /\ l <= m /\ m \in Nat /\ k <= l /\ req \in Requests /\ c \in Nat \ {0}
      /\ At <= k /\ At \in Nat \ {0} /\ cluster = req.clusters[k]
  <2>1. req \in Requests /\ k <= l /\ cluster = req.clusters[k] /\ k \in At .. m
    BY DEF FType, Collected, Run
  <2>2. l \in Nat \ {0} /\ l <= m /\ m \in Nat /\ c \in Nat \ {0}
    BY <2>1, LastCluster, Files, Geometry DEF Under
  <2>3. At \in Nat \ {0}
    BY Begins
  <2>4. QED
    BY <2>1, <2>2, <2>3
<1>2. CASE EndsAtGap(req)
  <2>1. l < m /\ req.clusters[l + 1] # req.clusters[l] + 1
    BY <1>2, GapFacts
  <2>2. k \in 1 .. m - 1
    BY <1>1, <2>1
  <2>3. req.clusters[k + 1] = cluster + 1 => k + 1 <= l
    <3>1. req.clusters[k + 1] = cluster + 1 => k # l
      BY <1>1, <2>1
    <3>2. QED
      BY <1>1, <3>1
  <2>4. QED
    BY <1>1, <1>2, <2>2, <2>3, NextFound
<1>3. CASE ~EndsAtGap(req)
  <2>1. Adjacent(req)
    BY <1>1, <1>3 DEF Served, CanServe
  <2>2. bufPtr = 0 /\ At = FirstIndex(req)
    BY <1>3, Begins DEF Under, FType
  <2>3. k < l
    <3> DEFINE u == (At - 1) * c
               v == (k - At) * c
               b == Rest(Odd)
    <3>1. v \in Nat /\ b \in Nat /\ b <= Odd /\ ~(length + b <= v + c)
      <4>1. Odd \in Nat
        BY Begins, Geometry
      <4>2. b \in Nat /\ b <= Odd
        BY <4>1, Rests
      <4>3. QED
        BY <4>2, Skipping
    <3>2. /\ Pos = u + Odd /\ Odd \in Nat /\ End(req) = req.offset + length
          /\ Pos = req.offset + bufPtr /\ req.offset \in Nat /\ length \in Nat
      <4>1. Pos = u + Odd /\ Odd \in Nat /\ End(req) = req.offset + length
        BY Begins, Geometry
      <4>2. Pos = req.offset + bufPtr
        BY DEF Pos
      <4>3. req.offset \in Nat /\ length \in Nat
        BY Files DEF FType
      <4>4. QED
        BY <4>1, <4>2, <4>3
    <3>3. End(req) <= l * c /\ l * c \in Nat
      <4>1. End(req) <= l * c
        BY LastCluster DEF FType, Under
      <4>2. \A i, j \in Nat : i * j \in Nat
        OBVIOUS
      <4>3. QED
        BY <1>1, <4>1, <4>2
    <3>4. k * c = u + (v + c) /\ u \in Int /\ k * c \in Int
      BY <1>1
    <3>5. k * c < l * c
      <4> DEFINE x == k * c
                 y == l * c
      <4>1. /\ x = u + (v + c) /\ u \in Int /\ x \in Int /\ y \in Nat /\ End(req) <= y /\ bufPtr = 0
            /\ End(req) = (u + Odd) + length
        BY <2>2, <3>2, <3>3, <3>4
      <4> HIDE DEF u, v, b, c, l, x, y
      <4>2. x < y
        BY <1>1, <3>1, <3>2, <4>1
      <4>3. QED
        BY <4>2 DEF x, y
    <3> HIDE DEF c, l
    <3>6. QED
      BY <1>1, <3>5, LessFactor
  <2>4. k \in 1 .. m - 1 /\ k \in At .. l /\ k + 1 \in At .. l
    BY <1>1, <2>3
  <2>5. req.clusters[k + 1] = cluster + 1
    <3> DEFINE e == req.clusters[At]
    <3>1. req.clusters[k] = e + (k - At) /\ req.clusters[k + 1] = e + ((k + 1) - At)
      BY <2>1, <2>2, <2>4 DEF Adjacent
    <3>2. e \in Nat
      <4>1. At \in 1 .. m
        BY <1>1
      <4>2. QED
        BY <1>1, <4>1, Files
    <3> HIDE DEF e
    <3>3. QED
      BY <1>1, <3>1, <3>2
  <2>6. QED
    BY <1>1, <2>3, <2>4, <2>5, NextFound
<1>4. QED
  BY <1>2, <1>3

LEMMA ClusterCollected ==
  ASSUME Served, FType, Under, NEW k \in Nat, Collected(k), InnerCluster
  PROVE  /\ FType' /\ Under'
         /\ \/ pc' = "inner" /\ Collected(k + 1)'
            \/ pc' = "transfer" /\ Ready'
<1> DEFINE b == Rest(Odd)
           c == ClusterSize
           s == SectorSize
           n == SectorsPerCluster
           d == k - At
           next == NextCluster(cluster)
<1>1. /\ req' = req /\ bufPtr' = bufPtr /\ length' = length /\ first' = first /\ moved' = moved
      /\ secOff' = SkipSectors /\ backup' = SkipBackup /\ sectors' = sectors + n
      /\ bytes' = bytes + c - SkipRest
      /\ pc' = IF next = 0 THEN "err" ELSE IF next = cluster + 1 THEN "inner" ELSE "transfer"
      /\ dataOff' = IF next = cluster + 1 THEN 0 ELSE SkipRest
      /\ cluster' = IF next = cluster + 1 THEN next ELSE cluster
      /\ ~Fits
  BY DEF InnerCluster
<1>2. /\ k \in 1 .. Len(req.clusters) - 1 /\ next = req.clusters[k + 1] /\ next # 0
      /\ IF next = cluster + 1 THEN k + 1 <= LastIndex(req) ELSE EndsAtGap(req)
  BY <1>1, GoesOn
<1> HIDE DEF next
<1>3. /\ d \in Nat /\ d * c \in Nat /\ (d + 1) * c = d * c + c /\ SkipRest \in Nat
      /\ SkipSectors = Skipped(Odd) /\ SkipBackup = b /\ b \in 0 .. c - 1
      /\ bytes + b = d * c + SkipRest /\ ~(length + b <= d * c + c)
  BY <1>1, Skipping
<1>4. c \in Nat \ {0} /\ s \in Nat \ {0} /\ n \in Nat \ {0} /\ c = s * n
  BY Geometry
<1>5. /\ bytes \in Nat /\ length \in Nat \ {0} /\ bytes < length /\ sectors = d * n
      /\ first = req.clusters[At] /\ cluster = req.clusters[k] /\ sectors \in Nat
      /\ Run(k) /\ k <= LastIndex(req) /\ req \in Requests /\ bufPtr \in Nat
  BY DEF Collected, FType
<1>6. /\ Skipped(Odd) \in Nat /\ Odd \in Nat /\ Pos \in Nat /\ At \in Nat \ {0} /\ At <= k
      /\ Pos = (At - 1) * c + Odd /\ End(req) = req.offset + length /\ Pos = req.offset + bufPtr
      /\ req.offset \in Nat /\ Len(req.clusters) \in Nat
  <2>1. /\ Odd \in Nat /\ Pos \in Nat /\ At \in Nat \ {0}
        /\ Pos = (At - 1) * c + Odd /\ End(req) = req.offset + length
    BY Begins, Geometry
  <2>2. Pos = req.offset + bufPtr
    BY DEF Pos
  <2>3. req.offset \in Nat /\ Len(req.clusters) \in Nat
    BY <1>5, Files
  <2>4. At <= k
    BY <1>5, <2>1, <2>3 DEF Run
  <2>5. QED
    BY <2>1, <2>2, <2>3, <2>4, Rests
<1>7. bytes' = (d * c + c) - b /\ bytes' < length /\ bytes' \in Nat \ {0} /\ b \in Nat
  <2> HIDE DEF b, c, d
  <2>1. QED
    BY <1>1, <1>3, <1>4, <1>5
<1>8. sectors' = (d + 1) * n /\ sectors' \in Nat
  <2> HIDE DEF d, n
  <2>1. (d + 1) * n = d * n + n
    BY <1>3, <1>4
  <2>2. QED
    BY <1>1, <1>4, <1>5, <2>1
<1>9. FType'
  <2>1. dataOff' \in Nat
    BY <1>1, <1>3
  <2>2. QED
    BY <1>1, <1>3, <1>6, <1>7, <1>8, <2>1 DEF FType
<1>10. Under'
  BY <1>1, SamePlace
<1>11. At' = At /\ Odd' = Odd /\ Pos' = Pos /\ LastIndex(req)' = LastIndex(req) /\ RoundedUp' = RoundedUp
  BY <1>1, SamePlace
<1>12. CASE next = cluster + 1
  <2>1. pc' = "inner"
    BY <1>1, <1>2, <1>12
  <2>2. Run(k + 1)
    <3>1. k + 1 \in At .. Len(req.clusters)
      BY <1>2, <1>6
    <3>2. ASSUME NEW j \in At .. k + 1 PROVE req.clusters[j] = req.clusters[At] + (j - At)
      <4>1. CASE j \in At .. k
        BY <1>5, <4>1 DEF Run
      <4>2. CASE j = k + 1
        <5> DEFINE e == req.clusters[At]
        <5>1. e \in Nat
          <6>1. At \in 1 .. Len(req.clusters)
            BY <1>2, <1>6
          <6>2. QED
            BY <1>5, <6>1, Files
        <5>2. req.clusters[k] = e + (k - At)
          BY <1>5, <1>6 DEF Run
        <5> HIDE DEF e
        <5>3. req.clusters[k + 1] = e + ((k + 1) - At)
          BY <1>2, <1>5, <1>6, <1>12, <5>1, <5>2
        <5>4. QED
          BY <4>2, <5>3 DEF e
      <4>3. QED
        BY <1>6, <4>1, <4>2
    <3>3. QED
      BY <3>1, <3>2 DEF Run
  <2>3. k + 1 # At /\ (k + 1) - At = d + 1
    BY <1>6
  <2>4. /\ secOff' = Skipped(Odd) /\ dataOff' = 0 /\ backup' = b
        /\ bytes' = ((k + 1) - At) * c - backup' /\ bytes' < length'
        /\ sectors' = ((k + 1) - At) * n
        /\ cluster' = req.clusters[k + 1] /\ first' = req.clusters[At]
    BY <1>1, <1>2, <1>3, <1>5, <1>7, <1>8, <1>12, <2>3
  <2>5. Run(k + 1)'
    BY <1>1, <2>2, SamePlace
  <2>6. Collected(k + 1)'
    BY <1>1, <1>2, <1>11, <1>12, <2>3, <2>4, <2>5 DEF Collected, Skipped, Rest
  <2>7. QED
    BY <1>9, <1>10, <2>1, <2>6
<1>13. CASE next # cluster + 1
  <2>1. pc' = "transfer" /\ EndsAtGap(req)
    BY <1>1, <1>2, <1>13
  <2>2. Odd = b /\ Skipped(Odd) = 0 /\ End(req) = LastIndex(req) * c
    BY <2>1, GapFacts
  <2>3. k * c = (At - 1) * c + (d * c + c) /\ (At - 1) * c \in Int /\ k * c \in Nat
    BY <1>4, <1>6
  <2>4. Pos + bytes' = k * c
    <3> DEFINE u == (At - 1) * c
               v == d * c
    <3>1. /\ Pos = u + b /\ bytes' = (v + c) - b /\ k * c = u + (v + c)
          /\ u \in Int /\ v \in Nat /\ c \in Nat /\ b \in Nat
      BY <1>3, <1>4, <1>6, <1>7, <2>2, <2>3
    <3> HIDE DEF u, v, b, c
    <3>2. QED
      BY <3>1
  <2>5. k * c <= LastIndex(req) * c
    <3>1. LastIndex(req) \in Nat
      BY <1>5, LastCluster DEF Under
    <3>2. QED
      BY <1>4, <1>5, <3>1, MoreFactor
  <2>6. bufPtr + bytes' <= length
    <3>1. (req.offset + bufPtr) + bytes' <= req.offset + length
      BY <1>6, <2>2, <2>4, <2>5
    <3>2. req.offset \in Nat /\ bufPtr \in Nat /\ bytes' \in Nat /\ length \in Nat
      BY <1>5, <1>6, <1>7
    <3>3. \A i, j, x, y \in Nat : (i + j) + x <= i + y => j + x <= y
      OBVIOUS
    <3>4. QED
      BY <3>1, <3>2, <3>3, Zenon
  <2>7. \A i \in 0 .. bytes' - 1 : (DiskAddress' + backup') + i = FileByte(Pos + i)'
    <3>1. \A i \in 0 .. bytes' - 1 :
            ((cluster_to_sector(req.clusters[At]) + Skipped(Odd)) * SectorSize + Rest(Odd)) + i
              = FileByte(Pos + i)
      <4>1. PICK y \in Nat : y = bytes'
        BY <1>7
      <4>2. Pos + y <= k * ClusterSize
        BY <2>3, <2>4, <4>1
      <4>3. QED
        BY <1>5, <4>1, <4>2, RunExact
    <3>2. DiskAddress' = (cluster_to_sector(req.clusters[At]) + Skipped(Odd)) * SectorSize
      BY <1>1, <1>3, <1>5 DEF DiskAddress, cluster_to_sector
    <3>3. \A i : FileByte(Pos + i)' = FileByte(Pos + i)
      BY <1>1, SamePlace DEF FileByte
    <3>4. QED
      BY <1>1, <1>3, <3>1, <3>2, <3>3
  <2>8. backup' # 0 => bufPtr' = 0 /\ backup' = Rest(Odd)
    BY <1>1, <1>3, <1>5, <2>2 DEF Under
  <2>9. backup' = 0 => bytes' <= sectors' * s /\ bufPtr' + sectors' * s <= RoundedUp'
    <3> SUFFICES ASSUME b = 0 PROVE bytes' <= sectors' * s /\ bufPtr + sectors' * s <= RoundedUp
      BY <1>1, <1>3, <1>11
    <3>1. sectors' * s = (d + 1) * c
      BY <1>3, <1>4, <1>8
    <3>2. sectors' * s = bytes'
      BY <1>3, <1>4, <1>7, <3>1
    <3>3. length <= RoundedUp /\ RoundedUp \in Int
      <4>1. length <= (1 + ((length - 1) \div s)) * s /\ RoundedUp = (1 + ((length - 1) \div s)) * s
        BY <1>5, Sectors DEF RoundedUp
      <4>2. (length - 1) \div s \in Nat
        <5>1. length - 1 \in Nat
          BY <1>5
        <5>2. QED
          BY <1>4, <5>1, Division
      <4>3. QED
        BY <1>4, <4>1, <4>2
    <3>4. QED
      BY <1>5, <1>7, <2>6, <3>2, <3>3
  <2>10. \E j \in 1 .. Len(req.clusters) - 1 : cluster' = req.clusters[j] /\ Pos + bytes' = j * c
    BY <1>1, <1>2, <1>5, <1>13, <2>4
  <2>11. Ready'
    BY <1>1, <1>7, <1>11, <2>1, <2>6, <2>7, <2>8, <2>9, <2>10, SamePlace DEF Ready, Rest
  <2>12. QED
    BY <1>9, <1>10, <2>1, <2>11
<1>14. QED
  BY <1>12, <1>13


-----------------------------------------------------------------------------
(* The steps of a call *)

\* The end of the file is where the length is cut.
LEMMA StartFile ==
  ASSUME FType, LoopInv, req.length # 0, Start
  PROVE  FType' /\ Under' /\ cluster' = req.clusters[At'] /\ dataOff' = Odd'
<1>1. /\ req' = req /\ bufPtr' = bufPtr /\ ~BehindEnd /\ bufPtr = 0 /\ moved' = moved
      /\ length' = IF req.offset + req.length > req.size THEN req.size - req.offset ELSE req.length
      /\ dataOff' = req.offset % ClusterSize
      /\ cluster' = req.clusters[1 + (req.offset \div ClusterSize)]
      /\ UNCHANGED <<first, sectors, bytes, secOff, backup>>
  BY DEF Start, LoopInv, run, FirstIndex
<1>2. req.offset \in Nat /\ req.length \in Nat \ {0} /\ req.size \in Nat
      /\ req.offset < req.size
  BY <1>1, Files DEF FType, BehindEnd
<1>3. length' = End(req) - req.offset /\ length' \in Nat \ {0}
  BY <1>1, <1>2 DEF End
<1>4. End(req)' = End(req)
  BY <1>1, SamePlace
<1>5. Pos' = req.offset
  BY <1>1, <1>2 DEF Pos
<1>6. At' = 1 + (req.offset \div ClusterSize) /\ Odd' = req.offset % ClusterSize
  BY <1>5 DEF At, Odd, ClusterSize
<1>7. (req.offset % ClusterSize) \in Nat
  BY <1>2, Geometry, Division
<1>8. FType'
  BY <1>1, <1>3, <1>7 DEF FType
<1>9. Under'
  BY <1>1, <1>2, <1>3, <1>4 DEF Under
<1>10. QED
  BY <1>1, <1>6, <1>8, <1>9

LEMMA OuterFile ==
  ASSUME FType, LoopInv, Outer PROVE FType' /\ Under' /\ At \in Nat /\ Collected(At)'
<1>1. /\ req' = req /\ bufPtr' = bufPtr /\ length' = length /\ dataOff' = dataOff
      /\ cluster' = cluster /\ moved' = moved
      /\ sectors' = 0 /\ bytes' = 0 /\ secOff' = 0 /\ first' = cluster /\ backup' = dataOff
      /\ Under /\ cluster = req.clusters[At] /\ dataOff = Odd
  BY DEF Outer, LoopInv
<1>2. /\ At \in Nat \ {0} /\ At <= LastIndex(req) /\ LastIndex(req) <= Len(req.clusters)
      /\ Len(req.clusters) \in Nat /\ LastIndex(req) \in Nat
  BY <1>1, Begins, LastCluster, Files DEF FType, Under
<1>3. At' = At /\ Odd' = Odd /\ LastIndex(req)' = LastIndex(req)
  BY <1>1, SamePlace
<1>4. req.clusters[At] \in Nat
  <2>1. At \in 1 .. Len(req.clusters)
    BY <1>2
  <2>2. QED
    BY <2>1, Files DEF FType
<1>5. FType' /\ Under'
  BY <1>1, <1>4, SamePlace DEF FType
<1>6. Run(At)
  <2>1. At \in At .. Len(req.clusters)
    BY <1>2
  <2>2. \A j \in At .. At : req.clusters[j] = req.clusters[At] + (j - At)
    BY <1>2, <1>4
  <2>3. QED
    BY <2>1, <2>2 DEF Run
<1>7. Run(At)'
  <2>1. \A k : Run(k)' <=> Run(k)
    BY <1>1, SamePlace
  <2>2. QED
    BY <1>1, <1>3, <1>6 DEF Run
<1>8. (At - At) * SectorsPerCluster = 0
  <2>1. At - At = 0
    BY <1>2
  <2>2. QED
    BY <2>1, Geometry
<1>9. 0 < length
  BY <1>1 DEF Under, FType
<1>10. Collected(At)'
  BY <1>1, <1>2, <1>3, <1>7, <1>8, <1>9 DEF Collected
<1>11. QED
  BY <1>2, <1>5, <1>10

\* The next transfer begins where the last one has ended.
LEMMA AdvanceFile ==
  ASSUME FType, LoopInv, Advance, DOMAIN moved' \subseteq Nat
  PROVE  /\ FType'
         /\ \/ pc' = "ok" /\ bufPtr' = length
            \/ pc' = "outer" /\ Under' /\ cluster' = req.clusters[At'] /\ dataOff' = Odd'
<1> DEFINE next == NextCluster(cluster)
           c == ClusterSize
<1>1. /\ pc = "transfer" /\ req' = req /\ length' = length /\ bufPtr' = bufPtr + bytes /\ dataOff' = 0
      /\ UNCHANGED <<first, sectors, bytes, secOff, backup>>
      /\ IF bufPtr' = length THEN pc' = "ok"
         ELSE pc' = (IF next = 0 THEN "err" ELSE "outer") /\ cluster' = (IF next = 0 THEN cluster ELSE next)
      /\ Under /\ Ready
  BY DEF Advance, LoopInv, run
<1> HIDE DEF next
<1>2. /\ bytes \in Nat /\ bytes > 0 /\ bufPtr \in Nat /\ bufPtr + bytes <= length /\ length \in Nat
      /\ req \in Requests
  BY <1>1 DEF FType, Ready
<1>3. FType'
  BY <1>1, <1>2 DEF FType
<1>4. CASE bufPtr' = length
  BY <1>1, <1>3, <1>4
<1>5. CASE bufPtr' # length
  <2>1. /\ EndsAtGap(req)
        /\ \E k \in 1 .. Len(req.clusters) - 1 : cluster = req.clusters[k] /\ Pos + bytes = k * c
    BY <1>1, <1>5 DEF Ready
  <2>2. PICK k \in 1 .. Len(req.clusters) - 1 : cluster = req.clusters[k] /\ Pos + bytes = k * c
    BY <2>1
  <2>3. next = req.clusters[k + 1] /\ next # 0
    BY <1>2, <2>2, NextFound DEF next
  <2>4. pc' = "outer" /\ cluster' = req.clusters[k + 1]
    BY <1>1, <1>5, <2>3
  <2>5. k \in Nat /\ Pos \in Nat /\ c \in Nat \ {0} /\ req.offset \in Nat
    <3>1. Len(req.clusters) \in Nat /\ req.offset \in Nat
      BY <1>2, Files
    <3>2. QED
      BY <1>1, <3>1, Begins, Geometry
  <2>6. Pos' = k * c + 0
    <3>1. Pos' = Pos + bytes
      BY <1>1, <1>2, <2>5 DEF Pos
    <3>2. k * c \in Nat
      BY <2>5
    <3>3. QED
      BY <2>2, <3>1, <3>2
  <2>7. At' = k + 1 /\ Odd' = 0
    <3>1. (k * c + 0) \div c = k /\ ((k * c + 0) % c) = 0
      <4>1. k * c + 0 \in Nat
        BY <2>5
      <4>2. 0 \in 0 .. c - 1
        BY <2>5
      <4> HIDE DEF c
      <4>3. QED
        BY <2>5, <4>1, <4>2, Quotient
    <3>2. At' = 1 + (Pos' \div c) /\ Odd' = (Pos' % c)
      BY DEF At, Odd, ClusterSize
    <3>3. QED
      BY <2>5, <2>6, <3>1, <3>2
  <2>8. bufPtr' < length'
    BY <1>1, <1>2, <1>5
  <2>9. EndsAtGap(req)' /\ End(req)' = End(req)
    BY <1>1, <2>1, Zenon
  <2>10. Under'
    BY <1>1, <2>7, <2>8, <2>9 DEF Under
  <2>11. QED
    BY <1>1, <1>3, <2>4, <2>7, <2>10
<1>6. QED
  BY <1>4, <1>5


\* What a transfer puts into the buffer, and what it leaves there.
LEMMA ArrivedFacts ==
  ASSUME FType, LoopInv, DataExact, WithinSector, pc = "transfer"
  PROVE  /\ DOMAIN Arrived \subseteq Nat
         /\ \A i \in 0 .. bufPtr + bytes - 1 : i \in DOMAIN Arrived /\ Arrived[i] = FileByte(req.offset + i)
         /\ \A i \in DOMAIN Arrived : i < RoundedUp
<1>1. Under /\ Ready
  BY DEF LoopInv
<1>2. /\ bytes \in Nat \ {0} /\ bufPtr \in Nat /\ sectors \in Nat /\ backup \in Nat /\ length \in Nat \ {0}
      /\ bufPtr + bytes <= length /\ req.offset \in Nat
  BY <1>1, Files DEF FType, Ready, Under
<1>3. DiskAddress \in Int
  <2>1. first \in Int /\ secOff \in Int
    BY DEF FType
  <2>2. QED
    BY <2>1, Geometry DEF DiskAddress, cluster_to_sector
<1>4. length <= RoundedUp /\ RoundedUp \in Int
  <2>1. length - 1 \in Nat
    BY <1>2
  <2>2. (length - 1) \div SectorSize \in Nat
    BY <2>1, Geometry, Division
  <2>3. length <= (1 + ((length - 1) \div SectorSize)) * SectorSize
        /\ RoundedUp = (1 + ((length - 1) \div SectorSize)) * SectorSize
    BY <1>2, Sectors DEF RoundedUp
  <2>4. QED
    BY <2>2, <2>3, Geometry
<1>5. \A i \in DOMAIN moved : i \in Nat /\ i < RoundedUp
  BY DEF WithinSector, RoundedUp, FType
<1>6. \A i \in 0 .. bufPtr - 1 : i \in DOMAIN moved /\ moved[i] = FileByte(req.offset + i)
  BY DEF DataExact
<1>7. /\ DOMAIN Copied \subseteq Nat
      /\ \A i \in bufPtr .. bufPtr + bytes - 1 :
           i \in DOMAIN Copied /\ Copied[i] = FileByte(req.offset + i)
      /\ \A i \in DOMAIN Copied : bufPtr <= i /\ i < RoundedUp
  <2>1. \A j \in 0 .. bytes - 1 : (DiskAddress + backup) + j = FileByte(req.offset + (bufPtr + j))
    <3>1. \A j \in 0 .. bytes - 1 : (DiskAddress + backup) + j = FileByte(Pos + j)
      BY <1>1 DEF Ready
    <3>2. \A j \in 0 .. bytes - 1 : Pos + j = req.offset + (bufPtr + j)
      BY <1>2 DEF Pos
    <3>3. QED
      BY <3>1, <3>2
  <2>2. CASE backup # 0
    <3>1. bufPtr = 0
      BY <1>1, <2>2 DEF Ready
    <3>2. Copied = [i \in 0 .. bytes - 1 |-> DiskAddress + backup + i]
      BY <2>2 DEF Copied
    <3>3. \A i \in 0 .. bytes - 1 : 0 + i = i /\ i < length
      BY <1>2, <3>1
    <3>4. QED
      BY <1>2, <1>4, <2>1, <3>1, <3>2, <3>3
  <2>3. CASE backup = 0
    <3> DEFINE e == sectors * SectorSize
    <3>1. bytes <= e /\ bufPtr + e <= RoundedUp
      BY <1>1, <2>3 DEF Ready
    <3>2. Copied = [i \in bufPtr .. bufPtr + e - 1 |-> DiskAddress + i - bufPtr]
      BY <2>3 DEF Copied
    <3>3. e \in Nat
      BY <1>2, Geometry
    <3> HIDE DEF e
    <3>4. DOMAIN Copied = bufPtr .. bufPtr + e - 1
      BY <3>2
    <3>5. ASSUME NEW i \in bufPtr .. bufPtr + bytes - 1
          PROVE  i \in DOMAIN Copied /\ Copied[i] = FileByte(req.offset + i)
      <4>1. i - bufPtr \in 0 .. bytes - 1 /\ bufPtr + (i - bufPtr) = i /\ i \in bufPtr .. bufPtr + e - 1
        BY <1>2, <3>1, <3>3
      <4>2. Copied[i] = DiskAddress + i - bufPtr
        BY <3>2, <4>1
      <4>3. (DiskAddress + backup) + (i - bufPtr) = DiskAddress + i - bufPtr
        BY <1>2, <1>3, <2>3
      <4>4. QED
        BY <2>1, <3>4, <4>1, <4>2, <4>3
    <3>6. QED
      BY <1>2, <1>4, <3>1, <3>3, <3>4, <3>5
  <2>4. QED
    BY <2>2, <2>3
<1>8. /\ DOMAIN Arrived = DOMAIN Copied \cup DOMAIN moved
      /\ \A i \in DOMAIN Arrived : Arrived[i] = IF i \in DOMAIN Copied THEN Copied[i] ELSE moved[i]
  BY DEF Arrived
<1>9. ASSUME NEW i \in 0 .. bufPtr + bytes - 1
      PROVE  i \in DOMAIN Arrived /\ Arrived[i] = FileByte(req.offset + i)
  <2>1. CASE i < bufPtr
    <3>1. i \in 0 .. bufPtr - 1 /\ ~(bufPtr <= i)
      BY <1>2, <2>1
    <3>2. i \notin DOMAIN Copied
      BY <1>7, <3>1
    <3>3. QED
      BY <1>6, <1>8, <3>1, <3>2
  <2>2. CASE ~(i < bufPtr)
    <3>1. i \in bufPtr .. bufPtr + bytes - 1
      BY <1>2, <2>2
    <3>2. QED
      BY <1>7, <1>8, <3>1
  <2>3. QED
    BY <2>1, <2>2
<1>10. QED
  BY <1>5, <1>7, <1>8, <1>9

LEMMA ArrivedNothing ==
  ASSUME FType, Nothing, WithinSector, pc = "transfer"
  PROVE  /\ DOMAIN Arrived \subseteq Nat
         /\ 0 .. bufPtr + bytes - 1 = {}
         /\ \A i \in DOMAIN Arrived : i < RoundedUp
<1>1. sectors = 1 /\ bufPtr = 0 /\ bytes = 0 /\ length = 0
  BY DEF Nothing
<1>2. SectorSize \in Nat /\ RoundedUp = SectorSize
  BY <1>1, Geometry DEF RoundedUp
<1>3. DOMAIN Copied \subseteq 0 .. SectorSize - 1
  BY <1>1, <1>2 DEF Copied
<1>4. DOMAIN Arrived = DOMAIN Copied \cup DOMAIN moved
  BY DEF Arrived
<1>5. \A i \in DOMAIN moved : i \in Nat /\ i < RoundedUp
  BY DEF WithinSector, RoundedUp, FType
<1>6. QED
  BY <1>1, <1>2, <1>3, <1>4, <1>5

\* A call for nothing fits at once, into one sector.
LEMMA SkipNothing ==
  ASSUME FType, Nothing
  PROVE  /\ SkipRest \in 0 .. SectorSize /\ SkipSectors \in Nat /\ SkipBackup \in Nat
         /\ ~InnerCluster
<1>1. length = 0 /\ bytes = 0 /\ dataOff \in Nat /\ backup \in Nat /\ secOff \in Nat
  BY DEF Nothing, FType
<1>2. SectorSize \in Nat \ {0} /\ SectorSize <= ClusterSize /\ ClusterSize \in Nat \ {0}
  BY Geometry
<1>3. /\ dataOff \div SectorSize \in Nat /\ (dataOff % SectorSize) \in 0 .. SectorSize - 1
  BY <1>1, <1>2, Division
<1>4. SkipRest \in 0 .. SectorSize /\ SkipSectors \in Nat /\ SkipBackup \in Nat
  BY <1>1, <1>2, <1>3 DEF SkipRest, SkipSectors, SkipBackup, Skips
<1>5. Fits
  BY <1>1, <1>2, <1>4 DEF Fits
<1>6. QED
  BY <1>4, <1>5 DEF InnerCluster

LEMMA ComputeNothing ==
  ASSUME FType, Nothing, req.length = 0, DataExact, WithinSector, Compute
  PROVE  FType' /\ Nothing' /\ DataExact' /\ WithinSector'
<1>1. req' = req /\ bufPtr' = bufPtr /\ moved' = moved
  BY DEF Compute, StartBehindEnd, Start, StartOffChain, Outer, InnerShort, InnerLast,
         InnerCluster, TransferUnaligned
<1>2. /\ length = 0 /\ bufPtr = 0 /\ bytes = 0 /\ dataOff \in Nat /\ sectors \in Nat /\ backup \in Nat
      /\ secOff \in Nat /\ first \in Nat
  BY DEF Nothing, FType
<1>3. SectorSize \in Nat \ {0} /\ SectorSize <= ClusterSize /\ ClusterSize \in Nat \ {0}
  BY Geometry
<1>5. SkipRest \in 0 .. SectorSize /\ SkipSectors \in Nat /\ SkipBackup \in Nat
  BY SkipNothing
<1>6. ~InnerCluster
  BY SkipNothing
<1>7. FType' /\ Nothing'
  <2>1. CASE StartBehindEnd \/ StartOffChain \/ InnerShort \/ TransferUnaligned
    <3>1. /\ pc' \in {"ok", "err"}
          /\ UNCHANGED <<length, dataOff, cluster, first, sectors, bytes, secOff, backup>>
      BY <2>1 DEF StartBehindEnd, StartOffChain, InnerShort, TransferUnaligned, run
    <3>2. QED
      BY <1>1, <1>2, <3>1 DEF FType, Nothing
  <2>2. CASE Start
    <3>1. req.offset \in Nat /\ req.size \in Nat
      BY Files DEF FType
    <3>2. length' = 0
      BY <2>2, <3>1 DEF Start, BehindEnd
    <3>3. dataOff' \in Nat
      <4>1. (req.offset % ClusterSize) \in Nat
        BY <1>3, <3>1, Division
      <4>2. QED
        BY <2>2, <4>1 DEF Start
    <3>4. cluster' \in Nat
      <4>1. FirstIndex(req) \in 1 .. Len(req.clusters)
        <5>1. req.offset \div ClusterSize \in Nat
          BY <1>3, <3>1, Division
        <5>2. Len(req.clusters) \in Nat
          BY Files DEF FType
        <5>3. QED
          BY <2>2, <5>1, <5>2 DEF Start, FirstIndex
      <4>2. QED
        BY <2>2, <4>1, Files DEF Start, FType
    <3>5. pc' = "outer" /\ UNCHANGED <<first, sectors, bytes, secOff, backup>>
      BY <2>2 DEF Start, run
    <3>6. QED
      BY <1>1, <1>2, <3>2, <3>3, <3>4, <3>5 DEF FType, Nothing
  <2>3. CASE Outer
    BY <1>1, <1>2, <2>3 DEF Outer, FType, Nothing
  <2>4. CASE InnerLast
    <3>1. (Left - 1) \in 0 .. SectorSize - 1
      BY <1>2, <1>3, <1>5 DEF Left
    <3>2. (Left - 1) \div SectorSize = 0
      <4>1. Left - 1 = 0 * SectorSize + (Left - 1) /\ Left - 1 \in Nat
        BY <1>3, <3>1
      <4>2. QED
        BY <1>3, <3>1, <4>1, Quotient
    <3>3. sectors' = 1 /\ bytes' = 0
      BY <1>2, <2>4, <3>2 DEF InnerLast, Nothing
    <3>4. /\ pc' = "transfer" /\ length' = length /\ first' = first
          /\ dataOff' = SkipRest /\ secOff' = SkipSectors /\ backup' = SkipBackup
      BY <2>4 DEF InnerLast
    <3>5. QED
      BY <1>1, <1>2, <1>3, <1>5, <3>3, <3>4 DEF FType, Nothing
  <2>5. QED
    BY <1>6, <2>1, <2>2, <2>3, <2>4 DEF Compute
<1>8. bufPtr' = 0 /\ length' = 0
  BY <1>7 DEF Nothing
<1>9. DataExact'
  BY <1>8 DEF DataExact
<1>10. WithinSector'
  BY <1>1, <1>2, <1>8 DEF WithinSector
<1>11. QED
  BY <1>7, <1>9, <1>10

\* The skipping comes to the end of the chain only for nothing, at the end of a file that
\* fills its last cluster.
LEMMA OffChainEmpty ==
  ASSUME req \in Requests, StartOffChain PROVE EmptyAtEnd
<1> DEFINE c == ClusterSize
           o == req.offset
           n == Len(req.clusters)
           q == o \div c
           x == o % c
<1>1. /\ o \in Nat /\ n \in Nat /\ req.length \in Nat /\ req.size \in Nat /\ req.size <= n * c
      /\ c \in Nat \ {0}
  BY Files, Geometry
<1>2. q \in Nat /\ x \in 0 .. c - 1 /\ o = q * c + x
  BY <1>1, Division
<1>3. 1 + q > n /\ ~BehindEnd
  BY DEF StartOffChain, FirstIndex
<1>4. ~(o + req.length > req.size /\ o >= req.size)
  BY <1>3 DEF BehindEnd
<1>5. EmptyAtEnd <=> req.length = 0 /\ o = req.size /\ (req.size % c) = 0
  BY DEF EmptyAtEnd
<1>6. x = o % c
  OBVIOUS
<1> HIDE DEF c, o, n, q, x
<1>7. n * c <= q * c
  BY <1>1, <1>2, <1>3, MoreFactor
<1>8. n * c \in Nat /\ q * c \in Nat
  BY <1>1, <1>2
<1>9. o = req.size /\ req.length = 0 /\ x = 0
  BY <1>1, <1>2, <1>4, <1>7, <1>8
<1>10. QED
  BY <1>5, <1>6, <1>9

LEMMA ComputeFile ==
  ASSUME Served, FType, LoopInv, req.length # 0, DataExact, WithinSector, Compute
  PROVE  FType' /\ LoopInv' /\ DataExact' /\ WithinSector'
<1>0. ~StartOffChain
  BY OffChainEmpty DEF FType, EmptyAtEnd
<1>1. req' = req /\ bufPtr' = bufPtr /\ moved' = moved
  BY <1>0 DEF Compute, StartBehindEnd, Start, Outer, InnerShort, InnerLast, InnerCluster, TransferUnaligned
<1>2. \A x : FileByte(x)' = FileByte(x)
  BY <1>1, SamePlace
<1>3. ASSUME pc' # "ok" PROVE DataExact'
  BY <1>1, <1>2, <1>3 DEF DataExact
<1>4. ASSUME length' = length PROVE WithinSector'
  BY <1>1, <1>4 DEF WithinSector
<1>5. CASE StartBehindEnd
  <2>1. /\ pc = "start" /\ pc' = "ok" /\ bufPtr = 0 /\ req.offset >= req.size /\ length' = length
        /\ UNCHANGED <<dataOff, cluster, first, sectors, bytes, secOff, backup>>
    BY <1>5 DEF StartBehindEnd, LoopInv, run, BehindEnd
  <2>2. FType'
    BY <1>1, <2>1 DEF FType
  <2>3. DataExact'
    BY <1>1, <1>2, <2>1 DEF DataExact
  <2>4. QED
    BY <1>4, <2>1, <2>2, <2>3 DEF LoopInv
<1>6. CASE Start
  <2>1. pc' = "outer" /\ moved = <<>>
    BY <1>6 DEF Start, LoopInv
  <2>2. WithinSector'
    BY <1>1, <2>1 DEF WithinSector
  <2>3. FType' /\ Under' /\ cluster' = req'.clusters[At'] /\ dataOff' = Odd'
    BY <1>1, <1>6, StartFile
  <2>4. LoopInv'
    BY <2>1, <2>3 DEF LoopInv
  <2>5. QED
    BY <1>3, <2>1, <2>2, <2>3, <2>4
<1>7. CASE Outer
  <2>1. pc' = "inner" /\ length' = length
    BY <1>7 DEF Outer
  <2>2. FType' /\ Under' /\ At \in Nat /\ Collected(At)'
    BY <1>7, OuterFile
  <2>3. \E k \in Nat : Collected(k)'
    <3>1. At' = At
      BY <1>1, SamePlace
    <3>2. QED
      BY <2>2, <3>1
  <2>4. LoopInv'
    BY <2>1, <2>2, <2>3 DEF LoopInv
  <2>5. QED
    BY <1>3, <1>4, <2>1, <2>2, <2>4
<1>8. CASE InnerShort \/ TransferUnaligned
  <2>1. pc' = "err" /\ UNCHANGED <<length, dataOff, cluster, first, sectors, bytes, secOff, backup>>
    BY <1>8 DEF InnerShort, TransferUnaligned, run
  <2>2. FType' /\ LoopInv'
    BY <1>1, <2>1 DEF FType, LoopInv
  <2>3. QED
    BY <1>3, <1>4, <2>1, <2>2
<1>9. CASE InnerLast
  <2>1. pc = "inner" /\ pc' = "transfer" /\ length' = length /\ Under
    BY <1>9 DEF InnerLast, LoopInv
  <2>2. PICK k \in Nat : Collected(k)
    BY <2>1 DEF LoopInv
  <2>3. FType' /\ Under' /\ Ready'
    BY <1>9, <2>1, <2>2, LastReady
  <2>4. LoopInv'
    BY <2>1, <2>3 DEF LoopInv
  <2>5. QED
    BY <1>3, <1>4, <2>1, <2>3, <2>4
<1>10. CASE InnerCluster
  <2>1. pc = "inner" /\ length' = length /\ Under
    BY <1>10 DEF InnerCluster, LoopInv
  <2>2. PICK k \in Nat : Collected(k)
    BY <2>1 DEF LoopInv
  <2>3. /\ FType' /\ Under'
        /\ \/ pc' = "inner" /\ Collected(k + 1)'
           \/ pc' = "transfer" /\ Ready'
    BY <1>10, <2>1, <2>2, ClusterCollected
  <2>4. k + 1 \in Nat
    OBVIOUS
  <2>5. LoopInv'
    BY <2>3, <2>4 DEF LoopInv
  <2>6. QED
    BY <1>3, <1>4, <2>1, <2>3, <2>5
<1>11. QED
  BY <1>0, <1>5, <1>6, <1>7, <1>8, <1>9, <1>10 DEF Compute

-----------------------------------------------------------------------------
(* The loops with the driver and the disk *)

\* What the loops have done does not change while they wait.
LEMMA SameFile ==
  ASSUME FType, Loops, DataExact, WithinSector, UNCHANGED vars
  PROVE  /\ FType' /\ Loops' /\ DataExact' /\ WithinSector'
         /\ Delivered' <=> Delivered
<1>1. /\ req' = req /\ pc' = pc /\ length' = length /\ dataOff' = dataOff /\ backup' = backup
      /\ cluster' = cluster /\ first' = first /\ sectors' = sectors /\ bytes' = bytes
      /\ secOff' = secOff /\ bufPtr' = bufPtr /\ moved' = moved
  BY DEF vars
<1>2. FType'
  BY <1>1 DEF FType
<1>3. DataExact' /\ WithinSector' /\ (Delivered' <=> Delivered)
  BY <1>1, SamePlace DEF DataExact, WithinSector, Delivered
<1>4. (\E k \in Nat : Collected(k)) => (\E k \in Nat : Collected(k))'
  BY <1>1, SamePlace DEF Collected
<1>5. Ready => Ready'
  <2>1. DiskAddress' = DiskAddress
    BY <1>1 DEF DiskAddress, cluster_to_sector
  <2>2. QED
    BY <1>1, <2>1, SamePlace DEF Ready
<1>6. LoopInv => LoopInv'
  BY <1>1, <1>4, <1>5, SamePlace DEF LoopInv
<1>7. Nothing => Nothing'
  BY <1>1 DEF Nothing
<1>8. QED
  BY <1>1, <1>2, <1>3, <1>6, <1>7 DEF Loops

\* read or write is called.
LEMMA InitFile == Init /\ ~D!Busy => FileInv
<1> SUFFICES ASSUME Init, ~D!Busy PROVE FileInv
  OBVIOUS
<1>1. req \in Requests /\ length \in Nat
  BY RequestAssumption DEF Init
<1>2. FType /\ Loops /\ DataExact /\ WithinSector
  BY <1>1 DEF Init, FType, Loops, LoopInv, Nothing, DataExact, WithinSector
<1>3. CallInv
  BY DEF CallInv, D!Busy
<1>4. QED
  BY <1>2, <1>3 DEF FileInv

LEMMA NextCallFile ==
  ASSUME NextCall PROVE FileInv'
<1>1. /\ req' \in Requests /\ pc' = "start" /\ length' = req'.length /\ dataOff' = 0 /\ backup' = 0
      /\ first' = 0 /\ sectors' = 0 /\ bytes' = 0 /\ secOff' = 0 /\ bufPtr' = 0 /\ moved' = <<>>
      /\ dpc' = "idle"
  BY LaterAssumption DEF NextCall, driver
<1>2. length' \in Nat
  BY <1>1, RequestAssumption
<1>3. FType' /\ Loops' /\ DataExact' /\ WithinSector'
  BY <1>1, <1>2 DEF FType, Loops, LoopInv, Nothing, DataExact, WithinSector
<1>4. CallInv'
  BY <1>1 DEF CallInv, D!Busy
<1>5. QED
  BY <1>3, <1>4 DEF FileInv

\* A transfer fails, and the call with it.
LEMMA FailsFile ==
  ASSUME FileInv, TransferFails, ~D!Busy' PROVE FileInv'
<1>1. /\ pc' = "err"
      /\ UNCHANGED <<req, length, dataOff, cluster, first, sectors, bytes, secOff, backup, bufPtr, moved>>
  BY DEF TransferFails, run
<1>2. FType' /\ Loops'
  BY <1>1 DEF FileInv, FType, Loops, LoopInv, Nothing
<1>3. DataExact' /\ WithinSector'
  BY <1>1, SamePlace DEF FileInv, DataExact, WithinSector
<1>4. CallInv'
  BY DEF CallInv, D!Busy
<1>5. QED
  BY <1>2, <1>3, <1>4 DEF FileInv

\* The driver goes on, and what the disk has reported stays.
LEMMA DriverFile ==
  ASSUME FileInv, UNCHANGED vars, D!Busy' => D!Busy \/ (pc = "transfer" /\ (req.mode = "read" \/ backup = 0)),
         dpc' \in {"notify", "wait"} /\ status' = "OK" => dpc \in {"notify", "wait"} /\ status = "OK"
  PROVE  FileInv'
<1>1. FType' /\ Loops' /\ DataExact' /\ WithinSector' /\ (Delivered' <=> Delivered)
  BY SameFile DEF FileInv
<1>2. pc' = pc /\ req' = req /\ backup' = backup
  BY DEF vars
<1>3. CallInv'
  <2>1. ASSUME D!Busy' PROVE pc' = "transfer" /\ (req'.mode = "read" \/ backup' = 0)
    BY <1>2, <2>1 DEF FileInv, CallInv
  <2>2. ASSUME dpc' \in {"notify", "wait"}, status' = "OK", backup' = 0 PROVE Delivered'
    BY <1>1, <1>2, <2>2 DEF FileInv, CallInv
  <2>3. QED
    BY <2>1, <2>2 DEF CallInv
<1>4. QED
  BY <1>1, <1>3 DEF FileInv

\* The disk has moved the data of a request, or failed to, and reports it.
LEMMA DiskMovesFile ==
  ASSUME DInv, FileInv, DiskMoves PROVE FileInv'
<1>1. PICK t \in taken, s \in {"OK", "IOERR"} :
        /\ D!DevStatus(t, s)
        /\ moved' = IF s = "OK" /\ backup = 0 THEN Arrived ELSE moved
        /\ UNCHANGED <<req, pc, length, dataOff, cluster, first, sectors, bytes, secOff, backup, bufPtr>>
  BY DEF DiskMoves, run
<1>2. ~t.done /\ status' = s /\ dpc' = dpc
  BY <1>1 DEF D!DevStatus, D!driver
<1>3. dpc \in {"notify", "wait"} /\ D!Busy
  <2>1. t \in Undone
    BY <1>2 DEF Undone
  <2>2. QED
    BY <2>1 DEF DInv, Quiet, D!Busy
<1>4. pc = "transfer" /\ (req.mode = "read" \/ backup = 0)
  BY <1>3 DEF FileInv, CallInv
<1>5. /\ DOMAIN Arrived \subseteq Nat
      /\ \A i \in 0 .. bufPtr + bytes - 1 : i \in DOMAIN Arrived /\ Arrived[i] = FileByte(req.offset + i)
      /\ \A i \in DOMAIN Arrived : i < RoundedUp
  BY <1>4, ArrivedFacts, ArrivedNothing DEF FileInv, Loops
<1>6. bufPtr \in Nat /\ bytes \in Nat
  BY DEF FileInv, FType
<1>7. FType'
  BY <1>1, <1>5 DEF FileInv, FType
<1>8. Loops'
  <2>1. CASE req.length = 0
    BY <1>1, <2>1 DEF FileInv, Loops, Nothing
  <2>2. CASE req.length # 0
    <3>1. DiskAddress' = DiskAddress
      BY <1>1 DEF DiskAddress, cluster_to_sector
    <3>2. Under' /\ Ready'
      BY <1>1, <1>4, <2>2, <3>1, SamePlace DEF FileInv, Loops, LoopInv, Ready
    <3>3. QED
      BY <1>1, <1>4, <2>2, <3>2 DEF Loops, LoopInv
  <2>3. QED
    BY <2>1, <2>2
<1>9. DataExact' /\ WithinSector'
  <2>1. CASE moved' = moved
    BY <1>1, <2>1, SamePlace DEF FileInv, DataExact, WithinSector
  <2>2. CASE moved' = Arrived
    <3>1. \A i \in 0 .. bufPtr - 1 : i \in 0 .. bufPtr + bytes - 1
      BY <1>6
    <3>2. DataExact'
      BY <1>1, <1>4, <1>5, <2>2, <3>1, SamePlace DEF DataExact
    <3>3. WithinSector'
      BY <1>1, <1>5, <2>2 DEF WithinSector, RoundedUp
    <3>4. QED
      BY <3>2, <3>3
  <2>3. QED
    BY <1>1, <2>1, <2>2
<1>10. CallInv'
  <2>1. ASSUME status' = "OK", backup' = 0 PROVE Delivered'
    <3>1. moved' = Arrived
      BY <1>1, <1>2, <2>1
    <3>2. \A i \in bufPtr .. bufPtr + bytes - 1 : i \in 0 .. bufPtr + bytes - 1
      BY <1>6
    <3>3. QED
      BY <1>1, <1>5, <3>1, <3>2, SamePlace DEF Delivered
  <2>2. QED
    BY <1>1, <1>2, <1>4, <2>1 DEF CallInv
<1>11. QED
  BY <1>7, <1>8, <1>9, <1>10 DEF FileInv

\* operation_sync returns to the loop.
LEMMA FinishFile ==
  ASSUME DInv, FileInv, Finish
  PROVE  FileInv' /\ (status = "OK" => pc' # "err")
<1>1. /\ dpc = "wait" /\ dpc' = "idle" /\ status # "FF" /\ result' = IF status = "OK" THEN "Ok" ELSE "Err"
  BY DEF Finish, D!Return
<1>2. ~D!Busy'
  BY <1>1 DEF D!Busy
<1>3. CASE status # "OK"
  <2>1. TransferFails
    BY <1>1, <1>3 DEF Finish
  <2>2. QED
    BY <1>2, <1>3, <2>1, FailsFile
<1>4. CASE status = "OK"
  <2>1. Advance /\ moved' = IF backup # 0 THEN Arrived ELSE moved
    BY <1>1, <1>4 DEF Finish
  <2>2. pc = "transfer" /\ req' = req /\ length' = length /\ bufPtr' = bufPtr + bytes
    BY <2>1 DEF Advance
  <2>3. bufPtr \in Nat /\ bytes \in Nat /\ DOMAIN moved \subseteq Nat
    BY DEF FileInv, FType
  <2>4. /\ DOMAIN moved' \subseteq Nat
        /\ \A i \in 0 .. bufPtr + bytes - 1 : i \in DOMAIN moved' /\ moved'[i] = FileByte(req.offset + i)
        /\ \A i \in DOMAIN moved' : i < RoundedUp
    <3>1. CASE backup # 0
      BY <2>1, <2>2, <3>1, ArrivedFacts, ArrivedNothing DEF FileInv, Loops
    <3>2. CASE backup = 0
      <4>1. Delivered
        BY <1>1, <1>4, <3>2 DEF FileInv, CallInv
      <4>2. \A i \in 0 .. bufPtr - 1 : i \in DOMAIN moved /\ moved[i] = FileByte(req.offset + i)
        BY DEF FileInv, DataExact
      <4>3. \A i \in 0 .. bufPtr + bytes - 1 : i \in 0 .. bufPtr - 1 \/ i \in bufPtr .. bufPtr + bytes - 1
        BY <2>3
      <4>4. \A i \in DOMAIN moved : i < RoundedUp
        BY DEF FileInv, WithinSector, RoundedUp
      <4>5. QED
        BY <2>1, <2>3, <3>2, <4>1, <4>2, <4>3, <4>4 DEF Delivered
    <3>3. QED
      BY <3>1, <3>2
  <2>5. FType' /\ Loops' /\ pc' # "err" /\ (pc' = "ok" => bufPtr' = length)
    <3>1. CASE req.length = 0
      <4>1. length = 0 /\ bufPtr = 0 /\ bytes = 0
        BY <3>1 DEF FileInv, Loops, Nothing
      <4>2. /\ pc' = "ok" /\ bufPtr' = 0 /\ dataOff' = 0
            /\ UNCHANGED <<first, sectors, bytes, secOff, backup>>
        BY <2>1, <4>1 DEF Advance, run
      <4>3. QED
        BY <2>2, <2>4, <3>1, <4>1, <4>2 DEF FileInv, FType, Loops, Nothing
    <3>2. CASE req.length # 0
      <4>1. /\ FType'
            /\ \/ pc' = "ok" /\ bufPtr' = length
               \/ pc' = "outer" /\ Under' /\ cluster' = req.clusters[At'] /\ dataOff' = Odd'
        BY <2>1, <2>4, <3>2, AdvanceFile DEF FileInv, Loops
      <4>2. QED
        BY <2>2, <3>2, <4>1 DEF Loops, LoopInv
    <3>3. QED
      BY <3>1, <3>2
  <2>7. req.offset >= req.size => length = 0
    <3>1. req.offset \in Nat /\ req.size \in Nat
      BY Files DEF FileInv, FType
    <3>2. QED
      BY <2>2, <3>1 DEF FileInv, Loops, Nothing, LoopInv, Under
  <2>8. DataExact' /\ WithinSector'
    <3>1. \A x : FileByte(x)' = FileByte(x)
      BY <2>2 DEF FileByte
    <3>2. WithinSector'
      BY <2>2, <2>4 DEF WithinSector, RoundedUp
    <3>3. \A i \in 0 .. bufPtr' - 1 : i \in DOMAIN moved' /\ moved'[i] = FileByte(req.offset + i)
      <4>1. 0 .. bufPtr' - 1 = 0 .. bufPtr + bytes - 1
        BY <2>2, <2>3
      <4>2. QED
        BY <2>4, <4>1, Zenon
    <3>4. pc' = "ok" => bufPtr' = length'
      BY <2>2, <2>5
    <3>5. DataExact'
      BY <2>2, <2>7, <3>1, <3>3, <3>4 DEF DataExact
    <3>6. QED
      BY <3>2, <3>5
  <2>9. CallInv'
    BY <1>1 DEF CallInv, D!Busy
  <2>10. QED
    BY <2>5, <2>8, <2>9 DEF FileInv
<1>5. QED
  BY <1>3, <1>4

LEMMA NextFile ==
  ASSUME Served PROVE DInv /\ FileInv /\ [AllNext]_allVars => FileInv'
<1> SUFFICES ASSUME DInv, FileInv, [AllNext]_allVars PROVE FileInv'
  OBVIOUS
<1>1. CASE UNCHANGED allVars
  <2>1. UNCHANGED vars /\ dpc' = dpc /\ status' = status
    BY <1>1 DEF allVars, driver
  <2>2. QED
    BY <2>1, DriverFile DEF D!Busy
<1>2. CASE New
  <2>1. UNCHANGED vars /\ dpc' \in {"idle", "none"}
    BY <1>2 DEF New, D!New
  <2>2. QED
    BY <2>1, DriverFile DEF D!Busy
<1>3. CASE FileStep
  <2>1. Compute /\ dpc' = "idle"
    BY <1>3 DEF FileStep, driver
  <2>2. FType' /\ Loops' /\ DataExact' /\ WithinSector'
    <3>1. req' = req
      BY <2>1 DEF Compute, StartBehindEnd, Start, StartOffChain, Outer, InnerShort, InnerLast,
                  InnerCluster, TransferUnaligned
    <3>2. QED
      BY <2>1, <3>1, ComputeFile, ComputeNothing DEF FileInv, Loops
  <2>3. CallInv'
    BY <2>1 DEF CallInv, D!Busy
  <2>4. QED
    BY <2>2, <2>3 DEF FileInv
<1>4. CASE NextCall
  BY <1>4, NextCallFile
<1>5. CASE NoBuffer
  <2>1. TransferFails /\ dpc' = "idle"
    BY <1>5 DEF NoBuffer, driver
  <2>2. QED
    BY <2>1, FailsFile DEF D!Busy
<1>6. CASE Issue
  <2>1. dpc' = "ring" /\ pc = "transfer" /\ (req.mode = "read" \/ backup = 0)
    BY <1>6, PrepareDInv DEF Issue
  <2>2. UNCHANGED vars
    BY <1>6, <2>1 DEF Issue
  <2>3. QED
    BY <2>1, <2>2, DriverFile
<1>7. CASE Submit
  <2>1. CASE D!PutRing
    BY <1>7, <2>1, DriverFile DEF Submit, D!PutRing, D!Busy
  <2>2. CASE D!PutIdx
    BY <1>7, <2>2, DriverFile DEF Submit, D!PutIdx, D!Busy, DInv
  <2>3. CASE D!Notify
    BY <1>7, <2>3, DriverFile DEF Submit, D!Notify, D!Busy
  <2>4. QED
    BY <1>7, <2>1, <2>2, <2>3 DEF Submit
<1>8. CASE Finish
  BY <1>8, FinishFile
<1>9. CASE Disk
  <2>1. CASE D!DevTake /\ UNCHANGED vars
    BY <2>1, DriverFile DEF D!DevTake, D!driver, D!Busy
  <2>2. CASE \E t \in taken : D!DevUsed(t) /\ UNCHANGED vars
    BY <2>2, DriverFile DEF D!DevUsed, D!driver, D!Busy
  <2>3. QED
    BY <1>9, <2>1, <2>2, DiskMovesFile DEF Disk
<1>10. QED
  BY <1>1, <1>2, <1>3, <1>4, <1>5, <1>6, <1>7, <1>8, <1>9 DEF AllNext

\* The loops of read and write, the driver and the disk keep to the inductive
\* invariant, for every geometry, every layout of the files and every sequence of calls
\* that the loops can serve.
THEOREM LoopsConsistent ==
  ASSUME Served PROVE AllSpec => []FileInv
<1>1. AllInit => FileInv
  BY InitFile DEF AllInit, D!Init, D!Busy
<1>2. DInv /\ FileInv /\ [AllNext]_allVars => FileInv'
  BY NextFile
<1>3. QED
  BY <1>1, <1>2, RingsConsistent, PTL DEF AllSpec

\* read and write transfer what was asked for: byte i of the buffer is byte offset + i
\* of the file, wherever its clusters lie, and a call that returns Ok has transferred
\* all of them.
THEOREM TransfersExact ==
  ASSUME Served PROVE AllSpec => []DataExact
<1>1. FileInv => DataExact
  BY DEF FileInv
<1>2. QED
  BY <1>1, LoopsConsistent, PTL

\* Nothing behind the last sector of the range is touched.
THEOREM TransfersWithin ==
  ASSUME Served PROVE AllSpec => []WithinSector
<1>1. FileInv => WithinSector
  BY DEF FileInv
<1>2. QED
  BY <1>1, LoopsConsistent, PTL

-----------------------------------------------------------------------------
(* Why a call fails *)

\* A number without a rest is a multiple.
LEMMA Multiple ==
  ASSUME NEW a \in Nat, NEW s \in Nat \ {0}, (a % s) = 0
  PROVE  \E q \in Nat : a = q * s
<1> DEFINE q == a \div s
<1>1. q \in Nat /\ a = q * s + 0
  BY Division
<1> HIDE DEF q
<1>2. q * s \in Nat
  BY <1>1
<1>3. a = q * s
  BY <1>1, <1>2
<1>4. QED
  BY <1>1, <1>3

\* Multiples that differ do so by one at least.
LEMMA Apart ==
  ASSUME NEW a \in Int, NEW b \in Int, NEW s \in Nat \ {0}, a * s < b * s
  PROVE  s <= b * s - a * s
<1>1. a + 1 <= b
  BY LessFactor
<1>2. (a + 1) * s <= b * s
  BY <1>1, MoreFactor
<1>3. (a + 1) * s = a * s + s /\ a * s \in Int /\ b * s \in Int
  OBVIOUS
<1>4. QED
  BY <1>2, <1>3

\* A range that begins with a sector, and not with the second one of its cluster,
\* leaves no offset into the first sector of a transfer.
LEMMA WholeFirst ==
  ASSUME FType, Under, (req.offset % SectorSize) = 0, (req.offset % ClusterSize) # SectorSize
  PROVE  Rest(Odd) = 0
<1> DEFINE s == SectorSize
           n == SectorsPerCluster
           o == req.offset
           q == o \div ClusterSize
<1>1. s \in Nat \ {0} /\ n \in Nat \ {0} /\ o \in Nat /\ ClusterSize = s * n /\ ClusterSize \in Nat \ {0}
  BY Geometry, Files DEF FType
<1>2. CASE bufPtr > 0
  <2>1. Odd = 0
    BY <1>2 DEF Under
  <2>2. QED
    BY <2>1, Rests
<1>3. CASE ~(bufPtr > 0)
  <2>1. bufPtr = 0
    BY <1>3 DEF FType
  <2>2. Odd = o % ClusterSize /\ Odd # s /\ Odd \in Nat
    BY <1>1, <2>1, Begins
  <2>3. q \in Nat /\ o = q * ClusterSize + Odd
    <3>1. q \in Nat /\ o = q * ClusterSize + (o % ClusterSize)
      BY <1>1, Division, Zenon
    <3>2. QED
      BY <2>2, <3>1
  <2>4. PICK p \in Nat : o = p * s
    BY <1>1, Multiple
  <2> HIDE DEF s, n, o, q
  <2> DEFINE m == p - q * n
  <2>5. q * ClusterSize = (q * n) * s /\ q * n \in Nat
    BY <1>1, <2>3
  <2>6. m \in Int /\ Odd = m * s
    <3> DEFINE a == p * s
               b == (q * n) * s
    <3>1. m * s = a - b /\ m \in Int
      BY <1>1, <2>3, <2>4, <2>5
    <3>2. a \in Nat /\ b \in Nat
      BY <1>1, <2>4, <2>5
    <3>3. a = b + Odd
      BY <2>3, <2>4, <2>5
    <3> HIDE DEF a, b, m
    <3>4. QED
      BY <2>2, <3>1, <3>2, <3>3
  <2> HIDE DEF m
  <2>7. m \in Nat
    <3>1. (0 - 1) * s < m * s
      BY <1>1, <2>2, <2>6
    <3>2. 0 - 1 < m
      BY <1>1, <2>6, <3>1, LessFactor
    <3>3. QED
      BY <2>6, <3>2
  <2>8. Odd % s = 0
    <3>1. 0 \in 0 .. s - 1 /\ m * s + 0 \in Nat /\ Odd = m * s + 0
      BY <1>1, <2>2, <2>6
    <3>2. (m * s + 0) \div s = m /\ ((m * s + 0) % s) = 0
      BY <1>1, <2>7, <3>1, Quotient
    <3>3. QED
      BY <3>1, <3>2
  <2>9. CASE Odd > s
    BY <2>8, <2>9 DEF Rest, s
  <2>10. CASE ~(Odd > s)
    <3>1. Odd < s /\ 1 * s = s
      BY <1>1, <2>2, <2>10
    <3>2. m * s < 1 * s
      BY <2>6, <3>1
    <3>3. m < 1
      BY <1>1, <2>6, <3>2, LessFactor
    <3>4. m = 0
      BY <2>7, <3>3
    <3>5. Odd = 0
      BY <1>1, <2>6, <3>4
    <3>6. QED
      BY <3>5, Rests
  <2>11. QED
    BY <2>9, <2>10
<1>4. QED
  BY <1>2, <1>3

\* write finds less than a sector left only if the range is not made of sectors.
LEMMA ShortRefused ==
  ASSUME FType, LoopInv, InnerShort PROVE Refused
<1> SUFFICES ASSUME (req.offset % SectorSize) = 0, (length % SectorSize) = 0,
                    (req.offset % ClusterSize) # SectorSize
             PROVE  FALSE
  BY DEF InnerShort, Short, Refused
<1> DEFINE s == SectorSize
           n == SectorsPerCluster
<1>1. pc = "inner" /\ Under /\ length - bytes < s
  BY DEF InnerShort, Short, LoopInv
<1>2. PICK k \in Nat : Collected(k)
  BY <1>1 DEF LoopInv
<1>3. Rest(Odd) = 0
  BY <1>1, WholeFirst
<1>4. s \in Nat \ {0} /\ n \in Nat \ {0} /\ ClusterSize = s * n /\ length \in Nat /\ bytes \in Nat
  BY Geometry DEF FType
<1>5. PICK p \in Nat : length = p * s
  BY <1>4, Multiple
<1>6. At \in Nat
  BY <1>1, Begins
<1>7. \E u \in Int : bytes = u * s
  <2>1. CASE k = At
    <3>1. bytes = 0
      BY <1>2, <2>1 DEF Collected
    <3>2. bytes = 0 * s
      BY <1>4, <3>1
    <3>3. QED
      BY <3>2
  <2>2. CASE k # At
    <3>1. bytes = (k - At) * ClusterSize - 0
      BY <1>2, <1>3, <2>2 DEF Collected
    <3>2. (k - At) * ClusterSize - 0 = ((k - At) * n) * s /\ (k - At) * n \in Int
      BY <1>4, <1>6
    <3>3. QED
      BY <3>1, <3>2
  <2>3. QED
    BY <2>1, <2>2
<1>8. PICK u \in Int : bytes = u * s
  BY <1>7
<1>9. u * s < p * s
  BY <1>2, <1>5, <1>8 DEF Collected
<1> HIDE DEF s, n
<1>10. s <= p * s - u * s
  BY <1>4, <1>5, <1>8, <1>9, Apart
<1>11. QED
  BY <1>1, <1>4, <1>5, <1>8, <1>10

\* write finds an offset into its first sector only if the range has one.
LEMMA UnalignedRefused ==
  ASSUME FType, LoopInv, TransferUnaligned PROVE Refused
<1>1. pc = "transfer" /\ req.mode = "write" /\ backup # 0 /\ Under /\ Ready
  BY DEF TransferUnaligned, LoopInv
<1>2. Rest(Odd) # 0
  BY <1>1 DEF Ready
<1>3. QED
  BY <1>1, <1>2, WholeFirst DEF Refused

\* For every geometry and every sequence of calls that the loops can serve: a call fails
\* only because the disk has failed, because there is no memory for the buffer of read,
\* because write refuses the range, or because it asks for nothing where no cluster is.
THEOREM FailsForCause ==
  ASSUME Served PROVE AllSpec => ErrForCause
<1> DEFINE Cause == NoBuffer \/ Refused \/ EmptyAtEnd \/ (Finish /\ status = "IOERR")
<1>1. DInv /\ FileInv /\ [AllNext]_allVars => [pc # "err" /\ pc' = "err" => Cause]_allVars
  <2> SUFFICES ASSUME DInv, FileInv, AllNext, pc # "err", pc' = "err" PROVE Cause
    OBVIOUS
  <2>1. ~UNCHANGED vars
    BY DEF vars
  <2>2. CASE FileStep
    <3>1. FType /\ (req.length # 0 => LoopInv) /\ (req.length = 0 => Nothing)
      BY DEF FileInv, Loops
    <3>2. CASE InnerShort
      BY <3>1, <3>2, ShortRefused DEF InnerShort, Short, Nothing, Refused
    <3>3. CASE TransferUnaligned
      BY <3>1, <3>3, UnalignedRefused DEF TransferUnaligned, Nothing, Refused
    <3>0. CASE StartOffChain
      BY <3>0, <3>1, OffChainEmpty DEF FType
    <3>4. CASE InnerCluster
      <4>0. req.length # 0
        BY <3>1, <3>4, SkipNothing
      <4>1. pc = "inner" /\ Under
        BY <3>1, <3>4, <4>0 DEF InnerCluster, LoopInv
      <4>2. PICK k \in Nat : Collected(k)
        BY <3>1, <4>0, <4>1 DEF LoopInv
      <4>3. pc' \in {"inner", "transfer"}
        BY <3>1, <3>4, <4>1, <4>2, ClusterCollected
      <4>4. QED
        BY <4>3
    <3>5. CASE StartBehindEnd \/ Start \/ Outer \/ InnerLast
      BY <3>5 DEF StartBehindEnd, Start, Outer, InnerLast
    <3>6. QED
      BY <2>2, <3>0, <3>2, <3>3, <3>4, <3>5 DEF FileStep, Compute
  <2>3. CASE Finish
    <3>1. status # "FF" /\ status \in {"FF", "OK", "IOERR"}
      BY <2>3 DEF Finish, D!Return, DInv, DType
    <3>2. QED
      BY <2>3, <3>1, FinishFile
  <2>4. CASE Issue
    <3>1. dpc' = "ring"
      BY <2>4, PrepareDInv DEF Issue
    <3>2. QED
      BY <2>1, <2>4, <3>1 DEF Issue
  <2>5. CASE Disk
    BY <2>1, <2>5 DEF Disk, DiskMoves
  <2>6. CASE NextCall
    BY <2>6 DEF NextCall
  <2>7. QED
    BY <2>1, <2>2, <2>3, <2>4, <2>5, <2>6 DEF AllNext, New, Submit
<1>2. QED
  BY <1>1, LoopsConsistent, RingsConsistent, PTL DEF AllSpec, ErrForCause

=============================================================================
