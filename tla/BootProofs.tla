----------------------------- MODULE BootProofs -----------------------------
(***************************************************************************)
(* What module Boot promises, for every machine: handlers find a VM, guest *)
(* RAM is apart from the hypervisor, the files are whole when the guest    *)
(* starts, and the serial port is the one of the device tree.              *)
(***************************************************************************)
EXTENDS Boot, FiniteSetTheorems, WellFoundedInduction, TLAPS

\* What the interrupt handlers need: the rpi4 build enables the UART's interrupt when a
\* VM is registered, and what waits is the noise of the machine.
HInv ==
  /\ HandlerFindsVm
  /\ vms \in Seq(Nat)
  /\ pc = "uart" => qemu \/ vms # <<>>
  /\ "uart" \in sources => qemu \/ vms # <<>>
  /\ pending \subseteq m.noise \cup {"sgi"}

\* A registered VM stays.
LEMMA Appended ==
  ASSUME NEW s \in Seq(Nat)
  PROVE  Append(s, Len(s)) \in Seq(Nat) /\ Append(s, Len(s)) # <<>>
<1> DEFINE t == Append(s, Len(s))
<1>1. t \in Seq(Nat) /\ Len(t) \in Nat \ {0}
  OBVIOUS
<1> HIDE DEF t
<1>2. t # <<>>
  BY <1>1
<1>3. QED
  BY <1>1, <1>2 DEF t

LEMMA HInit == Init => HInv
  BY DEF Init, HInv, HandlerFindsVm

LEMMA HNext ==
  ASSUME HInv, [Next]_vars PROVE HInv'
<1> USE DEF HInv, HandlerFindsVm, qemu, rpi4, Stop, Go, Unless
<1>1. CASE Arguments \/ SerialNone \/ Serial
  BY <1>1 DEF Arguments, SerialNone, Serial
<1>2. CASE Scan \/ SerialAgain \/ DiskAgain
  BY <1>2 DEF Scan, SerialAgain, DiskAgain
<1>3. CASE SetupMemory \/ EnableIrq
  BY <1>3 DEF SetupMemory, EnableIrq
<1>4. CASE InitGic
  <2>1. sources' \in {sources, sources \cup {}, sources \cup {"sgi"}}
    BY <1>4 DEF InitGic, GicSources
  <2>2. pending' \in {pending, pending \cup {}, pending \cup {"sgi"}}
    BY <1>4 DEF InitGic
  <2>3. UNCHANGED <<m, vms>>
    BY <1>4 DEF InitGic
  <2>4. code' \in {code, "panic"} /\ (pc' = "uart" => qemu)
    BY <1>4 DEF InitGic
  <2>5. QED
    BY <2>1, <2>2, <2>3, <2>4
<1>5. CASE EnableUart
  BY <1>5 DEF EnableUart
<1>6. CASE Disk
  BY <1>6 DEF Disk
<1>7. CASE Timer
  BY <1>7 DEF Timer
<1>8. CASE AllocateRam \/ CheckImages \/ MapRam \/ CheckLayout
  BY <1>8 DEF AllocateRam, CheckImages, MapRam, CheckLayout
<1>9. CASE \/ Load("dtb", "load dtb", "load kernel")
           \/ Load("kernel", "load kernel", "load initramfs")
           \/ Load("initramfs", "load initramfs", "magic")
  BY <1>9 DEF Load
<1>10. CASE CheckMagic \/ BootVm
  BY <1>10 DEF CheckMagic, BootVm
<1>11. CASE PushVm
  <2>1. vms' \in Seq(Nat) /\ vms' # <<>>
    BY <1>11, Appended DEF PushVm
  <2>2. QED
    BY <1>11, <2>1 DEF PushVm
<1>12. ASSUME NEW s \in Signals, Raise(s) PROVE HInv'
  BY <1>12 DEF Raise
<1>13. ASSUME NEW s \in Signals \cup {"sgi"}, Irq(s) PROVE HInv'
  <2>1. /\ s \in sources /\ s \in pending /\ UNCHANGED <<m, vms>>
        /\ sources' \subseteq sources /\ pending' \subseteq pending
    BY <1>13 DEF Irq
  <2>2. CASE NeedsVm(s) /\ vms = <<>>
    <3>1. qemu /\ s # "sgi"
      BY <2>1, <2>2 DEF NeedsVm, Signals
    <3>2. m.noise # {}
      BY <2>1, <3>1
    <3>3. pc' = "stopped"
      BY <1>13, <2>2 DEF Irq
    <3>4. QED
      BY <2>1, <3>1, <3>2, <3>3
  <2>3. CASE ~(NeedsVm(s) /\ vms = <<>>)
    <3>1. UNCHANGED <<pc, code>>
      BY <1>13, <2>3 DEF Irq
    <3>2. QED
      BY <2>1, <3>1
  <2>4. QED
    BY <2>2, <2>3
<1>14. CASE UNCHANGED vars
  BY <1>14 DEF vars
<1>15. QED
  BY <1>1, <1>2, <1>3, <1>4, <1>5, <1>6, <1>7, <1>8, <1>9, <1>10, <1>11, <1>12, <1>13, <1>14
     DEF Next, Main

\* Whatever the device tree holds and whenever interrupts arrive, their handlers find a VM
\* in the rpi4 build, and in the qemu-virt build unless one of the interrupts that it
\* enables early comes early.
THEOREM HandlersFindVm == Spec => []HandlerFindsVm
<1>1. Init => HInv
  BY HInit
<1>2. HInv /\ [Next]_vars => HInv'
  BY HNext
<1>3. HInv => HandlerFindsVm
  BY DEF HInv
<1>4. QED
  BY <1>1, <1>2, <1>3, PTL DEF Spec

-----------------------------------------------------------------------------
(* The layout of memory *)

\* A set of numbers that contains 0 and the successor of each of its members
\* contains them all.
LEMMA Counting ==
  ASSUME NEW S, 0 \in S, \A n \in Nat : n \in S => n + 1 \in S
  PROVE  Nat \subseteq S
<1> DEFINE R == {p \in Nat \X Nat : p[1] < p[2]}
<1>1. IsWellFoundedOn(R, Nat)
  BY NatLessThanWellFounded, Zenon DEF OpToRel
<1>2. \A i, j \in Nat : j < i => <<j, i>> \in R
  OBVIOUS
<1> HIDE DEF R
<1> SUFFICES ASSUME Nat \ S # {} PROVE FALSE
  OBVIOUS
<1>3. PICK i \in Nat \ S : \A j \in Nat \ S : <<j, i>> \notin R
  BY <1>1, WFMin
<1>4. i - 1 \in Nat /\ i - 1 < i
  BY <1>3
<1>5. i - 1 \in S
  BY <1>2, <1>3, <1>4
<1>6. QED
  BY <1>3, <1>4, <1>5

\* Finitely many numbers have a maximum.
LEMMA MaxNat ==
  ASSUME NEW S, IsFiniteSet(S), S # {}, \A x \in S : x \in Nat
  PROVE  Max(S) \in Nat
<1>1. PICK n \in Nat : ExistsSurjection(1 .. n, S)
  BY FS_NatSurjection
<1>2. PICK f \in [1 .. n -> S] : \A x \in S : \E i \in 1 .. n : f[i] = x
  BY <1>1 DEF ExistsSurjection, Surjection
<1> DEFINE K == {k \in Nat : k <= n => \E x \in S : \A i \in 1 .. k : f[i] <= x}
<1>3. 0 \in K
  OBVIOUS
<1>4. ASSUME NEW k \in Nat, k \in K PROVE k + 1 \in K
  <2> SUFFICES ASSUME k + 1 <= n PROVE \E x \in S : \A i \in 1 .. k + 1 : f[i] <= x
    OBVIOUS
  <2>1. PICK a \in S : \A i \in 1 .. k : f[i] <= a
    BY <1>4
  <2>2. \A i \in 1 .. k + 1 : f[i] \in S /\ f[i] \in Nat
    OBVIOUS
  <2> DEFINE b == IF a <= f[k + 1] THEN f[k + 1] ELSE a
  <2>3. b \in S /\ b \in Nat /\ a <= b /\ f[k + 1] <= b
    BY <2>2
  <2> HIDE DEF b
  <2>4. ASSUME NEW i \in 1 .. k + 1 PROVE f[i] <= b
    <3>1. CASE i = k + 1
      BY <2>3, <3>1
    <3>2. CASE i \in 1 .. k
      BY <2>1, <2>2, <2>3, <3>2
    <3>3. QED
      BY <3>1, <3>2
  <2>5. QED
    BY <2>3, <2>4
<1> HIDE DEF K
<1>5. n \in K
  BY <1>3, <1>4, Counting
<1>6. PICK x \in S : \A i \in 1 .. n : f[i] <= x
  BY <1>5 DEF K
<1>7. \A y \in S : x >= y
  BY <1>2, <1>6
<1>8. Max(S) \in S
  BY <1>7 DEF Max
<1>9. QED
  BY <1>8

LEMMA MinNat ==
  ASSUME NEW a \in Nat, NEW b \in Nat
  PROVE  Min({a, b}) \in Nat /\ Min({a, b}) <= a /\ Min({a, b}) <= b
<1>1. \E x \in {a, b} : \A y \in {a, b} : x <= y
  OBVIOUS
<1>2. Min({a, b}) \in {a, b} /\ \A y \in {a, b} : Min({a, b}) <= y
  BY <1>1 DEF Min
<1>3. QED
  BY <1>2

\* The end of the hypervisor and of its heap are addresses, and the heap ends in
\* front of the stack and, on rpi4, of the image.
LEMMA Ends ==
  ASSUME m \in Machines
  PROVE  /\ ElfEnd \in Nat /\ HeapEnd \in Nat
         /\ HeapEnd <= m.stackStart
         /\ rpi4 => HeapEnd <= m.image
<1> DEFINE L == {s \in m.segments : s.load}
           E == {s.end : s \in L}
<1>1. IsFiniteSet(m.segments) /\ \A s \in m.segments : s.end \in Nat
  BY MachineAssumption
<1>2. IsFiniteSet(L)
  BY <1>1, FS_Subset
<1> HIDE DEF L
<1>3. IsFiniteSet(E)
  <2> DEFINE f == [s \in L |-> s.end]
  <2>1. f \in Surjection(L, E)
    BY DEF Surjection
  <2>2. QED
    BY <1>2, <2>1, FS_Surjection DEF ExistsSurjection
<1>4. \A e \in E : e \in Nat
  BY <1>1 DEF L
<1> HIDE DEF E
<1> DEFINE Z == {0} \cup E
<1>5. IsFiniteSet(Z)
  BY <1>3, FS_Singleton, FS_Union
<1>6. Z # {} /\ \A x \in Z : x \in Nat
  BY <1>4
<1>7. ElfEnd = Max(Z)
  BY DEF ElfEnd, E, L
<1> HIDE DEF Z
<1>8. ElfEnd \in Nat
  BY <1>5, <1>6, <1>7, MaxNat
<1>9. m.stackStart \in Nat /\ m.image \in Nat
  BY MachineAssumption
<1>10. QED
  BY <1>8, <1>9, MinNat DEF HeapEnd

\* The steps that only one build takes.
Of(build) ==
  IF build = "rpi4" THEN {"images"}
  ELSE {"disk", "ram", "layout", "load dtb", "load kernel", "load initramfs", "magic"}

\* The steps that come behind the choice of guest RAM, and in the qemu-virt build
\* behind the check of the layout.
HasRam ==
  pc \in IF qemu THEN {"map", "layout", "load dtb", "load kernel", "load initramfs", "magic",
                      "push", "boot", "guest"}
        ELSE {"map", "push", "uart", "timer", "boot", "guest"}

HasLayout ==
  qemu /\ pc \in {"load dtb", "load kernel", "load initramfs", "magic", "push", "boot", "guest"}

HasHeap == pc \notin {"args", "serial", "memory", "stopped"}

\* What main has established when it gets to a step.
LInv ==
  /\ m \in Machines
  /\ \A b \in {"rpi4", "qemu-virt"} : pc \in Of(b) => m.build = b
  /\ HasHeap => heap = [lo |-> ElfEnd, hi |-> HeapEnd] /\ ElfEnd < HeapEnd
  /\ HasRam /\ qemu => ram = ElfEnd /\ ram + RamSize <= HeapEnd
  /\ HasRam /\ rpi4 => ram = HostRamBase /\ Rpi4Layout
  /\ HasLayout => QemuLayout

\* What a step does to memory: nothing, or one of the four that set it up.
Step(a, b) == pc = a /\ pc' = b

Passes ==
  \/ pc' = pc
  \/ Step("args", "serial") \/ Step("serial", "memory") \/ Step("irq", "gic")
  \/ qemu /\ Step("gic", "uart")
  \/ rpi4 /\ Step("gic", "images")
  \/ qemu /\ Step("uart", "disk")
  \/ rpi4 /\ Step("uart", "timer")
  \/ qemu /\ Step("disk", "timer")
  \/ qemu /\ Step("timer", "ram")
  \/ rpi4 /\ Step("timer", "boot")
  \/ qemu /\ Step("map", "layout")
  \/ rpi4 /\ Step("map", "push")
  \/ qemu /\ Step("layout", "load dtb") /\ QemuLayout
  \/ qemu /\ Step("magic", "push")
  \/ qemu /\ Step("push", "boot")
  \/ rpi4 /\ Step("push", "uart")
  \/ Step("boot", "guest")

SetsHeap ==
  /\ Step("memory", "irq") /\ heap' = [lo |-> ElfEnd, hi |-> HeapEnd] /\ ElfEnd < HeapEnd
  /\ UNCHANGED <<ram, mem>>

SetsRam ==
  /\ \/ qemu /\ Step("ram", "map") /\ ram' = heap.lo /\ HeapSize >= RamSize + BootMemory
     \/ rpi4 /\ Step("images", "map") /\ ram' = HostRamBase /\ Rpi4Layout
  /\ UNCHANGED <<heap, mem>>

Writes(file, here, next) ==
  /\ qemu /\ Step(here, next)
  /\ mem' = Over(Placed(file, ram + Offset(file), RoundUp(m.sizes[file])), mem)
  /\ UNCHANGED <<heap, ram>>

WritesFile ==
  \/ Writes("dtb", "load dtb", "load kernel")
  \/ Writes("kernel", "load kernel", "load initramfs")
  \/ Writes("initramfs", "load initramfs", "magic")

Effect ==
  \/ pc' = "stopped" /\ UNCHANGED mem
  \/ Passes /\ UNCHANGED <<heap, ram, mem>>
  \/ SetsHeap \/ SetsRam \/ WritesFile

\* The two builds are two.
LEMMA Builds == ASSUME m \in Machines PROVE (qemu \/ rpi4) /\ ~(qemu /\ rpi4)
  BY MachineAssumption DEF qemu, rpi4

LEMMA StepEffect ==
  ASSUME LInv, [Next]_vars
  PROVE  m' = m /\ Effect
<1> USE DEF Stop, Go, Unless, Effect, Passes, Step, qemu, rpi4
<1>1. /\ m.build \in {"qemu-virt", "rpi4"}
      /\ pc \in {"disk", "ram", "layout", "load dtb", "load kernel", "load initramfs", "magic"} => qemu
  BY Builds DEF LInv, Of
<1>2. HeapSize \in Int \/ pc # "ram"
  BY Ends DEF LInv, HasHeap, HeapSize
<1>3. CASE Arguments \/ SerialNone \/ Serial
  BY <1>3 DEF Arguments, SerialNone, Serial
<1>4. CASE Scan \/ SerialAgain \/ DiskAgain
  BY <1>4 DEF Scan, SerialAgain, DiskAgain
<1>5. CASE SetupMemory
  BY <1>5, Ends DEF SetupMemory, SetsHeap, LInv
<1>6. CASE EnableIrq
  BY <1>6 DEF EnableIrq
<1>7. CASE InitGic
  BY <1>1, <1>7 DEF InitGic
<1>8. CASE EnableUart
  BY <1>1, <1>8 DEF EnableUart
<1>9. CASE Disk
  BY <1>1, <1>9 DEF Disk
<1>10. CASE Timer
  BY <1>1, <1>10 DEF Timer
<1>11. CASE AllocateRam
  BY <1>1, <1>2, <1>11, LayoutAssumption DEF AllocateRam, SetsRam
<1>12. CASE CheckImages
  BY <1>1, <1>12 DEF CheckImages, SetsRam
<1>13. CASE MapRam \/ CheckLayout
  BY <1>1, <1>13 DEF MapRam, CheckLayout
<1>14. CASE \/ Load("dtb", "load dtb", "load kernel")
            \/ Load("kernel", "load kernel", "load initramfs")
            \/ Load("initramfs", "load initramfs", "magic")
  BY <1>1, <1>14 DEF Load, WritesFile, Writes
<1>15. CASE CheckMagic \/ PushVm \/ BootVm
  BY <1>1, <1>15 DEF CheckMagic, PushVm, BootVm
<1>16. ASSUME NEW s \in Signals, Raise(s) PROVE m' = m /\ Effect
  BY <1>16 DEF Raise
<1>17. ASSUME NEW s \in Signals \cup {"sgi"}, Irq(s) PROVE m' = m /\ Effect
  BY <1>17 DEF Irq
<1>18. CASE UNCHANGED vars
  BY <1>18 DEF vars
<1>19. QED
  BY <1>3, <1>4, <1>5, <1>6, <1>7, <1>8, <1>9, <1>10, <1>11, <1>12, <1>13, <1>14, <1>15, <1>16,
     <1>17, <1>18 DEF Next, Main

\* What depends on the machine alone.
LEMMA Fixed ==
  ASSUME m' = m
  PROVE  /\ (qemu' <=> qemu) /\ (rpi4' <=> rpi4)
         /\ ElfEnd' = ElfEnd /\ HeapEnd' = HeapEnd
         /\ (Rpi4Layout' <=> Rpi4Layout) /\ (QemuLayout' <=> QemuLayout)
<1>1. (qemu' <=> qemu) /\ (rpi4' <=> rpi4) /\ ElfEnd' = ElfEnd
  BY DEF qemu, rpi4, ElfEnd
<1>2. HeapEnd' = HeapEnd
  BY DEF HeapEnd, rpi4
<1>3. Rpi4Layout' <=> Rpi4Layout
  BY DEF Rpi4Layout, Within, Interval, HostRam
<1>4. QemuLayout' <=> QemuLayout
  BY DEF QemuLayout, Overlap, FileRange, Offset, Interval, Files
<1>5. QED
  BY <1>1, <1>2, <1>3, <1>4

LEMMA LInit == Init => LInv
  BY DEF Init, LInv, Of, HasHeap, HasRam, HasLayout

LEMMA LNext ==
  ASSUME LInv, [Next]_vars
  PROVE  LInv'
<1>1. m' = m /\ Effect
  BY StepEffect
<1>2. (qemu \/ rpi4) /\ ~(qemu /\ rpi4) /\ m.build = IF qemu THEN "qemu-virt" ELSE "rpi4"
  BY Builds DEF LInv, qemu, rpi4
<1>3. ElfEnd \in Nat /\ HeapEnd \in Nat
  BY Ends DEF LInv
<1>4. m' \in Machines
  BY <1>1 DEF LInv
<1>5. \A b \in {"rpi4", "qemu-virt"} : (pc \in Of(b) => m.build = b)'
  BY <1>1, <1>2
     DEF LInv, Of, Effect, Passes, Step, SetsHeap, SetsRam, WritesFile, Writes
<1>6. (HasHeap => heap = [lo |-> ElfEnd, hi |-> HeapEnd] /\ ElfEnd < HeapEnd)'
  BY <1>1, <1>2, Fixed
     DEF LInv, HasHeap, Effect, Passes, Step, SetsHeap, SetsRam, WritesFile, Writes
<1>7. (HasRam /\ qemu => ram = ElfEnd /\ ram + RamSize <= HeapEnd)'
  <2>1. CASE SetsRam
    BY <1>1, <1>2, <1>3, <2>1, Fixed, LayoutAssumption DEF LInv, HasHeap, HeapSize, SetsRam, Step
  <2>2. CASE ~SetsRam
    BY <1>1, <1>2, <2>2, Fixed
       DEF LInv, HasRam, Effect, Passes, Step, SetsHeap, WritesFile, Writes
  <2>3. QED
    BY <2>1, <2>2
<1>8. (HasRam /\ rpi4 => ram = HostRamBase /\ Rpi4Layout)'
  BY <1>1, <1>2, Fixed
     DEF LInv, HasRam, Effect, Passes, Step, SetsHeap, SetsRam, WritesFile, Writes, qemu, rpi4
<1>9. (HasLayout => QemuLayout)'
  BY <1>1, <1>2, Fixed
     DEF LInv, HasLayout, Effect, Passes, Step, SetsHeap, SetsRam, WritesFile, Writes
<1>10. QED
  BY <1>4, <1>5, <1>6, <1>7, <1>8, <1>9 DEF LInv

\* Guest RAM is apart from the hypervisor, and in the qemu-virt build from its stack, in
\* the rpi4 build from its heap, for all sizes of the program, of memory and of guest RAM,
\* if in the rpi4 build the image is at the start of guest RAM.
THEOREM RamApart == Spec => []GuestRamApart
<1>1. ASSUME LInv PROVE GuestRamApart
  <2> SUFFICES ASSUME pc = "guest", rpi4 => m.image = HostRamBase
               PROVE  /\ ram >= ElfEnd
                      /\ qemu => /\ Within(Interval(ram, RamSize), heap)
                                 /\ ~Overlap(Interval(ram, RamSize), Interval(m.stackStart, m.stackSize))
                      /\ rpi4 => ~Overlap(Interval(ram, RamSize), heap)
    BY DEF GuestRamApart
  <2>1. /\ ElfEnd \in Nat /\ HeapEnd \in Nat /\ HeapEnd <= m.stackStart
        /\ rpi4 => HeapEnd <= m.image
    BY <1>1, Ends DEF LInv
  <2>2. m.stackStart \in Nat /\ m.stackSize \in Nat
    BY <1>1, MachineAssumption DEF LInv
  <2>3. heap = [lo |-> ElfEnd, hi |-> HeapEnd] /\ ElfEnd < HeapEnd
    BY <1>1 DEF LInv, HasHeap
  <2>4. CASE qemu
    <3>1. ram = ElfEnd /\ ram + RamSize <= HeapEnd
      BY <1>1, <2>4 DEF LInv, HasRam
    <3>2. ~rpi4
      BY <1>1, <2>4, Builds DEF LInv
    <3>3. QED
      BY <2>1, <2>2, <2>3, <3>1, <3>2, LayoutAssumption DEF Overlap, Within, Interval
  <2>5. CASE rpi4
    <3>1. ram = HostRamBase /\ ~qemu
      BY <1>1, <2>5, Builds DEF LInv, HasRam
    <3>2. QED
      BY <2>1, <2>3, <2>5, <3>1, LayoutAssumption DEF Overlap, Interval
  <2>6. QED
    BY <1>1, <2>4, <2>5, Builds DEF LInv
<1>2. Init => LInv
  BY LInit
<1>3. LInv /\ [Next]_vars => LInv'
  BY LNext
<1>4. QED
  BY <1>1, <1>2, <1>3, PTL DEF Spec

-----------------------------------------------------------------------------
(* The files *)

\* Numbers of whole sectors.
LEMMA Sectors ==
  ASSUME NEW n \in Nat, NEW x \in Nat, NEW y \in Nat, NEW s \in Nat \ {0},
         x % s = 0, y % s = 0, x + n <= y
  PROVE  x + ((n + s - 1) \div s) * s <= y
<1> DEFINE a == x \div s
           b == y \div s
           q == (n + s - 1) \div s
<1>1. a \in Nat /\ b \in Nat /\ x = a * s /\ y = b * s
  OBVIOUS
<1>2. q \in Nat /\ q * s <= n + s - 1
  OBVIOUS
<1> HIDE DEF a, b, q
<1>3. (a + q) * s <= b * s + s - 1
  BY <1>1, <1>2
<1>4. a + q <= b
  <2> SUFFICES ASSUME a + q >= b + 1 PROVE FALSE
    BY <1>1, <1>2
  <2>1. (a + q) * s >= (b + 1) * s
    BY <1>1, <1>2
  <2>2. QED
    BY <1>1, <1>2, <1>3, <2>1
<1>5. (a + q) * s <= b * s
  BY <1>1, <1>2, <1>4
<1>6. QED
  BY <1>1, <1>2, <1>5 DEF q

\* The boundary behind a file of n bytes.
LEMMA Boundary ==
  ASSUME NEW n \in Nat \ {0}, NEW al \in Nat \ {0}, NEW s \in Nat \ {0}, al % s = 0
  PROVE  LET k == ((n - 1) \div al) * al + al IN k \in Nat /\ n <= k /\ k % s = 0
<1> DEFINE q == (n - 1) \div al
           c == al \div s
<1>1. q \in Nat /\ n - 1 < q * al + al
  OBVIOUS
<1>2. c \in Nat /\ al = c * s
  OBVIOUS
<1> HIDE DEF q, c
<1>3. q * al \in Nat
  BY <1>1
<1>4. q * al + al = ((q + 1) * c) * s
  BY <1>1, <1>2
<1>5. (((q + 1) * c) * s) % s = 0
  <2> DEFINE z == (q + 1) * c
  <2>1. z \in Nat
    BY <1>1, <1>2
  <2> HIDE DEF z
  <2>2. (z * s) % s = 0
    BY <2>1
  <2>3. QED
    BY <2>2 DEF z
<1>6. QED
  BY <1>1, <1>3, <1>4, <1>5 DEF q

\* A read of a file writes it to its end.
LEMMA Rounded == ASSUME NEW n \in Nat PROVE RoundUp(n) \in Nat /\ n <= RoundUp(n)
<1> DEFINE q == (n + Sector - 1) \div Sector
<1>1. q \in Nat /\ n + Sector - 1 < q * Sector + Sector
  BY LayoutAssumption
<1>2. RoundUp(n) = q * Sector
  BY DEF RoundUp
<1> HIDE DEF q
<1>3. q * Sector \in Nat
  BY <1>1, LayoutAssumption
<1>4. QED
  BY <1>1, <1>2, <1>3, LayoutAssumption

LEMMA Sizes ==
  ASSUME m \in Machines
  PROVE  \A f \in Files : m.sizes[f] \in Nat \ {0}
  BY MachineAssumption DEF Files

\* The files come one behind the other: the device tree is the first, and of the
\* kernel and the initramfs neither reaches into the other, the rest of its last
\* sector included.
LEMMA Apart ==
  ASSUME m \in Machines, QemuLayout
  PROVE  /\ \A f \in Files : Offset(f) \in Nat
         /\ m.sizes["dtb"] <= Offset("kernel") /\ m.sizes["dtb"] <= Offset("initramfs")
         /\ \/ Offset("kernel") + m.sizes["kernel"] <= Offset("initramfs")
            \/ Offset("initramfs") + RoundUp(m.sizes["initramfs"]) <= Offset("kernel")
<1>1. \A f \in Files : m.sizes[f] \in Nat \ {0}
  BY Sizes
<1> DEFINE d == m.sizes["dtb"]
           i == m.sizes["initramfs"]
           k == ((d - 1) \div Align) * Align + Align
<1>2. d \in Nat \ {0} /\ i \in Nat \ {0} /\ m.sizes["kernel"] \in Nat \ {0}
  BY <1>1 DEF Files
<1>3. Offset("dtb") = 0 /\ Offset("kernel") = k /\ Offset("initramfs") = Initramfs
  BY <1>2 DEF Offset
<1> HIDE DEF d, i
<1>4. k \in Nat /\ d <= k /\ k % Sector = 0
  BY <1>2, Boundary, LayoutAssumption
<1> HIDE DEF k
<1>5. /\ ~Overlap(FileRange("dtb"), FileRange("initramfs"))
      /\ ~Overlap(FileRange("kernel"), FileRange("initramfs"))
  BY DEF QemuLayout, Files
<1>6. d <= Initramfs
  BY <1>2, <1>3, <1>5, LayoutAssumption DEF Overlap, FileRange, Interval, d, i
<1>7. k + m.sizes["kernel"] <= Initramfs \/ Initramfs + i <= k
  BY <1>2, <1>3, <1>4, <1>5, LayoutAssumption DEF Overlap, FileRange, Interval, i
<1>8. Initramfs + i <= k => Initramfs + RoundUp(i) <= k
  BY <1>2, <1>4, Sectors, LayoutAssumption DEF RoundUp
<1>9. QED
  BY <1>3, <1>4, <1>6, <1>7, <1>8, LayoutAssumption DEF Files, d, i

\* A file of the qemu-virt build is in memory.
Whole(f) ==
  \A a \in ram + Offset(f) .. ram + Offset(f) + m.sizes[f] - 1 :
    a \in DOMAIN mem /\ mem[a] = <<f, a - (ram + Offset(f))>>

\* The steps behind the one that loads a file.
Behind(f) ==
  CASE f = "dtb" -> {"load kernel", "load initramfs", "magic", "push", "boot", "guest"}
    [] f = "kernel" -> {"load initramfs", "magic", "push", "boot", "guest"}
    [] f = "initramfs" -> {"magic", "push", "boot", "guest"}

FInv ==
  /\ LInv
  /\ \A f \in Files : qemu /\ pc \in Behind(f) => Whole(f)
  /\ rpi4 => mem = Preloaded

LEMMA FInit == Init => FInv
  BY LInit, Builds DEF Init, FInv, Files, Behind

\* What depends on the machine and on where guest RAM is.
LEMMA Kept ==
  ASSUME m' = m, ram' = ram, mem' = mem
  PROVE  \A f \in Files : Whole(f) => Whole(f)'
<1>1. \A f \in Files : Offset(f)' = Offset(f)
  BY DEF Offset
<1>2. QED
  BY <1>1 DEF Whole

\* A file that is read is in memory.
LEMMA ReadWhole ==
  ASSUME NEW f \in Files, FInv, m' = m, ram' = ram, ram \in Nat, Offset(f) \in Nat,
         mem' = Over(Placed(f, ram + Offset(f), RoundUp(m.sizes[f])), mem)
  PROVE  Whole(f)'
<1> DEFINE at == ram + Offset(f)
           n == m.sizes[f]
<1>1. (ram + Offset(f))' = at /\ m'.sizes[f] = n
  BY DEF Offset
<1>2. n \in Nat /\ RoundUp(n) \in Nat /\ n <= RoundUp(n)
  BY Sizes, Rounded DEF FInv, LInv
<1>3. at \in Nat
  OBVIOUS
<1>4. mem' = Over(Placed(f, at, RoundUp(n)), mem)
  OBVIOUS
<1> HIDE DEF at, n
<1>5. ASSUME NEW a \in at .. at + n - 1 PROVE a \in DOMAIN mem' /\ mem'[a] = <<f, a - at>>
  <2>1. a \in at .. at + RoundUp(n) - 1
    BY <1>2, <1>3
  <2>2. QED
    BY <1>4, <2>1 DEF Over, Placed
<1>6. QED
  BY <1>1, <1>5 DEF Whole

\* A file stays in memory when another is read that is apart from it.
LEMMA ReadKeeps ==
  ASSUME NEW f \in Files, NEW g \in Files, FInv, m' = m, ram' = ram,
         ram \in Nat, Offset(f) \in Nat, Offset(g) \in Nat,
         mem' = Over(Placed(f, ram + Offset(f), RoundUp(m.sizes[f])), mem),
         \/ Offset(g) + m.sizes[g] <= Offset(f)
         \/ Offset(f) + RoundUp(m.sizes[f]) <= Offset(g),
         Whole(g)
  PROVE  Whole(g)'
<1> DEFINE at == ram + Offset(f)
           of == ram + Offset(g)
           n == RoundUp(m.sizes[f])
           k == m.sizes[g]
<1>1. (ram + Offset(g))' = of /\ m'.sizes[g] = k
  BY DEF Offset
<1>2. n \in Nat /\ k \in Nat
  BY Sizes, Rounded DEF FInv, LInv
<1>3. at \in Nat /\ of \in Nat /\ (of + k <= at \/ at + n <= of)
  BY <1>2
<1>4. mem' = Over(Placed(f, at, n), mem)
  OBVIOUS
<1>5. \A a \in of .. of + k - 1 : a \in DOMAIN mem /\ mem[a] = <<g, a - of>>
  BY DEF Whole
<1> HIDE DEF at, of, n, k
<1>6. ASSUME NEW a \in of .. of + k - 1 PROVE a \in DOMAIN mem' /\ mem'[a] = <<g, a - of>>
  <2>1. a \notin at .. at + n - 1
    BY <1>2, <1>3
  <2>2. a \in DOMAIN mem /\ mem[a] = <<g, a - of>>
    BY <1>5
  <2>3. QED
    BY <1>4, <2>1, <2>2 DEF Over, Placed
<1>7. QED
  BY <1>1, <1>6 DEF Whole

LEMMA FNext ==
  ASSUME FInv, [Next]_vars
  PROVE  FInv'
<1>1. LInv'
  BY LNext DEF FInv
<1>2. m' = m /\ Effect
  BY StepEffect DEF FInv
<1>3. (qemu' <=> qemu) /\ (rpi4' <=> rpi4) /\ (qemu \/ rpi4) /\ ~(qemu /\ rpi4)
  BY <1>2, Fixed, Builds DEF FInv, LInv
<1>4. (rpi4 => mem = Preloaded)'
  <2>1. Preloaded' = Preloaded
    BY <1>2 DEF Preloaded, rpi4, Placed, Over
  <2>2. rpi4 => mem' = mem
    BY <1>2, <1>3 DEF Effect, SetsHeap, SetsRam, WritesFile, Writes
  <2>3. QED
    BY <1>3, <2>1, <2>2 DEF FInv
<1>5. ASSUME NEW f \in Files, qemu, pc' \in Behind(f) PROVE Whole(f)'
  <2>1. CASE Passes /\ UNCHANGED <<heap, ram, mem>>
    <3>1. pc \in Behind(f)
      BY <1>3, <1>5, <2>1 DEF Passes, Step, Behind, Files
    <3>2. QED
      BY <1>2, <1>5, <2>1, <3>1, Kept DEF FInv
  <2>2. CASE pc' = "stopped" \/ SetsHeap \/ SetsRam
    BY <1>5, <2>2 DEF Behind, Files, SetsHeap, SetsRam, Step
  <2>3. CASE WritesFile
    <3>1. pc \in {"load dtb", "load kernel", "load initramfs"} /\ ram' = ram
      BY <2>3 DEF WritesFile, Writes, Step
    <3>2. m \in Machines /\ QemuLayout /\ ram \in Nat
      BY <1>5, <3>1, Ends DEF FInv, LInv, HasLayout, HasRam
    <3>3. /\ \A x \in Files : Offset(x) \in Nat
          /\ m.sizes["dtb"] <= Offset("kernel") /\ m.sizes["dtb"] <= Offset("initramfs")
          /\ \/ Offset("kernel") + m.sizes["kernel"] <= Offset("initramfs")
             \/ Offset("initramfs") + RoundUp(m.sizes["initramfs"]) <= Offset("kernel")
      BY <3>2, Apart
    <3>4. Offset("dtb") + m.sizes["dtb"] = m.sizes["dtb"]
      BY <3>2, Sizes DEF Offset, Files
    <3>5. "dtb" \in Files /\ "kernel" \in Files /\ "initramfs" \in Files
      BY DEF Files
    <3>6. CASE Writes("dtb", "load dtb", "load kernel")
      <4>1. f = "dtb"
        BY <1>5, <3>6 DEF Behind, Files, Writes, Step
      <4>2. QED
        BY <1>2, <3>1, <3>2, <3>3, <3>6, <4>1, ReadWhole DEF Writes
    <3>7. CASE Writes("kernel", "load kernel", "load initramfs")
      <4>1. f \in {"dtb", "kernel"} /\ Whole("dtb")
        BY <1>5, <3>5, <3>7 DEF Behind, Files, Writes, Step, FInv
      <4>2. Whole("dtb")'
        BY <1>2, <3>1, <3>2, <3>3, <3>4, <3>5, <3>7, <4>1, ReadKeeps DEF Writes
      <4>3. Whole("kernel")'
        BY <1>2, <3>1, <3>2, <3>3, <3>5, <3>7, ReadWhole DEF Writes
      <4>4. QED
        BY <4>1, <4>2, <4>3
    <3>8. CASE Writes("initramfs", "load initramfs", "magic")
      <4>1. Whole("dtb") /\ Whole("kernel")
        BY <1>5, <3>5, <3>8 DEF Behind, Writes, Step, FInv
      <4>2. Whole("dtb")'
        BY <1>2, <3>1, <3>2, <3>3, <3>4, <3>5, <3>8, <4>1, ReadKeeps DEF Writes
      <4>3. Whole("kernel")'
        BY <1>2, <3>1, <3>2, <3>3, <3>5, <3>8, <4>1, ReadKeeps DEF Writes
      <4>4. Whole("initramfs")'
        BY <1>2, <3>1, <3>2, <3>3, <3>5, <3>8, ReadWhole DEF Writes
      <4>5. QED
        BY <4>2, <4>3, <4>4 DEF Files
    <3>9. QED
      BY <2>3, <3>6, <3>7, <3>8 DEF WritesFile
  <2>4. QED
    BY <1>2, <2>1, <2>2, <2>3 DEF Effect
<1>6. QED
  BY <1>1, <1>3, <1>4, <1>5 DEF FInv, Files, Behind

\* When the guest starts, its files are whole and inside its RAM, for all sizes that
\* the checks of create_vm let through: the boundaries are whole sectors, so that
\* what a read writes behind the end of a file reaches no other.  Without a text offset
\* the guest starts at the first byte of its kernel.
THEOREM FilesIntact == Spec => []ImagesIntact
<1>1. ASSUME FInv, pc = "guest", qemu
      PROVE  \A f \in Files : \A a \in ram + Offset(f) .. ram + Offset(f) + m.sizes[f] - 1 :
               a \in ram .. ram + RamSize - 1 /\ mem[a] = <<f, a - (ram + Offset(f))>>
  <2>1. m \in Machines /\ QemuLayout /\ ram \in Nat
    BY <1>1, Ends DEF FInv, LInv, HasLayout, HasRam
  <2> SUFFICES ASSUME NEW f \in Files, NEW a \in ram + Offset(f) .. ram + Offset(f) + m.sizes[f] - 1
               PROVE  a \in ram .. ram + RamSize - 1 /\ mem[a] = <<f, a - (ram + Offset(f))>>
    OBVIOUS
  <2>2. Whole(f)
    BY <1>1 DEF FInv, Behind, Files
  <2>3. Offset(f) \in Nat /\ m.sizes[f] \in Nat
    BY <2>1, Apart, Sizes
  <2>4. Offset(f) + m.sizes[f] <= RamSize
    BY <2>1 DEF QemuLayout, FileRange, Interval
  <2>5. a \in ram .. ram + RamSize - 1
    BY <2>1, <2>3, <2>4, LayoutAssumption
  <2>6. QED
    BY <2>2, <2>5 DEF Whole
<1>2. ASSUME FInv, pc = "guest", rpi4, m.imageSize # 0
      PROVE  /\ \A a \in m.guestDtb .. m.guestDtb + m.sizes["dtb"] - 1 :
                  a \in ram .. ram + RamSize - 1 /\ mem[a] = <<"dtb", a - m.guestDtb>>
             /\ \A a \in m.image .. m.image + m.sizes["kernel"] - 1 :
                  a \in ram .. ram + RamSize - 1 /\ mem[a] = <<"kernel", a - m.image>>
  <2>1. m \in Machines /\ ram = HostRamBase /\ Rpi4Layout
    BY <1>2, Builds DEF FInv, LInv, HasRam
  <2>2. /\ m.image \in Nat /\ m.guestDtb \in Nat /\ m.imageSize \in Nat
        /\ m.sizes["kernel"] \in Nat /\ m.sizes["dtb"] \in Nat /\ m.sizes["kernel"] <= m.imageSize
    BY <1>2, <2>1, MachineAssumption
  <2>3. mem = Over(Placed("dtb", m.guestDtb, m.sizes["dtb"]), Placed("kernel", m.image, m.sizes["kernel"]))
    BY <1>2 DEF FInv, Preloaded
  <2>4. /\ HostRamBase <= m.guestDtb /\ m.guestDtb + m.sizes["dtb"] <= HostRamBase + RamSize
        /\ HostRamBase <= m.image /\ m.image + m.imageSize <= HostRamBase + RamSize
        /\ m.image + m.imageSize <= m.guestDtb \/ m.guestDtb + m.sizes["dtb"] <= m.image
    BY <1>2, <2>1, <2>2, LayoutAssumption DEF Rpi4Layout, Within, Interval, HostRam
  <2> DEFINE d == m.sizes["dtb"]
             k == m.sizes["kernel"]
             D1 == m.guestDtb
             I1 == m.image
  <2> HIDE DEF d, k, D1, I1
  <2>5. ASSUME NEW a \in D1 .. D1 + d - 1
        PROVE  a \in ram .. ram + RamSize - 1 /\ mem[a] = <<"dtb", a - D1>>
    BY <2>1, <2>2, <2>3, <2>4, LayoutAssumption, SMTT(30) DEF Over, Placed, D1, d
  <2>6. ASSUME NEW a \in I1 .. I1 + k - 1
        PROVE  a \in ram .. ram + RamSize - 1 /\ mem[a] = <<"kernel", a - I1>>
    <3>1. a \in ram .. ram + RamSize - 1 /\ a \notin D1 .. D1 + d - 1
      BY <2>1, <2>2, <2>4, LayoutAssumption DEF D1, d, I1, k
    <3>2. QED
      BY <2>3, <3>1 DEF Over, Placed, D1, d, I1, k
  <2>7. QED
    BY <2>5, <2>6 DEF D1, I1, d, k
<1>3. ASSUME FInv PROVE ImagesIntact
  <2> SUFFICES ASSUME pc = "guest", rpi4 => m.imageSize # 0 PROVE ImagesIntact
    BY DEF ImagesIntact
  <2>m. m \in Machines
    BY <1>3 DEF FInv, LInv
  <2>1. CASE qemu
    <3>1. ~EntryMoved => mem[BootAddress] = <<"kernel", 0>>
      <4> DEFINE at == ram + Offset("kernel")
      <4>1. at \in Nat /\ m.sizes["kernel"] \in Nat \ {0}
        <5>1. QemuLayout /\ ram \in Nat
          BY <1>3, <2>1, Ends DEF FInv, LInv, HasLayout, HasRam
        <5>2. QED
          BY <2>m, <5>1, Apart, Sizes DEF Files
      <4>2. ~EntryMoved => BootAddress = at + 0
        BY <2>1 DEF EntryMoved, BootAddress
      <4>3. \A a \in at .. at + m.sizes["kernel"] - 1 : mem[a] = <<"kernel", a - at>>
        BY <1>1, <1>3, <2>1 DEF Files
      <4> HIDE DEF at
      <4>4. at \in at .. at + m.sizes["kernel"] - 1 /\ at + 0 = at /\ at - at = 0
        BY <4>1
      <4>5. QED
        BY <4>2, <4>3, <4>4
    <3>2. QED
      BY <1>1, <1>3, <2>1, <3>1 DEF ImagesIntact
  <2>2. CASE rpi4
    <3>1. ~qemu
      BY <2>2, <2>m, Builds
    <3>2. m.image \in m.image .. m.image + m.sizes["kernel"] - 1 /\ m.image - m.image = 0
      BY <2>m, Sizes, MachineAssumption DEF Files
    <3>3. mem[BootAddress] = <<"kernel", 0>>
      BY <1>2, <1>3, <2>2, <3>1, <3>2 DEF BootAddress
    <3>4. QED
      BY <1>2, <1>3, <2>2, <3>1, <3>3 DEF ImagesIntact
  <2>3. QED
    BY <1>3, <2>1, <2>2, Builds DEF FInv, LInv
<1>4. Init => FInv
  BY FInit
<1>5. FInv /\ [Next]_vars => FInv'
  BY FNext
<1>6. QED
  BY <1>3, <1>4, <1>5, PTL DEF Spec

-----------------------------------------------------------------------------
(* The search for the serial port *)

\* The words of a tree, and the definitions of Dtb about them, for a tree that does
\* not change.
At(tr, i)   == IF i \in DOMAIN tr THEN tr[i] ELSE [t |-> "past", key |-> "", str |-> {}, num |-> <<>>]
Kind(tr, i) == At(tr, i).t

OwnOf(tr, s) == {i \in s .. Len(tr) : \A j \in s .. i : Kind(tr, j) \in {"prop", "nop"}}

KeyOf(tr, s, key) == {i \in OwnOf(tr, s) : Kind(tr, i) = "prop" /\ At(tr, i).key = key}

FirstOne(S) == CHOOSE i \in S : \A j \in S : i <= j
LastOne(S)  == CHOOSE i \in S : \A j \in S : i >= j

CellOf(tr, s, key, q, c) ==
  LET a == {j \in KeyOf(tr, s, key) : j <= q} IN IF a = {} THEN c ELSE At(tr, LastOne(a)).num[1]

CellsOf(tr, s, c, q) ==
  [address |-> CellOf(tr, s, "#address-cells", q, c.address),
   size    |-> CellOf(tr, s, "#size-cells", q, c.size)]

Default == [address |-> 2, size |-> 1]

NodesOf(tr) == {i + 2 : i \in {i \in DOMAIN tr : tr[i].t = "begin"}}

LevelOf(tr, i) == T!Open(tr, i - 2)

ParentIn(tr, i) == LastOne({j \in NodesOf(tr) : j < i /\ LevelOf(tr, j) = LevelOf(tr, i) - 1})

TrueOf(tr, i) == CellsOf(tr, ParentIn(tr, i), Default, Len(tr))

GivenOf(tr, i) ==
  /\ LevelOf(tr, i) > 0
  /\ \A key \in {"#address-cells", "#size-cells"} : KeyOf(tr, ParentIn(tr, i), key) # {}

\* A property that makes a node a serial port.
Mark(tr, j) == At(tr, j).t = "prop" /\ At(tr, j).key = "compatible" /\ "arm,pl011" \in At(tr, j).str

UartsOf(tr) == {i \in NodesOf(tr) : \E j \in OwnOf(tr, i) : Mark(tr, j)}

WorksIn(tr, i) ==
  LET st == KeyOf(tr, i, "status")
      at == IF st = {} THEN 0 ELSE FirstOne(st)
  IN at = 0 \/ At(tr, at).str = {"okay"}

UsableOf(tr)   == {i \in UartsOf(tr) : WorksIn(tr, i)}
UnusableOf(tr) == UartsOf(tr) \ UsableOf(tr)

OddOf(tr) == \E i \in UartsOf(tr) : KeyOf(tr, i, "#address-cells") \cup KeyOf(tr, i, "#size-cells") # {}

\* The search
Vals(tr)   == Nat \cup {tr[i].num[1] : i \in DOMAIN tr}
CellSet(tr) == [address : Vals(tr), size : Vals(tr)]
Frame(tr)  == [start : Nat, cells : CellSet(tr)]

States == {"idle", "scan", "found", "skip", "none"}

FindSet(tr) == [state : States, p : Nat \ {0}, frames : Seq(Frame(tr)), cells : CellSet(tr), node : Frame(tr)]

\* The level of the nodes at which the search is when all frames are closed.
Base(tr, f) == T!Open(tr, f.p) - Len(f.frames)

Around(f, k) == IF k = 1 THEN f.cells ELSE f.frames[k - 1].cells

\* The frames are the open nodes from one level on, each with the cells in force.
FramesOk(tr, f) ==
  \A k \in 1 .. Len(f.frames) :
    LET s == f.frames[k].start IN
    /\ s \in NodesOf(tr) /\ s <= f.p
    /\ LevelOf(tr, s) = Base(tr, f) + k - 1
    /\ \A q \in s .. f.p : T!Open(tr, q) >= Base(tr, f) + k
    /\ f.frames[k].cells = CellsOf(tr, s, Around(f, k), f.p - 1)

\* An unusable node was passed that lies deeper than level b.
Deeper(tr, p, b) == \E u \in UnusableOf(tr) : u < p /\ b < LevelOf(tr, u)

Beside(tr, f, b, u) ==
  /\ u < f.p /\ b = LevelOf(tr, u)
  /\ \A q \in u .. f.p : T!Open(tr, q) >= b
  /\ OddOf(tr) \/ ~GivenOf(tr, u) \/ f.cells = TrueOf(tr, u)

Lost(tr, f) == f.frames = <<>> /\ Kind(tr, f.p) = "name"

\* The cells that a node without frames around it takes over.
BaseOk(tr, f) ==
  \/ Lost(tr, f)
  \/ Base(tr, f) = 0
  \/ Deeper(tr, f.p, Base(tr, f))
  \/ \E u \in UnusableOf(tr) : Beside(tr, f, Base(tr, f), u)

\* No usable node was passed.
Passed(tr, p) == \A i \in UsableOf(tr) : \A j \in OwnOf(tr, i) : Mark(tr, j) => j >= p

\* A search that has not met an unusable node sees the whole tree.
WholeOk(tr, f) ==
  \/ \E u \in UnusableOf(tr) : u < f.p
  \/ f.frames = <<>> /\ \A q \in 1 .. f.p - 1 : Kind(tr, q) = "nop"
  \/ f.frames # <<>> /\ Base(tr, f) = 0
  \/ f.frames = <<>> /\ \A q \in DOMAIN tr : q >= f.p => Kind(tr, q) # "prop"

Scanning(tr, f) ==
  /\ FramesOk(tr, f) /\ BaseOk(tr, f) /\ Passed(tr, f.p) /\ WholeOk(tr, f)
  /\ f.frames # <<>> => Kind(tr, f.p) # "name"

\* The node that was found is a serial port, with the cells of its parent unless one
\* of the exceptions applies.
NodeOk(tr, f) ==
  LET s == f.node.start IN
  /\ s \in UartsOf(tr)
  /\ s <= f.p
  /\ \A q \in s .. f.p - 1 : Kind(tr, q) \in {"prop", "nop"}
  /\ \/ OddOf(tr) \/ ~GivenOf(tr, s) \/ Deeper(tr, s, LevelOf(tr, s))
     \/ f.node.cells = TrueOf(tr, s)

FoundOk(tr, f) ==
  /\ NodeOk(tr, f) /\ Passed(tr, f.p)
  /\ f.p \in OwnOf(tr, f.node.start) /\ Mark(tr, f.p)

SkipOk(tr, f) == NodeOk(tr, f) /\ Passed(tr, f.p) /\ f.node.start \in UnusableOf(tr)

NoneOk(tr) ==
  \/ UsableOf(tr) = {}
  \/ \E i \in UnusableOf(tr) : \A j \in UsableOf(tr) : i < j

SearchOk(tr, f) ==
  /\ f \in FindSet(tr)
  /\ f.state = "scan" => Scanning(tr, f)
  /\ f.state = "found" => FoundOk(tr, f)
  /\ f.state = "skip" => SkipOk(tr, f)
  /\ f.state = "none" => NoneOk(tr)

\* While main searches, SearchOk holds; afterwards the serial port and the reason of a
\* stop are what the tree and the machine make them.
SInv ==
  /\ m \in Machines
  /\ pc = "args" => find = T!Idle
  /\ pc = "serial" => SearchOk(m.tree, find)
  /\ pc \notin {"args", "serial", "stopped"} => (rpi4 => uart.irq)
  /\ pc # "stopped" => code = "none"
  /\ SerialRight /\ SerialMissed

-----------------------------------------------------------------------------

\* Counting the words of a kind, one word further.
LEMMA CountStep ==
  ASSUME NEW S, NEW k \in Nat \ {0}
  PROVE  /\ Cardinality({j \in 1 .. k - 1 : j \in S}) \in Nat
         /\ Cardinality({j \in 1 .. k : j \in S})
              = Cardinality({j \in 1 .. k - 1 : j \in S}) + (IF k \in S THEN 1 ELSE 0)
<1> DEFINE A == {j \in 1 .. k - 1 : j \in S}
           B == {j \in 1 .. k : j \in S}
<1>1. IsFiniteSet(A)
  <2>1. IsFiniteSet(1 .. k - 1)
    BY FS_Interval
  <2>2. A \subseteq 1 .. k - 1
    OBVIOUS
  <2>3. QED
    BY <2>1, <2>2, FS_Subset
<1>2. Cardinality(A) \in Nat
  BY <1>1, FS_CardinalityType
<1>3. k \notin A
  OBVIOUS
<1>4. k \in S => B = A \cup {k}
  OBVIOUS
<1>5. k \notin S => B = A
  OBVIOUS
<1>6. Cardinality(A \cup {k}) = Cardinality(A) + 1
  BY <1>1, <1>3, FS_AddElement
<1> HIDE DEF A, B
<1>7. Cardinality(A) \in Nat /\ Cardinality(B) = Cardinality(A) + (IF k \in S THEN 1 ELSE 0)
  <2>1. CASE k \in S
    BY <1>2, <1>4, <1>6, <2>1
  <2>2. CASE k \notin S
    BY <1>2, <1>5, <2>2
  <2>3. QED
    BY <2>1, <2>2
<1>8. QED
  BY <1>7 DEF A, B

LEMMA SameCardinality == \A S : T!Cardinality(S) = Cardinality(S)
  BY Zenon DEF T!Cardinality, Cardinality

LEMMA OpenStep ==
  ASSUME NEW tr, NEW k \in Nat \ {0}
  PROVE  /\ T!Open(tr, k) \in Int
         /\ T!Open(tr, k + 1) = T!Open(tr, k) + (IF Kind(tr, k) = "begin" THEN 1
                                                 ELSE IF Kind(tr, k) = "end" THEN -1 ELSE 0)
<1> DEFINE S(t) == {j \in DOMAIN tr : tr[j].t = t}
           C(n, t) == Cardinality({j \in 1 .. n : j \in DOMAIN tr /\ tr[j].t = t})
<1>1. \A n : T!Open(tr, n) = C(n - 1, "begin") - C(n - 1, "end")
  BY SameCardinality, Zenon DEF T!Open
<1>2. ASSUME NEW t PROVE C(k - 1, t) \in Nat /\ C(k, t) = C(k - 1, t) + (IF k \in S(t) THEN 1 ELSE 0)
  <2> DEFINE X == S(t)
             A == {j \in 1 .. k - 1 : j \in X}
             B == {j \in 1 .. k : j \in X}
  <2>1. {j \in 1 .. k - 1 : j \in DOMAIN tr /\ tr[j].t = t} = A
    OBVIOUS
  <2>2. {j \in 1 .. k : j \in DOMAIN tr /\ tr[j].t = t} = B
    OBVIOUS
  <2> HIDE DEF S, X
  <2>3. Cardinality(A) \in Nat /\ Cardinality(B) = Cardinality(A) + (IF k \in X THEN 1 ELSE 0)
    BY CountStep
  <2> HIDE DEF A, B
  <2>4. QED
    BY <2>1, <2>2, <2>3 DEF X
<1>3. T!Open(tr, k) = C(k - 1, "begin") - C(k - 1, "end")
  BY <1>1
<1>4. k + 1 - 1 = k
  OBVIOUS
<1>5. T!Open(tr, k + 1) = C(k, "begin") - C(k, "end")
  BY <1>1, <1>4
<1>6. \A t \in {"begin", "end"} : k \in S(t) <=> Kind(tr, k) = t
  BY DEF Kind, At
<1> HIDE DEF S, C
<1>7. QED
  BY <1>2, <1>3, <1>5, <1>6

Words == {"begin", "name", "prop", "nop", "end", "stop"}

\* What a well-formed tree is, said of the kinds of its words.
LEMMA Forms ==
  ASSUME NEW tr, WellFormed(tr)
  PROVE  /\ Len(tr) \in Nat /\ DOMAIN tr = 1 .. Len(tr)
         /\ \A i \in Int : i \in 1 .. Len(tr) => Kind(tr, i) = tr[i].t /\ Kind(tr, i) \in Words
         /\ \A i \in Int : i \notin 1 .. Len(tr) => Kind(tr, i) = "past"
         /\ \A i \in Int : Kind(tr, i) = "begin" => Kind(tr, i + 1) = "name"
         /\ \A i \in Int : Kind(tr, i) = "name" => i > 1 /\ Kind(tr, i - 1) = "begin"
         /\ \A i \in Int : Kind(tr, i) = "prop" =>
              \E j \in 1 .. i - 1 : /\ Kind(tr, j) = "name"
                                  /\ \A k \in j + 1 .. i : Kind(tr, k) \in {"prop", "nop"}
         /\ \A i \in Int : Kind(tr, i) = "stop" => i = Len(tr)
         /\ \A i \in Int : Kind(tr, i) = "end" => T!Open(tr, i) > 0
         /\ \A i, j \in Int : Kind(tr, i) = "end" /\ T!Open(tr, i) = 1 /\ j > i => Kind(tr, j) # "prop"
<1> DEFINE n == Len(tr)
<1>1. n \in Nat /\ DOMAIN tr = 1 .. n
  BY DEF WellFormed
<1>2. \A i \in 1 .. n : tr[i].t \in Words
  <2> DEFINE W == [t : Words, key : STRING, str : SUBSET STRING, num : Seq(Nat)]
  <2>1. tr \in Seq(W)
    BY DEF WellFormed, Words
  <2> HIDE DEF W
  <2>2. \A i \in 1 .. n : tr[i] \in W
    BY <2>1
  <2>3. \A w \in W : w.t \in Words
    BY DEF W
  <2>4. QED
    BY <2>2, <2>3
<1>3. \A i \in Int : i \in 1 .. n => Kind(tr, i) = tr[i].t /\ Kind(tr, i) \in Words
  BY <1>1, <1>2 DEF Kind, At
<1>4. \A i \in Int : i \notin 1 .. n => Kind(tr, i) = "past"
  BY <1>1 DEF Kind, At
<1>5. \A i \in 1 .. n :
       /\ tr[i].t = "begin" => i < n /\ tr[i + 1].t = "name"
       /\ tr[i].t = "name" => i > 1 /\ tr[i - 1].t = "begin"
       /\ tr[i].t = "prop" =>
            \E j \in 1 .. i - 1 : /\ tr[j].t = "name"
                                /\ \A k \in j + 1 .. i : tr[k].t \in {"prop", "nop"}
       /\ tr[i].t = "stop" => i = n
       /\ tr[i].t = "end" => T!Open(tr, i) > 0
       /\ tr[i].t = "end" /\ T!Open(tr, i) = 1 => \A j \in i + 1 .. n : tr[j].t \in {"nop", "stop"}
  BY <1>1 DEF WellFormed
<1> HIDE DEF n
<1>6. \A i \in Int : Kind(tr, i) \in Words => i \in 1 .. n
  BY <1>4 DEF Words
<1>7. ASSUME NEW i \in Int, Kind(tr, i) = "begin" PROVE Kind(tr, i + 1) = "name"
  <2>1. i \in 1 .. n /\ tr[i].t = "begin"
    BY <1>3, <1>6, <1>7 DEF Words
  <2>2. i + 1 \in 1 .. n /\ tr[i + 1].t = "name"
    BY <1>1, <1>5, <2>1
  <2>3. QED
    BY <1>3, <2>2
<1>8. \A i \in Int : Kind(tr, i) = "name" => i > 1 /\ Kind(tr, i - 1) = "begin"
  BY <1>1, <1>3, <1>5, <1>6 DEF Words
<1>9. ASSUME NEW i \in Int, Kind(tr, i) = "prop"
      PROVE  \E j \in 1 .. i - 1 : /\ Kind(tr, j) = "name"
                                  /\ \A k \in j + 1 .. i : Kind(tr, k) \in {"prop", "nop"}
  <2>1. i \in 1 .. n /\ tr[i].t = "prop"
    BY <1>3, <1>6, <1>9 DEF Words
  <2>2. PICK j \in 1 .. i - 1 : tr[j].t = "name" /\ \A k \in j + 1 .. i : tr[k].t \in {"prop", "nop"}
    BY <1>5, <2>1
  <2>3. Kind(tr, j) = "name"
    BY <1>1, <1>3, <2>1, <2>2
  <2>4. \A k \in j + 1 .. i : Kind(tr, k) \in {"prop", "nop"}
    BY <1>1, <1>3, <2>1, <2>2
  <2>5. QED
    BY <2>3, <2>4
<1>10. \A i \in Int : Kind(tr, i) = "stop" => i = n
  BY <1>3, <1>5, <1>6 DEF Words
<1>11. \A i \in Int : Kind(tr, i) = "end" => T!Open(tr, i) > 0
  BY <1>3, <1>5, <1>6 DEF Words
<1>12. ASSUME NEW i \in Int, NEW j \in Int, Kind(tr, i) = "end", T!Open(tr, i) = 1, j > i
       PROVE  Kind(tr, j) # "prop"
  <2>1. i \in 1 .. n /\ tr[i].t = "end"
    BY <1>3, <1>6, <1>12 DEF Words
  <2>2. \A k \in i + 1 .. n : tr[k].t \in {"nop", "stop"}
    BY <1>5, <1>12, <2>1
  <2>3. CASE j \in 1 .. n
    BY <1>3, <1>12, <2>1, <2>2, <2>3
  <2>4. QED
    BY <1>4, <2>3
<1>13. QED
  BY <1>1, <1>3, <1>4, <1>7, <1>8, <1>9, <1>10, <1>11, <1>12 DEF n

\* The words at which a node begins.
LEMMA Heads ==
  ASSUME NEW tr, WellFormed(tr)
  PROVE  /\ \A s : s \in NodesOf(tr) <=> s \in Int /\ Kind(tr, s - 2) = "begin"
         /\ \A s \in NodesOf(tr) :
              /\ s \in Nat /\ s >= 3
              /\ Kind(tr, s - 2) = "begin" /\ Kind(tr, s - 1) = "name" /\ Kind(tr, s) # "name"
              /\ LevelOf(tr, s) \in Int /\ T!Open(tr, s) = LevelOf(tr, s) + 1
<1>1. ASSUME NEW s PROVE s \in NodesOf(tr) <=> s \in Int /\ Kind(tr, s - 2) = "begin"
  <2>1. ASSUME s \in NodesOf(tr) PROVE s \in Int /\ Kind(tr, s - 2) = "begin"
    <3>1. PICK i \in DOMAIN tr : tr[i].t = "begin" /\ s = i + 2
      BY <2>1 DEF NodesOf
    <3>2. i \in Int /\ Kind(tr, i) = "begin"
      BY <3>1, Forms DEF Kind, At
    <3>3. s \in Int /\ s - 2 = i
      BY <3>1, <3>2
    <3>4. QED
      BY <3>2, <3>3
  <2>2. ASSUME s \in Int, Kind(tr, s - 2) = "begin" PROVE s \in NodesOf(tr)
    <3>1. s - 2 \in Int /\ s - 2 \in 1 .. Len(tr)
      BY <2>2, Forms
    <3>2. s - 2 \in DOMAIN tr /\ tr[s - 2].t = "begin" /\ s = (s - 2) + 2
      BY <2>2, <3>1, Forms
    <3>3. QED
      BY <3>2 DEF NodesOf
  <2>3. QED
    BY <2>1, <2>2
<1>2. ASSUME NEW s \in NodesOf(tr)
      PROVE  /\ s \in Nat /\ s >= 3
             /\ Kind(tr, s - 2) = "begin" /\ Kind(tr, s - 1) = "name" /\ Kind(tr, s) # "name"
             /\ LevelOf(tr, s) \in Int /\ T!Open(tr, s) = LevelOf(tr, s) + 1
  <2> DEFINE b == s - 2
  <2>1. s \in Int /\ b \in Int /\ Kind(tr, b) = "begin"
    BY <1>1
  <2>2. b + 1 = s - 1 /\ b + 2 = s /\ b + 1 + 1 = s
    BY <2>1
  <2>3. b \in Nat \ {0}
    BY <2>1, Forms
  <2> HIDE DEF b
  <2>4. Kind(tr, b + 1) = "name"
    BY <2>1, Forms
  <2>5. Kind(tr, s) # "name"
    <3>1. Kind(tr, s) = "name" => Kind(tr, s - 1) = "begin"
      BY <2>1, Forms
    <3>2. QED
      BY <2>2, <2>4, <3>1
  <2>6. T!Open(tr, b) \in Int /\ T!Open(tr, b + 1) = T!Open(tr, b) + 1
    BY <2>1, <2>3, OpenStep
  <2>7. T!Open(tr, b + 1 + 1) = T!Open(tr, b + 1)
    <3>1. b + 1 \in Nat \ {0}
      BY <2>3
    <3>2. T!Open(tr, b + 1) \in Int
      BY <3>1, OpenStep
    <3>3. QED
      BY <2>4, <3>1, <3>2, OpenStep
  <2>8. LevelOf(tr, s) = T!Open(tr, b)
    BY DEF LevelOf, b
  <2>9. QED
    BY <2>1, <2>2, <2>3, <2>4, <2>5, <2>6, <2>7, <2>8 DEF b
<1>3. QED
  BY <1>1, <1>2

\* Of two nodes the second begins behind the name of the first.
LEMMA Later ==
  ASSUME NEW tr, WellFormed(tr), NEW s \in NodesOf(tr), NEW u \in NodesOf(tr), s < u
  PROVE  s <= u - 2
<1>1. s \in Nat /\ u \in Nat /\ Kind(tr, u - 2) = "begin" /\ Kind(tr, s - 1) = "name"
  BY Heads
<1>2. u - 2 # s - 1
  BY <1>1
<1>3. QED
  BY <1>1, <1>2

\* Properties and nops leave the level as it is.
LEMMA Flat ==
  ASSUME NEW tr, NEW a \in Nat \ {0}, NEW b \in Nat, a <= b,
         \A k \in a .. b - 1 : Kind(tr, k) \in {"prop", "nop"}
  PROVE  T!Open(tr, b) = T!Open(tr, a)
<1> DEFINE K == {n \in Nat : a + n <= b => T!Open(tr, a + n) = T!Open(tr, a)}
<1>1. 0 \in K
  OBVIOUS
<1>2. ASSUME NEW n \in Nat, n \in K PROVE n + 1 \in K
  <2> SUFFICES ASSUME a + (n + 1) <= b PROVE T!Open(tr, a + (n + 1)) = T!Open(tr, a)
    OBVIOUS
  <2>1. a + n \in a .. b - 1 /\ a + n \in Nat \ {0} /\ a + (n + 1) = (a + n) + 1 /\ a + n <= b
    OBVIOUS
  <2>2. T!Open(tr, a + n) = T!Open(tr, a)
    BY <1>2, <2>1
  <2>3. Kind(tr, a + n) \in {"prop", "nop"}
    BY <2>1
  <2>4. T!Open(tr, a + n) \in Int /\ T!Open(tr, (a + n) + 1) = T!Open(tr, a + n)
    <3>1. T!Open(tr, a + n) \in Int
      BY <2>1, OpenStep
    <3>2. T!Open(tr, (a + n) + 1) = T!Open(tr, a + n) + 0
      BY <2>1, <2>3, OpenStep
    <3>3. QED
      BY <3>1, <3>2
  <2>5. QED
    BY <2>1, <2>2, <2>4
<1> HIDE DEF K
<1>3. b - a \in K
  BY <1>1, <1>2, Counting
<1>4. a + (b - a) = b
  OBVIOUS
<1>5. QED
  BY <1>3, <1>4 DEF K

\* The own words of a node.
LEMMA Owns ==
  ASSUME NEW tr, WellFormed(tr), NEW s \in Nat
  PROVE  \A i : i \in OwnOf(tr, s) <=>
           /\ i \in Int /\ s <= i /\ i <= Len(tr)
           /\ \A j \in s .. i : Kind(tr, j) \in {"prop", "nop"}
<1>1. Len(tr) \in Nat
  BY Forms
<1>2. QED
  BY <1>1 DEF OwnOf

\* No node begins among the own words of another.
LEMMA Apart2 ==
  ASSUME NEW tr, WellFormed(tr), NEW s \in NodesOf(tr), NEW u \in NodesOf(tr), s < u,
         NEW j \in OwnOf(tr, s)
  PROVE  j < u - 2
<1>1. s \in Nat /\ u \in Nat /\ s <= u - 2 /\ Kind(tr, u - 2) = "begin"
  BY Heads, Later
<1>2. j \in Int /\ \A k \in s .. j : Kind(tr, k) \in {"prop", "nop"}
  BY <1>1, Owns
<1>3. u - 2 \notin s .. j
  BY <1>1, <1>2
<1>4. QED
  BY <1>1, <1>2, <1>3

\* A word belongs to one node.
LEMMA OneOwner ==
  ASSUME NEW tr, WellFormed(tr), NEW s \in NodesOf(tr), NEW u \in NodesOf(tr),
         NEW j \in OwnOf(tr, s), j \in OwnOf(tr, u)
  PROVE  s = u
<1>1. s \in Nat /\ u \in Nat /\ j \in Int /\ s <= j /\ u <= j
  BY Heads, Owns
<1>2. CASE s < u
  BY <1>1, <1>2, Apart2
<1>3. CASE u < s
  BY <1>1, <1>3, Apart2
<1>4. QED
  BY <1>1, <1>2, <1>3

\* A property at the level of a node that is open is one of its own.
LEMMA TopOwn ==
  ASSUME NEW tr, WellFormed(tr), NEW s \in NodesOf(tr), NEW p \in Nat, s <= p,
         \A q \in s .. p : T!Open(tr, q) >= T!Open(tr, p), Kind(tr, p) = "prop"
  PROVE  p \in OwnOf(tr, s)
<1>1. s \in Nat /\ s >= 3 /\ Kind(tr, s - 1) = "name"
  BY Heads
<1>2. PICK j \in 1 .. p - 1 : Kind(tr, j) = "name" /\ \A k \in j + 1 .. p : Kind(tr, k) \in {"prop", "nop"}
  BY Forms
<1>3. Kind(tr, j - 1) = "begin" /\ j > 1
  BY <1>2, Forms
<1>4. j + 1 \in NodesOf(tr)
  <2>1. j + 1 \in Int /\ (j + 1) - 2 = j - 1
    BY <1>2
  <2>2. QED
    BY <1>3, <2>1, Heads
<1>5. p <= Len(tr)
  BY Forms
<1>6. p \in OwnOf(tr, j + 1)
  <2>1. j + 1 \in Nat /\ j + 1 <= p
    BY <1>2
  <2>2. QED
    BY <1>2, <1>5, <2>1, Owns
<1>7. T!Open(tr, p) = T!Open(tr, j + 1)
  <2>1. j + 1 \in Nat \ {0} /\ j + 1 <= p
    BY <1>2
  <2>2. QED
    BY <1>2, <2>1, Flat
<1>8. T!Open(tr, j + 1) = T!Open(tr, j - 1) + 1 /\ T!Open(tr, j - 1) \in Int
  <2>1. (j + 1) - 2 = j - 1
    BY <1>2
  <2>2. QED
    BY <1>4, <2>1, Heads DEF LevelOf
<1>9. CASE s < j + 1
  <2>1. s <= j - 1
    BY <1>1, <1>2, <1>4, <1>9, Later
  <2>2. T!Open(tr, j - 1) >= T!Open(tr, p)
    BY <1>1, <1>2, <2>1
  <2>3. QED
    BY <1>7, <1>8, <2>2
<1>10. CASE j + 1 < s
  <2>1. p < s - 2
    BY <1>4, <1>6, <1>10, Apart2
  <2>2. QED
    BY <1>1, <2>1
<1>11. QED
  BY <1>1, <1>2, <1>6, <1>9, <1>10

LEMMA LastIs ==
  ASSUME NEW S, NEW x \in S, x \in Int, \A y \in S : y \in Int /\ y <= x
  PROVE  LastOne(S) = x
<1>1. LastOne(S) \in S /\ \A y \in S : LastOne(S) >= y
  BY DEF LastOne
<1> DEFINE l == LastOne(S)
<1> HIDE DEF l
<1>2. l \in Int /\ l <= x /\ l >= x
  BY <1>1 DEF l
<1>3. l = x
  BY <1>2
<1>4. QED
  BY <1>3 DEF l

\* The parent of a node is the one around it.
LEMMA ParentIs ==
  ASSUME NEW tr, WellFormed(tr), NEW s \in NodesOf(tr), NEW i \in NodesOf(tr), s < i,
         LevelOf(tr, s) = LevelOf(tr, i) - 1,
         \A q \in s .. i - 2 : T!Open(tr, q) >= LevelOf(tr, i)
  PROVE  ParentIn(tr, i) = s
<1> DEFINE S == {j \in NodesOf(tr) : j < i /\ LevelOf(tr, j) = LevelOf(tr, i) - 1}
<1>1. s \in S /\ s \in Int
  BY Heads
<1>2. ASSUME NEW j \in S PROVE j \in Int /\ j <= s
  <2>1. j \in NodesOf(tr) /\ j < i /\ LevelOf(tr, j) = LevelOf(tr, i) - 1
    OBVIOUS
  <2>2. j \in Nat /\ s \in Nat /\ i \in Nat /\ LevelOf(tr, i) \in Int
    BY <2>1, Heads
  <2>3. CASE s < j
    <3>1. s <= j - 2
      BY <2>1, <2>3, Later
    <3>2. T!Open(tr, j - 2) >= LevelOf(tr, i)
      BY <2>1, <2>2, <3>1
    <3>3. QED
      BY <2>1, <2>2, <3>2 DEF LevelOf
  <2>4. QED
    BY <2>2, <2>3
<1> HIDE DEF S
<1>3. LastOne(S) = s
  BY <1>1, <1>2, LastIs
<1>4. QED
  BY <1>3 DEF ParentIn, S

\* Nodes side by side have the same parent.
LEMMA Siblings ==
  ASSUME NEW tr, WellFormed(tr), NEW u \in NodesOf(tr), NEW i \in NodesOf(tr), u < i,
         LevelOf(tr, u) = LevelOf(tr, i),
         \A q \in u .. i - 2 : T!Open(tr, q) >= LevelOf(tr, i)
  PROVE  TrueOf(tr, u) = TrueOf(tr, i) /\ (GivenOf(tr, u) <=> GivenOf(tr, i))
<1> DEFINE S == {j \in NodesOf(tr) : j < i /\ LevelOf(tr, j) = LevelOf(tr, i) - 1}
           R == {j \in NodesOf(tr) : j < u /\ LevelOf(tr, j) = LevelOf(tr, u) - 1}
<1>1. u \in Nat /\ i \in Nat /\ LevelOf(tr, i) \in Int
  BY Heads
<1>2. ASSUME NEW j \in S PROVE j \in R
  <2>1. j \in NodesOf(tr) /\ j \in Nat
    BY Heads
  <2>2. CASE u < j
    <3>1. u <= j - 2
      BY <2>1, <2>2, Later
    <3>2. T!Open(tr, j - 2) >= LevelOf(tr, i)
      BY <1>1, <2>1, <3>1
    <3>3. QED
      BY <1>1, <2>1, <3>2 DEF LevelOf
  <2>3. j # u
    BY <1>1
  <2>4. QED
    BY <1>1, <2>1, <2>2, <2>3
<1>3. ASSUME NEW j \in R PROVE j \in S
  <2>1. j \in NodesOf(tr) /\ j \in Nat
    BY Heads
  <2>2. QED
    BY <1>1, <2>1
<1>4. S = R
  BY <1>2, <1>3
<1>5. ParentIn(tr, i) = LastOne(S) /\ ParentIn(tr, u) = LastOne(R)
  BY DEF ParentIn
<1> HIDE DEF S, R
<1>6. ParentIn(tr, i) = ParentIn(tr, u)
  BY <1>4, <1>5
<1>7. QED
  BY <1>6 DEF TrueOf, GivenOf

\* The cells in force: those of the node around it at the start of a node, and the
\* same until a property gives others.
LEMMA KeysAre ==
  ASSUME NEW tr, WellFormed(tr), NEW s \in Nat, NEW key
  PROVE  \A j \in KeyOf(tr, s, key) :
           /\ j \in OwnOf(tr, s) /\ j \in Int /\ s <= j /\ j <= Len(tr)
           /\ Kind(tr, j) = "prop" /\ At(tr, j).key = key
  BY Owns DEF KeyOf

LEMMA CellKept ==
  ASSUME NEW tr, WellFormed(tr), NEW s \in Nat, NEW key, NEW c, NEW p \in Int, p \notin KeyOf(tr, s, key)
  PROVE  CellOf(tr, s, key, p, c) = CellOf(tr, s, key, p - 1, c)
<1>1. \A j \in KeyOf(tr, s, key) : j \in Int
  BY KeysAre
<1>2. {j \in KeyOf(tr, s, key) : j <= p} = {j \in KeyOf(tr, s, key) : j <= p - 1}
  BY <1>1
<1>3. QED
  BY <1>2 DEF CellOf

LEMMA CellSets ==
  ASSUME NEW tr, WellFormed(tr), NEW s \in Nat, NEW key, NEW c, NEW p \in KeyOf(tr, s, key)
  PROVE  CellOf(tr, s, key, p, c) = At(tr, p).num[1]
<1> DEFINE S == {j \in KeyOf(tr, s, key) : j <= p}
<1>1. p \in Int /\ \A j \in S : j \in Int /\ j <= p
  BY KeysAre
<1>2. p \in S
  BY <1>1
<1>3. LastOne(S) = p
  <2> HIDE DEF S
  <2>1. QED
    BY <1>1, <1>2, LastIs
<1>4. S # {}
  BY <1>2
<1>5. CellOf(tr, s, key, p, c) = IF S = {} THEN c ELSE At(tr, LastOne(S)).num[1]
  BY DEF CellOf
<1> HIDE DEF S
<1>6. QED
  BY <1>3, <1>4, <1>5

LEMMA CellNone ==
  ASSUME NEW tr, WellFormed(tr), NEW s \in Nat, NEW key, NEW c, NEW p \in Int,
         \A j \in KeyOf(tr, s, key) : p < j
  PROVE  CellOf(tr, s, key, p, c) = c
<1>1. \A j \in KeyOf(tr, s, key) : j \in Int
  BY KeysAre
<1>2. {j \in KeyOf(tr, s, key) : j <= p} = {}
  BY <1>1
<1>3. QED
  BY <1>2 DEF CellOf

LEMMA CellsNone ==
  ASSUME NEW tr, WellFormed(tr), NEW s \in Nat, NEW c \in CellSet(tr), NEW p \in Int,
         \A j \in KeyOf(tr, s, "#address-cells") : p < j,
         \A j \in KeyOf(tr, s, "#size-cells") : p < j
  PROVE  CellsOf(tr, s, c, p) = c
<1>1. CellsOf(tr, s, c, p) = [address |-> c.address, size |-> c.size]
  BY CellNone DEF CellsOf
<1>2. QED
  BY <1>1 DEF CellSet

LEMMA CellsFresh ==
  ASSUME NEW tr, WellFormed(tr), NEW s \in Nat, NEW c \in CellSet(tr)
  PROVE  CellsOf(tr, s, c, s - 1) = c
<1>1. \A key : \A j \in KeyOf(tr, s, key) : s - 1 < j
  BY KeysAre
<1>2. s - 1 \in Int
  OBVIOUS
<1>3. QED
  BY <1>1, <1>2, CellsNone

LEMMA CellsKept ==
  ASSUME NEW tr, WellFormed(tr), NEW s \in Nat, NEW c, NEW p \in Int,
         p \notin KeyOf(tr, s, "#address-cells"), p \notin KeyOf(tr, s, "#size-cells")
  PROVE  CellsOf(tr, s, c, p) = CellsOf(tr, s, c, p - 1)
  BY CellKept DEF CellsOf

\* Behind its own words the cells of a node that gives both are its own.
LEMMA CellsAll ==
  ASSUME NEW tr, WellFormed(tr), NEW s \in Nat, NEW c, NEW d, NEW p \in Int,
         \A j \in OwnOf(tr, s) : j <= p,
         KeyOf(tr, s, "#address-cells") # {}, KeyOf(tr, s, "#size-cells") # {}
  PROVE  CellsOf(tr, s, c, p) = CellsOf(tr, s, d, Len(tr))
<1>1. ASSUME NEW key, KeyOf(tr, s, key) # {}, NEW x, NEW y
      PROVE  CellOf(tr, s, key, p, x) = CellOf(tr, s, key, Len(tr), y)
  <2>1. {j \in KeyOf(tr, s, key) : j <= p} = KeyOf(tr, s, key)
    BY KeysAre
  <2>2. {j \in KeyOf(tr, s, key) : j <= Len(tr)} = KeyOf(tr, s, key)
    BY KeysAre
  <2>3. QED
    BY <1>1, <2>1, <2>2 DEF CellOf
<1>2. QED
  BY <1>1 DEF CellsOf

-----------------------------------------------------------------------------
(* One word further *)

\* What a search has.
LEMMA FindType ==
  ASSUME NEW tr, NEW f \in FindSet(tr)
  PROVE  /\ f.p \in Nat \ {0} /\ f.frames \in Seq(Frame(tr)) /\ Len(f.frames) \in Nat
         /\ DOMAIN f.frames = 1 .. Len(f.frames)
         /\ f.cells \in CellSet(tr)
         /\ \A k \in 1 .. Len(f.frames) : f.frames[k] \in Frame(tr) /\ f.frames[k].start \in Nat
                                            /\ f.frames[k].cells \in CellSet(tr)
         /\ f.node \in Frame(tr) /\ f.node.start \in Nat /\ f.node.cells \in CellSet(tr)
         /\ f.frames = <<>> <=> Len(f.frames) = 0
         /\ T!Open(tr, f.p) \in Int /\ Base(tr, f) \in Int
<1>1. f.p \in Nat \ {0} /\ f.frames \in Seq(Frame(tr)) /\ f.cells \in CellSet(tr) /\ f.node \in Frame(tr)
  BY DEF FindSet
<1>2. Len(f.frames) \in Nat /\ DOMAIN f.frames = 1 .. Len(f.frames) /\ (f.frames = <<>> <=> Len(f.frames) = 0)
  BY <1>1
<1>3. \A k \in 1 .. Len(f.frames) : f.frames[k] \in Frame(tr)
  BY <1>1
<1>4. \A x \in Frame(tr) : x.start \in Nat /\ x.cells \in CellSet(tr)
  BY DEF Frame
<1>5. T!Open(tr, f.p) \in Int
  BY <1>1, OpenStep
<1>6. Base(tr, f) \in Int
  BY <1>2, <1>5 DEF Base
<1>7. QED
  BY <1>1, <1>2, <1>3, <1>4, <1>5, <1>6

LEMMA PassedOne ==
  ASSUME NEW tr, WellFormed(tr), NEW p \in Nat, Passed(tr, p), ~Mark(tr, p)
  PROVE  Passed(tr, p + 1)
<1> SUFFICES ASSUME NEW i \in UsableOf(tr), NEW j \in OwnOf(tr, i), Mark(tr, j) PROVE j >= p + 1
  BY DEF Passed
<1>1. i \in NodesOf(tr)
  BY DEF UsableOf, UartsOf
<1>2. j \in Int
  BY <1>1, Heads, Owns
<1>3. j >= p /\ j # p
  BY DEF Passed
<1>4. QED
  BY <1>2, <1>3

\* The node that is open last, and the others: each ends its own words in front of the
\* next.
LEMMA Inner ==
  ASSUME NEW tr, WellFormed(tr), NEW f \in FindSet(tr), FramesOk(tr, f)
  PROVE  /\ \A k \in 1 .. Len(f.frames) :
              /\ f.frames[k].start \in NodesOf(tr) /\ f.frames[k].start <= f.p
              /\ LevelOf(tr, f.frames[k].start) = Base(tr, f) + k - 1
              /\ \A q \in f.frames[k].start .. f.p : T!Open(tr, q) >= Base(tr, f) + k
         /\ \A k, l \in 1 .. Len(f.frames) : k < l => f.frames[k].start < f.frames[l].start
         /\ \A k \in 1 .. Len(f.frames) : k < Len(f.frames) =>
              \A j \in OwnOf(tr, f.frames[k].start) : j < f.p
<1> USE FindType
<1>1. ASSUME NEW k \in 1 .. Len(f.frames)
      PROVE  /\ f.frames[k].start \in NodesOf(tr) /\ f.frames[k].start <= f.p
             /\ LevelOf(tr, f.frames[k].start) = Base(tr, f) + k - 1
             /\ \A q \in f.frames[k].start .. f.p : T!Open(tr, q) >= Base(tr, f) + k
  BY DEF FramesOk
<1>2. ASSUME NEW k \in 1 .. Len(f.frames), NEW l \in 1 .. Len(f.frames), k < l
      PROVE  f.frames[k].start < f.frames[l].start
  <2> DEFINE s == f.frames[k].start
             u == f.frames[l].start
             b == Base(tr, f)
  <2>1. /\ s \in NodesOf(tr) /\ u \in NodesOf(tr) /\ s \in Nat /\ u \in Nat /\ b \in Int /\ s <= f.p
        /\ LevelOf(tr, s) = b + k - 1 /\ LevelOf(tr, u) = b + l - 1
        /\ \A q \in u .. f.p : T!Open(tr, q) >= b + l
    BY <1>1
  <2> HIDE DEF s, u, b
  <2>2. ASSUME u < s PROVE FALSE
    <3>1. u <= s - 2 /\ s - 2 <= f.p /\ s - 2 \in Int
      BY <2>1, <2>2, Later
    <3>2. T!Open(tr, s - 2) >= b + l
      BY <2>1, <3>1
    <3>3. QED
      BY <1>2, <2>1, <3>2 DEF LevelOf
  <2>3. s # u
    BY <1>2, <2>1
  <2>4. s < u
    BY <2>1, <2>2, <2>3
  <2>5. QED
    BY <2>4 DEF s, u
<1>3. ASSUME NEW k \in 1 .. Len(f.frames), k < Len(f.frames), NEW j \in OwnOf(tr, f.frames[k].start)
      PROVE  j < f.p
  <2> DEFINE s == f.frames[k].start
             u == f.frames[k + 1].start
  <2>1. k + 1 \in 1 .. Len(f.frames) /\ k < k + 1
    BY <1>3
  <2>2. s \in NodesOf(tr) /\ u \in NodesOf(tr) /\ s < u /\ u <= f.p /\ u \in Nat
    BY <1>1, <1>2, <2>1
  <2>3. j < u - 2
    BY <2>2, Apart2
  <2>4. j \in Int
    BY <2>2, Heads, Owns
  <2>5. QED
    BY <2>2, <2>3, <2>4
<1>4. QED
  BY <1>1, <1>2, <1>3

LEMMA BaseStays ==
  ASSUME NEW tr, WellFormed(tr), NEW f \in FindSet(tr), NEW g \in FindSet(tr),
         BaseOk(tr, f), ~Lost(tr, f), f.p <= g.p, g.cells = f.cells, Base(tr, g) = Base(tr, f),
         \A q \in f.p + 1 .. g.p : T!Open(tr, q) >= Base(tr, f)
  PROVE  BaseOk(tr, g)
<1>1. f.p \in Nat /\ g.p \in Nat
  BY FindType
<1>2. ASSUME NEW u \in UnusableOf(tr) PROVE u \in Nat
  BY Heads DEF UnusableOf, UartsOf
<1>3. CASE Base(tr, f) = 0
  BY <1>3 DEF BaseOk
<1>4. CASE Deeper(tr, f.p, Base(tr, f))
  <2>1. PICK u \in UnusableOf(tr) : u < f.p /\ Base(tr, f) < LevelOf(tr, u)
    BY <1>4 DEF Deeper
  <2>2. u < g.p
    BY <1>1, <1>2, <2>1
  <2>3. Deeper(tr, g.p, Base(tr, g))
    BY <2>1, <2>2 DEF Deeper
  <2>4. QED
    BY <2>3 DEF BaseOk
<1>5. ASSUME NEW u \in UnusableOf(tr), Beside(tr, f, Base(tr, f), u) PROVE Beside(tr, g, Base(tr, g), u)
  <2>1. u \in Nat /\ u < f.p
    BY <1>2, <1>5 DEF Beside
  <2>2. ASSUME NEW q \in u .. g.p PROVE T!Open(tr, q) >= Base(tr, f)
    <3>1. CASE q <= f.p
      BY <1>1, <1>5, <2>1, <3>1 DEF Beside
    <3>2. CASE q > f.p
      BY <1>1, <2>1, <3>2
    <3>3. QED
      BY <1>1, <2>1, <3>1, <3>2
  <2>3. QED
    BY <1>1, <1>5, <2>1, <2>2 DEF Beside
<1>6. QED
  BY <1>3, <1>4, <1>5 DEF BaseOk

\* A nop, or a property that does not make the node a serial port.
LEMMA Advance ==
  ASSUME NEW tr, WellFormed(tr), NEW f \in FindSet(tr), NEW g \in FindSet(tr), Scanning(tr, f),
         Kind(tr, f.p) \in {"nop", "prop"}, ~Mark(tr, f.p), Kind(tr, f.p) = "prop" => f.frames # <<>>,
         g.p = f.p + 1, g.cells = f.cells, Len(g.frames) = Len(f.frames),
         \A k \in 1 .. Len(f.frames) :
           /\ g.frames[k].start = f.frames[k].start
           /\ g.frames[k].cells = CellsOf(tr, f.frames[k].start, Around(g, k), f.p)
  PROVE  Scanning(tr, g)
<1> DEFINE p == f.p
<1>1. p \in Nat \ {0} /\ Len(f.frames) \in Nat /\ Base(tr, f) \in Int /\ T!Open(tr, p) \in Int
  BY FindType
<1>2. T!Open(tr, p + 1) = T!Open(tr, p)
  <2>1. T!Open(tr, p + 1) = T!Open(tr, p) + 0
    BY <1>1, OpenStep
  <2>2. QED
    BY <1>1, <2>1
<1>3. Base(tr, g) = Base(tr, f)
  BY <1>2 DEF Base
<1>4. Kind(tr, p + 1) # "name"
  <2>1. (p + 1) - 1 = p /\ p + 1 \in Int
    BY <1>1
  <2>2. QED
    BY <2>1, Forms
<1>5. FramesOk(tr, g)
  <2> SUFFICES ASSUME NEW k \in 1 .. Len(f.frames)
               PROVE  LET s == g.frames[k].start IN
                        /\ s \in NodesOf(tr) /\ s <= g.p
                        /\ LevelOf(tr, s) = Base(tr, g) + k - 1
                        /\ \A q \in s .. g.p : T!Open(tr, q) >= Base(tr, g) + k
                        /\ g.frames[k].cells = CellsOf(tr, s, Around(g, k), g.p - 1)
    BY DEF FramesOk
  <2> DEFINE s == f.frames[k].start
  <2>1. /\ s \in NodesOf(tr) /\ s <= p /\ LevelOf(tr, s) = Base(tr, f) + k - 1 /\ s \in Nat
        /\ \A q \in s .. p : T!Open(tr, q) >= Base(tr, f) + k
    BY Inner, FindType DEF Scanning
  <2>2. ASSUME NEW q \in s .. p + 1 PROVE T!Open(tr, q) >= Base(tr, f) + k
    <3>1. CASE q = p + 1
      BY <1>1, <1>2, <2>1, <3>1
    <3>2. CASE q \in s .. p
      BY <2>1, <3>2
    <3>3. QED
      BY <1>1, <2>1, <3>1, <3>2
  <2>3. g.p = p + 1 /\ g.p - 1 = p /\ s <= g.p
    BY <1>1, <2>1
  <2>4. g.frames[k].start = s /\ g.frames[k].cells = CellsOf(tr, s, Around(g, k), p)
    OBVIOUS
  <2> HIDE DEF s, p
  <2>5. QED
    BY <1>3, <2>1, <2>2, <2>3, <2>4
<1>6. BaseOk(tr, g)
  <2>1. ~Lost(tr, f)
    BY DEF Lost
  <2>2. ASSUME NEW q \in p + 1 .. p + 1 PROVE T!Open(tr, q) >= Base(tr, f)
    <3>1. q = p + 1
      BY <1>1
    <3>2. T!Open(tr, p) >= Base(tr, f)
      BY <1>1 DEF Base
    <3>3. QED
      BY <1>2, <3>1, <3>2
  <2>3. p <= g.p
    BY <1>1
  <2>4. QED
    BY <1>3, <2>1, <2>2, <2>3, BaseStays DEF Scanning
<1>7. Passed(tr, g.p)
  BY <1>1, PassedOne DEF Scanning
<1>8. f.frames = <<>> <=> g.frames = <<>>
  BY FindType
<1>9. WholeOk(tr, g)
  <2>1. CASE \E u \in UnusableOf(tr) : u < f.p
    <3>1. PICK u \in UnusableOf(tr) : u < f.p
      BY <2>1
    <3>2. u \in Nat
      BY Heads DEF UnusableOf, UartsOf
    <3>3. u < g.p
      BY <1>1, <3>1, <3>2
    <3>4. QED
      BY <3>3 DEF WholeOk
  <2>2. CASE f.frames = <<>> /\ \A q \in 1 .. f.p - 1 : Kind(tr, q) = "nop"
    <3>1. Kind(tr, p) = "nop"
      BY <2>2
    <3>2. \A q \in 1 .. g.p - 1 : Kind(tr, q) = "nop"
      BY <1>1, <2>2, <3>1
    <3>3. QED
      BY <1>8, <2>2, <3>2 DEF WholeOk
  <2>3. CASE f.frames # <<>> /\ Base(tr, f) = 0
    BY <1>3, <1>8, <2>3 DEF WholeOk
  <2>4. CASE f.frames = <<>> /\ \A q \in DOMAIN tr : q >= f.p => Kind(tr, q) # "prop"
    <3>1. \A q \in DOMAIN tr : q >= g.p => Kind(tr, q) # "prop"
      BY <1>1, <2>4, Forms
    <3>2. QED
      BY <1>8, <2>4, <3>1 DEF WholeOk
  <2>5. QED
    BY <2>1, <2>2, <2>3, <2>4 DEF Scanning, WholeOk
<1>10. QED
  BY <1>4, <1>5, <1>6, <1>7, <1>9 DEF Scanning

LEMMA NotKey ==
  ASSUME NEW tr, WellFormed(tr), NEW p \in Int, Kind(tr, p) # "prop"
  PROVE  ~Mark(tr, p) /\ \A s \in Nat : \A key : p \notin KeyOf(tr, s, key)
<1>1. ~Mark(tr, p)
  BY DEF Mark, Kind
<1>2. ASSUME NEW s \in Nat, NEW key, p \in KeyOf(tr, s, key) PROVE FALSE
  BY <1>2, KeysAre
<1>3. QED
  BY <1>1, <1>2

\* A node is entered.
LEMMA Opens ==
  ASSUME NEW tr, WellFormed(tr), NEW f \in FindSet(tr), NEW g \in FindSet(tr), Scanning(tr, f),
         Kind(tr, f.p) = "begin", g.p = f.p + 2, g.cells = f.cells,
         Len(g.frames) = Len(f.frames) + 1,
         \A k \in 1 .. Len(f.frames) : g.frames[k] = f.frames[k],
         g.frames[Len(f.frames) + 1]
           = [start |-> f.p + 2,
              cells |-> IF Len(f.frames) = 0 THEN f.cells ELSE f.frames[Len(f.frames)].cells]
  PROVE  Scanning(tr, g)
<1> DEFINE p == f.p
           n == Len(f.frames)
           b == Base(tr, f)
<1>1. p \in Nat \ {0} /\ n \in Nat /\ b \in Int /\ T!Open(tr, p) \in Int /\ b = T!Open(tr, p) - n
  BY FindType DEF Base
<1>a. /\ Kind(tr, p) = "begin" /\ g.p = p + 2 /\ Len(g.frames) = n + 1
      /\ \A k \in 1 .. n : g.frames[k] = f.frames[k]
      /\ g.frames[n + 1].start = p + 2
      /\ g.frames[n + 1].cells = IF n = 0 THEN f.cells ELSE f.frames[n].cells
  OBVIOUS
<1>b. \A k \in 1 .. n :
        /\ f.frames[k].start \in NodesOf(tr) /\ f.frames[k].start \in Nat /\ f.frames[k].start <= p
        /\ LevelOf(tr, f.frames[k].start) = b + k - 1
        /\ \A q \in f.frames[k].start .. p : T!Open(tr, q) >= b + k
        /\ f.frames[k].cells = CellsOf(tr, f.frames[k].start, Around(f, k), p - 1)
  BY Inner, FindType DEF Scanning, FramesOk
<1>c. Passed(tr, p) /\ BaseOk(tr, f) /\ f.p = p /\ Base(tr, f) = b
  BY DEF Scanning
<1> HIDE DEF p, n, b
<1>d. g.p = p + 2 /\ Len(g.frames) = n + 1
  BY <1>a
<1>e. g.p \in Nat /\ g.p - 1 = p + 1 /\ p + 2 - 1 = p + 1
  BY <1>1, <1>d
<1>2. p + 2 \in NodesOf(tr)
  <2>1. p + 2 \in Int /\ (p + 2) - 2 = p
    BY <1>1
  <2>2. QED
    BY <1>a, <2>1, Heads
<1>3. Kind(tr, p + 1) = "name"
  BY <1>1, <1>a, Forms
<1>4. T!Open(tr, p + 1) = T!Open(tr, p) + 1
  BY <1>1, <1>a, OpenStep
<1>5. LevelOf(tr, p + 2) = T!Open(tr, p) /\ T!Open(tr, p + 2) = T!Open(tr, p) + 1
  <2>1. (p + 2) - 2 = p
    BY <1>1
  <2>2. LevelOf(tr, p + 2) = T!Open(tr, p)
    BY <2>1 DEF LevelOf
  <2>3. QED
    BY <1>2, <2>2, Heads
<1>6. Base(tr, g) = b
  BY <1>1, <1>5, <1>a DEF Base
<1>7. Kind(tr, p + 2) # "name"
  BY <1>2, Heads
<1>8. FramesOk(tr, g)
  <2>1. ASSUME NEW k \in 1 .. n
        PROVE  LET s == g.frames[k].start IN
                 /\ s \in NodesOf(tr) /\ s <= g.p
                 /\ LevelOf(tr, s) = Base(tr, g) + k - 1
                 /\ \A q \in s .. g.p : T!Open(tr, q) >= Base(tr, g) + k
                 /\ g.frames[k].cells = CellsOf(tr, s, Around(g, k), g.p - 1)
    <3> DEFINE s == f.frames[k].start
               c == Around(f, k)
    <3>1. /\ s \in NodesOf(tr) /\ s <= p /\ LevelOf(tr, s) = b + k - 1 /\ s \in Nat
          /\ \A q \in s .. p : T!Open(tr, q) >= b + k
      BY <1>b
    <3>2. ASSUME NEW q \in s .. p + 2 PROVE T!Open(tr, q) >= b + k
      <4>1. T!Open(tr, p) >= b + k
        BY <1>1, <3>1
      <4>2. CASE q \in {p + 1, p + 2}
        BY <1>1, <1>4, <1>5, <4>1, <4>2
      <4>3. CASE q \in s .. p
        BY <3>1, <4>3
      <4>4. QED
        BY <1>1, <3>1, <4>2, <4>3
    <3>3. f.frames[k].cells = CellsOf(tr, s, c, p - 1)
      BY <1>b
    <3>4. Around(g, k) = c
      <4>1. k # 1 => k - 1 \in 1 .. n
        BY <1>1
      <4>2. QED
        BY <1>a, <4>1 DEF Around
    <3>s. g.frames[k].start = s /\ g.frames[k].cells = f.frames[k].cells
      BY <1>a
    <3> HIDE DEF c, s
    <3>5. CellsOf(tr, s, c, p + 1) = CellsOf(tr, s, c, p)
      <4>1. p + 1 \in Int /\ (p + 1) - 1 = p
        BY <1>1
      <4>2. QED
        <5>1. \A key : p + 1 \notin KeyOf(tr, s, key)
          BY <1>3, <3>1, <4>1, NotKey
        <5>2. QED
          BY <3>1, <4>1, <5>1, CellsKept
    <3>6. CellsOf(tr, s, c, p) = CellsOf(tr, s, c, p - 1)
      <4>1. p \in Int /\ Kind(tr, p) # "prop"
        BY <1>1, <1>a
      <4>2. QED
        BY <3>1, <4>1, NotKey, CellsKept
    <3>7. s <= g.p
      <4>1. s \in Nat /\ s <= p
        BY <3>1
      <4>2. s <= p + 2
        BY <1>1, <4>1
      <4>3. QED
        BY <1>d, <4>2
    <3>8. QED
      BY <1>6, <1>d, <1>e, <3>1, <3>2, <3>3, <3>4, <3>5, <3>6, <3>7, <3>s
  <2>2. LET s == g.frames[n + 1].start IN
          /\ s \in NodesOf(tr) /\ s <= g.p
          /\ LevelOf(tr, s) = Base(tr, g) + (n + 1) - 1
          /\ \A q \in s .. g.p : T!Open(tr, q) >= Base(tr, g) + (n + 1)
          /\ g.frames[n + 1].cells = CellsOf(tr, s, Around(g, n + 1), g.p - 1)
    <3> DEFINE c == IF n = 0 THEN f.cells ELSE f.frames[n].cells
    <3>1. c \in CellSet(tr)
      <4>1. CASE n = 0
        BY <4>1, FindType
      <4>2. CASE n # 0
        <5>1. n \in 1 .. Len(f.frames)
          BY <1>1, <4>2 DEF n
        <5>2. QED
          BY <4>2, <5>1, FindType
      <4>3. QED
        BY <4>1, <4>2
    <3>2. Around(g, n + 1) = c
      <4>1. CASE n = 0
        BY <4>1 DEF Around
      <4>2. CASE n # 0
        <5>1. n + 1 # 1 /\ (n + 1) - 1 = n /\ n \in 1 .. n
          BY <1>1, <4>2
        <5>2. QED
          BY <1>a, <4>2, <5>1 DEF Around
      <4>3. QED
        BY <4>1, <4>2
    <3>3. g.frames[n + 1].start = p + 2 /\ g.frames[n + 1].cells = c
      BY <1>a
    <3> HIDE DEF c
    <3>4. CellsOf(tr, p + 2, c, p + 1) = c
      <4> DEFINE z == p + 2
      <4>1. z \in Nat /\ z - 1 = p + 1
        BY <1>1
      <4> HIDE DEF z
      <4>2. CellsOf(tr, z, c, z - 1) = c
        BY <3>1, <4>1, CellsFresh
      <4>3. QED
        BY <4>1, <4>2 DEF z
    <3>5. \A q \in p + 2 .. p + 2 : q = p + 2
      BY <1>1
    <3>6. T!Open(tr, p) = b + (n + 1) - 1 /\ T!Open(tr, p) + 1 >= b + (n + 1) /\ p + 2 <= p + 2
      BY <1>1
    <3>7. QED
      BY <1>2, <1>5, <1>6, <1>d, <1>e, <3>2, <3>3, <3>4, <3>5, <3>6
  <2>3. \A k \in 1 .. n + 1 : k \in 1 .. n \/ k = n + 1
    BY <1>1
  <2>4. QED
    BY <1>a, <2>1, <2>2, <2>3 DEF FramesOk
<1>9. BaseOk(tr, g)
  <2>1. ~Lost(tr, f)
    BY <1>a, <1>c DEF Lost
  <2>2. ASSUME NEW q \in p + 1 .. p + 2 PROVE T!Open(tr, q) >= b
    <3>1. q \in {p + 1, p + 2}
      BY <1>1
    <3>2. QED
      BY <1>1, <1>4, <1>5, <3>1
  <2>3. p <= g.p
    BY <1>1, <1>a
  <2>4. QED
    BY <1>6, <1>a, <1>c, <2>1, <2>2, <2>3, BaseStays
<1>10. Passed(tr, g.p)
  <2>1. ~Mark(tr, p) /\ ~Mark(tr, p + 1)
    BY <1>1, <1>3, <1>a, NotKey
  <2>2. Passed(tr, p + 1)
    BY <1>1, <1>c, <2>1, PassedOne
  <2>3. p + 1 \in Nat /\ (p + 1) + 1 = g.p
    BY <1>1, <1>a
  <2>4. QED
    BY <2>1, <2>2, <2>3, PassedOne
<1>11. WholeOk(tr, g)
  <2>1. g.frames # <<>>
    BY <1>1, <1>a, FindType
  <2>2. CASE b = 0
    BY <1>6, <2>1, <2>2 DEF WholeOk
  <2>3. CASE \E u \in UnusableOf(tr) : u < p
    <3>1. PICK u \in UnusableOf(tr) : u < p
      BY <2>3
    <3>2. u \in Nat
      BY Heads DEF UnusableOf, UartsOf
    <3>3. u < g.p
      BY <1>1, <1>a, <3>1, <3>2
    <3>4. QED
      BY <3>3 DEF WholeOk
  <2>4. QED
    BY <1>a, <1>c, <2>2, <2>3 DEF BaseOk, Lost, Deeper, Beside
<1>12. QED
  BY <1>7, <1>8, <1>9, <1>10, <1>11, <1>a DEF Scanning

\* A node is left, and the one around it is searched on.
LEMMA Closes ==
  ASSUME NEW tr, WellFormed(tr), NEW f \in FindSet(tr), NEW g \in FindSet(tr), Scanning(tr, f),
         Kind(tr, f.p) = "end", Len(f.frames) > 1, g.p = f.p + 1, g.cells = f.cells,
         Len(g.frames) = Len(f.frames) - 1,
         \A k \in 1 .. Len(f.frames) - 1 : g.frames[k] = f.frames[k]
  PROVE  Scanning(tr, g)
<1> DEFINE p == f.p
           n == Len(f.frames)
           b == Base(tr, f)
<1>1. p \in Nat \ {0} /\ n \in Nat /\ n > 1 /\ b \in Int /\ T!Open(tr, p) \in Int /\ b = T!Open(tr, p) - n
  BY FindType DEF Base
<1>2. Kind(tr, p) = "end" /\ \A k \in 1 .. n - 1 : g.frames[k] = f.frames[k]
  OBVIOUS
<1>3. \A k \in 1 .. n :
        /\ f.frames[k].start \in NodesOf(tr) /\ f.frames[k].start \in Nat /\ f.frames[k].start <= p
        /\ LevelOf(tr, f.frames[k].start) = b + k - 1
        /\ \A q \in f.frames[k].start .. p : T!Open(tr, q) >= b + k
        /\ f.frames[k].cells = CellsOf(tr, f.frames[k].start, Around(f, k), p - 1)
  BY Inner, FindType DEF Scanning, FramesOk
<1>4. Passed(tr, p) /\ BaseOk(tr, f) /\ WholeOk(tr, f) /\ f.p = p /\ Base(tr, f) = b
  BY DEF Scanning
<1>5. g.p = p + 1 /\ Len(g.frames) = n - 1
  OBVIOUS
<1>6. f.frames # <<>> /\ g.frames # <<>>
  BY FindType
<1> HIDE DEF p, n, b
<1>7. T!Open(tr, p + 1) = T!Open(tr, p) - 1
  <2>1. T!Open(tr, p + 1) = T!Open(tr, p) + (-1)
    BY <1>1, <1>2, OpenStep
  <2>2. QED
    BY <1>1, <2>1
<1>8. Base(tr, g) = b
  BY <1>1, <1>5, <1>7 DEF Base
<1>9. Kind(tr, p + 1) # "name"
  <2>1. (p + 1) - 1 = p /\ p + 1 \in Int
    BY <1>1
  <2>2. QED
    BY <1>2, <2>1, Forms
<1>10. FramesOk(tr, g)
  <2> SUFFICES ASSUME NEW k \in 1 .. n - 1
               PROVE  LET s == g.frames[k].start IN
                        /\ s \in NodesOf(tr) /\ s <= g.p
                        /\ LevelOf(tr, s) = Base(tr, g) + k - 1
                        /\ \A q \in s .. g.p : T!Open(tr, q) >= Base(tr, g) + k
                        /\ g.frames[k].cells = CellsOf(tr, s, Around(g, k), g.p - 1)
    BY <1>5 DEF FramesOk
  <2> DEFINE s == f.frames[k].start
             c == Around(f, k)
  <2>1. k \in 1 .. n /\ k <= n - 1 /\ k \in Nat
    BY <1>1
  <2>2. /\ s \in NodesOf(tr) /\ s <= p /\ LevelOf(tr, s) = b + k - 1 /\ s \in Nat
        /\ \A q \in s .. p : T!Open(tr, q) >= b + k
        /\ f.frames[k].cells = CellsOf(tr, s, c, p - 1)
    BY <1>3, <2>1
  <2>3. Around(g, k) = c
    <3>1. k # 1 => k - 1 \in 1 .. n - 1
      BY <1>1, <2>1
    <3>2. QED
      BY <1>2, <3>1 DEF Around
  <2>4. g.frames[k].start = s /\ g.frames[k].cells = f.frames[k].cells
    BY <1>2
  <2> HIDE DEF c, s
  <2>5. ASSUME NEW q \in s .. p + 1 PROVE T!Open(tr, q) >= b + k
    <3>1. CASE q = p + 1
      BY <1>1, <1>7, <2>1, <3>1
    <3>2. CASE q \in s .. p
      BY <2>2, <3>2
    <3>3. QED
      BY <1>1, <2>2, <3>1, <3>2
  <2>6. CellsOf(tr, s, c, p) = CellsOf(tr, s, c, p - 1)
    <3>1. p \in Int /\ Kind(tr, p) # "prop"
      BY <1>1, <1>2
    <3>2. QED
      BY <2>2, <3>1, NotKey, CellsKept
  <2>7. g.p - 1 = p
    BY <1>1, <1>5
  <2>8. s <= g.p
    <3>1. s \in Nat /\ s <= p
      BY <2>2
    <3>2. s <= p + 1
      BY <1>1, <3>1
    <3>3. QED
      BY <1>5, <3>2
  <2>9. QED
    BY <1>5, <1>8, <2>2, <2>3, <2>4, <2>5, <2>6, <2>7, <2>8
<1>11. BaseOk(tr, g)
  <2>1. ~Lost(tr, f)
    BY <1>6 DEF Lost
  <2>2. ASSUME NEW q \in p + 1 .. p + 1 PROVE T!Open(tr, q) >= b
    <3>1. q = p + 1
      BY <1>1
    <3>2. QED
      BY <1>1, <1>7, <3>1
  <2>3. p <= g.p
    BY <1>1, <1>5
  <2>4. QED
    BY <1>4, <1>5, <1>8, <2>1, <2>2, <2>3, BaseStays
<1>12. Passed(tr, g.p)
  <2>1. ~Mark(tr, p)
    BY <1>1, <1>2, NotKey
  <2>2. QED
    BY <1>1, <1>4, <1>5, <2>1, PassedOne
<1>13. WholeOk(tr, g)
  <2>1. CASE b = 0
    BY <1>6, <1>8, <2>1 DEF WholeOk
  <2>2. CASE \E u \in UnusableOf(tr) : u < p
    <3>1. PICK u \in UnusableOf(tr) : u < p
      BY <2>2
    <3>2. u \in Nat
      BY Heads DEF UnusableOf, UartsOf
    <3>3. u < g.p
      BY <1>1, <1>5, <3>1, <3>2
    <3>4. QED
      BY <3>3 DEF WholeOk
  <2>3. QED
    BY <1>4, <1>6, <2>1, <2>2 DEF WholeOk
<1>14. QED
  BY <1>5, <1>9, <1>10, <1>11, <1>12, <1>13 DEF Scanning

LEMMA NoPropBehindEnd ==
  ASSUME NEW tr, WellFormed(tr), NEW p \in Nat, Kind(tr, p) = "end"
  PROVE  Kind(tr, p + 1) # "prop"
<1> SUFFICES ASSUME Kind(tr, p + 1) = "prop" PROVE FALSE
  OBVIOUS
<1>1. p + 1 \in Int /\ (p + 1) - 1 = p
  OBVIOUS
<1>2. PICK j \in 1 .. p : Kind(tr, j) = "name" /\ \A k \in j + 1 .. p + 1 : Kind(tr, k) \in {"prop", "nop"}
  BY <1>1, Forms
<1>3. p \in j + 1 .. p + 1
  BY <1>2
<1>4. QED
  BY <1>2, <1>3

\* The outermost node of a search is left, and one word more is stepped over: the
\* begin of the next node, after which the search is lost, the end of the bus around
\* it, or a word that does not matter.
LEMMA Leaves ==
  ASSUME NEW tr, WellFormed(tr), NEW f \in FindSet(tr), NEW g \in FindSet(tr), Scanning(tr, f),
         Kind(tr, f.p) = "end", Len(f.frames) = 1, g.p = f.p + 2, g.cells = f.cells, g.frames = <<>>
  PROVE  Scanning(tr, g)
<1> DEFINE p == f.p
           b == Base(tr, f)
<1>1. p \in Nat \ {0} /\ b \in Int /\ T!Open(tr, p) \in Int /\ b = T!Open(tr, p) - 1
  BY FindType DEF Base
<1>2. Passed(tr, p) /\ BaseOk(tr, f) /\ WholeOk(tr, f) /\ f.p = p /\ Base(tr, f) = b /\ Kind(tr, p) = "end"
  BY DEF Scanning
<1>3. g.p = p + 2 /\ Len(g.frames) = 0 /\ f.frames # <<>>
  <2>1. g.frames = <<>> <=> Len(g.frames) = 0
    BY FindType
  <2>2. f.frames = <<>> <=> Len(f.frames) = 0
    BY FindType
  <2>3. QED
    BY <2>1, <2>2
<1> HIDE DEF p, b
<1>4. T!Open(tr, p + 1) = b /\ p + 1 \in Nat \ {0} /\ (p + 1) + 1 = p + 2 /\ (p + 1) - 1 = p
  <2>1. T!Open(tr, p + 1) = T!Open(tr, p) + (-1)
    BY <1>1, <1>2, OpenStep
  <2>2. QED
    BY <1>1, <2>1
<1>5. T!Open(tr, p + 2) = b + (IF Kind(tr, p + 1) = "begin" THEN 1
                               ELSE IF Kind(tr, p + 1) = "end" THEN -1 ELSE 0)
  BY <1>4, OpenStep
<1>6. Base(tr, g) = T!Open(tr, p + 2)
  <2>1. T!Open(tr, p + 2) \in Int
    BY <1>1, <1>5
  <2>2. QED
    BY <1>3, <2>1 DEF Base
<1>7. FramesOk(tr, g)
  BY <1>3 DEF FramesOk
<1>8. BaseOk(tr, g)
  <2>1. CASE Kind(tr, p + 1) = "begin"
    <3>1. Kind(tr, p + 2) = "name"
      BY <1>4, <2>1, Forms
    <3>2. QED
      BY <1>3, <3>1 DEF BaseOk, Lost
  <2>2. CASE Kind(tr, p + 1) = "end"
    <3>1. Base(tr, g) = b - 1
      BY <1>1, <1>5, <1>6, <2>2
    <3>2. b > 0
      BY <1>4, <2>2, Forms
    <3>3. \E u \in UnusableOf(tr) : u < p /\ b <= LevelOf(tr, u)
      <4>1. b # 0 /\ ~Lost(tr, f)
        BY <1>1, <1>3, <3>2 DEF Lost
      <4>2. CASE Deeper(tr, p, b)
        <5>1. PICK u \in UnusableOf(tr) : u < p /\ b < LevelOf(tr, u)
          BY <4>2 DEF Deeper
        <5>2. LevelOf(tr, u) \in Int
          BY Heads DEF UnusableOf, UartsOf
        <5>3. QED
          BY <1>1, <5>1, <5>2
      <4>3. CASE \E u \in UnusableOf(tr) : Beside(tr, f, b, u)
        BY <1>1, <1>2, <4>3 DEF Beside
      <4>4. QED
        BY <1>2, <4>1, <4>2, <4>3 DEF BaseOk
    <3>4. PICK u \in UnusableOf(tr) : u < p /\ b <= LevelOf(tr, u)
      BY <3>3
    <3>5. u \in Nat /\ LevelOf(tr, u) \in Int
      BY Heads DEF UnusableOf, UartsOf
    <3>6. u < g.p
      BY <1>1, <1>3, <3>4, <3>5
    <3>7. b - 1 < LevelOf(tr, u)
      BY <1>1, <3>4, <3>5
    <3>8. Deeper(tr, g.p, Base(tr, g))
      BY <3>1, <3>6, <3>7 DEF Deeper
    <3>9. QED
      BY <3>8 DEF BaseOk
  <2>3. CASE Kind(tr, p + 1) \notin {"begin", "end"}
    <3>1. Base(tr, g) = b /\ T!Open(tr, p + 2) = b
      BY <1>1, <1>5, <1>6, <2>3
    <3>2. ASSUME NEW q \in p + 1 .. p + 2 PROVE T!Open(tr, q) >= b
      <4>1. q \in {p + 1, p + 2}
        BY <1>1
      <4>2. QED
        BY <1>1, <1>4, <3>1, <4>1
    <3>3. ~Lost(tr, f) /\ p <= g.p
      BY <1>1, <1>3 DEF Lost
    <3>4. QED
      BY <1>2, <1>3, <3>1, <3>2, <3>3, BaseStays
  <2>4. QED
    BY <2>1, <2>2, <2>3
<1>9. Passed(tr, g.p)
  <2>1. ~Mark(tr, p) /\ ~Mark(tr, p + 1)
    BY <1>1, <1>2, NotKey, NoPropBehindEnd
  <2>2. Passed(tr, p + 1)
    BY <1>1, <1>2, <2>1, PassedOne
  <2>3. p + 1 \in Nat /\ (p + 1) + 1 = g.p
    BY <1>1, <1>3
  <2>4. QED
    BY <2>1, <2>2, <2>3, PassedOne
<1>10. WholeOk(tr, g)
  <2>1. CASE b = 0
    <3>1. T!Open(tr, p) = 1
      BY <1>1, <2>1
    <3>2. \A q \in DOMAIN tr : q >= g.p => Kind(tr, q) # "prop"
      <4> SUFFICES ASSUME NEW q \in DOMAIN tr, q >= g.p PROVE Kind(tr, q) # "prop"
        OBVIOUS
      <4>1. q \in Int
        BY Forms
      <4>2. q > p
        BY <1>1, <1>3, <4>1
      <4>3. QED
        BY <1>1, <1>2, <3>1, <4>1, <4>2, Forms
    <3>3. QED
      BY <3>2 DEF WholeOk
  <2>2. CASE \E u \in UnusableOf(tr) : u < p
    <3>1. PICK u \in UnusableOf(tr) : u < p
      BY <2>2
    <3>2. u \in Nat
      BY Heads DEF UnusableOf, UartsOf
    <3>3. u < g.p
      BY <1>1, <1>3, <3>1, <3>2
    <3>4. QED
      BY <3>3 DEF WholeOk
  <2>3. QED
    BY <1>2, <1>3, <2>1, <2>2 DEF WholeOk
<1>11. QED
  BY <1>7, <1>8, <1>9, <1>10 DEF Scanning

\* The node that is found: its cells are those of the frame around it, or of the node
\* from which the search went on.
LEMMA Finds ==
  ASSUME NEW tr, WellFormed(tr), NEW f \in FindSet(tr), NEW g \in FindSet(tr), Scanning(tr, f),
         Len(f.frames) > 0, Mark(tr, f.p), g.p = f.p,
         g.node.start = f.frames[Len(f.frames)].start,
         g.node.cells = f.frames[Len(f.frames)].cells
  PROVE  FoundOk(tr, g)
<1> DEFINE p == f.p
           n == Len(f.frames)
           b == Base(tr, f)
           s == f.frames[n].start
           c == Around(f, n)
<1>1. /\ p \in Nat \ {0} /\ n \in Nat /\ n > 0 /\ b \in Int /\ T!Open(tr, p) \in Int
      /\ b = T!Open(tr, p) - n
  BY FindType DEF Base
<1>2. \A k \in 1 .. n :
        /\ f.frames[k].start \in NodesOf(tr) /\ f.frames[k].start \in Nat /\ f.frames[k].start <= p
        /\ LevelOf(tr, f.frames[k].start) = b + k - 1
        /\ \A q \in f.frames[k].start .. p : T!Open(tr, q) >= b + k
        /\ f.frames[k].cells = CellsOf(tr, f.frames[k].start, Around(f, k), p - 1)
  BY Inner, FindType DEF Scanning, FramesOk
<1>3. /\ Passed(tr, p) /\ BaseOk(tr, f) /\ f.p = p /\ Base(tr, f) = b /\ f.frames # <<>>
      /\ g.p = p /\ Mark(tr, p)
  BY FindType DEF Scanning
<1>4. n \in 1 .. n
  BY <1>1
<1>5. /\ s \in NodesOf(tr) /\ s \in Nat /\ s <= p /\ LevelOf(tr, s) = b + n - 1
      /\ \A q \in s .. p : T!Open(tr, q) >= b + n
      /\ g.node.start = s /\ g.node.cells = CellsOf(tr, s, c, p - 1)
  BY <1>2, <1>4
<1>6. c \in CellSet(tr)
  <2>1. CASE n = 1
    BY <2>1, FindType DEF Around
  <2>2. CASE n # 1
    <3> HIDE DEF n
    <3>1. n - 1 \in 1 .. n
      BY <1>1, <2>2
    <3>2. n - 1 \in 1 .. Len(f.frames)
      BY <3>1 DEF n
    <3>3. QED
      BY <2>2, <3>2, FindType DEF Around
  <2>3. QED
    BY <2>1, <2>2
<1>7. \A k \in 1 .. n : k < n =>
        f.frames[k].start < s /\ \A j \in OwnOf(tr, f.frames[k].start) : j < p
  BY <1>4, Inner DEF Scanning
<1>8. c = IF n = 1 THEN f.cells ELSE f.frames[n - 1].cells
  BY DEF Around
<1> HIDE DEF p, n, b, s, c
<1>9. p \in OwnOf(tr, s)
  <2>1. \A q \in s .. p : T!Open(tr, q) >= T!Open(tr, p)
    BY <1>1, <1>5
  <2>2. Kind(tr, p) = "prop"
    BY <1>3 DEF Mark, Kind
  <2>3. QED
    BY <1>1, <1>5, <2>1, <2>2, TopOwn
<1>10. s \in UartsOf(tr)
  BY <1>3, <1>5, <1>9 DEF UartsOf
<1>11. \A q \in s .. p : Kind(tr, q) \in {"prop", "nop"}
  BY <1>5, <1>9, Owns
<1>12. ASSUME NEW u \in NodesOf(tr), u < p PROVE u = s \/ u < s
  <2>1. u \in Nat
    BY Heads
  <2>2. CASE s < u
    <3>1. p < u - 2
      BY <1>5, <1>9, <2>2, Apart2
    <3>2. QED
      BY <1>1, <1>12, <2>1, <3>1
  <2>3. QED
    BY <1>5, <2>1, <2>2
<1>13. ASSUME ~OddOf(tr), GivenOf(tr, s), ~Deeper(tr, s, LevelOf(tr, s))
       PROVE  g.node.cells = TrueOf(tr, s)
  <2>1. g.node.cells = c
    <3>1. KeyOf(tr, s, "#address-cells") = {} /\ KeyOf(tr, s, "#size-cells") = {}
      BY <1>10, <1>13 DEF OddOf
    <3>2. p - 1 \in Int
      BY <1>1
    <3>3. QED
      BY <1>5, <1>6, <3>1, <3>2, CellsNone
  <2>2. CASE n # 1
    <3> DEFINE r == f.frames[n - 1].start
               d == Around(f, n - 1)
    <3>1. n - 1 \in 1 .. n /\ n - 1 < n
      BY <1>1, <2>2
    <3>2. /\ r \in NodesOf(tr) /\ r \in Nat /\ LevelOf(tr, r) = b + (n - 1) - 1
          /\ \A q \in r .. p : T!Open(tr, q) >= b + (n - 1)
          /\ f.frames[n - 1].cells = CellsOf(tr, r, d, p - 1)
          /\ r < s /\ \A j \in OwnOf(tr, r) : j < p
      BY <1>2, <1>7, <3>1
    <3>3. c = CellsOf(tr, r, d, p - 1)
      BY <1>8, <2>2, <3>2
    <3> HIDE DEF r, d
    <3>4. ParentIn(tr, s) = r
      <4>1. LevelOf(tr, r) = LevelOf(tr, s) - 1 /\ LevelOf(tr, s) = b + (n - 1)
        BY <1>1, <1>5, <3>2
      <4>2. \A q \in r .. s - 2 : T!Open(tr, q) >= LevelOf(tr, s)
        BY <1>1, <1>5, <3>2, <4>1
      <4>3. QED
        BY <1>5, <3>2, <4>1, <4>2, ParentIs
    <3>5. KeyOf(tr, r, "#address-cells") # {} /\ KeyOf(tr, r, "#size-cells") # {}
      BY <1>13, <3>4 DEF GivenOf
    <3>6. \A j \in OwnOf(tr, r) : j <= p - 1
      BY <1>1, <3>2, Owns
    <3>7. CellsOf(tr, r, d, p - 1) = CellsOf(tr, r, Default, Len(tr))
      <4>1. p - 1 \in Int
        BY <1>1
      <4>2. QED
        BY <3>2, <3>5, <3>6, <4>1, CellsAll
    <3>8. QED
      BY <2>1, <3>3, <3>4, <3>7 DEF TrueOf
  <2>3. CASE n = 1
    <3>1. LevelOf(tr, s) = b /\ c = f.cells
      BY <1>1, <1>5, <1>8, <2>3
    <3>2. b # 0
      BY <1>1, <1>13, <3>1 DEF GivenOf
    <3>3. ASSUME NEW u \in UnusableOf(tr), u < p, b < LevelOf(tr, u) PROVE FALSE
      <4>1. u \in NodesOf(tr) /\ LevelOf(tr, u) \in Int
        BY Heads DEF UnusableOf, UartsOf
      <4>2. u # s
        BY <1>1, <3>1, <3>3, <4>1
      <4>3. u < s
        BY <1>12, <3>3, <4>1, <4>2
      <4>4. QED
        BY <1>13, <3>1, <3>3, <4>3 DEF Deeper
    <3>4. PICK u \in UnusableOf(tr) : Beside(tr, f, b, u)
      BY <1>3, <3>2, <3>3 DEF BaseOk, Lost, Deeper
    <3>5. /\ u \in NodesOf(tr) /\ u < p /\ b = LevelOf(tr, u) /\ \A q \in u .. p : T!Open(tr, q) >= b
          /\ ~GivenOf(tr, u) \/ f.cells = TrueOf(tr, u)
      BY <1>3, <1>13, <3>4 DEF Beside, UnusableOf, UartsOf
    <3>6. CASE u = s
      BY <1>13, <2>1, <3>1, <3>5, <3>6
    <3>7. CASE u < s
      <4>1. u \in Nat
        BY <3>5, Heads
      <4>2. \A q \in u .. s - 2 : T!Open(tr, q) >= LevelOf(tr, s)
        BY <1>1, <1>5, <3>1, <3>5, <4>1
      <4>3. TrueOf(tr, u) = TrueOf(tr, s) /\ (GivenOf(tr, u) <=> GivenOf(tr, s))
        <5>1. LevelOf(tr, u) = LevelOf(tr, s) /\ u \in NodesOf(tr) /\ s \in NodesOf(tr) /\ u < s
          BY <1>5, <3>1, <3>5, <3>7
        <5>2. QED
          BY <4>2, <5>1, Siblings
      <4>4. QED
        BY <1>13, <2>1, <3>1, <3>5, <4>3
    <3>8. QED
      BY <1>12, <3>5, <3>6, <3>7
  <2>4. QED
    BY <2>2, <2>3
<1>14. \A q \in s .. p - 1 : Kind(tr, q) \in {"prop", "nop"}
  BY <1>1, <1>5, <1>11
<1>15. NodeOk(tr, g)
  BY <1>3, <1>5, <1>10, <1>13, <1>14 DEF NodeOk
<1>16. QED
  BY <1>3, <1>5, <1>9, <1>15 DEF FoundOk

\* Behind a node that was passed come all nodes that can be used.
LEMMA HiddenBehind ==
  ASSUME NEW tr, WellFormed(tr), NEW p \in Nat, Passed(tr, p), NEW u \in UnusableOf(tr), u <= p
  PROVE  \A i \in UsableOf(tr) : u < i
<1> SUFFICES ASSUME NEW i \in UsableOf(tr) PROVE u < i
  OBVIOUS
<1>1. u \in NodesOf(tr) /\ i \in NodesOf(tr) /\ u # i /\ u \in Nat /\ i \in Nat
  BY Heads DEF UsableOf, UnusableOf, UartsOf
<1>2. PICK j \in OwnOf(tr, i) : Mark(tr, j)
  BY DEF UsableOf, UartsOf
<1>3. j >= p /\ j \in Int
  BY <1>1, <1>2, Owns DEF Passed
<1>4. CASE i < u
  <2>1. j < u - 2
    BY <1>1, <1>4, Apart2
  <2>2. QED
    BY <1>1, <1>3, <2>1
<1>5. QED
  BY <1>1, <1>4

\* The search goes on behind a node that cannot be used.
LEMMA SkipsOne ==
  ASSUME NEW tr, WellFormed(tr), NEW f \in FindSet(tr), NEW g \in FindSet(tr), SkipOk(tr, f),
         Kind(tr, f.p) \in {"prop", "nop"}, g.p = f.p + 1, g.node = f.node
  PROVE  SkipOk(tr, g)
<1> DEFINE p == f.p
           s == f.node.start
<1>1. p \in Nat \ {0} /\ s \in Nat
  BY FindType
<1>2. /\ s \in UnusableOf(tr) /\ s \in NodesOf(tr) /\ s <= p /\ Passed(tr, p) /\ g.p = p + 1
      /\ \A q \in s .. p - 1 : Kind(tr, q) \in {"prop", "nop"}
      /\ g.node.start = s /\ Kind(tr, p) \in {"prop", "nop"}
  BY DEF SkipOk, NodeOk, UnusableOf, UartsOf
<1>3. NodeOk(tr, f)
  BY DEF SkipOk
<1> HIDE DEF p, s
<1>4. \A q \in s .. p : Kind(tr, q) \in {"prop", "nop"}
  BY <1>1, <1>2
<1>5. p \in OwnOf(tr, s)
  <2>1. p <= Len(tr)
    BY <1>1, <1>2, Forms
  <2>2. QED
    BY <1>1, <1>2, <1>4, <2>1, Owns
<1>6. Passed(tr, p + 1)
  <2> SUFFICES ASSUME NEW i \in UsableOf(tr), NEW j \in OwnOf(tr, i), Mark(tr, j) PROVE j >= p + 1
    BY DEF Passed
  <2>1. i \in NodesOf(tr) /\ i # s
    BY <1>2 DEF UsableOf, UartsOf, UnusableOf
  <2>2. j \in Int
    BY <2>1, Heads, Owns
  <2>3. j >= p
    BY <1>2 DEF Passed
  <2>4. j # p
    BY <1>2, <1>5, <2>1, OneOwner
  <2>5. QED
    BY <1>1, <2>2, <2>3, <2>4
<1>7. \A q \in s .. (p + 1) - 1 : Kind(tr, q) \in {"prop", "nop"}
  BY <1>1, <1>4
<1>8. s <= p + 1
  BY <1>1, <1>2
<1>9. NodeOk(tr, g)
  BY <1>2, <1>3, <1>7, <1>8 DEF NodeOk
<1>10. QED
  BY <1>2, <1>6, <1>9 DEF SkipOk

LEMMA SkipsEnd ==
  ASSUME NEW tr, WellFormed(tr), NEW f \in FindSet(tr), NEW g \in FindSet(tr), SkipOk(tr, f),
         Kind(tr, f.p) = "end", g.p = f.p + 1, g.frames = <<>>, g.cells = f.node.cells
  PROVE  Scanning(tr, g)
<1> DEFINE p == f.p
           s == f.node.start
           l == LevelOf(tr, s)
<1>1. p \in Nat \ {0} /\ s \in Nat
  BY FindType
<1>2. /\ s \in UnusableOf(tr) /\ s \in NodesOf(tr) /\ s <= p /\ Passed(tr, p) /\ g.p = p + 1
      /\ \A q \in s .. p - 1 : Kind(tr, q) \in {"prop", "nop"}
      /\ Kind(tr, p) = "end"
  BY DEF SkipOk, NodeOk, UnusableOf, UartsOf
<1>3. OddOf(tr) \/ ~GivenOf(tr, s) \/ Deeper(tr, s, l) \/ g.cells = TrueOf(tr, s)
  BY DEF SkipOk, NodeOk
<1>4. s > 0 /\ l \in Int /\ T!Open(tr, s) = l + 1
  BY <1>2, Heads
<1>5. g.frames = <<>> /\ Len(g.frames) = 0
  <2>1. g.frames = <<>> <=> Len(g.frames) = 0
    BY FindType
  <2>2. QED
    BY <2>1
<1> HIDE DEF p, s, l
<1>6. ASSUME NEW q \in s .. p PROVE T!Open(tr, q) = l + 1
  <2>1. \A k \in s .. q - 1 : Kind(tr, k) \in {"prop", "nop"}
    BY <1>1, <1>2
  <2>2. s \in Nat \ {0} /\ q \in Nat /\ s <= q
    BY <1>1, <1>4
  <2>3. T!Open(tr, q) = T!Open(tr, s)
    BY <2>1, <2>2, Flat
  <2>4. QED
    BY <1>4, <2>3
<1>7. T!Open(tr, p + 1) = l
  <2>1. T!Open(tr, p) = l + 1
    BY <1>1, <1>2, <1>6
  <2>2. T!Open(tr, p + 1) = T!Open(tr, p) + (-1)
    BY <1>1, <1>2, OpenStep
  <2>3. QED
    BY <1>4, <2>1, <2>2
<1>8. Base(tr, g) = l
  BY <1>2, <1>4, <1>5, <1>7 DEF Base
<1>9. FramesOk(tr, g)
  BY <1>5 DEF FramesOk
<1>10. s < p + 1
  BY <1>1, <1>2
<1>11. BaseOk(tr, g)
  <2>1. CASE Deeper(tr, s, l)
    <3>1. PICK u \in UnusableOf(tr) : u < s /\ l < LevelOf(tr, u)
      BY <2>1 DEF Deeper
    <3>2. u \in Nat
      BY Heads DEF UnusableOf, UartsOf
    <3>3. u < g.p
      BY <1>1, <1>2, <3>1, <3>2
    <3>4. QED
      BY <1>8, <3>1, <3>3 DEF BaseOk, Deeper
  <2>2. CASE OddOf(tr) \/ ~GivenOf(tr, s) \/ g.cells = TrueOf(tr, s)
    <3>1. ASSUME NEW q \in s .. p + 1 PROVE T!Open(tr, q) >= l
      <4>1. CASE q = p + 1
        BY <1>4, <1>7, <4>1
      <4>2. CASE q \in s .. p
        BY <1>4, <1>6, <4>2
      <4>3. QED
        BY <1>1, <4>1, <4>2
    <3>2. l = LevelOf(tr, s)
      BY DEF l
    <3>3. Beside(tr, g, l, s)
      BY <1>2, <1>10, <2>2, <3>1, <3>2 DEF Beside
    <3>4. QED
      BY <1>2, <1>8, <3>3 DEF BaseOk
  <2>3. QED
    BY <1>3, <2>1, <2>2
<1>12. Passed(tr, g.p)
  <2>1. ~Mark(tr, p)
    BY <1>1, <1>2, NotKey
  <2>2. QED
    BY <1>1, <1>2, <2>1, PassedOne
<1>13. WholeOk(tr, g)
  BY <1>2, <1>10 DEF WholeOk
<1>14. QED
  BY <1>5, <1>9, <1>11, <1>12, <1>13 DEF Scanning

\* What it means that the search ends without a node.
LEMMA FailsScan ==
  ASSUME NEW tr, WellFormed(tr), NEW f \in FindSet(tr), Scanning(tr, f),
         \/ Kind(tr, f.p) \in {"stop", "name", "past"}
         \/ f.frames = <<>> /\ Kind(tr, f.p) \in {"end", "prop"}
  PROVE  NoneOk(tr)
<1> DEFINE p == f.p
<1>1. /\ p \in Nat \ {0} /\ T!Open(tr, p) \in Int /\ Passed(tr, p) /\ WholeOk(tr, f) /\ f.p = p
      /\ BaseOk(tr, f) /\ (f.frames # <<>> => Kind(tr, p) # "name")
      /\ f.frames = <<>> => Base(tr, f) = T!Open(tr, p)
  BY FindType DEF Scanning, Base
<1>2. \/ Kind(tr, p) \in {"stop", "name", "past"}
      \/ f.frames = <<>> /\ Kind(tr, p) \in {"end", "prop"}
  OBVIOUS
<1> HIDE DEF p
<1>3. ASSUME NEW u \in UnusableOf(tr), u < p PROVE NoneOk(tr)
  <2>1. u \in Nat
    BY Heads DEF UnusableOf, UartsOf
  <2>2. u <= p
    BY <1>1, <1>3, <2>1
  <2>3. QED
    BY <1>1, <2>2, HiddenBehind DEF NoneOk
<1>4. ASSUME \A q \in DOMAIN tr : q >= p => Kind(tr, q) # "prop" PROVE UsableOf(tr) = {}
  <2> SUFFICES ASSUME NEW i \in UsableOf(tr) PROVE FALSE
    OBVIOUS
  <2>1. i \in NodesOf(tr) /\ i \in Nat
    BY Heads DEF UsableOf, UartsOf
  <2>2. PICK j \in OwnOf(tr, i) : Mark(tr, j)
    BY DEF UsableOf, UartsOf
  <2>3. j >= p /\ j \in Int /\ Kind(tr, j) = "prop"
    BY <1>1, <2>1, <2>2, Owns DEF Passed, Mark, Kind
  <2>4. j \in DOMAIN tr
    BY <2>3, Forms
  <2>5. QED
    BY <1>4, <2>3, <2>4
<1>5. CASE Kind(tr, p) \in {"stop", "past"}
  <2>1. \A q \in DOMAIN tr : q >= p => Kind(tr, q) # "prop"
    <3> SUFFICES ASSUME NEW q \in DOMAIN tr, q >= p PROVE Kind(tr, q) # "prop"
      OBVIOUS
    <3>1. q \in 1 .. Len(tr) /\ Len(tr) \in Nat
      BY Forms
    <3>2. p \in 1 .. Len(tr)
      BY <1>1, <3>1
    <3>3. Kind(tr, p) = "stop" /\ p = Len(tr)
      BY <1>1, <1>5, <3>1, <3>2, Forms DEF Words
    <3>4. q = p
      BY <3>1, <3>3
    <3>5. QED
      BY <3>3, <3>4
  <2>2. QED
    BY <1>4, <2>1 DEF NoneOk
<1>6. CASE f.frames = <<>> /\ Kind(tr, p) \in {"name", "end", "prop"}
  <2>1. CASE \A q \in 1 .. p - 1 : Kind(tr, q) = "nop"
    <3>1. CASE Kind(tr, p) = "name"
      <4>1. p - 1 \in 1 .. p - 1 /\ Kind(tr, p - 1) = "begin"
        BY <1>1, <3>1, Forms
      <4>2. QED
        BY <2>1, <4>1
    <3>2. CASE Kind(tr, p) = "prop"
      <4>1. PICK j \in 1 .. p - 1 : Kind(tr, j) = "name"
        BY <1>1, <3>2, Forms
      <4>2. QED
        BY <2>1, <4>1
    <3>3. CASE Kind(tr, p) = "end"
      <4>1. T!Open(tr, p) > 0
        BY <1>1, <3>3, Forms
      <4>2. \E u \in UnusableOf(tr) : u < p
        BY <1>1, <1>6, <3>3, <4>1 DEF BaseOk, Lost, Deeper, Beside
      <4>3. QED
        BY <1>3, <4>2
    <3>4. QED
      BY <1>6, <3>1, <3>2, <3>3
  <2>2. CASE \A q \in DOMAIN tr : q >= p => Kind(tr, q) # "prop"
    BY <1>4, <2>2 DEF NoneOk
  <2>3. CASE \E u \in UnusableOf(tr) : u < p
    BY <1>3, <2>3
  <2>4. QED
    BY <1>1, <1>6, <2>1, <2>2, <2>3 DEF WholeOk
<1>7. QED
  BY <1>1, <1>2, <1>5, <1>6

-----------------------------------------------------------------------------
(* The search of module Dtb *)

\* The definitions of Dtb are those of this section, for the tree of the machine.
LEMMA Same ==
  /\ \A i : T!Word(i) = At(m.tree, i)
  /\ \A n : T!Own(n) = OwnOf(m.tree, n.start)
  /\ \A n, key : T!Named(n, key) = KeyOf(m.tree, n.start, key)
  /\ \A i : T!Bare(i).start = i
  /\ \A S : T!First(S) = FirstOne(S) /\ T!Last(S) = LastOne(S)
<1>1. \A i : T!Word(i) = At(m.tree, i)
  BY DEF T!Word, At
<1>2. \A n : T!Own(n) = OwnOf(m.tree, n.start)
  BY <1>1 DEF T!Own, OwnOf, Kind
<1>3. \A n, key : T!Named(n, key) = KeyOf(m.tree, n.start, key)
  BY <1>1, <1>2 DEF T!Named, KeyOf, Kind
<1>4. \A i : T!Bare(i).start = i
  BY DEF T!Bare
<1>5. \A S : T!First(S) = FirstOne(S) /\ T!Last(S) = LastOne(S)
  BY DEF T!First, T!Last, FirstOne, LastOne
<1>6. QED
  BY <1>1, <1>2, <1>3, <1>4, <1>5

LEMMA SameNodes ==
  /\ T!Nodes = NodesOf(m.tree)
  /\ \A i : T!Level(i) = LevelOf(m.tree, i)
  /\ \A i : T!ParentOf(i) = ParentIn(m.tree, i)
  /\ \A i : T!TrueCells(i) = TrueOf(m.tree, i)
  /\ \A i : T!GivenCells(i) <=> GivenOf(m.tree, i)
<1>1. T!Nodes = NodesOf(m.tree)
  BY DEF T!Nodes, NodesOf
<1>2. \A i : T!Level(i) = LevelOf(m.tree, i)
  BY DEF T!Level, LevelOf
<1>3. \A i : T!ParentOf(i) = ParentIn(m.tree, i)
  BY <1>1, <1>2, Same DEF T!ParentOf, ParentIn
<1>4. ASSUME NEW i PROVE T!TrueCells(i) = TrueOf(m.tree, i)
  <2> DEFINE r == ParentIn(m.tree, i)
             n == T!Bare(r)
  <2>1. n.start = r /\ n.cells = Default
    BY DEF T!Bare, T!DefaultCells, Default
  <2>2. T!TrueCells(i) = T!CellsAt(n, Len(m.tree))
    BY <1>3 DEF T!TrueCells
  <2> HIDE DEF n, r
  <2>3. T!CellsAt(n, Len(m.tree)) = CellsOf(m.tree, r, Default, Len(m.tree))
    BY <2>1, Same DEF T!CellsAt, CellsOf, CellOf
  <2>4. QED
    BY <2>2, <2>3 DEF TrueOf, r
<1>5. \A i : T!GivenCells(i) <=> GivenOf(m.tree, i)
  BY <1>2, <1>3, Same DEF T!GivenCells, GivenOf
<1>6. QED
  BY <1>1, <1>2, <1>3, <1>4, <1>5

LEMMA SameWorks == \A n : /\ T!is_node_operational(n) <=> WorksIn(m.tree, n.start)
                          /\ D!is_node_operational(n) <=> WorksIn(m.tree, n.start)
<1>1. \A n : T!is_node_operational(n) <=> WorksIn(m.tree, n.start)
  BY Same DEF T!is_node_operational, T!get_property, WorksIn
<1>2. \A n : D!is_node_operational(n) <=> T!is_node_operational(n)
  BY DEF T!is_node_operational, T!get_property, T!Named, T!Own, T!Word, T!First,
         D!is_node_operational, D!get_property, D!Named, D!Own, D!Word, D!First
<1>3. QED
  BY <1>1, <1>2

LEMMA SameReg == /\ \A n : D!read_reg_property(n, 0) = T!read_reg_property(n, 0)
                 /\ D!NoReg = T!NoReg
<1>1. \A i : D!Word(i) = T!Word(i)
  BY DEF D!Word, T!Word
<1>2. \A n : D!Own(n) = T!Own(n)
  BY <1>1 DEF D!Own, T!Own
<1>3. \A n, key : D!Named(n, key) = T!Named(n, key)
  BY <1>1, <1>2 DEF D!Named, T!Named
<1>4. \A S : D!First(S) = T!First(S) /\ D!Last(S) = T!Last(S)
  BY DEF D!First, T!First, D!Last, T!Last
<1>5. \A n, key : D!get_property(n, key) = T!get_property(n, key)
  BY <1>3, <1>4 DEF D!get_property, T!get_property
<1>6. \A n, i : D!CellsAt(n, i) = T!CellsAt(n, i)
  BY <1>1, <1>3, <1>4 DEF D!CellsAt, T!CellsAt
<1>7. \A x, y, z : D!Number(x, y, z) = T!Number(x, y, z)
  BY DEF D!Number, T!Number
<1>8. D!NoReg = T!NoReg
  BY DEF D!NoReg, T!NoReg
<1>9. \A n : D!read_reg_property(n, 0) = T!read_reg_property(n, 0)
  BY <1>1, <1>5, <1>6, <1>7, <1>8 DEF D!read_reg_property, T!read_reg_property
<1>10. QED
  BY <1>8, <1>9

LEMMA SameUarts ==
  /\ Uarts = UartsOf(m.tree) /\ Usable = UsableOf(m.tree)
  /\ Uart = FirstOne(UsableOf(m.tree))
  /\ OddCells <=> OddOf(m.tree)
<1>1. \A i : T!Compatible(i, "arm,pl011") <=> \E j \in OwnOf(m.tree, i) : Mark(m.tree, j)
  BY Same DEF T!Compatible, KeyOf, Mark, Kind
<1>2. Uarts = UartsOf(m.tree)
  BY <1>1, SameNodes DEF Uarts, UartsOf
<1>3. Usable = UsableOf(m.tree)
  BY <1>2, Same, SameWorks DEF Usable, UsableOf
<1>4. Uart = FirstOne(UsableOf(m.tree))
  BY <1>3, Same DEF Uart
<1>5. OddCells <=> OddOf(m.tree)
  BY <1>2, Same DEF OddCells, OddOf, T!HasCells
<1>6. QED
  BY <1>2, <1>3, <1>4, <1>5

\* A search that begins.
LEMMA Begins ==
  ASSUME NEW tr, WellFormed(tr), NEW g \in FindSet(tr), g.p = 1, g.frames = <<>>
  PROVE  Scanning(tr, g)
<1>1. Len(g.frames) = 0
  <2>1. g.frames = <<>> <=> Len(g.frames) = 0
    BY FindType
  <2>2. QED
    BY <2>1
<1>2. T!Open(tr, 1) = 0
  <2>1. \A t : {j \in 1 .. 1 - 1 : j \in DOMAIN tr /\ tr[j].t = t} = {}
    OBVIOUS
  <2>2. Cardinality({}) = 0
    BY FS_EmptySet
  <2>3. T!Open(tr, 1) = Cardinality({}) - Cardinality({})
    BY <2>1, SameCardinality, Zenon DEF T!Open
  <2>4. QED
    BY <2>2, <2>3
<1>3. Base(tr, g) = 0
  BY <1>1, <1>2 DEF Base
<1>4. FramesOk(tr, g)
  BY <1>1 DEF FramesOk
<1>5. Passed(tr, g.p)
  <2> SUFFICES ASSUME NEW i \in UsableOf(tr), NEW j \in OwnOf(tr, i) PROVE j >= 1
    BY DEF Passed
  <2>1. i \in NodesOf(tr)
    BY DEF UsableOf, UartsOf
  <2>2. i \in Nat /\ i >= 3
    BY <2>1, Heads
  <2>3. j \in Int /\ i <= j
    BY <2>2, Owns
  <2>4. QED
    BY <2>2, <2>3
<1>6. WholeOk(tr, g)
  BY DEF WholeOk
<1>7. QED
  BY <1>3, <1>4, <1>5, <1>6 DEF Scanning, BaseOk

\* check_address_and_size_cells changes one number of the node that is open last.
LEMMA SetsCells ==
  ASSUME NEW tr, NEW fr \in Seq(Frame(tr)), Len(fr) > 0, NEW field \in {"address", "size"},
         NEW v \in Vals(tr), NEW h, h = D!SetCells(fr, field, v)
  PROVE  /\ h \in Seq(Frame(tr)) /\ Len(h) = Len(fr)
         /\ \A k \in 1 .. Len(fr) : k < Len(fr) => h[k] = fr[k]
         /\ h[Len(fr)].start = fr[Len(fr)].start
         /\ field = "address" =>
              h[Len(fr)].cells = [address |-> v, size |-> fr[Len(fr)].cells.size]
         /\ field = "size" =>
              h[Len(fr)].cells = [address |-> fr[Len(fr)].cells.address, size |-> v]
<1> DEFINE n == Len(fr)
           x == fr[n]
           c == [x.cells EXCEPT ![field] = v]
           y == [x EXCEPT !.cells = c]
<1>1. n \in Nat /\ n > 0 /\ n \in 1 .. n /\ DOMAIN fr = 1 .. n /\ x \in Frame(tr)
  OBVIOUS
<1>2. x.cells \in CellSet(tr) /\ x.start \in Nat
  BY <1>1 DEF Frame
<1>3. /\ c \in CellSet(tr)
      /\ field = "address" => c = [address |-> v, size |-> x.cells.size]
      /\ field = "size" => c = [address |-> x.cells.address, size |-> v]
  BY <1>2 DEF CellSet
<1>4. h = [fr EXCEPT ![n] = y]
  BY DEF D!SetCells
<1> HIDE DEF c
<1>5. y \in Frame(tr) /\ y.start = x.start /\ y.cells = c
  BY <1>1, <1>3 DEF Frame
<1> HIDE DEF n, x, y
<1>6. h \in Seq(Frame(tr)) /\ Len(h) = n /\ h[n] = y /\ \A k \in 1 .. n : k < n => h[k] = fr[k]
  BY <1>1, <1>4, <1>5 DEF n
<1>7. QED
  BY <1>3, <1>5, <1>6 DEF n, x

\* A search by its fields.
LEMMA Full ==
  ASSUME NEW tr, NEW a \in States, NEW q \in Nat \ {0}, NEW h \in Seq(Frame(tr)),
         NEW c \in CellSet(tr), NEW n \in Frame(tr),
         NEW g, g = [state |-> a, p |-> q, frames |-> h, cells |-> c, node |-> n]
  PROVE  /\ g \in FindSet(tr)
         /\ g.state = a /\ g.p = q /\ g.frames = h /\ g.cells = c /\ g.node = n
<1> DEFINE P == Nat \ {0}
           F == Seq(Frame(tr))
           C == CellSet(tr)
           N == Frame(tr)
<1>1. FindSet(tr) = [state : States, p : P, frames : F, cells : C, node : N]
  BY DEF FindSet
<1>2. q \in P /\ h \in F /\ c \in C /\ n \in N
  OBVIOUS
<1> HIDE DEF P, F, C, N
<1>3. g \in FindSet(tr)
  BY <1>1, <1>2
<1>4. g.state = a /\ g.p = q /\ g.frames = h /\ g.cells = c /\ g.node = n
  OBVIOUS
<1>5. QED
  BY <1>3, <1>4

\* The frames behind a property.
FramesAfter(tr, f) ==
  IF At(tr, f.p).key = "#address-cells" THEN D!SetCells(f.frames, "address", At(tr, f.p).num[1])
  ELSE IF At(tr, f.p).key = "#size-cells" THEN D!SetCells(f.frames, "size", At(tr, f.p).num[1])
  ELSE f.frames

\* A property that does not make the node a serial port.
LEMMA PassesProp ==
  ASSUME NEW tr, WellFormed(tr), NEW f \in FindSet(tr), Scanning(tr, f),
         Len(f.frames) > 0, Kind(tr, f.p) = "prop", ~Mark(tr, f.p),
         NEW h, h = FramesAfter(tr, f)
  PROVE  LET g == [f EXCEPT !.p = @ + 1, !.frames = h] IN g \in FindSet(tr) /\ Scanning(tr, g)
<1> DEFINE p == f.p
           fr == f.frames
           n == Len(f.frames)
           s == fr[n].start
           c == Around(f, n)
           v == At(tr, p).num[1]
           g == [f EXCEPT !.p = @ + 1, !.frames = h]
<1>1. p \in Nat \ {0} /\ n \in Nat /\ n > 0 /\ n \in 1 .. n /\ fr \in Seq(Frame(tr))
  BY FindType
<1>2. /\ s \in NodesOf(tr) /\ s \in Nat /\ s <= p
      /\ \A q \in s .. p : T!Open(tr, q) >= T!Open(tr, p)
      /\ fr[n].cells = CellsOf(tr, s, c, p - 1) /\ fr[n].cells \in CellSet(tr)
  <2>1. /\ s \in NodesOf(tr) /\ s \in Nat /\ s <= p /\ fr[n].cells \in CellSet(tr)
        /\ \A q \in s .. p : T!Open(tr, q) >= Base(tr, f) + n
        /\ fr[n].cells = CellsOf(tr, s, c, p - 1)
    BY <1>1, FindType, Inner DEF Scanning, FramesOk
  <2>2. Base(tr, f) + n = T!Open(tr, p)
    BY FindType DEF Base
  <2>3. QED
    BY <2>1, <2>2
<1>3. p \in OwnOf(tr, s)
  BY <1>1, <1>2, TopOwn
<1>4. v \in Vals(tr)
  <2>1. p \in DOMAIN tr
    BY <1>1, Forms
  <2>2. QED
    BY <2>1 DEF Vals, At
<1>5. /\ h \in Seq(Frame(tr)) /\ Len(h) = n /\ h[n].start = s
      /\ \A k \in 1 .. n : k < n => h[k] = fr[k]
      /\ h[n].cells = CellsOf(tr, s, c, p)
  <2> DEFINE key == At(tr, p).key
  <2>1. \A a : p \in KeyOf(tr, s, a) <=> key = a
    BY <1>3 DEF KeyOf
  <2>2. p \in Int
    BY <1>1
  <2>3. h = IF key = "#address-cells" THEN D!SetCells(fr, "address", v)
            ELSE IF key = "#size-cells" THEN D!SetCells(fr, "size", v) ELSE fr
    BY DEF FramesAfter
  <2>4. fr[n].cells.address = CellOf(tr, s, "#address-cells", p - 1, c.address)
        /\ fr[n].cells.size = CellOf(tr, s, "#size-cells", p - 1, c.size)
    BY <1>2 DEF CellsOf
  <2>n. n = Len(fr)
    OBVIOUS
  <2> HIDE DEF key, s, c, v, p, fr, n
  <2>5. CASE key = "#address-cells"
    <3>1. h = D!SetCells(fr, "address", v) /\ key # "#size-cells"
      BY <2>3, <2>5
    <3>2. /\ h \in Seq(Frame(tr)) /\ Len(h) = n /\ \A k \in 1 .. n : k < n => h[k] = fr[k]
          /\ h[n].start = fr[n].start /\ h[n].cells = [address |-> v, size |-> fr[n].cells.size]
      BY <1>1, <1>4, <2>n, <3>1, SetsCells
    <3>3. CellOf(tr, s, "#address-cells", p, c.address) = v
      BY <1>2, <2>1, <2>5, CellSets DEF v
    <3>4. CellOf(tr, s, "#size-cells", p, c.size) = CellOf(tr, s, "#size-cells", p - 1, c.size)
      BY <1>2, <2>1, <2>2, <3>1, CellKept
    <3>5. QED
      BY <2>4, <3>2, <3>3, <3>4 DEF CellsOf, s
  <2>6. CASE key = "#size-cells"
    <3>1. h = D!SetCells(fr, "size", v) /\ key # "#address-cells"
      BY <2>3, <2>6
    <3>2. /\ h \in Seq(Frame(tr)) /\ Len(h) = n /\ \A k \in 1 .. n : k < n => h[k] = fr[k]
          /\ h[n].start = fr[n].start /\ h[n].cells = [address |-> fr[n].cells.address, size |-> v]
      BY <1>1, <1>4, <2>n, <3>1, SetsCells
    <3>3. CellOf(tr, s, "#size-cells", p, c.size) = v
      BY <1>2, <2>1, <2>6, CellSets DEF v
    <3>4. CellOf(tr, s, "#address-cells", p, c.address)
            = CellOf(tr, s, "#address-cells", p - 1, c.address)
      BY <1>2, <2>1, <2>2, <3>1, CellKept
    <3>5. QED
      BY <2>4, <3>2, <3>3, <3>4 DEF CellsOf, s
  <2>7. CASE key \notin {"#address-cells", "#size-cells"}
    <3>1. h = fr
      BY <2>3, <2>7
    <3>2. CellsOf(tr, s, c, p) = CellsOf(tr, s, c, p - 1)
      BY <1>2, <2>1, <2>2, <2>7, CellsKept
    <3>3. QED
      BY <1>1, <1>2, <2>n, <3>1, <3>2 DEF s
  <2>8. QED
    BY <2>5, <2>6, <2>7
<1>6. g \in FindSet(tr) /\ g.p = p + 1 /\ g.frames = h /\ g.cells = f.cells
  <2>1. p + 1 \in Nat \ {0}
    BY <1>1
  <2>2. g = [f EXCEPT !.p = p + 1, !.frames = h]
    OBVIOUS
  <2>3. f.state \in States /\ f.cells \in CellSet(tr) /\ f.node \in Frame(tr)
    BY DEF FindSet
  <2>4. g = [state |-> f.state, p |-> p + 1, frames |-> h, cells |-> f.cells, node |-> f.node]
    <3> DEFINE P == Nat \ {0}
               F == Seq(Frame(tr))
               C == CellSet(tr)
               N == Frame(tr)
    <3>1. f \in [state : States, p : P, frames : F, cells : C, node : N]
      BY DEF FindSet
    <3> HIDE DEF P, F, C, N, g, p
    <3>2. QED
      BY <2>2, <3>1
  <2> HIDE DEF g, p
  <2>5. QED
    BY <1>5, <2>1, <2>3, <2>4, Full
<1>7. ASSUME NEW k \in 1 .. n
      PROVE  h[k].start = fr[k].start /\ h[k].cells = CellsOf(tr, fr[k].start, Around(g, k), p)
  <2>1. Around(g, k) = Around(f, k)
    <3>1. k # 1 => k - 1 \in 1 .. n /\ k - 1 < n
      BY <1>1
    <3>2. k # 1 => h[k - 1] = fr[k - 1]
      BY <1>5, <3>1
    <3> HIDE DEF g
    <3>3. QED
      BY <1>6, <3>2 DEF Around
  <2>2. CASE k = n
    BY <1>5, <2>1, <2>2
  <2>3. CASE k < n
    <3> DEFINE r == fr[k].start
               d == Around(f, k)
    <3>1. h[k] = fr[k]
      BY <1>5, <2>3
    <3>2. r \in Nat /\ fr[k].cells = CellsOf(tr, r, d, p - 1) /\ \A j \in OwnOf(tr, r) : j < p
      BY <2>3, FindType, Inner DEF Scanning, FramesOk
    <3> HIDE DEF r, d
    <3>3. \A a : p \notin KeyOf(tr, r, a)
      <4>1. p \notin OwnOf(tr, r)
        BY <1>1, <3>2
      <4>2. QED
        BY <4>1 DEF KeyOf
    <3>4. CellsOf(tr, r, d, p) = CellsOf(tr, r, d, p - 1)
      BY <1>1, <3>2, <3>3, CellsKept
    <3>5. QED
      BY <2>1, <3>1, <3>2, <3>4 DEF r, d
  <2>4. QED
    BY <1>1, <2>2, <2>3
<1>8. Scanning(tr, g)
  <2> HIDE DEF g
  <2>1. f.frames # <<>>
    BY FindType
  <2>2. QED
    BY <1>5, <1>6, <1>7, <2>1, Advance
<1>9. QED
  BY <1>6, <1>8

\* The steps of Dtb in the search for the serial port.
LEMMA Moves ==
  ASSUME pc = "serial", NEW tr, tr = m.tree, NEW f, f = find
  PROVE  /\ D!Search => f.state = "idle" /\ find' = [D!Idle EXCEPT !.state = "scan"]
         /\ D!ScanOpen =>
              /\ f.state = "scan" /\ Kind(tr, f.p) = "begin"
              /\ find' = [f EXCEPT !.p = f.p + 2,
                                   !.frames = Append(f.frames,
                                     [start |-> f.p + 2,
                                      cells |-> IF Len(f.frames) = 0 THEN f.cells
                                                ELSE f.frames[Len(f.frames)].cells])]
         /\ D!ScanClose =>
              /\ f.state = "scan" /\ Kind(tr, f.p) = "end" /\ Len(f.frames) > 0
              /\ find' = [f EXCEPT !.p = f.p + (IF Len(f.frames) = 1 THEN 2 ELSE 1),
                                   !.frames = SubSeq(f.frames, 1, Len(f.frames) - 1)]
         /\ D!ScanProp =>
              /\ f.state = "scan" /\ Kind(tr, f.p) = "prop" /\ Len(f.frames) > 0
              /\ Mark(tr, f.p) =>
                   find' = [f EXCEPT !.state = "found",
                                     !.node = [start |-> f.frames[Len(f.frames)].start,
                                               cells |-> f.frames[Len(f.frames)].cells]]
              /\ ~Mark(tr, f.p) =>
                   find' = [f EXCEPT !.p = f.p + 1, !.frames = FramesAfter(tr, f)]
         /\ D!SkipWord =>
              f.state = "skip" /\ Kind(tr, f.p) = "prop" /\ find' = [f EXCEPT !.p = f.p + 1]
         /\ D!SkipEnd =>
              /\ f.state = "skip" /\ Kind(tr, f.p) = "end"
              /\ find' = [f EXCEPT !.state = "scan", !.p = f.p + 1, !.frames = <<>>,
                                   !.cells = f.node.cells]
         /\ D!Nop =>
              f.state \in {"scan", "skip"} /\ Kind(tr, f.p) = "nop" /\ find' = [f EXCEPT !.p = f.p + 1]
         /\ D!ScanFails =>
              /\ f.state = "scan" /\ find' = [f EXCEPT !.state = "none"]
              /\ Kind(tr, f.p) \in {"stop", "name", "past"}
                   \/ (Len(f.frames) = 0 /\ Kind(tr, f.p) \in {"end", "prop"})
         /\ D!SkipFails =>
              /\ f.state = "skip" /\ find' = [f EXCEPT !.state = "none"]
              /\ Kind(tr, f.p) \in {"begin", "stop", "name", "past"}
<1>1. \A i : D!Word(i) = At(tr, i)
  BY Zenon DEF D!Word, At
<1>2. D!w = At(tr, f.p) /\ D!w.t = Kind(tr, f.p)
  BY <1>1 DEF D!w, Kind
<1>3. Want[pc].by = "compatible" /\ Want[pc].what = "arm,pl011"
  BY DEF Want
<1>4. D!Depth = Len(f.frames) /\ D!Top = f.frames[Len(f.frames)]
  BY DEF D!Depth, D!Top
<1>5. D!Inherited = IF Len(f.frames) = 0 THEN f.cells ELSE f.frames[Len(f.frames)].cells
  BY <1>4 DEF D!Inherited
<1>6. D!ScanProp /\ Kind(tr, f.p) = "prop" =>
        (Mark(tr, f.p) <=> Want[pc].by = "compatible" /\ D!w.key = "compatible" /\ Want[pc].what \in D!w.str)
  BY <1>2, <1>3 DEF Mark, Kind
<1>7. QED
  BY <1>2, <1>3, <1>4, <1>5, <1>6, Zenon
  DEF D!Search, D!ScanOpen, D!ScanClose, D!ScanProp, D!SkipWord, D!SkipEnd, D!Nop, D!ScanFails,
      D!SkipFails, D!Found, D!NotFound, D!AfterEnd, FramesAfter

LEMMA FindParts ==
  ASSUME NEW tr, NEW f \in FindSet(tr)
  PROVE  /\ f.state \in States /\ f.p \in Nat \ {0} /\ f.frames \in Seq(Frame(tr))
         /\ f.cells \in CellSet(tr) /\ f.node \in Frame(tr)
         /\ \A n \in Nat : f.p + n \in Nat \ {0}
<1>1. /\ f.state \in States /\ f.p \in Nat \ {0} /\ f.frames \in Seq(Frame(tr))
      /\ f.cells \in CellSet(tr) /\ f.node \in Frame(tr)
  BY DEF FindSet
<1>2. QED
  BY <1>1

\* The frames when a node is entered, and when one is left.
LEMMA FramesOpen ==
  ASSUME NEW tr, NEW f \in FindSet(tr)
  PROVE  LET n == Len(f.frames)
             x == [start |-> f.p + 2, cells |-> IF n = 0 THEN f.cells ELSE f.frames[n].cells]
             h == Append(f.frames, x)
         IN /\ h \in Seq(Frame(tr)) /\ Len(h) = n + 1 /\ h[n + 1] = x
            /\ \A k \in 1 .. n : h[k] = f.frames[k]
<1> DEFINE n == Len(f.frames)
           q == f.p + 2
           c == IF n = 0 THEN f.cells ELSE f.frames[n].cells
           x == [start |-> q, cells |-> c]
           h == Append(f.frames, x)
<1>1. n \in Nat /\ q \in Nat /\ f.frames \in Seq(Frame(tr)) /\ c \in CellSet(tr)
  BY FindType
<1> HIDE DEF c, q
<1>2. x \in Frame(tr)
  BY <1>1 DEF Frame
<1> HIDE DEF x
<1>3. /\ h \in Seq(Frame(tr)) /\ Len(h) = n + 1 /\ h[n + 1] = x
      /\ \A k \in 1 .. n : h[k] = f.frames[k]
  BY <1>1, <1>2
<1>4. QED
  BY <1>3, Zenon DEF x, c, q

LEMMA FramesClose ==
  ASSUME NEW tr, NEW f \in FindSet(tr), Len(f.frames) > 0
  PROVE  LET n == Len(f.frames)
             h == SubSeq(f.frames, 1, n - 1)
         IN h \in Seq(Frame(tr)) /\ Len(h) = n - 1 /\ \A k \in 1 .. n - 1 : h[k] = f.frames[k]
<1>1. Len(f.frames) \in Nat /\ f.frames \in Seq(Frame(tr))
  BY FindType
<1>2. QED
  BY <1>1

\* The search, when a node is entered.
LEMMA StepOpen ==
  ASSUME NEW tr, WellFormed(tr), NEW f, SearchOk(tr, f), f.state = "scan", NEW g,
         Kind(tr, f.p) = "begin", NEW h \in Seq(Frame(tr)), Len(h) = Len(f.frames) + 1,
         h[Len(f.frames) + 1]
           = [start |-> f.p + 2,
              cells |-> IF Len(f.frames) = 0 THEN f.cells ELSE f.frames[Len(f.frames)].cells],
         \A k \in 1 .. Len(f.frames) : h[k] = f.frames[k],
         g = [state |-> f.state, p |-> f.p + 2, frames |-> h, cells |-> f.cells, node |-> f.node]
  PROVE  SearchOk(tr, g)
<1>1. f \in FindSet(tr) /\ Scanning(tr, f)
  BY DEF SearchOk
<1>2. f.p + 2 \in Nat \ {0}
  BY <1>1, FindType
<1>3. g \in FindSet(tr) /\ g.p = f.p + 2 /\ g.frames = h /\ g.state = "scan" /\ g.cells = f.cells
  BY <1>1, <1>2, FindParts, Full
<1>4. Scanning(tr, g)
  BY <1>1, <1>3, Opens
<1>5. QED
  BY <1>3, <1>4 DEF SearchOk

\* The search, when a node is left.
LEMMA StepClose ==
  ASSUME NEW tr, WellFormed(tr), NEW f, SearchOk(tr, f), f.state = "scan", NEW g,
         Kind(tr, f.p) = "end", Len(f.frames) > 0, NEW h \in Seq(Frame(tr)), Len(h) = Len(f.frames) - 1,
         \A k \in 1 .. Len(f.frames) - 1 : h[k] = f.frames[k],
         NEW q, Len(f.frames) = 1 => q = f.p + 2, Len(f.frames) # 1 => q = f.p + 1,
         g = [state |-> f.state, p |-> q, frames |-> h, cells |-> f.cells, node |-> f.node]
  PROVE  SearchOk(tr, g)
<1>1. f \in FindSet(tr) /\ Scanning(tr, f)
  BY DEF SearchOk
<1>2. Len(f.frames) \in Nat /\ q \in Nat \ {0}
  BY <1>1, FindType
<1>3. g \in FindSet(tr) /\ g.p = q /\ g.frames = h /\ g.state = "scan" /\ g.cells = f.cells
  BY <1>1, <1>2, FindParts, Full
<1>4. CASE Len(f.frames) = 1
  <2>1. g.frames = <<>>
    BY <1>3, <1>4
  <2>2. q = f.p + 2
    BY <1>4
  <2>3. Scanning(tr, g)
    BY <1>1, <1>3, <1>4, <2>1, <2>2, Leaves
  <2>4. QED
    BY <1>3, <2>3 DEF SearchOk
<1>5. CASE Len(f.frames) # 1
  <2>1. q = f.p + 1 /\ Len(f.frames) > 1
    <3>1. q = f.p + 1
      BY <1>5
    <3>2. \A n \in Nat : n > 0 /\ n # 1 => n > 1
      OBVIOUS
    <3>3. Len(f.frames) > 1
      BY <1>2, <1>5, <3>2, Zenon
    <3>4. QED
      BY <3>1, <3>3
  <2>2. Scanning(tr, g)
    BY <1>1, <1>3, <2>1, Closes
  <2>3. QED
    BY <1>3, <2>2 DEF SearchOk
<1>6. QED
  BY <1>4, <1>5

\* A word is passed.
LEMMA StepNop ==
  ASSUME NEW tr, WellFormed(tr), NEW f, SearchOk(tr, f), NEW g,
         \/ f.state = "scan" /\ Kind(tr, f.p) = "nop"
         \/ f.state = "skip" /\ Kind(tr, f.p) \in {"nop", "prop"},
         g = [state |-> f.state, p |-> f.p + 1, frames |-> f.frames, cells |-> f.cells,
              node |-> f.node]
  PROVE  SearchOk(tr, g)
<1>1. f \in FindSet(tr) /\ f.p \in Nat \ {0} /\ f.p + 1 \in Nat \ {0} /\ f.p \in Int
  BY FindType DEF SearchOk
<1>2. /\ g \in FindSet(tr) /\ g.p = f.p + 1 /\ g.frames = f.frames
      /\ g.state = f.state /\ g.cells = f.cells /\ g.node = f.node
  BY <1>1, FindParts, Full
<1>3. CASE f.state = "skip"
  <2>1. SkipOk(tr, f)
    BY <1>3 DEF SearchOk
  <2>2. Kind(tr, f.p) \in {"prop", "nop"}
    BY <1>3
  <2>3. SkipOk(tr, g)
    BY <1>1, <1>2, <2>1, <2>2, SkipsOne
  <2>4. QED
    BY <1>2, <1>3, <2>3 DEF SearchOk
<1>4. CASE f.state = "scan"
  <2>1. Scanning(tr, f) /\ Kind(tr, f.p) = "nop"
    BY <1>4 DEF SearchOk
  <2>2. ~Mark(tr, f.p) /\ \A s \in Nat : \A key : f.p \notin KeyOf(tr, s, key)
    BY <1>1, <2>1, NotKey
  <2>3. ASSUME NEW k \in 1 .. Len(f.frames)
        PROVE  /\ g.frames[k].start = f.frames[k].start
               /\ g.frames[k].cells = CellsOf(tr, f.frames[k].start, Around(g, k), f.p)
    <3> DEFINE s == f.frames[k].start
               c == Around(f, k)
    <3>1. s \in Nat
      BY <1>1, FindType
    <3>2. f.frames[k].cells = CellsOf(tr, s, c, f.p - 1)
      BY <2>1 DEF Scanning, FramesOk
    <3>3. Around(g, k) = c
      BY <1>2 DEF Around
    <3> HIDE DEF s, c
    <3>4. CellsOf(tr, s, c, f.p) = CellsOf(tr, s, c, f.p - 1)
      BY <1>1, <2>2, <3>1, CellsKept
    <3>5. QED
      BY <1>2, <3>2, <3>3, <3>4 DEF s
  <2>4. Scanning(tr, g)
    BY <1>1, <1>2, <2>1, <2>2, <2>3, Advance
  <2>5. QED
    BY <1>2, <1>4, <2>4 DEF SearchOk
<1>5. QED
  BY <1>3, <1>4

\* A property makes the node that is open last a serial port: it is found.
LEMMA StepFound ==
  ASSUME NEW tr, WellFormed(tr), NEW f, SearchOk(tr, f), f.state = "scan", NEW g,
         Len(f.frames) > 0, Mark(tr, f.p),
         NEW n, n = [start |-> f.frames[Len(f.frames)].start, cells |-> f.frames[Len(f.frames)].cells],
         NEW a \in States, a = "found",
         g = [state |-> a, p |-> f.p, frames |-> f.frames, cells |-> f.cells, node |-> n]
  PROVE  SearchOk(tr, g)
<1> DEFINE x == f.frames[Len(f.frames)]
<1>1. f \in FindSet(tr) /\ Scanning(tr, f)
  BY DEF SearchOk
<1>2. Len(f.frames) \in 1 .. Len(f.frames)
  BY <1>1, FindType
<1>3. x \in Frame(tr) /\ x.start \in Nat /\ x.cells \in CellSet(tr)
  BY <1>1, <1>2, FindType
<1>4. n \in Frame(tr) /\ n.start = x.start /\ n.cells = x.cells
  BY <1>3 DEF Frame
<1> HIDE DEF x
<1>5. g \in FindSet(tr) /\ g.p = f.p /\ g.state = "found" /\ g.node = n
  BY <1>1, <1>4, FindParts, Full
<1>6. FoundOk(tr, g)
  BY <1>1, <1>4, <1>5, Finds DEF x
<1>7. QED
  BY <1>5, <1>6 DEF SearchOk

\* The end of a node that cannot be used.
LEMMA StepSkipEnd ==
  ASSUME NEW tr, WellFormed(tr), NEW f, SearchOk(tr, f), f.state = "skip", NEW g \in FindSet(tr),
         Kind(tr, f.p) = "end", g.state = "scan", g.p = f.p + 1, g.frames = <<>>,
         g.cells = f.node.cells
  PROVE  SearchOk(tr, g)
<1>1. f \in FindSet(tr) /\ SkipOk(tr, f)
  BY DEF SearchOk
<1>2. Scanning(tr, g)
  BY <1>1, SkipsEnd
<1>3. QED
  BY <1>2 DEF SearchOk

\* The search ends without a node.
LEMMA StepFails ==
  ASSUME NEW tr, WellFormed(tr), NEW f, SearchOk(tr, f), NEW g,
         \/ f.state = "scan" /\ Kind(tr, f.p) \in {"stop", "name", "past"}
         \/ f.state = "scan" /\ f.frames = <<>> /\ Kind(tr, f.p) \in {"end", "prop"}
         \/ f.state = "skip",
         NEW a \in States, a = "none",
         g = [state |-> a, p |-> f.p, frames |-> f.frames, cells |-> f.cells, node |-> f.node]
  PROVE  SearchOk(tr, g)
<1>1. f \in FindSet(tr) /\ f.p \in Nat
  BY FindType DEF SearchOk
<1>2. g \in FindSet(tr) /\ g.state = "none"
  BY <1>1, FindParts, Full
<1>3. NoneOk(tr)
  <2>1. CASE f.state = "scan"
    BY <1>1, <2>1, FailsScan DEF SearchOk
  <2>2. CASE f.state = "skip"
    <3>1. Passed(tr, f.p) /\ f.node.start \in UnusableOf(tr) /\ f.node.start <= f.p
      BY <2>2 DEF SearchOk, SkipOk, NodeOk
    <3>2. \A i \in UsableOf(tr) : f.node.start < i
      BY <1>1, <3>1, HiddenBehind
    <3>3. QED
      BY <3>1, <3>2 DEF NoneOk
  <2>3. QED
    BY <2>1, <2>2
<1>4. QED
  BY <1>2, <1>3 DEF SearchOk

\* The search goes on from a node that cannot be used.
LEMMA StepAgain ==
  ASSUME NEW tr, WellFormed(tr), NEW f, SearchOk(tr, f), f.state = "found", NEW g,
         ~WorksIn(tr, f.node.start),
         NEW a \in States, a = "skip",
         g = [state |-> a, p |-> f.node.start, frames |-> f.frames, cells |-> f.cells,
              node |-> f.node]
  PROVE  SearchOk(tr, g)
<1> DEFINE s == f.node.start
<1>1. f \in FindSet(tr) /\ FoundOk(tr, f)
  BY DEF SearchOk
<1>2. s \in UartsOf(tr) /\ s \in NodesOf(tr) /\ s <= f.p
  BY <1>1 DEF FoundOk, NodeOk, UartsOf
<1>3. s \in Nat \ {0} /\ f.p \in Nat
  BY <1>1, <1>2, Heads, FindType
<1>4. g \in FindSet(tr) /\ g.p = s /\ g.state = "skip" /\ g.node = f.node
  BY <1>1, <1>3, FindParts, Full
<1>5. s \in UnusableOf(tr)
  BY <1>2 DEF UnusableOf, UsableOf
<1>6. NodeOk(tr, g)
  BY <1>1, <1>3, <1>4 DEF FoundOk, NodeOk
<1>7. Passed(tr, s)
  <2> SUFFICES ASSUME NEW i \in UsableOf(tr), NEW j \in OwnOf(tr, i), Mark(tr, j) PROVE j >= s
    BY DEF Passed
  <2>1. j >= f.p
    BY <1>1 DEF FoundOk, Passed
  <2>2. i \in NodesOf(tr) /\ i \in Nat
    BY Heads DEF UsableOf, UartsOf
  <2>3. j \in Int
    BY <2>2, Owns
  <2>4. QED
    BY <1>2, <1>3, <2>1, <2>3
<1>8. QED
  BY <1>4, <1>5, <1>6, <1>7 DEF SearchOk, SkipOk

\* Every step of the search keeps what it has found out.
LEMMA SearchNext ==
  ASSUME m \in Machines, pc = "serial", SearchOk(m.tree, find),
         D!Scan \/ (D!SearchAgain /\ ~D!is_node_operational(find.node))
  PROVE  SearchOk(m.tree, find')
<1> DEFINE tr == m.tree
           P == Nat \ {0}
           F == Seq(Frame(tr))
           C == CellSet(tr)
           N == Frame(tr)
<1>1. WellFormed(tr) /\ SearchOk(tr, find) /\ find \in FindSet(tr)
  BY TreeAssumption DEF SearchOk
<1>2. find \in [state : States, p : P, frames : F, cells : C, node : N]
  BY <1>1 DEF FindSet
<1>3. find.p \in P /\ find.frames \in F /\ find.cells \in C /\ find.node \in N
  BY <1>2
<1>t. tr = m.tree
  OBVIOUS
<1> HIDE DEF P, F, C, N, tr
<1>5. CASE D!Search
  <2> DEFINE n == [start |-> 0, cells |-> Default]
             h == <<>>
  <2>1. find' = [state |-> "scan", p |-> 1, frames |-> h, cells |-> Default, node |-> n]
    BY <1>5 DEF D!Search, D!Idle, D!NoNode, D!DefaultCells, Default
  <2>2. Default \in CellSet(tr) /\ h \in Seq(Frame(tr)) /\ 1 \in Nat \ {0}
    BY DEF Default, CellSet, Vals
  <2> HIDE DEF h
  <2>3. n \in Frame(tr)
    BY <2>2 DEF Frame
  <2> HIDE DEF n
  <2>4. find' \in FindSet(tr)
    BY <2>1, <2>2, <2>3 DEF FindSet, States
  <2>5. find'.state = "scan" /\ find'.p = 1 /\ find'.frames = <<>>
    BY <2>1 DEF h
  <2>6. Scanning(tr, find')
    BY <1>1, <2>4, <2>5, Begins
  <2>7. QED
    BY <1>t, <2>4, <2>5, <2>6 DEF SearchOk
<1>6. CASE D!ScanOpen
  <2> DEFINE n == Len(find.frames)
             x == [start |-> find.p + 2, cells |-> IF n = 0 THEN find.cells ELSE find.frames[n].cells]
             h == Append(find.frames, x)
             q == find.p + 2
  <2>1. /\ find.state = "scan" /\ Kind(tr, find.p) = "begin"
        /\ find' = [find EXCEPT !.p = q, !.frames = h]
    BY <1>6, <1>t, Moves
  <2>2. /\ h \in Seq(Frame(tr)) /\ Len(h) = n + 1 /\ h[n + 1] = x
        /\ \A k \in 1 .. n : h[k] = find.frames[k]
    BY <1>1, FramesOpen
  <2> HIDE DEF h, q
  <2>3. find' = [state |-> find.state, p |-> q, frames |-> h, cells |-> find.cells, node |-> find.node]
    BY <1>2, <2>1
  <2>4. find' = [state |-> find.state, p |-> find.p + 2, frames |-> h, cells |-> find.cells,
                 node |-> find.node]
    BY <2>3 DEF q
  <2>5. QED
    BY <1>1, <1>t, <2>1, <2>2, <2>4, StepOpen, ZenonT(30)
<1>7. CASE D!ScanClose
  <2> DEFINE n == Len(find.frames)
             h == SubSeq(find.frames, 1, n - 1)
             q == find.p + (IF n = 1 THEN 2 ELSE 1)
  <2>1. /\ find.state = "scan" /\ Kind(tr, find.p) = "end" /\ n > 0
        /\ find' = [find EXCEPT !.p = q, !.frames = h]
    BY <1>7, <1>t, Moves
  <2>2. h \in Seq(Frame(tr)) /\ Len(h) = n - 1 /\ \A k \in 1 .. n - 1 : h[k] = find.frames[k]
    BY <1>1, <2>1, FramesClose
  <2>3. (n = 1 => q = find.p + 2) /\ (n # 1 => q = find.p + 1)
    OBVIOUS
  <2> HIDE DEF h, q
  <2>4. find' = [state |-> find.state, p |-> q, frames |-> h, cells |-> find.cells, node |-> find.node]
    BY <1>2, <2>1
  <2>5. QED
    BY <1>1, <1>t, <2>1, <2>2, <2>3, <2>4, StepClose
<1>8. CASE D!ScanProp
  <2>1. find.state = "scan" /\ Kind(tr, find.p) = "prop" /\ Len(find.frames) > 0
    BY <1>8, <1>t, Moves
  <2>2. CASE Mark(tr, find.p)
    <3> DEFINE n == [start |-> find.frames[Len(find.frames)].start,
                     cells |-> find.frames[Len(find.frames)].cells]
               a == "found"
    <3>1. find' = [find EXCEPT !.state = a, !.node = n]
      BY <1>8, <1>t, <2>2, Moves
    <3> HIDE DEF n
    <3>2. find' = [state |-> a, p |-> find.p, frames |-> find.frames, cells |-> find.cells, node |-> n]
      BY <1>2, <3>1
    <3>3. a \in States /\ a = "found"
      BY DEF States
    <3> HIDE DEF a
    <3>4. QED
      BY <1>1, <1>t, <2>1, <2>2, <3>2, <3>3, StepFound DEF n
  <2>3. CASE ~Mark(tr, find.p)
    <3> DEFINE h == FramesAfter(tr, find)
               g == [find EXCEPT !.p = find.p + 1, !.frames = h]
    <3>1. find' = g
      BY <1>8, <1>t, <2>3, Moves, ZenonT(30)
    <3>2. Scanning(tr, find)
      BY <1>1, <2>1 DEF SearchOk
    <3>3. g \in FindSet(tr) /\ Scanning(tr, g)
      <4>1. h = FramesAfter(tr, find)
        OBVIOUS
      <4>2. g = [find EXCEPT !.p = @ + 1, !.frames = h]
        OBVIOUS
      <4> HIDE DEF h, g
      <4>3. QED
        BY <1>1, <2>1, <2>3, <3>2, <4>1, <4>2, PassesProp
    <3> HIDE DEF h
    <3>4. g.state = "scan"
      BY <1>2, <2>1
    <3> HIDE DEF g
    <3>5. QED
      BY <1>t, <3>1, <3>3, <3>4 DEF SearchOk
  <2>4. QED
    BY <2>2, <2>3
<1>9. CASE D!SkipWord \/ D!Nop
  <2> DEFINE q == find.p + 1
  <2>1. /\ \/ find.state = "scan" /\ Kind(tr, find.p) = "nop"
           \/ find.state = "skip" /\ Kind(tr, find.p) \in {"nop", "prop"}
        /\ find' = [find EXCEPT !.p = q]
    BY <1>9, <1>t, Moves
  <2>2. find' = [state |-> find.state, p |-> find.p + 1, frames |-> find.frames, cells |-> find.cells,
                 node |-> find.node]
    BY <1>2, <2>1
  <2>3. QED
    BY <1>1, <1>t, <2>1, <2>2, StepNop
<1>10. CASE D!SkipEnd
  <2> DEFINE q == find.p + 1
             c == find.node.cells
             h == <<>>
             a == "scan"
  <2>1. /\ find.state = "skip" /\ Kind(tr, find.p) = "end"
        /\ find' = [find EXCEPT !.state = a, !.p = q, !.frames = h, !.cells = c]
    BY <1>10, <1>t, Moves
  <2>2. h \in Seq(Frame(tr)) /\ Len(h) = 0 /\ a \in States /\ a = "scan"
    BY DEF States
  <2> HIDE DEF h, a
  <2>q. q \in Nat \ {0} /\ q = find.p + 1 /\ c \in CellSet(tr) /\ c = find.node.cells
    BY <1>1, FindType
  <2> HIDE DEF q, c
  <2>3. find' = [state |-> a, p |-> q, frames |-> h, cells |-> c, node |-> find.node]
    BY <1>2, <2>1
  <2>4. q \in P /\ h \in F /\ c \in C
    BY <2>2, <2>q DEF P, F, C
  <2>5. find' \in [state : States, p : P, frames : F, cells : C, node : N]
    BY <1>3, <2>2, <2>3, <2>4
  <2>6. find' \in FindSet(tr)
    BY <2>5 DEF FindSet, P, F, C, N
  <2>7. find'.state = a /\ find'.p = q /\ find'.frames = h /\ find'.cells = c
    BY <2>3
  <2>8. find'.state = "scan" /\ find'.p = find.p + 1 /\ find'.frames = <<>> /\ find'.cells = find.node.cells
    BY <2>7 DEF a, q, h, c
  <2>9. QED
    BY <1>1, <1>t, <2>1, <2>6, <2>8, StepSkipEnd
<1>11. CASE D!ScanFails \/ D!SkipFails
  <2> DEFINE a == "none"
  <2>1. /\ \/ find.state = "scan" /\ Kind(tr, find.p) \in {"stop", "name", "past"}
           \/ find.state = "scan" /\ Len(find.frames) = 0 /\ Kind(tr, find.p) \in {"end", "prop"}
           \/ find.state = "skip"
        /\ find' = [find EXCEPT !.state = a]
    BY <1>11, <1>t, Moves
  <2>2. Len(find.frames) = 0 => find.frames = <<>>
    BY <1>1, FindType
  <2>3. find' = [state |-> a, p |-> find.p, frames |-> find.frames, cells |-> find.cells,
                 node |-> find.node]
    BY <1>2, <2>1
  <2>4. a \in States /\ a = "none"
    BY DEF States
  <2> HIDE DEF a
  <2>5. QED
    BY <1>1, <1>t, <2>1, <2>2, <2>3, <2>4, StepFails
<1>12. CASE D!SearchAgain /\ ~D!is_node_operational(find.node)
  <2> DEFINE a == "skip"
             q == find.node.start
  <2>1. find.state = "found" /\ find' = [find EXCEPT !.state = a, !.p = q]
    BY <1>12 DEF D!SearchAgain
  <2>2. ~WorksIn(tr, find.node.start)
    BY <1>12, <1>t, SameWorks
  <2>3. find' = [state |-> a, p |-> q, frames |-> find.frames, cells |-> find.cells, node |-> find.node]
    BY <1>2, <2>1
  <2>4. a \in States /\ a = "skip"
    BY DEF States
  <2> HIDE DEF a
  <2>5. QED
    BY <1>1, <1>t, <2>1, <2>2, <2>3, <2>4, StepAgain
<1>13. QED
  BY <1>5, <1>6, <1>7, <1>8, <1>9, <1>10, <1>11, <1>12 DEF D!Scan

\* A node that was found and works is the first one that can be used.
LEMMA FoundFirst ==
  ASSUME NEW tr, WellFormed(tr), NEW f \in FindSet(tr), FoundOk(tr, f), WorksIn(tr, f.node.start)
  PROVE  f.node.start \in UsableOf(tr) /\ FirstOne(UsableOf(tr)) = f.node.start
<1> DEFINE s == f.node.start
<1>1. s \in UsableOf(tr) /\ s \in NodesOf(tr) /\ s <= f.p /\ Passed(tr, f.p)
  BY DEF FoundOk, NodeOk, UsableOf, UartsOf
<1>2. s \in Nat /\ f.p \in Nat
  BY <1>1, Heads, FindType
<1> HIDE DEF s
<1>3. ASSUME NEW i \in UsableOf(tr) PROVE i \in Nat /\ s <= i
  <2>1. i \in NodesOf(tr) /\ i \in Nat
    BY Heads DEF UsableOf, UartsOf
  <2>2. PICK j \in OwnOf(tr, i) : Mark(tr, j)
    BY DEF UsableOf, UartsOf
  <2>3. j >= f.p /\ j \in Int
    BY <1>1, <2>1, <2>2, Owns DEF Passed
  <2>4. i < s => j < s - 2
    BY <1>1, <2>1, Apart2
  <2>5. QED
    BY <1>1, <1>2, <2>1, <2>3, <2>4
<1>4. \A i \in UsableOf(tr) : (\A j \in UsableOf(tr) : i <= j) => i = s
  BY <1>1, <1>2, <1>3
<1>5. FirstOne(UsableOf(tr)) = s
  <2>1. \A j \in UsableOf(tr) : s <= j
    BY <1>3
  <2>2. QED
    BY <1>1, <1>4, <2>1 DEF FirstOne
<1>6. QED
  BY <1>1, <1>5 DEF s

\* What Serial reads from the node is what its reg says, unless one of the exceptions
\* applies.
LEMMA FoundRight ==
  ASSUME m \in Machines, SearchOk(m.tree, find), find.state = "found",
         D!is_node_operational(find.node)
  PROVE  Usable # {} /\ (Misread \/ D!read_reg_property(find.node, 0) = UartReg)
<1> DEFINE tr == m.tree
           s == find.node.start
<1>1. WellFormed(tr) /\ find \in FindSet(tr) /\ FoundOk(tr, find) /\ WorksIn(tr, s)
  BY TreeAssumption, SameWorks DEF SearchOk
<1>2. s \in UsableOf(tr) /\ FirstOne(UsableOf(tr)) = s
  BY <1>1, FoundFirst
<1>3. Usable # {} /\ Uart = s
  BY <1>2, SameUarts
<1>4. \/ OddOf(tr) \/ ~GivenOf(tr, s) \/ Deeper(tr, s, LevelOf(tr, s))
      \/ find.node.cells = TrueOf(tr, s)
  BY <1>1 DEF FoundOk, NodeOk
<1>5. Deeper(tr, s, LevelOf(tr, s)) => LeftBus
  BY <1>3, SameUarts, SameNodes DEF Deeper, LeftBus, UnusableOf
<1>6. GivenOf(tr, s) <=> T!GivenCells(Uart)
  BY <1>3, SameNodes
<1>7. OddOf(tr) <=> OddCells
  BY SameUarts
<1>8. ASSUME find.node.cells = TrueOf(tr, s) PROVE D!read_reg_property(find.node, 0) = UartReg
  <2>1. T!TrueCells(Uart) = find.node.cells
    BY <1>3, <1>8, SameNodes
  <2>2. find.node \in Frame(tr)
    BY <1>1, FindType
  <2>3. find.node = [start |-> s, cells |-> find.node.cells]
    BY <2>2 DEF Frame
  <2>4. UartReg = T!read_reg_property([start |-> s, cells |-> find.node.cells], 0)
    BY <1>3, <2>1 DEF UartReg
  <2>5. QED
    BY <2>3, <2>4, SameReg
<1>9. QED
  BY <1>3, <1>4, <1>5, <1>6, <1>7, <1>8 DEF Misread

\* What it means that no node was found.
LEMMA NoneRight ==
  ASSUME SearchOk(m.tree, find), find.state = "none"
  PROVE  Usable = {} \/ Hidden
<1>1. NoneOk(m.tree)
  BY DEF SearchOk
<1>2. QED
  BY <1>1, SameUarts DEF NoneOk, Hidden, UnusableOf

\* What the properties say of the tree, for a tree that does not change.
HiddenOf(tr) == \E i \in UnusableOf(tr) : \A j \in UsableOf(tr) : i < j

MisreadOf(tr) ==
  LET s == FirstOne(UsableOf(tr)) IN OddOf(tr) \/ Deeper(tr, s, LevelOf(tr, s)) \/ ~GivenOf(tr, s)

ReadOf(tr, n) ==
  LET st == KeyOf(tr, n.start, "reg")
      i  == IF st = {} THEN 0 ELSE FirstOne(st)
      c  == CellsOf(tr, n.start, n.cells, i)
      lo == (c.address + c.size) * 0
  IN IF i = 0 \/ lo + c.address + c.size > Len(At(tr, i).num) THEN T!NoReg
     ELSE [base |-> T!Number(At(tr, i).num, lo, c.address),
           size |-> T!Number(At(tr, i).num, lo + c.address, c.size)]

RegOf(tr) == LET s == FirstOne(UsableOf(tr)) IN ReadOf(tr, [start |-> s, cells |-> TrueOf(tr, s)])

LEMMA SameRight ==
  /\ Usable = UsableOf(m.tree)
  /\ Hidden <=> HiddenOf(m.tree)
  /\ Misread <=> MisreadOf(m.tree)
  /\ UartReg = RegOf(m.tree)
<1>1. Hidden <=> HiddenOf(m.tree)
  BY SameUarts DEF Hidden, HiddenOf, UnusableOf
<1>2. Misread <=> MisreadOf(m.tree)
  <2>1. LeftBus <=> Deeper(m.tree, Uart, LevelOf(m.tree, Uart))
    BY SameUarts, SameNodes DEF Deeper, LeftBus, UnusableOf
  <2>2. QED
    BY <2>1, SameUarts, SameNodes DEF Misread, MisreadOf
<1>3. \A n, i : T!CellsAt(n, i) = CellsOf(m.tree, n.start, n.cells, i)
  BY Same DEF T!CellsAt, CellsOf, CellOf
<1>4. \A n : T!get_property(n, "reg")
               = IF KeyOf(m.tree, n.start, "reg") = {} THEN 0 ELSE FirstOne(KeyOf(m.tree, n.start, "reg"))
  BY Same DEF T!get_property
<1>5. ASSUME NEW n PROVE T!read_reg_property(n, 0) = ReadOf(m.tree, n)
  <2> DEFINE i == T!get_property(n, "reg")
             c == T!CellsAt(n, i)
             w == T!Word(i)
             lo == (c.address + c.size) * 0
             read == IF i = 0 \/ lo + c.address + c.size > Len(w.num) THEN T!NoReg
                     ELSE [base |-> T!Number(w.num, lo, c.address),
                           size |-> T!Number(w.num, lo + c.address, c.size)]
  <2>1. T!read_reg_property(n, 0) = read
    BY Zenon DEF T!read_reg_property
  <2>2. /\ i = IF KeyOf(m.tree, n.start, "reg") = {} THEN 0 ELSE FirstOne(KeyOf(m.tree, n.start, "reg"))
        /\ c = CellsOf(m.tree, n.start, n.cells, i) /\ w = At(m.tree, i)
    BY <1>3, <1>4, Same
  <2> HIDE DEF i, c, w
  <2>3. ReadOf(m.tree, n) = read
    BY <2>2, Zenon DEF ReadOf
  <2>4. QED
    BY <2>1, <2>3
<1>6. UartReg = RegOf(m.tree)
  BY <1>5, SameUarts, SameNodes DEF UartReg, RegOf
<1>7. QED
  BY <1>1, <1>2, <1>6, SameUarts

\* A step leaves the tree as it is.
LEMMA Rigid ==
  ASSUME m' = m
  PROVE  /\ Usable' = Usable /\ UartReg' = UartReg
         /\ Hidden' <=> Hidden
         /\ Misread' <=> Misread
<1>1. /\ (Usable = UsableOf(m.tree))'
      /\ (Hidden <=> HiddenOf(m.tree))'
      /\ (Misread <=> MisreadOf(m.tree))'
      /\ (UartReg = RegOf(m.tree))'
  BY SameRight, PTL
<1>2. QED
  BY <1>1, SameRight

-----------------------------------------------------------------------------

\* Init: nothing was searched yet.
LEMMA SInit == Init => SInv
<1> SUFFICES ASSUME Init PROVE SInv
  OBVIOUS
<1>1. find = T!Idle
  BY DEF Init, D!Idle, T!Idle, D!NoNode, T!NoNode, D!DefaultCells, T!DefaultCells
<1>2. m \in Machines /\ pc = "args" /\ code = "none" /\ uart = [base |-> -1, irq |-> FALSE]
  BY DEF Init
<1>3. SerialRight
  BY <1>2 DEF SerialRight
<1>4. SerialMissed
  BY <1>2 DEF SerialMissed
<1>5. QED
  BY <1>1, <1>2, <1>3, <1>4 DEF SInv

\* The CPU's address of a peripheral is what translate_rpi4_peripheral_address returns.
LEMMA Translated == ASSUME NEW a PROVE SeenAt(a, translate_rpi4_peripheral_address(a))
<1>1. CASE rpi4 /\ \E w \in Windows : InWindow(a, w)
  <2> DEFINE w == CHOOSE w \in Windows : InWindow(a, w)
  <2>1. w \in Windows /\ InWindow(a, w)
    BY <1>1
  <2>2. translate_rpi4_peripheral_address(a) = a - w.from + w.to
    BY <1>1 DEF translate_rpi4_peripheral_address
  <2> HIDE DEF w
  <2>3. QED
    BY <1>1, <2>1, <2>2 DEF SeenAt
<1>2. CASE ~(rpi4 /\ \E w \in Windows : InWindow(a, w))
  BY <1>2 DEF SeenAt, translate_rpi4_peripheral_address
<1>3. QED
  BY <1>1, <1>2

\* A step that leaves the serial port alone and stops, if it does, for another reason.
LEMMA SameRest ==
  ASSUME SInv, m' = m, uart' = uart
  PROVE  /\ (code' = code \/ code' \notin {"6", "7"}) => SerialRight'
         /\ (code' = code \/ code' # "5") => SerialMissed'
<1>1. /\ Usable' = Usable /\ UartReg' = UartReg /\ (Hidden' <=> Hidden) /\ (Misread' <=> Misread)
      /\ T!NoReg' = T!NoReg
  BY Rigid DEF T!NoReg
<1>2. SeenAt(UartReg.base, uart.base)' <=> SeenAt(UartReg.base, uart.base)
  BY <1>1 DEF SeenAt, rpi4, InWindow
<1>3. (code' = code \/ code' # "5") => SerialMissed'
  BY <1>1 DEF SInv, SerialMissed
<1>4. (code' = code \/ code' \notin {"6", "7"}) => SerialRight'
  BY <1>1, <1>2 DEF SInv, SerialRight
<1>5. QED
  BY <1>3, <1>4

\* A step that leaves the serial port alone and goes on behind the search for it,
\* stops for another reason, or changes neither.
LEMMA Quiet ==
  ASSUME SInv, m' = m, uart' = uart,
         \/ pc' = pc /\ find' = find
         \/ pc' = "stopped"
         \/ pc \notin {"args", "serial", "stopped"} /\ pc' \notin {"args", "serial", "stopped"},
         \/ code' = code /\ (pc' = "stopped" => pc = "stopped")
         \/ pc' = "stopped" /\ code' \in {"panic", "no VM"}
  PROVE  SInv'
<1>1. /\ Usable' = Usable /\ UartReg' = UartReg /\ (Hidden' <=> Hidden) /\ (Misread' <=> Misread)
      /\ T!Idle' = T!Idle /\ T!NoReg' = T!NoReg
  BY Rigid DEF T!Idle, T!NoReg, T!NoNode, T!DefaultCells
<1>2. SerialRight' /\ SerialMissed'
  BY <1>1, SameRest
<1>3. QED
  BY <1>1, <1>2 DEF SInv, rpi4

LEMMA SNext ==
  ASSUME SInv, [Next]_vars
  PROVE  SInv'
<1> DEFINE other == {"args", "serial", "stopped"}
<1>m. m \in Machines /\ (qemu \/ rpi4)
  BY MachineAssumption DEF SInv, qemu, rpi4
<1>1. CASE Arguments
  <2>1. /\ pc = "args" /\ UNCHANGED <<m, find, uart>>
        /\ \/ pc' = "stopped" /\ code' = "1" /\ "argc" \in m.faults
           \/ pc' = "stopped" /\ code' = "2" /\ "utf8" \in m.faults
           \/ pc' = "stopped" /\ code' = "3" /\ "number" \in m.faults
           \/ pc' = "stopped" /\ code' = "4" /\ "header" \in m.faults
           \/ pc' = "serial" /\ code' = code
    BY <1>1 DEF Arguments, Stop, Go
  <2>2. SerialRight' /\ SerialMissed'
    BY <2>1, SameRest
  <2>5. SearchOk(m.tree, find)
    <3> DEFINE tr == m.tree
               n == [start |-> 0, cells |-> Default]
               h == <<>>
    <3>1. find = [state |-> "idle", p |-> 1, frames |-> h, cells |-> Default, node |-> n]
      BY <2>1 DEF SInv, T!Idle, T!NoNode, T!DefaultCells, Default
    <3>2. Default \in CellSet(tr) /\ h \in Seq(Frame(tr)) /\ 1 \in Nat \ {0}
      BY DEF Default, CellSet, Vals
    <3> HIDE DEF h
    <3>3. n \in Frame(tr)
      BY <3>2 DEF Frame
    <3> HIDE DEF n
    <3>4. find \in FindSet(tr)
      BY <3>1, <3>2, <3>3 DEF FindSet, States
    <3>5. find.state = "idle"
      BY <3>1
    <3>6. QED
      BY <3>4, <3>5 DEF SearchOk
  <2>6. (SearchOk(m.tree, find))'
    BY <2>1, <2>5
  <2>7. QED
    BY <2>1, <2>2, <2>6 DEF SInv
<1>2. CASE Scan \/ SerialAgain
  <2>1. UNCHANGED <<m, pc, code, uart>>
    BY <1>2 DEF Scan, SerialAgain
  <2>2. SerialRight' /\ SerialMissed'
    BY <2>1, SameRest
  <2>5. pc # "args"
    BY <1>2 DEF Scan, SerialAgain, Searching, Want
  <2>6. ASSUME pc = "serial" PROVE SearchOk(m.tree, find')
    <3>1. D!Scan \/ (D!SearchAgain /\ ~D!is_node_operational(find.node))
      BY <1>2 DEF Scan, SerialAgain
    <3>2. QED
      BY <1>m, <2>6, <3>1, SearchNext DEF SInv
  <2>7. (pc = "serial" => SearchOk(m.tree, find))'
    BY <2>1, <2>6
  <2>8. QED
    BY <2>1, <2>2, <2>5, <2>7 DEF SInv, rpi4
<1>3. CASE SerialNone
  <2>1. /\ pc = "serial" /\ find.state = "none" /\ pc' = "stopped" /\ code' = "5"
        /\ UNCHANGED <<m, find, uart>>
    BY <1>3 DEF SerialNone, Stop
  <2>2. Usable' = Usable /\ UartReg' = UartReg /\ (Hidden' <=> Hidden) /\ (Misread' <=> Misread)
    BY <2>1, Rigid
  <2>3. Usable = {} \/ Hidden
    BY <2>1, NoneRight DEF SInv
  <2>4. SerialRight'
    BY <2>1, SameRest
  <2>5. SerialMissed'
    BY <2>1, <2>2, <2>3 DEF SerialMissed
  <2>6. QED
    BY <1>m, <2>1, <2>4, <2>5 DEF SInv
<1>4. CASE Serial
  <2> DEFINE reg == D!read_reg_property(find.node, 0)
  <2>1. /\ pc = "serial" /\ find.state = "found" /\ D!is_node_operational(find.node) /\ m' = m
        /\ \/ pc' = "stopped" /\ code' = "6" /\ uart' = uart /\ reg = T!NoReg
           \/ pc' = "stopped" /\ code' = "panic" /\ uart' = uart
           \/ pc' = "stopped" /\ code' = "7" /\ uart' = uart /\ reg.size < UartSize
           \/ /\ pc' = "memory" /\ code' = code
              /\ uart'.base = translate_rpi4_peripheral_address(reg.base) /\ (rpi4 => uart'.irq)
    <3> DEFINE i == D!get_property(find.node, "interrupts")
               irq == rpi4 \/ D!Word(i).str = {"SPI level"}
               at == translate_rpi4_peripheral_address(reg.base)
    <3>1. /\ pc = "serial" /\ find.state = "found" /\ D!is_node_operational(find.node) /\ m' = m
          /\ \/ pc' = "stopped" /\ code' = "6" /\ uart' = uart /\ reg = D!NoReg
             \/ pc' = "stopped" /\ code' = "panic" /\ uart' = uart
             \/ pc' = "stopped" /\ code' = "7" /\ uart' = uart /\ reg.size < UartSize
             \/ pc' = "memory" /\ code' = code /\ uart' = [base |-> at, irq |-> irq]
      BY <1>4, Zenon DEF Serial, Stop, Go
    <3>2. rpi4 => irq
      OBVIOUS
    <3> HIDE DEF reg, irq, at
    <3>3. uart' = [base |-> at, irq |-> irq] => uart'.base = at /\ uart'.irq = irq
      OBVIOUS
    <3>4. QED
      BY <3>1, <3>2, <3>3, SameReg, Zenon DEF at
  <2>2. /\ Usable' = Usable /\ UartReg' = UartReg /\ (Hidden' <=> Hidden) /\ (Misread' <=> Misread)
        /\ T!NoReg' = T!NoReg
    BY <2>1, Rigid DEF T!NoReg
  <2>3. Usable # {} /\ (Misread \/ reg = UartReg)
    BY <1>m, <2>1, FoundRight DEF SInv
  <2> HIDE DEF reg
  <2>4. SerialRight'
    <3>1. CASE code' \in {"6", "7"} /\ uart' = uart
      <4>1. uart.base # -1 => Usable # {} /\ (Misread \/ SeenAt(UartReg.base, uart.base))
        BY DEF SInv, SerialRight
      <4>2. SeenAt(UartReg.base, uart.base)' <=> SeenAt(UartReg.base, uart.base)
        BY <2>1, <2>2, <3>1 DEF SeenAt, rpi4, InWindow
      <4>3. /\ code' = "6" => Misread \/ UartReg = T!NoReg
            /\ code' = "7" => Misread \/ UartReg.size < UartSize
        <5>1. code = "none"
          BY <2>1 DEF SInv
        <5>2. QED
          BY <2>1, <2>3, <3>1, <5>1
      <4>4. QED
        BY <2>2, <3>1, <4>1, <4>2, <4>3, Zenon DEF SerialRight
    <3>2. CASE code' = "panic" /\ uart' = uart
      BY <2>1, <3>2, SameRest
    <3>3. CASE code' = code /\ uart'.base = translate_rpi4_peripheral_address(reg.base)
      <4>1. code' = "none"
        BY <2>1, <3>3 DEF SInv
      <4>2. Misread \/ SeenAt(UartReg.base, uart'.base)
        BY <2>3, <3>3, Translated
      <4>3. SeenAt(UartReg.base, uart.base)' <=> SeenAt(UartReg.base, uart'.base)
        BY <2>1, <2>2 DEF SeenAt, rpi4, InWindow
      <4>4. QED
        BY <2>2, <2>3, <4>1, <4>2, <4>3 DEF SerialRight
    <3>4. QED
      BY <2>1, <3>1, <3>2, <3>3
  <2>5. SerialMissed'
    BY <2>1 DEF SInv, SerialMissed
  <2>6. QED
    BY <1>m, <2>1, <2>4, <2>5 DEF SInv, rpi4
<1>5. CASE EnableUart
  <2>1. /\ pc = "uart" /\ UNCHANGED <<m, find, uart>>
        /\ \/ pc' \in {"disk", "timer"} /\ code' = code
           \/ pc' = "stopped" /\ code' = "hang" /\ ~uart.irq
    BY <1>5 DEF EnableUart, Stop, Go
  <2>2. CASE code' = code /\ pc' \in {"disk", "timer"}
    BY <2>1, <2>2, Quiet
  <2>3. CASE pc' = "stopped" /\ code' = "hang" /\ ~uart.irq
    <3>1. SerialRight' /\ SerialMissed'
      BY <2>1, <2>3, SameRest
    <3>2. QED
      BY <1>m, <2>1, <2>3, <3>1 DEF SInv
  <2>4. QED
    BY <2>1, <2>2, <2>3
<1>6. CASE SetupMemory \/ EnableIrq \/ InitGic \/ DiskAgain \/ Disk \/ Timer
  <2>1. /\ m' = m /\ uart' = uart /\ pc \notin other
        /\ \/ code' = code /\ pc' \notin other
           \/ code' = "panic" /\ pc' = "stopped"
    BY <1>6 DEF SetupMemory, EnableIrq, InitGic, DiskAgain, Disk, Timer, Stop, Go, Unless
  <2>2. QED
    BY <2>1, Quiet
<1>7. CASE AllocateRam \/ CheckImages \/ MapRam \/ CheckLayout \/ CheckMagic \/ PushVm \/ BootVm
  <2>1. /\ m' = m /\ uart' = uart /\ pc \notin other
        /\ \/ code' = code /\ pc' \notin other
           \/ code' = "panic" /\ pc' = "stopped"
    BY <1>7 DEF AllocateRam, CheckImages, MapRam, CheckLayout, CheckMagic, PushVm, BootVm, Stop, Go, Unless
  <2>2. QED
    BY <2>1, Quiet
<1>8. CASE \/ Load("dtb", "load dtb", "load kernel")
           \/ Load("kernel", "load kernel", "load initramfs")
           \/ Load("initramfs", "load initramfs", "magic")
  <2>1. /\ m' = m /\ uart' = uart /\ pc \notin other
        /\ \/ code' = code /\ pc' \notin other
           \/ code' = "panic" /\ pc' = "stopped"
    BY <1>8 DEF Load, Stop, Go
  <2>2. QED
    BY <2>1, Quiet
<1>9. ASSUME NEW s \in Signals, Raise(s) PROVE SInv'
  <2>1. UNCHANGED <<m, pc, find, code, uart>>
    BY <1>9 DEF Raise
  <2>2. QED
    BY <2>1, Quiet
<1>10. ASSUME NEW s \in Signals \cup {"sgi"}, Irq(s) PROVE SInv'
  <2>1. /\ UNCHANGED <<m, find, uart>>
        /\ \/ pc' = pc /\ code' = code
           \/ pc' = "stopped" /\ code' = "no VM"
    BY <1>10 DEF Irq, Stop
  <2>2. QED
    BY <2>1, Quiet
<1>11. CASE UNCHANGED vars
  <2>1. UNCHANGED <<m, pc, find, code, uart>>
    BY <1>11 DEF vars
  <2>2. QED
    BY <2>1, Quiet
<1>12. QED
  BY <1>1, <1>2, <1>3, <1>4, <1>5, <1>6, <1>7, <1>8, <1>9, <1>10, <1>11 DEF Next, Main

\* The serial port is the first node of the tree that is compatible and operational,
\* at the CPU's address of its reg in the cells of its parent, and given up for its reg
\* only, for every tree that has the form of the specification: however deep the nodes
\* lie, whatever properties stand between, and over however many unusable nodes the
\* search goes on.  Excepted are the trees whose cells the search takes from other nodes.
THEOREM SerialIsRight == Spec => []SerialRight
<1>1. Init => SInv
  BY SInit
<1>2. SInv /\ [Next]_vars => SInv'
  BY SNext
<1>3. SInv => SerialRight
  BY DEF SInv
<1>4. QED
  BY <1>1, <1>2, <1>3, PTL DEF Spec

\* The search misses a usable serial port in one case only, for every tree: an unusable
\* one stands in front of all that are usable.  main returns 5 then, too.
THEOREM SerialMissedOnlyHidden == Spec => []SerialMissed
<1>1. Init => SInv
  BY SInit
<1>2. SInv /\ [Next]_vars => SInv'
  BY SNext
<1>3. SInv => SerialMissed
  BY DEF SInv
<1>4. QED
  BY <1>1, <1>2, <1>3, PTL DEF Spec
=============================================================================
