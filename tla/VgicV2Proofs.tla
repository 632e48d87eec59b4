---------------------------- MODULE VgicV2Proofs ----------------------------
(***************************************************************************)
(* Proofs about the interrupt virtualisation of the rpi4 build, for every  *)
(* guest, every timer PPI and every depth of the physical and emulated     *)
(* receive FIFOs.                                                          *)
(***************************************************************************)
EXTENDS VgicV2Guest, SequenceTheorems, WellFoundedInduction, TLAPS

-----------------------------------------------------------------------------
(* The emulated UART *)

\* push() stores a character in at most one slot and keeps the UART's type.
LEMMA PushType ==
  ASSUME NEW u \in Uart, NEW ch \in Byte
  PROVE  /\ Push(u, ch) \in Uart
         /\ Push(u, ch).rxim = u.rxim
         /\ Push(u, ch).rxris <=> u.rxris \/ u.rxim
<1>1. Store(u.buf, ch) \in [Slot -> Byte \cup {EMPTY}]
  BY DEF Store, Uart
<1>2. QED
  BY <1>1 DEF Push, Uart

\* A read of UART_DR only ever clears the interrupt status.
LEMMA ReadDrType ==
  ASSUME NEW u \in Uart
  PROVE  /\ ReadDr(u) \in Uart
         /\ ReadDr(u).rxim = u.rxim
         /\ ReadDr(u).rxris => u.rxris
<1>1. Shift(u.buf) \in [Slot -> Byte \cup {EMPTY}]
  BY RxSlotsAssumption DEF Shift, Uart, Slot
<1>2. QED
  BY <1>1 DEF ReadDr, Uart

\* A write of UART_IMSC changes RXIM only.
LEMMA WriteImscType ==
  ASSUME NEW u \in Uart, NEW rx \in BOOLEAN
  PROVE  /\ WriteImsc(u, rx) \in Uart
         /\ WriteImsc(u, rx).rxim = rx
         /\ WriteImsc(u, rx).rxris = u.rxris
  BY DEF WriteImsc, Uart

\* A write of UART_ICR only ever clears the interrupt status.
LEMMA WriteIcrType ==
  ASSUME NEW u \in Uart, NEW rx \in BOOLEAN
  PROVE  /\ WriteIcr(u, rx) \in Uart
         /\ WriteIcr(u, rx).rxim = u.rxim
         /\ WriteIcr(u, rx).rxris => u.rxris
  BY DEF WriteIcr, Uart

-----------------------------------------------------------------------------
(* The pending word *)

\* trailing_zeros finds an interrupt that is pending.
LEMMA LowestPending ==
  ASSUME NEW S \in SUBSET IntId, S # {}
  PROVE  Lowest(S) \in S
<1>1. \A i \in S : i \in Nat /\ (i = TimerId \/ i = 33)
  BY TimerIdAssumption DEF IntId, PL011_INT_ID
<1>2. \E i \in S : \A j \in S : i <= j
  <2>1. CASE TimerId \in S
    BY <2>1, <1>1, TimerIdAssumption
  <2>2. CASE TimerId \notin S
    BY <2>2, <1>1
  <2>3. QED
    BY <2>1, <2>2
<1>3. QED
  BY <1>2 DEF Lowest

-----------------------------------------------------------------------------
(* Invariants *)

IInv == TypeOK /\ ViMatchesPending /\ TimerInFlight

\* The invariant holds when the guest is started.
LEMMA InitIInv == Init => IInv
<1> SUFFICES ASSUME Init PROVE IInv
  OBVIOUS
<1>1. NewUart \in Uart
  BY DEF NewUart, Uart, EMPTY
<1>2. <<>> \in Seq(Byte)
  BY EmptySeq
<1>3. QED
  BY <1>1, <1>2 DEF Init, IInv, TypeOK, ViMatchesPending, TimerInFlight

\* The steps of irq_handler preserve the invariant.
LEMMA HypervisorIInv == ASSUME IInv, Hypervisor PROVE IInv'
<1> USE DEF IInv, ViMatchesPending, TimerInFlight, IntId
<1>1. CASE TimerIrq
  BY <1>1 DEF TimerIrq, Inject, TypeOK
<1>2. CASE UartIrq
  BY <1>2 DEF UartIrq, TypeOK
<1>3. CASE InputChar
  <2>1. Head(fifo) \in Byte /\ Tail(fifo) \in Seq(Byte)
    BY <1>3, HeadTailProperties DEF InputChar, TypeOK
  <2>2. uart' \in Uart
    BY <1>3, <2>1, PushType DEF InputChar, TypeOK
  <2>3. CASE uart.rxim
    BY <1>3, <2>1, <2>2, <2>3 DEF InputChar, Inject, TypeOK
  <2>4. CASE ~uart.rxim
    BY <1>3, <2>1, <2>2, <2>4 DEF InputChar, NoInject, TypeOK
  <2>5. QED
    BY <2>3, <2>4
<1>4. CASE InputEmpty
  BY <1>4 DEF InputEmpty, TypeOK
<1>5. CASE InputDone
  BY <1>5 DEF InputDone, TypeOK
<1>6. QED
  BY <1>1, <1>2, <1>3, <1>4, <1>5 DEF Hypervisor

\* Every register access of the guest preserves the invariant.
LEMMA GuestIInv == ASSUME IInv, Guest PROVE IInv'
<1> USE DEF IInv, ViMatchesPending, TimerInFlight
<1>1. CASE GuestReadIar
  <2>1. Lowest(pending) \in pending
    BY <1>1, LowestPending DEF GuestReadIar, TypeOK
  <2>2. QED
    BY <1>1, <2>1 DEF GuestReadIar, Acknowledge, TypeOK
<1>2. ASSUME NEW id \in IntId \cup {SPURIOUS}, GuestWriteEoir(id) PROVE IInv'
  <2>1. CASE id = PL011_INT_ID /\ IsRxPending(uart)
    BY <1>2, <2>1, TimerIdAssumption
       DEF GuestWriteEoir, Inject, TypeOK, IntId, PL011_INT_ID
  <2>2. CASE ~(id = PL011_INT_ID /\ IsRxPending(uart))
    BY <1>2, <2>2, TimerIdAssumption
       DEF GuestWriteEoir, NoInject, TypeOK, IntId, PL011_INT_ID
  <2>3. QED
    BY <2>1, <2>2
<1>3. CASE GuestReadDr
  BY <1>3, ReadDrType DEF GuestReadDr, TypeOK
<1>4. ASSUME NEW rx \in BOOLEAN, GuestWriteImsc(rx) PROVE IInv'
  BY <1>4, WriteImscType DEF GuestWriteImsc, TypeOK
<1>5. ASSUME NEW rx \in BOOLEAN, GuestWriteIcr(rx) PROVE IInv'
  BY <1>5, WriteIcrType DEF GuestWriteIcr, TypeOK
<1>6. CASE GuestTimer
  BY <1>6 DEF GuestTimer, TypeOK
<1>7. QED
  BY <1>1, <1>2, <1>3, <1>4, <1>5, <1>6 DEF Guest

\* The devices change neither the pending word nor the distributor.
LEMMA DevicesIInv == ASSUME IInv, Devices PROVE IInv'
<1> USE DEF IInv, ViMatchesPending, TimerInFlight
<1>1. CASE Expire
  BY <1>1 DEF Expire, TypeOK
<1>2. ASSUME NEW ch \in Byte, Arrive(ch) PROVE IInv'
  <2>1. Append(fifo, ch) \in Seq(Byte)
    BY DEF TypeOK
  <2>2. QED
    BY <1>2, <2>1 DEF Arrive, TypeOK
<1>3. CASE ReceiveTimeout
  BY <1>3 DEF ReceiveTimeout, TypeOK
<1>4. QED
  BY <1>1, <1>2, <1>3 DEF Devices

\* The invariant from which the theorems below follow.
THEOREM Invariance == Spec => []IInv
<1>1. IInv /\ UNCHANGED vars => IInv'
  BY DEF IInv, TypeOK, ViMatchesPending, TimerInFlight, vars
<1>2. IInv /\ [Next]_vars => IInv'
  BY <1>1, HypervisorIInv, GuestIInv, DevicesIInv DEF Next
<1>3. QED
  BY <1>2, InitIInv, PTL DEF Spec

\* Type correctness of the virtual interrupt state and the devices.
THEOREM TypeCorrect == Spec => []TypeOK
<1>1. IInv => TypeOK
  BY DEF IInv
<1>2. QED
  BY <1>1, Invariance, PTL

\* HCR_EL2.VI and the pending word never disagree, so the guest is neither left
\* without a signal for an interrupt it has nor signalled one it has not.
THEOREM ViSound == Spec => []ViMatchesPending
<1>1. IInv => ViMatchesPending
  BY DEF IInv
<1>2. QED
  BY <1>1, Invariance, PTL

\* For every guest: as long as the timer's PPI is disabled, the guest has the
\* interrupt pending or in service, so an EOIR write can still enable it.
THEOREM TimerNeverLost == Spec => []TimerInFlight
<1>1. IInv => TimerInFlight
  BY DEF IInv
<1>2. QED
  BY <1>1, Invariance, PTL

-----------------------------------------------------------------------------
(* The action property *)

\* A step of the hypervisor strands no received character.
LEMMA HypervisorStrandsNothing ==
  ASSUME IInv, Hypervisor, RxStranded'
  PROVE  RxStranded
<1> USE DEF RxStranded, IsRxPending
<1>1. CASE TimerIrq
  BY <1>1 DEF TimerIrq, Inject
<1>2. CASE UartIrq
  BY <1>2 DEF UartIrq
<1>3. CASE InputChar
  <2>1. Head(fifo) \in Byte
    BY <1>3, HeadTailProperties DEF InputChar, IInv, TypeOK
  <2>2. uart'.rxim = uart.rxim
    BY <1>3, <2>1, PushType DEF InputChar, IInv, TypeOK
  <2>3. QED
    BY <1>3, <2>2 DEF InputChar, Inject
<1>4. CASE InputEmpty \/ InputDone
  BY <1>4 DEF InputEmpty, InputDone
<1>5. QED
  BY <1>1, <1>2, <1>3, <1>4 DEF Hypervisor

\* Of the guest's accesses only an unmasking IMSC write strands a character.
LEMMA GuestStrandsByUnmask ==
  ASSUME IInv, Guest, RxStranded'
  PROVE  RxStranded \/ GuestWriteImsc(TRUE)
<1> USE DEF RxStranded, IsRxPending
<1>1. CASE GuestReadIar
  <2>1. Lowest(pending) \in pending
    BY <1>1, LowestPending DEF GuestReadIar, IInv, TypeOK
  <2>2. QED
    BY <1>1, <2>1 DEF GuestReadIar, Acknowledge
<1>2. ASSUME NEW id \in IntId \cup {SPURIOUS}, GuestWriteEoir(id) PROVE RxStranded
  BY <1>2 DEF GuestWriteEoir, Inject, NoInject
<1>3. CASE GuestReadDr
  BY <1>3, ReadDrType DEF GuestReadDr, IInv, TypeOK
<1>4. ASSUME NEW rx \in BOOLEAN, GuestWriteImsc(rx)
      PROVE  RxStranded \/ GuestWriteImsc(TRUE)
  <2>1. rx = TRUE
    BY <1>4, WriteImscType DEF GuestWriteImsc, IInv, TypeOK
  <2>2. QED
    BY <1>4, <2>1
<1>5. ASSUME NEW rx \in BOOLEAN, GuestWriteIcr(rx) PROVE RxStranded
  BY <1>5, WriteIcrType DEF GuestWriteIcr, IInv, TypeOK
<1>6. CASE GuestTimer
  BY <1>6 DEF GuestTimer
<1>7. QED
  BY <1>1, <1>2, <1>3, <1>4, <1>5, <1>6 DEF Guest

\* A received character whose interrupt is unmasked always has that interrupt
\* pending or in service, unless the guest unmasks it afterwards.
THEOREM RxNeverStranded == Spec => RxStrandedOnlyByUnmask
<1>1. ASSUME IInv, [Next]_vars
      PROVE  [RxStranded' => RxStranded \/ GuestWriteImsc(TRUE)]_vars
  <2>1. CASE Devices
    BY <2>1 DEF Devices, Expire, Arrive, ReceiveTimeout, RxStranded, IsRxPending
  <2>2. QED
    BY <1>1, <2>1, HypervisorStrandsNothing, GuestStrandsByUnmask DEF Next
<1>2. QED
  BY <1>1, Invariance, PTL DEF Spec, RxStrandedOnlyByUnmask

-----------------------------------------------------------------------------
(* The guest of VgicV2Guest is one of the guests of VgicV2 *)

LEMMA GuestSteps ==
  ASSUME [GNext]_gvars
  PROVE  [Next]_vars
<1>1. CASE Startup
  BY <1>1 DEF Startup, Next, Guest
<1>2. CASE TakeVirq
  BY <1>2 DEF TakeVirq, Next, Guest
<1>3. CASE ServeTimer
  BY <1>3 DEF ServeTimer, Next, Guest
<1>4. CASE ServeRx
  BY <1>4 DEF ServeRx, Next, Guest
<1>5. CASE RxServed
  BY <1>5 DEF RxServed
<1>6. CASE EndOfInterrupt
  BY <1>6 DEF EndOfInterrupt, Next, Guest, IntId
<1>7. CASE WildGuest \/ GHypervisor
  BY <1>7 DEF WildGuest, GHypervisor, Next
<1>8. CASE GExpire
  BY <1>8 DEF GExpire, Next, Devices
<1>9. ASSUME NEW ch \in Byte, GArrive(ch) PROVE Next
  BY <1>9 DEF GArrive, Next, Devices
<1>10. CASE GTimeout
  BY <1>10 DEF GTimeout, Next, Devices
<1>11. CASE UNCHANGED gvars
  BY <1>11 DEF gvars, vars
<1>12. QED
  BY <1>1, <1>2, <1>3, <1>4, <1>5, <1>6, <1>7, <1>8, <1>9, <1>10, <1>11 DEF GNext, GGuest

\* The system with the guest's drivers implements the one with an arbitrary guest, so
\* what is proved of every guest holds of it.
THEOREM GuestIsOne == GSpec => Spec
<1>1. GInit => Init
  BY DEF GInit
<1>2. [GNext]_gvars => [Next]_vars
  BY GuestSteps
<1>3. QED
  BY <1>1, <1>2, PTL DEF GSpec, Spec

-----------------------------------------------------------------------------
(* The emulated UART as a queue *)

\* The first n slots are taken and the others are free.
Packed(u, n) ==
  /\ n \in 0 .. RxSlots
  /\ \A i \in 1 .. n : u.buf[i] # EMPTY
  /\ \A i \in n + 1 .. RxSlots : u.buf[i] = EMPTY

\* The characters of a UART whose slots are packed.
LEMMA PackedBuffered ==
  ASSUME NEW u \in Uart, NEW n, Packed(u, n)
  PROVE  /\ Buffered(u) = [i \in 1 .. n |-> u.buf[i]]
         /\ Buffered(u) \in Seq(Byte) /\ Len(Buffered(u)) = n
         /\ \A i \in 1 .. n : Buffered(u)[i] = u.buf[i]
<1> DEFINE Q(k) == /\ \A i \in 1 .. k : u.buf[i] # EMPTY
                   /\ k < RxSlots => u.buf[k + 1] = EMPTY
<1>1. RxSlots \in Nat \ {0} /\ n \in 0 .. RxSlots /\ n \in Nat
  BY RxSlotsAssumption DEF Packed
<1>2. Q(n)
  <2>1. n < RxSlots => n + 1 \in n + 1 .. RxSlots
    BY <1>1
  <2>2. QED
    BY <2>1 DEF Packed
<1>3. ASSUME NEW k \in 0 .. RxSlots, Q(k) PROVE k = n
  <2>1. CASE k < n
    <3>1. k + 1 \in 1 .. n /\ k < RxSlots
      BY <1>1, <2>1
    <3>2. QED
      BY <1>3, <3>1 DEF Packed
  <2>2. CASE n < k
    <3>1. n + 1 \in 1 .. k /\ n + 1 \in n + 1 .. RxSlots
      BY <1>1, <2>2
    <3>2. QED
      BY <1>3, <3>1 DEF Packed
  <2>3. QED
    BY <1>1, <2>1, <2>2
<1>4. (CHOOSE k \in 0 .. RxSlots : Q(k)) = n
  <2> HIDE DEF Q
  <2>1. QED
    BY <1>1, <1>2, <1>3
<1>5. Buffered(u) = [i \in 1 .. n |-> u.buf[i]]
  BY <1>4 DEF Buffered
<1>6. \A i \in 1 .. n : u.buf[i] \in Byte
  <2>1. \A i \in 1 .. n : i \in Slot
    BY <1>1 DEF Slot
  <2>2. QED
    BY <2>1 DEF Uart, Packed
<1>7. QED
  BY <1>1, <1>5, <1>6

\* push() puts a character behind the others.
LEMMA PushPacked ==
  ASSUME NEW u \in Uart, NEW n, Packed(u, n), NEW ch \in Byte
  PROVE  IF n < RxSlots /\ ch # EMPTY
           THEN Packed(Push(u, ch), n + 1) /\ Buffered(Push(u, ch)) = Append(Buffered(u), ch)
           ELSE Packed(Push(u, ch), n) /\ Buffered(Push(u, ch)) = Buffered(u)
<1> DEFINE v == Push(u, ch)
<1>1. RxSlots \in Nat \ {0} /\ n \in 0 .. RxSlots /\ n \in Nat
  BY RxSlotsAssumption DEF Packed
<1>2. v \in Uart /\ v.buf = Store(u.buf, ch)
  BY PushType DEF Push, Uart
<1>3. \A i \in 1 .. RxSlots : i \in FreeSlots(u.buf) <=> n < i
  BY <1>1 DEF FreeSlots, Slot, Packed
<1>4. FreeSlots(u.buf) \subseteq 1 .. RxSlots
  BY DEF FreeSlots, Slot
<1>5. \A i \in 1 .. RxSlots : v.buf[i] = IF i = n + 1 THEN ch ELSE u.buf[i]
  <2> SUFFICES ASSUME NEW i \in 1 .. RxSlots
               PROVE  v.buf[i] = IF i = n + 1 THEN ch ELSE u.buf[i]
    OBVIOUS
  <2>1. (i \in FreeSlots(u.buf) /\ \A j \in FreeSlots(u.buf) : i <= j) <=> i = n + 1
    <3>1. CASE n < RxSlots
      <4>1. n + 1 \in 1 .. RxSlots /\ n + 1 \in FreeSlots(u.buf)
        BY <1>1, <1>3, <3>1
      <4>2. QED
        BY <1>1, <1>3, <1>4, <4>1
    <3>2. CASE ~(n < RxSlots)
      BY <1>1, <1>3, <3>2
    <3>3. QED
      BY <3>1, <3>2
  <2>2. QED
    BY <1>2, <2>1 DEF Store, Slot
<1>6. CASE n < RxSlots /\ ch # EMPTY
  <2>1. Packed(v, n + 1)
    BY <1>1, <1>5, <1>6 DEF Packed
  <2>2. Buffered(v) = [i \in 1 .. n + 1 |-> v.buf[i]]
    BY <1>2, <2>1, PackedBuffered
  <2>3. Buffered(u) = [i \in 1 .. n |-> u.buf[i]] /\ Buffered(u) \in Seq(Byte) /\ Len(Buffered(u)) = n
    BY PackedBuffered
  <2>4. Buffered(v) = Append(Buffered(u), ch)
    BY <1>1, <1>5, <1>6, <2>2, <2>3
  <2>5. QED
    BY <1>6, <2>1, <2>4
<1>7. CASE ~(n < RxSlots /\ ch # EMPTY)
  <2>1. \A i \in 1 .. RxSlots : v.buf[i] = u.buf[i]
    <3> SUFFICES ASSUME NEW i \in 1 .. RxSlots PROVE v.buf[i] = u.buf[i]
      OBVIOUS
    <3>1. CASE i = n + 1
      <4>1. i \in n + 1 .. RxSlots /\ ch = EMPTY
        BY <1>1, <1>7, <3>1
      <4>2. u.buf[i] = EMPTY
        BY <4>1 DEF Packed
      <4>3. QED
        BY <1>5, <3>1, <4>1, <4>2
    <3>2. QED
      BY <1>5, <3>1
  <2>2. Packed(v, n)
    BY <1>1, <2>1 DEF Packed
  <2>3. Buffered(v) = Buffered(u)
    <3>1. Buffered(v) = [i \in 1 .. n |-> v.buf[i]] /\ Buffered(u) = [i \in 1 .. n |-> u.buf[i]]
      BY <1>2, <2>2, PackedBuffered
    <3>2. QED
      BY <1>1, <2>1, <3>1
  <2>4. QED
    BY <1>7, <2>2, <2>3
<1>8. QED
  BY <1>6, <1>7

\* A read of UART_DR takes the first character, except when all slots are taken.
LEMMA ReadPacked ==
  ASSUME NEW u \in Uart, NEW n, Packed(u, n)
  PROVE  /\ n = 0 => /\ Packed(ReadDr(u), 0) /\ Buffered(ReadDr(u)) = Buffered(u)
                     /\ Buffered(u) = <<>> /\ DrValue(u) = EMPTY /\ ReadDr(u).rxris = FALSE
         /\ n > 0 /\ n < RxSlots =>
              /\ Packed(ReadDr(u), n - 1) /\ Buffered(ReadDr(u)) = Tail(Buffered(u))
              /\ Buffered(u) # <<>> /\ DrValue(u) = Head(Buffered(u)) /\ DrValue(u) # EMPTY
              /\ ReadDr(u).rxris = (u.rxris /\ Tail(Buffered(u)) # <<>>)
         /\ n = RxSlots =>
              /\ Packed(ReadDr(u), n)
              /\ Buffered(ReadDr(u)) = Append(Tail(Buffered(u)), u.buf[RxSlots])
<1> DEFINE v == ReadDr(u)
<1>1. RxSlots \in Nat \ {0} /\ n \in 0 .. RxSlots /\ n \in Nat /\ 1 \in 1 .. RxSlots
  BY RxSlotsAssumption DEF Packed
<1>2. v \in Uart /\ v.buf = Shift(u.buf) /\ v.rxris = (u.rxris /\ ~(v.buf[1] = EMPTY))
  BY ReadDrType DEF ReadDr, Uart
<1>3. \A i \in 1 .. RxSlots : v.buf[i] = IF i < RxSlots THEN u.buf[i + 1] ELSE u.buf[i]
  BY <1>2 DEF Shift, Slot
<1>4. DrValue(u) = u.buf[1]
  BY DEF DrValue
<1>5. Buffered(u) = [i \in 1 .. n |-> u.buf[i]] /\ Buffered(u) \in Seq(Byte) /\ Len(Buffered(u)) = n
  BY PackedBuffered
<1>6. CASE n = 0
  <2>1. \A i \in 1 .. RxSlots : u.buf[i] = EMPTY
    BY <1>1, <1>6 DEF Packed
  <2>2. \A i \in 1 .. RxSlots : v.buf[i] = EMPTY
    BY <1>1, <1>3, <2>1
  <2>3. Packed(v, 0)
    BY <1>1, <2>2 DEF Packed
  <2>4. Buffered(v) \in Seq(Byte) /\ Len(Buffered(v)) = 0
    BY <1>2, <2>3, PackedBuffered
  <2>5. Buffered(v) = <<>> /\ Buffered(u) = <<>>
    BY <1>5, <1>6, <2>4, EmptySeq
  <2>6. u.buf[1] = EMPTY /\ v.buf[1] = EMPTY
    BY <1>1, <2>1, <2>2
  <2>7. v.rxris = FALSE
    BY <1>2, <2>6, Zenon
  <2>8. ~(n > 0) /\ n # RxSlots
    BY <1>1, <1>6
  <2>9. QED
    BY <1>4, <2>3, <2>5, <2>6, <2>7, <2>8, Zenon
<1>7. CASE n > 0 /\ n < RxSlots
  <2>1. Packed(v, n - 1)
    <3>1. n - 1 \in 0 .. RxSlots
      BY <1>1, <1>7
    <3>2. \A i \in 1 .. n - 1 : v.buf[i] # EMPTY
      BY <1>1, <1>3, <1>7 DEF Packed
    <3>3. ASSUME NEW i \in (n - 1) + 1 .. RxSlots PROVE v.buf[i] = EMPTY
      <4>1. i \in 1 .. RxSlots /\ n <= i /\ i \in Nat
        BY <1>1, <1>7
      <4>2. CASE i < RxSlots
        <5>1. i + 1 \in n + 1 .. RxSlots
          BY <1>1, <4>1, <4>2
        <5>2. QED
          BY <1>3, <4>1, <4>2, <5>1 DEF Packed
      <4>3. CASE ~(i < RxSlots)
        <5>1. i \in n + 1 .. RxSlots
          BY <1>1, <1>7, <4>1, <4>3
        <5>2. QED
          BY <1>3, <4>1, <4>3, <5>1 DEF Packed
      <4>4. QED
        BY <4>2, <4>3
    <3>4. QED
      BY <3>1, <3>2, <3>3 DEF Packed
  <2>2. Buffered(v) = [i \in 1 .. n - 1 |-> v.buf[i]]
    BY <1>2, <2>1, PackedBuffered
  <2>3. Buffered(v) = Tail(Buffered(u))
    <3>1. Tail(Buffered(u)) = [i \in 1 .. n - 1 |-> Buffered(u)[i + 1]]
      BY <1>1, <1>5, <1>7
    <3>2. \A i \in 1 .. n - 1 : Buffered(u)[i + 1] = v.buf[i]
      BY <1>1, <1>3, <1>5, <1>7
    <3>3. QED
      BY <2>2, <3>1, <3>2
  <2>4. Buffered(u) # <<>> /\ Head(Buffered(u)) = u.buf[1] /\ u.buf[1] # EMPTY
    BY <1>1, <1>5, <1>7 DEF Packed
  <2>5. v.buf[1] = EMPTY <=> Tail(Buffered(u)) = <<>>
    <3>1. Tail(Buffered(u)) \in Seq(Byte) /\ Len(Tail(Buffered(u))) = n - 1
      BY <1>1, <1>5, <1>7
    <3>2. Tail(Buffered(u)) = <<>> <=> n - 1 = 0
      BY <3>1, EmptySeq
    <3>3. v.buf[1] = u.buf[2]
      BY <1>1, <1>3, <1>7
    <3>4. u.buf[2] = EMPTY <=> n = 1
      BY <1>1, <1>7 DEF Packed
    <3>5. QED
      BY <1>1, <3>2, <3>3, <3>4
  <2>6. QED
    BY <1>1, <1>2, <1>4, <1>7, <2>1, <2>3, <2>4, <2>5
<1>8. CASE n = RxSlots
  <2>1. Packed(v, n)
    BY <1>1, <1>3, <1>8 DEF Packed
  <2>3. /\ Buffered(u) \in Seq(Byte) /\ Len(Buffered(u)) = n
        /\ \A i \in 1 .. n : Buffered(u)[i] = u.buf[i]
    BY PackedBuffered
  <2> DEFINE t == Tail(Buffered(u))
             z == u.buf[RxSlots]
  <2>4. /\ t \in Seq(Byte) /\ Len(t) = n - 1
        /\ \A i \in 1 .. n - 1 : t[i] = u.buf[i + 1]
    BY <1>1, <1>8, <2>3
  <2>5. z \in Byte
    BY <1>1, <1>8, <2>3
  <2> HIDE DEF t, z
  <2>6. /\ Append(t, z) \in Seq(Byte) /\ Len(Append(t, z)) = Len(t) + 1
        /\ \A i \in 1 .. Len(t) : Append(t, z)[i] = t[i]
        /\ Append(t, z)[Len(t) + 1] = z
    BY <2>4, <2>5, AppendProperties
  <2>7. ASSUME NEW i \in 1 .. n PROVE v.buf[i] = IF i <= n - 1 THEN t[i] ELSE z
    <3>1. CASE i <= n - 1
      <4>1. i \in 1 .. n - 1 /\ i \in 1 .. RxSlots /\ i < RxSlots
        BY <1>1, <1>8, <3>1
      <4>2. QED
        BY <1>3, <2>4, <3>1, <4>1
    <3>2. CASE ~(i <= n - 1)
      <4>1. i = RxSlots /\ i \in 1 .. RxSlots /\ ~(i < RxSlots)
        BY <1>1, <1>8, <3>2
      <4>2. QED
        BY <1>3, <3>2, <4>1 DEF z
    <3>3. QED
      BY <3>1, <3>2
  <2>8. Buffered(v) = Append(t, z)
    <3>1. /\ Buffered(v) \in Seq(Byte) /\ Len(Buffered(v)) = n
          /\ \A i \in 1 .. n : Buffered(v)[i] = v.buf[i]
      BY <1>2, <2>1, PackedBuffered
    <3>2. Len(t) + 1 = n /\ Len(Append(t, z)) = n
      BY <1>1, <2>4, <2>6
    <3>3. ASSUME NEW i \in 1 .. n PROVE Buffered(v)[i] = Append(t, z)[i]
      <4>1. CASE i <= n - 1
        BY <1>1, <2>4, <2>6, <2>7, <3>1, <4>1
      <4>2. CASE ~(i <= n - 1)
        BY <1>1, <2>6, <2>7, <3>1, <3>2, <4>2
      <4>3. QED
        BY <4>1, <4>2
    <3>4. QED
      BY <2>6, <3>1, <3>2, <3>3, SeqEqual
  <2>9. QED
    BY <1>1, <1>8, <2>1, <2>8 DEF t, z
<1>9. QED
  BY <1>1, <1>6, <1>7, <1>8

QInv == IInv /\ \E n : Packed(uart, n)

\* A step of the queue, or a read while all slots are taken.
QueueStep ==
  \/ Queue!Next
  \/ UNCHANGED Queue!vars
  \/ /\ GuestReadDr /\ Full(uart)
     /\ Buffered(uart)' = Append(Tail(Buffered(uart)), uart.buf[RxSlots])

LEMMA PushQueue ==
  ASSUME QInv, InputChar
  PROVE  QueueStep /\ \E n : Packed(uart', n)
<1> DEFINE ch == Head(fifo)
<1>1. uart \in Uart /\ ch \in Byte /\ uart' = Push(uart, ch)
  BY HeadTailProperties DEF QInv, IInv, TypeOK, InputChar
<1>2. PICK n : Packed(uart, n)
  BY DEF QInv
<1>3. IF n < RxSlots /\ ch # EMPTY
        THEN Packed(uart', n + 1) /\ Buffered(uart)' = Append(Buffered(uart), ch)
        ELSE Packed(uart', n) /\ Buffered(uart)' = Buffered(uart)
  BY <1>1, <1>2, PushPacked
<1>4. Len(Buffered(uart)) = n
  BY <1>1, <1>2, PackedBuffered
<1>5. Buffered(uart)' = IF Len(Buffered(uart)) < RxSlots /\ ch # EMPTY
                          THEN Append(Buffered(uart), ch) ELSE Buffered(uart)
  BY <1>3, <1>4
<1>6. uart'.rxris = (uart.rxris \/ uart.rxim) /\ uart'.rxim = uart.rxim
  BY <1>1 DEF Push, Uart
<1> HIDE DEF ch
<1>7. Queue!Receive(ch)
  BY <1>5, <1>6 DEF Queue!Receive
<1>8. \E m : Packed(uart', m)
  BY <1>3
<1>9. QED
  BY <1>1, <1>7, <1>8 DEF QueueStep, Queue!Next

LEMMA ReadQueue ==
  ASSUME QInv, GuestReadDr
  PROVE  QueueStep /\ \E n : Packed(uart', n)
<1>1. uart \in Uart /\ uart' = ReadDr(uart) /\ uart'.rxim = uart.rxim
  BY ReadDrType DEF QInv, IInv, TypeOK, GuestReadDr
<1>2. PICK n : Packed(uart, n)
  BY DEF QInv
<1>3. n \in Nat /\ n <= RxSlots /\ RxSlots \in Nat
  BY <1>2, RxSlotsAssumption DEF Packed
<1>4. CASE n = 0
  <2>1. Queue!ReadEmpty /\ Packed(uart', 0)
    BY <1>1, <1>2, <1>4, ReadPacked DEF Queue!ReadEmpty
  <2>2. QED
    BY <2>1 DEF QueueStep, Queue!Next
<1>5. CASE n > 0 /\ n < RxSlots
  <2>1. Queue!Read /\ Packed(uart', n - 1)
    BY <1>1, <1>2, <1>5, ReadPacked DEF Queue!Read
  <2>2. QED
    BY <2>1 DEF QueueStep, Queue!Next
<1>6. CASE n = RxSlots
  <2>1. Full(uart)
    BY <1>1, <1>2, <1>6, PackedBuffered DEF Full
  <2>2. /\ Packed(uart', n)
        /\ Buffered(uart)' = Append(Tail(Buffered(uart)), uart.buf[RxSlots])
    BY <1>1, <1>2, <1>6, ReadPacked
  <2>3. QED
    BY <2>1, <2>2 DEF QueueStep
<1>7. QED
  BY <1>3, <1>4, <1>5, <1>6

LEMMA SameQueue ==
  ASSUME QInv, uart'.buf = uart.buf
  PROVE  Buffered(uart)' = Buffered(uart) /\ \E n : Packed(uart', n)
<1>1. Buffered(uart)' = Buffered(uart)
  BY DEF Buffered
<1>2. QED
  BY <1>1 DEF QInv, Packed

\* Every step is one of the queue, and leaves the characters packed.
LEMMA NextQueue ==
  ASSUME QInv, [Next]_vars
  PROVE  QueueStep /\ \E n : Packed(uart', n)
<1>1. uart \in Uart
  BY DEF QInv, IInv, TypeOK
<1>2. CASE UNCHANGED uart
  BY <1>2, SameQueue DEF QueueStep, Queue!vars
<1>3. ASSUME NEW rx \in BOOLEAN, GuestWriteImsc(rx) PROVE QueueStep /\ \E n : Packed(uart', n)
  <2>1. uart'.buf = uart.buf /\ uart'.rxim = rx /\ uart'.rxris = uart.rxris
    BY <1>1, <1>3 DEF GuestWriteImsc, WriteImsc, Uart
  <2>2. Queue!SetMask(rx) /\ \E n : Packed(uart', n)
    BY <2>1, SameQueue DEF Queue!SetMask
  <2>3. QED
    BY <2>2 DEF QueueStep, Queue!Next
<1>4. ASSUME NEW rx \in BOOLEAN, GuestWriteIcr(rx) PROVE QueueStep /\ \E n : Packed(uart', n)
  <2>1. uart'.buf = uart.buf /\ uart'.rxim = uart.rxim /\ uart'.rxris = (uart.rxris /\ ~rx)
    BY <1>1, <1>4 DEF GuestWriteIcr, WriteIcr, Uart
  <2>2. Queue!Clear(rx) /\ \E n : Packed(uart', n)
    BY <2>1, SameQueue DEF Queue!Clear
  <2>3. QED
    BY <2>2 DEF QueueStep, Queue!Next
<1>5. CASE Hypervisor
  BY <1>2, <1>5, PushQueue DEF Hypervisor, TimerIrq, UartIrq, InputEmpty, InputDone
<1>6. CASE Guest
  BY <1>2, <1>3, <1>4, <1>6, ReadQueue DEF Guest, GuestReadIar, GuestWriteEoir, GuestTimer
<1>7. CASE Devices
  BY <1>2, <1>7 DEF Devices, Expire, Arrive, ReceiveTimeout
<1>8. QED
  BY <1>2, <1>5, <1>6, <1>7 DEF Next, vars

LEMMA InitQueue == Init => (\E n : Packed(uart, n)) /\ Queue!Init
<1> SUFFICES ASSUME Init PROVE (\E n : Packed(uart, n)) /\ Queue!Init
  OBVIOUS
<1>1. uart \in Uart /\ uart.rxim = FALSE /\ uart.rxris = FALSE /\ \A i \in Slot : uart.buf[i] = EMPTY
  BY DEF Init, NewUart, Uart, EMPTY
<1>2. Packed(uart, 0)
  BY <1>1, RxSlotsAssumption DEF Packed, Slot
<1>3. Buffered(uart) = <<>>
  BY <1>1, <1>2, PackedBuffered, EmptySeq
<1>4. QED
  BY <1>1, <1>2, <1>3 DEF Queue!Init

\* The slots that are taken are the first ones, always.
THEOREM AlwaysPacked == Spec => []QInv
<1>1. Init => QInv
  BY InitIInv, InitQueue DEF QInv
<1>2. QInv /\ [Next]_vars => (\E n : Packed(uart', n))
  BY NextQueue
<1>3. IInv' /\ (\E n : Packed(uart', n)) => QInv'
  BY DEF QInv
<1>4. QED
  BY <1>1, <1>2, <1>3, Invariance, PTL DEF Spec

\* For every guest and every number of slots: the emulated UART is a bounded first-in
\* first-out queue whose interrupt status follows it, but for a read while all slots
\* are taken, which leaves the last character twice and the queue as long as it was.
THEOREM UartIsQueue == GSpec => QueueUnlessFull
<1>1. GInit => Queue!Init
  BY InitQueue DEF GInit
<1>2. QInv /\ [GNext]_gvars =>
        [\/ Queue!Next
         \/ UNCHANGED Queue!vars
         \/ GuestReadDr /\ Full(uart)
              /\ Buffered(uart)' = Append(Tail(Buffered(uart)), uart.buf[RxSlots])]_gvars
  BY GuestSteps, NextQueue DEF QueueStep
<1>3. GSpec => []QInv
  BY GuestIsOne, AlwaysPacked
<1>4. QED
  BY <1>1, <1>2, <1>3, PTL DEF GSpec, QueueUnlessFull

-----------------------------------------------------------------------------
(* Text, a recursive function of the characters' positions *)

\* One of a set of numbers is the least.
LEMMA LeastOne ==
  ASSUME NEW S, S \subseteq Nat, S # {}
  PROVE  \E i \in S : \A j \in S : i <= j
<1> DEFINE R == {p \in Nat \X Nat : p[1] < p[2]}
<1>1. IsWellFoundedOn(R, Nat)
  BY NatLessThanWellFounded, Zenon DEF OpToRel
<1>2. \A i, j \in Nat : j < i => <<j, i>> \in R
  OBVIOUS
<1> HIDE DEF R
<1>3. PICK i \in S : \A j \in S : <<j, i>> \notin R
  BY <1>1, WFMin
<1>4. ASSUME NEW j \in S PROVE i <= j
  <2>1. ~(j < i)
    BY <1>2, <1>3
  <2>2. QED
    BY <2>1
<1>5. QED
  BY <1>4

\* The text of the first n characters, from that of the first n - 1.
Kept(s, f, n) ==
  IF n = 0 THEN <<>> ELSE IF s[n] = EMPTY THEN f[n - 1] ELSE Append(f[n - 1], s[n])

Keeps(s, f, m) == f = [n \in 0 .. m |-> Kept(s, f, n)]

\* There is such a function.
LEMMA KeepsExists ==
  ASSUME NEW s \in Seq(Nat), NEW m \in 0 .. Len(s)
  PROVE  \E f \in [0 .. m -> Seq(Nat)] : Keeps(s, f, m)
<1> DEFINE Bad == {k \in 0 .. Len(s) : ~\E f \in [0 .. k -> Seq(Nat)] : Keeps(s, f, k)}
<1>1. Len(s) \in Nat
  OBVIOUS
<1> SUFFICES ASSUME Bad # {} PROVE FALSE
  OBVIOUS
<1>2. PICK k \in Bad : \A j \in Bad : k <= j
  <2>1. Bad \subseteq Nat
    BY <1>1
  <2>2. QED
    BY <2>1, LeastOne
<1>3. k \in 0 .. Len(s) /\ ~\E f \in [0 .. k -> Seq(Nat)] : Keeps(s, f, k)
  OBVIOUS
<1>4. CASE k = 0
  <2> DEFINE f == [n \in 0 .. 0 |-> <<>>]
  <2>1. f \in [0 .. 0 -> Seq(Nat)]
    BY EmptySeq
  <2>2. Keeps(s, f, 0)
    BY DEF Keeps, Kept
  <2>3. QED
    BY <1>3, <1>4, <2>1, <2>2
<1>5. CASE k # 0
  <2>1. k - 1 \in 0 .. Len(s) /\ ~(k <= k - 1)
    BY <1>1, <1>3, <1>5
  <2>2. k - 1 \notin Bad
    BY <1>2, <2>1
  <2>3. PICK g \in [0 .. k - 1 -> Seq(Nat)] : Keeps(s, g, k - 1)
    BY <2>1, <2>2
  <2> DEFINE f == [n \in 0 .. k |-> IF n = k THEN Kept(s, g, k) ELSE g[n]]
  <2>4. Kept(s, g, k) \in Seq(Nat)
    <3>1. g[k - 1] \in Seq(Nat) /\ s[k] \in Nat
      BY <1>1, <1>3, <1>5
    <3>2. QED
      BY <1>5, <3>1 DEF Kept
  <2>5. f \in [0 .. k -> Seq(Nat)]
    BY <1>1, <1>3, <2>4
  <2>6. \A n \in 0 .. k - 1 : f[n] = g[n] /\ n \in 0 .. k
    BY <1>1, <1>3
  <2>7. \A n \in 0 .. k : f[n] = Kept(s, f, n)
    <3> SUFFICES ASSUME NEW n \in 0 .. k PROVE f[n] = Kept(s, f, n)
      OBVIOUS
    <3>1. n # 0 => n - 1 \in 0 .. k - 1
      BY <1>1, <1>3
    <3>2. Kept(s, f, n) = Kept(s, g, n)
      <4> HIDE DEF f
      <4>1. QED
        BY <2>6, <3>1 DEF Kept
    <3>3. n # k => g[n] = Kept(s, g, n)
      <4>1. n # k => n \in 0 .. k - 1
        BY <1>1, <1>3
      <4>2. QED
        BY <2>3, <4>1 DEF Keeps
    <3>4. QED
      BY <3>2, <3>3
  <2>8. Keeps(s, f, k)
    <3> HIDE DEF f
    <3>1. QED
      BY <2>5, <2>7 DEF Keeps
  <2>9. QED
    BY <1>3, <2>5, <2>8
<1>6. QED
  BY <1>4, <1>5

\* There is only one.
LEMMA KeepsUnique ==
  ASSUME NEW s, NEW m \in Nat, NEW f, NEW g, Keeps(s, f, m), Keeps(s, g, m)
  PROVE  f = g
<1> DEFINE Bad == {n \in 0 .. m : f[n] # g[n]}
<1>1. /\ f = [n \in 0 .. m |-> Kept(s, f, n)] /\ g = [n \in 0 .. m |-> Kept(s, g, n)]
  BY DEF Keeps
<1>2. \A n \in 0 .. m : f[n] = Kept(s, f, n) /\ g[n] = Kept(s, g, n)
  BY <1>1, Zenon
<1>3. Bad = {}
  <2> SUFFICES ASSUME Bad # {} PROVE FALSE
    OBVIOUS
  <2>1. PICK n \in Bad : \A j \in Bad : n <= j
    <3>1. Bad \subseteq Nat
      OBVIOUS
    <3>2. QED
      BY <3>1, LeastOne
  <2>2. n # 0 => f[n - 1] = g[n - 1]
    <3>1. n # 0 => n - 1 \in 0 .. m /\ ~(n <= n - 1)
      OBVIOUS
    <3>2. QED
      BY <2>1, <3>1
  <2>3. Kept(s, f, n) = Kept(s, g, n)
    BY <2>2 DEF Kept
  <2>4. QED
    BY <1>2, <2>3
<1>4. \A n \in 0 .. m : f[n] = g[n]
  BY <1>3
<1>5. [n \in 0 .. m |-> Kept(s, f, n)] = [n \in 0 .. m |-> Kept(s, g, n)]
  BY <1>2, <1>4
<1>6. QED
  BY <1>1, <1>5, Zenon

\* It is the one that Text uses.
LEMMA TextKeeps ==
  ASSUME NEW s \in Seq(Nat), NEW f, Keeps(s, f, Len(s))
  PROVE  Text(s) = f[Len(s)]
<1> DEFINE kept == CHOOSE g : Keeps(s, g, Len(s))
<1>1. Text(s) = kept[Len(s)]
  BY DEF Text, Keeps, Kept
<1>2. Keeps(s, kept, Len(s))
  OBVIOUS
<1> HIDE DEF kept
<1>3. kept = f
  BY <1>2, KeepsUnique
<1>4. QED
  BY <1>1, <1>3

\* A text is a sequence of characters.
LEMMA TextType ==
  ASSUME NEW s \in Seq(Nat)
  PROVE  Text(s) \in Seq(Nat)
<1>1. PICK f \in [0 .. Len(s) -> Seq(Nat)] : Keeps(s, f, Len(s))
  BY KeepsExists
<1>2. QED
  BY <1>1, TextKeeps

LEMMA TextEmpty == Text(<<>>) = <<>>
<1>1. <<>> \in Seq(Nat) /\ Len(<<>>) = 0
  OBVIOUS
<1>2. PICK f : Keeps(<<>>, f, 0)
  <2>1. 0 \in 0 .. Len(<<>>)
    BY <1>1
  <2>2. QED
    BY <1>1, <2>1, KeepsExists, Zenon
<1>3. Text(<<>>) = f[0]
  BY <1>1, <1>2, TextKeeps
<1>4. f[0] = Kept(<<>>, f, 0)
  BY <1>2 DEF Keeps
<1>5. QED
  BY <1>3, <1>4 DEF Kept

\* A character more.
LEMMA TextAppend ==
  ASSUME NEW s \in Seq(Nat), NEW c \in Nat
  PROVE  Text(Append(s, c)) = IF c = EMPTY THEN Text(s) ELSE Append(Text(s), c)
<1> DEFINE t == Append(s, c)
           m == Len(s)
<1>1. m \in Nat /\ t \in Seq(Nat) /\ Len(t) = m + 1 /\ t[m + 1] = c /\ \A n \in 1 .. m : t[n] = s[n]
  OBVIOUS
<1>2. PICK f : Keeps(t, f, m + 1)
  <2>1. m + 1 \in 0 .. Len(t)
    BY <1>1
  <2> HIDE DEF t, m
  <2>2. QED
    BY <1>1, <2>1, KeepsExists, Zenon
<1>3. \A n \in 0 .. m + 1 : f[n] = Kept(t, f, n)
  BY <1>2 DEF Keeps
<1> DEFINE g == [n \in 0 .. m |-> f[n]]
<1>4. Keeps(s, g, m)
  <2>1. ASSUME NEW n \in 0 .. m PROVE f[n] = Kept(s, g, n)
    <3>1. n \in 0 .. m + 1 /\ (n # 0 => n \in 1 .. m /\ n - 1 \in 0 .. m)
      BY <1>1
    <3>2. Kept(t, f, n) = Kept(s, g, n)
      BY <1>1, <3>1 DEF Kept
    <3>3. QED
      BY <1>3, <3>1, <3>2
  <2>2. g = [n \in 0 .. m |-> Kept(s, g, n)]
    BY <2>1
  <2>3. QED
    BY <2>2 DEF Keeps
<1>5. Text(s) = f[m]
  <2>1. g[m] = f[m]
    BY <1>1
  <2>2. Text(s) = g[m]
    BY <1>4, TextKeeps
  <2>3. QED
    BY <2>1, <2>2
<1> HIDE DEF t
<1>6. Text(t) = f[m + 1]
  BY <1>1, <1>2, TextKeeps
<1>7. f[m + 1] = IF c = EMPTY THEN f[m] ELSE Append(f[m], c)
  <2>1. f[m + 1] = Kept(t, f, m + 1) /\ m + 1 # 0 /\ (m + 1) - 1 = m
    BY <1>1, <1>3
  <2>2. QED
    BY <1>1, <2>1 DEF Kept
<1>8. QED
  BY <1>5, <1>6, <1>7 DEF t

\* The first character of a text.
Leading(c) == IF c = EMPTY THEN <<>> ELSE <<c>>

LEMMA TextHead ==
  ASSUME NEW s \in Seq(Nat), s # <<>>
  PROVE  Text(s) = Leading(Head(s)) \o Text(Tail(s))
<1> DEFINE t == Tail(s)
           h == Leading(Head(s))
           m == Len(s)
<1>1. /\ m \in Nat \ {0} /\ t \in Seq(Nat) /\ Len(t) = m - 1 /\ Head(s) = s[1] /\ s[1] \in Nat
      /\ \A n \in 1 .. m - 1 : t[n] = s[n + 1]
  OBVIOUS
<1>2. h \in Seq(Nat)
  BY <1>1 DEF Leading
<1> HIDE DEF t
<1>3. PICK f \in [0 .. m - 1 -> Seq(Nat)] : Keeps(t, f, m - 1)
  <2>1. m - 1 \in 0 .. Len(t)
    BY <1>1
  <2>2. QED
    BY <1>1, <2>1, KeepsExists
<1>4. \A n \in 0 .. m - 1 : f[n] = Kept(t, f, n)
  BY <1>3 DEF Keeps
<1> DEFINE g == [n \in 0 .. m |-> IF n = 0 THEN <<>> ELSE h \o f[n - 1]]
<1>5. \A n \in 0 .. m : g[n] = Kept(s, g, n)
  <2> SUFFICES ASSUME NEW n \in 0 .. m PROVE g[n] = Kept(s, g, n)
    OBVIOUS
  <2>1. CASE n = 0
    BY <2>1 DEF Kept
  <2>2. CASE n = 1
    <3>1. f[0] = <<>> /\ 0 \in 0 .. m /\ 1 \in 0 .. m
      BY <1>1, <1>4 DEF Kept
    <3>2. g[1] = h /\ g[0] = <<>>
      BY <1>1, <1>2, <3>1, ConcatEmptySeq
    <3> HIDE DEF g
    <3>3. Kept(s, g, 1) = h
      <4>1. Kept(s, g, 1) = IF s[1] = EMPTY THEN <<>> ELSE Append(<<>>, s[1])
        <5>1. 1 - 1 = 0 /\ 1 # 0
          OBVIOUS
        <5>2. QED
          BY <3>2, <5>1, Zenon DEF Kept
      <4>2. Append(<<>>, s[1]) = <<s[1]>>
        OBVIOUS
      <4>3. QED
        BY <1>1, <4>1, <4>2, Zenon DEF Leading
    <3>4. QED
      BY <2>2, <3>2, <3>3
  <2>3. CASE n > 1
    <3>1. /\ n - 1 \in 0 .. m - 1 /\ n - 2 \in 0 .. m - 1 /\ n - 1 \in 0 .. m /\ n - 1 \in 1 .. m - 1
          /\ (n - 1) - 1 = n - 2 /\ n # 0 /\ n - 1 # 0 /\ (n - 1) + 1 = n
      BY <1>1, <2>3
    <3>2. g[n] = h \o f[n - 1] /\ g[n - 1] = h \o f[n - 2]
      BY <3>1
    <3>3. f[n - 1] = IF s[n] = EMPTY THEN f[n - 2] ELSE Append(f[n - 2], s[n])
      <4>1. t[n - 1] = s[n]
        BY <1>1, <3>1
      <4>2. f[n - 1] = Kept(t, f, n - 1)
        BY <1>4, <3>1
      <4>3. QED
        BY <3>1, <4>1, <4>2 DEF Kept
    <3>4. f[n - 2] \in Seq(Nat) /\ s[n] \in Nat
      BY <1>3, <3>1, <2>3
    <3>5. h \o Append(f[n - 2], s[n]) = Append(h \o f[n - 2], s[n])
      <4> DEFINE x == f[n - 2]
                 c == s[n]
      <4>1. x \in Seq(Nat) /\ c \in Nat
        BY <3>4
      <4> HIDE DEF x, c, h
      <4>2. h \o Append(x, c) = Append(h \o x, c)
        BY <1>2, <4>1, SMTT(60)
      <4>3. QED
        BY <4>2 DEF x, c
    <3> HIDE DEF g, h
    <3>6. Kept(s, g, n) = IF s[n] = EMPTY THEN h \o f[n - 2] ELSE Append(h \o f[n - 2], s[n])
      BY <3>1, <3>2 DEF Kept
    <3>7. QED
      BY <3>2, <3>3, <3>5, <3>6
  <2>4. n = 0 \/ n = 1 \/ n > 1
    BY <1>1
  <2>5. QED
    BY <2>1, <2>2, <2>3, <2>4, Zenon
<1>6. Keeps(s, g, m)
  <2>1. g = [n \in 0 .. m |-> g[n]]
    OBVIOUS
  <2> HIDE DEF g
  <2>2. QED
    BY <1>5, <2>1 DEF Keeps
<1>7. Text(s) = g[m]
  BY <1>6, TextKeeps
<1>8. g[m] = h \o f[m - 1]
  <2>1. m \in 0 .. m /\ m # 0
    BY <1>1
  <2> HIDE DEF m, h
  <2>2. QED
    BY <2>1
<1>9. Text(t) = f[m - 1]
  BY <1>1, <1>3, TextKeeps
<1>10. QED
  BY <1>7, <1>8, <1>9 DEF t

-----------------------------------------------------------------------------
(* Characters on their way to the guest *)

\* A concatenation may be read either way.
LEMMA Associative ==
  ASSUME NEW s \in Seq(Nat), NEW t \in Seq(Nat), NEW u \in Seq(Nat)
  PROVE  (s \o t) \o u = s \o (t \o u)
  BY ConcatAssociative, SMTT(60)

\* A character enters the last part of the path, moves on, and leaves the first part.
LEMMA Enters ==
  ASSUME NEW g \in Seq(Nat), NEW b \in Seq(Nat), NEW f \in Seq(Nat), NEW c \in Nat
  PROVE  g \o b \o Append(f, c) = Append(g \o b \o f, c)
  OBVIOUS

LEMMA MovesOn ==
  ASSUME NEW g \in Seq(Nat), NEW b \in Seq(Nat), NEW f \in Seq(Nat), NEW c \in Nat, c # EMPTY
  PROVE  g \o b \o (Leading(c) \o f) = g \o Append(b, c) \o f
<1> DEFINE x == Leading(c)
           y == g \o b
<1>1. x \in Seq(Nat) /\ y \in Seq(Nat) /\ Append(b, c) = b \o x
  BY DEF Leading
<1> HIDE DEF x, y
<1>2. y \o (x \o f) = (y \o x) \o f
  BY <1>1, Associative, ZenonT(60)
<1>3. y \o x = g \o (b \o x)
  BY <1>1, Associative, ZenonT(60) DEF y
<1>4. QED
  BY <1>1, <1>2, <1>3, Zenon DEF x, y

LEMMA Leaves ==
  ASSUME NEW g \in Seq(Nat), NEW b \in Seq(Nat), b # <<>>
  PROVE  Append(g, Head(b)) \o Tail(b) = g \o b
  OBVIOUS

GType == QInv /\ typed \in Seq(Nat) /\ got \in Seq(Nat)

LEMMA PathTypes ==
  ASSUME GType
  PROVE  /\ uart \in Uart /\ Buffered(uart) \in Seq(Nat) /\ fifo \in Seq(Nat) /\ Byte \subseteq Nat
         /\ Text(typed) \in Seq(Nat) /\ Text(got) \in Seq(Nat) /\ Text(fifo) \in Seq(Nat)
         /\ DrValue(uart) \in Nat
<1>1. uart \in Uart /\ fifo \in Seq(Byte) /\ typed \in Seq(Nat) /\ got \in Seq(Nat)
  BY DEF GType, QInv, IInv, TypeOK
<1>2. Byte \subseteq Nat
  BY ByteAssumption
<1>3. \A x \in Seq(Byte) : x \in Seq(Nat)
  BY <1>2, SeqMonotonic, Zenon
<1>4. Buffered(uart) \in Seq(Byte)
  BY <1>1, PackedBuffered DEF GType, QInv
<1>5. DrValue(uart) \in Nat
  <2>1. 1 \in Slot
    BY RxSlotsAssumption DEF Slot
  <2>2. uart.buf[1] \in Byte \cup {0}
    BY <1>1, <2>1 DEF Uart, EMPTY
  <2>3. \A x \in Byte \cup {0} : x \in Nat
    BY <1>2
  <2>4. QED
    BY <2>2, <2>3, Zenon DEF DrValue
<1>6. QED
  BY <1>1, <1>2, <1>3, <1>4, <1>5, TextType

LEMMA InitPath == GInit => GType /\ CharsInOrder
<1> SUFFICES ASSUME GInit PROVE GType /\ CharsInOrder
  OBVIOUS
<1>1. QInv /\ Buffered(uart) = <<>>
  BY InitIInv, InitQueue DEF GInit, QInv, Queue!Init
<1>2. GType
  BY <1>1 DEF GInit, GType
<1>3. <<>> \o <<>> \o <<>> = <<>>
  OBVIOUS
<1>4. QED
  BY <1>1, <1>2, <1>3, TextEmpty DEF GInit, Init, CharsInOrder

LEMMA NextGType == GType /\ QInv' /\ [GNext]_gvars => GType'
<1> SUFFICES ASSUME GType, QInv', [GNext]_gvars PROVE typed' \in Seq(Nat) /\ got' \in Seq(Nat)
  BY DEF GType
<1>1. typed \in Seq(Nat) /\ got \in Seq(Nat)
  BY DEF GType
<1>2. CASE ServeRx
  BY <1>1, <1>2, PathTypes DEF ServeRx
<1>3. ASSUME NEW ch \in Byte, GArrive(ch) PROVE typed' \in Seq(Nat) /\ got' \in Seq(Nat)
  BY <1>1, <1>3, PathTypes DEF GArrive
<1>4. CASE UNCHANGED <<typed, got>>
  BY <1>1, <1>4
<1>5. QED
  BY <1>2, <1>3, <1>4
     DEF GNext, GGuest, Startup, TakeVirq, ServeTimer, RxServed, EndOfInterrupt, WildGuest,
         GHypervisor, GExpire, GTimeout, gvars

\* input_uart moves a character from the FIFO to the emulated UART.
LEMMA InputInOrder ==
  ASSUME GType, CharsInOrder, InputChar, UNCHANGED <<gpc, typed, got>>, ~overrun,
         Len(Buffered(uart)) < RxSlots
  PROVE  CharsInOrder'
<1> SUFFICES ASSUME gpc # "wild" PROVE Text(typed) = Text(got) \o Buffered(uart)' \o Text(fifo')
  BY DEF CharsInOrder
<1> DEFINE c == Head(fifo)
           g == Text(got)
           b == Buffered(uart)
           f == Text(fifo')
<1>1. /\ uart \in Uart /\ fifo \in Seq(Byte) /\ fifo # <<>> /\ c \in Byte /\ fifo' = Tail(fifo)
      /\ uart' = Push(uart, c)
  BY HeadTailProperties, PathTypes DEF GType, QInv, IInv, TypeOK, InputChar
<1>2. g \in Seq(Nat) /\ b \in Seq(Nat) /\ c \in Nat /\ fifo \in Seq(Nat) /\ Tail(fifo) \in Seq(Nat)
  BY <1>1, PathTypes, HeadTailProperties
<1>3. f \in Seq(Nat)
  BY <1>1, <1>2, TextType
<1>4. PICK n : Packed(uart, n)
  BY DEF GType, QInv
<1>5. Len(b) = n
  BY <1>1, <1>4, PackedBuffered
<1>6. Buffered(uart)' = IF c # EMPTY THEN Append(b, c) ELSE b
  BY <1>1, <1>4, <1>5, PushPacked
<1>7. Text(fifo) = Leading(c) \o f
  BY <1>1, <1>2, TextHead
<1>8. Text(typed) = g \o b \o (Leading(c) \o f)
  BY <1>7 DEF CharsInOrder
<1> HIDE DEF c, g, b, f
<1>9. CASE c = EMPTY
  <2>1. Leading(c) \o f = f
    BY <1>3, <1>9, ConcatEmptySeq DEF Leading
  <2>2. QED
    BY <1>6, <1>8, <1>9, <2>1 DEF g, f
<1>10. CASE c # EMPTY
  <2>1. g \in Seq(Nat) /\ b \in Seq(Nat) /\ f \in Seq(Nat) /\ c \in Nat
    BY <1>2, <1>3
  <2>2. g \o b \o (Leading(c) \o f) = g \o Append(b, c) \o f
    BY <1>10, <2>1, MovesOn, ZenonT(60)
  <2>3. QED
    BY <1>6, <1>8, <1>10, <2>2, Zenon DEF g, f
<1>11. QED
  BY <1>9, <1>10

\* The guest's driver reads a character.
LEMMA ServeInOrder ==
  ASSUME GType, CharsInOrder, ServeRx, ~overrun, Len(Buffered(uart)) < RxSlots
  PROVE  CharsInOrder'
<1> DEFINE d == DrValue(uart)
           g == Text(got)
           b == Buffered(uart)
           f == Text(fifo)
<1>1. /\ uart' = ReadDr(uart) /\ got' = Append(got, d)
      /\ UNCHANGED <<gpc, typed, fifo>> /\ gpc # "wild"
  BY DEF ServeRx, GuestReadDr
<1>2. uart \in Uart /\ g \in Seq(Nat) /\ b \in Seq(Nat) /\ f \in Seq(Nat) /\ d \in Nat /\ got \in Seq(Nat)
  BY PathTypes DEF GType
<1>3. Text(typed) = g \o b \o f
  BY <1>1 DEF CharsInOrder
<1>4. Text(got') = IF d = EMPTY THEN g ELSE Append(g, d)
  BY <1>1, <1>2, TextAppend
<1>5. PICK n : Packed(uart, n)
  BY DEF GType, QInv
<1>6. Len(b) = n /\ n \in Nat
  BY <1>2, <1>5, PackedBuffered
<1> HIDE DEF d, g, b, f
<1>7. Text(got') \o Buffered(uart)' \o f = g \o b \o f
  <2>1. CASE n = 0
    <3>1. d = EMPTY /\ Buffered(uart)' = b
      BY <1>1, <1>2, <1>5, <2>1, ReadPacked DEF d, b
    <3>2. QED
      BY <1>4, <3>1
  <2>2. CASE n > 0
    <3>1. d # EMPTY /\ d = Head(b) /\ b # <<>> /\ Buffered(uart)' = Tail(b)
      BY <1>1, <1>2, <1>5, <1>6, <2>2, ReadPacked DEF d, b
    <3>2. Append(g, Head(b)) \o Tail(b) = g \o b
      BY <1>2, <3>1, Leaves
    <3>3. QED
      BY <1>4, <3>1, <3>2
  <2>3. n = 0 \/ n > 0
    BY <1>6
  <2>4. QED
    BY <2>1, <2>2, <2>3, Zenon
<1>8. QED
  BY <1>1, <1>3, <1>7 DEF CharsInOrder, f

\* A character arrives from the terminal.
LEMMA ArriveInOrder ==
  ASSUME GType, CharsInOrder, NEW ch \in Byte, GArrive(ch), ~overrun
  PROVE  CharsInOrder'
<1> SUFFICES ASSUME gpc # "wild"
             PROVE  Text(typed') = Text(got) \o Buffered(uart) \o Text(fifo')
  BY DEF GArrive, Arrive, CharsInOrder, Buffered
<1> DEFINE g == Text(got)
           b == Buffered(uart)
           f == Text(fifo)
<1>1. typed' = Append(typed, ch) /\ fifo' = Append(fifo, ch)
  BY DEF GArrive, Arrive
<1>2. /\ g \in Seq(Nat) /\ b \in Seq(Nat) /\ f \in Seq(Nat) /\ ch \in Nat
      /\ typed \in Seq(Nat) /\ fifo \in Seq(Nat)
  BY PathTypes DEF GType
<1>3. Text(typed) = g \o b \o f
  BY DEF CharsInOrder
<1>4. /\ Text(typed') = IF ch = EMPTY THEN Text(typed) ELSE Append(Text(typed), ch)
      /\ Text(fifo') = IF ch = EMPTY THEN f ELSE Append(f, ch)
  BY <1>1, <1>2, TextAppend
<1> HIDE DEF g, b, f
<1>5. g \o b \o Append(f, ch) = Append(g \o b \o f, ch)
  BY <1>2, Enters, ZenonT(60)
<1>6. QED
  BY <1>3, <1>4, <1>5 DEF g, b

\* Only a step that finds all slots taken can disturb the order, and it is recorded.
LEMMA NextInOrder ==
  ASSUME GType, CharsInOrder, [GNext]_gvars
  PROVE  CharsInOrder'
<1> SUFFICES ASSUME ~overrun' PROVE CharsInOrder'
  BY DEF CharsInOrder
<1>1. uart \in Uart
  BY PathTypes
<1>a. ~overrun
  BY DEF GNext, Record, gvars
<1>b. ASSUME InputChar \/ GuestReadDr, Record PROVE Len(Buffered(uart)) < RxSlots
  <2>1. ~Full(uart)
    BY <1>b DEF Record
  <2>2. PICK n : Packed(uart, n)
    BY DEF GType, QInv
  <2>3. Len(Buffered(uart)) = n /\ n \in 0 .. RxSlots
    BY <1>1, <2>2, PackedBuffered DEF Packed
  <2>4. QED
    BY <2>1, <2>3, RxSlotsAssumption DEF Full
<1>2. ASSUME uart'.buf = uart.buf, UNCHANGED <<typed, got, fifo>>, gpc = "wild" => gpc' = "wild"
      PROVE  CharsInOrder'
  <2>1. Buffered(uart)' = Buffered(uart)
    BY <1>2 DEF Buffered
  <2>2. QED
    BY <1>2, <1>a, <2>1 DEF CharsInOrder
<1>3. CASE Startup
  <2>1. uart'.buf = uart.buf
    BY <1>1, <1>3 DEF Startup, GuestWriteImsc, WriteImsc, Uart
  <2>2. QED
    BY <1>2, <1>3, <2>1 DEF Startup, GuestWriteImsc, Goto
<1>4. CASE TakeVirq \/ ServeTimer \/ RxServed \/ EndOfInterrupt
  BY <1>2, <1>4
     DEF TakeVirq, ServeTimer, RxServed, EndOfInterrupt, Goto, GuestReadIar, GuestTimer,
         GuestWriteEoir, vars
<1>5. CASE ServeRx /\ Record
  BY <1>5, <1>a, <1>b, ServeInOrder DEF ServeRx
<1>6. CASE WildGuest
  BY <1>6 DEF WildGuest, CharsInOrder
<1>7. CASE GHypervisor /\ Record
  <2>1. UNCHANGED <<gpc, typed, got>>
    BY <1>7 DEF GHypervisor
  <2>2. CASE InputChar
    BY <1>7, <1>a, <1>b, <2>1, <2>2, InputInOrder
  <2>3. CASE TimerIrq \/ UartIrq \/ InputEmpty \/ InputDone
    BY <1>2, <2>1, <2>3 DEF TimerIrq, UartIrq, InputEmpty, InputDone
  <2>4. QED
    BY <1>7, <2>2, <2>3 DEF GHypervisor, Hypervisor
<1>8. CASE GExpire \/ GTimeout \/ UNCHANGED gvars
  BY <1>2, <1>8 DEF GExpire, Expire, GTimeout, ReceiveTimeout, gvars
<1>9. ASSUME NEW ch \in Byte, GArrive(ch) PROVE CharsInOrder'
  BY <1>9, <1>a, ArriveInOrder
<1>10. QED
  BY <1>3, <1>4, <1>5, <1>6, <1>7, <1>8, <1>9 DEF GNext, GGuest

\* The whole path from the physical UART's FIFO to the guest stays well typed.
THEOREM PathTyped == GSpec => []GType
<1>1. GSpec => []QInv
  BY GuestIsOne, AlwaysPacked
<1>2. QED
  BY <1>1, InitPath, NextGType, PTL DEF GSpec

\* However many characters are typed: what was typed is what the guest has read, what
\* the emulated UART holds and what the FIFO holds, in this order and but for NULs,
\* until a character is pushed to or read from a buffer without a free slot.
THEOREM NoCharacterLost == GSpec => []CharsInOrder
<1>1. GInit => CharsInOrder
  BY InitPath
<1>2. GType /\ CharsInOrder /\ [GNext]_gvars => CharsInOrder'
  BY NextInOrder
<1>3. QED
  BY <1>1, <1>2, PathTyped, PTL DEF GSpec
=============================================================================
