------------------------------- MODULE VgicV2 -------------------------------
(***************************************************************************)
(* Interrupt virtualisation of the rpi4 build while its guest runs: the    *)
(* pending word and HCR_EL2.VI of src/mmio/gicv2.rs, the emulated PL011 of *)
(* src/mmio/pl011.rs, irq_handler of src/exception.rs, input_uart of       *)
(* src/vm.rs, and the devices below them.                                  *)
(*                                                                         *)
(* There is one CPU.  A trap or an IRQ moves it from the guest to EL2,     *)
(* where IRQs are masked until eret, so handlers interleave with the       *)
(* devices but not with each other or with the guest.  A trapped register  *)
(* access and the timer's IRQ are one step each; the handling of a UART    *)
(* IRQ is several, because characters keep arriving while it drains the    *)
(* FIFO.                                                                   *)
(*                                                                         *)
(* The guest is arbitrary: it may access any emulated register at any      *)
(* time.  The accesses that only store or return a value (GICD_CTLR,       *)
(* GICC_CTLR, GICC_PMR, GICC_BPR and the identification registers) decide  *)
(* nothing in the hypervisor and are left out.                             *)
(***************************************************************************)
EXTENDS Pl011Mmio

CONSTANTS
  TimerId,  \* GENERIC_TIMER_INT_ID, the PPI that the host's device tree names
  MaxFifo   \* depth of the physical UART's receive FIFO

ASSUME TimerIdAssumption == TimerId \in 16 .. 31
ASSUME MaxFifoAssumption == MaxFifo \in Nat \ {0}

PL011_INT_ID == 33
SPURIOUS     == 1023
IntId        == {TimerId, PL011_INT_ID}

VARIABLES
  pending,  \* PENDING: the interrupts waiting for the guest
  vi,       \* HCR_EL2.VI: a virtual IRQ is signalled to the guest
  uart,     \* the Pl011Mmio of the VM
  handler,  \* where irq_handler is while it serves the UART
  ppi,      \* the timer's enable bit in the physical distributor
  line,     \* the physical timer asserts its interrupt
  fifo,     \* the physical UART's receive FIFO
  rxirq,    \* the physical UART asserts its interrupt
  active    \* what the guest has read from GICC_IAR and not written to GICC_EOIR

vars == <<pending, vi, uart, handler, ppi, line, fifo, rxirq, active>>

TypeOK ==
  /\ pending \subseteq IntId
  /\ vi \in BOOLEAN
  /\ uart \in Uart
  /\ handler \in {"guest", "input", "clear"}
  /\ ppi \in BOOLEAN
  /\ line \in BOOLEAN
  /\ fifo \in Seq(Byte)
  /\ rxirq \in BOOLEAN
  /\ active \subseteq IntId

\* boot_vm: setup_hypervisor_registers has cleared VI, main() has enabled the
\* UART's SPI and the timer's PPI.
Init ==
  /\ pending = {}
  /\ vi = FALSE
  /\ uart = NewUart
  /\ handler = "guest"
  /\ ppi = TRUE
  /\ line = FALSE
  /\ fifo = <<>>
  /\ rxirq = FALSE
  /\ active = {}

-----------------------------------------------------------------------------
(* The pending word *)

\* inject_interrupt
Inject(id) == pending' = pending \cup {id} /\ vi' = TRUE

NoInject == UNCHANGED <<pending, vi>>

\* trailing_zeros of the pending word
Lowest(S) == CHOOSE i \in S : \A j \in S : i <= j

\* Mutant: VI is left to the next injection.
AcknowledgeKeepsVi ==
  LET id == Lowest(pending) IN
  /\ pending' = pending \ {id}
  /\ active' = active \cup {id}
  /\ UNCHANGED vi

\* Mutant: the whole pending word is cleared.
AcknowledgeAll ==
  /\ pending' = {}
  /\ vi' = FALSE
  /\ active' = active \cup {Lowest(pending)}

\* acknowledge_interrupt, when the pending word is not 0
Acknowledge ==
  LET id == Lowest(pending) IN
  /\ pending' = pending \ {id}
  /\ vi' = (vi /\ pending' # {})
  /\ active' = active \cup {id}

-----------------------------------------------------------------------------
(* irq_handler *)

\* Mutant: nothing is injected while the guest has another interrupt pending.
TimerIrqIfQuiet ==
  /\ handler = "guest"
  /\ line /\ ppi
  /\ ppi' = FALSE
  /\ IF vi THEN NoInject ELSE Inject(TimerId)
  /\ UNCHANGED <<uart, handler, line, fifo, rxirq, active>>

\* The timer's interrupt is masked in the distributor, because the line stays
\* asserted until the guest has served its timer, and passed on.
TimerIrq ==
  /\ handler = "guest"
  /\ line /\ ppi
  /\ ppi' = FALSE
  /\ Inject(TimerId)
  /\ UNCHANGED <<uart, handler, line, fifo, rxirq, active>>

\* The UART's interrupt: input_uart starts.
UartIrq ==
  /\ handler = "guest"
  /\ rxirq
  /\ handler' = "input"
  /\ UNCHANGED <<pending, vi, uart, ppi, line, fifo, rxirq, active>>

\* Mutant: a character that comes before the guest unmasks reception is dropped.
InputCharUnmasked ==
  /\ handler = "input"
  /\ fifo # <<>>
  /\ uart' = IF uart.rxim THEN Push(uart, Head(fifo)) ELSE uart
  /\ fifo' = Tail(fifo)
  /\ IF uart.rxim THEN Inject(PL011_INT_ID) ELSE NoInject
  /\ UNCHANGED <<handler, ppi, line, rxirq, active>>

\* input_uart moves one character to the emulated UART.
InputChar ==
  /\ handler = "input"
  /\ fifo # <<>>
  /\ uart' = Push(uart, Head(fifo))
  /\ fifo' = Tail(fifo)
  /\ IF uart.rxim THEN Inject(PL011_INT_ID) ELSE NoInject
  /\ UNCHANGED <<handler, ppi, line, rxirq, active>>

\* input_uart finds the FIFO empty and leaves its loop.
InputEmpty ==
  /\ handler = "input"
  /\ fifo = <<>>
  /\ handler' = "clear"
  /\ UNCHANGED <<pending, vi, uart, ppi, line, fifo, rxirq, active>>

\* clear_interrupt, the write of the physical GICC_EOIR and eret.
InputDone ==
  /\ handler = "clear"
  /\ rxirq' = FALSE
  /\ handler' = "guest"
  /\ UNCHANGED <<pending, vi, uart, ppi, line, fifo, active>>

-----------------------------------------------------------------------------
(* Register accesses of the guest, which trap to data_abort_handler *)

\* A read of GICC_IAR.  With nothing pending it returns SPURIOUS and changes
\* nothing.
GuestReadIar ==
  /\ handler = "guest"
  /\ pending # {}
  /\ Acknowledge
  /\ UNCHANGED <<uart, handler, ppi, line, fifo, rxirq>>

\* Mutant: the UART is not looked at.
EoirForgetsUart(id) ==
  /\ handler = "guest"
  /\ active' = active \ {id}
  /\ ppi' = (ppi \/ id = TimerId)
  /\ UNCHANGED <<pending, vi, uart, handler, line, fifo, rxirq>>

\* Mutant: the timer's PPI is not enabled again.
EoirKeepsTimerOff(id) ==
  /\ handler = "guest"
  /\ active' = active \ {id}
  /\ IF id = PL011_INT_ID /\ IsRxPending(uart) THEN Inject(PL011_INT_ID) ELSE NoInject
  /\ UNCHANGED <<ppi, uart, handler, line, fifo, rxirq>>

\* A write of GICC_EOIR re-enables the timer's PPI, or injects the UART's
\* interrupt again if the emulated UART still asserts it.
GuestWriteEoir(id) ==
  /\ handler = "guest"
  /\ active' = active \ {id}
  /\ ppi' = (ppi \/ id = TimerId)
  /\ IF id = PL011_INT_ID /\ IsRxPending(uart) THEN Inject(PL011_INT_ID) ELSE NoInject
  /\ UNCHANGED <<uart, handler, line, fifo, rxirq>>

GuestReadDr ==
  /\ handler = "guest"
  /\ uart' = ReadDr(uart)
  /\ UNCHANGED <<pending, vi, handler, ppi, line, fifo, rxirq, active>>

GuestWriteImsc(rx) ==
  /\ handler = "guest"
  /\ uart' = WriteImsc(uart, rx)
  /\ UNCHANGED <<pending, vi, handler, ppi, line, fifo, rxirq, active>>

GuestWriteIcr(rx) ==
  /\ handler = "guest"
  /\ uart' = WriteIcr(uart, rx)
  /\ UNCHANGED <<pending, vi, handler, ppi, line, fifo, rxirq, active>>

\* The guest programs its timer, which it owns, for a later expiry.
GuestTimer ==
  /\ handler = "guest"
  /\ line' = FALSE
  /\ UNCHANGED <<pending, vi, uart, handler, ppi, fifo, rxirq, active>>

-----------------------------------------------------------------------------
(* The devices *)

Expire ==
  /\ line' = TRUE
  /\ UNCHANGED <<pending, vi, uart, handler, ppi, fifo, rxirq, active>>

\* A character arrives and raises the receive interrupt.
Arrive(ch) ==
  /\ Len(fifo) < MaxFifo
  /\ fifo' = Append(fifo, ch)
  /\ rxirq' = TRUE
  /\ UNCHANGED <<pending, vi, uart, handler, ppi, line, active>>

\* Mutant: only the level interrupt is unmasked.
ReceiveLevel ==
  /\ Len(fifo) = MaxFifo
  /\ rxirq' = TRUE
  /\ UNCHANGED <<pending, vi, uart, handler, ppi, line, fifo, active>>

\* The receive timeout interrupt, which enable_interrupt() unmasks too: the
\* FIFO has held characters for a while.
ReceiveTimeout ==
  /\ fifo # <<>>
  /\ rxirq' = TRUE
  /\ UNCHANGED <<pending, vi, uart, handler, ppi, line, fifo, active>>

-----------------------------------------------------------------------------

Hypervisor == TimerIrq \/ UartIrq \/ InputChar \/ InputEmpty \/ InputDone

Guest ==
  \/ GuestReadIar
  \/ \E id \in IntId \cup {SPURIOUS} : GuestWriteEoir(id)
  \/ GuestReadDr
  \/ \E rx \in BOOLEAN : GuestWriteImsc(rx) \/ GuestWriteIcr(rx)
  \/ GuestTimer

Devices == Expire \/ (\E ch \in Byte : Arrive(ch)) \/ ReceiveTimeout

Next == Hypervisor \/ Guest \/ Devices

Spec == Init /\ [][Next]_vars

-----------------------------------------------------------------------------
(* Properties *)

\* ViMatchesPending: HCR_EL2.VI, which is a register of its own, signals a
\* virtual IRQ exactly while the pending word has an interrupt for the guest.
ViMatchesPending == vi <=> pending # {}

\* TimerInFlight: the timer's PPI is disabled in the distributor only while its
\* interrupt is on its way through the guest, whose EOIR write enables it
\* again; an acknowledgement or another interrupt in between never loses it.
TimerInFlight == ~ppi => TimerId \in pending \cup active

\* The emulated UART asserts its interrupt, but the guest neither has it
\* pending nor is in its handler: it will not look at the UART.
RxStranded == IsRxPending(uart) /\ PL011_INT_ID \notin pending \cup active

\* RxStrandedOnlyByUnmask: no step of the hypervisor, and none of the guest but
\* an IMSC write that unmasks a latched interrupt, strands a received
\* character.
RxStrandedOnlyByUnmask ==
  [][RxStranded' => RxStranded \/ GuestWriteImsc(TRUE)]_vars
=============================================================================
