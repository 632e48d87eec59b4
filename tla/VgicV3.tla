------------------------------- MODULE VgicV3 -------------------------------
(***************************************************************************)
(* Interrupt virtualisation of the qemu-virt build: the list registers     *)
(* managed by src/vgicv3.rs, the emulated distributor and redistributor of *)
(* src/mmio/gicv3.rs, irq_handler of src/exception.rs, and what the GICv3  *)
(* hardware does with a list register when the guest acknowledges and ends *)
(* an interrupt.                                                           *)
(*                                                                         *)
(* There is one CPU and handlers run with IRQs masked, so each is one      *)
(* step.  All routes lead to that CPU, hence the lists of entries to be    *)
(* injected on another CPU stay empty.  Priorities are equal, as Linux     *)
(* sets them: an interrupt in service is not preempted, and which of       *)
(* several pending ones comes first is up to the hardware.  A write to a   *)
(* set or clear register acts on its bits one after the other, so a write  *)
(* of several bits is a sequence of the steps below.  The group, active,   *)
(* priority and configuration registers do not influence what is injected. *)
(***************************************************************************)
EXTENDS Naturals, FiniteSets

CONSTANTS
  NumLr,     \* list registers that the software uses
  Spi,       \* the SPIs of the emulated devices
  MaxRaises, \* bound: how often the emulated devices raise an interrupt
  MaxWrites  \* bound: how often the guest changes the configuration

ASSUME NumLrAssumption == NumLr \in Nat \ {0}
ASSUME SpiAssumption   == Spi \subseteq Nat \ (0 .. 31)
ASSUME BoundsAssumption == MaxRaises \in Nat /\ MaxWrites \in Nat

\* GENERIC_TIMER_VIRTUAL_INT_ID; the guest's other PPIs and SGIs have no device.
TIMER == 27

VARIABLES
  lr,           \* the list registers ICH_LR<n>_EL2
  dist,         \* GicDistributorMmio: ctlr, enable, pending, group_modifier
  redist,       \* GicRedistributorMmio: waker, enable, pending, group_modifier
  line,         \* the virtual timer CNTV asserts its interrupt
  timerActive,  \* the physical timer interrupt is active
  served,       \* the guest has served the timer whose interrupt it handles
  raised,       \* SPIs put into a list register and not acknowledged since
  raises,       \* how often a device has raised an interrupt
  writes        \* how often the guest has changed the configuration

vars == <<lr, dist, redist, line, timerActive, served, raised, raises, writes>>

Index == 1 .. NumLr

Entry == [id : Spi \cup {TIMER, 0},
          state : {"inactive", "pending", "active", "both"},
          hw : BOOLEAN, eoi : BOOLEAN]

\* The bits of GICD_CTLR that trigger_interrupt tests.
CtlrBit == {"Grp1NS", "ARE"}

TypeOK ==
  /\ lr \in [Index -> Entry]
  /\ dist \in [ctlr : SUBSET CtlrBit, enable : SUBSET Spi, pending : SUBSET Spi,
             secure : SUBSET Spi]
  /\ redist \in [awake : BOOLEAN, enable : SUBSET {TIMER}, pending : SUBSET {TIMER},
               secure : SUBSET {TIMER}]
  /\ line \in BOOLEAN
  /\ timerActive \in BOOLEAN
  /\ served \in BOOLEAN
  /\ raised \subseteq Spi
  /\ raises \in 0 .. MaxRaises
  /\ writes \in 0 .. MaxWrites

NoEntry == [id |-> 0, state |-> "inactive", hw |-> FALSE, eoi |-> FALSE]

\* GicDistributorMmio and GicRedistributorMmio after the guest's drivers have started.
LinuxDist   == [ctlr |-> CtlrBit, enable |-> Spi, pending |-> {}, secure |-> {}]
LinuxRedist == [awake |-> TRUE, enable |-> {TIMER}, pending |-> {}, secure |-> {}]

Init ==
  /\ lr = [i \in Index |-> NoEntry]
  /\ dist = LinuxDist
  /\ redist = LinuxRedist
  /\ line = FALSE
  /\ timerActive = FALSE
  /\ served = FALSE
  /\ raised = {}
  /\ raises = 0
  /\ writes = 0

-----------------------------------------------------------------------------
(* vgicv3.rs *)

\* Mutant: no entry is linked to a physical interrupt.
NewEntryUnlinked(id, hw) == [id |-> id, state |-> "pending", hw |-> FALSE, eoi |-> TRUE]

\* create_list_register_entry
NewEntry(id, hw) == [id |-> id, state |-> "pending", hw |-> hw, eoi |-> ~hw]

\* The list register that the loop of add_virtual_interrupt stops at.
Usable(regs, id) == {i \in Index : regs[i].state = "inactive" \/ regs[i].id = id}

First(S) == CHOOSE i \in S : \A j \in S : i <= j

\* Mutant: an interrupt raised again while it is active is not recorded.
OrPendingUnlessActive(state) == IF state \in {"active", "both"} THEN state ELSE "pending"

\* The state with the pending bit set as well.
OrPending(state) == IF state \in {"active", "both"} THEN "both" ELSE "pending"

\* add_virtual_interrupt: the first register that is inactive or has the same
\* interrupt; without one the entry is dropped.
AddEntry(regs, e) ==
  LET i == First(Usable(regs, e.id)) IN
  IF Usable(regs, e.id) = {} THEN regs
  ELSE IF regs[i].state = "inactive" THEN [regs EXCEPT ![i] = e]
  ELSE [regs EXCEPT ![i].state = OrPending(@)]

\* What ICH_EISR_EL2 reports: the guest has ended the interrupt.
Ended(e) == e.state = "inactive" /\ e.eoi /\ ~e.hw

-----------------------------------------------------------------------------
(* trigger_interrupt of the distributor and of the redistributor *)

Inject(id, hw) == lr' = AddEntry(lr, NewEntry(id, hw))

NoInject == UNCHANGED lr

\* The interrupt reaches the list registers.
DistForwards(d, id) == CtlrBit \subseteq d.ctlr /\ id \in d.enable \ d.secure

DistTrigger(d, id) ==
  /\ dist' = IF "Grp1NS" \in d.ctlr THEN [d EXCEPT !.pending = @ \cup {id}] ELSE d
  /\ IF DistForwards(d, id) THEN Inject(id, FALSE) ELSE NoInject

\* An SPI that finds no list register is dropped and not among the raised ones.
Record(d, id) ==
  raised' = IF DistForwards(d, id) /\ Usable(lr, id) # {} THEN raised \cup {id} ELSE raised

RedistForwards(r) == r.awake /\ TIMER \in r.enable \ r.secure

RedistTrigger(r, hw) ==
  /\ redist' = IF r.awake THEN [r EXCEPT !.pending = @ \cup {TIMER}] ELSE r
  /\ IF RedistForwards(r) THEN Inject(TIMER, hw) ELSE NoInject

-----------------------------------------------------------------------------
(* Interrupts that the hypervisor handles *)

\* An emulated device raises its SPI: input_uart on a character, the virtio
\* block device on a request that the guest submits.
Raise(id) ==
  /\ raises < MaxRaises
  /\ raises' = raises + 1
  /\ DistTrigger(dist, id)
  /\ Record(dist, id)
  /\ UNCHANGED <<redist, line, timerActive, served>>

\* Mutant: the handler deactivates the interrupt itself.
TimerIrqDeactivates ==
  /\ line /\ ~timerActive
  /\ timerActive' = FALSE
  /\ RedistTrigger(redist, TRUE)
  /\ UNCHANGED <<dist, line, served, raised, raises>>

\* Mutant: the interrupt is injected as a software interrupt.
TimerIrqUnlinked ==
  /\ line /\ ~timerActive
  /\ timerActive' = TRUE
  /\ RedistTrigger(redist, FALSE)
  /\ UNCHANGED <<dist, line, served, raised, raises>>

\* irq_handler for the timer: acknowledge, inject, drop the priority, and leave
\* the deactivation to the list register.
TimerIrq ==
  /\ line /\ ~timerActive
  /\ timerActive' = TRUE
  /\ RedistTrigger(redist, TRUE)
  /\ UNCHANGED <<dist, line, served, raised, raises>>

\* irq_handler for the maintenance interrupt.
Maintenance ==
  LET done == {i \in Index : Ended(lr[i])}
      ids  == {lr[i].id : i \in done}
  IN
  /\ done # {}
  /\ lr'     = [i \in Index |-> IF i \in done THEN NoEntry ELSE lr[i]]
  /\ dist'   = [dist EXCEPT !.pending = @ \ ids]
  /\ redist' = [redist EXCEPT !.pending = @ \ ids]
  /\ UNCHANGED <<line, timerActive, served, raised, raises>>

-----------------------------------------------------------------------------
(* The guest's CPU interface, which the hardware implements *)

InService == {i \in Index : lr[i].state \in {"active", "both"}}

\* The guest reads ICC_IAR1_EL1 and gets the interrupt of register i.
GuestAck(i) ==
  /\ InService = {}
  /\ lr[i].state = "pending"
  /\ lr' = [lr EXCEPT ![i].state = "active"]
  /\ raised' = raised \ {lr[i].id}
  /\ UNCHANGED <<dist, redist, line, timerActive, served, raises>>

\* The guest's timer handler programs the next expiry.
GuestServeTimer ==
  /\ \E i \in InService : lr[i].id = TIMER
  /\ ~served
  /\ served' = TRUE
  /\ line' = FALSE
  /\ UNCHANGED <<lr, dist, redist, timerActive, raised, raises>>

\* The guest writes ICC_EOIR1_EL1: the register is released or, if the interrupt
\* was raised again, pending; a hardware entry deactivates its physical
\* interrupt.
GuestEoi(i) ==
  /\ i \in InService
  /\ lr[i].id = TIMER => served
  /\ lr' = [lr EXCEPT ![i].state = IF @ = "both" THEN "pending" ELSE "inactive"]
  /\ timerActive' = (timerActive /\ ~lr[i].hw)
  /\ served' = FALSE
  /\ UNCHANGED <<dist, redist, line, raised, raises>>

Expire ==
  /\ line' = TRUE
  /\ UNCHANGED <<lr, dist, redist, timerActive, served, raised, raises>>

-----------------------------------------------------------------------------
(* The guest's accesses to the emulated distributor and redistributor *)

\* GICD_CTLR: what is pending is not triggered when forwarding is switched on.
GuestWriteCtlr(bits) ==
  /\ dist' = [dist EXCEPT !.ctlr = bits]
  /\ UNCHANGED <<lr, redist, line, timerActive, served, raised, raises>>

\* GICD_ISENABLER: a pending interrupt that becomes enabled is triggered.
GuestEnableSpi(id) ==
  LET d == [dist EXCEPT !.enable = @ \cup {id}] IN
  /\ IF id \in dist.pending THEN DistTrigger(d, id) ELSE dist' = d /\ NoInject
  /\ IF id \in dist.pending THEN Record(d, id) ELSE UNCHANGED raised
  /\ UNCHANGED <<redist, line, timerActive, served, raises>>

\* GICD_ICENABLER: an entry that is in a list register stays there.
GuestDisableSpi(id) ==
  /\ dist' = [dist EXCEPT !.enable = @ \ {id}]
  /\ UNCHANGED <<lr, redist, line, timerActive, served, raised, raises>>

\* GICD_ISPENDR: an enabled interrupt is triggered.
GuestSetPendingSpi(id) ==
  LET d == [dist EXCEPT !.pending = @ \cup {id}] IN
  /\ IF id \in dist.enable THEN DistTrigger(d, id) ELSE dist' = d /\ NoInject
  /\ Record(d, id)
  /\ UNCHANGED <<redist, line, timerActive, served, raises>>

\* GICD_ICPENDR
GuestClearPendingSpi(id) ==
  /\ dist' = [dist EXCEPT !.pending = @ \ {id}]
  /\ UNCHANGED <<lr, redist, line, timerActive, served, raised, raises>>

\* GICD_IGRPMODR
GuestSecureSpi(ids) ==
  /\ dist' = [dist EXCEPT !.secure = ids]
  /\ UNCHANGED <<lr, redist, line, timerActive, served, raised, raises>>

\* GICR_WAKER
GuestWriteWaker(awake) ==
  /\ redist' = [redist EXCEPT !.awake = awake]
  /\ UNCHANGED <<lr, dist, line, timerActive, served, raised, raises>>

\* GICR_ISENABLER0
GuestEnableTimer ==
  LET r == [redist EXCEPT !.enable = {TIMER}] IN
  /\ IF TIMER \in redist.pending THEN RedistTrigger(r, FALSE) ELSE redist' = r /\ NoInject
  /\ UNCHANGED <<dist, line, timerActive, served, raised, raises>>

\* GICR_ICENABLER0
GuestDisableTimer ==
  /\ redist' = [redist EXCEPT !.enable = {}]
  /\ UNCHANGED <<lr, dist, line, timerActive, served, raised, raises>>

\* GICR_ISPENDR0: the entry is not linked to the physical interrupt.
GuestSetPendingTimer ==
  LET r == [redist EXCEPT !.pending = {TIMER}] IN
  /\ IF TIMER \in redist.enable THEN RedistTrigger(r, FALSE) ELSE redist' = r /\ NoInject
  /\ UNCHANGED <<dist, line, timerActive, served, raised, raises>>

\* GICR_ICPENDR0
GuestClearPendingTimer ==
  /\ redist' = [redist EXCEPT !.pending = {}]
  /\ UNCHANGED <<lr, dist, line, timerActive, served, raised, raises>>

\* GICR_IGRPMODR0
GuestSecureTimer(ids) ==
  /\ redist' = [redist EXCEPT !.secure = ids]
  /\ UNCHANGED <<lr, dist, line, timerActive, served, raised, raises>>

-----------------------------------------------------------------------------

Hypervisor == (\E id \in Spi : Raise(id)) \/ TimerIrq \/ Maintenance

GuestHandler == \E i \in Index : GuestAck(i) \/ GuestServeTimer \/ GuestEoi(i)

GuestConfig ==
  \/ \E bits \in SUBSET CtlrBit : GuestWriteCtlr(bits)
  \/ \E id \in Spi :
       \/ GuestEnableSpi(id) \/ GuestDisableSpi(id)
       \/ GuestSetPendingSpi(id) \/ GuestClearPendingSpi(id)
  \/ \E awake \in BOOLEAN : GuestWriteWaker(awake)
  \/ \E ids \in SUBSET Spi : GuestSecureSpi(ids)
  \/ \E ids \in SUBSET {TIMER} : GuestSecureTimer(ids)
  \/ GuestEnableTimer \/ GuestDisableTimer
  \/ GuestSetPendingTimer \/ GuestClearPendingTimer

\* A guest that sets up its interrupt controller once makes no more writes; another
\* may begin with them at any time.
Steady   == (Hypervisor \/ GuestHandler \/ Expire) /\ UNCHANGED writes
Rewrites == writes < MaxWrites /\ GuestConfig /\ writes' = writes + 1

Next == Steady \/ Rewrites

Spec == Init /\ [][Next]_vars

\* Fairness: the CPU takes the interrupts that are signalled to it, and the
\* guest runs its handlers to their end.
FairSpec ==
  /\ Spec
  /\ WF_vars(TimerIrq /\ UNCHANGED writes)
  /\ WF_vars(Maintenance /\ UNCHANGED writes)
  /\ WF_vars(GuestHandler /\ UNCHANGED writes)

-----------------------------------------------------------------------------
(* Properties *)

Holding(i) == lr[i].state # "inactive"

\* RaisedKept: an SPI that was raised and found a list register stays in one,
\* pending, until the guest acknowledges it: neither another injection nor the
\* maintenance interrupt removes it, whatever the guest writes.
RaisedKept ==
  \A id \in raised :
    \E i \in Index : lr[i].id = id /\ lr[i].state \in {"pending", "both"}

\* HwEntryBacked: until the guest changes its configuration, a list register linked
\* to the physical timer interrupt is in use only while that interrupt is active,
\* and there is at most one, so the guest's EOI never deactivates an interrupt that
\* is not active.
HwEntryBacked ==
  LET linked == {i \in Index : Holding(i) /\ lr[i].hw} IN
  writes = 0 => (linked # {} => timerActive) /\ Cardinality(linked) <= 1

\* TimerEnds: until then, the physical timer interrupt, which irq_handler leaves
\* active, is linked to a list register through which the guest's EOI ends it.
TimerEnds == writes = 0 /\ timerActive => \E i \in Index : Holding(i) /\ lr[i].hw

\* TimerServed: every expiry of the timer is served by a guest that leaves its
\* configuration alone.
TimerServed == line ~> ~line \/ writes > 0
=============================================================================
