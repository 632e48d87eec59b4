---------------------------- MODULE VgicV3Proofs ----------------------------
(***************************************************************************)
(* Proofs about the interrupt virtualisation of the qemu-virt build, for   *)
(* every number of list registers and of device interrupts and for every   *)
(* sequence of register writes of the guest.                               *)
(***************************************************************************)
EXTENDS VgicV3, Integers, WellFoundedInduction, FiniteSetTheorems, TLAPS

-----------------------------------------------------------------------------
(* add_virtual_interrupt *)

\* A set of numbers that is not empty has a least member.
LEMMA Least ==
  ASSUME NEW S, S \subseteq Nat, S # {}
  PROVE  First(S) \in S /\ \A j \in S : First(S) <= j
<1> DEFINE R == {p \in Nat \X Nat : p[1] < p[2]}
<1>1. IsWellFoundedOn(R, Nat)
  BY NatLessThanWellFounded, Zenon DEF OpToRel
<1>2. \A i, j \in Nat : j < i => <<j, i>> \in R
  OBVIOUS
<1> HIDE DEF R
<1>3. PICK i \in S : \A j \in S : <<j, i>> \notin R
  BY <1>1, WFMin
<1>4. ASSUME NEW j \in S PROVE i <= j
  <2>1. ~(j < i)
    BY <1>2, <1>3
  <2>2. QED
    BY <2>1
<1>5. \E k \in S : \A j \in S : k <= j
  BY <1>4
<1>6. QED
  BY <1>5 DEF First

\* What an entry finds in the list registers: the first one that is inactive or has
\* its interrupt.
Reaches(regs, e, i) ==
  /\ i \in Index
  /\ \A j \in 1 .. i - 1 : regs[j].state # "inactive" /\ regs[j].id # e.id

\* What add_virtual_interrupt does with register i: it fills an inactive one or makes
\* one that has the interrupt already pending, and changes no other.
Fills(regs, e, i, new) ==
  /\ regs[i].state = "inactive"
  /\ new[i] = e

Merges(regs, e, i, new) ==
  /\ regs[i].state # "inactive" /\ regs[i].id = e.id
  /\ new[i].id = regs[i].id /\ new[i].hw = regs[i].hw
  /\ new[i].state \in {"pending", "both"}

\* add_virtual_interrupt drops the entry or puts it into one register.
LEMMA AddEntryCases ==
  ASSUME NEW regs \in [Index -> Entry], NEW e \in Entry, NEW new, new = AddEntry(regs, e)
  PROVE  /\ new \in [Index -> Entry]
         /\ \/ Usable(regs, e.id) = {} /\ new = regs
            \/ \E i \in Index :
                 /\ Reaches(regs, e, i)
                 /\ \A k \in Index \ {i} : new[k] = regs[k]
                 /\ Fills(regs, e, i, new) \/ Merges(regs, e, i, new)
<1>1. CASE Usable(regs, e.id) = {}
  BY <1>1 DEF AddEntry
<1>2. CASE Usable(regs, e.id) # {}
  <2> DEFINE i == First(Usable(regs, e.id))
  <2>1. i \in Usable(regs, e.id) /\ \A j \in Usable(regs, e.id) : i <= j
    <3>1. Usable(regs, e.id) \subseteq Nat
      BY NumLrAssumption DEF Usable, Index
    <3>2. QED
      BY <1>2, <3>1, Least
  <2>2. new = IF regs[i].state = "inactive" THEN [regs EXCEPT ![i] = e]
              ELSE [regs EXCEPT ![i].state = OrPending(@)]
    BY <1>2 DEF AddEntry
  <2> HIDE DEF i
  <2>3. i \in Index /\ (regs[i].state = "inactive" \/ regs[i].id = e.id)
    BY <2>1 DEF Usable
  <2>4. ASSUME NEW j \in 1 .. i - 1
        PROVE  regs[j].state # "inactive" /\ regs[j].id # e.id
    <3>1. j \in Index /\ ~(i <= j)
      BY <2>3, NumLrAssumption DEF Index
    <3>2. QED
      BY <2>1, <3>1 DEF Usable
  <2>5. Reaches(regs, e, i)
    BY <2>3, <2>4 DEF Reaches
  <2>6. CASE regs[i].state = "inactive"
    <3>1. /\ new \in [Index -> Entry]
          /\ \A k \in Index \ {i} : new[k] = regs[k]
          /\ Fills(regs, e, i, new)
      BY <2>2, <2>3, <2>6 DEF Fills
    <3>2. QED
      BY <2>3, <2>5, <3>1
  <2>7. CASE regs[i].state # "inactive"
    <3>1. new = [regs EXCEPT ![i].state = OrPending(@)]
      BY <2>2, <2>7
    <3>2. OrPending(regs[i].state) \in {"pending", "both"}
      BY DEF OrPending
    <3>3. /\ new \in [Index -> Entry]
          /\ \A k \in Index \ {i} : new[k] = regs[k]
          /\ Merges(regs, e, i, new)
      BY <2>3, <2>7, <3>1, <3>2 DEF Merges, Entry
    <3>4. QED
      BY <2>3, <2>5, <3>3
  <2>8. QED
    BY <2>6, <2>7
<1>3. QED
  BY <1>1, <1>2

\* An injection keeps every register pending that was.
LEMMA AddEntryKeeps ==
  ASSUME NEW regs \in [Index -> Entry], NEW e \in Entry, e.state = "pending",
         NEW new, new = AddEntry(regs, e),
         NEW k \in Index, regs[k].state \in {"pending", "both"}
  PROVE  new[k].id = regs[k].id /\ new[k].state \in {"pending", "both"}
<1>1. CASE new = regs
  BY <1>1
<1>2. ASSUME NEW i \in Index, \A l \in Index \ {i} : new[l] = regs[l],
             Fills(regs, e, i, new) \/ Merges(regs, e, i, new)
      PROVE  new[k].id = regs[k].id /\ new[k].state \in {"pending", "both"}
  BY <1>2 DEF Fills, Merges
<1>3. \/ new = regs
      \/ \E i \in Index : /\ \A l \in Index \ {i} : new[l] = regs[l]
                          /\ Fills(regs, e, i, new) \/ Merges(regs, e, i, new)
  BY AddEntryCases
<1>4. QED
  BY <1>1, <1>2, <1>3

\* An injection leaves the interrupt pending unless it was dropped.
LEMMA AddEntryPends ==
  ASSUME NEW regs \in [Index -> Entry], NEW e \in Entry, e.state = "pending",
         NEW new, new = AddEntry(regs, e), Usable(regs, e.id) # {}
  PROVE  \E k \in Index : new[k].id = e.id /\ new[k].state \in {"pending", "both"}
<1>1. PICK i \in Index : Fills(regs, e, i, new) \/ Merges(regs, e, i, new)
  BY AddEntryCases
<1>2. QED
  BY <1>1 DEF Fills, Merges

-----------------------------------------------------------------------------
(* Types and raised interrupts *)

\* The entries that the code creates.
LEMMA NewEntryType ==
  ASSUME NEW id \in Spi \cup {TIMER}, NEW hw \in BOOLEAN
  PROVE  /\ NewEntry(id, hw) \in Entry /\ NewEntry(id, hw).state = "pending"
         /\ NewEntry(id, hw).id = id /\ NewEntry(id, hw).hw = hw
  BY DEF NewEntry, Entry

RInv == TypeOK /\ RaisedKept

\* The two ways an action treats the list registers when it triggers an interrupt:
\* it injects the interrupt, which is raised only if it is not dropped.
LEMMA InjectKeeps ==
  ASSUME RInv, NEW id \in Spi \cup {TIMER}, NEW hw \in BOOLEAN, Inject(id, hw),
         raised' \subseteq raised \cup (IF Usable(lr, id) # {} THEN {id} ELSE {})
  PROVE  lr' \in [Index -> Entry] /\ RaisedKept'
<1> DEFINE e == NewEntry(id, hw)
<1>1. e \in Entry /\ e.state = "pending" /\ e.id = id
  BY NewEntryType
<1>2. lr \in [Index -> Entry] /\ lr' = AddEntry(lr, e)
  BY DEF RInv, TypeOK, Inject
<1> HIDE DEF e
<1>3. lr' \in [Index -> Entry]
  BY <1>1, <1>2, AddEntryCases
<1>4. \A k \in Index : lr[k].state \in {"pending", "both"} =>
        lr'[k].id = lr[k].id /\ lr'[k].state \in {"pending", "both"}
  BY <1>1, <1>2, AddEntryKeeps
<1>5. Usable(lr, id) # {} =>
        \E k \in Index : lr'[k].id = id /\ lr'[k].state \in {"pending", "both"}
  BY <1>1, <1>2, AddEntryPends
<1>6. ASSUME NEW s \in raised'
      PROVE  \E k \in Index : lr'[k].id = s /\ lr'[k].state \in {"pending", "both"}
  <2>1. CASE s \in raised
    BY <1>4, <2>1 DEF RInv, RaisedKept
  <2>2. CASE s = id /\ Usable(lr, id) # {}
    BY <1>5, <2>2
  <2>3. QED
    BY <2>1, <2>2
<1>7. QED
  BY <1>3, <1>6 DEF RaisedKept

\* trigger_interrupt of the distributor with what it records.
LEMMA DistTriggerKeeps ==
  ASSUME RInv, NEW d, d \in [ctlr : SUBSET CtlrBit, enable : SUBSET Spi,
                             pending : SUBSET Spi, secure : SUBSET Spi],
         NEW id \in Spi, DistTrigger(d, id), Record(d, id)
  PROVE  /\ lr' \in [Index -> Entry] /\ RaisedKept' /\ raised' \subseteq Spi
         /\ dist' \in [ctlr : SUBSET CtlrBit, enable : SUBSET Spi,
                       pending : SUBSET Spi, secure : SUBSET Spi]
<1>1. dist' \in [ctlr : SUBSET CtlrBit, enable : SUBSET Spi,
                 pending : SUBSET Spi, secure : SUBSET Spi]
  BY DEF DistTrigger
<1>2. raised' \subseteq Spi
  BY DEF Record, RInv, TypeOK
<1>3. CASE DistForwards(d, id)
  <2>1. Inject(id, FALSE)
    BY <1>3 DEF DistTrigger
  <2>2. raised' \subseteq raised \cup (IF Usable(lr, id) # {} THEN {id} ELSE {})
    BY DEF Record
  <2>3. QED
    BY <1>1, <1>2, <2>1, <2>2, InjectKeeps
<1>4. CASE ~DistForwards(d, id)
  <2>1. lr' = lr /\ raised' = raised
    BY <1>4 DEF DistTrigger, NoInject, Record
  <2>2. QED
    BY <1>1, <1>2, <2>1 DEF RInv, TypeOK, RaisedKept
<1>5. QED
  BY <1>3, <1>4

\* trigger_interrupt of the redistributor.
LEMMA RedistTriggerKeeps ==
  ASSUME RInv, NEW r, r \in [awake : BOOLEAN, enable : SUBSET {TIMER},
                             pending : SUBSET {TIMER}, secure : SUBSET {TIMER}],
         NEW hw \in BOOLEAN, RedistTrigger(r, hw), raised' = raised
  PROVE  /\ lr' \in [Index -> Entry] /\ RaisedKept'
         /\ redist' \in [awake : BOOLEAN, enable : SUBSET {TIMER},
                         pending : SUBSET {TIMER}, secure : SUBSET {TIMER}]
<1>1. redist' \in [awake : BOOLEAN, enable : SUBSET {TIMER},
                   pending : SUBSET {TIMER}, secure : SUBSET {TIMER}]
  BY DEF RedistTrigger
<1>2. CASE RedistForwards(r)
  <2>1. Inject(TIMER, hw)
    BY <1>2 DEF RedistTrigger
  <2>2. QED
    BY <1>1, <2>1, InjectKeeps
<1>3. CASE ~RedistForwards(r)
  <2>1. lr' = lr
    BY <1>3 DEF RedistTrigger, NoInject
  <2>2. QED
    BY <1>1, <2>1 DEF RInv, TypeOK, RaisedKept
<1>4. QED
  BY <1>2, <1>3

\* The invariant holds when the guest's drivers have started.
LEMMA InitRInv == Init => RInv
<1> SUFFICES ASSUME Init PROVE RInv
  OBVIOUS
<1>1. NoEntry \in Entry
  BY DEF NoEntry, Entry
<1>2. TypeOK
  <2>1. lr \in [Index -> Entry]
    BY <1>1 DEF Init
  <2>2. dist \in [ctlr : SUBSET CtlrBit, enable : SUBSET Spi, pending : SUBSET Spi,
                  secure : SUBSET Spi]
    BY DEF Init, LinuxDist
  <2>3. redist \in [awake : BOOLEAN, enable : SUBSET {TIMER}, pending : SUBSET {TIMER},
                    secure : SUBSET {TIMER}]
    BY DEF Init, LinuxRedist
  <2>4. raises \in 0 .. MaxRaises /\ writes \in 0 .. MaxWrites
    BY BoundsAssumption DEF Init
  <2>5. QED
    BY <2>1, <2>2, <2>3, <2>4 DEF Init, TypeOK
<1>3. QED
  BY <1>2 DEF Init, RInv, RaisedKept

\* irq_handler and the emulated devices keep what is raised.
LEMMA HypervisorRInv ==
  ASSUME RInv, Hypervisor, UNCHANGED writes PROVE RInv'
<1> USE DEF RInv
<1>1. ASSUME NEW id \in Spi, Raise(id) PROVE RInv'
  <2>1. /\ lr' \in [Index -> Entry] /\ RaisedKept' /\ raised' \subseteq Spi
        /\ dist' \in [ctlr : SUBSET CtlrBit, enable : SUBSET Spi,
                      pending : SUBSET Spi, secure : SUBSET Spi]
    BY <1>1, DistTriggerKeeps DEF Raise, TypeOK
  <2>2. QED
    BY <1>1, <2>1, BoundsAssumption DEF Raise, TypeOK
<1>2. CASE TimerIrq
  <2>1. /\ lr' \in [Index -> Entry] /\ RaisedKept'
        /\ redist' \in [awake : BOOLEAN, enable : SUBSET {TIMER},
                        pending : SUBSET {TIMER}, secure : SUBSET {TIMER}]
    BY <1>2, RedistTriggerKeeps DEF TimerIrq, TypeOK
  <2>2. QED
    BY <1>2, <2>1 DEF TimerIrq, TypeOK
<1>3. CASE Maintenance
  <2>1. NoEntry \in Entry
    BY DEF NoEntry, Entry
  <2>2. lr' \in [Index -> Entry]
    BY <1>3, <2>1 DEF Maintenance, TypeOK
  <2>3. \A i \in Index : lr[i].state \in {"pending", "both"} => lr'[i] = lr[i]
    BY <1>3 DEF Maintenance, Ended
  <2>4. RaisedKept'
    BY <1>3, <2>3 DEF Maintenance, RaisedKept
  <2>5. QED
    BY <1>3, <2>2, <2>4 DEF Maintenance, TypeOK
<1>4. QED
  BY <1>1, <1>2, <1>3 DEF Hypervisor

\* The guest's CPU interface: an interrupt is taken from the raised ones only when the
\* guest acknowledges it.
LEMMA GuestHandlerRInv ==
  ASSUME RInv, GuestHandler \/ Expire, UNCHANGED writes PROVE RInv'
<1> USE DEF RInv
<1>1. ASSUME NEW i \in Index, GuestAck(i) PROVE RInv'
  <2>1. /\ lr' \in [Index -> Entry]
        /\ \A k \in Index \ {i} : lr'[k] = lr[k]
    BY <1>1 DEF GuestAck, TypeOK, Entry
  <2>2. RaisedKept'
    BY <1>1, <2>1 DEF GuestAck, RaisedKept
  <2>3. QED
    BY <1>1, <2>1, <2>2 DEF GuestAck, TypeOK
<1>2. CASE GuestServeTimer \/ Expire
  <2>1. /\ UNCHANGED <<lr, dist, redist, timerActive, raised, raises>>
        /\ line' \in BOOLEAN /\ served' \in BOOLEAN
    BY <1>2 DEF GuestServeTimer, Expire, TypeOK
  <2>2. QED
    BY <2>1 DEF TypeOK, RaisedKept
<1>3. ASSUME NEW i \in Index, GuestEoi(i) PROVE RInv'
  <2>1. lr[i] \in Entry /\ lr[i].state \in {"active", "both"}
    BY <1>3 DEF GuestEoi, InService, TypeOK
  <2>2. /\ lr' \in [Index -> Entry]
        /\ \A k \in Index \ {i} : lr'[k] = lr[k]
        /\ lr'[i].id = lr[i].id
        /\ lr[i].state = "both" => lr'[i].state = "pending"
    BY <1>3, <2>1 DEF GuestEoi, TypeOK, Entry
  <2>3. RaisedKept'
    BY <1>3, <2>1, <2>2 DEF GuestEoi, RaisedKept
  <2>4. QED
    BY <1>3, <2>2, <2>3 DEF GuestEoi, TypeOK
<1>4. QED
  BY <1>1, <1>2, <1>3 DEF GuestHandler

\* No register write of the guest takes a raised interrupt away.
LEMMA GuestConfigRInv ==
  ASSUME RInv, GuestConfig, writes' = writes + 1, writes < MaxWrites PROVE RInv'
<1> USE DEF RInv
<1>1. writes' \in 0 .. MaxWrites
  BY BoundsAssumption DEF TypeOK
<1>2. ASSUME NEW bits \in SUBSET CtlrBit, GuestWriteCtlr(bits) PROVE RInv'
  BY <1>1, <1>2 DEF GuestWriteCtlr, TypeOK, RaisedKept
<1>3. ASSUME NEW id \in Spi, GuestEnableSpi(id) PROVE RInv'
  <2> DEFINE d == [dist EXCEPT !.enable = @ \cup {id}]
  <2>1. d \in [ctlr : SUBSET CtlrBit, enable : SUBSET Spi,
               pending : SUBSET Spi, secure : SUBSET Spi]
    BY DEF TypeOK
  <2>2. CASE id \in dist.pending
    <3>1. DistTrigger(d, id) /\ Record(d, id)
      BY <1>3, <2>2 DEF GuestEnableSpi
    <3> HIDE DEF d
    <3>2. /\ lr' \in [Index -> Entry] /\ RaisedKept' /\ raised' \subseteq Spi
          /\ dist' \in [ctlr : SUBSET CtlrBit, enable : SUBSET Spi,
                        pending : SUBSET Spi, secure : SUBSET Spi]
      BY <2>1, <3>1, DistTriggerKeeps
    <3>3. QED
      BY <1>1, <1>3, <3>2 DEF GuestEnableSpi, TypeOK
  <2>3. CASE id \notin dist.pending
    BY <1>1, <1>3, <2>1, <2>3 DEF GuestEnableSpi, NoInject, TypeOK, RaisedKept
  <2>4. QED
    BY <2>2, <2>3
<1>4. ASSUME NEW id \in Spi, GuestSetPendingSpi(id) PROVE RInv'
  <2> DEFINE d == [dist EXCEPT !.pending = @ \cup {id}]
  <2>1. d \in [ctlr : SUBSET CtlrBit, enable : SUBSET Spi,
               pending : SUBSET Spi, secure : SUBSET Spi]
    BY DEF TypeOK
  <2>2. CASE id \in dist.enable
    <3>1. DistTrigger(d, id) /\ Record(d, id)
      BY <1>4, <2>2 DEF GuestSetPendingSpi
    <3> HIDE DEF d
    <3>2. /\ lr' \in [Index -> Entry] /\ RaisedKept' /\ raised' \subseteq Spi
          /\ dist' \in [ctlr : SUBSET CtlrBit, enable : SUBSET Spi,
                        pending : SUBSET Spi, secure : SUBSET Spi]
      BY <2>1, <3>1, DistTriggerKeeps
    <3>3. QED
      BY <1>1, <1>4, <3>2 DEF GuestSetPendingSpi, TypeOK
  <2>3. CASE id \notin dist.enable
    <3>1. d.enable = dist.enable
      BY DEF TypeOK
    <3>2. raised' = raised
      BY <1>4, <2>3, <3>1 DEF GuestSetPendingSpi, Record, DistForwards
    <3>3. QED
      BY <1>1, <1>4, <2>1, <2>3, <3>2 DEF GuestSetPendingSpi, NoInject, TypeOK, RaisedKept
  <2>4. QED
    BY <2>2, <2>3
<1>5. ASSUME NEW id \in Spi, GuestDisableSpi(id) \/ GuestClearPendingSpi(id) PROVE RInv'
  BY <1>1, <1>5 DEF GuestDisableSpi, GuestClearPendingSpi, TypeOK, RaisedKept
<1>6. ASSUME NEW ids \in SUBSET Spi, GuestSecureSpi(ids) PROVE RInv'
  BY <1>1, <1>6 DEF GuestSecureSpi, TypeOK, RaisedKept
<1>7. ASSUME NEW awake \in BOOLEAN, GuestWriteWaker(awake) PROVE RInv'
  BY <1>1, <1>7 DEF GuestWriteWaker, TypeOK, RaisedKept
<1>8. ASSUME NEW ids \in SUBSET {TIMER}, GuestSecureTimer(ids) PROVE RInv'
  BY <1>1, <1>8 DEF GuestSecureTimer, TypeOK, RaisedKept
<1>9. CASE GuestDisableTimer \/ GuestClearPendingTimer
  BY <1>1, <1>9 DEF GuestDisableTimer, GuestClearPendingTimer, TypeOK, RaisedKept
<1>10. ASSUME GuestEnableTimer \/ GuestSetPendingTimer PROVE RInv'
  <2>1. PICK r \in [awake : BOOLEAN, enable : SUBSET {TIMER},
                    pending : SUBSET {TIMER}, secure : SUBSET {TIMER}] :
          /\ RedistTrigger(r, FALSE) \/ (redist' = r /\ NoInject)
          /\ UNCHANGED <<dist, line, timerActive, served, raised, raises>>
    <3>1. CASE GuestEnableTimer
      BY <3>1 DEF GuestEnableTimer, TypeOK
    <3>2. CASE GuestSetPendingTimer
      BY <3>2 DEF GuestSetPendingTimer, TypeOK
    <3>3. QED
      BY <1>10, <3>1, <3>2
  <2>2. CASE RedistTrigger(r, FALSE)
    <3>1. /\ lr' \in [Index -> Entry] /\ RaisedKept'
          /\ redist' \in [awake : BOOLEAN, enable : SUBSET {TIMER},
                          pending : SUBSET {TIMER}, secure : SUBSET {TIMER}]
      BY <2>1, <2>2, RedistTriggerKeeps
    <3>2. QED
      BY <1>1, <2>1, <3>1 DEF TypeOK
  <2>3. CASE redist' = r /\ NoInject
    BY <1>1, <2>1, <2>3 DEF NoInject, TypeOK, RaisedKept
  <2>4. QED
    BY <2>1, <2>2, <2>3
<1>11. QED
  BY <1>2, <1>3, <1>4, <1>5, <1>6, <1>7, <1>8, <1>9, <1>10 DEF GuestConfig

\* Types and raised interrupts are an invariant of every guest.
THEOREM Invariance == Spec => []RInv
<1>1. RInv /\ UNCHANGED vars => RInv'
  BY DEF RInv, TypeOK, RaisedKept, vars
<1>2. RInv /\ [Next]_vars => RInv'
  BY <1>1, HypervisorRInv, GuestHandlerRInv, GuestConfigRInv DEF Next, Steady, Rewrites
<1>3. QED
  BY <1>2, InitRInv, PTL DEF Spec

\* Type correctness of the list registers and the emulated registers.
THEOREM TypeCorrect == Spec => []TypeOK
<1>1. RInv => TypeOK
  BY DEF RInv
<1>2. QED
  BY <1>1, Invariance, PTL

\* For every guest and any number of list registers and devices: a raised interrupt
\* that found a list register stays pending until it is acknowledged.
THEOREM RaisedStays == Spec => []RaisedKept
<1>1. RInv => RaisedKept
  BY DEF RInv
<1>2. QED
  BY <1>1, Invariance, PTL

-----------------------------------------------------------------------------
(* The physical timer interrupt, until the guest rewrites its configuration *)

Linked(i) == Holding(i) /\ lr[i].hw

\* Before the first configuration write the timer's entries are the linked ones: there
\* is at most one, it is never raised twice, and the physical interrupt is active.
HwInv ==
  writes = 0 =>
    /\ \A i \in Index : Holding(i) => (lr[i].hw <=> lr[i].id = TIMER)
    /\ \A i \in Index : Linked(i) => timerActive /\ lr[i].state # "both"
    /\ \A i, j \in Index : Linked(i) /\ Linked(j) => i = j

\* The redistributor forwards the timer.
ForwardInv == writes = 0 => redist.awake /\ redist.enable = {TIMER} /\ redist.secure = {}

\* No list register is left for an interrupt that is in none.
Full == \A i \in Index : Holding(i)

\* No device has the number of the timer's interrupt.
LEMMA SpiNotTimer == TIMER \notin Spi
  BY SpiAssumption DEF TIMER

\* An injected device interrupt leaves the linked entries alone.
LEMMA InjectSpi ==
  ASSUME RInv, HwInv, writes = 0, NEW id \in Spi, Inject(id, FALSE),
         NEW k \in Index
  PROVE  lr'[k] = lr[k] \/ (lr'[k].id = id /\ ~lr'[k].hw /\ ~Linked(k))
<1> DEFINE e == NewEntry(id, FALSE)
<1>1. e \in Entry /\ e.id = id /\ e.hw = FALSE
  BY NewEntryType
<1>2. lr \in [Index -> Entry] /\ lr' = AddEntry(lr, e)
  BY DEF RInv, TypeOK, Inject
<1> HIDE DEF e
<1>3. \/ lr' = lr
      \/ \E i \in Index : /\ \A l \in Index \ {i} : lr'[l] = lr[l]
                          /\ Fills(lr, e, i, lr') \/ Merges(lr, e, i, lr')
  BY <1>1, <1>2, AddEntryCases
<1>4. ASSUME NEW i \in Index, Fills(lr, e, i, lr') \/ Merges(lr, e, i, lr')
      PROVE  lr'[i].id = id /\ ~lr'[i].hw /\ ~Linked(i)
  <2>1. CASE Fills(lr, e, i, lr')
    BY <1>1, <2>1 DEF Fills, Linked, Holding
  <2>2. CASE Merges(lr, e, i, lr')
    <3>1. Holding(i) /\ lr[i].id = id /\ id # TIMER
      BY <1>1, <2>2, SpiNotTimer DEF Merges, Holding
    <3>2. ~lr[i].hw
      BY <3>1 DEF HwInv
    <3>3. QED
      BY <1>1, <2>2, <3>1, <3>2 DEF Merges, Linked
  <2>3. QED
    BY <1>4, <2>1, <2>2
<1>5. QED
  BY <1>3, <1>4

\* The timer's entry, which is injected when there is none, gets a register that was
\* inactive.
LEMMA InjectTimer ==
  ASSUME RInv, HwInv, writes = 0, ~timerActive, Inject(TIMER, TRUE)
  PROVE  \/ Usable(lr, TIMER) = {} /\ lr' = lr
         \/ \E i \in Index : /\ \A l \in Index \ {i} : lr'[l] = lr[l]
                             /\ lr'[i] = NewEntry(TIMER, TRUE)
<1> DEFINE e == NewEntry(TIMER, TRUE)
<1>1. e \in Entry /\ e.id = TIMER
  BY NewEntryType
<1>2. lr \in [Index -> Entry] /\ lr' = AddEntry(lr, e)
  BY DEF RInv, TypeOK, Inject
<1> HIDE DEF e
<1>3. \/ Usable(lr, TIMER) = {} /\ lr' = lr
      \/ \E i \in Index : /\ \A l \in Index \ {i} : lr'[l] = lr[l]
                          /\ Fills(lr, e, i, lr') \/ Merges(lr, e, i, lr')
  BY <1>1, <1>2, AddEntryCases
<1>4. ASSUME NEW i \in Index, Merges(lr, e, i, lr') PROVE FALSE
  <2>1. Holding(i) /\ lr[i].id = TIMER
    BY <1>1, <1>4 DEF Merges, Holding
  <2>2. Linked(i)
    BY <2>1 DEF HwInv, Linked
  <2>3. QED
    BY <2>2 DEF HwInv
<1>5. QED
  BY <1>3, <1>4 DEF Fills, e

\* The invariant holds when the guest's drivers have started.
LEMMA InitHwInv == Init => HwInv /\ ForwardInv
  BY DEF Init, HwInv, ForwardInv, Linked, Holding, NoEntry, LinuxRedist

\* A step that leaves the list registers and the physical interrupt alone.
LEMMA SameRegisters ==
  ASSUME HwInv, UNCHANGED <<lr, timerActive, writes>>
  PROVE  HwInv' /\ (TimerEnds => TimerEnds')
  BY DEF HwInv, TimerEnds, Linked, Holding

\* Raise, for a distributor d that forwards the interrupt or not.
LEMMA RaiseHwInv ==
  ASSUME RInv, HwInv, NEW id \in Spi, Raise(id), UNCHANGED writes
  PROVE  HwInv' /\ (TimerEnds => TimerEnds')
<1>1. CASE DistForwards(dist, id) /\ writes = 0
  <2>1. Inject(id, FALSE) /\ timerActive' = timerActive /\ writes' = 0
    BY <1>1 DEF Raise, DistTrigger
  <2>2. \A k \in Index : lr'[k] = lr[k] \/ (lr'[k].id = id /\ ~lr'[k].hw /\ ~Linked(k))
    BY <1>1, <2>1, InjectSpi
  <2>3. \A k \in Index : Linked(k) => lr'[k] = lr[k]
    BY <2>2
  <2>4. \A k \in Index : Linked(k)' => lr'[k] = lr[k]
    BY <2>2 DEF Linked
  <2>5. \A k \in Index : Linked(k)' <=> Linked(k)
    BY <2>3, <2>4 DEF Linked, Holding
  <2>6. \A k \in Index : Holding(k)' => (lr'[k].hw <=> lr'[k].id = TIMER)
    BY <1>1, <2>2, SpiNotTimer DEF HwInv, Holding
  <2>7. HwInv'
    BY <1>1, <2>1, <2>3, <2>5, <2>6 DEF HwInv
  <2>8. TimerEnds => TimerEnds'
    BY <1>1, <2>1, <2>5 DEF TimerEnds, Linked
  <2>9. QED
    BY <2>7, <2>8
<1>2. CASE ~DistForwards(dist, id)
  BY <1>2, SameRegisters DEF Raise, DistTrigger, NoInject
<1>3. CASE writes # 0
  BY <1>3 DEF HwInv, TimerEnds
<1>4. QED
  BY <1>1, <1>2, <1>3

\* The timer's interrupt comes when no entry is linked, and leaves at most one.
LEMMA TimerIrqHwInv ==
  ASSUME RInv, HwInv, TimerIrq, UNCHANGED writes
  PROVE  HwInv'
<1> SUFFICES ASSUME writes = 0 PROVE HwInv'
  BY DEF HwInv
<1>1. \A k \in Index : ~Linked(k)
  BY DEF HwInv, TimerIrq
<1>2. timerActive' /\ writes' = 0
  BY DEF TimerIrq
<1>3. \/ lr' = lr
      \/ \E i \in Index : /\ \A l \in Index \ {i} : lr'[l] = lr[l]
                          /\ lr'[i] = NewEntry(TIMER, TRUE)
  BY InjectTimer DEF TimerIrq, RedistTrigger, NoInject
<1>4. CASE lr' = lr
  BY <1>1, <1>2, <1>4 DEF HwInv, Linked, Holding
<1>5. ASSUME NEW i \in Index, \A l \in Index \ {i} : lr'[l] = lr[l],
             lr'[i] = NewEntry(TIMER, TRUE)
      PROVE  HwInv'
  <2>1. lr'[i].hw = TRUE /\ lr'[i].id = TIMER /\ lr'[i].state = "pending"
    BY <1>5 DEF NewEntry
  <2>2. \A k \in Index : Linked(k)' <=> k = i
    BY <1>1, <1>5, <2>1 DEF Linked, Holding
  <2>3. \A k \in Index : Holding(k)' => (lr'[k].hw <=> lr'[k].id = TIMER)
    BY <1>5, <2>1 DEF HwInv, Holding
  <2>4. QED
    BY <1>2, <2>1, <2>2, <2>3 DEF HwInv
<1>6. QED
  BY <1>3, <1>4, <1>5

\* The maintenance interrupt clears registers that are not in use.
LEMMA MaintenanceHolds ==
  ASSUME Maintenance, NEW k \in Index
  PROVE  lr'[k] = lr[k] \/ (~Holding(k) /\ ~Holding(k)')
  BY DEF Maintenance, Ended, Holding, NoEntry

LEMMA MaintenanceHwInv ==
  ASSUME RInv, HwInv, Maintenance, UNCHANGED writes
  PROVE  HwInv' /\ (TimerEnds => TimerEnds')
<1>1. \A k \in Index : lr'[k] = lr[k] \/ (~Holding(k) /\ ~Holding(k)')
  BY MaintenanceHolds
<1>2. timerActive' = timerActive /\ writes' = writes
  BY DEF Maintenance
<1>3. \A k \in Index : /\ Holding(k)' <=> Holding(k)
                       /\ Holding(k) => lr'[k] = lr[k]
  BY <1>1 DEF Holding
<1>4. QED
  BY <1>2, <1>3 DEF HwInv, TimerEnds, Linked

\* An acknowledgement keeps the register in use.
LEMMA AckHwInv ==
  ASSUME RInv, HwInv, NEW i \in Index, GuestAck(i), UNCHANGED writes
  PROVE  HwInv' /\ (TimerEnds => TimerEnds')
<1>1. /\ \A k \in Index \ {i} : lr'[k] = lr[k]
      /\ lr'[i].id = lr[i].id /\ lr'[i].hw = lr[i].hw /\ lr'[i].state = "active"
      /\ lr[i].state = "pending"
  BY DEF GuestAck, RInv, TypeOK, Entry
<1>2. timerActive' = timerActive /\ writes' = writes
  BY DEF GuestAck
<1>3. \A k \in Index : /\ Holding(k)' <=> Holding(k)
                       /\ lr'[k].id = lr[k].id /\ lr'[k].hw = lr[k].hw
                       /\ lr'[k].state = lr[k].state \/ lr'[k].state = "active"
  BY <1>1 DEF Holding
<1>4. QED
  BY <1>2, <1>3 DEF HwInv, TimerEnds, Linked

\* The end of an interrupt releases its register or makes it pending again; that of the
\* linked entry ends the physical interrupt with it.
LEMMA EoiHwInv ==
  ASSUME RInv, HwInv, NEW i \in Index, GuestEoi(i), UNCHANGED writes
  PROVE  HwInv' /\ (TimerEnds => TimerEnds')
<1> SUFFICES ASSUME writes = 0
             PROVE  HwInv' /\ (TimerEnds => TimerEnds')
  BY DEF HwInv, TimerEnds
<1>1. /\ \A k \in Index \ {i} : lr'[k] = lr[k]
      /\ lr'[i].id = lr[i].id /\ lr'[i].hw = lr[i].hw
      /\ lr'[i].state = IF lr[i].state = "both" THEN "pending" ELSE "inactive"
  BY DEF GuestEoi, RInv, TypeOK, Entry
<1>2. Holding(i) /\ writes' = 0 /\ (timerActive' <=> timerActive /\ ~lr[i].hw)
  BY DEF GuestEoi, InService, Holding
<1>3. CASE lr[i].hw
  <2>1. Linked(i) /\ lr[i].state # "both"
    BY <1>2, <1>3 DEF HwInv, Linked
  <2>2. ~Holding(i)'
    BY <1>1, <2>1 DEF Holding
  <2>3. \A k \in Index : ~Linked(k)'
    BY <1>1, <2>1, <2>2 DEF HwInv, Linked, Holding
  <2>4. HwInv'
    BY <1>1, <2>2, <2>3 DEF HwInv, Holding
  <2>5. TimerEnds'
    BY <1>2, <1>3 DEF TimerEnds
  <2>6. QED
    BY <2>4, <2>5
<1>4. CASE ~lr[i].hw
  <2>1. timerActive' <=> timerActive
    BY <1>2, <1>4
  <2>2. \A k \in Index : Linked(k)' <=> Linked(k)
    BY <1>1, <1>4 DEF Linked, Holding
  <2>3. \A k \in Index : Linked(k) => k # i
    BY <1>4 DEF Linked
  <2>4. HwInv'
    BY <1>1, <1>2, <1>4, <2>1, <2>2, <2>3 DEF HwInv, Holding
  <2>5. TimerEnds => TimerEnds'
    BY <1>2, <2>1, <2>2 DEF TimerEnds, Linked
  <2>6. QED
    BY <2>4, <2>5
<1>5. QED
  BY <1>3, <1>4

\* The linked entries, in every step; a configuration write ends what is claimed.
LEMMA NextHwInv == RInv /\ HwInv /\ [Next]_vars => HwInv'
<1> SUFFICES ASSUME RInv, HwInv, [Next]_vars PROVE HwInv'
  OBVIOUS
<1>1. CASE UNCHANGED vars
  BY <1>1, SameRegisters DEF vars
<1>2. CASE Rewrites
  <2>1. writes' # 0
    BY <1>2 DEF Rewrites, RInv, TypeOK
  <2>2. QED
    BY <2>1 DEF HwInv
<1>3. CASE Steady
  <2> UNCHANGED writes
    BY <1>3 DEF Steady
  <2>1. ASSUME NEW id \in Spi, Raise(id) PROVE HwInv'
    BY <2>1, RaiseHwInv
  <2>2. CASE TimerIrq \/ Maintenance
    BY <2>2, TimerIrqHwInv, MaintenanceHwInv
  <2>3. ASSUME NEW i \in Index, GuestAck(i) \/ GuestEoi(i) PROVE HwInv'
    BY <2>3, AckHwInv, EoiHwInv
  <2>4. CASE GuestServeTimer \/ Expire
    BY <2>4, SameRegisters DEF GuestServeTimer, Expire
  <2>5. QED
    BY <1>3, <2>1, <2>2, <2>3, <2>4 DEF Steady, Hypervisor, GuestHandler
<1>4. QED
  BY <1>1, <1>2, <1>3 DEF Next

\* Any number of list registers and devices: until the guest rewrites its
\* configuration, the only entry linked to the physical timer interrupt is in use
\* while that interrupt is active.
THEOREM HwEntryIsBacked == Spec => []HwEntryBacked
<1>1. HwInv => HwEntryBacked
  <2> SUFFICES ASSUME HwInv, writes = 0
               PROVE  LET linked == {i \in Index : Holding(i) /\ lr[i].hw} IN
                      (linked # {} => timerActive) /\ Cardinality(linked) <= 1
    BY DEF HwEntryBacked
  <2> DEFINE linked == {i \in Index : Holding(i) /\ lr[i].hw}
  <2>1. linked # {} => timerActive
    BY DEF HwInv, Linked
  <2>2. linked = {} \/ \E i \in Index : linked = {i}
    BY DEF HwInv, Linked
  <2> HIDE DEF linked
  <2>3. Cardinality(linked) = 0 \/ Cardinality(linked) = 1
    BY <2>2, FS_EmptySet, FS_Singleton
  <2>4. QED
    BY <2>1, <2>3 DEF linked
<1>2. QED
  BY <1>1, InitHwInv, NextHwInv, Invariance, PTL DEF Spec

-----------------------------------------------------------------------------
(* The physical timer interrupt ends *)

\* The steps of a guest that leaves its configuration alone keep the redistributor
\* forwarding.
LEMMA NextForwardInv ==
  ASSUME RInv, ForwardInv, [Next]_vars PROVE ForwardInv'
<1> SUFFICES ASSUME writes' = 0 PROVE ForwardInv'
  BY DEF ForwardInv
<1>1. writes = 0
  BY DEF Next, Steady, Rewrites, vars, RInv, TypeOK
<1>2. /\ redist'.awake = redist.awake
      /\ redist'.enable = redist.enable /\ redist'.secure = redist.secure
  <2>1. CASE UNCHANGED redist
    BY <2>1
  <2>2. CASE TimerIrq
    BY <2>2 DEF TimerIrq, RedistTrigger, RInv, TypeOK
  <2>3. CASE Maintenance
    BY <2>3 DEF Maintenance, RInv, TypeOK
  <2>4. ASSUME NEW id \in Spi, Raise(id) PROVE UNCHANGED redist
    BY <2>4 DEF Raise
  <2>5. ASSUME NEW i \in Index, GuestAck(i) \/ GuestServeTimer \/ GuestEoi(i)
        PROVE  UNCHANGED redist
    BY <2>5 DEF GuestAck, GuestServeTimer, GuestEoi
  <2>6. CASE Expire
    BY <2>6 DEF Expire
  <2>7. ~Rewrites
    BY <1>1 DEF Rewrites
  <2>8. QED
    BY <2>1, <2>2, <2>3, <2>4, <2>5, <2>6, <2>7
       DEF Next, Steady, Hypervisor, GuestHandler, vars
<1>3. QED
  BY <1>1, <1>2 DEF ForwardInv

\* A register that is free when the timer's interrupt comes takes its entry.
LEMMA TimerIrqEnds ==
  ASSUME RInv, HwInv, ForwardInv, TimerIrq, UNCHANGED writes, ~Full
  PROVE  TimerEnds'
<1> SUFFICES ASSUME writes = 0 PROVE TimerEnds'
  BY DEF TimerEnds
<1>1. Usable(lr, TIMER) # {}
  BY DEF Full, Usable, Holding
<1>2. Inject(TIMER, TRUE)
  BY DEF TimerIrq, RedistTrigger, RedistForwards, ForwardInv
<1>3. ~timerActive
  BY DEF TimerIrq
<1>4. PICK i \in Index : lr'[i] = NewEntry(TIMER, TRUE)
  BY <1>1, <1>2, <1>3, InjectTimer
<1>5. lr'[i].hw = TRUE /\ lr'[i].state = "pending"
  BY <1>4 DEF NewEntry
<1>6. QED
  BY <1>5 DEF TimerEnds, Holding

LEMMA NextEnds ==
  ASSUME RInv, HwInv, ForwardInv, [Next]_vars, TimerEnds, ~TimerEnds'
  PROVE  TimerIrq /\ Full
<1>1. CASE UNCHANGED vars
  BY <1>1, SameRegisters DEF vars
<1>2. CASE Rewrites
  <2>1. writes' # 0
    BY <1>2 DEF Rewrites, RInv, TypeOK
  <2>2. QED
    BY <2>1 DEF TimerEnds
<1>3. CASE Steady
  <2> UNCHANGED writes
    BY <1>3 DEF Steady
  <2>1. ASSUME NEW id \in Spi, Raise(id) PROVE FALSE
    BY <2>1, RaiseHwInv
  <2>2. CASE TimerIrq
    BY <2>2, TimerIrqEnds
  <2>3. ASSUME Maintenance PROVE FALSE
    BY <2>3, MaintenanceHwInv
  <2>4. ASSUME NEW i \in Index, GuestAck(i) \/ GuestEoi(i) PROVE FALSE
    BY <2>4, AckHwInv, EoiHwInv
  <2>5. ASSUME GuestServeTimer \/ Expire PROVE FALSE
    BY <2>5, SameRegisters DEF GuestServeTimer, Expire
  <2>6. QED
    BY <1>3, <2>1, <2>2, <2>3, <2>4, <2>5 DEF Steady, Hypervisor, GuestHandler
<1>4. QED
  BY <1>1, <1>2, <1>3 DEF Next

\* For any number of devices and list registers: the active physical timer interrupt
\* keeps the list register through which it ends, and is left without one by a single
\* step only, the injection of irq_handler when all list registers are in use.
THEOREM TimerLostOnlyFull == Spec => [][TimerEnds /\ ~TimerEnds' => TimerIrq /\ Full]_vars
<1>1. RInv /\ HwInv /\ ForwardInv /\ [Next]_vars => [TimerEnds /\ ~TimerEnds' => TimerIrq /\ Full]_vars
  BY NextEnds
<1>2. RInv /\ ForwardInv /\ [Next]_vars => ForwardInv'
  BY NextForwardInv
<1>3. QED
  BY <1>1, <1>2, InitHwInv, NextHwInv, Invariance, PTL DEF Spec
=============================================================================
