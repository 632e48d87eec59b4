---------------------------- MODULE VirtioBlkMmio ----------------------------
(***************************************************************************)
(* The block device that the hypervisor emulates for the guest             *)
(* (src/mmio/virtio_blk.rs) with the guest's driver, which follows the     *)
(* legacy virtio protocol.                                                 *)
(*                                                                         *)
(* A write to QUEUE_NOTIFY traps, and operation() handles every available  *)
(* request before the only vCPU runs on: each register write is one step.  *)
(* A request is named by the index of its first descriptor.  Of a chain    *)
(* only what operation() decides by is kept: whether its header is valid,  *)
(* what becomes of each data segment, and whether the status byte can be   *)
(* written.  All segments have the same length, the unit of offsets.       *)
(***************************************************************************)
EXTENDS Integers, Sequences, FiniteSets

CONSTANTS
  QueueSize,  \* the size that the guest chooses for its queue
  IdxMod,     \* indices of the rings are u16: 2^16
  Chains      \* the descriptor chains that the guest submits

ASSUME QueueAssumption ==
  /\ QueueSize \in Nat \ {0} /\ IdxMod \in Nat
  /\ QueueSize < IdxMod /\ IdxMod % QueueSize = 0

Slot == 0 .. QueueSize - 1   \* of the rings and of the descriptor table
Idx  == 0 .. IdxMod - 1

Chain == [header : {"valid", "invalid"},
          segs   : Seq({"ok", "fail", "unmapped"}),
          status : {"mapped", "unmapped"}]

ASSUME ChainAssumption == Chains \subseteq Chain /\ Chains # {}

VARIABLES
  dev,       \* VirtioBlkMmio
  avail,     \* the available ring: idx, ring
  used,      \* the used ring: idx, ring
  chain,     \* the chain that starts at each descriptor
  result,    \* the status byte of each chain
  moved,     \* the segments of each chain that were transferred: <<segment, offset>>
  irq,       \* VIRTIO_BLK_INT_ID is pending in the guest's interrupt controller
  checks,    \* the build panics on overflow (dev profile); chosen once
  panicked,  \* the hypervisor has panicked
  inflight,  \* guest driver: requests submitted and not reaped
  lastUsed,  \* guest driver: the used index up to which it has reaped
  gpage,     \* guest driver: the page size it lays its rings out with
  setup,     \* guest driver: the registers written since the reset
  handler    \* guest driver: "idle" or, in its interrupt handler, "reap"

rings  == <<avail, used, chain, result, moved>>
driver == <<inflight, lastUsed, gpage, setup, handler>>
vars   == <<dev, rings, irq, checks, panicked, driver>>

PageSize == {4096, 16384}

\* The address of the descriptors: the page size that the driver's frame number was
\* multiplied by, or 0, the null pointer.
Base == PageSize \cup {0}

\* Where the device looks for the rings: what their addresses were computed from.
Layout == [base : Base, size : {0, QueueSize}, page : PageSize]

Dev == [page : PageSize, size : {0, QueueSize}, base : Base, at : Layout,
        lastAvail : Idx, usedId : Idx, isr : BOOLEAN, status : {"reset", "ok"}]

TypeOK ==
  /\ dev \in Dev
  /\ avail \in [idx : Idx, ring : [Slot -> Slot]]
  /\ used \in [idx : Idx, ring : [Slot -> Slot]]
  /\ chain \in [Slot -> Chains]
  /\ result \in [Slot -> {"none", "OK", "IOERR"}]
  /\ moved \in [Slot -> SUBSET (Nat \X Nat)]
  /\ irq \in BOOLEAN
  /\ checks \in BOOLEAN
  /\ panicked \in BOOLEAN
  /\ inflight \subseteq Slot
  /\ lastUsed \in Idx
  /\ gpage \in PageSize
  /\ setup \subseteq {"num", "pfn", "blind", "ok"}
  /\ handler \in {"idle", "reap"}

\* VirtioBlkMmio::new and a write of 0 to STATUS.
NewDev ==
  [page |-> 4096, size |-> 0, base |-> 0, at |-> [base |-> 0, size |-> 0, page |-> 4096],
   lastAvail |-> 0, usedId |-> 0, isr |-> FALSE, status |-> "reset"]

EmptyRing == [idx |-> 0, ring |-> [s \in Slot |-> 0]]

Init ==
  /\ dev = NewDev
  /\ avail = EmptyRing
  /\ used = EmptyRing
  /\ chain \in [Slot -> {CHOOSE c \in Chains : TRUE}]
  /\ result = [h \in Slot |-> "none"]
  /\ moved = [h \in Slot |-> {}]
  /\ irq = FALSE
  /\ checks \in BOOLEAN
  /\ panicked = FALSE
  /\ inflight = {}
  /\ lastUsed = 0
  /\ gpage \in PageSize
  /\ setup = {}
  /\ handler = "idle"

-----------------------------------------------------------------------------
(* operation() *)

\* How often get_next_avail_id returns Some.
Count == (avail.idx - dev.lastAvail) % IdxMod

\* Mutant: the ring is read one slot too far.
RequestNext(k) == avail.ring[((dev.lastAvail + k) % IdxMod) % dev.size]

\* The request that the k-th iteration handles.
Request(k) == avail.ring[((dev.lastAvail + k - 1) % IdxMod) % dev.size]

\* The iteration at which operation() returns early, or the one after the last.
Stop ==
  LET invalid == {k \in 1 .. Count : chain[Request(k)].header = "invalid"} IN
  IF invalid = {} THEN Count + 1 ELSE CHOOSE k \in invalid : \A l \in invalid : k <= l

\* Mutant: the interrupt is raised for a full queue only.
SignalsFull == Stop > Count /\ Count = QueueSize

\* operation() comes to its end, where it sets the interrupt status and raises the
\* interrupt: also when there was nothing to do, not after an early return.
Signals == Stop > Count

Taken     == IF Stop <= Count THEN Stop ELSE Count
Completed == Stop - 1

\* Mutant: a segment that failed does not advance the offset.
SegOffsetOk(c, k) == Cardinality({j \in 1 .. k - 1 : c.segs[j] = "ok"})

\* An unmapped segment is skipped without advancing the offset.
SegOffset(c, k) == Cardinality({j \in 1 .. k - 1 : c.segs[j] # "unmapped"})

Transfers(c) == {<<k, SegOffset(c, k)>> : k \in {j \in 1 .. Len(c.segs) : c.segs[j] = "ok"}}

\* Mutant: each segment overwrites the outcome of the one before.
StatusOfLast(c, old) ==
  IF c.status = "unmapped" THEN old
  ELSE IF c.segs[Len(c.segs)] = "ok" THEN "OK" ELSE "IOERR"

\* The byte written to the last descriptor, if that is mapped.
StatusOf(c, old) ==
  IF c.status = "unmapped" THEN old
  ELSE IF \A k \in 1 .. Len(c.segs) : c.segs[k] = "ok" THEN "OK" ELSE "IOERR"

\* Mutant: the used index moves only at the end of the batch.
UsedSlotOfBatch(k) == dev.usedId % dev.size

\* write_used: the slot of the k-th completion.
UsedSlot(k) == ((dev.usedId + k - 1) % IdxMod) % dev.size

Overflows == checks /\ (dev.lastAvail + Taken >= IdxMod \/ dev.usedId + Completed >= IdxMod)

Operation ==
  LET done == {Request(k) : k \in 1 .. Completed} IN
  /\ dev' = [dev EXCEPT !.lastAvail = (@ + Taken) % IdxMod,
                        !.usedId = (@ + Completed) % IdxMod,
                        !.isr = @ \/ Signals]
  /\ used' = [idx  |-> IF Completed > 0 THEN dev'.usedId ELSE used.idx,
              ring |-> [s \in Slot |->
                          IF \E k \in 1 .. Completed : UsedSlot(k) = s
                            THEN Request(CHOOSE k \in 1 .. Completed : UsedSlot(k) = s)
                            ELSE used.ring[s]]]
  /\ result' = [h \in Slot |-> IF h \in done THEN StatusOf(chain[h], result[h]) ELSE result[h]]
  /\ moved' = [h \in Slot |-> IF h \in done THEN Transfers(chain[h]) ELSE moved[h]]
  /\ irq' = (irq \/ Signals)
  /\ UNCHANGED <<avail, chain, checks, panicked, driver>>

-----------------------------------------------------------------------------
(* The guest's register writes *)

\* The driver is at work.  What a device does that looks for the rings elsewhere, in
\* the driver's other data, is not modelled.
Running == {"num", "pfn", "ok"} \subseteq setup /\ "blind" \notin setup /\ ~panicked

\* The driver writes GUEST_PAGE_SIZE, QUEUE_NUM and QUEUE_PFN when and as often as it
\* likes; the device checks nothing.
SetupFrame == UNCHANGED <<rings, irq, checks, panicked, inflight, lastUsed, gpage, handler>>

\* The page size is only stored: the addresses of the rings stay as they are.
GuestWritePageSize ==
  /\ ~panicked
  /\ dev' = [dev EXCEPT !.page = gpage]
  /\ UNCHANGED setup
  /\ SetupFrame

\* Mutant: the size is stored, the addresses are left to QUEUE_PFN.
QueueNumStored ==
  /\ ~panicked
  /\ dev' = [dev EXCEPT !.size = QueueSize]
  /\ setup' = setup \cup {"num"}
  /\ SetupFrame

\* QUEUE_NUM computes the addresses of the rings from the descriptors' address.
GuestWriteQueueNum ==
  /\ ~panicked
  /\ dev' = [dev EXCEPT !.size = QueueSize,
                        !.at = [base |-> dev.base, size |-> QueueSize, page |-> dev.page]]
  /\ setup' = setup \cup {"num"}
  /\ SetupFrame

\* QUEUE_PFN computes all addresses from the frame number and the page size that the
\* device knows.  "blind" records that it is not the driver's; only then is the product
\* an address that may have no translation, with which the device changes nothing.
GuestWritePfn ==
  /\ ~panicked
  /\ \/ dev' = [dev EXCEPT !.base = dev.page,
                           !.at = [base |-> dev.page, size |-> dev.size, page |-> dev.page]]
     \/ dev.page # gpage /\ UNCHANGED dev
  /\ setup' = (setup \ {"blind"}) \cup {"pfn"}
                 \cup (IF dev.page = gpage THEN {} ELSE {"blind"})
  /\ SetupFrame

GuestDriverOk ==
  /\ ~panicked
  /\ {"num", "pfn"} \subseteq setup
  /\ dev' = [dev EXCEPT !.status = "ok"]
  /\ setup' = setup \cup {"ok"}
  /\ SetupFrame

\* The driver resets the device, gives up its requests and clears its rings; an
\* interrupt that is pending stays so.
GuestReset ==
  /\ "ok" \in setup /\ ~panicked /\ handler = "idle"
  /\ dev' = NewDev
  /\ avail' = EmptyRing /\ used' = EmptyRing
  /\ result' = [h \in Slot |-> "none"]
  /\ moved' = [h \in Slot |-> {}]
  /\ inflight' = {} /\ lastUsed' = 0 /\ setup' = {}
  /\ UNCHANGED <<chain, irq, checks, panicked, gpage, handler>>

GuestNotify == Running /\ ~Overflows /\ Operation

\* A notification whose operation() overflows an index.
GuestNotifyPanic ==
  /\ Running /\ Overflows
  /\ panicked' = TRUE
  /\ UNCHANGED <<dev, rings, irq, checks, driver>>

\* The driver takes the interrupt: it reads INTERRUPT_STATUS and acknowledges what
\* it finds there; without it the interrupt is not the device's.
GuestTakeIrq ==
  /\ ~panicked /\ irq /\ handler = "idle"
  /\ irq' = FALSE
  /\ dev' = [dev EXCEPT !.isr = FALSE]
  /\ handler' = IF dev.isr THEN "reap" ELSE "idle"
  /\ UNCHANGED <<rings, checks, panicked, inflight, lastUsed, gpage, setup>>

-----------------------------------------------------------------------------
(* The guest's driver in its own memory *)

GuestSubmit(h, c) ==
  /\ Running
  /\ h \notin inflight
  /\ inflight' = inflight \cup {h}
  /\ chain' = [chain EXCEPT ![h] = c]
  /\ result' = [result EXCEPT ![h] = "none"]
  /\ moved' = [moved EXCEPT ![h] = {}]
  /\ avail' = [idx  |-> (avail.idx + 1) % IdxMod,
               ring |-> [avail.ring EXCEPT ![avail.idx % QueueSize] = h]]
  /\ UNCHANGED <<dev, used, irq, checks, panicked, lastUsed, gpage, setup, handler>>

GuestReap ==
  /\ ~panicked /\ handler = "reap" /\ lastUsed # used.idx
  /\ inflight' = inflight \ {used.ring[lastUsed % QueueSize]}
  /\ lastUsed' = (lastUsed + 1) % IdxMod
  /\ UNCHANGED <<dev, rings, irq, checks, panicked, gpage, setup, handler>>

GuestReapEnd ==
  /\ ~panicked /\ handler = "reap" /\ lastUsed = used.idx
  /\ handler' = "idle"
  /\ UNCHANGED <<dev, rings, irq, checks, panicked, inflight, lastUsed, gpage, setup>>

-----------------------------------------------------------------------------

GuestSetup ==
  \/ GuestWritePageSize \/ GuestWriteQueueNum \/ GuestWritePfn
  \/ GuestDriverOk \/ GuestReset

GuestHandler == GuestTakeIrq \/ GuestReap \/ GuestReapEnd

Notify == GuestNotify \/ GuestNotifyPanic

Next ==
  \/ GuestSetup \/ GuestHandler \/ Notify
  \/ \E h \in Slot, c \in Chains : GuestSubmit(h, c)

Spec == Init /\ [][Next]_vars

\* Fairness: the driver notifies the device of what it submits, and the guest takes
\* its interrupts and runs the handler to its end.
FairSpec == Spec /\ WF_vars(Notify) /\ WF_vars(GuestHandler)

-----------------------------------------------------------------------------
(* Properties *)

Unread == (used.idx - lastUsed) % IdxMod

UnreadHead(k) == used.ring[(lastUsed + k - 1) % QueueSize]

Waiting == (avail.idx - dev.lastAvail) % IdxMod

\* UsedOnce: the completions that the driver has not reaped are requests in flight,
\* each reported once, and none of them is still to be handled.
UsedOnce ==
  /\ Unread + Waiting <= Cardinality(inflight)
  /\ \A k \in 1 .. Unread : UnreadHead(k) \in inflight
  /\ \A k, l \in 1 .. Unread : k # l => UnreadHead(k) # UnreadHead(l)
  /\ \A k \in 1 .. Unread, l \in 1 .. Waiting : UnreadHead(k) # Request(l)

\* SetupAgrees: once the driver is done with its setup, the device looks for the
\* rings where the driver has put them, whatever the order of its writes, which it may
\* repeat, with one exception: the frame number was last written before the page size,
\* for a driver whose page size is not the device's default.
SetupAgrees ==
  "ok" \in setup /\ "blind" \notin setup =>
    dev.at = [base |-> gpage, size |-> QueueSize, page |-> gpage]

\* StatusHonest: a completed request reports success if and only if all of its
\* segments were transferred.
StatusHonest ==
  \A k \in 1 .. Unread :
    LET h == UnreadHead(k) IN
    chain[h].status = "mapped" =>
      (result[h] = "OK" <=> Cardinality(moved[h]) = Len(chain[h].segs))

\* InPlace: a segment is read or written at its own offset, also after one
\* failed; only a segment without a physical address moves the later ones.
InPlace ==
  \A h \in Slot : \A m \in moved[h] :
    (\A j \in 1 .. m[1] : chain[h].segs[j] # "unmapped") => m[2] = m[1] - 1

\* A malformed request, which operation() takes from the ring and never returns,
\* is with the device; only a reset takes it back.
Stuck == \E h \in inflight : chain[h].header = "invalid"

\* Announced: a completion that the driver has not reaped has an interrupt on its
\* way, or the driver is reaping.  The early return for a malformed request is
\* the one thing that can leave completions of its batch unannounced.
Announced == Unread > 0 => handler = "reap" \/ (dev.isr /\ irq) \/ Stuck

\* Returned: every request comes back to the driver through the used ring, unless
\* a malformed one is in flight or an index has overflowed in a checked build.
Returned == \A h \in Slot : h \in inflight ~> h \notin inflight \/ Stuck \/ panicked

\* Served: every well-formed request comes back to the driver, in every build.
Served == \A h \in Slot : h \in inflight ~> h \notin inflight \/ Stuck
=============================================================================
