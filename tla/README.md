# min1visor in TLA+

min1visor is a small type-1 hypervisor for AArch64 that boots one Linux guest,
either on a Raspberry Pi 4 (feature `rpi4`, GICv2, guest image loaded by U-Boot)
or on QEMU's `virt` machine (feature `qemu-virt`, GICv3, guest image and disk
image read from a FAT32 volume on a virtio disk). This directory holds TLA+
models of the parts that carry its logic, the TLC configurations that check them
on small instances, and TLAPS proofs of the properties that matter most.

Paths below are relative to the repository's `src/` directory of Rust code.

## Inventory

| part | code | state | operations | what makes it correct |
|---|---|---|---|---|
| interrupt-masking spin lock | `mutex.rs`, used through `serial.rs`, `log.rs` | an `AtomicBool` per mutex; DAIF saved in each guard | `lock`, `drop` | exclusion; IRQs masked while held; the mask comes back; a handler never waits for what the context below it holds; no circular wait |
| emulated PL011 | `mmio/pl011.rs` | flag, mask, raw status, four-byte `read_buffer` | `push` (hypervisor); reads and writes of the registers (guest) | a FIFO queue; flags that agree with it |
| virtual GICv2 (rpi4) | `mmio/gicv2.rs`, `exception.rs`, `vm.rs` (`input_uart`), `drivers/pl011.rs`, `drivers/gicv2.rs` | `PENDING`, `HCR_EL2.VI`, the distributor's enable bit of the timer PPI | `inject_interrupt`, `acknowledge_interrupt`, IRQ handler, GICC accesses | no interrupt lost, none delivered twice, characters in order |
| virtual GICv3 (qemu-virt) | `vgicv3.rs`, `mmio/gicv3.rs`, `drivers/generic_timer_gicv3.rs` | list registers, emulated distributor and redistributor | `trigger_interrupt`, `add_virtual_interrupt`, maintenance, register writes | raised interrupts kept; the physical timer interrupt always ends |
| allocator | `allocator/linked_list.rs`, global allocator in `main.rs` | a free list threaded through free memory | `init`, `alloc`, `dealloc_aligned`, page helpers | blocks never overlap; nodes fit; only alignment gaps are lost |
| emulated virtio block device | `mmio/virtio_blk.rs` | ring addresses, `last_avail_id`, `used_id`, interrupt status | register writes, `operation` | every request returned once, honestly and announced |
| virtio block driver | `drivers/virtio_blk.rs` | descriptor bitmap, rings, status byte on the stack | `operation_sync` (`read`, `write`) | the device never works on memory that is no longer the call's |
| FAT32 access | `fat32.rs` | the cluster chain in memory | `read`, `write` (and `new`, `search_file`) | exactly the requested bytes, nothing behind the buffer |
| boot | `main.rs` | placement of heap, stack and images; which interrupts are enabled | `main` of each build | handlers find what they need; the right serial port, at the CPU's address; a fit machine boots |
| VM registry and creation | `vm.rs` | `VmManager`, guest RAM, MMIO handlers | `create_vm` of each build, `push_vm`, MMIO dispatch | the guest's files intact, its RAM apart from the hypervisor's |
| stage-2 paging | `paging.rs` | page tables | `init_stage2_translation_table`, `map_address_stage2` | the hardware translates what was asked for and nothing else changes |
| device tree | `dtb.rs` | none but the pointer and the cells of a search | `search_node`, `search_node_by_compatible`, `get_property`, `read_reg_property` | the right node, read with the right cells |
| ELF, mailbox, logging, register accessors | `elf.rs`, `mailbox.rs`, `log.rs`, `arch/aarch64.rs` | none of their own | parsing, formatting, one-shot I/O | see "Not modelled" |

How the parts interact. The guest traps into `synchronous_handler` when it
touches an emulated register; `VM::handle_mmio_*` finds the device, and the
access runs to its end with IRQs masked. A physical interrupt enters
`irq_handler`, also masked, which passes the timer on to the virtual interrupt
controller, drains the physical UART into the emulated one, and, on qemu-virt,
retires list registers. The emulated devices raise interrupts through the
virtual GIC. The block device serves a notification by reading or writing a file
through `Fat32`, which calls the virtio driver, which spins on the host's device.
The spin locks guard the data the main path and the handlers share. `main` puts
it all in place: it reads the device tree, hands memory to the allocator, enables
interrupts one after the other, and lets `create_vm` build the stage-2 tables,
load the guest and register the VM that the interrupt handlers ask for.

What is hard here: steps of the devices between two accesses of a handler (a
character that comes after the FIFO was seen empty); interrupts raised again
while the guest is handling them; bookkeeping spread over two registers or two
rings; buffers, list registers and 16-bit indices at their limit; offsets and
lengths at sector and cluster boundaries; mappings that cut through blocks, and
tables that run out half way; searches that go on behind a node; interrupts that
come while the machine is being set up. `PROJECT.json` lists the hazards by
line, with the properties that cover them.

## Modules

**Mutex** (`mutex.rs`). Variables: the flag of every mutex, the I bit and the
stack of contexts of every CPU, and for every context its place in `lock()` or
`drop()`, the saved DAIF and its guards. `Call`, `SpinEnd`, `Disable`, `CasOk`,
`CasFail`, `Restore` and `Drop` are the instructions of the code at which another
CPU or an IRQ can come in between; `TakeIrq` and `Eret` push and pop a handler,
which may lock as well. A context may ask for any mutex, in any order, also for
one that it holds: `main` does, for `PL011_DEVICE` (`main.rs:257`, `:522`), and
then spins for ever. So the claims are two: a handler never waits for a mutex
that a context below it holds (`HandlerNeverBlocked`), and CPUs whose running
contexts all nest by `Rank`, as `print` does (`SERIAL_DEVICE`, then
`PL011_DEVICE`), never all wait for each other (`NotAllSpinning`, which has the
order as its premise). The lock gives no fairness between CPUs, so no liveness is
claimed of it.

**Pl011Mmio** has the emulated UART's operations as operators on a record;
**RxQueue** is the abstract receive queue that VgicV2Guest is shown to implement,
up to the read of a full buffer.

**VgicV2** (`mmio/gicv2.rs`, `exception.rs`, `vm.rs`) models the rpi4 interrupt
path with an arbitrary guest. `TimerIrq`, `UartIrq`, `InputChar`, `InputEmpty`,
`InputDone` are `irq_handler` and `input_uart`, split where the physical UART can
act in between; `GuestReadIar`, `GuestWriteEoir`, `GuestReadDr`, `GuestWriteImsc`,
`GuestWriteIcr` are the trapped accesses; `Expire`, `Arrive`, `ReceiveTimeout`
the devices. **VgicV2Guest** composes it with a guest that follows the protocols
of its drivers and keeps what was typed and what was read; its other initial
state is the wild guest, which has every behaviour of VgicV2. `overrun` records
that the full buffer was written or read: from then on the protocol guest reads
the last character as long as it likes, and then leaves its handler.

**VgicV3** (`vgicv3.rs`, `mmio/gicv3.rs`) has the list registers as records of
interrupt, state, HW and EOI bit; `Inject` is `create_list_register_entry` and
`add_virtual_interrupt`, `Maintenance` the handler for ended entries, and
`GuestAck`, `GuestEoi` what the hardware does with a list register. The guest
starts as Linux has configured it and may write any of the emulated registers
later (`Rewrites`, counted by `writes`): what concerns the timer is claimed of a
guest that has not, the rest of every guest. All routes lead to the one CPU, so
the lists for entries to be injected on another CPU stay empty.

**Allocator** (`allocator/linked_list.rs`) is the free list as a sequence of
regions, with one action per call (every call holds the `ALLOCATOR` mutex):
`AllocFrom`, `AllocNull`, `Dealloc`. `lost` keeps the alignment gaps, which the
code forgets. **Heap** is what callers rely on.

**VirtioBlkMmio** (`mmio/virtio_blk.rs`). A notification is one step, because the
only vCPU waits while `operation` runs: `Operation` says how many requests are
taken and completed, where they land in the used ring, which segments were moved
to which offset, what the status byte says and whether an interrupt is raised.
The registers of the setup may be written at any time, in any order and again; the
reset and the guest driver's side (external) are actions too. `setup` says which
registers were written, and `blind` that the last frame number was written while
the device had another page size than the driver's. `checks` is the build: with
overflow checks (dev profile) or without.

**VirtioBlkDriver** (`drivers/virtio_blk.rs`). `Prepare`, `PutRing`, `PutIdx`,
`Notify` and `Return` are `operation_sync`; the host's device (external) takes a
chain as soon as the index shows it, writes the status byte and later the used
ring, which the driver never reads.

**Fat32** (`fat32.rs`). A call of `read` or `write`: the outer loop over
transfers, the inner loop that collects consecutive sectors, the transfer with its
copy and its errors. A length of 0 is a request like others: `.max(1)` makes one
sector of it. Bytes are named by their disk address, so `moved` says which
disk byte is at which place of the buffer.

**Storage** composes the two. The loops of Fat32 run until they need sectors;
`Issue`, `Submit` and `Finish` are then the driver's call, and `DiskMoves` is the
disk, which moves the data at its own time and says so in the status byte, or
fails. Calls follow each other and inherit rings and descriptors.

**Paging** (`paging.rs`). The recursion of `_map_address_stage2` is a stack of
frames (table, level, descriptor), and each step handles one descriptor: a page, a
block, a table that is there, a new one, or no memory for it. `Translate` is the
hardware's walk over the same tables.

**Dtb** (`dtb.rs`). The structure block is a sequence of words and the recursive
search a stack of open nodes, each with the cells in force in it. `ScanOpen`,
`ScanClose`, `ScanProp` read a word of `_search_node` and
`_search_node_by_compatible`; `SkipWord` and `SkipEnd` are `_skip_to_next_node`.
The second half of the module says what a tree means by its definition.

**Boot** (`main.rs`, `vm.rs`, `arch/aarch64.rs`) is `main` of both builds and
`create_vm` with the registry. It searches the tree through Dtb and otherwise goes
on call by call; `code` is why it has stopped. A machine is a tree, a memory
layout, the sizes of the files, a set of faults, each of which makes one check
of the code fail, and its noise: the interrupts that something raises before there
is a VM. `Raise` and `Irq` come in between as soon as `sources` and the mask let
them; `sources` grows where the code enables an interrupt, so in the qemu-virt
build the UART's, the maintenance, the injecting and the timer's before `push_vm`.
`translate_rpi4_peripheral_address` maps the address of the serial port through
`Windows`, and `BootAddress` is where the guest is entered.

The definitions marked *Mutant* are plausible mistakes in the definition that
follows them. Nothing uses them in a specification; replacing the definition by
its mutant makes TLC find the property that `PROJECT.json` names violated.

## Runs

| run | instance | what it shows |
|---|---|---|
| `mutex` | 2 CPUs, 2 mutexes, handlers two deep, 2 guards per context; 128 000 states (CPUs are symmetric) | exclusion, masking, restoring, handlers not blocked by what they interrupt, no circular wait of CPUs that nest by rank. Two contexts above main suffice to show a nested handler, were one possible |
| `vgicv2` | the real four slots, a FIFO of 2, two characters and NUL; 4 characters and 2 expiries; 597 000 states | invariants with any guest; the receive buffer is a bounded queue except that a read of a full one leaves the last character twice; order of characters and liveness of the timer and of characters with the protocol guest. Four characters fill the buffer, and what is claimed of characters is claimed until then (`overrun`) |
| `uart_full` | the same; violation | four characters fill the emulated UART; the shift behind a read (`mmio/pl011.rs:105`) never frees slot 3, so the buffer stays full and its last character is read again and again |
| `vgicv3` | the 3 list registers the code supports, UART and timer, 3 device interrupts, 3 configuration writes; 783 000 states | an SPI that found a list register stays pending in one until acknowledged, whatever the guest writes; until it writes, the physical timer interrupt always ends, its list register is the only one that ends it, every expiry is served. Three writes disable, change and enable again |
| `vgicv3_overflow` | 3 list registers, UART, disk and timer; violation | an interrupt that is pending in a later register and raised again takes a freed earlier one too (the loop stops at the first inactive register), and so two SPIs fill the list; the timer's entry is dropped and its physical interrupt stays active for good (`vgicv3.rs:89`) |
| `allocator` | 23 units of heap, nodes of 4 aligned to 2, sizes 1, 5, 8, alignments 1, 4, 8 | separation, node fit, accounting, refinement of Heap. The heap's odd end makes remainders too small for a node occur |
| `virtio_blk` | queue of 2, indices modulo 4, both builds, drivers with the default page size and with another, five kinds of request; 52 000 states | registers written in any order, at any time and again, resets, batches, failures, wrap-around |
| `virtio_blk_wrap` | the same with well-formed requests; violation | `last_avail_id += 1` and `used_id += 1` overflow (`mmio/virtio_blk.rs:80`, `:86`); in the dev profile the hypervisor panics |
| `storage` | sectors of 2 bytes, 3 per cluster, files of 3 or 4 clusters in four layouts, all offsets to the end and lengths from 0 to 18; 4 descriptors, indices modulo 8; any number of further calls; 79 000 states | exact data, no overrun, no call that fails without a cause, no memory in the disk's hands that is not the running call's, termination |
| `fat32_split` | reads of two clusters, any layout; violation | after a gap in the chain the length still to be read is computed without what was read before (`fat32.rs:366`), and sectors land behind the buffer |
| `paging` | tables of 2 descriptors, spaces of 4, 8 and 16 pages with three or four levels and concatenated top-level tables, two calls, 7 tables or an earlier failure | the range is translated as asked for; every other page keeps its translation or, where it shared a block that is cut, faults; the tables stay a tree. Two calls let the second cut, overwrite or extend what the first has mapped |
| `boot` | two builds; 15 nodes around the serial port in pairs and some triples, 5 arrangements of disks, each fault, noise, ports inside and outside the two peripheral windows, files of all sizes around the boundaries, images with and without a size and a text offset, layouts of the loaded image; 90 000 states | the rpi4 build's handlers find a VM whatever interrupts come, the qemu-virt build's if none comes early; the serial port is the right one and at the address where the CPU sees it; files and entry point of the guest; its RAM apart from the hypervisor's; a fit machine boots |

What the passing runs leave out on purpose, because the code does not do it right:

- `storage` takes requests whose clusters are adjacent, or whose range ends with a
  cluster that a distant one follows (`CanServe`, `Adjacent`, `EndsAtGap`). Beyond
  those, `fat32_split` shows the overrun, and a read that skips sectors of its
  first cluster and needs the next, distant one reads past the first cluster's
  end: line 366 compares with a whole cluster and ignores `sector_offset`.
- `WithinSector` allows one sector for a request of length 0, which a descriptor of
  length 0 makes (`mmio/virtio_blk.rs:146-164`): `fat32.rs:368` and `:489` round the
  length that is left up to 1.
- `ErrForCause` counts an aligned write that starts with the second sector of a
  cluster among those that are refused: the skip at line 481 uses `>`, and lines
  507-513 refuse it. It also names a request for nothing that starts behind the last
  cluster (`EmptyAtEnd`), and a write of nothing, which is refused as well.
- `QueueUnlessFull` excepts the read of a full buffer (`mmio/pl011.rs:105` leaves
  slot 3 unchanged), and `CharsInOrder` and `RxServedToEmpty` are claimed until the
  full buffer is written or read. After that the buffer never empties again while the
  guest reads: `uart_full`. `CharsInOrder` leaves NULs out: one takes no slot.
- `storage` is the build without overflow checks: with them `avail_ring.idx += 1`
  (`drivers/virtio_blk.rs:238`) panics at 65536 requests as the device does.
- `RxStrandedOnlyByUnmask` names a write of IMSC that unmasks a latched interrupt
  as the one step that leaves a latched receive interrupt without a virtual one. It
  does not see characters that come while the interrupt is masked: `push` sets no raw
  status for them.
- `SetupAgrees` excepts the `blind` driver, which wrote its frame number before a page
  size other than the device's default: the rings' addresses are not computed again
  (`mmio/virtio_blk.rs:242-244`).
- `OthersKept` names the block that a second mapping cuts: the new table is empty
  and the rest of the block faults (`paging.rs:186-199`). `main` makes one call, so
  it does not meet this. `MapsRange` is about the pages the hardware can address:
  a range past the end of the top-level table is cut and still returns `Ok`. A
  size of 0 underflows `remaining_size`, and requests have at least one page.
- Return code 5 is documented as "no serial port" (`main.rs:8`), and `main` also
  returns it when a usable port stands behind an unusable one: `_skip_to_next_node`
  takes the name of a child for a token (`dtb.rs:187`), and after a node that is
  searched without success the callers step over one word too many (`dtb.rs:306`,
  `:420`), so that the search does not get over such a node in every tree. Theorem
  `SerialMissedOnlyHidden` says that this is the only other case. No property is
  claimed of 1, documented as `argc != 2` (`main.rs:4`), where the rpi4 build asks for
  5 arguments, or of a port without an interrupt number, at which `main` locks
  `PL011_DEVICE` twice and hangs (`main.rs:257`, `:522`). Such machines are not `Fit`.
- `HandlerFindsVm` excepts the qemu-virt build with noise. It enables the UART
  (`main.rs:257`) and in `create_vm` the maintenance interrupt, the injecting SGI and
  the timer (`vm.rs:233`, `:239`) before `push_vm` (`vm.rs:380`), with IRQs unmasked
  since `main.rs:206`: a handler that runs then panics in `get_active_vm().unwrap()`.
  The comment at `main.rs:233-235` states the rule that this breaks.
- `SerialRight`, about the address and codes 6 and 7, says where the address read may
  be another one (`Misread`). A port has `#address-cells` of its own, which
  `get_property` applies to the node itself. A search that went on from an unusable node has left the bus around it, and takes
  that bus's cells along (`dtb.rs:405`, `:420`). Or the port's parent gives no cells:
  the search takes those of the nodes around it, where the tree's definition has
  defaults.
- `ImagesIntact` excepts an rpi4 image whose header gives no size, which the code
  does not check. In the qemu-virt build the kernel is loaded at the start of guest
  RAM and entered at its text offset (`vm.rs:373-385`), so that the guest starts with
  the first byte of its kernel only if that is 0 (`EntryMoved`).
- `GuestRamApart` excepts an rpi4 image that is not loaded at the start of guest RAM,
  which is the `TODO` at `main.rs:420`, and says nothing of the rpi4 build's stack,
  which U-Boot has placed and the code does not check.
- Not claimed at all: that U-Boot's device tree lies outside the heap, which
  `setup_memory` prints and does not reserve. Writes to the heap are not modelled, so
  a tree below the image counts as intact.

`CHECK_DEADLOCK FALSE` stands where the system may stop: a bounded number of
device events, a call that has returned, a panic, CPUs that spin for what they
hold.

### Fairness

- `VgicV2Guest`: the CPU takes a signalled IRQ and runs the handler to its end;
  the guest runs its own handler; characters in the FIFO raise the receive
  timeout, which `enable_interrupt` unmasks. Nothing is assumed of the terminal
  or the timer.
- `VgicV3`: the same for the timer's and the maintenance interrupt and
  for the guest's handler.
- `VirtioBlkMmio`: the guest's driver notifies what it submits, takes interrupts
  and finishes its handler. The device itself needs none: it runs in the trap.
- `Storage`: a call is not suspended for ever, the disk takes available chains and
  finishes them. The driver has no timeout, so a disk that never answers blocks
  it: the assumption is the code's own.
- `Boot`: `main` goes on between interrupts. The handler that serves a character is
  one step, so interrupts can delay `main` for ever only if they never stop;
  weak fairness of `Main` says that it gets its turn.

## Proofs

TLAPS checks eight modules, for every value of the constants under the named
assumptions in the modules that declare them; TLC evaluates those assumptions in
the runs. Each proof has an inductive invariant, because the property alone says
too little about the state a step starts from.

- **MutexProofs.** From `CpuAssumption`, `LocksAssumption` (finitely many),
  `RankAssumption`, `DepthAssumption`, `NestAssumption`: type correctness,
  `Exclusive`, `MaskedWhileHeld`, `NoNestedIrq`, `MaskRestored`,
  `HandlerNeverBlocked`, `NotAllSpinning`, with locks nested in any order. That the
  mask is restored needs what every guard has saved (`SavedInv`: the oldest the
  context's own mask, the others "masked"), that in turn what the mask is at each
  point (`MaskInv`), and both need that interrupted contexts are never in a critical
  section (`SuspendedInv`), which is also why a handler is never blocked by one. If
  all CPUs spun and nested by rank, the one waiting for the mutex of the highest rank
  would wait for a CPU that waits for a higher one: `NoCircularWait` takes the
  maximum over the finite set of mutexes.
- **VgicV2Proofs.** `TypeOK`, `ViMatchesPending`, `TimerInFlight` are inductive
  together; `RxStrandedOnlyByUnmask`, an action property, follows by a case for
  each action. The guest is arbitrary, the timer's number any PPI, the FIFO of
  any depth. For the composed module, `GuestIsOne`: the guest that follows its
  protocols is a guest of VgicV2, so all of that holds of it. The slots of the
  emulated UART stay packed (`Packed`), and so `push` and the read of the data
  register are the operations of a queue: `UartIsQueue` is the refinement of
  RxQueue, as long as no full buffer is read. `NoCharacterLost` is `CharsInOrder`,
  for any number of slots and characters: until the full buffer is written or read.
  What `Text`, a recursive function, makes of a concatenation is proved without induction: a shortest sequence for which
  it failed would exist, because the order of the naturals is well founded.
- **VgicV3Proofs.** `RaisedKept` is inductive with the types, for every guest and
  any number of list registers. `HwEntryBacked` needs that a linked register always
  has the timer's number and is never pending twice (`HwInv`). `TimerEnds` is not
  an invariant of the code: `vgicv3_overflow` violates it with UART, disk and timer,
  which every qemu-virt VM has, and the passing run has the UART and the timer only.
  `TimerLostOnlyFull` is what holds for any number of devices and list registers: it
  is lost in one step only, the timer's injection when all list registers are in use.
- **AllocatorProofs.** From the assumptions that `add_free_region` asserts of the
  initial heap, that the node's size is a multiple of its alignment, and that
  alignments divide one another: `NodesSafe` (`FreeSeparate`, `LiveUntouched`,
  `NodesFit`), `LossBounded` (`Accounted`, `GapsFromAlignment`) and the refinement
  of Heap. The invariant adds
  `LiveSound` (live blocks are in the heap, aligned and apart); lemmas on
  `align_up`, on unlinking and linking, and on cutting a block out of a region
  (`Cut`) carry the arithmetic.
- **StorageProofs.** `TakesOwn` of the composed module, for every file, call,
  failure and queue. `DInv` says for each step of `operation_sync` where the call's
  chain is: not yet in the ring, in the ring behind the index, available, with the
  device, or done; and that nothing of an earlier call is with the device. The
  induction goes through because `Return` waits for the status byte. `DataExact`,
  `WithinSector` and `ErrForCause` follow from `FileInv`, for every sector size,
  cluster size and chain: the collected sectors are consecutive on the disk and in
  the file, starting with the one that holds the first byte still to be moved
  (`LoopInv`), and what has been moved is the front part of what was asked for
  (`CallInv`); requests of length 0 are included. These three have the hypothesis
  `Served`: every request is one that the loops can serve (`CanServe`). `fat32_split` shows what happens without it.
- **VirtioBlkMmioProofs.** `SetupAgrees` from what each register write has set
  (`SetupInv`), whatever the order of the writes; `UsedOnce`, `StatusHonest`,
  `InPlace`, `Announced` from `RingInv` (each request in flight is in one place of one ring at most) and `MovedInv`. A
  notification handles any number of requests in one step, so the lemmas are about
  whole batches; distances between 16-bit indices are taken modulo `IdxMod`, which
  `QueueSize` divides. `ChainAssumption` asks for at least one chain.
- **PagingProofs.** `MapsRange`, `OthersKept`, `TablesTree`, for tables of every
  size, both first levels, any number of calls and an end of memory at any time.
  `TreeInv` and `LevelInv`: every table but the first hangs under one descriptor
  and has one level. `StackInv`: the frames are a path, at the indices of the
  current page. So the walks that meet the descriptor at the top of the stack are
  those for the pages it stands for (`Hit`), and `LeafEffect` and `TableEffect` say
  what a write does to every translation. `NumInv` relates `pa`, `ipa` and
  `remaining` and says that after its first descriptor the call stands at a
  boundary; `DoneInv` is that the pages behind it are mapped. The walk is a
  recursive function over at most four levels, which `Walk` unrolls.
  `SpanAssumption` states arithmetic on powers of 2, for which the provers have no
  theory; `RequestAssumption` that a mapping starts at an address the CPU can
  translate.
- **BootProofs.** `GuestRamApart` and `ImagesIntact`, for every layout, file size
  and order of events, from what each check of `main` and `create_vm` has
  established when it is passed (`LInv`, `FInv`; a file is loaded in whole sectors,
  behind which the next one begins), and where the guest is entered. `HandlerFindsVm`
  holds for every machine and noise: an interrupt that needs a VM is enabled in the
  rpi4 build only when one is registered (`HInv`). `LayoutAssumption` has the
  constants of `vm.rs`; `MachineAssumption` that files are not empty and the size in
  an image's header is not less than the file's.
  `SerialIsRight` and `SerialMissedOnlyHidden` are about the search in the tree. `SearchOk`
  relates the stack of the search to the tree. The frames are the open nodes,
  each with the cells in force in it (`FramesOk`); nodes that were opened before the
  search resumed have no frame, and what it brought along is in force in them
  (`BaseOk`); no usable node has been passed (`Passed`); and a search that has met no
  unusable node sees the whole tree (`WholeOk`), so that finding nothing means that
  there is none, or that an unusable node stands first. `TreeAssumption` says that the
  trees are well formed: nodes are closed in the order of opening, properties come
  before children. The search ends with the first usable node that it meets, so the
  argument needs no induction over the tree. The exceptions in `SerialRight` for a
  bus that was left and for a parent without cells came from this proof: without them
  the step over an unusable node does not preserve the invariant.

Only model-checked: liveness under fairness (`TimerServed`, `FifoDrained`,
`RxServedToEmpty`, `Returned`, `Returns`, `Boots`), which is beyond the prover, and
`TimerEnds`, which needs that no more than one device is beside the timer. Every
other safety property of a passing run is a theorem, some under a hypothesis named
above.

## Abstractions

Memory is sequentially consistent: the missing barrier between ring slot and
index in the virtio driver is not visible. One vCPU on one CPU, as the code
creates; only Mutex has several CPUs. Requests, segments and files are small
records; widths matter in the ring indices only, where `IdxMod` stands for 2^16,
and in the cells of the device tree, where `CellBase` stands for 2^32. Addresses
in the allocator are far below 2^64. Descriptor chains are finite. A property of
the device tree is a set of strings or a sequence of cells; an interrupt specifier
is its kind.

## Not modelled

- `Fat32::new` and `search_file`: parsers of on-disk structures. Boot has their
  outcome as faults (`mbr`, `fat32`, `disk file`, `files`).
- `elf.rs` beyond the end of the loaded segments and a bad header; `mailbox.rs`,
  which nothing calls; the accessors of `arch/aarch64.rs`, which are the variables
  of the modules that use them; logging and its format.
- The SGI that injects an interrupt on another CPU in `mmio/gicv3.rs`: there is one
  VM on one CPU and the path is not reached.
- Ordering of memory accesses (barriers, caches, the TLB).
- A cyclic descriptor chain, on which `operation` would not end, and interrupts
  left pending while the guest has its distributor disabled.

## Plan

1. Done: all modules above, and a proof of every safety property of the passing runs
   but `TimerEnds`.
2. Later: mounting and lookup in Fat32; the emulated block device composed with
   Storage; the cross-CPU injection of VgicV3.

Where each definition comes from is in `PROJECT.json` under `map`.
