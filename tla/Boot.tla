-------------------------------- MODULE Boot --------------------------------
(***************************************************************************)
(* From main to the first instruction of the guest: main of src/main.rs    *)
(* and create_vm and the registry of src/vm.rs, for both builds, with the  *)
(* interrupts that arrive on the way.  The device tree is read by the      *)
(* search of module Dtb, word by word; the rest goes one call per step.    *)
(*                                                                         *)
(* A machine is what the program finds: the tree, the memory layout and    *)
(* the files, and a set of faults, each of which makes one check of the    *)
(* code fail.  Addresses of memory count in a small unit; what a read of a *)
(* file writes is rounded up to sectors of the disk (module Fat32).        *)
(***************************************************************************)
EXTENDS Integers, Sequences, FiniteSets, FiniteSetsExt

CONSTANTS
  Machines,
  CellBase,     \* see Dtb
  UartSize,     \* UART_SIZE
  Windows,      \* where the CPU of the Raspberry Pi 4 sees its peripherals
  RamSize,      \* RAM_SIZE of the guest
  HostRamBase,  \* HOST_RAM_BASE of the rpi4 build
  Align,        \* ALIGN_SIZE, LINUX_IMAGE_ALIGNMENT
  Initramfs,    \* INITRAMFS_VIRTUAL_BASE, as an offset into guest RAM
  TextOffset,   \* the text offset of an image whose header gives no size
  Sector,       \* bytes per sector
  BootMemory    \* memory that tables, queues and boxes take

\* The constants of the code: boundaries and the place of the initramfs are whole
\* sectors.
ASSUME LayoutAssumption ==
  /\ RamSize \in Nat /\ HostRamBase \in Nat /\ BootMemory \in Nat /\ Initramfs \in Nat
  /\ TextOffset \in Nat /\ Windows \subseteq [from : Nat, size : Nat, to : Nat]
  /\ Align \in Nat \ {0} /\ Sector \in Nat \ {0}
  /\ Align % Sector = 0 /\ Initramfs % Sector = 0

\* The interrupts whose handlers are for a VM.
Signals == {"uart", "timer", "maintenance", "inject"}

\* A machine: no file is empty, and the size in an image's header counts the whole
\* file.  Its noise is what raises interrupts before there is a VM: a key that is
\* pressed, a timer or a list register that the firmware left as it was.
ASSUME MachineAssumption ==
  \A x \in Machines :
    /\ x.build \in {"qemu-virt", "rpi4"} /\ x.noise \subseteq Signals
    /\ IsFiniteSet(x.segments) /\ \A s \in x.segments : s.end \in Nat
    /\ x.stackStart \in Nat /\ x.stackSize \in Nat
    /\ x.image \in Nat /\ x.imageSize \in Nat /\ x.guestDtb \in Nat /\ x.textOffset \in Nat
    /\ x.sizes \in [{"dtb", "kernel", "initramfs"} -> Nat \ {0}]
    /\ x.imageSize # 0 => x.sizes.kernel <= x.imageSize

VARIABLES
  m,         \* the machine
  pc,
  find,      \* the search in the device tree
  code,      \* why main has stopped: its result, "panic", "hang" or "no VM"
  uart,      \* PL011_DEVICE: base and whether it has an interrupt number
  heap,      \* what ALLOCATOR was given: from lo to hi - 1
  unmasked,  \* IRQs are enabled
  sources,   \* the interrupts enabled at the GIC and at their device
  pending,   \* the interrupts that wait
  vms,       \* vm_list of VM_MANAGER
  ram,       \* the host address of guest RAM
  mem        \* what was loaded: host address -> file and offset

vars == <<m, pc, find, code, uart, heap, unmasked, sources, pending, vms, ram, mem>>

qemu == m.build = "qemu-virt"
rpi4 == m.build = "rpi4"

\* The searches: the step at which main makes each.
Want ==
  [serial |-> [by |-> "compatible", what |-> "arm,pl011"],
   memory |-> [by |-> "name", what |-> "memory"],
   gic    |-> [by |-> "compatible", what |-> IF qemu THEN "arm,gic-v3" ELSE "arm,gic-400"],
   disk   |-> [by |-> "compatible", what |-> "virtio,mmio"],
   timer  |-> [by |-> "compatible", what |-> "arm,armv8-timer"]]

Searching == pc \in DOMAIN Want

D == INSTANCE Dtb WITH tree <- m.tree, want <- Want[pc]

\* The bytes of a file at an address.
Placed(file, at, size) == [a \in at .. at + size - 1 |-> <<file, a - at>>]

\* Memory after a write over what was there.
Over(new, old) ==
  [a \in DOMAIN new \cup DOMAIN old |-> IF a \in DOMAIN new THEN new[a] ELSE old[a]]

\* On rpi4, U-Boot loads the image and then the guest's device tree.
Preloaded ==
  IF rpi4
  THEN Over(Placed("dtb", m.guestDtb, m.sizes.dtb), Placed("kernel", m.image, m.sizes.kernel))
  ELSE <<>>

Init ==
  /\ m \in Machines
  /\ pc = "args"
  /\ find = D!Idle
  /\ code = "none"
  /\ uart = [base |-> -1, irq |-> FALSE]
  /\ heap = [lo |-> 0, hi |-> 0]
  /\ unmasked = FALSE
  /\ sources = {} /\ pending = {}
  /\ vms = <<>>
  /\ ram = 0
  /\ mem = Preloaded

-----------------------------------------------------------------------------

Stop(why) == pc' = "stopped" /\ code' = why

Go(next) == pc' = next /\ UNCHANGED code

\* A step that panics on one of the faults and goes on otherwise.
Unless(faults, next) == IF m.faults \cap faults # {} THEN Stop("panic") ELSE Go(next)

\* The number of arguments, their text and the header of the device tree.
Arguments ==
  /\ pc = "args"
  /\ IF "argc" \in m.faults THEN Stop("1")
     ELSE IF "utf8" \in m.faults THEN Stop("2")
     ELSE IF "number" \in m.faults THEN Stop("3")
     ELSE IF "header" \in m.faults THEN Stop("4")
     ELSE Go("serial")
  /\ UNCHANGED <<m, find, uart, heap, unmasked, sources, pending, vms, ram, mem>>

Scan ==
  /\ Searching
  /\ D!Scan
  /\ UNCHANGED <<m, pc, code, uart, heap, unmasked, sources, pending, vms, ram, mem>>

\* init_pl011_serial_port passes over a node that is not operational.
SerialAgain ==
  /\ pc = "serial" /\ find.state = "found"
  /\ ~D!is_node_operational(find.node)
  /\ D!SearchAgain
  /\ UNCHANGED <<m, pc, code, uart, heap, unmasked, sources, pending, vms, ram, mem>>

SerialNone ==
  /\ pc = "serial" /\ find.state = "none"
  /\ Stop("5")
  /\ UNCHANGED <<m, find, uart, heap, unmasked, sources, pending, vms, ram, mem>>

\* The device tree has the bus addresses of the peripherals.
InWindow(a, w) == w.from <= a /\ a < w.from + w.size

translate_rpi4_peripheral_address(a) ==
  IF rpi4 /\ \E w \in Windows : InWindow(a, w)
  THEN LET w == CHOOSE w \in Windows : InWindow(a, w) IN a - w.from + w.to
  ELSE a

\* The interrupt must be a level-triggered SPI in the qemu-virt build.
Serial ==
  LET reg == D!read_reg_property(find.node, 0)
      i == D!get_property(find.node, "interrupts")
  IN
  /\ pc = "serial" /\ find.state = "found"
  /\ D!is_node_operational(find.node)
  /\ IF reg = D!NoReg THEN Stop("6") /\ UNCHANGED <<uart, find>>
     ELSE IF i = 0 THEN Stop("panic") /\ UNCHANGED <<uart, find>>
     ELSE IF reg.size < UartSize THEN Stop("7") /\ UNCHANGED <<uart, find>>
     ELSE /\ Go("memory")
          /\ uart' = [base |-> translate_rpi4_peripheral_address(reg.base),
                      irq |-> rpi4 \/ D!Word(i).str = {"SPI level"}]
          /\ find' = D!Idle
  /\ UNCHANGED <<m, heap, unmasked, sources, pending, vms, ram, mem>>

-----------------------------------------------------------------------------
(* Memory and interrupts *)

\* elf_end: the ends of the segments that are loaded.
ElfEnd == Max({0} \cup {s.end : s \in {s \in m.segments : s.load}})

\* Mutant: the image that U-Boot has loaded is not reserved.
HeapEndStack == m.stackStart

\* reserved_start is usize::MAX in the qemu-virt build.
HeapEnd == IF rpi4 THEN Min({m.stackStart, m.image}) ELSE m.stackStart

\* The assertion of the exception level, the arguments, and setup_memory.
SetupMemory ==
  /\ pc = "memory" /\ find.state \in {"found", "none"}
  /\ IF \/ m.faults \cap {"el1", "elf"} # {}
        \/ find.state = "none" \/ D!read_reg_property(find.node, 0) = D!NoReg
        \/ ElfEnd >= HeapEnd
       THEN Stop("panic") /\ UNCHANGED <<heap, find>>
       ELSE Go("irq") /\ heap' = [lo |-> ElfEnd, hi |-> HeapEnd] /\ find' = D!Idle
  /\ UNCHANGED <<m, uart, unmasked, sources, pending, vms, ram, mem>>

\* setup_hypervisor, setup_exception, enable_irq
EnableIrq ==
  /\ pc = "irq"
  /\ unmasked' = TRUE
  /\ Go("gic")
  /\ UNCHANGED <<m, find, uart, heap, sources, pending, vms, ram, mem>>

\* Mutant: the serial port's interrupt is enabled with the others.
GicSourcesUart == IF rpi4 THEN {"sgi", "uart"} ELSE {}

\* What the initialisation of the GIC enables.
GicSources == IF rpi4 THEN {"sgi"} ELSE {}

\* The distributor has another size than it should, the GICv3 has no redistributor
\* for this CPU, or no system registers.
NoGicV3 == qemu /\ "gic" \in m.faults

\* init_gicv2, enable_interrupt and send_sgi_to_self, or init_gic_distributor and
\* init_gic_redistributor.
InitGic ==
  /\ pc = "gic" /\ find.state \in {"found", "none"}
  /\ IF find.state = "none" \/ D!read_reg_property(find.node, 1) = D!NoReg \/ NoGicV3
       THEN Stop("panic") /\ UNCHANGED <<find, sources, pending>>
       ELSE /\ find' = D!Idle
            /\ Go(IF qemu THEN "uart" ELSE "images")
            /\ sources' = sources \cup GicSources
            /\ pending' = pending \cup (IF rpi4 THEN {"sgi"} ELSE {})
  /\ UNCHANGED <<m, uart, heap, unmasked, vms, ram, mem>>

\* enable_serial_port_interrupt, which forgets what has arrived before.  Without an
\* interrupt number the warning waits for the lock of PL011_DEVICE, which the caller
\* holds.
EnableUart ==
  /\ pc = "uart"
  /\ IF uart.irq
       THEN /\ Go(IF qemu THEN "disk" ELSE "timer")
            /\ sources' = sources \cup {"uart"}
            /\ pending' = pending \ {"uart"}
       ELSE Stop("hang") /\ UNCHANGED <<sources, pending>>
  /\ UNCHANGED <<m, find, uart, heap, unmasked, vms, ram, mem>>

\* init_virtio_blk tries the nodes one after the other.
IsDisk == D!is_node_operational(find.node) /\ D!read_reg_property(find.node, 0).base = m.disk

DiskAgain ==
  /\ pc = "disk" /\ find.state = "found" /\ ~IsDisk
  /\ D!is_node_operational(find.node) => D!read_reg_property(find.node, 0) # D!NoReg
  /\ D!SearchAgain
  /\ UNCHANGED <<m, pc, code, uart, heap, unmasked, sources, pending, vms, ram, mem>>

\* The disk and its file system (init_fat32).
Disk ==
  /\ pc = "disk"
  /\ \/ find.state = "found" /\ IsDisk
     \/ find.state = "none"
     \/ /\ find.state = "found" /\ D!is_node_operational(find.node)
        /\ D!read_reg_property(find.node, 0) = D!NoReg
  /\ IF find.state = "found" /\ IsDisk THEN Unless({"mbr", "fat32"}, "timer") ELSE Stop("panic")
  /\ find' = D!Idle
  /\ UNCHANGED <<m, uart, heap, unmasked, sources, pending, vms, ram, mem>>

\* init_generic_timer_global of the qemu-virt build, and init_generic_timer with
\* enable_ppi of the rpi4 build, which comes after create_vm.
Timer ==
  LET i == D!get_property(find.node, "interrupts") IN
  /\ pc = "timer" /\ find.state \in {"found", "none"}
  /\ IF find.state = "none" \/ i = 0 \/ (rpi4 /\ D!Word(i).str # {"PPI"})
       THEN Stop("panic") /\ UNCHANGED sources
       ELSE /\ Go(IF qemu THEN "ram" ELSE "boot")
            /\ sources' = sources \cup (IF rpi4 THEN {"timer"} ELSE {})
  /\ find' = D!Idle
  /\ UNCHANGED <<m, uart, heap, unmasked, pending, vms, ram, mem>>

-----------------------------------------------------------------------------
(* create_vm *)

HeapSize == heap.hi - heap.lo

\* The qemu-virt build takes guest RAM from the heap.
AllocateRam ==
  /\ pc = "ram"
  /\ IF HeapSize < RamSize + BootMemory THEN Stop("panic") /\ UNCHANGED ram
     ELSE Go("map") /\ ram' = heap.lo
  /\ UNCHANGED <<m, find, uart, heap, unmasked, sources, pending, vms, mem>>

\* Ranges of addresses, from lo to hi - 1.
Interval(at, size) == [lo |-> at, hi |-> at + size]
Within(r, s)    == s.lo <= r.lo /\ r.hi <= s.hi
Overlap(r, s)   == r.lo < s.hi /\ s.lo < r.hi

HostRam == Interval(HostRamBase, RamSize)

\* What create_vm of the rpi4 build asserts of the image and the device tree.  The
\* size in the image's header may be 0.
Rpi4Layout ==
  /\ m.image \in HostRamBase .. HostRamBase + RamSize - 1
  /\ Within(Interval(m.guestDtb, m.sizes.dtb), HostRam)
  /\ m.textOffset <= m.image /\ (m.image - m.textOffset) % Align = 0
  /\ m.imageSize # 0 =>
       /\ m.image + m.imageSize <= HostRamBase + RamSize
       /\ \/ m.image + m.imageSize <= m.guestDtb
          \/ m.guestDtb + m.sizes.dtb <= m.image

CheckImages ==
  /\ pc = "images" /\ rpi4
  /\ IF m.faults \cap {"guest header", "magic"} # {} \/ ~Rpi4Layout \/ HeapSize < BootMemory
       THEN Stop("panic") /\ UNCHANGED ram
       ELSE Go("map") /\ ram' = HostRamBase
  /\ UNCHANGED <<m, find, uart, heap, unmasked, sources, pending, vms, mem>>

\* Stage-2 tables (module Paging), vGIC, timer and the emulated devices.  In the
\* qemu-virt build, init_vgic and init_generic_timer_local enable interrupts.
MapRam ==
  /\ pc = "map"
  /\ IF rpi4 THEN Go("push") ELSE Unless({"disk file", "files"}, "layout")
  /\ sources' = sources \cup (IF qemu THEN {"maintenance", "inject", "timer"} ELSE {})
  /\ UNCHANGED <<m, find, uart, heap, unmasked, pending, vms, ram, mem>>

\* Where the qemu-virt build puts the files, as offsets into guest RAM.  The kernel
\* goes to the next boundary behind the device tree.
Offset(file) ==
  CASE file = "dtb" -> 0
    [] file = "kernel" -> ((m.sizes.dtb - 1) \div Align) * Align + Align
    [] file = "initramfs" -> Initramfs

FileRange(file) == Interval(Offset(file), m.sizes[file])

Files == {"dtb", "kernel", "initramfs"}

\* Mutant: the kernel may reach into the initramfs.
QemuLoose ==
  /\ \A f \in Files : FileRange(f).hi <= RamSize
  /\ \A f \in Files \ {"dtb"} : ~Overlap(FileRange("dtb"), FileRange(f))

QemuLayout ==
  /\ \A f \in Files : FileRange(f).hi <= RamSize
  /\ \A f, g \in Files : f # g => ~Overlap(FileRange(f), FileRange(g))

CheckLayout ==
  /\ pc = "layout"
  /\ IF QemuLayout THEN Go("load dtb") ELSE Stop("panic")
  /\ UNCHANGED <<m, find, uart, heap, unmasked, sources, pending, vms, ram, mem>>

\* Fat32::read writes whole sectors.
RoundUp(n) == ((n + Sector - 1) \div Sector) * Sector

Load(file, here, next) ==
  /\ pc = here
  /\ IF "read" \in m.faults THEN Stop("panic") /\ UNCHANGED mem
     ELSE Go(next) /\ mem' = Over(Placed(file, ram + Offset(file), RoundUp(m.sizes[file])), mem)
  /\ UNCHANGED <<m, find, uart, heap, unmasked, sources, pending, vms, ram>>

\* The header of the kernel.
CheckMagic ==
  /\ pc = "magic"
  /\ Unless({"magic"}, "push")
  /\ UNCHANGED <<m, find, uart, heap, unmasked, sources, pending, vms, ram, mem>>

\* push_vm: the VM is registered, and the first one is active.
PushVm ==
  /\ pc = "push"
  /\ vms' = Append(vms, Len(vms))
  /\ Go(IF qemu THEN "boot" ELSE "uart")
  /\ UNCHANGED <<m, find, uart, heap, unmasked, sources, pending, ram, mem>>

\* The address that create_vm returns, as the host's: the qemu-virt build adds the text
\* offset of the header to where it has put the kernel.
BootAddress ==
  IF qemu
  THEN ram + Offset("kernel") + (IF m.imageSize = 0 THEN TextOffset ELSE m.textOffset)
  ELSE m.image

\* boot_vm, once the disk and its file system are in their statics.
BootVm ==
  /\ pc = "boot"
  /\ Go("guest")
  /\ UNCHANGED <<m, find, uart, heap, unmasked, sources, pending, vms, ram, mem>>

-----------------------------------------------------------------------------
(* Interrupts *)

\* An interrupt is raised.
Raise(s) ==
  /\ pc # "stopped" /\ s \in m.noise \ pending
  /\ pending' = pending \cup {s}
  /\ UNCHANGED <<m, pc, find, code, uart, heap, unmasked, sources, vms, ram, mem>>

\* The handlers that look for a VM, and panic if there is none: input_uart in both
\* builds; in the qemu-virt build those of the timer, of the maintenance interrupt (if
\* a list register has ended) and of the SGI for injections as well.
NeedsVm(s) == s = "uart" \/ (qemu /\ s \in Signals)

\* irq_handler.  The rpi4 build's SGI is logged, and its timer disabled until the guest
\* has dealt with it.
Irq(s) ==
  /\ unmasked /\ pc # "stopped" /\ s \in sources \cap pending
  /\ pending' = pending \ {s}
  /\ IF NeedsVm(s) /\ vms = <<>> THEN Stop("no VM") ELSE UNCHANGED <<pc, code>>
  /\ sources' = IF rpi4 /\ s = "timer" THEN sources \ {s} ELSE sources
  /\ UNCHANGED <<m, find, uart, heap, unmasked, vms, ram, mem>>

-----------------------------------------------------------------------------

Main ==
  \/ Arguments \/ Scan \/ SerialAgain \/ SerialNone \/ Serial
  \/ SetupMemory \/ EnableIrq \/ InitGic \/ EnableUart \/ DiskAgain \/ Disk \/ Timer
  \/ AllocateRam \/ CheckImages \/ MapRam \/ CheckLayout
  \/ Load("dtb", "load dtb", "load kernel")
  \/ Load("kernel", "load kernel", "load initramfs")
  \/ Load("initramfs", "load initramfs", "magic")
  \/ CheckMagic \/ PushVm \/ BootVm

Next ==
  \/ Main
  \/ \E s \in Signals : Raise(s)
  \/ \E s \in Signals \cup {"sgi"} : Irq(s)

Spec == Init /\ [][Next]_vars

\* Fairness: main goes on between interrupts.
FairSpec == Spec /\ WF_vars(Main)

-----------------------------------------------------------------------------
(* Properties *)

\* HandlerFindsVm: in the rpi4 build irq_handler never looks for a VM while none is
\* registered, whatever interrupts come, because the interrupts whose handlers need one
\* are enabled behind push_vm.  The qemu-virt build enables four of them in front of it
\* and rests on their being quiet.
HandlerFindsVm == code = "no VM" => qemu /\ m.noise # {}

T == INSTANCE Dtb WITH tree <- m.tree, want <- Want.serial

\* A device tree has the form of its specification: a name stands behind every begin
\* and nowhere else, properties stand in front of the children of their node, an end
\* has a node to close, and behind the end of the root there is nothing.
WellFormed(words) ==
  /\ words \in Seq([t : {"begin", "name", "prop", "nop", "end", "stop"}, key : STRING,
                    str : SUBSET STRING, num : Seq(Nat)])
  /\ \A i \in DOMAIN words :
       /\ words[i].t = "begin" => i < Len(words) /\ words[i + 1].t = "name"
       /\ words[i].t = "name" => i > 1 /\ words[i - 1].t = "begin"
       /\ words[i].t = "prop" =>
            \E j \in 1 .. i - 1 : /\ words[j].t = "name"
                                /\ \A k \in j + 1 .. i : words[k].t \in {"prop", "nop"}
       /\ words[i].t = "stop" => i = Len(words)
       /\ words[i].t = "end" => T!Open(words, i) > 0
       /\ words[i].t = "end" /\ T!Open(words, i) = 1 =>
            \A j \in i + 1 .. Len(words) : words[j].t \in {"nop", "stop"}

ASSUME TreeAssumption == \A x \in Machines : WellFormed(x.tree)

Uarts  == {i \in T!Nodes : T!Compatible(i, "arm,pl011")}
Usable == {i \in Uarts : T!is_node_operational(T!Bare(i))}
Uart   == T!First(Usable)

\* A node with cells of its own, which the search takes for those of the nodes
\* around it.
OddCells == \E i \in Uarts : T!HasCells(i)

UartReg == T!read_reg_property([start |-> Uart, cells |-> T!TrueCells(Uart)], 0)

\* A node that cannot be used comes first: the search may not get over it.
Hidden == \E i \in Uarts \ Usable : \A j \in Usable : i < j

\* A search that goes on from an unusable node and gets past the end of the bus around
\* it takes the cells of that bus along to the nodes behind.
LeftBus == \E i \in Uarts \ Usable : i < Uart /\ T!Level(Uart) < T!Level(i)

\* A node whose parent gives no cells: the search takes those of the nodes around it.
Misread == OddCells \/ LeftBus \/ ~T!GivenCells(Uart)

\* The CPU finds at b what has address a on its bus.
SeenAt(a, b) ==
  IF rpi4 /\ \E w \in Windows : InWindow(a, w)
  THEN \E w \in Windows : InWindow(a, w) /\ b = a - w.from + w.to
  ELSE b = a

\* SerialRight: the serial port is the first node of the tree that is compatible and
\* operational, at the CPU's address of what its reg has in the cells of its parent, and
\* main gives it up with 6 or 7 only because that node has no reg or too small a one.
\* The exceptions are nodes with cells of their own or with none from their parent,
\* and a search that has left a bus on its way.
SerialRight ==
  /\ uart.base # -1 => Usable # {} /\ (Misread \/ SeenAt(UartReg.base, uart.base))
  /\ code = "6" => Misread \/ UartReg = T!NoReg
  /\ code = "7" => Misread \/ UartReg.size < UartSize

\* SerialMissed: main finds no serial port only if none is usable or an unusable one
\* stands in front of all that are.  In the second case it returns the 5 that is
\* documented for the first.
SerialMissed == code = "5" => Usable = {} \/ Hidden

\* The qemu-virt build does not load the kernel at its text offset, but enters it there.
EntryMoved == qemu /\ (m.imageSize = 0 \/ m.textOffset # 0)

\* ImagesIntact: when the guest starts, every byte of its files is in its RAM where
\* it is told to look: nothing is overwritten by what was loaded later or by the rest
\* of a sector; and it starts with the first byte of the kernel.  On rpi4, an image whose
\* header gives no size is not checked; in the qemu-virt build, a text offset moves the
\* start.
ImagesIntact ==
  LET at(f) == IF qemu THEN ram + Offset(f) ELSE IF f = "dtb" THEN m.guestDtb ELSE m.image
      files == IF qemu THEN Files ELSE {"dtb", "kernel"}
  IN (pc = "guest" /\ (rpi4 => m.imageSize # 0)) =>
       /\ \A f \in files : \A a \in at(f) .. at(f) + m.sizes[f] - 1 :
            a \in ram .. ram + RamSize - 1 /\ mem[a] = <<f, a - at(f)>>
       /\ mem[BootAddress] = <<"kernel", 0>> \/ EntryMoved

\* GuestRamApart: guest RAM does not overlap the hypervisor; in the qemu-virt build it is
\* part of the heap and apart from the stack, and in the rpi4 build apart from the heap if
\* the image is loaded at the start of guest RAM.  Nothing keeps the stack of the rpi4
\* build, which U-Boot has placed, out of guest RAM.
GuestRamApart ==
  LET guest == Interval(ram, RamSize) IN
  (pc = "guest" /\ (rpi4 => m.image = HostRamBase)) =>
    /\ ram >= ElfEnd
    /\ qemu => Within(guest, heap) /\ ~Overlap(guest, Interval(m.stackStart, m.stackSize))
    /\ rpi4 => ~Overlap(guest, heap)

\* What a fit machine has: the other nodes, each the first of its kind and complete,
\* and the disk behind nodes that lie side by side and have no children.
FirstOf(what) == T!First({i \in T!Nodes : T!Compatible(i, what)})
Complete(what, key) ==
  /\ \E i \in T!Nodes : T!Compatible(i, what)
  /\ T!get_property(T!Bare(FirstOf(what)), key) # 0

NextTo(i, j) == j = T!Last(T!Own(T!Bare(i))) + 4

Reg(i) == T!read_reg_property([start |-> i, cells |-> T!TrueCells(i)], 0)

DiskReached ==
  \E d \in T!Nodes :
    /\ T!Compatible(d, "virtio,mmio") /\ Reg(d).base = m.disk
    /\ \A i \in T!Nodes : (T!Compatible(i, "virtio,mmio") /\ i < d) =>
         \E j \in T!Nodes : T!Compatible(j, "virtio,mmio") /\ NextTo(i, j)

Fit ==
  /\ m.faults = {} /\ (qemu => m.noise = {})
  /\ Usable # {} /\ ~Hidden /\ ~OddCells
  /\ UartReg # T!NoReg /\ UartReg.size >= UartSize
  /\ T!get_property(T!Bare(Uart), "interrupts") # 0
  /\ qemu => T!Word(T!get_property(T!Bare(Uart), "interrupts")).str = {"SPI level"}
  /\ Complete(Want.gic.what, "reg") /\ Complete("arm,armv8-timer", "interrupts")
  /\ \E i \in T!Nodes : T!Word(i - 1).str = {"memory"} /\ Reg(i) # T!NoReg
  /\ qemu => DiskReached
  /\ ElfEnd + BootMemory + (IF qemu THEN RamSize ELSE 0) <= HeapEnd
  /\ IF qemu THEN QemuLayout ELSE Rpi4Layout

\* Boots: on a machine that has all that the program asks for, the guest starts.
Boots == (pc = "args" /\ Fit) ~> pc = "guest"
=============================================================================
