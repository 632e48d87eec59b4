------------------------------- MODULE MCBoot -------------------------------
(* Machines for TLC: device trees of a few nodes around the serial port and  *)
(* the disk, guest RAM of 16 bytes with boundaries of 4 and sectors of 2.    *)
EXTENDS Boot

Token(t)     == <<[t |-> t, key |-> "", str |-> {}, num |-> <<>>]>>
Strings(k, s) == <<[t |-> "prop", key |-> k, str |-> s, num |-> <<>>]>>
Cells(k, n)  == <<[t |-> "prop", key |-> k, str |-> {}, num |-> n]>>
Node(name, words) ==
  Token("begin") \o <<[t |-> "name", key |-> "", str |-> {name}, num |-> <<>>]>> \o words \o Token("end")

BusCells(a, s) == Cells("#address-cells", <<a>>) \o Cells("#size-cells", <<s>>)

Disabled == Strings("status", {"disabled"})
Pl011    == Strings("compatible", {"arm,pl011", "arm,primecell"})
Level    == Strings("interrupts", {"SPI level"})
Child    == Node("bluetooth", Strings("compatible", {"brcm"}))

\* Nodes at the place of the serial port.
UartNodes == [
  good  |-> Node("serial", Pl011 \o Cells("reg", <<9, 4, 12, 4>>) \o Level),
  okay  |-> Node("serial", Strings("status", {"okay"}) \o Pl011 \o Cells("reg", <<10, 4>>) \o Level \o Child),
  off   |-> Node("serial", Pl011 \o Disabled \o Cells("reg", <<8, 4>>) \o Level),
  full  |-> Node("serial", Pl011 \o Disabled \o Child),
  other |-> Node("soc", BusCells(2, 1) \o Node("rtc", Strings("compatible", {"arm,pl031"}))),
  nop   |-> Token("nop"),
  bus   |-> Node("soc", BusCells(2, 1) \o Node("serial", Cells("reg", <<0, 11, 4>>) \o Token("nop") \o Pl011 \o Level)),
  idle  |-> Node("soc", BusCells(2, 1) \o Node("serial", Pl011 \o Disabled)),
  quiet |-> Node("soc", BusCells(2, 1) \o Node("serial", Pl011 \o Disabled) \o Node("rtc", Cells("reg", <<0, 3, 4>>))),
  loose |-> Node("soc", Node("serial", Pl011 \o Cells("reg", <<9, 4>>) \o Level)),
  odd   |-> Node("serial", BusCells(2, 1) \o Pl011 \o Cells("reg", <<9, 4, 7>>) \o Level),
  short |-> Node("serial", Pl011 \o Cells("reg", <<9>>) \o Level),
  small |-> Node("serial", Pl011 \o Cells("reg", <<9, 1>>) \o Level),
  edge  |-> Node("serial", Pl011 \o Cells("reg", <<9, 4>>) \o Strings("interrupts", {"SPI edge"})),
  mute  |-> Node("serial", Pl011 \o Cells("reg", <<9, 4>>))]

Memory == Node("memory", Cells("reg", <<0, 15>>))
Gic    == Node("intc", Strings("compatible", {"arm,gic-400", "arm,gic-v3"}) \o Cells("reg", <<1, 1, 2, 1>>))
Timer0 == Node("timer", Strings("compatible", {"arm,armv8-timer"}) \o Strings("interrupts", {"PPI"}))

Virtio(a, words) == Node("virtio", Strings("compatible", {"virtio,mmio"}) \o Cells("reg", <<a, 1>>) \o words)

\* The disk is at 5.
Disks == [
  one    |-> Virtio(5, <<>>),
  second |-> Virtio(4, <<>>) \o Virtio(5, <<>>),
  third  |-> Virtio(4, Disabled) \o Virtio(3, <<>>) \o Virtio(5, <<>>),
  gone   |-> Virtio(4, <<>>) \o Timer0 \o Virtio(5, <<>>),
  none   |-> Virtio(4, <<>>)]

Tree(rest, uarts) ==
  Node("", BusCells(1, 1) \o rest \o uarts) \o Token("stop")

Standard(disk) == Memory \o Gic \o Timer0 \o Disks[disk]

Qemu == [build |-> "qemu-virt", noise |-> {}, tree |-> Tree(Standard("second"), UartNodes.good), faults |-> {},
         segments |-> {[load |-> TRUE, end |-> 8], [load |-> FALSE, end |-> 40]},
         stackStart |-> 34, stackSize |-> 4, disk |-> 5, image |-> 0, imageSize |-> 10, textOffset |-> 0,
         guestDtb |-> 0, sizes |-> [dtb |-> 3, kernel |-> 4, initramfs |-> 5]]

Rpi4 == [Qemu EXCEPT !.build = "rpi4", !.image = 16, !.imageSize = 6, !.guestDtb = 28, !.stackStart = 50]

Both == {Qemu, Rpi4}

\* Trees with up to two nodes around the serial port, and some with three.
SerialTrees ==
  {[b EXCEPT !.tree = Tree(Memory \o Gic \o Timer0 \o Disks.one, UartNodes[x] \o UartNodes[y])] :
     b \in Both, x \in DOMAIN UartNodes, y \in DOMAIN UartNodes}
  \cup {[Rpi4 EXCEPT !.tree = Tree(Memory \o Gic \o Timer0, UartNodes[x] \o UartNodes[y] \o UartNodes[z])] :
     x \in {"off", "idle", "odd"}, y \in {"off", "other", "nop", "idle"}, z \in {"good", "bus"}}

OtherTrees ==
  {[Qemu EXCEPT !.tree = Tree(Standard(d), UartNodes.good)] : d \in DOMAIN Disks}
  \cup {[b EXCEPT !.tree = Tree(t, UartNodes.good)] : b \in Both,
          t \in {Gic \o Timer0 \o Disks.one, Memory \o Timer0 \o Disks.one, Memory \o Gic \o Disks.one,
                 Memory \o Gic \o Timer0, Timer0 \o Node("memory", <<>>) \o Gic \o Disks.one}}

Faults == {"argc", "utf8", "number", "header", "el1", "elf", "gic", "mbr", "fat32", "disk file", "files",
           "read", "magic", "guest header"}

Faulty == {[b EXCEPT !.faults = {f}] : b \in Both, f \in Faults}

\* Files of all sizes that matter, and memory that is too small.
QemuLayouts ==
  {[Qemu EXCEPT !.sizes = [dtb |-> d, kernel |-> k, initramfs |-> i], !.stackStart = e] :
     d \in {1, 3, 4, 5}, k \in 1 .. 9, i \in {1, 5, 7, 8, 9}, e \in {34}}
  \cup {[Qemu EXCEPT !.stackStart = e] : e \in {8, 20, 25, 26}}
  \cup {[Qemu EXCEPT !.imageSize = s, !.textOffset = t] : s \in {0, 10}, t \in {0, 1}}

Rpi4Layouts ==
  {[Rpi4 EXCEPT !.image = a, !.imageSize = s, !.textOffset = t, !.guestDtb = d, !.stackStart = e] :
     a \in {12, 16, 17, 20, 26, 32}, s \in {0, 4, 6, 10}, t \in {0, 1}, d \in {15, 16, 19, 21, 29, 30}, e \in {12, 50}}

\* Interrupts that come early.
Noisy == {[b EXCEPT !.noise = n] : b \in Both, n \in SUBSET Signals}

\* The first window ends in front of 10.
BothWindows == {[from |-> 8, size |-> 2, to |-> 40], [from |-> 11, size |-> 1, to |-> 50]}

MachinesMC == Noisy \cup SerialTrees \cup OtherTrees \cup Faulty \cup QemuLayouts \cup Rpi4Layouts
=============================================================================
