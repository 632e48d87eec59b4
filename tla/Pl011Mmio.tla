----------------------------- MODULE Pl011Mmio -----------------------------
(***************************************************************************)
(* The receive half of the emulated PL011 UART of src/mmio/pl011.rs, as    *)
(* operators on the fields of struct Pl011Mmio.  Of the 16-bit registers   *)
(* flag, interrupt_mask and raw_interrupt_status only the receive bit is   *)
(* ever set or tested by the hypervisor (RXFE, RXIM and RXRIS); `control`  *)
(* is only stored, and writing UART_DR only prints.                        *)
(***************************************************************************)
EXTENDS Naturals, Sequences

CONSTANTS
  RxSlots,  \* length of read_buffer
  Byte      \* the characters a terminal sends

ASSUME RxSlotsAssumption == RxSlots \in Nat \ {0}
ASSUME ByteAssumption    == Byte \subseteq Nat

Slot == 1 .. RxSlots

\* The value a free slot of read_buffer has.
EMPTY == 0

Uart == [rxfe : BOOLEAN, rxim : BOOLEAN, rxris : BOOLEAN,
         buf : [Slot -> Byte \cup {EMPTY}]]

\* Pl011Mmio::new
NewUart == [rxfe |-> FALSE, rxim |-> FALSE, rxris |-> FALSE,
            buf |-> [i \in Slot |-> EMPTY]]

FreeSlots(buf) == {i \in Slot : buf[i] = EMPTY}

\* Mutant: a character that finds no free slot replaces the last one.
StoreOver(buf, ch) ==
  [i \in Slot |->
     IF FreeSlots(buf) = {} THEN IF i = RxSlots THEN ch ELSE buf[i]
     ELSE IF i \in FreeSlots(buf) /\ \A j \in FreeSlots(buf) : i <= j THEN ch
     ELSE buf[i]]

\* The for loop of push(): the first free slot takes the character; a character
\* that finds none is dropped.  A NUL leaves the slot free.
Store(buf, ch) ==
  [i \in Slot |->
     IF i \in FreeSlots(buf) /\ \A j \in FreeSlots(buf) : i <= j THEN ch ELSE buf[i]]

\* push(), up to the interrupt, which it raises when RXIM is set.
Push(uart, ch) ==
  [uart EXCEPT !.buf   = Store(@, ch),
               !.rxfe  = FALSE,
               !.rxris = @ \/ uart.rxim]

\* The for loop of a read of UART_DR: every slot takes its successor's value.
Shift(buf) == [i \in Slot |-> IF i < RxSlots THEN buf[i + 1] ELSE buf[i]]

\* A read of UART_DR returns DrValue and leaves the UART as ReadDr.
DrValue(uart) == uart.buf[1]

ReadDr(uart) ==
  LET buf == Shift(uart.buf)
      now == buf[1] = EMPTY
  IN  [uart EXCEPT !.buf   = buf,
                   !.rxfe  = @ \/ now,
                   !.rxris = @ /\ ~now]

WriteImsc(uart, rx) == [uart EXCEPT !.rxim = rx]

\* A write of UART_ICR; rx says whether the written value has the RX bit.
WriteIcr(uart, rx) == [uart EXCEPT !.rxris = @ /\ ~rx]

\* is_rx_pending(), the masked interrupt status.
IsRxPending(uart) == uart.rxris /\ uart.rxim

\* The characters that a guest reading UART_DR is to receive, oldest first.
Buffered(uart) ==
  LET n == CHOOSE k \in 0 .. RxSlots :
             /\ \A i \in 1 .. k : uart.buf[i] # EMPTY
             /\ k < RxSlots => uart.buf[k + 1] = EMPTY
  IN  [i \in 1 .. n |-> uart.buf[i]]
=============================================================================
