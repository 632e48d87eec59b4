---------------------------- MODULE VgicV2Guest ----------------------------
(***************************************************************************)
(* VgicV2 with a guest that handles its interrupts as the Linux drivers of *)
(* the GICv2, the architectural timer and the PL011 do: acknowledge, serve *)
(* the device until it is quiet, write GICC_EOIR.  It composes the         *)
(* hypervisor, its devices and the guest into the path of a timer expiry   *)
(* and of a character, from the device to the guest.  A wild guest, which  *)
(* accesses the emulated registers in any order and for which nothing is   *)
(* counted, is the other initial state: it has the behaviours of VgicV2.   *)
(***************************************************************************)
EXTENDS VgicV2

CONSTANTS
  MaxTyped,   \* bound: characters that are typed in all
  MaxExpiries \* bound: expiries of the timer in all

VARIABLES
  gpc,      \* where the guest is in its IRQ handler
  typed,    \* every character the terminal has sent
  got,      \* every character the guest's driver has read
  expiries, \* how often the timer has expired
  overrun   \* history: a character was pushed to, or read from, a full buffer

gvars == <<pending, vi, uart, handler, ppi, line, fifo, rxirq, active,
           gpc, typed, got, expiries, overrun>>

GInit ==
  /\ Init
  /\ gpc \in {"boot", "wild"}
  /\ typed = <<>>
  /\ got = <<>>
  /\ expiries = 0
  /\ overrun = FALSE

Full(u) == Len(Buffered(u)) = RxSlots

\* What every step records of the emulated UART.
Record == overrun' = (overrun \/ (Full(uart) /\ (InputChar \/ GuestReadDr)))

Goto(from, to) == gpc = from /\ gpc' = to

\* The PL011 driver starts and unmasks the receive interrupt.
Startup ==
  /\ Goto("boot", "idle")
  /\ GuestWriteImsc(TRUE)
  /\ UNCHANGED <<typed, got, expiries>>

\* The guest takes a virtual IRQ and reads GICC_IAR.
TakeVirq ==
  /\ vi
  /\ Goto("idle", IF Lowest(pending) = TimerId THEN "timer" ELSE "rx")
  /\ GuestReadIar
  /\ UNCHANGED <<typed, got, expiries>>

ServeTimer ==
  /\ Goto("timer", "eoi_timer")
  /\ GuestTimer
  /\ UNCHANGED <<typed, got, expiries>>

\* The PL011 driver reads UART_DR as long as UART_FR shows data.  What it reads is
\* recorded until the overrun, after which it may read the same character for ever.
ServeRx ==
  /\ gpc = "rx" /\ ~uart.rxfe
  /\ GuestReadDr
  /\ got' = IF overrun THEN got ELSE Append(got, DrValue(uart))
  /\ UNCHANGED <<gpc, typed, expiries>>

\* UART_FR shows no data, or the driver has read as many characters as it reads in
\* one interrupt, far more than the buffer holds: only after an overrun does that
\* happen with data left.
RxServed ==
  /\ handler = "guest"
  /\ uart.rxfe \/ overrun
  /\ Goto("rx", "eoi_rx")
  /\ UNCHANGED <<vars, typed, got, expiries>>

EndOfInterrupt ==
  /\ \/ Goto("eoi_timer", "idle") /\ GuestWriteEoir(TimerId)
     \/ Goto("eoi_rx", "idle") /\ GuestWriteEoir(PL011_INT_ID)
  /\ UNCHANGED <<typed, got, expiries>>

GGuest ==
  Startup \/ TakeVirq \/ ServeTimer \/ ServeRx \/ RxServed \/ EndOfInterrupt

WildGuest == gpc = "wild" /\ Guest /\ UNCHANGED <<gpc, typed, got, expiries>>

GHypervisor == Hypervisor /\ UNCHANGED <<gpc, typed, got, expiries>>

GExpire ==
  /\ expiries < MaxExpiries
  /\ ~line
  /\ Expire
  /\ expiries' = IF gpc = "wild" THEN expiries ELSE expiries + 1
  /\ UNCHANGED <<gpc, typed, got>>

GArrive(ch) ==
  /\ Len(typed) < MaxTyped
  /\ Arrive(ch)
  /\ typed' = IF gpc = "wild" THEN typed ELSE Append(typed, ch)
  /\ UNCHANGED <<gpc, got, expiries>>

GTimeout == ReceiveTimeout /\ UNCHANGED <<gpc, typed, got, expiries>>

GNext ==
  /\ GGuest \/ WildGuest \/ GHypervisor \/ GExpire \/ (\E ch \in Byte : GArrive(ch)) \/ GTimeout
  /\ Record

GSpec == GInit /\ [][GNext]_gvars

(***************************************************************************)
(* Fairness: the CPU runs, so an IRQ that the interrupt controller signals *)
(* is taken, irq_handler runs to its end, and the guest runs its own       *)
(* handler; a character that stays in the FIFO raises the UART's receive   *)
(* timeout.  Nothing is assumed of the terminal or of the timer's rate.    *)
(***************************************************************************)
GFairSpec ==
  /\ GSpec
  /\ WF_gvars(TimerIrq /\ UNCHANGED <<gpc, typed, got, expiries>> /\ Record)
  /\ WF_gvars(UartIrq /\ UNCHANGED <<gpc, typed, got, expiries>> /\ Record)
  /\ WF_gvars((InputChar \/ InputEmpty \/ InputDone)
                /\ UNCHANGED <<gpc, typed, got, expiries>> /\ Record)
  /\ WF_gvars(GTimeout /\ Record)
  /\ WF_gvars(GGuest /\ Record)

-----------------------------------------------------------------------------
(* Properties *)

\* A NUL only reaches the guest if it reads it before another character comes.
Text(chars) ==
  LET kept[n \in 0 .. Len(chars)] ==
        IF n = 0 THEN <<>>
        ELSE IF chars[n] = EMPTY THEN kept[n - 1] ELSE Append(kept[n - 1], chars[n])
  IN  kept[Len(chars)]

\* CharsInOrder: until the emulated buffer is full and is written or read all the
\* same, no character but a NUL is lost, duplicated or overtaken between the terminal
\* and the guest, whatever NULs come with it: what was typed is what the guest has
\* read, then what the emulated UART holds, then what the physical FIFO holds.
CharsInOrder ==
  gpc # "wild" /\ ~overrun => Text(typed) = Text(got) \o Buffered(uart) \o Text(fifo)

Queue == INSTANCE RxQueue
           WITH Capacity <- RxSlots, None <- EMPTY, queue <- Buffered(uart),
                mask <- uart.rxim, status <- uart.rxris

\* QueueUnlessFull: whatever the guest does, the emulated UART behaves as a bounded
\* first-in first-out queue: every character is read once and in the order of
\* arrival, one that finds the buffer full is the one that is lost, and the
\* interrupt status follows the queue.  The one exception is a read while all
\* slots are taken: the shift leaves the last slot as it is, so the queue stays as
\* long as it was, its last character is there twice, and no number of reads ever
\* empties it again.
QueueUnlessFull ==
  /\ Queue!Init
  /\ [][\/ Queue!Next
        \/ UNCHANGED Queue!vars
        \/ GuestReadDr /\ Full(uart)
             /\ Buffered(uart)' = Append(Tail(Buffered(uart)), uart.buf[RxSlots])]_gvars

\* IsQueue: a read of UART_DR takes a character out of read_buffer, which closes the
\* queue up behind it, and the flag says when the queue is empty, as the comments of
\* the read say, also when every slot is taken.
IsQueue == Queue!Spec

\* TimerServed: every expiry of the timer reaches the guest's timer handler.
TimerServed == gpc # "wild" /\ line ~> ~line

\* RxServedToEmpty: once the emulated UART asserts its interrupt, the guest
\* eventually reads every character it holds, also those that come in while the
\* guest is in the handler or is about to end it, unless the buffer overruns.
RxServedToEmpty ==
  gpc # "wild" /\ IsRxPending(uart) ~> Buffered(uart) = <<>> \/ overrun

\* FifoDrained: a character never stays in the physical FIFO, even when it
\* arrives after input_uart has found the FIFO empty and before it clears the
\* interrupt.
FifoDrained == gpc # "wild" /\ fifo # <<>> ~> fifo = <<>>
=============================================================================
