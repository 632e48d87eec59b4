------------------------------ MODULE RxQueue ------------------------------
(***************************************************************************)
(* What the receive half of a UART promises its guest: a bounded first-in  *)
(* first-out queue and an interrupt status that a character sets when      *)
(* reception is unmasked and that clears when the queue is read empty.     *)
(***************************************************************************)
EXTENDS Naturals, Sequences

CONSTANTS
  Capacity,
  Byte,
  None  \* the byte that cannot be kept

VARIABLES queue, mask, status

vars == <<queue, mask, status>>

Init ==
  /\ queue = <<>>
  /\ mask = FALSE
  /\ status = FALSE

\* A full queue loses the new character, never an old one.
Receive(ch) ==
  /\ queue'  = IF Len(queue) < Capacity /\ ch # None THEN Append(queue, ch) ELSE queue
  /\ status' = (status \/ mask)
  /\ UNCHANGED mask

Read ==
  /\ queue # <<>>
  /\ queue'  = Tail(queue)
  /\ status' = (status /\ Tail(queue) # <<>>)
  /\ UNCHANGED mask

ReadEmpty ==
  /\ queue = <<>>
  /\ status' = FALSE
  /\ UNCHANGED <<queue, mask>>

SetMask(rx) == mask' = rx /\ UNCHANGED <<queue, status>>

Clear(rx) == status' = (status /\ ~rx) /\ UNCHANGED <<queue, mask>>

Next ==
  \/ \E ch \in Byte : Receive(ch)
  \/ Read
  \/ ReadEmpty
  \/ \E rx \in BOOLEAN : SetMask(rx) \/ Clear(rx)

Spec == Init /\ [][Next]_vars
=============================================================================
