--------------------------- MODULE VirtioBlkDriver ---------------------------
(***************************************************************************)
(* The hypervisor's own driver of the host's block device                  *)
(* (src/drivers/virtio_blk.rs) with the device, which works on its own:    *)
(* operation_sync publishes one request at a time and spins on the status  *)
(* byte, a variable on its stack, never looking at the used ring.  The     *)
(* device may find a request before it is notified, and it returns the     *)
(* chain through the used ring after it has written the status.            *)
(*                                                                         *)
(* Calls are told apart by `call`, which alternates: what a descriptor of  *)
(* the previous call points to is no longer there.  The writes to shared   *)
(* memory reach the device in the order of the program.                    *)
(***************************************************************************)
EXTENDS Integers, Sequences, FiniteSets

CONSTANTS
  NumDesc,        \* NUMBER_OF_DESCRIPTORS
  IdxMod,         \* indices of the rings are u16: 2^16
  OverflowChecks  \* the build panics on overflow (dev profile)

Desc == 0 .. NumDesc - 1
Idx  == 0 .. IdxMod - 1
Call == {0, 1}

VARIABLES
  pc,      \* where operation_sync is
  call,    \* the running or, in "idle", the last call
  free,    \* free_bitmap
  chain,   \* first_idx, second_idx and third_idx
  desc,    \* the descriptor table: what each points to, of which call, and `next`
  avail,   \* the available ring: idx, ring
  status,  \* the local variable `status`; "FF" is 0xFF
  result,  \* what the last call returned
  devIdx,  \* device: the available index up to which it has taken requests
  taken    \* device: the requests it is working on

driver == <<pc, call, free, chain, desc, avail, result>>
vars   == <<driver, status, devIdx, taken>>

Entry == [to : {"none", "request", "buffer", "status"}, call : Call, next : Desc]

TypeOK ==
  /\ pc \in {"new", "idle", "ring", "idx", "notify", "wait", "panic", "none"}
  /\ call \in Call
  /\ free \subseteq Desc
  /\ chain \in Seq(Desc) /\ Len(chain) <= 3
  /\ desc \in [Desc -> Entry]
  /\ avail \in [idx : Idx, ring : [Desc -> Desc]]
  /\ status \in {"FF", "OK", "IOERR"}
  /\ result \in {"none", "Ok", "Err"}
  /\ devIdx \in Idx
  /\ \A t \in taken : t.entries \in Seq(Entry) /\ t.done \in BOOLEAN

Init ==
  /\ pc = "new"
  /\ call = 0
  /\ free = {}
  /\ chain = <<>>
  /\ desc = [d \in Desc |-> [to |-> "none", call |-> 0, next |-> 0]]
  /\ avail = [idx |-> 0, ring |-> [d \in Desc |-> 0]]
  /\ status = "FF"
  /\ result = "none"
  /\ devIdx = 0
  /\ taken = {}

-----------------------------------------------------------------------------
(* The driver *)

\* new() finds the device and sets up the queue, or finds a device that it cannot
\* drive, and there is no driver.
New(ok) ==
  /\ pc = "new"
  /\ pc' = IF ok THEN "idle" ELSE "none"
  /\ free' = IF ok THEN Desc ELSE {}
  /\ UNCHANGED <<call, chain, desc, avail, status, result, devIdx, taken>>

\* allocate_descriptor takes the lowest free one.
Lowest(S) == CHOOSE d \in S : \A e \in S : d <= e

\* The descriptors that three calls of allocate_descriptor return.
Allocated(S, n) ==
  LET a == Lowest(S)  b == Lowest(S \ {a})  c == Lowest(S \ {a, b}) IN
  CASE n = 0 -> <<>> [] n = 1 -> <<a>> [] n = 2 -> <<a, b>> [] OTHER -> <<a, b, c>>

Members(s) == {s[i] : i \in DOMAIN s}

\* A block address or a length that is not a multiple of 512.
Unaligned ==
  /\ pc = "idle"
  /\ result' = "Err"
  /\ UNCHANGED <<pc, call, free, chain, desc, avail, status, devIdx, taken>>

\* The three descriptors of a request are allocated and filled in.  The call fails
\* when one of them cannot be had, and keeps those that it got.
Prepare ==
  LET n == IF Cardinality(free) < 3 THEN Cardinality(free) ELSE 3
      c == Allocated(free, n)
      new == 1 - call
  IN
  /\ pc = "idle"
  /\ free' = free \ Members(c)
  /\ IF n < 3
       THEN result' = "Err" /\ UNCHANGED <<pc, call, chain, desc, status>>
       ELSE /\ pc' = "ring"
            /\ call' = new
            /\ chain' = c
            /\ desc' = [desc EXCEPT
                          ![c[1]] = [to |-> "request", call |-> new, next |-> c[2]],
                          ![c[2]] = [to |-> "buffer", call |-> new, next |-> c[3]],
                          ![c[3]] = [@ EXCEPT !.to = "status", !.call = new]]
            /\ status' = "FF"
            /\ UNCHANGED result
  /\ UNCHANGED <<avail, devIdx, taken>>

PutRing ==
  /\ pc = "ring"
  /\ pc' = "idx"
  /\ avail' = [avail EXCEPT !.ring[avail.idx % NumDesc] = chain[1]]
  /\ UNCHANGED <<call, free, chain, desc, result, status, devIdx, taken>>

PutIdx ==
  /\ pc = "idx"
  /\ IF OverflowChecks /\ avail.idx = IdxMod - 1
       THEN pc' = "panic" /\ UNCHANGED avail
       ELSE pc' = "notify" /\ avail' = [avail EXCEPT !.idx = (@ + 1) % IdxMod]
  /\ UNCHANGED <<call, free, chain, desc, result, status, devIdx, taken>>

Notify ==
  /\ pc = "notify"
  /\ pc' = "wait"
  /\ UNCHANGED <<call, free, chain, desc, avail, result, status, devIdx, taken>>

\* Mutant: the wait is given up.
ReturnGivesUp ==
  /\ pc = "wait"
  /\ free' = free \cup Members(chain)
  /\ result' = IF status = "OK" THEN "Ok" ELSE "Err"
  /\ pc' = "idle"
  /\ UNCHANGED <<call, chain, desc, avail, status, devIdx, taken>>

\* Mutant: it waits for success.
ReturnOkOnly ==
  /\ pc = "wait"
  /\ status = "OK"
  /\ free' = free \cup Members(chain)
  /\ result' = "Ok"
  /\ pc' = "idle"
  /\ UNCHANGED <<call, chain, desc, avail, status, devIdx, taken>>

\* The spin loop ends: the descriptors are freed.
Return ==
  /\ pc = "wait"
  /\ status # "FF"
  /\ free' = free \cup Members(chain)
  /\ result' = IF status = "OK" THEN "Ok" ELSE "Err"
  /\ pc' = "idle"
  /\ UNCHANGED <<call, chain, desc, avail, status, devIdx, taken>>

-----------------------------------------------------------------------------
(* The device *)

\* It takes the next available chain and reads the descriptors.
DevTake ==
  LET head == avail.ring[devIdx % NumDesc]
      d1 == desc[head]  d2 == desc[d1.next]  d3 == desc[d2.next]
  IN
  /\ devIdx # avail.idx
  /\ devIdx' = (devIdx + 1) % IdxMod
  /\ taken' = taken \cup {[entries |-> <<d1, d2, d3>>, done |-> FALSE]}
  /\ UNCHANGED <<driver, status>>

\* It has read or written the buffer, or failed to, and writes the status byte.
DevStatus(t, s) ==
  /\ ~t.done
  /\ status' = s
  /\ taken' = (taken \ {t}) \cup {[t EXCEPT !.done = TRUE]}
  /\ UNCHANGED <<driver, devIdx>>

\* It puts the chain into the used ring, which the driver does not read.
DevUsed(t) ==
  /\ t.done
  /\ taken' = taken \ {t}
  /\ UNCHANGED <<driver, status, devIdx>>

-----------------------------------------------------------------------------

Driver ==
  \/ \E ok \in BOOLEAN : New(ok)
  \/ Unaligned \/ Prepare \/ PutRing \/ PutIdx \/ Notify \/ Return

Device ==
  \/ DevTake
  \/ \E t \in taken : (\E s \in {"OK", "IOERR"} : DevStatus(t, s)) \/ DevUsed(t)

Next == Driver \/ Device

Spec == Init /\ [][Next]_vars

-----------------------------------------------------------------------------
(* Properties *)

Busy == pc \in {"ring", "idx", "notify", "wait"}

\* TakesOwn: what the device is working on is the request of the running call: a
\* header, a buffer and a status byte that all belong to it, so the device never
\* uses an address on a stack frame that is gone.
TakesOwn ==
  \A t \in taken : ~t.done =>
    /\ Busy
    /\ \A i \in 1 .. 3 : t.entries[i].call = call
    /\ <<t.entries[1].to, t.entries[2].to, t.entries[3].to>> = <<"request", "buffer", "status">>

=============================================================================
