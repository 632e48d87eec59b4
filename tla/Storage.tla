------------------------------- MODULE Storage -------------------------------
(***************************************************************************)
(* File access on the host's disk: Fat32::read and Fat32::write of         *)
(* src/fat32.rs, whose transfers are calls of operation_sync of            *)
(* src/drivers/virtio_blk.rs, and the disk, which moves the data between   *)
(* the caller's buffer and its sectors on its own time.  Calls follow each *)
(* other: the rings and the descriptors are those that the last call left. *)
(***************************************************************************)
EXTENDS Fat32

CONSTANTS
  NumDesc, IdxMod, OverflowChecks,  \* see VirtioBlkDriver
  Later                             \* the calls that follow the first one

ASSUME RingAssumption ==
  /\ NumDesc \in Nat /\ NumDesc >= 3
  /\ IdxMod \in Nat /\ IdxMod > NumDesc /\ IdxMod % NumDesc = 0
  /\ OverflowChecks \in BOOLEAN

ASSUME LaterAssumption == Later \subseteq Requests

VARIABLES dpc, call, free, chain, desc, avail, status, result, devIdx, taken

driver  == <<dpc, call, free, chain, desc, avail, status, result, devIdx, taken>>
allVars == <<vars, driver>>

D == INSTANCE VirtioBlkDriver WITH pc <- dpc

AllInit == Init /\ D!Init

New == \E ok \in BOOLEAN : D!New(ok) /\ UNCHANGED vars

\* The loops, as long as they need no sector.
FileStep == dpc = "idle" /\ Compute /\ UNCHANGED driver

\* The next call of read or write.
NextCall ==
  /\ dpc = "idle" /\ pc \in {"ok", "err"}
  /\ req' \in Later
  /\ pc' = "start"
  /\ length' = req'.length
  /\ dataOff' = 0 /\ backup' = 0
  /\ cluster' = 0 /\ first' = 0
  /\ sectors' = 0 /\ bytes' = 0 /\ secOff' = 0
  /\ bufPtr' = 0
  /\ moved' = <<>>
  /\ UNCHANGED driver

\* read wants memory for its own buffer and gets none.
NoBuffer == dpc = "idle" /\ backup # 0 /\ TransferFails /\ UNCHANGED driver

\* operation_sync, which may find too few descriptors.
Issue ==
  /\ pc = "transfer" /\ (req.mode = "read" \/ backup = 0)
  /\ D!Prepare
  /\ IF dpc' = "idle" THEN TransferFails ELSE UNCHANGED vars

Submit == (D!PutRing \/ D!PutIdx \/ D!Notify) /\ UNCHANGED vars

Finish ==
  /\ D!Return
  /\ IF result' = "Ok"
       THEN Advance /\ moved' = IF backup # 0 THEN Arrived ELSE moved
       ELSE TransferFails

\* The disk moves the data of a transfer that uses the caller's buffer.
DiskMoves ==
  \E t \in taken, s \in {"OK", "IOERR"} :
    /\ D!DevStatus(t, s)
    /\ moved' = IF s = "OK" /\ backup = 0 THEN Arrived ELSE moved
    /\ UNCHANGED <<req, pc, length, dataOff, cluster, run, bufPtr>>

Disk ==
  \/ D!DevTake /\ UNCHANGED vars
  \/ DiskMoves
  \/ \E t \in taken : D!DevUsed(t) /\ UNCHANGED vars

AllNext == New \/ FileStep \/ NextCall \/ NoBuffer \/ Issue \/ Submit \/ Finish \/ Disk

AllSpec == AllInit /\ [][AllNext]_allVars

\* Fairness: a call is not suspended (it runs with nobody to preempt it but an IRQ),
\* and the disk handles what is available.
FairSpec ==
  /\ AllSpec
  /\ WF_allVars(FileStep \/ Issue \/ Submit \/ Finish)
  /\ WF_allVars(D!DevTake /\ UNCHANGED vars)
  /\ WF_allVars(DiskMoves)

-----------------------------------------------------------------------------
(* Properties; see also Fat32 *)

\* TakesOwn: what the disk is working on is the request of the running call: a
\* header, a buffer and a status byte that all belong to it, so the disk never
\* uses an address on a stack frame that is gone.
TakesOwn == D!TakesOwn

\* What write refuses: nothing or not whole sectors, not at a sector boundary or,
\* because the comparison that skips sectors leaves that offset as it is, at the second
\* sector of a cluster.
Refused ==
  /\ req.mode = "write"
  /\ \/ req.offset % SectorSize # 0
     \/ length = 0 \/ length % SectorSize # 0
     \/ req.offset % ClusterSize = SectorSize

\* A call for nothing at the end of a file that fills its last cluster.
EmptyAtEnd ==
  req.length = 0 /\ req.offset = req.size /\ req.size % ClusterSize = 0

\* ErrForCause: a call fails only because the disk failed, for want of memory, because
\* write refuses the range, or because it asks for nothing where no cluster is: a legal
\* call never runs off the cluster chain or out of descriptors, whatever calls came
\* before it.
ErrForCause ==
  [][pc # "err" /\ pc' = "err" =>
       NoBuffer \/ Refused \/ EmptyAtEnd \/ (Finish /\ status = "IOERR")]_allVars

\* Returns: every call of read and write comes to its end, whatever fails in it.
Returns == dpc = "idle" /\ pc = "start" ~> pc \in {"ok", "err"}
=============================================================================
