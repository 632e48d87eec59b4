-------------------------------- MODULE Fat32 --------------------------------
(***************************************************************************)
(* Fat32::read and Fat32::write of src/fat32.rs: the loops that turn a     *)
(* range of a file into transfers of consecutive sectors.                  *)
(*                                                                         *)
(* One behaviour is one call.  Bytes are named by their address on the     *)
(* disk, so a transfer is a function from offsets in the caller's buffer   *)
(* to disk addresses, and read and write differ in their checks only.  A   *)
(* file is the sequence of its clusters.                                   *)
(***************************************************************************)
EXTENDS Integers, Sequences

CONSTANTS
  SectorSize,         \* bytes_per_sector
  SectorsPerCluster,
  FirstSector,        \* reserved_sectors + number_of_fats * fat_sectors
  Requests            \* the calls: mode, clusters, size, offset, length

ASSUME GeometryAssumption ==
  /\ SectorSize \in Nat \ {0} /\ SectorsPerCluster \in Nat \ {0}
  /\ FirstSector \in Nat

ClusterSize == SectorSize * SectorsPerCluster

\* A file has the clusters that its size needs, and the clusters of a file differ.  A
\* guest may ask for nothing: a segment of length 0 gets here.
ASSUME RequestAssumption ==
  \A r \in Requests :
    /\ r.mode \in {"read", "write"}
    /\ r.clusters \in Seq(Nat)
    /\ \A i, j \in DOMAIN r.clusters : r.clusters[i] >= 2 /\ (i # j => r.clusters[i] # r.clusters[j])
    /\ r.size \in 1 .. Len(r.clusters) * ClusterSize
    /\ r.offset \in Nat /\ r.length \in Nat

VARIABLES
  req,      \* the arguments
  pc,       \* "start", "outer", "inner", "transfer", "ok" or "err"
  length,   \* the length, cut at the end of the file
  dataOff,  \* data_offset
  backup,   \* data_offset_backup
  cluster,  \* reading_cluster, writing_cluster
  first,    \* first_cluster
  sectors, bytes, secOff,  \* sectors, read_bytes, sector_offset
  bufPtr,   \* buffer_pointer
  moved     \* buffer offset -> disk address of the bytes transferred so far

vars == <<req, pc, length, dataOff, backup, cluster, first, sectors, bytes, secOff,
          bufPtr, moved>>

run  == <<first, sectors, bytes, secOff, backup>>  \* the variables of one transfer

TypeOK ==
  /\ req \in Requests
  /\ pc \in {"start", "outer", "inner", "transfer", "ok", "err"}
  /\ {length, dataOff, backup, cluster, first, sectors, bytes, secOff, bufPtr} \subseteq Nat
  /\ \A i \in DOMAIN moved : i \in Nat /\ moved[i] \in Nat

cluster_to_sector(c) == FirstSector + (c - 2) * SectorsPerCluster

\* get_next_cluster; 0 is None.
NextCluster(c) ==
  LET i == CHOOSE i \in DOMAIN req.clusters : req.clusters[i] = c IN
  IF i < Len(req.clusters) THEN req.clusters[i + 1] ELSE 0

Init ==
  /\ req \in Requests
  /\ pc = "start"
  /\ length = req.length
  /\ dataOff = 0 /\ backup = 0
  /\ cluster = 0 /\ first = 0
  /\ sectors = 0 /\ bytes = 0 /\ secOff = 0
  /\ bufPtr = 0
  /\ moved = <<>>

-----------------------------------------------------------------------------

\* Nothing to do behind the end of the file; what ends with the file is not behind it.
BehindEnd == req.offset + req.length > req.size /\ req.offset >= req.size

StartBehindEnd ==
  /\ pc = "start" /\ BehindEnd
  /\ pc' = "ok"
  /\ UNCHANGED <<req, length, dataOff, cluster, run, bufPtr, moved>>

\* The first cluster of the range.
FirstIndex(r) == 1 + (r.offset \div ClusterSize)

\* Cut the length at the end of the file and skip to the cluster of the offset.
Start ==
  /\ pc = "start" /\ ~BehindEnd /\ FirstIndex(req) <= Len(req.clusters)
  /\ length' = IF req.offset + req.length > req.size THEN req.size - req.offset ELSE req.length
  /\ dataOff' = req.offset % ClusterSize
  /\ cluster' = req.clusters[FirstIndex(req)]
  /\ pc' = "outer"
  /\ UNCHANGED <<req, run, bufPtr, moved>>

\* The skipping comes to the end of the chain.
StartOffChain ==
  /\ pc = "start" /\ ~BehindEnd /\ FirstIndex(req) > Len(req.clusters)
  /\ pc' = "err"
  /\ UNCHANGED <<req, length, dataOff, cluster, run, bufPtr, moved>>

\* The head of the loop over transfers.
Outer ==
  /\ pc = "outer"
  /\ sectors' = 0 /\ bytes' = 0 /\ secOff' = 0
  /\ first' = cluster
  /\ backup' = dataOff
  /\ pc' = "inner"
  /\ UNCHANGED <<req, length, dataOff, cluster, bufPtr, moved>>

\* Mutant: the last sector is never written.
ShortOrLast == req.mode = "write" /\ length - bytes <= SectorSize

\* The inner loop, which collects consecutive sectors.  write wants at least one
\* sector more to write.
Short == req.mode = "write" /\ length - bytes < SectorSize

InnerShort ==
  /\ pc = "inner" /\ Short
  /\ pc' = "err"
  /\ UNCHANGED <<req, length, dataOff, cluster, run, bufPtr, moved>>

\* The whole sectors in front of the data are skipped.
Skips       == dataOff > SectorSize
SkipSectors == IF Skips THEN dataOff \div SectorSize ELSE secOff
SkipRest    == IF Skips THEN dataOff % SectorSize ELSE dataOff

\* Mutant: data_offset_backup keeps the skipped sectors.
SkipBackupWhole == backup

SkipBackup == IF Skips THEN dataOff % SectorSize ELSE backup

\* What is left fits into one cluster.  With nothing left it still counts as a byte.
Fits == length - bytes + SkipRest <= ClusterSize

Left == IF length - bytes + SkipRest = 0 THEN 1 ELSE length - bytes + SkipRest

\* Mutant: the rounding up to sectors is off by one.
InnerLastExtra ==
  /\ pc = "inner" /\ ~Short /\ Fits
  /\ secOff' = SkipSectors /\ dataOff' = SkipRest /\ backup' = SkipBackup
  /\ sectors' = sectors + 1 + (Left \div SectorSize)
  /\ bytes' = length
  /\ pc' = "transfer"
  /\ UNCHANGED <<req, length, cluster, first, bufPtr, moved>>

InnerLast ==
  /\ pc = "inner" /\ ~Short /\ Fits
  /\ secOff' = SkipSectors /\ dataOff' = SkipRest /\ backup' = SkipBackup
  /\ sectors' = sectors + 1 + ((Left - 1) \div SectorSize)
  /\ bytes' = length
  /\ pc' = "transfer"
  /\ UNCHANGED <<req, length, cluster, first, bufPtr, moved>>

\* A whole cluster; the loop goes on if the next one is adjacent.
InnerCluster ==
  LET next == NextCluster(cluster) IN
  /\ pc = "inner" /\ ~Short /\ ~Fits
  /\ secOff' = SkipSectors /\ backup' = SkipBackup
  /\ sectors' = sectors + SectorsPerCluster
  /\ bytes' = bytes + ClusterSize - SkipRest
  /\ pc' = IF next = 0 THEN "err" ELSE IF next = cluster + 1 THEN "inner" ELSE "transfer"
  /\ dataOff' = IF next = cluster + 1 THEN 0 ELSE SkipRest
  /\ cluster' = IF next = cluster + 1 THEN next ELSE cluster
  /\ UNCHANGED <<req, length, first, bufPtr, moved>>

\* read_sectors or write_sectors of the collected sectors.  With an offset into the
\* first sector, read goes through a buffer of its own and copies what was asked
\* for, and write refuses.
DiskAddress == (cluster_to_sector(first) + secOff) * SectorSize

Copied ==
  IF backup # 0 THEN [i \in 0 .. bytes - 1 |-> DiskAddress + backup + i]
  ELSE [i \in bufPtr .. bufPtr + sectors * SectorSize - 1 |-> DiskAddress + i - bufPtr]

Arrived == [i \in DOMAIN Copied \cup DOMAIN moved |->
              IF i \in DOMAIN Copied THEN Copied[i] ELSE moved[i]]

\* What follows a successful transfer.
Advance ==
  LET next == NextCluster(cluster) IN
  /\ pc = "transfer"
  /\ req.mode = "read" \/ backup = 0
  /\ bufPtr' = bufPtr + bytes
  /\ dataOff' = 0
  /\ IF bufPtr' = length
       THEN pc' = "ok" /\ UNCHANGED cluster
       ELSE /\ pc' = IF next = 0 THEN "err" ELSE "outer"
            /\ cluster' = IF next = 0 THEN cluster ELSE next
  /\ UNCHANGED <<req, length, run>>

\* The transfer as one step; module Storage has it done by the driver and the disk.
Transfer == Advance /\ moved' = Arrived

TransferUnaligned ==
  /\ pc = "transfer"
  /\ req.mode = "write" /\ backup # 0
  /\ pc' = "err"
  /\ UNCHANGED <<req, length, dataOff, cluster, run, bufPtr, moved>>

\* The disk reports an error, or there is no memory for the buffer.
TransferFails ==
  /\ pc = "transfer"
  /\ req.mode = "read" \/ backup = 0
  /\ pc' = "err"
  /\ UNCHANGED <<req, length, dataOff, cluster, run, bufPtr, moved>>

Compute ==
  \/ StartBehindEnd \/ Start \/ StartOffChain \/ Outer
  \/ InnerShort \/ InnerLast \/ InnerCluster \/ TransferUnaligned

Next == Compute \/ Transfer \/ TransferFails

Spec == Init /\ [][Next]_vars

-----------------------------------------------------------------------------
(* The requests that the loops can serve.  A transfer after the first compares *)
(* its bytes with the whole length again, so it ends at a gap in the chain     *)
(* only, and a sector that is skipped counts as read.                          *)

End(r) == IF r.offset + r.length > r.size THEN r.size ELSE r.offset + r.length

\* The last cluster of the range.
LastIndex(r) == 1 + ((End(r) - 1) \div ClusterSize)

\* One transfer: the clusters of the range are adjacent.
Adjacent(r) ==
  \A i \in FirstIndex(r) .. LastIndex(r) :
    r.clusters[i] = r.clusters[FirstIndex(r)] + (i - FirstIndex(r))

\* Several: the range ends with a cluster that a distant one follows, and no sector is
\* skipped in its first one.
EndsAtGap(r) ==
  /\ End(r) % ClusterSize = 0
  /\ LastIndex(r) < Len(r.clusters)
  /\ r.clusters[LastIndex(r) + 1] # r.clusters[LastIndex(r)] + 1
  /\ r.offset % ClusterSize <= SectorSize

CanServe(r) == Adjacent(r) \/ EndsAtGap(r)

-----------------------------------------------------------------------------
(* Properties *)

\* Where the FAT puts the i-th byte of the file.
FileByte(i) ==
  cluster_to_sector(req.clusters[1 + (i \div ClusterSize)]) * SectorSize + (i % ClusterSize)

\* DataExact: what has been transferred so far is what was asked for: byte i of the
\* buffer belongs to byte offset + i of the file, and nothing in between is missed.
DataExact ==
  /\ \A i \in 0 .. bufPtr - 1 :
       i \in DOMAIN moved /\ moved[i] = FileByte(req.offset + i)
  /\ pc = "ok" => bufPtr = IF req.offset >= req.size THEN 0 ELSE length

\* WithinSector: at most the rest of the last sector is transferred beyond the
\* length that was asked for; a call for nothing transfers one sector.
WithinSector ==
  \A i \in DOMAIN moved :
    i < (IF length = 0 THEN 1 ELSE (length + SectorSize - 1) \div SectorSize) * SectorSize
=============================================================================
