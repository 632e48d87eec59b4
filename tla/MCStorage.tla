------------------------------ MODULE MCStorage ------------------------------
(* Instances of Storage and Fat32 for TLC: sectors of 2 bytes, 3 sectors per *)
(* cluster.                                                                  *)
EXTENDS Storage

Files == {<<2, 3, 4>>, <<2, 4, 6>>, <<5, 2, 3>>, <<3, 4, 2, 6>>}

AllRequests ==
  [mode : {"read", "write"}, clusters : Files, size : {15, 18}, offset : 0 .. 18, length : 0 .. 18]

ServedRequests == {r \in AllRequests : CanServe(r)}

\* Some of them, of one and of two transfers.
LaterRequests ==
  {r \in ServedRequests : r.size = 18 /\ r.clusters \in {<<2, 3, 4>>, <<2, 4, 6>>}
                           /\ <<r.offset, r.length>> \in {<<0, 12>>, <<1, 5>>, <<8, 4>>}}

\* Reads of two clusters from the start of the file, wherever the clusters lie.
SplitReads ==
  {r \in AllRequests : r.mode = "read" /\ r.offset = 0 /\ r.length > ClusterSize}
=============================================================================
