------------------------------ MODULE MCVgicV3 ------------------------------
(* Instances of VgicV3 for TLC. *)
EXTENDS VgicV3

Uart        == {33}
UartAndDisk == {33, 40}
=============================================================================
