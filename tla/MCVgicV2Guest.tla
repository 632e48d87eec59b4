--------------------------- MODULE MCVgicV2Guest ---------------------------
(* An instance of VgicV2Guest for TLC. *)
EXTENDS VgicV2Guest

Keys == {0, 1, 2}
=============================================================================
