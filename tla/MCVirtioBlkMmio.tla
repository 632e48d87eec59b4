-------------------------- MODULE MCVirtioBlkMmio --------------------------
(* Instances of VirtioBlkMmio for TLC. *)
EXTENDS VirtioBlkMmio

Fine      == [header |-> "valid", segs |-> <<"ok", "ok">>, status |-> "mapped"]
Failing   == [header |-> "valid", segs |-> <<"fail", "ok">>, status |-> "mapped"]
Unmapped  == [header |-> "valid", segs |-> <<"unmapped", "ok">>, status |-> "mapped"]
NoStatus  == [header |-> "valid", segs |-> <<"ok">>, status |-> "unmapped"]
Malformed == [header |-> "invalid", segs |-> <<"ok">>, status |-> "mapped"]

AllChains   == {Fine, Failing, Unmapped, NoStatus, Malformed}
FineChains  == {Fine}
=============================================================================
