------------------------------ MODULE MCMutex ------------------------------
(* Instances of Mutex for TLC. *)
EXTENDS Mutex, TLC, FiniteSets

CONSTANTS c1, c2, SERIAL_DEVICE, PL011_DEVICE

TwoCpus == {c1, c2}

MCLocks == {SERIAL_DEVICE, PL011_DEVICE}

\* print() holds SERIAL_DEVICE while write_str locks PL011_DEVICE.
MCRank == (SERIAL_DEVICE :> 1) @@ (PL011_DEVICE :> 2)

CpuSymmetry == Permutations(TwoCpus)
=============================================================================
