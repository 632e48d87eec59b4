CONSTANTS
  c1 = c1
  c2 = c2
  SERIAL_DEVICE = SERIAL_DEVICE
  PL011_DEVICE = PL011_DEVICE
  Cpu <- TwoCpus
  Locks <- MCLocks
  Rank <- MCRank
  MaxDepth = 2
  MaxNest = 2
\* A context that locks a mutex it holds spins for ever: the CPUs may stop.
CHECK_DEADLOCK FALSE
SYMMETRY CpuSymmetry
SPECIFICATION Spec
INVARIANTS Exclusive MaskedWhileHeld MaskRestored HandlerNeverBlocked NotAllSpinning
