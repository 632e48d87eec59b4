------------------------------- MODULE Mutex -------------------------------
(***************************************************************************)
(* The interrupt-masking spin lock of src/mutex.rs and the way the         *)
(* hypervisor's code nests it.                                             *)
(*                                                                         *)
(* Every CPU runs a stack of contexts.  Context 0 is the code that main()  *)
(* runs; an IRQ that is taken pushes the next one, which runs irq_handler  *)
(* with IRQs masked (the exception entry sets PSTATE.I) and whose eret     *)
(* restores the mask of the code it interrupted.  A context may hold       *)
(* several guards, which it drops in the reverse order of their creation,  *)
(* as Rust drops locals and temporaries.  It may ask for any mutex at any  *)
(* time, one it already holds included: lock() does not look at who holds  *)
(* the mutex, and main() does ask for PL011_DEVICE twice (main.rs, 257 and *)
(* the log_warn! of 522).                                                  *)
(*                                                                         *)
(* The mask is one Boolean per CPU (TRUE: IRQs masked): DAIF is saved and  *)
(* restored as a whole, and of its bits only I changes after the boot.     *)
(***************************************************************************)
EXTENDS Naturals, Sequences, FiniteSets

CONSTANTS
  Cpu,       \* the CPUs that execute the hypervisor
  Locks,     \* the static Mutex objects
  Rank,      \* an order of the mutexes, for the property about circular waits
  MaxDepth,  \* bound: contexts that may be stacked on top of main's
  MaxNest    \* bound: guards that one context holds at a time

ASSUME CpuAssumption   == Cpu # {}
ASSUME LocksAssumption == Locks # {} /\ IsFiniteSet(Locks)
ASSUME RankAssumption  == Rank \in [Locks -> Nat]
ASSUME DepthAssumption == MaxDepth \in Nat \ {0}
ASSUME NestAssumption  == MaxNest \in Nat

VARIABLES
  locked,   \* Mutex.lock: the AtomicBool of every mutex
  masked,   \* the I bit of DAIF of every CPU
  enabled,  \* whether main() of that CPU has run enable_irq()
  depth,    \* index of the running context of every CPU
  pc,       \* where every context is in lock() or drop()
  want,     \* the mutex the context is locking or unlocking
  state,    \* the local variable `state` of lock() and the field of the guard
            \* that drop() is consuming
  guards    \* the MutexGuards of every context, oldest first

vars == <<locked, masked, enabled, depth, pc, want, state, guards>>

Level == 0 .. MaxDepth
Ctx   == Cpu \X Level
Guard == [lock : Locks, state : BOOLEAN]

\* The running context of CPU c.
Run(c) == <<c, depth[c]>>

\* Steps of lock() and drop() at which a context can be interrupted.
Pc == {"run",      \* outside lock() and drop()
       "spin",     \* lock() is in its while loop
       "disable",  \* lock() has read false and is about to mask IRQs
       "cas",      \* lock() is about to execute the compare_exchange
       "retry",    \* lock() is about to restore DAIF after a failed exchange
       "restore"}  \* drop() has cleared the flag and is about to restore DAIF

TypeOK ==
  /\ locked  \in [Locks -> BOOLEAN]
  /\ masked  \in [Cpu -> BOOLEAN]
  /\ enabled \in [Cpu -> BOOLEAN]
  /\ depth   \in [Cpu -> Level]
  /\ pc      \in [Ctx -> Pc]
  /\ want    \in [Ctx -> Locks]
  /\ state   \in [Ctx -> BOOLEAN]
  /\ guards  \in [Ctx -> Seq(Guard)]

\* The firmware starts main() with IRQs masked and every mutex unlocked.
Init ==
  /\ locked  = [l \in Locks |-> FALSE]
  /\ masked  = [c \in Cpu |-> TRUE]
  /\ enabled = [c \in Cpu |-> FALSE]
  /\ depth   = [c \in Cpu |-> 0]
  /\ pc      = [x \in Ctx |-> "run"]
  /\ want    = [x \in Ctx |-> CHOOSE l \in Locks : TRUE]
  /\ state   = [x \in Ctx |-> FALSE]
  /\ guards  = [x \in Ctx |-> <<>>]

-----------------------------------------------------------------------------
(* lock() *)

\* The running code calls lock() on mutex l.
Call(c, l) ==
  LET x == Run(c) IN
  /\ pc[x] = "run"
  /\ Len(guards[x]) < MaxNest
  /\ pc'   = [pc EXCEPT ![x] = "spin"]
  /\ want' = [want EXCEPT ![x] = l]
  /\ UNCHANGED <<locked, masked, enabled, depth, state, guards>>

\* The while loop of lock() ends: the flag was read as false.
SpinEnd(c) ==
  LET x == Run(c) IN
  /\ pc[x] = "spin"
  /\ ~locked[want[x]]
  /\ pc' = [pc EXCEPT ![x] = "disable"]
  /\ UNCHANGED <<locked, masked, enabled, depth, want, state, guards>>

\* Mutant: DAIF is saved but IRQs stay as they are.
DisableSaveOnly(c) ==
  LET x == Run(c) IN
  /\ pc[x] = "disable"
  /\ state' = [state EXCEPT ![x] = masked[c]]
  /\ pc'    = [pc EXCEPT ![x] = "cas"]
  /\ UNCHANGED <<locked, masked, enabled, depth, want, guards>>

\* disable_interrupts(): save DAIF, mask IRQs.
Disable(c) ==
  LET x == Run(c) IN
  /\ pc[x] = "disable"
  /\ state'  = [state EXCEPT ![x] = masked[c]]
  /\ masked' = [masked EXCEPT ![c] = TRUE]
  /\ pc'     = [pc EXCEPT ![x] = "cas"]
  /\ UNCHANGED <<locked, enabled, depth, want, guards>>

\* Mutant: a plain store takes the place of the compare_exchange.
PlainStore(c) ==
  LET x == Run(c) IN
  /\ pc[x] = "cas"
  /\ locked' = [locked EXCEPT ![want[x]] = TRUE]
  /\ guards' = [guards EXCEPT ![x] =
                  Append(@, [lock |-> want[x], state |-> state[x]])]
  /\ pc'     = [pc EXCEPT ![x] = "run"]
  /\ UNCHANGED <<masked, enabled, depth, want, state>>

\* The compare_exchange succeeds: lock() returns the guard.
CasOk(c) ==
  LET x == Run(c) IN
  /\ pc[x] = "cas"
  /\ ~locked[want[x]]
  /\ locked' = [locked EXCEPT ![want[x]] = TRUE]
  /\ guards' = [guards EXCEPT ![x] =
                  Append(@, [lock |-> want[x], state |-> state[x]])]
  /\ pc'     = [pc EXCEPT ![x] = "run"]
  /\ UNCHANGED <<masked, enabled, depth, want, state>>

\* The compare_exchange fails: restore DAIF and spin again.
CasFail(c) ==
  LET x == Run(c) IN
  /\ pc[x] = "cas"
  /\ locked[want[x]]
  /\ pc' = [pc EXCEPT ![x] = "retry"]
  /\ UNCHANGED <<locked, masked, enabled, depth, want, state, guards>>

\* Mutant: IRQs are enabled, whatever state was saved.
RestoreEnables(c) ==
  LET x == Run(c) IN
  /\ pc[x] \in {"retry", "restore"}
  /\ masked' = [masked EXCEPT ![c] = FALSE]
  /\ pc'     = [pc EXCEPT ![x] = IF @ = "retry" THEN "spin" ELSE "run"]
  /\ UNCHANGED <<locked, enabled, depth, want, state, guards>>

\* Mutant: after a failed exchange lock() spins again without restoring DAIF.
RestoreInDropOnly(c) ==
  LET x == Run(c) IN
  /\ pc[x] \in {"retry", "restore"}
  /\ masked' = [masked EXCEPT ![c] = IF pc[x] = "retry" THEN @ ELSE state[x]]
  /\ pc'     = [pc EXCEPT ![x] = IF @ = "retry" THEN "spin" ELSE "run"]
  /\ UNCHANGED <<locked, enabled, depth, want, state, guards>>

\* restore_interrupts(state): at the end of the loop body of lock(), which then
\* spins again, and at the end of drop().
Restore(c) ==
  LET x == Run(c) IN
  /\ pc[x] \in {"retry", "restore"}
  /\ masked' = [masked EXCEPT ![c] = state[x]]
  /\ pc'     = [pc EXCEPT ![x] = IF @ = "retry" THEN "spin" ELSE "run"]
  /\ UNCHANGED <<locked, enabled, depth, want, state, guards>>

-----------------------------------------------------------------------------
(* Drop for MutexGuard: release the flag, then restore DAIF. *)

\* Mutant: DAIF is restored but the flag stays set.
DropKeepsFlag(c) ==
  LET x == Run(c)
      n == Len(guards[x])
  IN
  /\ pc[x] = "run"
  /\ n > 0
  /\ state'  = [state EXCEPT ![x] = guards[x][n].state]
  /\ guards' = [guards EXCEPT ![x] = SubSeq(@, 1, n - 1)]
  /\ pc'     = [pc EXCEPT ![x] = "restore"]
  /\ UNCHANGED <<locked, masked, enabled, depth, want>>

Drop(c) ==
  LET x == Run(c)
      n == Len(guards[x])
  IN
  /\ pc[x] = "run"
  /\ n > 0
  /\ locked' = [locked EXCEPT ![guards[x][n].lock] = FALSE]
  /\ state'  = [state EXCEPT ![x] = guards[x][n].state]
  /\ guards' = [guards EXCEPT ![x] = SubSeq(@, 1, n - 1)]
  /\ pc'     = [pc EXCEPT ![x] = "restore"]
  /\ UNCHANGED <<masked, enabled, depth, want>>

-----------------------------------------------------------------------------
(* Interrupts *)

\* main() calls enable_irq(), holding no guard.
EnableIrq(c) ==
  LET x == Run(c) IN
  /\ depth[c] = 0
  /\ ~enabled[c]
  /\ pc[x] = "run"
  /\ guards[x] = <<>>
  /\ enabled' = [enabled EXCEPT ![c] = TRUE]
  /\ masked'  = [masked EXCEPT ![c] = FALSE]
  /\ UNCHANGED <<locked, depth, pc, want, state, guards>>

\* An unmasked IRQ is taken between two instructions of the running context.
TakeIrq(c) ==
  /\ ~masked[c]
  /\ depth[c] < MaxDepth
  /\ depth'  = [depth EXCEPT ![c] = @ + 1]
  /\ masked' = [masked EXCEPT ![c] = TRUE]
  /\ UNCHANGED <<locked, enabled, pc, want, state, guards>>

\* irq_handler returns and eret unmasks what the exception entry masked.
Eret(c) ==
  LET x == Run(c) IN
  /\ depth[c] > 0
  /\ pc[x] = "run"
  /\ guards[x] = <<>>
  /\ depth'  = [depth EXCEPT ![c] = @ - 1]
  /\ masked' = [masked EXCEPT ![c] = FALSE]
  /\ UNCHANGED <<locked, enabled, pc, want, state, guards>>

-----------------------------------------------------------------------------

LockSteps(c) ==
  \/ SpinEnd(c) \/ Disable(c) \/ CasOk(c) \/ CasFail(c) \/ Restore(c)

Next ==
  \E c \in Cpu :
    \/ \E l \in Locks : Call(c, l)
    \/ LockSteps(c)
    \/ Drop(c)
    \/ EnableIrq(c)
    \/ TakeIrq(c)
    \/ Eret(c)

Spec == Init /\ [][Next]_vars

-----------------------------------------------------------------------------
(* Properties *)

Holds(x, l) == \E i \in 1 .. Len(guards[x]) : guards[x][i].lock = l

\* Exclusive: a mutex is referenced by at most one guard in the whole system,
\* across CPUs, across the contexts stacked on one CPU and within one context
\* (the exclusive `&mut T` that lock() hands out depends on it), and the
\* AtomicBool is set exactly while that guard lives.
Exclusive ==
  /\ \A x, y \in Ctx :
       \A i \in 1 .. Len(guards[x]), j \in 1 .. Len(guards[y]) :
         guards[x][i].lock = guards[y][j].lock => x = y /\ i = j
  /\ \A l \in Locks : locked[l] <=> \E x \in Ctx : Holds(x, l)

\* MaskedWhileHeld: IRQs are masked on a CPU as long as any context on it holds
\* a guard, also between the release of a nested guard and the write of its
\* saved DAIF, so an interrupted context never holds a mutex.
MaskedWhileHeld ==
  \A c \in Cpu : \A d \in Level :
    guards[<<c, d>>] # <<>> => masked[c] /\ depth[c] = d

\* NoNestedIrq: restoring a guard's saved state inside irq_handler never
\* unmasks IRQs, so no second handler starts on top of a running one.
NoNestedIrq == \A c \in Cpu : depth[c] <= 1 /\ (depth[c] = 1 => masked[c])

\* MaskRestored: outside lock() and drop() and without guards, the running
\* context has the mask it would have if it had never used a mutex: masked in a
\* handler and before enable_irq(), unmasked in main() after it.
MaskRestored ==
  \A c \in Cpu :
    pc[Run(c)] = "run" /\ guards[Run(c)] = <<>> =>
      masked[c] = (depth[c] > 0 \/ ~enabled[c])

\* Where a context is between its call of lock() and the guard.
Waiting == {"spin", "disable", "cas", "retry"}

\* HandlerNeverBlocked: the running context never waits for a mutex that a context
\* it has interrupted holds, which could not run to release it: the spin of lock()
\* with IRQs unmasked, the mask taken before the exchange and its return after a
\* failed one leave no instruction at which a holder can be interrupted.  (A context
\* that locks a mutex it holds itself does spin for ever.)
HandlerNeverBlocked ==
  \A c \in Cpu : \A d \in Level :
    pc[Run(c)] \in Waiting /\ d # depth[c] =>
      ~Holds(<<c, d>>, want[Run(c)])

\* What context x holds ranks below the mutex it asks for.
Above(x) == \A i \in 1 .. Len(guards[x]) : Rank[guards[x][i].lock] < Rank[want[x]]

\* NotAllSpinning: CPUs that nest the mutexes in one order never wait for each
\* other in a circle.  When every CPU is in the while loop of lock(), each for a
\* mutex above those its running context holds, one of them waits for a mutex that
\* is free and leaves the loop.  The contexts they interrupted hold nothing and
\* nobody else can.
NotAllSpinning ==
  (\A c \in Cpu : pc[Run(c)] = "spin" /\ Above(Run(c))) =>
    \E c \in Cpu : ~locked[want[Run(c)]]

-----------------------------------------------------------------------------
(* The inductive invariant behind the safety properties. *)

Masking == {"cas", "retry", "restore"}

\* The mask context d of CPU c has outside lock(), drop() and critical sections.
Base(c) == depth[c] > 0 \/ ~enabled[c]

\* What the running context saved, or will restore when it holds no guard.
SavedBy(c, n) == n > 0 \/ Base(c)

\* Nobody but the running context of a CPU is inside a critical section.
SuspendedInv ==
  \A c \in Cpu, d \in Level :
    d # depth[c] =>
      /\ guards[<<c, d>>] = <<>>
      /\ pc[<<c, d>>] \notin Masking
      /\ d > depth[c] => pc[<<c, d>>] = "run"

\* What the mask of a CPU is at every point of its running context.
MaskInv ==
  \A c \in Cpu :
    /\ pc[Run(c)] \in Masking => masked[c]
    /\ pc[Run(c)] \notin Masking =>
         (masked[c] <=> SavedBy(c, Len(guards[Run(c)])))

\* What the saved states are: the oldest guard saved the mask of the context,
\* the others were created with IRQs masked.
SavedInv ==
  \A c \in Cpu :
    /\ pc[Run(c)] \in Masking =>
         (state[Run(c)] <=> SavedBy(c, Len(guards[Run(c)])))
    /\ \A i \in 1 .. Len(guards[Run(c)]) :
         guards[Run(c)][i].state <=> SavedBy(c, i - 1)

\* Interrupts are taken only in main() and only after enable_irq().
DepthInv == \A c \in Cpu : depth[c] <= 1 /\ (depth[c] = 1 => enabled[c])

IInv ==
  /\ TypeOK
  /\ Exclusive
  /\ SuspendedInv
  /\ MaskInv
  /\ SavedInv
  /\ DepthInv
=============================================================================
