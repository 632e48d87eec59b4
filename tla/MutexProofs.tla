---------------------------- MODULE MutexProofs ----------------------------
(***************************************************************************)
(* Proofs about the spin lock of src/mutex.rs, for any number of CPUs,     *)
(* mutexes and stacked contexts and any lock order.                        *)
(***************************************************************************)
EXTENDS Mutex, Integers, SequenceTheorems, FiniteSetTheorems, TLAPS

\* Appending a guard to the guards of a context.
LEMMA AppendGuard ==
  ASSUME NEW s \in Seq(Guard), NEW g \in Guard
  PROVE  /\ Append(s, g) \in Seq(Guard)
         /\ Len(Append(s, g)) = Len(s) + 1
         /\ \A i \in 1 .. Len(s) : Append(s, g)[i] = s[i]
         /\ Append(s, g)[Len(s) + 1] = g
         /\ Append(s, g) # <<>>
  OBVIOUS

\* Removing the newest guard of a context.
LEMMA DropGuard ==
  ASSUME NEW s \in Seq(Guard), Len(s) > 0
  PROVE  /\ SubSeq(s, 1, Len(s) - 1) \in Seq(Guard)
         /\ Len(SubSeq(s, 1, Len(s) - 1)) = Len(s) - 1
         /\ \A i \in 1 .. Len(s) - 1 : SubSeq(s, 1, Len(s) - 1)[i] = s[i]
         /\ s[Len(s)] \in Guard
<1> DEFINE n == Len(s) - 1
<1>1. n \in Int /\ 1 \in Int /\ n >= 0
  BY LenProperties
<1>2. \A i \in 1 .. n : s[i] \in Guard
  BY <1>1, ElementOfSeq
<1>3. /\ SubSeq(s, 1, n) \in Seq(Guard)
      /\ Len(SubSeq(s, 1, n)) = IF 1 <= n THEN n - 1 + 1 ELSE 0
      /\ \A i \in 1 .. n - 1 + 1 : SubSeq(s, 1, n)[i] = s[1 + i - 1]
  <2> HIDE DEF n
  <2> QED BY <1>1, <1>2, SubSeqProperties
<1>4. s[Len(s)] \in Guard
  BY LenProperties, ElementOfSeq
<1> HIDE DEF n
<1>5. /\ Len(SubSeq(s, 1, n)) = n
      /\ \A i \in 1 .. n : SubSeq(s, 1, n)[i] = s[i]
  BY <1>1, <1>3
<1>6. QED
  BY <1>3, <1>4, <1>5 DEF n

\* A context has no guard exactly when its sequence of guards has length 0.
LEMMA NoGuard ==
  ASSUME NEW s \in Seq(Guard)
  PROVE  Len(s) \in Nat /\ (s = <<>> <=> Len(s) = 0)
  BY EmptySeq, LenProperties

\* The running context of a CPU is a context, and CPUs share no context.
LEMMA RunCtx ==
  ASSUME TypeOK, NEW c \in Cpu
  PROVE  /\ depth[c] \in Level
         /\ Run(c) \in Ctx
         /\ guards[Run(c)] \in Seq(Guard)
         /\ Len(guards[Run(c)]) \in Nat
  BY NoGuard DEF TypeOK, Ctx, Run

\* A guard of a context is a record of a mutex and a saved mask.
LEMMA GuardFields ==
  ASSUME TypeOK, NEW x \in Ctx, NEW i \in 1 .. Len(guards[x])
  PROVE  /\ guards[x][i] \in Guard
         /\ guards[x][i].lock \in Locks
         /\ guards[x][i].state \in BOOLEAN
<1>1. guards[x] \in Seq(Guard)
  BY DEF TypeOK
<1>2. guards[x][i] \in Guard
  BY <1>1, ElementOfSeq
<1>3. QED
  BY <1>2 DEF Guard

\* Calling lock() starts a wait and changes nothing else.
LEMMA CallStep ==
  ASSUME IInv, NEW c \in Cpu, NEW l \in Locks, Call(c, l)
  PROVE  IInv'
<1> DEFINE x == Run(c)
<1>1. /\ x \in Ctx /\ depth[c] \in Level
      /\ guards[x] \in Seq(Guard) /\ Len(guards[x]) \in Nat
  BY RunCtx DEF IInv
<1>2. TypeOK'
  BY <1>1 DEF IInv, Call, TypeOK, Ctx, Level, Pc, Run
<1>3. Exclusive'
  BY <1>1 DEF IInv, Call, TypeOK, Ctx, Level, Pc, Exclusive, Holds
<1>4. SuspendedInv'
  BY <1>1 DEF IInv, Call, TypeOK, Ctx, Level, Pc, SuspendedInv, Masking, Run
<1>5. MaskInv'
  BY <1>1 DEF IInv, Call, TypeOK, Ctx, Level, Pc, MaskInv, SuspendedInv, Masking, SavedBy, Base, Run, SavedInv, DepthInv
<1>6. SavedInv'
  BY <1>1 DEF IInv, Call, TypeOK, Ctx, Level, Pc, SavedInv, MaskInv, SuspendedInv, Masking, SavedBy, Base, Run, DepthInv
<1>7. DepthInv'
  BY <1>1 DEF IInv, Call, TypeOK, Ctx, Level, Pc, DepthInv, MaskInv, SavedBy, Base, SuspendedInv, Masking, Run
<1>9. QED
  BY <1>2, <1>3, <1>4, <1>5, <1>6, <1>7 DEF IInv

\* Leaving the spin loop changes no guard and no mask.
LEMMA SpinEndStep ==
  ASSUME IInv, NEW c \in Cpu, SpinEnd(c)
  PROVE  IInv'
<1> DEFINE x == Run(c)
<1>1. /\ x \in Ctx /\ depth[c] \in Level
      /\ guards[x] \in Seq(Guard) /\ Len(guards[x]) \in Nat
  BY RunCtx DEF IInv
<1>2. TypeOK'
  BY <1>1 DEF IInv, SpinEnd, TypeOK, Ctx, Level, Pc, Run
<1>3. Exclusive'
  BY <1>1 DEF IInv, SpinEnd, TypeOK, Ctx, Level, Pc, Exclusive, Holds
<1>4. SuspendedInv'
  BY <1>1 DEF IInv, SpinEnd, TypeOK, Ctx, Level, Pc, SuspendedInv, Masking, Run
<1>5. MaskInv'
  BY <1>1, ZenonT(60) DEF IInv, SpinEnd, TypeOK, Ctx, Level, Pc, MaskInv, SuspendedInv, Masking, SavedBy, Base, Run, SavedInv, DepthInv
<1>6. SavedInv'
  BY <1>1 DEF IInv, SpinEnd, TypeOK, Ctx, Level, Pc, SavedInv, MaskInv, SuspendedInv, Masking, SavedBy, Base, Run, DepthInv
<1>7. DepthInv'
  BY <1>1 DEF IInv, SpinEnd, TypeOK, Ctx, Level, Pc, DepthInv, MaskInv, SavedBy, Base, SuspendedInv, Masking, Run
<1>9. QED
  BY <1>2, <1>3, <1>4, <1>5, <1>6, <1>7 DEF IInv

\* disable_interrupts() saves the mask that the next guard will carry.
LEMMA DisableStep ==
  ASSUME IInv, NEW c \in Cpu, Disable(c)
  PROVE  IInv'
<1> DEFINE x == Run(c)
<1>1. /\ x \in Ctx /\ depth[c] \in Level
      /\ guards[x] \in Seq(Guard) /\ Len(guards[x]) \in Nat
  BY RunCtx DEF IInv
<1>2. TypeOK'
  BY <1>1 DEF IInv, Disable, TypeOK, Ctx, Level, Pc, Run
<1>3. Exclusive'
  BY <1>1 DEF IInv, Disable, TypeOK, Ctx, Level, Pc, Exclusive, Holds
<1>4. SuspendedInv'
  BY <1>1 DEF IInv, Disable, TypeOK, Ctx, Level, Pc, SuspendedInv, Masking, Run
<1>5. MaskInv'
  BY <1>1 DEF IInv, Disable, TypeOK, Ctx, Level, Pc, MaskInv, SuspendedInv, Masking, SavedBy, Base, Run, SavedInv, DepthInv
<1>6. SavedInv'
  <2>1. /\ masked[c] <=> SavedBy(c, Len(guards[x]))
        /\ masked[c] \in BOOLEAN
    BY <1>1 DEF IInv, Disable, TypeOK, MaskInv, Masking
  <2>2. /\ state'[x] = masked[c]
        /\ \A y \in Ctx : y # x => state'[y] = state[y] /\ pc'[y] = pc[y]
        /\ UNCHANGED <<guards, depth, enabled>>
    BY <1>1 DEF IInv, Disable, TypeOK
  <2>3. SUFFICES ASSUME NEW d \in Cpu
                 PROVE  /\ pc'[Run(d)] \in Masking =>
                             (state'[Run(d)] <=> SavedBy(d, Len(guards[Run(d)])))
                        /\ \A i \in 1 .. Len(guards[Run(d)]) :
                             guards[Run(d)][i].state <=> SavedBy(d, i - 1)
    BY <2>2 DEF SavedInv, SavedBy, Base, Run
  <2>4. Run(d) \in Ctx /\ (d # c => Run(d) # x)
    BY RunCtx DEF IInv, Run
  <2>5. CASE d = c
    BY <2>1, <2>2, <2>5 DEF IInv, SavedInv
  <2>6. CASE d # c
    BY <2>2, <2>4, <2>6 DEF IInv, SavedInv
  <2>7. QED
    BY <2>5, <2>6
<1>7. DepthInv'
  BY <1>1 DEF IInv, Disable, TypeOK, Ctx, Level, Pc, DepthInv, MaskInv, SavedBy, Base, SuspendedInv, Masking, Run
<1>9. QED
  BY <1>2, <1>3, <1>4, <1>5, <1>6, <1>7 DEF IInv

\* A successful compare_exchange creates the only guard of the mutex.
LEMMA CasOkStep ==
  ASSUME IInv, NEW c \in Cpu, CasOk(c)
  PROVE  IInv'
<1> DEFINE x == Run(c)
<1>1. /\ x \in Ctx /\ depth[c] \in Level
      /\ guards[x] \in Seq(Guard) /\ Len(guards[x]) \in Nat
  BY RunCtx DEF IInv
<1> DEFINE g == [lock |-> want[x], state |-> state[x]]
<1>a. g \in Guard /\ g.lock = want[x] /\ g.state = state[x]
  BY <1>1 DEF IInv, TypeOK, Guard
<1>b. /\ guards'[x] = Append(guards[x], g)
      /\ \A y \in Ctx : y # x => guards'[y] = guards[y]
      /\ guards' = [guards EXCEPT ![x] = Append(guards[x], g)]
  BY <1>1 DEF IInv, CasOk, TypeOK
<1>c. /\ guards'[x] \in Seq(Guard)
      /\ Len(guards'[x]) = Len(guards[x]) + 1
      /\ \A i \in 1 .. Len(guards[x]) : guards'[x][i] = guards[x][i]
      /\ guards'[x][Len(guards[x]) + 1] = g
  BY <1>1, <1>a, <1>b, AppendGuard
<1>d. \A y \in Ctx : \A i \in 1 .. Len(guards'[y]) :
        \/ y = x /\ i = Len(guards[x]) + 1 /\ guards'[y][i] = g
        \/ i \in 1 .. Len(guards[y]) /\ guards'[y][i] = guards[y][i]
  BY <1>1, <1>b, <1>c
<1>e. \A y \in Ctx : \A i \in 1 .. Len(guards[y]) :
        i \in 1 .. Len(guards'[y]) /\ guards'[y][i] = guards[y][i]
  BY <1>1, <1>b, <1>c
<1>2. TypeOK'
  <2>1. guards' \in [Ctx -> Seq(Guard)]
    BY <1>1, <1>b, <1>c DEF IInv, TypeOK
  <2>2. QED
    BY <1>1, <2>1 DEF IInv, CasOk, TypeOK, Pc

<1>3. Exclusive'
  <2> DEFINE n == Len(guards[x]) + 1
  <2>1. /\ locked' = [locked EXCEPT ![want[x]] = TRUE]
        /\ ~locked[want[x]] /\ want[x] \in Locks
    BY <1>1 DEF CasOk, IInv, TypeOK
  <2>2. \A y \in Ctx : \A i \in 1 .. Len(guards[y]) :
          guards[y][i].lock # want[x]
    BY <2>1 DEF IInv, Exclusive, Holds
  <2>3. ASSUME NEW y \in Ctx, NEW z \in Ctx,
               NEW i \in 1 .. Len(guards'[y]), NEW j \in 1 .. Len(guards'[z]),
               guards'[y][i].lock = guards'[z][j].lock
        PROVE  y = z /\ i = j
    <3>1. CASE y = x /\ i = n /\ guards'[y][i] = g
      BY <3>1, <2>3, <2>2, <1>a, <1>d
    <3>2. CASE z = x /\ j = n /\ guards'[z][j] = g
      BY <3>2, <2>3, <2>2, <1>a, <1>d
    <3>3. CASE /\ i \in 1 .. Len(guards[y]) /\ guards'[y][i] = guards[y][i]
               /\ j \in 1 .. Len(guards[z]) /\ guards'[z][j] = guards[z][j]
      BY <3>3, <2>3 DEF IInv, Exclusive
    <3>4. QED
      BY <3>1, <3>2, <3>3, <1>d
  <2>4. ASSUME NEW l \in Locks
        PROVE  locked'[l] <=> \E y \in Ctx : Holds(y, l)'
    <3>1. CASE l = want[x]
      <4>1. \E i \in 1 .. Len(guards'[x]) : guards'[x][i].lock = l
        BY <3>1, <1>1, <1>a, <1>c
      <4>2. locked'[l]
        BY <3>1, <2>1 DEF IInv, TypeOK
      <4>3. QED
        BY <4>1, <4>2, <1>1 DEF Holds
    <3>2. CASE l # want[x]
      <4>1. \A y \in Ctx : Holds(y, l)' <=> Holds(y, l)
        BY <3>2, <1>a, <1>d, <1>e DEF Holds
      <4>2. locked'[l] = locked[l]
        BY <3>2, <2>1 DEF IInv, TypeOK
      <4>3. QED
        BY <4>1, <4>2 DEF IInv, Exclusive
    <3>3. QED
      BY <3>1, <3>2
  <2>5. QED
    BY <2>3, <2>4 DEF Exclusive

<1>4. SuspendedInv'
  BY <1>1 DEF IInv, CasOk, TypeOK, Ctx, Level, Pc, SuspendedInv, Masking, Run
<1>5. MaskInv'
  BY <1>1 DEF IInv, CasOk, TypeOK, Ctx, Level, Pc, MaskInv, SuspendedInv, Masking, SavedBy, Base, Run, SavedInv, DepthInv
<1>6. SavedInv'
  <2>1. state[x] <=> SavedBy(c, Len(guards[x]))
    BY DEF IInv, CasOk, SavedInv, Masking
  <2>2. /\ pc' = [pc EXCEPT ![x] = "run"]
        /\ UNCHANGED <<depth, enabled, state>>
    BY DEF CasOk
  <2>3. SUFFICES ASSUME NEW d \in Cpu
                 PROVE  /\ pc'[Run(d)] \in Masking =>
                             (state[Run(d)] <=> SavedBy(d, Len(guards'[Run(d)])))
                        /\ \A i \in 1 .. Len(guards'[Run(d)]) :
                             guards'[Run(d)][i].state <=> SavedBy(d, i - 1)
    BY <2>2 DEF SavedInv, SavedBy, Base, Run
  <2>4. Run(d) \in Ctx /\ (d # c => Run(d) # x)
    BY RunCtx DEF IInv, Run
  <2>5. CASE d = c
    <3>1. pc'[x] \notin Masking
      BY <1>1, <2>2 DEF IInv, TypeOK, Masking
    <3>2. ASSUME NEW i \in 1 .. Len(guards'[x])
          PROVE  guards'[x][i].state <=> SavedBy(c, i - 1)
      <4>1. CASE i = Len(guards[x]) + 1 /\ guards'[x][i] = g
        <5>1. i - 1 = Len(guards[x])
          BY <4>1, <1>1
        <5>2. QED
          BY <4>1, <5>1, <2>1, <1>a
      <4>2. CASE i \in 1 .. Len(guards[x]) /\ guards'[x][i] = guards[x][i]
        BY <4>2 DEF IInv, SavedInv
      <4>3. QED
        BY <4>1, <4>2, <1>1, <1>d
    <3>3. QED
      BY <2>5, <3>1, <3>2
  <2>6. CASE d # c
    <3>1. pc'[Run(d)] = pc[Run(d)] /\ guards'[Run(d)] = guards[Run(d)]
      BY <2>2, <2>4, <2>6, <1>b DEF IInv, TypeOK
    <3>2. QED
      BY <3>1 DEF IInv, SavedInv
  <2>7. QED
    BY <2>5, <2>6

<1>7. DepthInv'
  BY <1>1 DEF IInv, CasOk, TypeOK, Ctx, Level, Pc, DepthInv, MaskInv, SavedBy, Base, SuspendedInv, Masking, Run
<1>9. QED
  BY <1>2, <1>3, <1>4, <1>5, <1>6, <1>7 DEF IInv

\* A failed compare_exchange leaves IRQs masked until they are restored.
LEMMA CasFailStep ==
  ASSUME IInv, NEW c \in Cpu, CasFail(c)
  PROVE  IInv'
<1> DEFINE x == Run(c)
<1>1. /\ x \in Ctx /\ depth[c] \in Level
      /\ guards[x] \in Seq(Guard) /\ Len(guards[x]) \in Nat
  BY RunCtx DEF IInv
<1>2. TypeOK'
  BY <1>1 DEF IInv, CasFail, TypeOK, Ctx, Level, Pc, Run
<1>3. Exclusive'
  BY <1>1 DEF IInv, CasFail, TypeOK, Ctx, Level, Pc, Exclusive, Holds
<1>4. SuspendedInv'
  BY <1>1 DEF IInv, CasFail, TypeOK, Ctx, Level, Pc, SuspendedInv, Masking, Run
<1>5. MaskInv'
  BY <1>1 DEF IInv, CasFail, TypeOK, Ctx, Level, Pc, MaskInv, SuspendedInv, Masking, SavedBy, Base, Run, SavedInv, DepthInv
<1>6. SavedInv'
  BY <1>1, ZenonT(60) DEF IInv, CasFail, TypeOK, Ctx, Level, Pc, SavedInv, MaskInv, SuspendedInv, Masking, SavedBy, Base, Run, DepthInv
<1>7. DepthInv'
  BY <1>1 DEF IInv, CasFail, TypeOK, Ctx, Level, Pc, DepthInv, MaskInv, SavedBy, Base, SuspendedInv, Masking, Run
<1>9. QED
  BY <1>2, <1>3, <1>4, <1>5, <1>6, <1>7 DEF IInv

\* restore_interrupts() unmasks only a context without guards.
LEMMA RestoreStep ==
  ASSUME IInv, NEW c \in Cpu, Restore(c)
  PROVE  IInv'
<1> DEFINE x == Run(c)
<1>1. /\ x \in Ctx /\ depth[c] \in Level
      /\ guards[x] \in Seq(Guard) /\ Len(guards[x]) \in Nat
  BY RunCtx DEF IInv
<1>2. TypeOK'
  BY <1>1 DEF IInv, Restore, TypeOK, Ctx, Level, Pc, Run
<1>3. Exclusive'
  BY <1>1 DEF IInv, Restore, TypeOK, Ctx, Level, Pc, Exclusive, Holds
<1>4. SuspendedInv'
  BY <1>1 DEF IInv, Restore, TypeOK, Ctx, Level, Pc, SuspendedInv, Masking, Run
<1>5. MaskInv'
  BY <1>1, ZenonT(60) DEF IInv, Restore, TypeOK, Ctx, Level, Pc, MaskInv, SuspendedInv, Masking, SavedBy, Base, Run, SavedInv, DepthInv
<1>6. SavedInv'
  BY <1>1 DEF IInv, Restore, TypeOK, Ctx, Level, Pc, SavedInv, MaskInv, SuspendedInv, Masking, SavedBy, Base, Run, DepthInv
<1>7. DepthInv'
  BY <1>1 DEF IInv, Restore, TypeOK, Ctx, Level, Pc, DepthInv, MaskInv, SavedBy, Base, SuspendedInv, Masking, Run
<1>9. QED
  BY <1>2, <1>3, <1>4, <1>5, <1>6, <1>7 DEF IInv

\* drop() releases the newest guard of the running context.
LEMMA DropStep ==
  ASSUME IInv, NEW c \in Cpu, Drop(c)
  PROVE  IInv'
<1> DEFINE x == Run(c)
<1>1. /\ x \in Ctx /\ depth[c] \in Level
      /\ guards[x] \in Seq(Guard) /\ Len(guards[x]) \in Nat
  BY RunCtx DEF IInv
<1> DEFINE n == Len(guards[x])
           g == guards[x][n]
<1>a. n > 0 /\ n \in 1 .. n /\ g \in Guard /\ g.lock \in Locks
  BY <1>1, GuardFields DEF IInv, Drop
<1>b. /\ guards'[x] = SubSeq(guards[x], 1, n - 1)
      /\ \A y \in Ctx : y # x => guards'[y] = guards[y]
      /\ guards' = [guards EXCEPT ![x] = SubSeq(guards[x], 1, n - 1)]
  BY <1>1 DEF IInv, Drop, TypeOK
<1>c. /\ guards'[x] \in Seq(Guard)
      /\ Len(guards'[x]) = n - 1
      /\ \A i \in 1 .. n - 1 : guards'[x][i] = guards[x][i]
  BY <1>1, <1>a, <1>b, DropGuard
<1>d. \A y \in Ctx : \A i \in 1 .. Len(guards'[y]) :
        i \in 1 .. Len(guards[y]) /\ guards'[y][i] = guards[y][i]
  BY <1>1, <1>b, <1>c
<1>e. \A y \in Ctx : \A i \in 1 .. Len(guards[y]) :
        (y # x \/ i # n) => i \in 1 .. Len(guards'[y]) /\ guards'[y][i] = guards[y][i]
  BY <1>1, <1>a, <1>b, <1>c
<1>f. \A y \in Ctx : \A i \in 1 .. Len(guards'[y]) : guards'[y][i].lock # g.lock
  <2>1. ASSUME NEW y \in Ctx, NEW i \in 1 .. Len(guards'[y]), guards'[y][i].lock = g.lock
        PROVE  FALSE
    <3>1. y = x /\ i = n
      BY <2>1, <1>1, <1>a, <1>d, SMTT(30) DEF IInv, Exclusive
    <3>2. QED
      BY <3>1, <1>1, <1>c
  <2>2. QED
    BY <2>1
<1>2. TypeOK'
  <2>1. guards' \in [Ctx -> Seq(Guard)]
    BY <1>1, <1>b, <1>c DEF IInv, TypeOK
  <2>2. g.state \in BOOLEAN
    BY <1>1, <1>a, GuardFields DEF IInv
  <2>3. QED
    BY <1>1, <2>1, <2>2 DEF IInv, Drop, TypeOK, Pc

<1>3. Exclusive'
  <2>1. locked' = [locked EXCEPT ![g.lock] = FALSE]
    BY DEF Drop
  <2>2. \A y, z \in Ctx :
          \A i \in 1 .. Len(guards'[y]), j \in 1 .. Len(guards'[z]) :
            guards'[y][i].lock = guards'[z][j].lock => y = z /\ i = j
    <3>1. SUFFICES ASSUME NEW y \in Ctx, NEW z \in Ctx, NEW i \in 1 .. Len(guards'[y]),
                          NEW j \in 1 .. Len(guards'[z]), guards'[y][i].lock = guards'[z][j].lock
                   PROVE  y = z /\ i = j
      OBVIOUS
    <3>2. /\ i \in 1 .. Len(guards[y]) /\ guards'[y][i] = guards[y][i]
          /\ j \in 1 .. Len(guards[z]) /\ guards'[z][j] = guards[z][j]
      BY <1>d
    <3>3. guards[y][i].lock = guards[z][j].lock
      BY <3>1, <3>2
    <3>4. QED
      BY <3>2, <3>3 DEF IInv, Exclusive
  <2>3. ASSUME NEW l \in Locks
        PROVE  locked'[l] <=> \E y \in Ctx : Holds(y, l)'
    <3>1. CASE l = g.lock
      <4>1. ~locked'[l]
        BY <3>1, <2>1 DEF IInv, TypeOK
      <4>2. \A y \in Ctx : ~Holds(y, l)'
        BY <3>1, <1>f DEF Holds
      <4>3. QED
        BY <4>1, <4>2
    <3>2. CASE l # g.lock
      <4>1. \A y \in Ctx : Holds(y, l)' <=> Holds(y, l)
        BY <3>2, <1>d, <1>e DEF Holds
      <4>2. locked'[l] = locked[l]
        BY <3>2, <2>1 DEF IInv, TypeOK
      <4>3. QED
        BY <4>1, <4>2 DEF IInv, Exclusive
    <3>3. QED
      BY <3>1, <3>2
  <2>4. QED
    BY <2>2, <2>3 DEF Exclusive

<1>4. SuspendedInv'
  BY <1>1 DEF IInv, Drop, TypeOK, Ctx, Level, Pc, SuspendedInv, Masking, Run
<1>5. MaskInv'
  BY <1>1 DEF IInv, Drop, TypeOK, Ctx, Level, Pc, MaskInv, SuspendedInv, Masking, SavedBy, Base, Run, SavedInv, DepthInv
<1>6. SavedInv'
  <2>1. g.state <=> SavedBy(c, n - 1)
    BY <1>a DEF IInv, SavedInv
  <2>2. /\ state' = [state EXCEPT ![x] = g.state]
        /\ pc' = [pc EXCEPT ![x] = "restore"]
        /\ UNCHANGED <<depth, enabled>>
    BY DEF Drop
  <2>3. SUFFICES ASSUME NEW d \in Cpu
                 PROVE  /\ pc'[Run(d)] \in Masking =>
                             (state'[Run(d)] <=> SavedBy(d, Len(guards'[Run(d)])))
                        /\ \A i \in 1 .. Len(guards'[Run(d)]) :
                             guards'[Run(d)][i].state <=> SavedBy(d, i - 1)
    BY <2>2 DEF SavedInv, SavedBy, Base, Run
  <2>4. Run(d) \in Ctx /\ (d # c => Run(d) # x)
    BY RunCtx DEF IInv, Run
  <2>5. CASE d = c
    <3>1. state'[x] = g.state
      BY <1>1, <2>2 DEF IInv, TypeOK
    <3>2. \A i \in 1 .. Len(guards'[x]) : guards'[x][i].state <=> SavedBy(c, i - 1)
      BY <1>1, <1>d DEF IInv, SavedInv
    <3>3. QED
      BY <2>1, <2>5, <3>1, <3>2, <1>c
  <2>6. CASE d # c
    <3>1. /\ pc'[Run(d)] = pc[Run(d)] /\ guards'[Run(d)] = guards[Run(d)]
          /\ state'[Run(d)] = state[Run(d)]
      BY <2>2, <2>4, <2>6, <1>b DEF IInv, TypeOK
    <3>2. QED
      BY <3>1 DEF IInv, SavedInv
  <2>7. QED
    BY <2>5, <2>6

<1>7. DepthInv'
  BY <1>1 DEF IInv, Drop, TypeOK, Ctx, Level, Pc, DepthInv, MaskInv, SavedBy, Base, SuspendedInv, Masking, Run
<1>9. QED
  BY <1>2, <1>3, <1>4, <1>5, <1>6, <1>7 DEF IInv

\* enable_irq() is called outside every critical section.
LEMMA EnableIrqStep ==
  ASSUME IInv, NEW c \in Cpu, EnableIrq(c)
  PROVE  IInv'
<1> DEFINE x == Run(c)
<1>1. /\ x \in Ctx /\ depth[c] \in Level
      /\ guards[x] \in Seq(Guard) /\ Len(guards[x]) \in Nat
  BY RunCtx DEF IInv
<1>2. TypeOK'
  BY <1>1 DEF IInv, EnableIrq, TypeOK, Ctx, Level, Pc, Run
<1>3. Exclusive'
  BY <1>1 DEF IInv, EnableIrq, TypeOK, Ctx, Level, Pc, Exclusive, Holds
<1>4. SuspendedInv'
  BY <1>1 DEF IInv, EnableIrq, TypeOK, Ctx, Level, Pc, SuspendedInv, Masking, Run
<1>5. MaskInv'
  <2>1. /\ depth[c] = 0 /\ pc[x] = "run" /\ Len(guards[x]) = 0
        /\ enabled'[c] /\ ~masked'[c]
        /\ \A d \in Cpu : d # c => enabled'[d] = enabled[d] /\ masked'[d] = masked[d]
        /\ UNCHANGED <<depth, pc, guards>>
    BY NoGuard, <1>1 DEF IInv, EnableIrq, TypeOK
  <2>2. SUFFICES ASSUME NEW d \in Cpu
                 PROVE  /\ pc[Run(d)] \in Masking => masked'[d]
                        /\ pc[Run(d)] \notin Masking =>
                             (masked'[d] <=> SavedBy(d, Len(guards[Run(d)]))')
    BY <2>1 DEF MaskInv, SavedBy, Base, Run
  <2>3. CASE d = c
    BY <2>1, <2>3 DEF Masking, SavedBy, Base, Run
  <2>4. CASE d # c
    BY <2>1, <2>4 DEF IInv, MaskInv, SavedBy, Base, Run
  <2>5. QED
    BY <2>3, <2>4

<1>6. SavedInv'
  <2>1. /\ depth[c] = 0 /\ pc[x] = "run" /\ Len(guards[x]) = 0
        /\ \A d \in Cpu : d # c => enabled'[d] = enabled[d]
        /\ UNCHANGED <<depth, pc, guards, state>>
    BY NoGuard, <1>1 DEF IInv, EnableIrq, TypeOK
  <2>2. SUFFICES ASSUME NEW d \in Cpu
                 PROVE  /\ pc[Run(d)] \in Masking =>
                             (state[Run(d)] <=> SavedBy(d, Len(guards[Run(d)]))')
                        /\ \A i \in 1 .. Len(guards[Run(d)]) :
                             guards[Run(d)][i].state <=> SavedBy(d, i - 1)'
    BY <2>1 DEF SavedInv, SavedBy, Base, Run
  <2>3. CASE d = c
    BY <2>1, <2>3 DEF Masking
  <2>4. CASE d # c
    BY <2>1, <2>4 DEF IInv, SavedInv, SavedBy, Base, Run
  <2>5. QED
    BY <2>3, <2>4

<1>7. DepthInv'
  BY <1>1 DEF IInv, EnableIrq, TypeOK, Ctx, Level, Pc, DepthInv, MaskInv, SavedBy, Base, SuspendedInv, Masking, Run
<1>9. QED
  BY <1>2, <1>3, <1>4, <1>5, <1>6, <1>7 DEF IInv

\* An IRQ is taken only in main(), outside every critical section.
LEMMA TakeIrqStep ==
  ASSUME IInv, NEW c \in Cpu, TakeIrq(c)
  PROVE  IInv'
<1> DEFINE x == Run(c)
<1>1. /\ x \in Ctx /\ depth[c] \in Level
      /\ guards[x] \in Seq(Guard) /\ Len(guards[x]) \in Nat
  BY RunCtx DEF IInv
<1>a. /\ depth[c] = 0 /\ depth'[c] = 1 /\ 1 \in Level
      /\ pc[x] \notin Masking /\ guards[x] = <<>> /\ x = <<c, 0>>
  BY <1>1, NoGuard, DepthAssumption
     DEF IInv, TakeIrq, TypeOK, Level, MaskInv, SavedBy, Base, Run
<1>b. /\ masked'[c]
      /\ \A d \in Cpu : d # c => depth'[d] = depth[d] /\ masked'[d] = masked[d]
      /\ UNCHANGED <<enabled, pc, guards, state>>
  BY DEF IInv, TakeIrq, TypeOK
<1>c. guards[<<c, 1>>] = <<>> /\ pc[<<c, 1>>] = "run" /\ <<c, 1>> \in Ctx
  BY <1>a DEF IInv, SuspendedInv, Level, Ctx
<1>2. TypeOK'
  BY <1>1, DepthAssumption DEF IInv, TakeIrq, TypeOK, Ctx, Level, Pc, Run
<1>3. Exclusive'
  BY <1>1 DEF IInv, TakeIrq, TypeOK, Ctx, Level, Pc, Exclusive, Holds
<1>4. SuspendedInv'
  <2>1. SUFFICES ASSUME NEW d \in Cpu, NEW e \in Level, e # depth'[d]
                 PROVE  /\ guards[<<d, e>>] = <<>>
                        /\ pc[<<d, e>>] \notin Masking
                        /\ e > depth'[d] => pc[<<d, e>>] = "run"
    BY <1>b DEF SuspendedInv
  <2>2. CASE d = c /\ e = 0
    BY <2>2, <1>a
  <2>3. CASE d = c /\ e # 0
    BY <2>3, <2>1, <1>a DEF IInv, SuspendedInv, Level
  <2>4. CASE d # c
    BY <2>4, <2>1, <1>b DEF IInv, SuspendedInv
  <2>5. QED
    BY <2>2, <2>3, <2>4

<1>5. MaskInv'
  <2>1. SUFFICES ASSUME NEW d \in Cpu
                 PROVE  /\ pc[<<d, depth'[d]>>] \in Masking => masked'[d]
                        /\ pc[<<d, depth'[d]>>] \notin Masking =>
                             (masked'[d] <=> SavedBy(d, Len(guards[<<d, depth[d]>>]))')
    BY <1>b DEF MaskInv, SavedBy, Base, Run
  <2>2. CASE d = c
    BY <2>2, <1>a, <1>b, <1>c DEF Masking, SavedBy, Base
  <2>3. CASE d # c
    BY <2>3, <1>b DEF IInv, MaskInv, SavedBy, Base, Run
  <2>4. QED
    BY <2>2, <2>3

<1>6. SavedInv'
  BY <1>1, DepthAssumption DEF IInv, TakeIrq, TypeOK, Ctx, Level, Pc, SavedInv, MaskInv, SuspendedInv, Masking, SavedBy, Base, Run, DepthInv
<1>7. DepthInv'
  BY <1>1 DEF IInv, TakeIrq, TypeOK, Ctx, Level, Pc, DepthInv, MaskInv, SavedBy, Base, SuspendedInv, Masking, Run
<1>9. QED
  BY <1>2, <1>3, <1>4, <1>5, <1>6, <1>7 DEF IInv

\* The handler returns to main() outside every critical section.
LEMMA EretStep ==
  ASSUME IInv, NEW c \in Cpu, Eret(c)
  PROVE  IInv'
<1> DEFINE x == Run(c)
<1>1. /\ x \in Ctx /\ depth[c] \in Level
      /\ guards[x] \in Seq(Guard) /\ Len(guards[x]) \in Nat
  BY RunCtx DEF IInv
<1>a. /\ depth[c] = 1 /\ depth'[c] = 0 /\ enabled[c]
      /\ pc[x] = "run" /\ guards[x] = <<>> /\ x = <<c, 1>> /\ 0 \in Level
  BY <1>1, DepthAssumption DEF IInv, Eret, TypeOK, Level, DepthInv, Run
<1>b. /\ ~masked'[c]
      /\ \A d \in Cpu : d # c => depth'[d] = depth[d] /\ masked'[d] = masked[d]
      /\ UNCHANGED <<enabled, pc, guards, state>>
  BY DEF IInv, Eret, TypeOK
<1>c. guards[<<c, 0>>] = <<>> /\ pc[<<c, 0>>] \notin Masking /\ <<c, 0>> \in Ctx
  BY <1>a DEF IInv, SuspendedInv, Level, Ctx
<1>d. Len(guards[<<c, 0>>]) = 0
  BY <1>c, EmptySeq
<1>2. TypeOK'
  BY <1>1, DepthAssumption DEF IInv, Eret, TypeOK, Ctx, Level, Pc, Run
<1>3. Exclusive'
  BY <1>1 DEF IInv, Eret, TypeOK, Ctx, Level, Pc, Exclusive, Holds
<1>4. SuspendedInv'
  <2>1. SUFFICES ASSUME NEW d \in Cpu, NEW e \in Level, e # depth'[d]
                 PROVE  /\ guards[<<d, e>>] = <<>>
                        /\ pc[<<d, e>>] \notin Masking
                        /\ e > depth'[d] => pc[<<d, e>>] = "run"
    BY <1>b DEF SuspendedInv
  <2>2. CASE d = c /\ e = 1
    BY <2>2, <1>a DEF Masking
  <2>3. CASE d = c /\ e # 1
    BY <2>3, <2>1, <1>a DEF IInv, SuspendedInv, Level
  <2>4. CASE d # c
    BY <2>4, <2>1, <1>b DEF IInv, SuspendedInv
  <2>5. QED
    BY <2>2, <2>3, <2>4

<1>5. MaskInv'
  <2>1. SUFFICES ASSUME NEW d \in Cpu
                 PROVE  /\ pc[<<d, depth'[d]>>] \in Masking => masked'[d]
                        /\ pc[<<d, depth'[d]>>] \notin Masking =>
                             (masked'[d] <=> SavedBy(d, Len(guards[<<d, depth[d]>>]))')
    BY <1>b DEF MaskInv, SavedBy, Base, Run
  <2>2. CASE d = c
    BY <2>2, <1>a, <1>b, <1>c, <1>d DEF Masking, SavedBy, Base
  <2>3. CASE d # c
    BY <2>3, <1>b DEF IInv, MaskInv, SavedBy, Base, Run
  <2>4. QED
    BY <2>2, <2>3

<1>6. SavedInv'
  BY <1>1, DepthAssumption DEF IInv, Eret, TypeOK, Ctx, Level, Pc, SavedInv, MaskInv, SuspendedInv, Masking, SavedBy, Base, Run, DepthInv
<1>7. DepthInv'
  BY <1>1 DEF IInv, Eret, TypeOK, Ctx, Level, Pc, DepthInv, MaskInv, SavedBy, Base, SuspendedInv, Masking, Run
<1>9. QED
  BY <1>2, <1>3, <1>4, <1>5, <1>6, <1>7 DEF IInv

-----------------------------------------------------------------------------

\* The invariant holds when main() starts.
LEMMA InitIInv == Init => IInv
<1> SUFFICES ASSUME Init PROVE IInv
  OBVIOUS
<1>1. \A x \in Ctx : guards[x] = <<>> /\ Len(guards[x]) = 0 /\ pc[x] = "run"
  BY EmptySeq DEF Init
<1>2. TypeOK
  <2>1. (CHOOSE l \in Locks : TRUE) \in Locks
    BY LocksAssumption
  <2>2. <<>> \in Seq(Guard)
    BY EmptySeq
  <2>3. 0 \in Level
    BY DepthAssumption DEF Level
  <2>4. QED
    BY <2>1, <2>2, <2>3 DEF Init, TypeOK, Pc
<1>3. \A c \in Cpu : Run(c) \in Ctx /\ depth[c] = 0
  BY <1>2, RunCtx DEF Init
<1>4. Exclusive
  BY <1>1 DEF Init, Exclusive, Holds
<1>5. SuspendedInv
  BY <1>1 DEF SuspendedInv, Masking, Ctx
<1>6. MaskInv /\ SavedInv
  BY <1>1, <1>3 DEF Init, MaskInv, SavedInv, Masking, SavedBy, Base
<1>7. DepthInv
  <2> SUFFICES ASSUME NEW c \in Cpu PROVE depth[c] <= 1 /\ depth[c] # 1
    BY DEF DepthInv
  <2>1. depth[c] = 0
    BY <1>3
  <2>2. QED
    BY <2>1
<1>9. QED
  BY <1>2, <1>4, <1>5, <1>6, <1>7 DEF IInv

\* Every step of every CPU preserves the invariant.
LEMMA NextIInv == IInv /\ [Next]_vars => IInv'
<1> SUFFICES ASSUME IInv, [Next]_vars PROVE IInv'
  OBVIOUS
<1>1. CASE UNCHANGED vars
  BY <1>1 DEF vars, IInv, TypeOK, Exclusive, Holds, SuspendedInv, MaskInv, SavedInv,
              SavedBy, Base, Run, DepthInv
<1>2. ASSUME NEW c \in Cpu, NEW l \in Locks, Call(c, l) PROVE IInv'
  BY <1>2, CallStep
<1>3. ASSUME NEW c \in Cpu, LockSteps(c) PROVE IInv'
  BY <1>3, SpinEndStep, DisableStep, CasOkStep, CasFailStep, RestoreStep DEF LockSteps
<1>4. ASSUME NEW c \in Cpu, Drop(c) \/ EnableIrq(c) \/ TakeIrq(c) \/ Eret(c)
      PROVE  IInv'
  BY <1>4, DropStep, EnableIrqStep, TakeIrqStep, EretStep
<1>5. QED
  BY <1>1, <1>2, <1>3, <1>4 DEF Next

\* The invariant that carries all the safety properties of the spin lock.
THEOREM Invariance == Spec => []IInv
<1>1. QED
  BY InitIInv, NextIInv, PTL DEF Spec

\* Type correctness of the lock flags, masks, contexts and guards.
THEOREM TypeCorrect == Spec => []TypeOK
<1>1. IInv => TypeOK
  BY DEF IInv
<1>2. QED
  BY <1>1, Invariance, PTL

\* lock() never hands out a second guard of a mutex, on any CPU or in any
\* context, and the flag is set exactly while the guard lives.
THEOREM MutualExclusion == Spec => []Exclusive
<1>1. IInv => Exclusive
  BY DEF IInv
<1>2. QED
  BY <1>1, Invariance, PTL

\* IRQs stay masked on a CPU for as long as one of its contexts holds a guard,
\* through any nesting of lock() and drop().
THEOREM CriticalSectionsMasked == Spec => []MaskedWhileHeld
<1>1. IInv => MaskedWhileHeld
  <2> SUFFICES ASSUME IInv, NEW c \in Cpu, NEW d \in Level, guards[<<c, d>>] # <<>>
               PROVE  masked[c] /\ depth[c] = d
    BY DEF MaskedWhileHeld
  <2>1. depth[c] = d /\ Run(c) = <<c, d>>
    BY DEF IInv, SuspendedInv, Run
  <2>2. Len(guards[Run(c)]) > 0
    BY <2>1, RunCtx, NoGuard DEF IInv
  <2>3. masked[c]
    BY <2>2 DEF IInv, MaskInv, SavedBy
  <2>4. QED
    BY <2>1, <2>3
<1>2. QED
  BY <1>1, Invariance, PTL

\* irq_handler is never interrupted by another IRQ, although it locks and
\* unlocks mutexes: no drop() inside it unmasks IRQs for the code after it.
THEOREM HandlersNotNested == Spec => []NoNestedIrq
<1>1. IInv => NoNestedIrq
  <2> SUFFICES ASSUME IInv, NEW c \in Cpu, depth[c] = 1 PROVE masked[c]
    BY DEF NoNestedIrq, IInv, DepthInv
  <2>1. QED
    BY DEF IInv, MaskInv, SavedBy, Base
<1>2. QED
  BY <1>1, Invariance, PTL

\* Using mutexes leaves no trace in DAIF.
THEOREM MaskIsRestored == Spec => []MaskRestored
<1>1. IInv => MaskRestored
  <2> SUFFICES ASSUME IInv, NEW c \in Cpu, pc[Run(c)] = "run", guards[Run(c)] = <<>>
               PROVE  masked[c] <=> (depth[c] > 0 \/ ~enabled[c])
    BY DEF MaskRestored, IInv, TypeOK
  <2>1. Len(guards[Run(c)]) = 0
    BY EmptySeq
  <2>2. QED
    BY <2>1 DEF IInv, MaskInv, Masking, SavedBy, Base
<1>2. QED
  BY <1>1, Invariance, PTL

\* An interrupt handler never waits for a mutex that the code it interrupted holds.
THEOREM HandlersNotBlocked == Spec => []HandlerNeverBlocked
<1>1. IInv => HandlerNeverBlocked
  <2> SUFFICES ASSUME IInv, NEW c \in Cpu, NEW d \in Level, d # depth[c],
                      Holds(<<c, d>>, want[Run(c)])
               PROVE  FALSE
    BY DEF HandlerNeverBlocked
  <2>1. guards[<<c, d>>] # <<>>
    BY EmptySeq DEF Holds
  <2>2. QED
    BY <2>1 DEF IInv, SuspendedInv
<1>2. QED
  BY <1>1, Invariance, PTL

-----------------------------------------------------------------------------
(* The lock order across CPUs *)

\* A set of numbers that contains 0 and the successor of each of its members
\* contains them all.
LEMMA SetInduction ==
  ASSUME NEW S, 0 \in S, \A n \in Nat : n \in S => n + 1 \in S
  PROVE  Nat \subseteq S
<1> DEFINE R == {p \in Nat \X Nat : p[1] < p[2]}
<1>1. IsWellFoundedOn(R, Nat)
  BY NatLessThanWellFounded, Zenon DEF OpToRel
<1>2. \A i, j \in Nat : j < i => <<j, i>> \in R
  OBVIOUS
<1> HIDE DEF R
<1> SUFFICES ASSUME Nat \ S # {} PROVE FALSE
  OBVIOUS
<1>3. PICK i \in Nat \ S : \A j \in Nat \ S : <<j, i>> \notin R
  BY <1>1, WFMin
<1>4. i - 1 \in Nat /\ i - 1 < i
  BY <1>3
<1>5. i - 1 \in S
  BY <1>2, <1>3, <1>4
<1>6. QED
  BY <1>3, <1>4, <1>5

\* The ranks of finitely many mutexes are bounded.
LEMMA RanksBounded == \E b \in Nat : \A l \in Locks : Rank[l] <= b
<1>1. PICK n \in Nat : ExistsSurjection(1 .. n, Locks)
  BY FS_NatSurjection, LocksAssumption
<1>2. PICK f \in [1 .. n -> Locks] : \A l \in Locks : \E i \in 1 .. n : f[i] = l
  BY <1>1 DEF ExistsSurjection, Surjection
<1> DEFINE S == {k \in Nat : k <= n => \E b \in Nat : \A i \in 1 .. k : Rank[f[i]] <= b}
<1>3. 0 \in S
  OBVIOUS
<1>4. ASSUME NEW k \in Nat, k \in S PROVE k + 1 \in S
  <2> SUFFICES ASSUME k + 1 <= n
               PROVE  \E b \in Nat : \A i \in 1 .. k + 1 : Rank[f[i]] <= b
    OBVIOUS
  <2>1. PICK a \in Nat : \A i \in 1 .. k : Rank[f[i]] <= a
    BY <1>4
  <2>2. \A i \in 1 .. k + 1 : Rank[f[i]] \in Nat
    BY RankAssumption
  <2> DEFINE b == IF a <= Rank[f[k + 1]] THEN Rank[f[k + 1]] ELSE a
  <2>3. b \in Nat /\ a <= b /\ Rank[f[k + 1]] <= b
    BY <2>2
  <2> HIDE DEF b
  <2>4. ASSUME NEW i \in 1 .. k + 1 PROVE Rank[f[i]] <= b
    <3>1. CASE i = k + 1
      BY <2>3, <3>1
    <3>2. CASE i \in 1 .. k
      BY <2>1, <2>2, <2>3, <3>2
    <3>3. QED
      BY <3>1, <3>2
  <2>5. QED
    BY <2>3, <2>4
<1> HIDE DEF S
<1>5. n \in S
  BY <1>3, <1>4, SetInduction
<1>6. PICK b \in Nat : \A i \in 1 .. n : Rank[f[i]] <= b
  BY <1>5 DEF S
<1>7. QED
  BY <1>2, <1>6

\* Some CPU waits for a mutex of the highest rank that is waited for.
LEMMA HighestWanted ==
  ASSUME TypeOK
  PROVE  \E c \in Cpu : \A d \in Cpu : Rank[want[Run(d)]] <= Rank[want[Run(c)]]
<1> DEFINE r(c) == Rank[want[Run(c)]]
<1>1. \A c \in Cpu : want[Run(c)] \in Locks /\ r(c) \in Nat
  BY RunCtx, RankAssumption DEF TypeOK
<1>2. PICK b \in Nat : \A l \in Locks : Rank[l] <= b
  BY RanksBounded
<1>3. \A c \in Cpu : r(c) <= b
  BY <1>1, <1>2
<1> HIDE DEF r
<1> SUFFICES ASSUME \A c \in Cpu : \E d \in Cpu : r(c) < r(d) PROVE FALSE
  BY <1>1 DEF r
<1> DEFINE S == {k \in Nat : \E c \in Cpu : r(c) >= k}
<1>4. 0 \in S
  BY <1>1, CpuAssumption
<1>5. ASSUME NEW k \in Nat, k \in S PROVE k + 1 \in S
  <2>1. PICK c \in Cpu : r(c) >= k
    BY <1>5
  <2>2. PICK d \in Cpu : r(c) < r(d)
    OBVIOUS
  <2>3. r(d) >= k + 1
    BY <1>1, <2>1, <2>2
  <2>4. QED
    BY <2>3
<1> HIDE DEF S
<1>6. b + 1 \in S
  BY <1>4, <1>5, SetInduction
<1>7. QED
  BY <1>1, <1>3, <1>6 DEF S

\* However many CPUs lock however many mutexes, those that nest them in one order
\* never wait for each other in a circle: the one that waits for the highest mutex would wait for a CPU
\* that holds it and waits for a higher one.
THEOREM NoCircularWait == Spec => []NotAllSpinning
<1>1. IInv => NotAllSpinning
  <2> SUFFICES ASSUME IInv, \A c \in Cpu : pc[Run(c)] = "spin" /\ Above(Run(c)),
                      \A c \in Cpu : locked[want[Run(c)]]
               PROVE  FALSE
    BY DEF NotAllSpinning
  <2>1. PICK c \in Cpu : \A d \in Cpu : Rank[want[Run(d)]] <= Rank[want[Run(c)]]
    BY HighestWanted DEF IInv
  <2>2. want[Run(c)] \in Locks
    BY RunCtx DEF IInv, TypeOK
  <2>3. PICK x \in Ctx : Holds(x, want[Run(c)])
    BY <2>2 DEF IInv, Exclusive
  <2>4. PICK d \in Cpu, n \in Level : x = <<d, n>>
    BY DEF Ctx
  <2>5. guards[x] # <<>>
    BY <2>3, EmptySeq DEF Holds
  <2>6. x = Run(d)
    BY <2>4, <2>5 DEF IInv, SuspendedInv, Run
  <2>7. Above(x)
    BY <2>6
  <2>8. Rank[want[Run(c)]] < Rank[want[Run(d)]]
    BY <2>3, <2>6, <2>7 DEF Above, Holds
  <2>9. Rank[want[Run(c)]] \in Nat /\ Rank[want[Run(d)]] \in Nat
    BY RunCtx, RankAssumption DEF IInv, TypeOK
  <2>10. QED
    BY <2>1, <2>8, <2>9
<1>2. QED
  BY <1>1, Invariance, PTL
=============================================================================
