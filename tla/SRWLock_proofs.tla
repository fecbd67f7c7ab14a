--------------------------- MODULE SRWLock_proofs ---------------------------
(***************************************************************************)
(* The lock of SRWLock excludes, counts exactly and never loses a wakeup,  *)
(* for every finite set of threads, and it implements Mutex.               *)
(***************************************************************************)
EXTENDS SRWLock, FiniteSetTheorems, TLAPS

(* xchg says whether some thread holds the lock. *)
HeldIffIn ==
    /\ \A t \in Threads : pc[t] = "in" => xchg = 1
    /\ xchg = 1 => \E t \in Threads : pc[t] = "in"

IInv == TypeOK /\ MutualExclusion /\ HeldIffIn /\ CountExact /\ NoLostWakeup

(* How the cardinality of a finite set follows an element in and out. *)
LEMMA CountIn ==
  ASSUME NEW S, IsFiniteSet(S), NEW x, x \notin S
  PROVE  Cardinality(S \cup {x}) = Cardinality(S) + 1
  BY FS_AddElement

LEMMA CountOut ==
  ASSUME NEW S, IsFiniteSet(S), NEW x, x \in S
  PROVE  Cardinality(S \ {x}) = Cardinality(S) - 1
  BY FS_RemoveElement

LEMMA WantingFinite == IsFiniteSet(Wanting) /\ Cardinality(Wanting) \in Nat
<1>1. Wanting \subseteq Threads
  BY DEF Wanting
<1>2. IsFiniteSet(Wanting)
  BY <1>1, ThreadsAssumption, FS_Subset
<1>. QED
  BY <1>2, FS_CardinalityType

(* With two threads wanting the lock the count is not one. *)
LEMMA TwoWant ==
  ASSUME NEW t \in Wanting, NEW s \in Wanting, s # t, CountExact
  PROVE  c # 1
<1>1. IsFiniteSet({s, t}) /\ Cardinality({s, t}) = 2
  <2>1. IsFiniteSet({t}) /\ Cardinality({t}) = 1
    BY FS_Singleton
  <2>2. s \notin {t} /\ {s, t} = {t} \cup {s}
    OBVIOUS
  <2>. QED
    BY <2>1, <2>2, FS_AddElement
<1>2. Cardinality({s, t}) <= Cardinality(Wanting)
  BY WantingFinite, {s, t} \subseteq Wanting, FS_Subset
<1>. QED
  BY <1>1, <1>2, WantingFinite DEF CountExact

(* The count follows a step that moves one thread in, out, or neither. *)
LEMMA CountStep ==
  ASSUME TypeOK, CountExact, NEW t \in Threads,
         \/ t \notin Wanting /\ Wanting' = Wanting \cup {t} /\ c' = c + 1
         \/ t \in Wanting /\ Wanting' = Wanting \ {t} /\ c' = c - 1
         \/ Wanting' = Wanting /\ c' = c
  PROVE  CountExact' /\ c' \in Nat
<1>1. CASE t \notin Wanting /\ Wanting' = Wanting \cup {t} /\ c' = c + 1
  BY <1>1, CountIn, WantingFinite DEF CountExact, TypeOK
<1>2. CASE t \in Wanting /\ Wanting' = Wanting \ {t} /\ c' = c - 1
  <2>1. Cardinality(Wanting \ {t}) = Cardinality(Wanting) - 1
    BY <1>2, CountOut, WantingFinite
  <2>2. IsFiniteSet(Wanting \ {t})
    BY WantingFinite, FS_Subset, Wanting \ {t} \subseteq Wanting
  <2>3. Cardinality(Wanting \ {t}) \in Nat
    BY <2>2, FS_CardinalityType
  <2>. QED
    BY <1>2, <2>1, <2>3, WantingFinite DEF CountExact, TypeOK
<1>3. CASE Wanting' = Wanting /\ c' = c
  BY <1>3 DEF CountExact, TypeOK
<1>. QED
  BY <1>1, <1>2, <1>3

LEMMA InitInv == Init => IInv
<1>. SUFFICES ASSUME Init PROVE IInv
  OBVIOUS
<1>1. TypeOK /\ MutualExclusion /\ HeldIffIn
  BY DEF Init, TypeOK, Pc, MutualExclusion, HeldIffIn
<1>2. Wanting = {} /\ Sleepers = {}
  BY DEF Init, Wanting, Sleepers
<1>3. CountExact
  BY <1>2, FS_EmptySet DEF Init, CountExact
<1>. QED
  BY <1>1, <1>2, <1>3 DEF IInv, NoLostWakeup

(* No step disturbs the exclusion or the meaning of xchg. *)
LEMMA StepHeld ==
  ASSUME IInv, NEW t \in Threads,
         Acquire(t) \/ AcquireTry(t) \/ FutexInterrupted(t) \/ Step(t)
  PROVE  /\ xchg' \in {0, 1} /\ pc' \in [Threads -> Pc] /\ timed' \in [Threads -> BOOLEAN]
         /\ MutualExclusion' /\ HeldIffIn'
<1>. USE DEF IInv, TypeOK, Pc, MutualExclusion, HeldIffIn, Goto
<1>1. CASE Acquire(t)
  BY <1>1 DEF Acquire
<1>2. CASE AcquireTry(t)
  BY <1>2 DEF AcquireTry
<1>3. CASE FutexInterrupted(t)
  BY <1>3 DEF FutexInterrupted
<1>4. CASE CasOk(t) \/ TryOk(t)
  BY <1>4 DEF CasOk, TryOk
<1>5. CASE CasFail(t) \/ FutexWait(t) \/ TryFail(t)
  BY <1>5 DEF CasFail, FutexWait, TryFail
<1>6. CASE Undo(t)
  BY <1>6 DEF Undo
<1>7. CASE ReleaseCas(t)
  BY <1>7 DEF ReleaseCas
<1>8. CASE ReleaseDec(t)
  BY <1>8 DEF ReleaseDec
<1>9. CASE ReleaseWake(t)
  BY <1>9 DEF ReleaseWake, Sleepers
<1>. QED
  BY <1>1, <1>2, <1>3, <1>4, <1>5, <1>6, <1>7, <1>8, <1>9 DEF Step

(* No step lets the count drift. *)
LEMMA StepCount ==
  ASSUME IInv, NEW t \in Threads,
         Acquire(t) \/ AcquireTry(t) \/ FutexInterrupted(t) \/ Step(t)
  PROVE  CountExact' /\ c' \in Nat
<1>. SUFFICES \/ t \notin Wanting /\ Wanting' = Wanting \cup {t} /\ c' = c + 1
              \/ t \in Wanting /\ Wanting' = Wanting \ {t} /\ c' = c - 1
              \/ Wanting' = Wanting /\ c' = c
  BY CountStep DEF IInv
<1>. USE DEF IInv, TypeOK, Goto, Wanting
<1>1. CASE Acquire(t) \/ AcquireTry(t)
  BY <1>1 DEF Acquire, AcquireTry
<1>2. CASE FutexInterrupted(t) \/ CasFail(t) \/ FutexWait(t) \/ TryFail(t)
  BY <1>2 DEF FutexInterrupted, CasFail, FutexWait, TryFail
<1>3. CASE CasOk(t) \/ TryOk(t) \/ ReleaseCas(t)
  BY <1>3 DEF CasOk, TryOk, ReleaseCas
<1>4. CASE Undo(t) \/ ReleaseDec(t)
  BY <1>4 DEF Undo, ReleaseDec
<1>5. CASE ReleaseWake(t)
  BY <1>5 DEF ReleaseWake, Sleepers
<1>. QED
  BY <1>1, <1>2, <1>3, <1>4, <1>5 DEF Step

(* No step leaves a sleeper on a free lock with nobody to wake it. *)
LEMMA StepWakeup ==
  ASSUME IInv, NEW t \in Threads,
         Acquire(t) \/ AcquireTry(t) \/ FutexInterrupted(t) \/ Step(t)
  PROVE  NoLostWakeup'
<1>. USE DEF IInv, TypeOK, Goto, NoLostWakeup, Active, Sleepers
<1>1. CASE Acquire(t) \/ AcquireTry(t)
  BY <1>1 DEF Acquire, AcquireTry
<1>2. CASE FutexInterrupted(t)
  BY <1>2 DEF FutexInterrupted
<1>3. CASE CasFail(t) \/ TryFail(t) \/ CasOk(t) \/ TryOk(t)
  BY <1>3 DEF CasFail, TryFail, CasOk, TryOk
<1>4. CASE FutexWait(t)
  BY <1>4 DEF FutexWait
<1>5. CASE Undo(t)
  BY <1>5 DEF Undo
<1>6. CASE ReleaseCas(t)
  BY <1>6 DEF ReleaseCas
<1>7. CASE ReleaseDec(t)
  <2>1. CASE c - 1 # 0
    BY <1>7, <2>1 DEF ReleaseDec
  <2>2. CASE c - 1 = 0
    <3>1. t \in Wanting
      BY <1>7 DEF ReleaseDec, Wanting
    <3>2. \A s \in Sleepers : s \in Wanting /\ s # t
      BY <1>7 DEF ReleaseDec, Wanting
    <3>3. Sleepers = {}
      BY <2>2, <3>1, <3>2, TwoWant
    <3>. QED
      BY <1>7, <2>2, <3>3 DEF ReleaseDec
  <2>. QED
    BY <2>1, <2>2
<1>8. CASE ReleaseWake(t)
  BY <1>8 DEF ReleaseWake
<1>. QED
  BY <1>1, <1>2, <1>3, <1>4, <1>5, <1>6, <1>7, <1>8 DEF Step

LEMMA NextInv == IInv /\ [Next]_vars => IInv'
<1>. SUFFICES ASSUME IInv, [Next]_vars PROVE IInv'
  OBVIOUS
<1>1. CASE UNCHANGED vars
  <2>1. UNCHANGED <<xchg, c, pc, timed>>
    BY <1>1 DEF vars
  <2>. QED
    BY <2>1 DEF IInv, TypeOK, MutualExclusion, HeldIffIn, CountExact, Wanting,
                NoLostWakeup, Sleepers, Active
<1>2. ASSUME NEW t \in Threads,
             Acquire(t) \/ AcquireTry(t) \/ FutexInterrupted(t) \/ Step(t)
      PROVE  IInv'
  BY <1>2, StepHeld, StepCount, StepWakeup DEF IInv, TypeOK
<1>. QED
  BY <1>1, <1>2 DEF Next

(* The inductive invariant: types, exclusion, the exact count and the      *)
(* pending wakeup hold in every reachable state, for any number of threads.*)
THEOREM Invariant == Spec => []IInv
  BY InitInv, NextInv, PTL DEF Spec

(* TypeOK holds of every behaviour. *)
THEOREM Typing == Spec => []TypeOK
  BY Invariant, PTL DEF IInv

(* AcquireSRWLockExclusive, its variants and ReleaseSRWLockExclusive       *)
(* exclude each other.                                                     *)
THEOREM Exclusion == Spec => []MutualExclusion
  BY Invariant, PTL DEF IInv

(* The counter of oscompatibility.c never drifts. *)
THEOREM Counting == Spec => []CountExact
  BY Invariant, PTL DEF IInv

(* The futex wakeup that the release skips is never the one a sleeper      *)
(* needs.                                                                  *)
THEOREM Wakeup == Spec => []NoLostWakeup
  BY Invariant, PTL DEF IInv

(* The holder the refinement mapping names is the thread inside. *)
LEMMA HolderIn ==
  ASSUME MutualExclusion
  PROVE  /\ \A t \in Threads : pc[t] = "in" => holder = t
         /\ (\A t \in Threads : pc[t] # "in") => holder = Nobody
BY DEF MutualExclusion, holder

LEMMA StepImplements ==
  ASSUME IInv, IInv', NEW t \in Threads,
         Acquire(t) \/ AcquireTry(t) \/ FutexInterrupted(t) \/ Step(t)
  PROVE  M!Next \/ UNCHANGED holder
<1>0. /\ \A u \in Threads : pc[u] = "in" => holder = u
      /\ (\A u \in Threads : pc[u] # "in") => holder = Nobody
  BY HolderIn DEF IInv
<1>00. /\ \A u \in Threads : pc'[u] = "in" => holder' = u
       /\ (\A u \in Threads : pc'[u] # "in") => holder' = Nobody
  <2>1. MutualExclusion'
    BY DEF IInv
  <2>. QED
    BY <2>1 DEF MutualExclusion, holder
<1>. USE <1>0, <1>00
<1>1. ASSUME \A u \in Threads : (pc'[u] = "in") <=> (pc[u] = "in")
      PROVE  UNCHANGED holder
  <2>1. CASE \E u \in Threads : pc[u] = "in"
    BY <1>1, <2>1
  <2>2. CASE \A u \in Threads : pc[u] # "in"
    BY <1>1, <2>2
  <2>. QED
    BY <2>1, <2>2
<1>2. CASE CasOk(t) \/ TryOk(t)
  <2>1. holder = Nobody /\ holder' = t
    BY <1>2 DEF CasOk, TryOk, Goto, IInv, TypeOK, HeldIffIn
  <2>. QED
    BY <2>1 DEF M!Next, M!Take
<1>3. CASE ReleaseCas(t)
  <2>1. holder = t /\ holder' = Nobody
    BY <1>3 DEF ReleaseCas, Goto, IInv, TypeOK, MutualExclusion
  <2>. QED
    BY <2>1 DEF M!Next, M!Give
<1>4. CASE Acquire(t) \/ AcquireTry(t) \/ FutexInterrupted(t) \/ CasFail(t)
        \/ FutexWait(t) \/ TryFail(t) \/ Undo(t) \/ ReleaseDec(t) \/ ReleaseWake(t)
  <2>1. \A u \in Threads : (pc'[u] = "in") <=> (pc[u] = "in")
    BY <1>4 DEF Acquire, AcquireTry, FutexInterrupted, CasFail, FutexWait, TryFail,
                Undo, ReleaseDec, ReleaseWake, Sleepers, Goto, IInv, TypeOK
  <2>. QED
    BY <2>1, <1>1
<1>. QED
  BY <1>2, <1>3, <1>4 DEF Step

LEMMA InitImplements == Init => M!Init
BY ThreadsAssumption DEF Init, M!Init, holder

LEMMA NextImplements == IInv /\ IInv' /\ [Next]_vars => [M!Next]_holder
<1>. SUFFICES ASSUME IInv, IInv', [Next]_vars PROVE M!Next \/ UNCHANGED holder
  OBVIOUS
<1>1. CASE UNCHANGED vars
  BY <1>1 DEF vars, holder
<1>2. ASSUME NEW t \in Threads,
             Acquire(t) \/ AcquireTry(t) \/ FutexInterrupted(t) \/ Step(t)
      PROVE  M!Next \/ UNCHANGED holder
  BY <1>2, StepImplements
<1>. QED
  BY <1>1, <1>2 DEF Next

(* Seen through its holder the futex lock is the mutex its callers rely    *)
(* on: every step takes a free lock, gives it up by its holder, or leaves  *)
(* the holder alone.                                                       *)
THEOREM Implements == Spec => MutexSpec
  BY Invariant, InitImplements, NextImplements, PTL DEF Spec, MutexSpec, M!Spec

=============================================================================
