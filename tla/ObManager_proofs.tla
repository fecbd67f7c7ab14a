--------------------------- MODULE ObManager_proofs ---------------------------
(***************************************************************************)
(* Theorems about the object manager.  The container: for any number of    *)
(* threads and objects the counts are exact, nothing is used after it was  *)
(* freed, and everything is freed once.  The collections: for any values,  *)
(* hashes and sizes the byte queue is a queue, the cache map a cache of    *)
(* the least recently used, and the hash indexes of the set and of the map *)
(* find exactly what is there.                                             *)
(***************************************************************************)
EXTENDS ObManager, FiniteSetTheorems, FunctionTheorems, SequenceTheorems, WellFoundedInduction,
        TLAPS

(***************************************************************************)
(* The container.                                                          *)
(***************************************************************************)
IInv == TypeOK /\ Locking /\ Reading /\ CountIsRefs /\ Alive /\ FreedOnce

Bit(b) == IF b THEN 1 ELSE 0

(* The references that a thread has to an object.                          *)
Weight(t, o) == Bit(Owns(t) /\ ob[t] = o) + Bit(Stores(t) /\ ob[t] = o)
                  + Bit(Removed(t) /\ old[t] = o)

(* A step of a thread changes nothing of the others.                       *)
Others(t) == \A u \in Threads : u # t => pc'[u] = pc[u] /\ ob'[u] = ob[u] /\ old'[u] = old[u]

(* Two sets of threads that differ in one thread at most.                  *)
LEMMA CardinalityOfChange ==
    ASSUME NEW S \in SUBSET Threads, NEW T \in SUBSET Threads, NEW t \in Threads,
           S \ {t} = T \ {t}
    PROVE  /\ Cardinality(S) \in Nat /\ Cardinality(T) \in Nat
           /\ Cardinality(T) = Cardinality(S) + Bit(t \in T) - Bit(t \in S)
           /\ Cardinality(S) >= Bit(t \in S)
<1> DEFINE D == S \ {t}
<1>1. IsFiniteSet(S) /\ IsFiniteSet(T) /\ IsFiniteSet(D)
    BY ThreadsAssumption, FS_Subset
<1>2. Cardinality(S) \in Nat /\ Cardinality(T) \in Nat /\ Cardinality(D) \in Nat
    BY <1>1, FS_CardinalityType
<1>3. Cardinality(S) = Cardinality(D) + Bit(t \in S)
  <2>1. CASE t \in S
    <3>1. S = D \cup {t} /\ t \notin D
        BY <2>1
    <3> QED BY <1>1, <1>2, <2>1, <3>1, FS_AddElement DEF Bit
  <2>2. CASE t \notin S
    <3>1. S = D
        BY <2>2
    <3>2. Bit(t \in S) = 0
        BY <2>2 DEF Bit
    <3> HIDE DEF D
    <3> QED BY <1>2, <3>1, <3>2
  <2> QED BY <2>1, <2>2
<1>4. Cardinality(T) = Cardinality(D) + Bit(t \in T)
  <2>1. CASE t \in T
    <3>1. T = D \cup {t} /\ t \notin D
        BY <2>1
    <3> QED BY <1>1, <1>2, <2>1, <3>1, FS_AddElement DEF Bit
  <2>2. CASE t \notin T
    <3>1. T = D
        BY <2>2
    <3>2. Bit(t \in T) = 0
        BY <2>2 DEF Bit
    <3> HIDE DEF D
    <3> QED BY <1>2, <3>1, <3>2
  <2> QED BY <2>1, <2>2
<1> QED BY <1>2, <1>3, <1>4 DEF Bit

(* What the count of an object covers.                                     *)
LEMMA CountCovers ==
    ASSUME CountIsRefs, NEW t \in Threads, NEW o \in Objects
    PROVE  count[o] >= Weight(t, o) + CellRef(o) /\ count[o] \in Nat
<1>1. /\ Cardinality(OwnRefs(o)) \in Nat
      /\ Cardinality(OwnRefs(o)) >= Bit(t \in OwnRefs(o))
    BY CardinalityOfChange DEF OwnRefs
<1>2. /\ Cardinality(StoreRefs(o)) \in Nat
      /\ Cardinality(StoreRefs(o)) >= Bit(t \in StoreRefs(o))
    BY CardinalityOfChange DEF StoreRefs
<1>3. /\ Cardinality(OldRefs(o)) \in Nat
      /\ Cardinality(OldRefs(o)) >= Bit(t \in OldRefs(o))
    BY CardinalityOfChange DEF OldRefs
<1>4. Weight(t, o) = Bit(t \in OwnRefs(o)) + Bit(t \in StoreRefs(o)) + Bit(t \in OldRefs(o))
    BY DEF Weight, OwnRefs, StoreRefs, OldRefs
<1> QED BY <1>1, <1>2, <1>3, <1>4 DEF CountIsRefs, CellRef, Bit

(* A step that moves the count of each object with the references of its   *)
(* thread and of the container keeps the counts exact.                     *)
LEMMA CountFollows ==
    ASSUME CountIsRefs, NEW t \in Threads, Others(t),
           \A o \in Objects :
               count'[o] = count[o] + Weight(t, o)' - Weight(t, o) + CellRef(o)' - CellRef(o)
    PROVE  CountIsRefs'
<1> SUFFICES ASSUME NEW o \in Objects
             PROVE  count'[o] = Cardinality(OwnRefs(o)') + Cardinality(StoreRefs(o)')
                                  + Cardinality(OldRefs(o)') + CellRef(o)'
    BY DEF CountIsRefs
<1>1. /\ Cardinality(OwnRefs(o)) \in Nat /\ Cardinality(OwnRefs(o)') \in Nat
      /\ Cardinality(OwnRefs(o)')
            = Cardinality(OwnRefs(o)) + Bit(t \in OwnRefs(o)') - Bit(t \in OwnRefs(o))
  <2>1. OwnRefs(o) \in SUBSET Threads /\ OwnRefs(o)' \in SUBSET Threads
      BY DEF OwnRefs
  <2>2. OwnRefs(o) \ {t} = OwnRefs(o)' \ {t}
      BY DEF OwnRefs, Owns, Others
  <2> QED BY <2>1, <2>2, CardinalityOfChange
<1>2. /\ Cardinality(StoreRefs(o)) \in Nat /\ Cardinality(StoreRefs(o)') \in Nat
      /\ Cardinality(StoreRefs(o)')
            = Cardinality(StoreRefs(o)) + Bit(t \in StoreRefs(o)') - Bit(t \in StoreRefs(o))
  <2>1. StoreRefs(o) \in SUBSET Threads /\ StoreRefs(o)' \in SUBSET Threads
      BY DEF StoreRefs
  <2>2. StoreRefs(o) \ {t} = StoreRefs(o)' \ {t}
      BY DEF StoreRefs, Stores, Others
  <2> QED BY <2>1, <2>2, CardinalityOfChange
<1>3. /\ Cardinality(OldRefs(o)) \in Nat /\ Cardinality(OldRefs(o)') \in Nat
      /\ Cardinality(OldRefs(o)')
            = Cardinality(OldRefs(o)) + Bit(t \in OldRefs(o)') - Bit(t \in OldRefs(o))
  <2>1. OldRefs(o) \in SUBSET Threads /\ OldRefs(o)' \in SUBSET Threads
      BY DEF OldRefs
  <2>2. OldRefs(o) \ {t} = OldRefs(o)' \ {t}
      BY DEF OldRefs, Removed, Others
  <2> QED BY <2>1, <2>2, CardinalityOfChange
<1>4. Weight(t, o) = Bit(t \in OwnRefs(o)) + Bit(t \in StoreRefs(o)) + Bit(t \in OldRefs(o))
    BY DEF Weight, OwnRefs, StoreRefs, OldRefs
<1>5. Weight(t, o)' = Bit(t \in OwnRefs(o)') + Bit(t \in StoreRefs(o)') + Bit(t \in OldRefs(o)')
    BY DEF Weight, OwnRefs, StoreRefs, OldRefs
<1>6. count[o] = Cardinality(OwnRefs(o)) + Cardinality(StoreRefs(o))
                   + Cardinality(OldRefs(o)) + CellRef(o)
    BY DEF CountIsRefs
<1> QED BY <1>1, <1>2, <1>3, <1>4, <1>5, <1>6 DEF Bit, CellRef

(***************************************************************************)
(* The invariant holds initially, and a step of any thread preserves it.   *)
(***************************************************************************)
(* The initial state: nothing is allocated, locked or held.                *)
LEMMA Initial == Init => IInv
<1> SUFFICES ASSUME Init PROVE IInv
    OBVIOUS
<1>1. TypeOK /\ Locking /\ Reading
    BY NoneAssumption DEF Init, TypeOK, Pc, Locking, Sharing, Excluding, Reading
<1>2. CountIsRefs
  <2> SUFFICES ASSUME NEW o \in Objects
               PROVE  count[o] = Cardinality(OwnRefs(o)) + Cardinality(StoreRefs(o))
                                   + Cardinality(OldRefs(o)) + CellRef(o)
      BY DEF CountIsRefs
  <2>1. OwnRefs(o) = {} /\ StoreRefs(o) = {} /\ OldRefs(o) = {}
      BY DEF Init, OwnRefs, StoreRefs, OldRefs, Owns, Stores, Removed
  <2>2. CellRef(o) = 0 /\ count[o] = 0
      BY NoneAssumption DEF Init, CellRef
  <2> QED BY <2>1, <2>2, FS_EmptySet
<1>3. Alive /\ FreedOnce
    BY DEF Init, Alive, FreedOnce, Frees
<1> QED BY <1>1, <1>2, <1>3 DEF IInv

(* A step of a thread changes nothing of the others.                       *)
LEMMA StepOfOne ==
    ASSUME TypeOK, NEW t \in Threads, Step(t)
    PROVE  Others(t)
<1> USE DEF TypeOK, Others, Goto
<1>1. CASE GetAcquire(t)
    BY <1>1 DEF GetAcquire
<1>2. CASE GetRead(t)
    BY <1>2 DEF GetRead
<1>3. CASE GetIncref(t)
    BY <1>3 DEF GetIncref, Incref
<1>4. CASE GetRelease(t)
    BY <1>4 DEF GetRelease
<1>5. CASE Drop(t)
    BY <1>5 DEF Drop, Decref, IsLast
<1>6. CASE Free(t)
    BY <1>6 DEF Free
<1>7. CASE \E o \in Objects : Alloc(t, o)
    BY <1>7 DEF Alloc
<1>8. CASE SetNull(t)
    BY <1>8 DEF SetNull
<1>9. CASE SetAcquire(t)
    BY <1>9 DEF SetAcquire
<1>10. CASE SetRead(t)
    BY <1>10 DEF SetRead
<1>11. CASE SetIncref(t)
    BY <1>11 DEF SetIncref, Incref
<1>12. CASE SetStore(t)
    BY <1>12 DEF SetStore
<1>13. CASE SetRelease(t)
    BY <1>13 DEF SetRelease
<1>14. CASE SetDecref(t)
    BY <1>14 DEF SetDecref, Decref, IsLast
<1>15. CASE SetFree(t)
    BY <1>15 DEF SetFree
<1>16. CASE Close(t)
    BY <1>16 DEF Close, InOperation
<1> QED
    BY <1>1, <1>2, <1>3, <1>4, <1>5, <1>6, <1>7, <1>8, <1>9, <1>10, <1>11, <1>12, <1>13,
       <1>14, <1>15, <1>16 DEF Step

(* A thread that is about to change a count knows that it is positive.     *)
LEMMA Positive ==
    ASSUME IInv, NEW t \in Threads, NEW o \in Objects,
           \/ Owns(t) /\ ob[t] = o
           \/ pc[t] = "getIncref" /\ ob[t] = o
           \/ Removed(t) /\ old[t] = o
           \/ pOb = o
    PROVE  count[o] \in Nat /\ count[o] > 0 /\ mem[o] = "live"
<1>1. count[o] >= Weight(t, o) + CellRef(o) /\ count[o] \in Nat
    BY CountCovers DEF IInv
<1>2. Weight(t, o) + CellRef(o) > 0
    BY DEF IInv, Reading, Weight, CellRef, Bit
<1>3. Weight(t, o) \in Nat /\ CellRef(o) \in Nat
    BY DEF Weight, CellRef, Bit
<1>4. count[o] > 0
    BY <1>1, <1>2, <1>3
<1> QED BY <1>1, <1>4 DEF IInv, Alive

(* Types; a decrement needs a positive count to stay within Nat.           *)
LEMMA TypeStep ==
    ASSUME IInv, NEW t \in Threads, Step(t)
    PROVE  TypeOK'
<1>0. \A o \in Objects :
        (pc[t] = "use" /\ ob[t] = o) \/ (pc[t] = "setDecref" /\ old[t] = o) => count[o] > 0
    BY Positive DEF Owns, Removed
<1> USE DEF IInv, TypeOK, Goto, Pc, lockVars
<1>1. CASE GetAcquire(t)
    BY <1>1 DEF GetAcquire
<1>2. CASE GetRead(t)
    BY <1>2 DEF GetRead
<1>3. CASE GetIncref(t)
    BY <1>3 DEF GetIncref, Incref
<1>4. CASE GetRelease(t)
    BY <1>4 DEF GetRelease
<1>5. CASE Drop(t)
    BY <1>5, <1>0 DEF Drop, Decref, IsLast
<1>6. CASE Free(t)
    BY <1>6 DEF Free
<1>7. CASE \E o \in Objects : Alloc(t, o)
    BY <1>7 DEF Alloc
<1>8. CASE SetNull(t)
    BY <1>8 DEF SetNull
<1>9. CASE SetAcquire(t)
    BY <1>9 DEF SetAcquire
<1>10. CASE SetRead(t)
    BY <1>10 DEF SetRead
<1>11. CASE SetIncref(t)
    BY <1>11 DEF SetIncref, Incref
<1>12. CASE SetStore(t)
    BY <1>12 DEF SetStore
<1>13. CASE SetRelease(t)
    BY <1>13 DEF SetRelease
<1>14. CASE SetDecref(t)
    BY <1>14, <1>0 DEF SetDecref, Decref, IsLast
<1>15. CASE SetFree(t)
    BY <1>15 DEF SetFree
<1>16. CASE Close(t)
    BY <1>16 DEF Close, InOperation
<1> QED
    BY <1>1, <1>2, <1>3, <1>4, <1>5, <1>6, <1>7, <1>8, <1>9, <1>10, <1>11, <1>12, <1>13,
       <1>14, <1>15, <1>16 DEF Step

(* The lock variables follow the threads that are in the critical sections. *)
LEMMA LockStep ==
    ASSUME IInv, NEW t \in Threads, Step(t)
    PROVE  Locking'
<1> USE NoneAssumption DEF IInv, TypeOK, Pc, Locking, Sharing, Excluding, Goto, lockVars
<1>1. CASE GetAcquire(t)
    BY <1>1 DEF GetAcquire
<1>2. CASE GetRead(t)
    BY <1>2 DEF GetRead
<1>3. CASE GetIncref(t)
    BY <1>3 DEF GetIncref, Incref
<1>4. CASE GetRelease(t)
    BY <1>4 DEF GetRelease
<1>5. CASE Drop(t)
    BY <1>5 DEF Drop, Decref, IsLast
<1>6. CASE Free(t)
    BY <1>6 DEF Free
<1>7. CASE \E o \in Objects : Alloc(t, o)
    BY <1>7 DEF Alloc
<1>8. CASE SetNull(t)
    BY <1>8 DEF SetNull
<1>9. CASE SetAcquire(t)
    BY <1>9 DEF SetAcquire
<1>10. CASE SetRead(t)
    BY <1>10 DEF SetRead
<1>11. CASE SetIncref(t)
    BY <1>11 DEF SetIncref, Incref
<1>12. CASE SetStore(t)
    BY <1>12 DEF SetStore
<1>13. CASE SetRelease(t)
    BY <1>13 DEF SetRelease
<1>14. CASE SetDecref(t)
    BY <1>14 DEF SetDecref, Decref, IsLast
<1>15. CASE SetFree(t)
    BY <1>15 DEF SetFree
<1>16. CASE Close(t)
    BY <1>16 DEF Close, InOperation
<1> QED
    BY <1>1, <1>2, <1>3, <1>4, <1>5, <1>6, <1>7, <1>8, <1>9, <1>10, <1>11, <1>12, <1>13,
       <1>14, <1>15, <1>16 DEF Step

(* What was read under the lock stays true until the lock is released:     *)
(* whoever stores excludes all others, and a close finds nobody inside.    *)
LEMMA ReadStep ==
    ASSUME IInv, NEW t \in Threads, Step(t)
    PROVE  Reading'
<1> USE NoneAssumption DEF IInv, TypeOK, Pc, Locking, Sharing, Excluding, Reading, Goto, lockVars
<1>1. CASE GetAcquire(t)
    BY <1>1 DEF GetAcquire
<1>2. CASE GetRead(t)
    BY <1>2 DEF GetRead
<1>3. CASE GetIncref(t)
    BY <1>3 DEF GetIncref, Incref
<1>4. CASE GetRelease(t)
    BY <1>4 DEF GetRelease
<1>5. CASE Drop(t)
    BY <1>5 DEF Drop, Decref, IsLast
<1>6. CASE Free(t)
    BY <1>6 DEF Free
<1>7. CASE \E o \in Objects : Alloc(t, o)
    BY <1>7 DEF Alloc
<1>8. CASE SetNull(t)
    BY <1>8 DEF SetNull
<1>9. CASE SetAcquire(t)
    BY <1>9 DEF SetAcquire
<1>10. CASE SetRead(t)
    BY <1>10 DEF SetRead
<1>11. CASE SetIncref(t)
    BY <1>11 DEF SetIncref, Incref
<1>12. CASE SetStore(t)
    BY <1>12 DEF SetStore
<1>13. CASE SetRelease(t)
    BY <1>13 DEF SetRelease
<1>14. CASE SetDecref(t)
    BY <1>14 DEF SetDecref, Decref, IsLast
<1>15. CASE SetFree(t)
    BY <1>15 DEF SetFree
<1>16. CASE Close(t)
    BY <1>16 DEF Close, InOperation
<1> QED
    BY <1>1, <1>2, <1>3, <1>4, <1>5, <1>6, <1>7, <1>8, <1>9, <1>10, <1>11, <1>12, <1>13,
       <1>14, <1>15, <1>16 DEF Step

(* The counts move with the references.                                    *)
LEMMA CountStep ==
    ASSUME IInv, NEW t \in Threads, Step(t)
    PROVE  CountIsRefs'
<1> SUFFICES ASSUME NEW o \in Objects
             PROVE  count'[o] = count[o] + Weight(t, o)' - Weight(t, o)
                                  + CellRef(o)' - CellRef(o)
    BY StepOfOne, CountFollows DEF IInv
<1>0. count[o] \in Nat
    BY DEF IInv, TypeOK
<1> USE NoneAssumption, <1>0
<1> USE DEF IInv, TypeOK, Reading, Weight, Owns, Stores, Removed, CellRef, Bit, Goto
<1>1. CASE GetAcquire(t)
    BY <1>1 DEF GetAcquire
<1>2. CASE GetRead(t)
    BY <1>2 DEF GetRead
<1>3. CASE GetIncref(t)
    BY <1>3 DEF GetIncref, Incref
<1>4. CASE GetRelease(t)
    BY <1>4 DEF GetRelease
<1>5. CASE Drop(t)
    BY <1>5 DEF Drop, Decref, IsLast
<1>6. CASE Free(t)
    BY <1>6 DEF Free
<1>7. CASE \E q \in Objects : Alloc(t, q)
    BY <1>7 DEF Alloc, Alive
<1>8. CASE SetNull(t)
    BY <1>8 DEF SetNull
<1>9. CASE SetAcquire(t)
    BY <1>9 DEF SetAcquire
<1>10. CASE SetRead(t)
    BY <1>10 DEF SetRead
<1>11. CASE SetIncref(t)
    BY <1>11 DEF SetIncref, Incref
<1>12. CASE SetStore(t)
    BY <1>12 DEF SetStore
<1>13. CASE SetRelease(t)
    BY <1>13 DEF SetRelease
<1>14. CASE SetDecref(t)
    BY <1>14 DEF SetDecref, Decref, IsLast
<1>15. CASE SetFree(t)
    BY <1>15 DEF SetFree
<1>16. CASE Close(t)
    BY <1>16 DEF Close, InOperation
<1> QED
    BY <1>1, <1>2, <1>3, <1>4, <1>5, <1>6, <1>7, <1>8, <1>9, <1>10, <1>11, <1>12, <1>13,
       <1>14, <1>15, <1>16 DEF Step

(* An object with a positive count stays, and the last drop makes its      *)
(* thread, and no other, the one that frees it.                            *)
LEMMA FreeStep ==
    ASSUME IInv, NEW t \in Threads, Step(t)
    PROVE  Alive' /\ FreedOnce'
<1>0. \A o \in Objects :
        \/ Owns(t) /\ ob[t] = o
        \/ pc[t] = "getIncref" /\ ob[t] = o
        \/ Removed(t) /\ old[t] = o
        => count[o] > 0 /\ mem[o] = "live"
    BY Positive
<1> USE NoneAssumption, <1>0
<1> USE DEF IInv, TypeOK, Reading, Alive, FreedOnce, Frees, Owns, Removed, Goto
<1>1. CASE GetAcquire(t)
    BY <1>1 DEF GetAcquire
<1>2. CASE GetRead(t)
    BY <1>2 DEF GetRead
<1>3. CASE GetIncref(t)
    BY <1>3 DEF GetIncref, Incref
<1>4. CASE GetRelease(t)
    BY <1>4 DEF GetRelease
<1>5. CASE Drop(t)
    BY <1>5 DEF Drop, Decref, IsLast
<1>6. CASE Free(t)
    BY <1>6 DEF Free
<1>7. CASE \E o \in Objects : Alloc(t, o)
    BY <1>7 DEF Alloc
<1>8. CASE SetNull(t)
    BY <1>8 DEF SetNull
<1>9. CASE SetAcquire(t)
    BY <1>9 DEF SetAcquire
<1>10. CASE SetRead(t)
    BY <1>10 DEF SetRead
<1>11. CASE SetIncref(t)
    BY <1>11 DEF SetIncref, Incref
<1>12. CASE SetStore(t)
    BY <1>12 DEF SetStore
<1>13. CASE SetRelease(t)
    BY <1>13 DEF SetRelease
<1>14. CASE SetDecref(t)
    BY <1>14 DEF SetDecref, Decref, IsLast
<1>15. CASE SetFree(t)
    BY <1>15 DEF SetFree
<1>16. CASE Close(t)
    BY <1>16 DEF Close, InOperation
<1> QED
    BY <1>1, <1>2, <1>3, <1>4, <1>5, <1>6, <1>7, <1>8, <1>9, <1>10, <1>11, <1>12, <1>13,
       <1>14, <1>15, <1>16 DEF Step

(***************************************************************************)
(* The theorems.                                                           *)
(***************************************************************************)
(* The invariant that the others follow from: with the exact counts it     *)
(* keeps what the lock excludes, what a thread has read under the lock,    *)
(* and that a counted object is allocated.                                 *)
THEOREM Invariant == Spec => []IInv
<1>1. IInv /\ [Next]_vars => IInv'
  <2> SUFFICES ASSUME IInv, [Next]_vars PROVE IInv'
      OBVIOUS
  <2>1. CASE UNCHANGED vars
      BY <2>1 DEF IInv, TypeOK, Locking, Sharing, Excluding, Reading, CountIsRefs, OwnRefs,
         StoreRefs, OldRefs, CellRef, Owns, Stores, Removed, Alive, FreedOnce, Frees, vars,
         lockVars
  <2>2. ASSUME NEW t \in Threads, Step(t) PROVE IInv'
      BY <2>2, TypeStep, LockStep, ReadStep, CountStep, FreeStep DEF IInv
  <2> QED BY <2>1, <2>2 DEF Next
<1> QED BY <1>1, Initial, PTL DEF Spec

(* Every variable keeps its type; in particular no count becomes negative. *)
THEOREM Typing == Spec => []TypeOK
<1>1. IInv => TypeOK
    BY DEF IInv
<1> QED BY <1>1, Invariant, PTL

(* The count of an object is at any time the number of references to it.   *)
THEOREM Counts == Spec => []CountIsRefs
<1>1. IInv => CountIsRefs
    BY DEF IInv
<1> QED BY <1>1, Invariant, PTL

(* No thread reads, counts, uses, stores or frees an object that was freed. *)
THEOREM UseBeforeFree == Spec => []NoUseAfterFree
<1>1. IInv => NoUseAfterFree
  <2> SUFFICES ASSUME IInv, NEW t \in Threads, NEW o \in Objects, Touches(t, o)
               PROVE  mem[o] = "live"
      BY DEF NoUseAfterFree
  <2>1. CASE Frees(t, o)
      BY <2>1 DEF IInv, Alive
  <2>2. CASE ~Frees(t, o)
    <3>1. \/ Owns(t) /\ ob[t] = o
          \/ pc[t] = "getIncref" /\ ob[t] = o
          \/ Removed(t) /\ old[t] = o
          \/ pOb = o
        BY <2>2, NoneAssumption DEF Touches, Frees, IInv, TypeOK, Pc, Reading, Owns, Removed
    <3> QED BY <3>1, Positive
  <2> QED BY <2>1, <2>2
<1> QED BY <1>1, Invariant, PTL

(* An object whose count reached zero is freed by exactly one thread.      *)
THEOREM OneFree == Spec => []FreedOnce
<1>1. IInv => FreedOnce
    BY DEF IInv
<1> QED BY <1>1, Invariant, PTL
(***************************************************************************)
(* Numbers and recursion.                                                  *)
(***************************************************************************)
(* A set of natural numbers has a least element.                           *)
LEMMA NatMin ==
  ASSUME NEW S \in SUBSET Nat, S # {}
  PROVE  \E k \in S : \A l \in S : k <= l
<1>1. PICK x \in S : \A y \in S : <<y, x>> \notin OpToRel(<, Nat)
  BY NatLessThanWellFounded, WFMin, Zenon
<1>2. \A y \in S : ~(y < x)
  BY <1>1 DEF OpToRel
<1>. QED
  BY <1>2

(* n steps of a function from X to X, from b on, each of which may depend  *)
(* on its number.                                                          *)
Stepped(f, n, X, b, F) ==
    f \in [0..n -> X] /\ f[0] = b /\ \A d \in 1..n : f[d] = F[<<f[d - 1], d>>]

LEMMA Steps ==
  ASSUME NEW X, NEW b \in X, NEW n \in Nat, NEW D, D = X \X (1..n), NEW F \in [D -> X]
  PROVE  \E f : Stepped(f, n, X, b, F)
<1>. DEFINE Is(f, m) == f[0] = b /\ \A d \in 1..m : f[d] = F[<<f[d - 1], d>>]
            Bad == {m \in 0..n : ~\E f \in [0..m -> X] : Is(f, m)}
<1>1. SUFFICES ASSUME Bad # {} PROVE FALSE
  <2>1. n \in 0..n
    OBVIOUS
  <2>. QED
    BY <2>1 DEF Stepped
<1>2. PICK m \in Bad : \A l \in Bad : m <= l
  <2>1. Bad \in SUBSET Nat
    OBVIOUS
  <2>. HIDE DEF Bad
  <2>. QED
    BY <1>1, <2>1, NatMin
<1>3. CASE m = 0
  <2>1. [d \in 0..0 |-> b] \in [0..m -> X] /\ Is([d \in 0..0 |-> b], m)
    BY <1>3
  <2>. QED
    BY <1>2, <2>1
<1>4. CASE m # 0
  <2>1. m \in 1..n /\ m - 1 \in 0..n /\ m - 1 \notin Bad
    BY <1>2, <1>4
  <2>2. PICK f \in [0..(m - 1) -> X] : Is(f, m - 1)
    <3>. HIDE DEF Is
    <3>. QED
      BY <2>1
  <2>3. f[m - 1] \in X
    BY <2>1, <2>2
  <2>. DEFINE g == [d \in 0..m |-> IF d = m THEN F[<<f[m - 1], m>>] ELSE f[d]]
  <2>4. g \in [0..m -> X]
    <3>1. F[<<f[m - 1], m>>] \in X
      BY <2>1, <2>3
    <3>2. \A d \in 0..m : d # m => f[d] \in X
      BY <2>1, <2>2
    <3>. QED
      BY <3>1, <3>2
  <2>5. ASSUME NEW d \in 1..m PROVE g[d] = F[<<g[d - 1], d>>]
    <3>1. CASE d = m
      <4>1. d \in 0..m /\ d - 1 \in 0..m /\ d - 1 # m /\ d - 1 = m - 1
        BY <2>1, <3>1
      <4>2. g[d] = F[<<f[m - 1], m>>] /\ g[d - 1] = f[d - 1]
        BY <3>1, <4>1
      <4>. HIDE DEF g
      <4>. QED
        BY <3>1, <4>1, <4>2
    <3>2. CASE d # m
      <4>1. d \in 1..(m - 1) /\ d - 1 \in 0..m /\ d \in 0..m /\ d - 1 # m
        BY <2>1, <3>2
      <4>2. g[d] = f[d] /\ g[d - 1] = f[d - 1]
        BY <3>2, <4>1
      <4>3. f[d] = F[<<f[d - 1], d>>]
        BY <2>2, <4>1
      <4>. QED
        BY <4>2, <4>3
    <3>. QED
      BY <3>1, <3>2
  <2>6. g[0] = b
    BY <2>1, <2>2
  <2>. QED
    BY <1>2, <2>4, <2>5, <2>6
<1>. QED
  BY <1>3, <1>4 DEF Stepped

(* Sums modulo n.                                                          *)
LEMMA Modulo ==
  ASSUME NEW n \in Nat \ {0}, NEW a \in 0..(n - 1), NEW b \in 0..n
  PROVE  (a + b) % n = IF a + b < n THEN a + b ELSE a + b - n
OBVIOUS

LEMMA ModuloIn ==
  ASSUME NEW n \in Nat \ {0}, NEW a \in Nat
  PROVE  a % n \in 0..(n - 1)
OBVIOUS

(* Sequences as functions.                                                 *)
LEMMA AppendIs ==
  ASSUME NEW S, NEW s \in Seq(S), NEW e
  PROVE  Append(s, e) = [i \in 1..(Len(s) + 1) |-> IF i = Len(s) + 1 THEN e ELSE s[i]]
<1>. DEFINE n == Len(s)
            t == Append(s, e)
            f == [i \in 1..(n + 1) |-> IF i = n + 1 THEN e ELSE s[i]]
<1>1. s \in Seq(S \cup {e}) /\ e \in S \cup {e} /\ n \in Nat
  OBVIOUS
<1>2. /\ t \in Seq(S \cup {e}) /\ Len(t) = n + 1
      /\ \A i \in 1..n : t[i] = s[i] /\ t[n + 1] = e
  BY <1>1
<1>. HIDE DEF t, n
<1>3. DOMAIN t = 1..(n + 1) /\ t = [i \in DOMAIN t |-> t[i]]
  BY <1>1, <1>2
<1>4. ASSUME NEW i \in 1..(n + 1) PROVE t[i] = f[i]
  <2>1. i = n + 1 \/ i \in 1..n
    BY <1>1
  <2>2. t[n + 1] = e
    BY <1>1, <1>2 DEF t, n
  <2>. QED
    BY <1>2, <2>1, <2>2
<1>5. t = f
  <2>. HIDE DEF f
  <2>1. f = [i \in 1..(n + 1) |-> f[i]]
    BY DEF f
  <2>. QED
    BY <1>3, <1>4, <2>1
<1>. QED
  BY <1>5 DEF t, n

LEMMA TailIs ==
  ASSUME NEW S, NEW s \in Seq(S), s # <<>>
  PROVE  Tail(s) = [i \in 1..(Len(s) - 1) |-> s[i + 1]]
<1>. DEFINE n == Len(s)
            t == Tail(s)
            f == [i \in 1..(n - 1) |-> s[i + 1]]
<1>1. /\ n \in Nat \ {0} /\ t \in Seq(S) /\ Len(t) = n - 1
      /\ \A i \in 1..(n - 1) : t[i] = s[i + 1]
  OBVIOUS
<1>. HIDE DEF t, n
<1>2. DOMAIN t = 1..(n - 1) /\ t = [i \in DOMAIN t |-> t[i]]
  BY <1>1
<1>3. t = f
  <2>1. \A i \in 1..(n - 1) : t[i] = f[i]
    BY <1>1
  <2>. HIDE DEF f
  <2>2. f = [i \in 1..(n - 1) |-> f[i]]
    BY DEF f
  <2>. QED
    BY <1>2, <2>1, <2>2
<1>. QED
  BY <1>3 DEF t, n

LEMMA InSeq ==
  ASSUME NEW S, NEW n \in Nat, NEW s \in [1..n -> S]
  PROVE  s \in Seq(S)
<1>1. \E m \in Nat : s \in [1..m -> S]
  OBVIOUS
<1>2. s \in UNION {[1..m -> S] : m \in Nat}
  BY <1>1, Zenon
<1>. QED
  BY <1>2, SeqDef, Zenon

(* A function with one value replaced.                                     *)
Redirected(f, x, y) == [f EXCEPT ![x] = y]

(***************************************************************************)
(* The byte queue.                                                         *)
(***************************************************************************)
Offsets == 0..(QueueBytes - 1)
Slots == [p : QPackets \cup {<<>>}, next : Nat]

QueueType ==
    /\ cPackets \in Nat /\ cboHead \in Nat /\ cboTail \in Nat
    /\ ring \in [Offsets -> Slots]

(* The packets are at w[1], ..., w[cPackets].  The first k of them lie in  *)
(* this order, the others, which came after the end of the ring was        *)
(* reached, lie before them in this order.                                 *)
EndIn(r, x) == x + Bytes(r[x].p)
Laid(r, w, n, k) ==
    /\ w \in [1..n -> Offsets] /\ (k \in 1..n \/ (n = 0 /\ k = 0))
    /\ \A i \in 1..n : r[w[i]].p \in QPackets /\ EndIn(r, w[i]) <= QueueBytes
    /\ \A i \in 1..n : i < n => r[w[i]].next = w[i + 1]
    /\ \A i, j \in 1..n : i < j => IF i <= k /\ k < j THEN EndIn(r, w[j]) <= w[i]
                                                      ELSE EndIn(r, w[i]) <= w[j]

QueueInv ==
    /\ QueueType
    /\ IF cPackets = 0 THEN cboHead = 0 /\ cboTail = 0
       ELSE \E k \in 1..cPackets, w \in [1..cPackets -> Offsets] :
              Laid(ring, w, cPackets, k) /\ w[1] = cboHead /\ w[cPackets] = cboTail

(* Walking from the head along the offsets meets the packets in order.     *)
LEMMA PacketsFromIs ==
  ASSUME NEW r, NEW n \in Nat \ {0}, NEW k, NEW w, Laid(r, w, n, k)
  PROVE  PacketsFrom(r, w[1], n) = [i \in 1..n |-> r[w[i]].p]
<1>. DEFINE Walk(f) == [i \in 1..n |-> IF i = 1 THEN w[1] ELSE r[f[i - 1]].next]
<1>0. /\ w \in [1..n -> Offsets]
      /\ \A i \in 1..n : i < n => r[w[i]].next = w[i + 1]
  BY DEF Laid
<1>1. w = Walk(w)
  <2>1. ASSUME NEW i \in 1..n PROVE w[i] = IF i = 1 THEN w[1] ELSE r[w[i - 1]].next
    BY <1>0
  <2>. HIDE <1>0
  <2>. QED
    BY <1>0, <2>1
<1>. DEFINE at == CHOOSE f : f = Walk(f)
<1>2. at = Walk(at)
  <2>. HIDE DEF Walk
  <2>. QED
    BY <1>1
<1>3. PacketsFrom(r, w[1], n) = [i \in 1..n |-> r[at[i]].p]
  BY DEF PacketsFrom
<1>. HIDE DEF at
<1>4. \A i \in 1..n : at[i] = IF i = 1 THEN w[1] ELSE r[at[i - 1]].next
  BY <1>2
<1>. DEFINE Bad == {i \in 1..n : at[i] # w[i]}
<1>5. Bad = {}
  <2>. SUFFICES ASSUME Bad # {} PROVE FALSE
    OBVIOUS
  <2>1. PICK i \in Bad : \A l \in Bad : i <= l
    <3>1. Bad \in SUBSET Nat
      OBVIOUS
    <3>. HIDE DEF Bad
    <3>. QED
      BY <3>1, NatMin
  <2>2. i \in 1..n /\ i # 1
    BY <1>4, <2>1
  <2>3. i - 1 \in 1..n /\ i - 1 \notin Bad
    BY <2>1, <2>2
  <2>4. at[i] = r[w[i - 1]].next
    BY <1>4, <2>2, <2>3
  <2>. QED
    BY <1>0, <2>1, <2>2, <2>3, <2>4
<1>. QED
  BY <1>3, <1>5

LEMMA PacketBytes ==
  ASSUME NEW p \in QPackets
  PROVE  Bytes(p) \in Nat \ {0} /\ p # <<>>
<1>1. p = <<p[1], p[2]>> /\ p[2] \in Nat /\ Header \in Nat \ {0}
  BY QueueAssumption
<1>2. p # <<>>
  BY <1>1
<1>. QED
  BY <1>1, <1>2 DEF Bytes

(* What the places of packets have to do with each other.                  *)
LEMMA LaidIs ==
  ASSUME QueueType, NEW n \in Nat \ {0}, NEW k, NEW w, Laid(ring, w, n, k)
  PROVE  /\ k \in 1..n
         /\ \A i \in 1..n : /\ w[i] \in Nat /\ EndIn(ring, w[i]) \in Nat /\ w[i] \in Offsets
                            /\ w[i] < EndIn(ring, w[i]) /\ EndIn(ring, w[i]) <= QueueBytes
                            /\ ring[w[i]].p \in QPackets
         /\ \A i, j \in 1..n : i # j => w[i] # w[j]
<1>1. ASSUME NEW i \in 1..n
      PROVE  /\ w[i] \in Nat /\ EndIn(ring, w[i]) \in Nat /\ w[i] \in Offsets
             /\ w[i] < EndIn(ring, w[i]) /\ EndIn(ring, w[i]) <= QueueBytes
             /\ ring[w[i]].p \in QPackets
  <2>1. w[i] \in Offsets /\ ring[w[i]].p \in QPackets /\ EndIn(ring, w[i]) <= QueueBytes
    BY DEF Laid
  <2>2. Bytes(ring[w[i]].p) \in Nat \ {0}
    BY <2>1, PacketBytes
  <2>3. w[i] \in Nat
    BY <2>1, QueueAssumption DEF Offsets
  <2>. QED
    BY <2>1, <2>2, <2>3 DEF EndIn
<1>2. ASSUME NEW i \in 1..n, NEW j \in 1..n, i < j PROVE w[i] # w[j]
  <2>1. IF i <= k /\ k < j THEN EndIn(ring, w[j]) <= w[i] ELSE EndIn(ring, w[i]) <= w[j]
    BY <1>2 DEF Laid
  <2>. QED
    BY <1>1, <2>1
<1>3. k \in 1..n
  BY DEF Laid
<1>4. ASSUME NEW i \in 1..n, NEW j \in 1..n, i # j PROVE w[i] # w[j]
  <2>1. i < j \/ j < i
    BY <1>4
  <2>. QED
    BY <1>2, <2>1
<1>. QED
  BY <1>1, <1>3, <1>4

(* A packet is placed in front of all others of its round, and does not    *)
(* reach those of the round before.                                        *)
LEMMA PlaceIs ==
  ASSUME QueueType, NEW k, NEW w, cPackets # 0, Laid(ring, w, cPackets, k),
         w[1] = cboHead, w[cPackets] = cboTail, NEW p \in QPackets, Place(p) # -1
  PROVE  /\ Place(p) \in Offsets /\ Place(p) + Bytes(p) <= QueueBytes
         /\ \E l \in {k, cPackets + 1} :
              /\ k < cPackets => l = k
              /\ \A i \in 1..cPackets : IF i <= k /\ l = k THEN Place(p) + Bytes(p) <= w[i]
                                        ELSE EndIn(ring, w[i]) <= Place(p)
<1>. DEFINE n == cPackets
            x == Place(p)
            b == Bytes(p)
            end == EndIn(ring, w[n])
<1>1. n \in Nat \ {0} /\ cboHead \in Nat /\ cboTail \in Nat /\ QueueBytes \in Nat
  BY QueueAssumption DEF QueueType
<1>2. /\ k \in 1..n
      /\ \A i \in 1..n : /\ w[i] \in Nat /\ EndIn(ring, w[i]) \in Nat
                         /\ w[i] < EndIn(ring, w[i]) /\ EndIn(ring, w[i]) <= QueueBytes
  BY <1>1, LaidIs
<1>3. \A i, j \in 1..n : i < j => IF i <= k /\ k < j THEN EndIn(ring, w[j]) <= w[i]
                                                     ELSE EndIn(ring, w[i]) <= w[j]
  BY DEF Laid
<1>4. b \in Nat \ {0}
  BY PacketBytes
<1>5. EndOf(cboTail) = end /\ end \in Nat /\ cboTail < end /\ end <= QueueBytes
  <2>1. EndOf(cboTail) = end
    BY DEF EndOf, EndIn
  <2>. QED
    BY <1>1, <1>2, <2>1
<1>6. \/ Space(end) >= b /\ x = end
      \/ cboTail > cboHead /\ cboHead >= b /\ x = 0
  BY <1>5 DEF Place
<1>7. \A i \in 1..n : i <= k => cboHead <= w[i]
  <2>. SUFFICES ASSUME NEW i \in 1..n, i <= k PROVE w[1] <= w[i]
    OBVIOUS
  <2>1. CASE i = 1
    BY <1>2, <2>1
  <2>2. CASE i # 1
    <3>1. 1 \in 1..n /\ 1 < i /\ ~(k < i)
      BY <1>1, <1>2, <2>2
    <3>2. EndIn(ring, w[1]) <= w[i]
      BY <1>3, <3>1
    <3>. QED
      BY <1>2, <3>1, <3>2
  <2>. QED
    BY <2>1, <2>2
<1>8. \A i \in 1..n : k < i \/ k = n => EndIn(ring, w[i]) <= end
  <2>. SUFFICES ASSUME NEW i \in 1..n, k < i \/ k = n PROVE EndIn(ring, w[i]) <= end
    OBVIOUS
  <2>1. CASE i = n
    BY <1>2, <2>1
  <2>2. CASE i # n
    <3>1. n \in 1..n /\ i < n /\ ~(i <= k /\ k < n)
      BY <1>1, <1>2, <2>2
    <3>2. EndIn(ring, w[i]) <= w[n]
      BY <1>3, <3>1
    <3>. QED
      BY <1>2, <3>1, <3>2
  <2>. QED
    BY <2>1, <2>2
<1>9. k < n => end <= cboHead
  <2>. SUFFICES ASSUME k < n PROVE end <= w[1]
    OBVIOUS
  <2>1. 1 \in 1..n /\ n \in 1..n /\ 1 < n /\ 1 <= k
    BY <1>1, <1>2
  <2>. QED
    BY <1>3, <2>1
<1>10. k = n => cboHead < end
  <2>. SUFFICES ASSUME k = n PROVE w[1] < end
    OBVIOUS
  <2>1. w[1] < EndIn(ring, w[1]) /\ EndIn(ring, w[1]) <= end
    BY <1>1, <1>2, <1>8
  <2>. QED
    BY <1>1, <1>2, <1>5, <2>1
<1>. HIDE DEF end, x, b
<1>11. CASE Space(end) >= b /\ x = end
  <2>1. CASE k = n
    <3>1. x + b <= QueueBytes /\ x \in Offsets
      BY <1>1, <1>4, <1>5, <1>10, <1>11, <2>1 DEF Space, Offsets
    <3>2. \A i \in 1..n : EndIn(ring, w[i]) <= x
      BY <1>8, <1>11, <2>1
    <3>3. k # n + 1 /\ ~(k < n)
      BY <1>1, <2>1
    <3>4. \A i \in 1..n : IF i <= k /\ n + 1 = k THEN x + b <= w[i] ELSE EndIn(ring, w[i]) <= x
      BY <3>2, <3>3
    <3>5. \E l \in {k, n + 1} :
            /\ k < n => l = k
            /\ \A i \in 1..n : IF i <= k /\ l = k THEN x + b <= w[i] ELSE EndIn(ring, w[i]) <= x
      BY <3>3, <3>4
    <3>. QED
      BY <3>1, <3>5 DEF x, b
  <2>2. CASE k < n
    <3>1. x + b <= cboHead
      BY <1>1, <1>4, <1>5, <1>9, <1>11, <2>2 DEF Space
    <3>0. cboHead < QueueBytes
      BY <1>1, <1>2
    <3>2. x + b <= QueueBytes /\ x \in Offsets
      BY <1>1, <1>4, <1>5, <1>11, <3>0, <3>1 DEF Offsets
    <3>3. \A i \in 1..n : i <= k => x + b <= w[i]
      BY <1>1, <1>2, <1>4, <1>5, <1>7, <1>11, <3>1
    <3>4. \A i \in 1..n : ~(i <= k) => EndIn(ring, w[i]) <= x
      BY <1>2, <1>8, <1>11
    <3>. QED
      BY <2>2, <3>2, <3>3, <3>4 DEF x, b
  <2>. QED
    BY <1>1, <1>2, <2>1, <2>2
<1>12. CASE cboTail > cboHead /\ cboHead >= b /\ x = 0
  <2>1. k = n
    BY <1>1, <1>2, <1>5, <1>9, <1>12
  <2>2. cboHead < QueueBytes
    BY <1>1, <1>2
  <2>3. x + b <= QueueBytes /\ x \in Offsets
    BY <1>1, <1>4, <1>12, <2>2 DEF Offsets
  <2>4. \A i \in 1..n : i <= k /\ x + b <= w[i]
    BY <1>1, <1>2, <1>4, <1>7, <1>12, <2>1
  <2>. QED
    BY <2>1, <2>3, <2>4 DEF x, b
<1>. QED
  BY <1>6, <1>11, <1>12

LEMMA PushRing ==
  ASSUME QueueType, NEW k, NEW w, cPackets # 0, Laid(ring, w, cPackets, k),
         w[1] = cboHead, w[cPackets] = cboTail, NEW p \in QPackets, QueuePush(p)
  PROVE  /\ cPackets' = cPackets + 1 /\ cboHead' = cboHead /\ cboTail' = Place(p)
         /\ ring' \in [Offsets -> Slots]
         /\ ring'[Place(p)].p = p
         /\ \A i \in 1..cPackets :
              /\ ring'[w[i]].p = ring[w[i]].p
              /\ ring'[w[i]].next = IF i = cPackets THEN Place(p) ELSE ring[w[i]].next
<1>. DEFINE n == cPackets
            x == Place(p)
            New(y) == IF y = x THEN [p |-> p, next |-> 0]
                      ELSE IF ring[y].p # <<>> /\ y < x + Bytes(p) /\ EndOf(y) > x THEN Nothing
                      ELSE IF y = cboTail /\ cPackets > 0 THEN [ring[y] EXCEPT !.next = x]
                      ELSE ring[y]
<1>1. /\ cPackets' = n + 1 /\ cboTail' = x /\ cboHead' = cboHead /\ x # -1
      /\ ring' = [y \in DOMAIN ring |-> New(y)]
  BY DEF QueuePush
<1>2. n \in Nat \ {0} /\ DOMAIN ring = Offsets /\ \A y \in Offsets : ring[y] \in Slots
  BY DEF QueueType
<1>3. /\ x \in Offsets
      /\ \A i \in 1..n : x + Bytes(p) <= w[i] \/ EndIn(ring, w[i]) <= x
  BY <1>1, PlaceIs
<1>4. x \in Nat /\ Bytes(p) \in Nat \ {0} /\ p \in QPackets /\ <<>> # p
  <2>1. x \in Nat
    BY <1>3, QueueAssumption DEF Offsets
  <2>. QED
    BY <2>1, PacketBytes
<1>5. /\ \A i \in 1..n : /\ w[i] \in Nat /\ EndIn(ring, w[i]) \in Nat /\ w[i] \in Offsets
                         /\ w[i] < EndIn(ring, w[i]) /\ ring[w[i]].p \in QPackets
      /\ \A i, j \in 1..n : i # j => w[i] # w[j]
  BY <1>2, LaidIs
<1>. HIDE DEF x
<1>6. ring' \in [Offsets -> Slots]
  <2>1. ASSUME NEW y \in Offsets PROVE New(y) \in Slots
    <3>1. [p |-> p, next |-> 0] \in Slots
      BY <1>4 DEF Slots
    <3>2. Nothing \in Slots
      BY DEF Slots, Nothing
    <3>3. ring[y] \in Slots /\ [ring[y] EXCEPT !.next = x] \in Slots
      BY <1>2, <1>4 DEF Slots
    <3>. QED
      BY <3>1, <3>2, <3>3
  <2>. HIDE DEF New
  <2>. QED
    BY <1>1, <1>2, <2>1
<1>7. ring'[x].p = p
  <2>1. ring'[x] = [p |-> p, next |-> 0]
    BY <1>1, <1>2, <1>3
  <2>. QED
    BY <2>1
<1>8. ASSUME NEW i \in 1..n
      PROVE  /\ ring'[w[i]].p = ring[w[i]].p
             /\ ring'[w[i]].next = IF i = n THEN x ELSE ring[w[i]].next
  <2>1. ring'[w[i]] = New(w[i])
    BY <1>1, <1>2, <1>5
  <2>2. EndOf(w[i]) = EndIn(ring, w[i])
    BY DEF EndOf, EndIn
  <2>3. w[i] # x /\ ~(w[i] < x + Bytes(p) /\ EndOf(w[i]) > x)
    BY <1>3, <1>4, <1>5, <2>2
  <2>4. w[i] = cboTail <=> i = n
    BY <1>2, <1>5
  <2>5. ring'[w[i]] = IF i = n THEN [ring[w[i]] EXCEPT !.next = x] ELSE ring[w[i]]
    BY <1>2, <2>1, <2>3, <2>4
  <2>6. ring[w[i]] \in Slots
    BY <1>2, <1>5
  <2>. QED
    BY <2>5, <2>6 DEF Slots
<1>. QED
  BY <1>1, <1>6, <1>7, <1>8 DEF x

LEMMA PushStep ==
  ASSUME QueueInv, NEW p \in QPackets, QueuePush(p)
  PROVE  QueueInv' /\ Pending' = Append(Pending, p)
<1>1. QueueType /\ cPackets \in Nat
  BY DEF QueueInv, QueueType
<1>2. Bytes(p) \in Nat \ {0} /\ p # <<>>
  BY PacketBytes
<1>3. CASE cPackets = 0
  <2>1. /\ cPackets' = 1 /\ cboHead' = 0 /\ cboTail' = 0 /\ Bytes(p) <= QueueBytes
        /\ ring' = [y \in DOMAIN ring |->
                  IF y = 0 THEN [p |-> p, next |-> 0]
                  ELSE IF ring[y].p # <<>> /\ y < 0 + Bytes(p) /\ EndOf(y) > 0 THEN Nothing
                  ELSE ring[y]]
    <3>1. Place(p) = 0 /\ Bytes(p) <= QueueBytes
      BY <1>2, <1>3, QueueAssumption DEF Place, QueuePush
    <3>2. cPackets' = 1 /\ cboTail' = Place(p) /\ cboHead' = 0
      BY <1>3 DEF QueuePush, QueueInv
    <3>3. ring' = [y \in DOMAIN ring |->
                  IF y = Place(p) THEN [p |-> p, next |-> 0]
                  ELSE IF ring[y].p # <<>> /\ y < Place(p) + Bytes(p) /\ EndOf(y) > Place(p)
                  THEN Nothing
                  ELSE IF y = cboTail /\ cPackets > 0 THEN [ring[y] EXCEPT !.next = Place(p)]
                  ELSE ring[y]]
      BY DEF QueuePush
    <3>4. ~(cPackets > 0)
      BY <1>3
    <3>. HIDE DEF Place
    <3>. QED
      BY <3>1, <3>2, <3>3, <3>4
  <2>2. 0 \in Offsets /\ DOMAIN ring = Offsets /\ \A y \in Offsets : ring[y] \in Slots
    BY <1>1, <1>2, <2>1, QueueAssumption DEF Offsets, QueueType
  <2>3. ring' \in [Offsets -> Slots] /\ ring'[0].p = p
    <3>1. [p |-> p, next |-> 0] \in Slots /\ Nothing \in Slots
      BY DEF Slots, Nothing
    <3>2. ring'[0] = [p |-> p, next |-> 0]
      BY <2>1, <2>2
    <3>3. ring' \in [Offsets -> Slots]
      BY <2>1, <2>2, <3>1
    <3>. QED
      BY <3>2, <3>3
  <2>. DEFINE w == [i \in 1..1 |-> 0]
  <2>4. Laid(ring', w, 1, 1)
    BY <1>2, <2>1, <2>2, <2>3 DEF Laid, EndIn
  <2>5. QueueInv'
    <3>1. QueueType'
      BY <2>1, <2>3 DEF QueueType
    <3>2. 1 \in 1..1 /\ w \in [1..1 -> Offsets] /\ w[1] = 0
      BY <2>2
    <3>. HIDE DEF w
    <3>. QED
      BY <2>1, <2>4, <3>1, <3>2 DEF QueueInv
  <2>6. Pending' = [i \in 1..1 |-> p]
    <3>1. PacketsFrom(ring', w[1], 1) = [i \in 1..1 |-> ring'[w[i]].p]
      <4>. DEFINE m == 1
      <4>1. m \in Nat \ {0} /\ Laid(ring', w, m, m)
        BY <2>4
      <4>2. PacketsFrom(ring', w[1], m) = [i \in 1..m |-> ring'[w[i]].p]
        <5>. HIDE DEF w, m
        <5>. QED
          BY <4>1, PacketsFromIs
      <4>. QED
        BY <4>2
    <3>. QED
      BY <2>1, <2>3, <3>1 DEF Pending
  <2>7. Pending = <<>>
    BY <1>3 DEF Pending, PacketsFrom
  <2>. QED
    BY <2>5, <2>6, <2>7
<1>4. CASE cPackets # 0
  <2>. DEFINE n == cPackets
              x == Place(p)
  <2>1. PICK k \in 1..n, w \in [1..n -> Offsets] :
          Laid(ring, w, n, k) /\ w[1] = cboHead /\ w[n] = cboTail
    BY <1>4 DEF QueueInv
  <2>2. /\ n \in Nat \ {0} /\ k \in 1..n
        /\ \A i \in 1..n : /\ w[i] \in Nat /\ EndIn(ring, w[i]) \in Nat /\ w[i] \in Offsets
                           /\ w[i] < EndIn(ring, w[i]) /\ EndIn(ring, w[i]) <= QueueBytes
                           /\ ring[w[i]].p \in QPackets
    BY <1>1, <1>4, <2>1, LaidIs
  <2>3. /\ cPackets' = n + 1 /\ cboHead' = cboHead /\ cboTail' = x
        /\ ring' \in [Offsets -> Slots]
        /\ ring'[x].p = p
        /\ \A i \in 1..n :
             /\ ring'[w[i]].p = ring[w[i]].p
             /\ ring'[w[i]].next = IF i = n THEN x ELSE ring[w[i]].next
    BY <1>1, <1>4, <2>1, PushRing
  <2>4. /\ x \in Offsets /\ x + Bytes(p) <= QueueBytes
        /\ \E l \in {k, n + 1} :
             /\ k < n => l = k
             /\ \A i \in 1..n : IF i <= k /\ l = k THEN x + Bytes(p) <= w[i]
                                ELSE EndIn(ring, w[i]) <= x
    <3>1. Place(p) # -1
      BY DEF QueuePush
    <3>. QED
      BY <1>1, <1>4, <2>1, <3>1, PlaceIs
  <2>5. PICK l \in {k, n + 1} :
             /\ k < n => l = k
             /\ \A i \in 1..n : IF i <= k /\ l = k THEN x + Bytes(p) <= w[i]
                                ELSE EndIn(ring, w[i]) <= x
    BY <2>4
  <2>. HIDE DEF x
  <2>. DEFINE v == [i \in 1..(n + 1) |-> IF i = n + 1 THEN x ELSE w[i]]
  <2>6. v \in [1..(n + 1) -> Offsets] /\ v[n + 1] = x /\ \A i \in 1..n : v[i] = w[i]
    BY <2>2, <2>4
  <2>. HIDE DEF v
  <2>7. /\ \A i \in 1..n : EndIn(ring', v[i]) = EndIn(ring, w[i])
        /\ EndIn(ring', v[n + 1]) = x + Bytes(p)
    BY <2>3, <2>6 DEF EndIn
  <2>8. l \in 1..(n + 1)
    BY <2>2
  <2>9. \A i \in 1..(n + 1) : ring'[v[i]].p \in QPackets /\ EndIn(ring', v[i]) <= QueueBytes
    <3>. SUFFICES ASSUME NEW i \in 1..(n + 1)
                  PROVE  ring'[v[i]].p \in QPackets /\ EndIn(ring', v[i]) <= QueueBytes
      OBVIOUS
    <3>1. CASE i = n + 1
      BY <2>3, <2>4, <2>6, <2>7, <3>1
    <3>2. CASE i # n + 1
      <4>1. i \in 1..n
        BY <2>2, <3>2
      <4>. QED
        BY <2>2, <2>3, <2>6, <2>7, <4>1
    <3>. QED
      BY <3>1, <3>2
  <2>10. \A i \in 1..(n + 1) : i < n + 1 => ring'[v[i]].next = v[i + 1]
    <3>. SUFFICES ASSUME NEW i \in 1..n PROVE ring'[v[i]].next = v[i + 1]
      BY <2>2
    <3>1. CASE i = n
      BY <2>3, <2>6, <3>1
    <3>2. CASE i # n
      <4>1. i < n /\ i + 1 \in 1..n
        BY <2>2, <3>2
      <4>2. ring[w[i]].next = w[i + 1]
        BY <2>1, <4>1 DEF Laid
      <4>. QED
        BY <2>3, <2>6, <3>2, <4>1, <4>2
    <3>. QED
      BY <3>1, <3>2
  <2>11. \A i, j \in 1..(n + 1) : i < j => IF i <= l /\ l < j THEN EndIn(ring', v[j]) <= v[i]
                                                            ELSE EndIn(ring', v[i]) <= v[j]
    <3>. SUFFICES ASSUME NEW i \in 1..(n + 1), NEW j \in 1..(n + 1), i < j
                  PROVE  IF i <= l /\ l < j THEN EndIn(ring', v[j]) <= v[i]
                                            ELSE EndIn(ring', v[i]) <= v[j]
      OBVIOUS
    <3>0. i \in 1..n
      BY <2>2
    <3>1. CASE j = n + 1
      <4>1. (i <= l /\ l < j) <=> (i <= k /\ l = k)
        BY <2>2, <2>5, <3>0, <3>1
      <4>2. IF i <= k /\ l = k THEN x + Bytes(p) <= w[i] ELSE EndIn(ring, w[i]) <= x
        BY <2>5, <3>0
      <4>. QED
        BY <2>6, <2>7, <3>0, <3>1, <4>1, <4>2
    <3>2. CASE j # n + 1
      <4>1. j \in 1..n
        BY <2>2, <3>2
      <4>2. IF i <= k /\ k < j THEN EndIn(ring, w[j]) <= w[i] ELSE EndIn(ring, w[i]) <= w[j]
        BY <2>1, <3>0, <4>1 DEF Laid
      <4>3. (i <= l /\ l < j) <=> (i <= k /\ k < j)
        BY <2>2, <2>5, <3>0, <4>1
      <4>. QED
        BY <2>6, <2>7, <3>0, <4>1, <4>2, <4>3
    <3>. QED
      BY <3>1, <3>2
  <2>12. Laid(ring', v, n + 1, l)
    BY <2>6, <2>8, <2>9, <2>10, <2>11 DEF Laid
  <2>13. v[1] = w[1]
    BY <2>2, <2>6
  <2>14. QueueInv'
    <3>1. QueueType'
      <4>1. x \in Nat
        BY <2>4, QueueAssumption DEF Offsets
      <4>. QED
        BY <1>1, <2>2, <2>3, <4>1 DEF QueueType
    <3>2. cPackets' # 0
      BY <2>2, <2>3
    <3>. QED
      BY <2>1, <2>3, <2>6, <2>8, <2>12, <2>13, <3>1, <3>2 DEF QueueInv
  <2>15. Pending = [i \in 1..n |-> ring[w[i]].p]
    <3>1. PacketsFrom(ring, w[1], n) = [i \in 1..n |-> ring[w[i]].p]
      <4>1. n \in Nat \ {0} /\ Laid(ring, w, n, k)
        BY <2>1, <2>2
      <4>. HIDE DEF n
      <4>. QED
        BY <4>1, PacketsFromIs
    <3>. QED
      BY <2>1, <3>1 DEF Pending
  <2>16. Pending' = [i \in 1..(n + 1) |-> ring'[v[i]].p]
    <3>1. n + 1 \in Nat \ {0}
      BY <2>2
    <3>2. PacketsFrom(ring', v[1], n + 1) = [i \in 1..(n + 1) |-> ring'[v[i]].p]
      BY <2>12, <3>1, PacketsFromIs
    <3>. QED
      BY <2>1, <2>3, <2>13, <3>2 DEF Pending
  <2>17. Pending' = Append(Pending, p)
    <3>1. Pending \in Seq(QPackets) /\ Len(Pending) = n
      BY <2>2, <2>15
    <3>2. \A i \in 1..(n + 1) : ring'[v[i]].p = IF i = n + 1 THEN p ELSE Pending[i]
      <4>. SUFFICES ASSUME NEW i \in 1..(n + 1)
                    PROVE  ring'[v[i]].p = IF i = n + 1 THEN p ELSE Pending[i]
        OBVIOUS
      <4>1. CASE i = n + 1
        BY <2>3, <2>6, <4>1
      <4>2. CASE i # n + 1
        <5>1. i \in 1..n
          BY <2>2, <4>2
        <5>. QED
          BY <2>3, <2>6, <2>15, <4>2, <5>1
      <4>. QED
        BY <4>1, <4>2
    <3>3. Append(Pending, p) = [i \in 1..(n + 1) |-> IF i = n + 1 THEN p ELSE Pending[i]]
      BY <3>1, AppendIs
    <3>. QED
      BY <2>16, <3>2, <3>3
  <2>. QED
    BY <2>14, <2>17
<1>. QED
  BY <1>3, <1>4


LEMMA PopStep ==
  ASSUME QueueInv, QueuePop
  PROVE  QueueInv' /\ Pending # <<>> /\ Pending' = Tail(Pending)
<1>. DEFINE n == cPackets
<1>1. QueueType /\ n \in Nat \ {0} /\ cPackets' = n - 1
  BY DEF QueueInv, QueueType, QueuePop
<1>2. PICK k \in 1..n, w \in [1..n -> Offsets] :
        Laid(ring, w, n, k) /\ w[1] = cboHead /\ w[n] = cboTail
  BY <1>1 DEF QueueInv
<1>3. /\ k \in 1..n
      /\ \A i \in 1..n : w[i] \in Nat /\ w[i] \in Offsets /\ ring[w[i]].p \in QPackets
      /\ \A i, j \in 1..n : i # j => w[i] # w[j]
  BY <1>1, <1>2, LaidIs
<1>4. /\ ring' \in [Offsets -> Slots]
      /\ \A y \in Offsets : y # cboHead => ring'[y] = ring[y]
  <2>1. Nothing \in Slots
    BY DEF Nothing, Slots
  <2>2. ring' = [ring EXCEPT ![cboHead] = Nothing] /\ ring \in [Offsets -> Slots]
    BY <1>1 DEF QueuePop, QueueType
  <2>. QED
    BY <2>1, <2>2
<1>5. Pending = [i \in 1..n |-> ring[w[i]].p]
  <2>1. PacketsFrom(ring, w[1], n) = [i \in 1..n |-> ring[w[i]].p]
    <3>1. n \in Nat \ {0} /\ Laid(ring, w, n, k)
      BY <1>1, <1>2
    <3>. HIDE DEF n
    <3>. QED
      BY <3>1, PacketsFromIs
  <2>. QED
    BY <1>2, <2>1 DEF Pending
<1>6. Pending \in Seq(QPackets) /\ Len(Pending) = n /\ Pending # <<>>
  BY <1>1, <1>3, <1>5
<1>7. Tail(Pending) = [i \in 1..(n - 1) |-> Pending[i + 1]]
  BY <1>6, TailIs
<1>8. CASE n = 1
  <2>1. cPackets' = 0 /\ cboHead' = 0 /\ cboTail' = 0
    BY <1>8 DEF QueuePop
  <2>2. QueueInv'
    BY <1>4, <2>1 DEF QueueInv, QueueType
  <2>3. Pending' = [i \in 1..0 |-> ring'[0].p] /\ Pending' = <<>>
    BY <2>1 DEF Pending, PacketsFrom
  <2>4. Tail(Pending) = <<>>
    BY <1>7, <1>8
  <2>. QED
    BY <1>6, <2>2, <2>3, <2>4
<1>9. CASE n # 1
  <2>1. n - 1 \in Nat \ {0} /\ 1 \in 1..n /\ 2 \in 1..n
    BY <1>1, <1>9
  <2>2. cboHead' = w[2] /\ cboTail' = w[n]
    <3>1. \A i \in 1..n : i < n => ring[w[i]].next = w[i + 1]
      BY <1>2 DEF Laid
    <3>2. 1 < n /\ 1 + 1 = 2
      BY <1>1, <1>9
    <3>3. ring[w[1]].next = w[2]
      BY <2>1, <3>1, <3>2
    <3>. QED
      BY <1>2, <1>9, <3>3 DEF QueuePop
  <2>. DEFINE m == n - 1
              v == [i \in 1..m |-> w[i + 1]]
              l == IF k = 1 THEN m ELSE k - 1
  <2>3. m \in Nat \ {0} /\ n = m + 1 /\ l \in 1..m
    BY <1>1, <1>3, <2>1
  <2>4. /\ v \in [1..m -> Offsets] /\ v[1] = w[2] /\ v[m] = w[n]
        /\ \A i \in 1..m : i + 1 \in 1..n /\ v[i] = w[i + 1] /\ v[i] # cboHead
    <3>1. \A i \in 1..m : i + 1 \in 1..n /\ w[i + 1] \in Offsets /\ w[i + 1] # w[1]
      BY <1>1, <1>3
    <3>. QED
      BY <1>2, <2>3, <3>1
  <2>5. \A i \in 1..m : /\ ring'[v[i]] = ring[w[i + 1]]
                        /\ EndIn(ring', v[i]) = EndIn(ring, w[i + 1])
    BY <1>4, <2>4 DEF EndIn
  <2>6. Laid(ring', v, m, l)
    <3>. HIDE DEF v, l
    <3>1. \A i \in 1..m : ring'[v[i]].p \in QPackets /\ EndIn(ring', v[i]) <= QueueBytes
      BY <1>2, <2>4, <2>5 DEF Laid
    <3>2. ASSUME NEW i \in 1..m, i < m PROVE ring'[v[i]].next = v[i + 1]
      <4>1. i + 1 \in 1..m /\ i + 1 \in 1..n /\ i + 1 < n
        BY <2>3, <3>2
      <4>2. ring[w[i + 1]].next = w[(i + 1) + 1]
        BY <1>2, <4>1 DEF Laid
      <4>. QED
        BY <2>4, <2>5, <4>1, <4>2
    <3>3. ASSUME NEW i \in 1..m, NEW j \in 1..m, i < j
          PROVE  IF i <= l /\ l < j THEN EndIn(ring', v[j]) <= v[i]
                                    ELSE EndIn(ring', v[i]) <= v[j]
      <4>1. i + 1 \in 1..n /\ j + 1 \in 1..n /\ i + 1 < j + 1
        BY <2>4, <3>3
      <4>2. IF i + 1 <= k /\ k < j + 1 THEN EndIn(ring, w[j + 1]) <= w[i + 1]
                                       ELSE EndIn(ring, w[i + 1]) <= w[j + 1]
        BY <1>2, <4>1 DEF Laid
      <4>3. (i <= l /\ l < j) <=> (i + 1 <= k /\ k < j + 1)
        BY <1>3, <2>3, <3>3 DEF l
      <4>. QED
        BY <2>4, <2>5, <4>2, <4>3
    <3>. HIDE DEF m
    <3>. QED
      BY <2>3, <2>4, <3>1, <3>2, <3>3 DEF Laid
  <2>7. QueueInv'
    <3>1. w[2] \in Nat /\ w[n] \in Nat
      BY <1>1, <1>3, <2>1
    <3>2. QueueType'
      BY <1>1, <1>4, <2>2, <2>3, <3>1 DEF QueueType
    <3>3. cPackets' = m /\ m # 0
      BY <1>1, <2>3
    <3>. HIDE DEF m, v, l
    <3>. QED
      BY <2>2, <2>3, <2>4, <2>6, <3>2, <3>3 DEF QueueInv
  <2>8. Pending' = [i \in 1..m |-> ring'[v[i]].p]
    <3>1. cPackets' = m
      BY <1>1
    <3>. HIDE DEF m, v, l
    <3>2. PacketsFrom(ring', v[1], m) = [i \in 1..m |-> ring'[v[i]].p]
      BY <2>3, <2>6, PacketsFromIs
    <3>. QED
      BY <2>2, <2>4, <3>1, <3>2 DEF Pending
  <2>9. \A i \in 1..m : ring'[v[i]].p = Pending[i + 1]
    BY <1>5, <2>4, <2>5
  <2>. QED
    BY <1>6, <1>7, <2>7, <2>8, <2>9
<1>. QED
  BY <1>8, <1>9

LEMMA QueueStep ==
  ASSUME QueueInv, [QueueNext]_queueVars
  PROVE  QueueInv' /\ [Queue!Next]_Pending
<1>1. CASE QueuePop
  BY <1>1, PopStep DEF Queue!Next, Queue!Take
<1>2. ASSUME NEW p \in QPackets, QueuePush(p) PROVE QueueInv' /\ [Queue!Next]_Pending
  BY <1>2, PushStep DEF Queue!Next, Queue!Put
<1>3. CASE UNCHANGED queueVars
  <2>1. UNCHANGED <<cPackets, cboHead, cboTail, ring>>
    BY <1>3 DEF queueVars
  <2>2. QueueInv'
    BY <2>1 DEF QueueInv, QueueType
  <2>3. Pending' = Pending
    BY <2>1 DEF Pending
  <2>. QED
    BY <2>2, <2>3
<1>. QED
  BY <1>1, <1>2, <1>3 DEF QueueNext

LEMMA QueueStarts == QueueInit => QueueInv /\ Queue!Init
<1>. SUFFICES ASSUME QueueInit PROVE QueueInv /\ Queue!Init
  OBVIOUS
<1>1. Nothing \in Slots
  BY DEF Nothing, Slots
<1>2. ring \in [Offsets -> Slots]
  BY <1>1 DEF QueueInit, Offsets
<1>3. Pending = <<>>
  BY DEF Pending, PacketsFrom, QueueInit
<1>. QED
  BY <1>2, <1>3 DEF QueueInit, QueueInv, QueueType, Queue!Init

(* In every reachable state the packets of the queue lie in at most two    *)
(* runs of the ring, each in the order in which it was pushed, none        *)
(* reaches into another, and the links visit them in that order.           *)
THEOREM QueueInvariant == QueueSpec => []QueueInv
<1>1. QueueInit => QueueInv
  BY QueueStarts
<1>2. QueueInv /\ [QueueNext]_queueVars => QueueInv'
  BY QueueStep
<1>. QED
  BY <1>1, <1>2, PTL DEF QueueSpec

(* Whatever the sizes of the packets and however often the ring wraps,     *)
(* they are popped as they were pushed.                                    *)
THEOREM QueueImplements == QueueSpec => QueueIsFifo
<1>1. QueueInit => QueueInv /\ Queue!Init
  BY QueueStarts
<1>2. QueueInv /\ [QueueNext]_queueVars => QueueInv' /\ [Queue!Next]_Pending
  BY QueueStep
<1>. QED
  BY <1>1, <1>2, PTL DEF QueueSpec, QueueIsFifo, Queue!Spec


LEMMA ConsIs ==
  ASSUME NEW S, NEW s \in Seq(S), NEW e \in S
  PROVE  <<e>> \o s = [i \in 1..(Len(s) + 1) |-> IF i = 1 THEN e ELSE s[i - 1]]
<1>. DEFINE n == Len(s)
            t == <<e>> \o s
            f == [i \in 1..(n + 1) |-> IF i = 1 THEN e ELSE s[i - 1]]
<1>1. <<e>> \in Seq(S) /\ Len(<<e>>) = 1 /\ n \in Nat
  OBVIOUS
<1>2. t \in Seq(S) /\ Len(t) = n + 1 /\ t[1] = e /\ \A i \in 1..(n + 1) : i # 1 => t[i] = s[i - 1]
  <2>1. /\ t \in Seq(S) /\ Len(t) = 1 + n
        /\ \A i \in 1..(1 + n) : t[i] = IF i <= 1 THEN <<e>>[i] ELSE s[i - 1]
    BY <1>1, ConcatProperties
  <2>. HIDE DEF t, n
  <2>2. \A i \in 1..(n + 1) : i # 1 => ~(i <= 1)
    BY <1>1
  <2>3. 1 \in 1..(1 + n) /\ 1 + n = n + 1 /\ <<e>>[1] = e
    BY <1>1
  <2>. QED
    BY <2>1, <2>2, <2>3
<1>. HIDE DEF t, n
<1>3. DOMAIN t = 1..(n + 1) /\ t = [i \in DOMAIN t |-> t[i]]
  BY <1>1, <1>2
<1>4. t = f
  <2>1. \A i \in 1..(n + 1) : t[i] = f[i]
    BY <1>1, <1>2
  <2>. HIDE DEF f
  <2>2. f = [i \in 1..(n + 1) |-> f[i]]
    BY DEF f
  <2>. QED
    BY <1>3, <2>1, <2>2
<1>. QED
  BY <1>4 DEF t, n

LEMMA FrontIs ==
  ASSUME NEW S, NEW s \in Seq(S), NEW m \in 0..Len(s)
  PROVE  SubSeq(s, 1, m) = [i \in 1..m |-> s[i]]
<1>. DEFINE t == SubSeq(s, 1, m)
            f == [i \in 1..m |-> s[i]]
<1>1. t \in Seq(S) /\ Len(t) = m /\ \A i \in 1..m : t[i] = s[i]
  BY SubSeqProperties
<1>. HIDE DEF t
<1>2. DOMAIN t = 1..m /\ t = [i \in DOMAIN t |-> t[i]]
  BY <1>1
<1>3. t = f
  <2>1. \A i \in 1..m : t[i] = f[i]
    BY <1>1
  <2>. HIDE DEF f
  <2>2. f = [i \in 1..m |-> f[i]]
    BY DEF f
  <2>. QED
    BY <1>2, <2>1, <2>2
<1>. QED
  BY <1>3 DEF t

LEMMA RemoveAtIs ==
  ASSUME NEW S, NEW s \in Seq(S), NEW j \in 1..Len(s)
  PROVE  SubSeq(s, 1, j - 1) \o SubSeq(s, j + 1, Len(s))
         = [i \in 1..(Len(s) - 1) |-> IF i < j THEN s[i] ELSE s[i + 1]]
<1>. DEFINE n == Len(s)
            a == SubSeq(s, 1, j - 1)
            b == SubSeq(s, j + 1, n)
            t == a \o b
            f == [i \in 1..(n - 1) |-> IF i < j THEN s[i] ELSE s[i + 1]]
<1>1. n \in Nat /\ j \in 1..n /\ j \in Int
  OBVIOUS
<1>2. a \in Seq(S) /\ Len(a) = j - 1 /\ \A i \in 1..(j - 1) : a[i] = s[i]
  BY <1>1, SubSeqProperties
<1>3. b \in Seq(S) /\ Len(b) = n - j /\ \A i \in 1..(n - j) : b[i] = s[j + i]
  BY <1>1, SubSeqProperties
<1>. HIDE DEF a, b, n
<1>4. /\ t \in Seq(S) /\ Len(t) = n - 1
      /\ \A i \in 1..(n - 1) : t[i] = IF i <= j - 1 THEN a[i] ELSE b[i - (j - 1)]
  <2>1. /\ t \in Seq(S) /\ Len(t) = Len(a) + Len(b)
        /\ \A i \in 1..(Len(a) + Len(b)) : t[i] = IF i <= Len(a) THEN a[i] ELSE b[i - Len(a)]
    BY <1>2, <1>3, ConcatProperties
  <2>2. Len(a) = j - 1 /\ Len(a) + Len(b) = n - 1
    BY <1>1, <1>2, <1>3
  <2>. HIDE DEF t
  <2>. QED
    BY <2>1, <2>2
<1>. HIDE DEF t
<1>5. DOMAIN t = 1..(n - 1) /\ t = [i \in DOMAIN t |-> t[i]]
  BY <1>1, <1>4
<1>6. ASSUME NEW i \in 1..(n - 1) PROVE t[i] = IF i < j THEN s[i] ELSE s[i + 1]
  <2>1. CASE i < j
    BY <1>1, <1>2, <1>4, <2>1
  <2>2. CASE ~(i < j)
    <3>1. i - (j - 1) \in 1..(n - j) /\ ~(i <= j - 1) /\ j + (i - (j - 1)) = i + 1
      BY <1>1, <2>2
    <3>. QED
      BY <1>3, <1>4, <2>2, <3>1
  <2>. QED
    BY <2>1, <2>2
<1>7. t = f
  <2>1. \A i \in 1..(n - 1) : t[i] = f[i]
    BY <1>6
  <2>. HIDE DEF f
  <2>2. f = [i \in 1..(n - 1) |-> f[i]]
    BY DEF f
  <2>. QED
    BY <1>5, <2>1, <2>2
<1>. QED
  BY <1>7 DEF t, a, b, n

(***************************************************************************)
(* The cache map.                                                          *)
(***************************************************************************)
(* The nodes w[1], ..., w[n] are linked in this order in a circle.         *)
After(i, n)  == IF i = n THEN 1 ELSE i + 1
Before(i, n) == IF i = 1 THEN n ELSE i - 1
Linked(f, b, w, n) ==
    /\ w \in [1..n -> Nodes]
    /\ \A i, j \in 1..n : i # j => w[i] # w[j]
    /\ \A i \in 1..n : f[w[i]] = w[After(i, n)] /\ b[w[i]] = w[Before(i, n)]

(* w without its entry j, and w behind e.                                  *)
Dropped(w, n, j) == [i \in 1..(n - 1) |-> IF i < j THEN w[i] ELSE w[i + 1]]
Behind(e, w, n)  == [i \in 1..(n + 1) |-> IF i = 1 THEN e ELSE w[i - 1]]

(* A node is taken out of the circle.                                      *)
LEMMA UnlinkIs ==
  ASSUME NEW f \in [Nodes -> Nodes], NEW b \in [Nodes -> Nodes], NEW n \in Nat,
         NEW w, Linked(f, b, w, n), NEW j \in 1..n,
         NEW g, g = Redirected(f, b[w[j]], f[w[j]]),
         NEW d, d = Redirected(b, f[w[j]], b[w[j]]),
         NEW v, v = Dropped(w, n, j)
  PROVE  Linked(g, d, v, n - 1) /\ g \in [Nodes -> Nodes] /\ d \in [Nodes -> Nodes]
<1>. DEFINE Kept(i) == IF i < j THEN i ELSE i + 1
<1>0. /\ w \in [1..n -> Nodes]
      /\ \A i, k \in 1..n : i # k => w[i] # w[k]
      /\ \A i \in 1..n : f[w[i]] = w[After(i, n)] /\ b[w[i]] = w[Before(i, n)]
  BY DEF Linked
<1>1. /\ After(j, n) \in 1..n /\ Before(j, n) \in 1..n /\ j \in 1..n
      /\ f[w[j]] = w[After(j, n)] /\ b[w[j]] = w[Before(j, n)]
  <2>1. After(j, n) \in 1..n /\ Before(j, n) \in 1..n
    BY DEF After, Before
  <2>. QED
    BY <1>0, <2>1
<1>2. /\ g = [f EXCEPT ![w[Before(j, n)]] = w[After(j, n)]]
      /\ d = [b EXCEPT ![w[After(j, n)]] = w[Before(j, n)]]
  BY <1>1 DEF Redirected
<1>3. g \in [Nodes -> Nodes] /\ d \in [Nodes -> Nodes]
  BY <1>0, <1>1, <1>2
<1>4. /\ \A i \in 1..n : g[w[i]] = IF i = Before(j, n) THEN w[After(j, n)] ELSE w[After(i, n)]
      /\ \A i \in 1..n : d[w[i]] = IF i = After(j, n) THEN w[Before(j, n)] ELSE w[Before(i, n)]
  <2>1. ASSUME NEW i \in 1..n
        PROVE  /\ g[w[i]] = IF i = Before(j, n) THEN w[After(j, n)] ELSE w[After(i, n)]
               /\ d[w[i]] = IF i = After(j, n) THEN w[Before(j, n)] ELSE w[Before(i, n)]
    <3>1. w[i] \in Nodes /\ w[Before(j, n)] \in Nodes /\ w[After(j, n)] \in Nodes
      BY <1>0, <1>1
    <3>2. /\ w[i] = w[Before(j, n)] <=> i = Before(j, n)
          /\ w[i] = w[After(j, n)] <=> i = After(j, n)
      BY <1>0, <1>1
    <3>. QED
      BY <1>0, <1>2, <3>1, <3>2
  <2>. QED
    BY <2>1
<1>5. \A i \in 1..(n - 1) : Kept(i) \in 1..n /\ Kept(i) # j /\ v[i] = w[Kept(i)]
  BY DEF Dropped
<1>6. v \in [1..(n - 1) -> Nodes]
  <2>1. \A i \in 1..(n - 1) : (IF i < j THEN w[i] ELSE w[i + 1]) \in Nodes
    BY <1>0
  <2>. QED
    BY <2>1 DEF Dropped
<1>7. \A i, k \in 1..(n - 1) : i # k => v[i] # v[k]
  <2>. SUFFICES ASSUME NEW i \in 1..(n - 1), NEW k \in 1..(n - 1), i # k PROVE v[i] # v[k]
    OBVIOUS
  <2>1. Kept(i) # Kept(k)
    OBVIOUS
  <2>. HIDE DEF Kept
  <2>. QED
    BY <1>0, <1>5, <2>1
<1>8. ASSUME NEW i \in 1..(n - 1)
      PROVE  g[v[i]] = v[After(i, n - 1)] /\ d[v[i]] = v[Before(i, n - 1)]
  <2>1. After(i, n - 1) \in 1..(n - 1) /\ Before(i, n - 1) \in 1..(n - 1)
    BY DEF After, Before
  <2>2. Kept(After(i, n - 1)) = IF Kept(i) = Before(j, n) THEN After(j, n) ELSE After(Kept(i), n)
    BY DEF After, Before
  <2>3. Kept(Before(i, n - 1)) = IF Kept(i) = After(j, n) THEN Before(j, n) ELSE Before(Kept(i), n)
    BY DEF After, Before
  <2>. HIDE DEF Kept
  <2>4. v[i] = w[Kept(i)] /\ Kept(i) \in 1..n
    BY <1>5
  <2>5. /\ v[After(i, n - 1)] = w[Kept(After(i, n - 1))]
        /\ v[Before(i, n - 1)] = w[Kept(Before(i, n - 1))]
    BY <1>5, <2>1
  <2>6. g[v[i]] = v[After(i, n - 1)]
    BY <1>4, <2>2, <2>4, <2>5
  <2>7. d[v[i]] = v[Before(i, n - 1)]
    BY <1>4, <2>3, <2>4, <2>5
  <2>. QED
    BY <2>6, <2>7
<1>. QED
  BY <1>3, <1>6, <1>7, <1>8 DEF Linked

(* A node is put in front of the first of the circle.                      *)
LEMMA FrontLinkIs ==
  ASSUME NEW f \in [Nodes -> Nodes], NEW b \in [Nodes -> Nodes], NEW n \in Nat \ {0},
         NEW w, Linked(f, b, w, n), NEW e \in Nodes, \A i \in 1..n : w[i] # e,
         NEW h, h = w[1],
         NEW g, g = Redirected(Redirected(f, e, h), b[h], e),
         NEW d, d = Redirected(Redirected(b, e, b[h]), h, e),
         NEW v, v = Behind(e, w, n)
  PROVE  Linked(g, d, v, n + 1) /\ g \in [Nodes -> Nodes] /\ d \in [Nodes -> Nodes]
<1>0. /\ w \in [1..n -> Nodes] /\ 1 \in 1..n /\ n \in 1..n
      /\ \A i, k \in 1..n : i # k => w[i] # w[k]
      /\ \A i \in 1..n : f[w[i]] = w[After(i, n)] /\ b[w[i]] = w[Before(i, n)]
  BY DEF Linked
<1>1. b[w[1]] = w[n] /\ w[1] \in Nodes /\ w[n] \in Nodes
  BY <1>0 DEF Before
<1>2. /\ g = [[f EXCEPT ![e] = w[1]] EXCEPT ![w[n]] = e]
      /\ d = [[b EXCEPT ![e] = w[n]] EXCEPT ![w[1]] = e]
  BY <1>1 DEF Redirected
<1>3. g \in [Nodes -> Nodes] /\ d \in [Nodes -> Nodes]
  BY <1>1, <1>2
<1>4. g[e] = w[1] /\ d[e] = w[n]
  BY <1>0, <1>1, <1>2
<1>5. /\ \A i \in 1..n : g[w[i]] = IF i = n THEN e ELSE w[i + 1]
      /\ \A i \in 1..n : d[w[i]] = IF i = 1 THEN e ELSE w[i - 1]
  <2>1. ASSUME NEW i \in 1..n
        PROVE  /\ g[w[i]] = IF i = n THEN e ELSE w[i + 1]
               /\ d[w[i]] = IF i = 1 THEN e ELSE w[i - 1]
    <3>1. w[i] \in Nodes /\ w[i] # e
      BY <1>0
    <3>2. /\ w[i] = w[n] <=> i = n
          /\ w[i] = w[1] <=> i = 1
      BY <1>0
    <3>3. f[w[i]] = (IF i = n THEN w[1] ELSE w[i + 1]) /\ b[w[i]] = IF i = 1 THEN w[n] ELSE w[i - 1]
      BY <1>0 DEF After, Before
    <3>4. g[w[i]] = IF i = n THEN e ELSE f[w[i]]
      BY <1>1, <1>2, <3>1, <3>2
    <3>5. d[w[i]] = IF i = 1 THEN e ELSE b[w[i]]
      BY <1>1, <1>2, <3>1, <3>2
    <3>. QED
      BY <3>3, <3>4, <3>5
  <2>. QED
    BY <2>1
<1>6. /\ v \in [1..(n + 1) -> Nodes] /\ v[1] = e
      /\ \A i \in 1..n : v[i + 1] = w[i] /\ i + 1 \in 1..(n + 1)
  <2>1. \A i \in 1..(n + 1) : (IF i = 1 THEN e ELSE w[i - 1]) \in Nodes
    BY <1>0
  <2>2. \A i \in 1..n : i + 1 \in 1..(n + 1) /\ i + 1 # 1 /\ (i + 1) - 1 = i
    OBVIOUS
  <2>3. 1 \in 1..(n + 1)
    OBVIOUS
  <2>. QED
    BY <2>1, <2>2, <2>3 DEF Behind
<1>7. \A i \in 1..(n + 1) : i = 1 \/ (i - 1 \in 1..n /\ v[i] = w[i - 1])
  BY DEF Behind
<1>8. \A i, k \in 1..(n + 1) : i # k => v[i] # v[k]
  <2>. SUFFICES ASSUME NEW i \in 1..(n + 1), NEW k \in 1..(n + 1), i # k PROVE v[i] # v[k]
    OBVIOUS
  <2>1. i # 1 /\ k # 1 => i - 1 # k - 1
    OBVIOUS
  <2>. QED
    BY <1>0, <1>6, <1>7, <2>1
<1>9. ASSUME NEW i \in 1..(n + 1)
      PROVE  g[v[i]] = v[After(i, n + 1)] /\ d[v[i]] = v[Before(i, n + 1)]
  <2>0. n # 0 /\ n + 1 # 1 /\ 1 + 1 = 2 /\ v[2] = w[1] /\ v[n + 1] = w[n]
    BY <1>0, <1>6
  <2>1. CASE i = 1
    <3>1. After(i, n + 1) = 2 /\ Before(i, n + 1) = n + 1
      BY <2>0, <2>1 DEF After, Before
    <3>. QED
      BY <1>4, <1>6, <2>0, <2>1, <3>1
  <2>2. CASE i # 1
    <3>. DEFINE k == i - 1
    <3>1. k \in 1..n /\ v[i] = w[k] /\ i = k + 1
      BY <1>7, <2>2
    <3>. HIDE DEF k
    <3>2. /\ After(i, n + 1) = IF k = n THEN 1 ELSE (k + 1) + 1
          /\ Before(i, n + 1) = IF k = 1 THEN 1 ELSE (k - 1) + 1
      BY <3>1 DEF After, Before
    <3>3. (k # n => k + 1 \in 1..n) /\ (k # 1 => k - 1 \in 1..n)
      BY <3>1
    <3>4. g[v[i]] = v[After(i, n + 1)]
      BY <1>5, <1>6, <3>1, <3>2, <3>3
    <3>5. d[v[i]] = v[Before(i, n + 1)]
      BY <1>5, <1>6, <3>1, <3>2, <3>3
    <3>. QED
      BY <3>4, <3>5
  <2>. QED
    BY <2>1, <2>2
<1>. HIDE DEF Linked
<1>10. \A i \in 1..(n + 1) : g[v[i]] = v[After(i, n + 1)] /\ d[v[i]] = v[Before(i, n + 1)]
  BY <1>9
<1>. QED
  BY <1>3, <1>6, <1>8, <1>10 DEF Linked

CacheRecords ==
    [m : [CacheKeys -> Nodes \cup {NoEntry}], f : [Nodes -> Nodes], b : [Nodes -> Nodes],
     n : [Nodes -> (CacheKeys \X CacheObjs) \cup {<<>>}], h : Nodes \cup {NoEntry}, c : Nat]

(* The entries of a cache map are w[1], ..., w[s.c], from the last used    *)
(* on: each is found by its key, and nothing else is.                      *)
Aged(s, w) ==
    /\ s \in CacheRecords
    /\ Linked(s.f, s.b, w, s.c)
    /\ s.h = IF s.c = 0 THEN NoEntry ELSE w[1]
    /\ \A i \in 1..s.c : s.n[w[i]] \in CacheKeys \X CacheObjs /\ s.m[s.n[w[i]][1]] = w[i]
    /\ \A k \in CacheKeys : s.m[k] # NoEntry => \E i \in 1..s.c : w[i] = s.m[k] /\ s.n[w[i]][1] = k
    /\ \A e \in Nodes : s.n[e] # <<>> => \E i \in 1..s.c : w[i] = e

CacheInv == c <= cMax /\ \E w \in [1..c -> Nodes] : Aged(This, w)

ListOf(s, w) == [i \in 1..s.c |-> s.n[w[i]]]

LEMMA NodesAre == NoEntry \notin Nodes /\ Nodes \subseteq Nat
BY CacheAssumption DEF Nodes

(* Walking from the head along the links meets the entries in order.       *)
LEMMA ListedIs ==
  ASSUME NEW s, NEW w, Aged(s, w)
  PROVE  Listed(s) = ListOf(s, w)
<1>. DEFINE n == s.c
            Walk(f) == [i \in 1..n |-> IF i = 1 THEN s.h ELSE s.f[f[i - 1]]]
<1>0. /\ n \in Nat /\ w \in [1..n -> Nodes] /\ (n # 0 => s.h = w[1])
      /\ \A i \in 1..n : s.f[w[i]] = w[After(i, n)]
  BY DEF Aged, Linked, CacheRecords
<1>1. w = Walk(w)
  <2>1. ASSUME NEW i \in 1..n PROVE w[i] = IF i = 1 THEN s.h ELSE s.f[w[i - 1]]
    <3>1. CASE i = 1
      BY <1>0, <3>1
    <3>2. CASE i # 1
      <4>1. i - 1 \in 1..n /\ After(i - 1, n) = i
        BY <1>0, <3>2 DEF After
      <4>. QED
        BY <1>0, <3>2, <4>1
    <3>. QED
      BY <3>1, <3>2
  <2>2. w = [i \in 1..n |-> w[i]]
    BY <1>0
  <2>. QED
    BY <2>1, <2>2
<1>. DEFINE at == CHOOSE f : f = Walk(f)
<1>2. at = Walk(at)
  <2>. HIDE DEF Walk
  <2>. QED
    BY <1>1
<1>3. Listed(s) = [i \in 1..n |-> s.n[at[i]]]
  BY DEF Listed
<1>. HIDE DEF at
<1>4. \A i \in 1..n : at[i] = IF i = 1 THEN s.h ELSE s.f[at[i - 1]]
  BY <1>2
<1>. DEFINE Bad == {i \in 1..n : at[i] # w[i]}
<1>5. Bad = {}
  <2>. SUFFICES ASSUME Bad # {} PROVE FALSE
    OBVIOUS
  <2>1. PICK i \in Bad : \A l \in Bad : i <= l
    <3>1. Bad \in SUBSET Nat
      BY <1>0
    <3>. HIDE DEF Bad
    <3>. QED
      BY <3>1, NatMin
  <2>2. i \in 1..n /\ i # 1
    BY <1>0, <1>4, <2>1
  <2>3. i - 1 \in 1..n /\ i - 1 \notin Bad
    BY <1>0, <2>1, <2>2
  <2>4. at[i] = s.f[w[i - 1]]
    BY <1>4, <2>2, <2>3
  <2>5. After(i - 1, n) = i
    BY <1>0, <2>2 DEF After
  <2>. QED
    BY <1>0, <2>1, <2>3, <2>4, <2>5
<1>. QED
  BY <1>3, <1>5 DEF ListOf

LEMMA ListOfIs ==
  ASSUME NEW s, NEW w, Aged(s, w)
  PROVE  /\ s.c \in Nat /\ ListOf(s, w) \in Seq(CacheKeys \X CacheObjs) /\ Len(ListOf(s, w)) = s.c
         /\ \A i \in 1..s.c : ListOf(s, w)[i] = s.n[w[i]]
BY DEF Aged, CacheRecords, ListOf

(* At most one entry has a key.                                            *)
LEMMA KeyOf ==
  ASSUME NEW s, NEW w, Aged(s, w), NEW k \in CacheKeys, NEW j \in 1..s.c
  PROVE  w[j] = s.m[k] <=> s.n[w[j]][1] = k
<1>1. /\ s.m[s.n[w[j]][1]] = w[j] /\ w[j] \in Nodes /\ w[j] # NoEntry
      /\ \A i, l \in 1..s.c : i # l => w[i] # w[l]
  <2>1. s.m[s.n[w[j]][1]] = w[j]
    BY DEF Aged
  <2>2. w \in [1..s.c -> Nodes] /\ \A i, l \in 1..s.c : i # l => w[i] # w[l]
    BY DEF Aged, Linked
  <2>3. w[j] \in Nodes
    BY <2>2
  <2>. QED
    BY <2>1, <2>2, <2>3, NodesAre
<1>2. ASSUME w[j] = s.m[k] PROVE s.n[w[j]][1] = k
  <2>1. PICK i \in 1..s.c : w[i] = s.m[k] /\ s.n[w[i]][1] = k
    BY <1>1, <1>2 DEF Aged
  <2>. QED
    BY <1>1, <1>2, <2>1
<1>. QED
  BY <1>1, <1>2

(* The entry e of the key k is removed.                                    *)
Parted(t, s, k, e) ==
    /\ t.m = [s.m EXCEPT ![k] = NoEntry] /\ t.n = [s.n EXCEPT ![e] = <<>>] /\ t.c = s.c - 1
    /\ t.h = IF s.c = 1 THEN NoEntry ELSE IF s.h = e THEN s.f[e] ELSE s.h
    /\ t.f = [s.f EXCEPT ![s.b[e]] = s.f[e]] /\ t.b = [s.b EXCEPT ![s.f[e]] = s.b[e]]
    /\ t = [m |-> t.m, f |-> t.f, b |-> t.b, n |-> t.n, h |-> t.h, c |-> t.c]

LEMMA WithoutParts ==
  ASSUME NEW s \in CacheRecords, NEW k \in CacheKeys, NEW e, e = s.m[k], e # NoEntry,
         NEW t, t = Without(s, k)
  PROVE  Parted(t, s, k, e)
<1>1. PICK m, f, b, n, h, d : s = [m |-> m, f |-> f, b |-> b, n |-> n, h |-> h, c |-> d]
  BY DEF CacheRecords
<1>2. s.m = m /\ s.f = f /\ s.b = b /\ s.n = n /\ s.h = h /\ s.c = d
  BY <1>1
<1>3. PICK g, a : g = [f EXCEPT ![b[e]] = f[e]] /\ a = [b EXCEPT ![f[e]] = b[e]]
  OBVIOUS
<1>4. Unlinked(s, e) = [m |-> m, f |-> g, b |-> a, n |-> n, h |-> h, c |-> d]
  <2>1. Unlinked(s, e) = [s EXCEPT !.b = a, !.f = g]
    <3>1. Unlinked(s, e) = [s EXCEPT !.b = [s.b EXCEPT ![s.f[e]] = s.b[e]],
                                     !.f = [s.f EXCEPT ![s.b[e]] = s.f[e]]]
      BY DEF Unlinked
    <3>. QED
      BY <1>2, <1>3, <3>1
  <2>. QED
    BY <1>1, <2>1
<1>5. PICK p, q, i : /\ p = [m EXCEPT ![k] = NoEntry] /\ q = [n EXCEPT ![e] = <<>>]
                     /\ i = IF d = 1 THEN NoEntry ELSE IF h = e THEN f[e] ELSE h
  OBVIOUS
<1>6. t = [m |-> p, f |-> g, b |-> a, n |-> q, h |-> i, c |-> d - 1]
  <2>1. PICK u : u = Unlinked(s, e)
    OBVIOUS
  <2>. DEFINE M == [u.m EXCEPT ![k] = NoEntry]
              N == [u.n EXCEPT ![e] = <<>>]
              C == u.c - 1
              H == IF s.c = 1 THEN NoEntry ELSE IF u.h = e THEN s.f[e] ELSE u.h
  <2>2. t = [u EXCEPT !.m = M, !.n = N, !.c = C, !.h = H]
    BY <2>1 DEF Without
  <2>3. u.m = m /\ u.n = n /\ u.c = d /\ u.h = h
    BY <1>4, <2>1
  <2>4. M = p /\ N = q /\ H = i /\ C = d - 1
    <3>1. M = p
      BY <1>5, <2>3
    <3>2. N = q
      BY <1>5, <2>3
    <3>3. H = i
      BY <1>2, <1>5, <2>3
    <3>. QED
      BY <2>3, <3>1, <3>2, <3>3
  <2>. HIDE DEF M, N, C, H
  <2>5. t = [m |-> M, f |-> g, b |-> a, n |-> N, h |-> H, c |-> C]
    <3>1. u = [m |-> m, f |-> g, b |-> a, n |-> n, h |-> h, c |-> d]
      BY <1>4, <2>1
    <3>2. PICK x, y, z, w : x = M /\ y = N /\ z = C /\ w = H
      OBVIOUS
    <3>3. t = [u EXCEPT !.m = x, !.n = y, !.c = z, !.h = w]
      BY <2>2, <3>2
    <3>4. t = [m |-> x, f |-> g, b |-> a, n |-> y, h |-> w, c |-> z]
      BY <3>1, <3>3
    <3>. QED
      BY <3>2, <3>4
  <2>. QED
    BY <2>4, <2>5
<1>7. /\ t.m = p /\ t.f = g /\ t.b = a /\ t.n = q /\ t.h = i /\ t.c = d - 1
      /\ t = [m |-> t.m, f |-> t.f, b |-> t.b, n |-> t.n, h |-> t.h, c |-> t.c]
  BY <1>6
<1>. QED
  BY <1>2, <1>3, <1>5, <1>7 DEF Parted

LEMMA WithoutIs ==
  ASSUME NEW s, NEW w, Aged(s, w), NEW k \in CacheKeys, NEW j \in 1..s.c, w[j] = s.m[k],
         NEW v, v = Dropped(w, s.c, j)
  PROVE  /\ Aged(Without(s, k), v) /\ Without(s, k).c = s.c - 1
         /\ ListOf(Without(s, k), v) = Dropped(ListOf(s, w), s.c, j)
<1>. DEFINE n == s.c
            e == s.m[k]
            t == Without(s, k)
<1>0. /\ s \in CacheRecords /\ n \in Nat \ {0} /\ e \in Nodes /\ e # NoEntry /\ e = w[j]
      /\ w \in [1..n -> Nodes] /\ \A i, l \in 1..n : i # l => w[i] # w[l]
      /\ s.h = w[1] /\ s.f[e] = w[After(j, n)]
  BY NodesAre DEF Aged, Linked, CacheRecords
<1>1. /\ t.m = [s.m EXCEPT ![k] = NoEntry]
      /\ t.n = [s.n EXCEPT ![e] = <<>>]
      /\ t.c = n - 1
      /\ t.h = IF n = 1 THEN NoEntry ELSE IF s.h = e THEN s.f[e] ELSE s.h
      /\ t.f = [s.f EXCEPT ![s.b[e]] = s.f[e]]
      /\ t.b = [s.b EXCEPT ![s.f[e]] = s.b[e]]
      /\ t = [m |-> t.m, f |-> t.f, b |-> t.b, n |-> t.n, h |-> t.h, c |-> t.c]
  <2>1. PICK x, y : x = s.m[k] /\ y = Without(s, k)
    OBVIOUS
  <2>2. Parted(y, s, k, x)
    BY <1>0, <2>1, WithoutParts
  <2>. QED
    BY <2>1, <2>2 DEF Parted
<1>. HIDE DEF t, e, n
<1>2. Linked(t.f, t.b, v, n - 1) /\ t.f \in [Nodes -> Nodes] /\ t.b \in [Nodes -> Nodes]
  <2>1. s.f \in [Nodes -> Nodes] /\ s.b \in [Nodes -> Nodes] /\ n \in Nat /\ j \in 1..n
    BY <1>0 DEF CacheRecords, n
  <2>2. Linked(s.f, s.b, w, n) /\ v = Dropped(w, n, j)
    BY DEF Aged, n
  <2>3. /\ t.f = Redirected(s.f, s.b[w[j]], s.f[w[j]])
        /\ t.b = Redirected(s.b, s.f[w[j]], s.b[w[j]])
    BY <1>0, <1>1 DEF Redirected
  <2>. DEFINE f == s.f
              b == s.b
              g == t.f
              d == t.b
  <2>. HIDE DEF f, b, g, d
  <2>4. /\ f \in [Nodes -> Nodes] /\ b \in [Nodes -> Nodes] /\ n \in Nat /\ j \in 1..n
        /\ Linked(f, b, w, n) /\ v = Dropped(w, n, j)
        /\ g = Redirected(f, b[w[j]], f[w[j]]) /\ d = Redirected(b, f[w[j]], b[w[j]])
    BY <2>1, <2>2, <2>3 DEF f, b, g, d
  <2>5. Linked(g, d, v, n - 1) /\ g \in [Nodes -> Nodes] /\ d \in [Nodes -> Nodes]
    BY <2>4, UnlinkIs
  <2>. QED
    BY <2>5 DEF g, d
<1>3. /\ \A i \in 1..(n - 1) : v[i] = IF i < j THEN w[i] ELSE w[i + 1]
      /\ \A i \in 1..(n - 1) : i \in 1..n /\ i + 1 \in 1..n
      /\ j \in 1..n
  BY <1>0 DEF n, Dropped
<1>4. \A i \in 1..(n - 1) : v[i] \in Nodes /\ v[i] # e
  <2>. SUFFICES ASSUME NEW i \in 1..(n - 1) PROVE v[i] \in Nodes /\ v[i] # e
    OBVIOUS
  <2>1. CASE i < j
    BY <1>0, <1>3, <2>1
  <2>2. CASE ~(i < j)
    BY <1>0, <1>3, <2>2
  <2>. QED
    BY <2>1, <2>2
<1>5. \A l \in 1..n : l # j => \E i \in 1..(n - 1) : v[i] = w[l]
  <2>. SUFFICES ASSUME NEW l \in 1..n, l # j PROVE \E i \in 1..(n - 1) : v[i] = w[l]
    OBVIOUS
  <2>1. CASE l < j
    <3>1. l \in 1..(n - 1) /\ v[l] = w[l]
      BY <1>0, <1>3, <2>1
    <3>. QED
      BY <3>1
  <2>2. CASE j < l
    <3>. DEFINE i == l - 1
    <3>1. i \in 1..(n - 1) /\ ~(i < j) /\ i + 1 = l
      BY <1>0, <1>3, <2>2
    <3>. HIDE DEF i
    <3>2. v[i] = w[l]
      BY <1>3, <3>1
    <3>. QED
      BY <3>1, <3>2
  <2>. QED
    BY <1>3, <2>1, <2>2
<1>6. \A i \in 1..(n - 1) : t.n[v[i]] = s.n[v[i]]
  <2>1. \A d \in Nodes : d # e => t.n[d] = s.n[d]
    BY <1>0, <1>1 DEF CacheRecords
  <2>. QED
    BY <1>4, <2>1
<1>7. t \in CacheRecords
  <2>1. NoEntry \in Nodes \cup {NoEntry} /\ <<>> \in (CacheKeys \X CacheObjs) \cup {<<>>}
    OBVIOUS
  <2>2. t.m \in [CacheKeys -> Nodes \cup {NoEntry}]
    BY <1>0, <1>1, <2>1 DEF CacheRecords
  <2>3. t.n \in [Nodes -> (CacheKeys \X CacheObjs) \cup {<<>>}]
    BY <1>0, <1>1, <2>1 DEF CacheRecords
  <2>4. t.c \in Nat
    BY <1>0, <1>1
  <2>5. t.h \in Nodes \cup {NoEntry}
    BY <1>0, <1>1 DEF CacheRecords
  <2>. QED
    BY <1>1, <1>2, <2>2, <2>3, <2>4, <2>5 DEF CacheRecords
<1>8. t.h = IF n - 1 = 0 THEN NoEntry ELSE v[1]
  <2>1. CASE n = 1
    BY <1>1, <2>1
  <2>2. CASE n # 1
    <3>1. n - 1 # 0 /\ 1 \in 1..(n - 1) /\ 1 \in 1..n /\ 1 + 1 = 2 /\ 2 \in 1..n
      BY <1>0, <2>2
    <3>2. CASE j = 1
      <4>1. After(j, n) = 2 /\ v[1] = w[2] /\ s.h = e
        BY <1>0, <1>3, <2>2, <3>1, <3>2 DEF After
      <4>. QED
        BY <1>0, <1>1, <2>2, <3>1, <4>1
    <3>3. CASE j # 1
      <4>1. v[1] = w[1] /\ w[1] # e
        BY <1>0, <1>3, <3>1, <3>3
      <4>. QED
        BY <1>0, <1>1, <2>2, <3>1, <4>1
    <3>. QED
      BY <3>2, <3>3
  <2>. QED
    BY <2>1, <2>2
<1>9. \A i \in 1..(n - 1) : t.n[v[i]] \in CacheKeys \X CacheObjs /\ t.m[t.n[v[i]][1]] = v[i]
  <2>. SUFFICES ASSUME NEW i \in 1..(n - 1)
                PROVE  t.n[v[i]] \in CacheKeys \X CacheObjs /\ t.m[t.n[v[i]][1]] = v[i]
    OBVIOUS
  <2>1. \E l \in 1..n : v[i] = w[l]
    BY <1>3
  <2>2. PICK l \in 1..n : v[i] = w[l]
    BY <2>1
  <2>3. s.n[w[l]] \in CacheKeys \X CacheObjs /\ s.m[s.n[w[l]][1]] = w[l]
    BY <2>2 DEF Aged, n
  <2>4. s.n[w[l]][1] # k /\ s.n[w[l]][1] \in CacheKeys
    BY <1>4, <2>2, <2>3 DEF e
  <2>5. t.m[s.n[w[l]][1]] = s.m[s.n[w[l]][1]]
    BY <1>0, <1>1, <2>4 DEF CacheRecords
  <2>. QED
    BY <1>6, <2>2, <2>3, <2>5
<1>10. \A q \in CacheKeys : t.m[q] # NoEntry =>
                              \E i \in 1..(n - 1) : v[i] = t.m[q] /\ t.n[v[i]][1] = q
  <2>. SUFFICES ASSUME NEW q \in CacheKeys, t.m[q] # NoEntry
                PROVE  \E i \in 1..(n - 1) : v[i] = t.m[q] /\ t.n[v[i]][1] = q
    OBVIOUS
  <2>1. q # k /\ t.m[q] = s.m[q]
    BY <1>0, <1>1 DEF CacheRecords
  <2>2. PICK l \in 1..n : w[l] = s.m[q] /\ s.n[w[l]][1] = q
    BY <2>1 DEF Aged, n
  <2>3. l # j
    BY <2>1, <2>2, KeyOf DEF n
  <2>. QED
    BY <1>5, <1>6, <2>1, <2>2, <2>3
<1>11. \A d \in Nodes : t.n[d] # <<>> => \E i \in 1..(n - 1) : v[i] = d
  <2>. SUFFICES ASSUME NEW d \in Nodes, t.n[d] # <<>> PROVE \E i \in 1..(n - 1) : v[i] = d
    OBVIOUS
  <2>1. d # e /\ s.n[d] # <<>>
    BY <1>0, <1>1 DEF CacheRecords
  <2>2. PICK l \in 1..n : w[l] = d
    BY <2>1 DEF Aged, n
  <2>. QED
    BY <1>0, <1>5, <2>1, <2>2
<1>12. Aged(t, v)
  BY <1>1, <1>2, <1>7, <1>8, <1>9, <1>10, <1>11 DEF Aged
<1>13. ListOf(t, v) = Dropped(ListOf(s, w), n, j)
  <2>1. \A i \in 1..(n - 1) : t.n[v[i]] = IF i < j THEN ListOf(s, w)[i] ELSE ListOf(s, w)[i + 1]
    BY <1>3, <1>6 DEF ListOf, n
  <2>2. ListOf(t, v) = [i \in 1..(n - 1) |-> t.n[v[i]]]
    BY <1>1 DEF ListOf
  <2>. DEFINE L == ListOf(s, w)
  <2>. HIDE DEF L
  <2>3. Dropped(L, n, j) = [i \in 1..(n - 1) |-> IF i < j THEN L[i] ELSE L[i + 1]]
    BY DEF Dropped
  <2>4. \A i \in 1..(n - 1) : t.n[v[i]] = IF i < j THEN L[i] ELSE L[i + 1]
    BY <2>1 DEF L
  <2>5. ListOf(t, v) = Dropped(L, n, j)
    BY <2>2, <2>3, <2>4
  <2>. QED
    BY <2>5 DEF L
<1>. QED
  BY <1>1, <1>12, <1>13 DEF t, n

(* The fields of a cache map that is written.                              *)
LEMMA UnlinkedIs ==
  ASSUME NEW s \in CacheRecords, NEW e
  PROVE  Unlinked(s, e) = [m |-> s.m, f |-> Redirected(s.f, s.b[e], s.f[e]),
                           b |-> Redirected(s.b, s.f[e], s.b[e]), n |-> s.n, h |-> s.h, c |-> s.c]
<1>. DEFINE f == [s.f EXCEPT ![s.b[e]] = s.f[e]]
            b == [s.b EXCEPT ![s.f[e]] = s.b[e]]
<1>1. Unlinked(s, e) = [s EXCEPT !.b = b, !.f = f]
  BY DEF Unlinked
<1>. HIDE DEF f, b
<1>2. Unlinked(s, e) = [m |-> s.m, f |-> f, b |-> b, n |-> s.n, h |-> s.h, c |-> s.c]
  BY <1>1 DEF CacheRecords
<1>. QED
  BY <1>2 DEF f, b, Redirected

LEMMA AtFrontIs ==
  ASSUME NEW s \in CacheRecords, NEW e
  PROVE  AtFront(s, e) = [m |-> s.m, f |-> Redirected(Redirected(s.f, e, s.h), s.b[s.h], e),
                          b |-> Redirected(Redirected(s.b, e, s.b[s.h]), s.h, e),
                          n |-> s.n, h |-> e, c |-> s.c]
<1>. DEFINE f == [[s.f EXCEPT ![e] = s.h] EXCEPT ![s.b[s.h]] = e]
            b == [s.b EXCEPT ![e] = s.b[s.h], ![s.h] = e]
<1>1. b = [[s.b EXCEPT ![e] = s.b[s.h]] EXCEPT ![s.h] = e]
  OBVIOUS
<1>2. AtFront(s, e) = [s EXCEPT !.f = f, !.b = b, !.h = e]
  BY DEF AtFront
<1>. HIDE DEF f, b
<1>3. AtFront(s, e) = [m |-> s.m, f |-> f, b |-> b, n |-> s.n, h |-> e, c |-> s.c]
  BY <1>2 DEF CacheRecords
<1>. QED
  BY <1>1, <1>3 DEF f, Redirected

(* The entry of a key is moved to the head.                                *)
LEMMA UsedIs ==
  ASSUME NEW s, NEW w, Aged(s, w), NEW k \in CacheKeys, NEW j \in 1..s.c, w[j] = s.m[k], j # 1,
         NEW x, x = Behind(w[j], Dropped(w, s.c, j), s.c - 1)
  PROVE  LET t == AtFront(Unlinked(s, w[j]), w[j])
         IN  /\ Aged(t, x) /\ t.c = s.c
             /\ ListOf(t, x) = Behind(ListOf(s, w)[j], Dropped(ListOf(s, w), s.c, j), s.c - 1)
<1>. DEFINE n == s.c
            e == w[j]
            u == Unlinked(s, e)
            t == AtFront(u, e)
            v == Dropped(w, n, j)
            m == n - 1
            f == s.f
            b == s.b
            uf == u.f
            ub == u.b
            tf == t.f
            tb == t.b
<1>0. /\ s \in CacheRecords /\ n \in Nat \ {0} /\ e \in Nodes /\ j \in 1..n
      /\ w \in [1..n -> Nodes] /\ \A i, l \in 1..n : i # l => w[i] # w[l]
      /\ s.h = w[1]
  BY SMTT(20) DEF Aged, Linked, CacheRecords
<1>1. u = [m |-> s.m, f |-> Redirected(f, b[e], f[e]), b |-> Redirected(b, f[e], b[e]),
           n |-> s.n, h |-> s.h, c |-> n]
  <2>. HIDE DEF e
  <2>. QED
    BY <1>0, UnlinkedIs
<1>. HIDE DEF u
<1>2. /\ uf = Redirected(f, b[w[j]], f[w[j]]) /\ ub = Redirected(b, f[w[j]], b[w[j]])
      /\ u.m = s.m /\ u.n = s.n /\ u.c = n /\ u.h = s.h
      /\ u = [m |-> u.m, f |-> u.f, b |-> u.b, n |-> u.n, h |-> u.h, c |-> u.c]
  BY <1>1
<1>3. Linked(f, b, w, n) /\ f \in [Nodes -> Nodes] /\ b \in [Nodes -> Nodes]
  BY <1>0 DEF Aged, CacheRecords
<1>4. /\ \A i \in 1..(n - 1) : v[i] = IF i < j THEN w[i] ELSE w[i + 1]
      /\ \A i \in 1..(n - 1) : i \in 1..n /\ i + 1 \in 1..n
      /\ m \in Nat \ {0} /\ n = m + 1
  BY <1>0 DEF Dropped
<1>. HIDE DEF t, f, b, uf, ub, tf, tb, n, m, e, v
<1>5. Linked(uf, ub, v, m) /\ uf \in [Nodes -> Nodes] /\ ub \in [Nodes -> Nodes]
  <2>1. n \in Nat /\ v = Dropped(w, n, j) /\ m = n - 1
    BY <1>0 DEF v, m
  <2>2. /\ f \in [Nodes -> Nodes] /\ b \in [Nodes -> Nodes] /\ n \in Nat /\ j \in 1..n
        /\ Linked(f, b, w, n) /\ v = Dropped(w, n, j)
        /\ uf = Redirected(f, b[w[j]], f[w[j]]) /\ ub = Redirected(b, f[w[j]], b[w[j]])
    BY <1>0, <1>2, <1>3, <2>1
  <2>3. Linked(uf, ub, v, n - 1) /\ uf \in [Nodes -> Nodes] /\ ub \in [Nodes -> Nodes]
    BY <2>2, UnlinkIs
  <2>. QED
    BY <2>1, <2>3
<1>51. u \in CacheRecords
  BY <1>0, <1>2, <1>5 DEF CacheRecords, uf, ub, n
<1>52. t = [m |-> s.m, f |-> Redirected(Redirected(uf, e, s.h), ub[s.h], e),
            b |-> Redirected(Redirected(ub, e, ub[s.h]), s.h, e), n |-> s.n, h |-> e, c |-> n]
  <2>1. t = [m |-> u.m, f |-> Redirected(Redirected(uf, e, u.h), ub[u.h], e),
             b |-> Redirected(Redirected(ub, e, ub[u.h]), u.h, e), n |-> u.n, h |-> e, c |-> u.c]
    BY <1>51, AtFrontIs DEF t, uf, ub
  <2>. QED
    BY <1>2, <2>1
<1>53. /\ tf = Redirected(Redirected(uf, e, s.h), ub[s.h], e)
       /\ tb = Redirected(Redirected(ub, e, ub[s.h]), s.h, e)
       /\ t.m = s.m /\ t.n = s.n /\ t.c = n /\ t.h = e
       /\ t = [m |-> t.m, f |-> t.f, b |-> t.b, n |-> t.n, h |-> t.h, c |-> t.c]
  BY <1>52 DEF tf, tb
<1>6. \A i \in 1..m : v[i] \in Nodes /\ v[i] # e
  <2>. SUFFICES ASSUME NEW i \in 1..m PROVE v[i] \in Nodes /\ v[i] # e
    OBVIOUS
  <2>0. e = w[j] /\ i \in 1..(n - 1)
    BY <1>4 DEF e
  <2>1. CASE i < j
    BY <1>0, <1>4, <2>0, <2>1
  <2>2. CASE ~(i < j)
    BY <1>0, <1>4, <2>0, <2>2
  <2>. QED
    BY <2>1, <2>2
<1>7. v[1] = w[1]
  <2>1. 1 \in 1..(n - 1) /\ 1 < j
    BY <1>0, <1>4
  <2>. QED
    BY <1>4, <2>1
<1>8. Linked(tf, tb, x, n) /\ tf \in [Nodes -> Nodes] /\ tb \in [Nodes -> Nodes]
  <2>1. x = Behind(e, v, m)
    BY DEF e, v, m, n
  <2>. DEFINE h == s.h
  <2>2. h = v[1]
    BY <1>0, <1>7
  <2>. HIDE DEF h
  <2>3. /\ uf \in [Nodes -> Nodes] /\ ub \in [Nodes -> Nodes] /\ m \in Nat \ {0} /\ e \in Nodes
        /\ Linked(uf, ub, v, m) /\ \A i \in 1..m : v[i] # e
        /\ h = v[1] /\ x = Behind(e, v, m)
        /\ tf = Redirected(Redirected(uf, e, h), ub[h], e)
        /\ tb = Redirected(Redirected(ub, e, ub[h]), h, e)
    BY <1>0, <1>53, <1>4, <1>5, <1>6, <2>1, <2>2 DEF h
  <2>4. Linked(tf, tb, x, m + 1) /\ tf \in [Nodes -> Nodes] /\ tb \in [Nodes -> Nodes]
    BY <2>3, FrontLinkIs
  <2>. QED
    BY <1>4, <2>4
<1>9. /\ \A i \in 1..n : x[i] = IF i = 1 THEN e ELSE v[i - 1]
      /\ \A i \in 1..n : i # 1 => i - 1 \in 1..m
      /\ 1 \in 1..n /\ x[1] = e
  <2>1. x = Behind(e, v, m)
    BY DEF e, v, m, n
  <2>2. x = [i \in 1..(m + 1) |-> IF i = 1 THEN e ELSE v[i - 1]]
    BY <2>1 DEF Behind
  <2>3. m + 1 = n /\ 1 \in 1..n /\ \A i \in 1..n : i # 1 => i - 1 \in 1..m
    BY <1>4
  <2>4. x = [i \in 1..n |-> IF i = 1 THEN e ELSE v[i - 1]]
    BY <2>2, <2>3
  <2>. QED
    BY <2>3, <2>4
<1>10. \A i \in 1..n : \E l \in 1..n : x[i] = w[l]
  <2>. SUFFICES ASSUME NEW i \in 1..n PROVE \E l \in 1..n : x[i] = w[l]
    OBVIOUS
  <2>1. CASE i = 1
    BY <1>0, <1>9, <2>1 DEF e
  <2>2. CASE i # 1
    <3>1. i - 1 \in 1..m /\ i - 1 \in 1..(n - 1) /\ x[i] = v[i - 1]
      BY <1>4, <1>9, <2>2
    <3>2. \A l \in 1..(n - 1) : \E q \in 1..n : v[l] = w[q]
      BY <1>4
    <3>. QED
      BY <3>1, <3>2
  <2>. QED
    BY <2>1, <2>2
<1>11. \A l \in 1..n : \E i \in 1..n : x[i] = w[l]
  <2>. SUFFICES ASSUME NEW l \in 1..n PROVE \E i \in 1..n : x[i] = w[l]
    OBVIOUS
  <2>1. CASE l = j
    BY <1>9, <2>1 DEF e
  <2>2. CASE l < j
    <3>1. l \in 1..(n - 1) /\ l + 1 \in 1..n /\ l + 1 # 1 /\ (l + 1) - 1 = l
      BY <1>0, <1>4, <2>2
    <3>2. x[l + 1] = v[(l + 1) - 1]
      BY <1>9, <3>1
    <3>3. x[l + 1] = w[l]
      BY <1>4, <2>2, <3>1, <3>2
    <3>. QED
      BY <3>1, <3>3
  <2>3. CASE j < l
    <3>1. l # 1 /\ l - 1 \in 1..(n - 1) /\ ~(l - 1 < j) /\ (l - 1) + 1 = l
      BY <1>0, <1>4, <2>3
    <3>2. x[l] = v[l - 1]
      BY <1>9, <3>1
    <3>3. x[l] = w[l]
      BY <1>4, <3>1, <3>2
    <3>. QED
      BY <3>3
  <2>. QED
    BY <1>0, <2>1, <2>2, <2>3
<1>12. Aged(t, x)
  <2>1. t \in CacheRecords
    BY <1>0, <1>53, <1>8 DEF CacheRecords, tf, tb
  <2>2. t.h = IF t.c = 0 THEN NoEntry ELSE x[1]
    BY <1>0, <1>53, <1>9
  <2>3. \A i \in 1..n : t.n[x[i]] \in CacheKeys \X CacheObjs /\ t.m[t.n[x[i]][1]] = x[i]
    <3>1. \A l \in 1..n : s.n[w[l]] \in CacheKeys \X CacheObjs /\ s.m[s.n[w[l]][1]] = w[l]
      BY DEF Aged, n
    <3>. QED
      BY <1>53, <1>10, <3>1
  <2>4. \A q \in CacheKeys : t.m[q] # NoEntry => \E i \in 1..n : x[i] = t.m[q] /\ t.n[x[i]][1] = q
    <3>1. \A q \in CacheKeys : s.m[q] # NoEntry => \E l \in 1..n : w[l] = s.m[q] /\ s.n[w[l]][1] = q
      BY DEF Aged, n
    <3>. QED
      BY <1>53, <1>11, <3>1
  <2>5. \A d \in Nodes : t.n[d] # <<>> => \E i \in 1..n : x[i] = d
    <3>1. \A d \in Nodes : s.n[d] # <<>> => \E l \in 1..n : w[l] = d
      BY DEF Aged, n
    <3>. QED
      BY <1>53, <1>11, <3>1
  <2>6. Linked(t.f, t.b, x, t.c) /\ t.c = n
    BY <1>53, <1>8 DEF tf, tb
  <2>. QED
    BY <2>1, <2>2, <2>3, <2>4, <2>5, <2>6 DEF Aged
<1>13. ListOf(t, x) = Behind(ListOf(s, w)[j], Dropped(ListOf(s, w), n, j), m)
  <2>. DEFINE L == ListOf(s, w)
              D == Dropped(L, n, j)
  <2>1. \A i \in 1..n : L[i] = s.n[w[i]]
    BY DEF ListOf, n
  <2>2. \A i \in 1..m : D[i] = IF i < j THEN L[i] ELSE L[i + 1]
    BY <1>4 DEF Dropped
  <2>. HIDE DEF L, D
  <2>3. \A i \in 1..m : s.n[v[i]] = D[i]
    BY <1>4, <2>1, <2>2
  <2>4. \A i \in 1..n : t.n[x[i]] = IF i = 1 THEN L[j] ELSE D[i - 1]
    BY <1>0, <1>53, <1>9, <2>1, <2>3 DEF e
  <2>5. ListOf(t, x) = [i \in 1..n |-> t.n[x[i]]]
    BY <1>53 DEF ListOf
  <2>6. Behind(L[j], D, m) = [i \in 1..n |-> IF i = 1 THEN L[j] ELSE D[i - 1]]
    BY <1>4 DEF Behind
  <2>7. ListOf(t, x) = Behind(L[j], D, m)
    BY <2>4, <2>5, <2>6
  <2>. QED
    BY <2>7 DEF L, D
<1>. QED
  BY <1>53, <1>12, <1>13 DEF t, u, e, n, m

(* A new entry becomes the head.                                           *)
Added(s, e, k, o) ==
    LET u == IF s.h # NoEntry THEN AtFront(s, e)
             ELSE [s EXCEPT !.f = [@ EXCEPT ![e] = e], !.b = [@ EXCEPT ![e] = e], !.h = e]
    IN  [u EXCEPT !.n = [@ EXCEPT ![e] = <<k, o>>], !.m = [@ EXCEPT ![k] = e], !.c = @ + 1]

LEMMA AddedIs ==
  ASSUME NEW s, NEW w, Aged(s, w), NEW k \in CacheKeys, s.m[k] = NoEntry, NEW o \in CacheObjs,
         NEW e \in Nodes, s.n[e] = <<>>, NEW x, x = Behind(e, w, s.c)
  PROVE  LET t == Added(s, e, k, o)
         IN  Aged(t, x) /\ t.c = s.c + 1 /\ ListOf(t, x) = Behind(<<k, o>>, ListOf(s, w), s.c)
<1>. DEFINE n == s.c
            f == s.f
            b == s.b
            t == Added(s, e, k, o)
            tf == t.f
            tb == t.b
<1>0. /\ s \in CacheRecords /\ n \in Nat /\ f \in [Nodes -> Nodes] /\ b \in [Nodes -> Nodes]
      /\ w \in [1..n -> Nodes] /\ \A i, l \in 1..n : i # l => w[i] # w[l]
      /\ s.h = (IF n = 0 THEN NoEntry ELSE w[1])
  BY DEF Aged, Linked, CacheRecords
<1>1. /\ t.m = [s.m EXCEPT ![k] = e] /\ t.n = [s.n EXCEPT ![e] = <<k, o>>]
      /\ t.c = n + 1 /\ t.h = e
      /\ tf = IF s.h = NoEntry THEN [f EXCEPT ![e] = e]
              ELSE Redirected(Redirected(f, e, s.h), b[s.h], e)
      /\ tb = IF s.h = NoEntry THEN [b EXCEPT ![e] = e]
              ELSE Redirected(Redirected(b, e, b[s.h]), s.h, e)
      /\ t = [m |-> t.m, f |-> t.f, b |-> t.b, n |-> t.n, h |-> t.h, c |-> t.c]
  <2>1. s = [m |-> s.m, f |-> f, b |-> b, n |-> s.n, h |-> s.h, c |-> n]
    BY <1>0 DEF CacheRecords
  <2>. DEFINE u == IF s.h # NoEntry THEN AtFront(s, e)
                   ELSE [s EXCEPT !.f = [@ EXCEPT ![e] = e], !.b = [@ EXCEPT ![e] = e], !.h = e]
  <2>2. CASE s.h = NoEntry
    <3>1. u = [m |-> s.m, f |-> [f EXCEPT ![e] = e], b |-> [b EXCEPT ![e] = e],
               n |-> s.n, h |-> e, c |-> n]
      BY <2>1, <2>2
    <3>. HIDE DEF u
    <3>2. t = [u EXCEPT !.n = [@ EXCEPT ![e] = <<k, o>>], !.m = [@ EXCEPT ![k] = e], !.c = @ + 1]
      BY DEF Added, u
    <3>3. t = [m |-> [s.m EXCEPT ![k] = e], f |-> [f EXCEPT ![e] = e], b |-> [b EXCEPT ![e] = e],
               n |-> [s.n EXCEPT ![e] = <<k, o>>], h |-> e, c |-> n + 1]
      BY <3>1, <3>2
    <3>. HIDE DEF t
    <3>. QED
      BY <2>2, <3>3
  <2>3. CASE s.h # NoEntry
    <3>1. u = [m |-> s.m, f |-> [[f EXCEPT ![e] = s.h] EXCEPT ![b[s.h]] = e],
               b |-> [b EXCEPT ![e] = b[s.h], ![s.h] = e], n |-> s.n, h |-> e, c |-> n]
      BY <2>1, <2>3 DEF AtFront
    <3>. HIDE DEF u
    <3>2. t = [u EXCEPT !.n = [@ EXCEPT ![e] = <<k, o>>], !.m = [@ EXCEPT ![k] = e], !.c = @ + 1]
      BY DEF Added, u
    <3>3. t = [m |-> [s.m EXCEPT ![k] = e], f |-> [[f EXCEPT ![e] = s.h] EXCEPT ![b[s.h]] = e],
               b |-> [b EXCEPT ![e] = b[s.h], ![s.h] = e],
               n |-> [s.n EXCEPT ![e] = <<k, o>>], h |-> e, c |-> n + 1]
      BY <3>1, <3>2
    <3>4. [b EXCEPT ![e] = b[s.h], ![s.h] = e] = [[b EXCEPT ![e] = b[s.h]] EXCEPT ![s.h] = e]
      OBVIOUS
    <3>. HIDE DEF t
    <3>. QED
      BY <2>3, <3>3, <3>4 DEF Redirected
  <2>. QED
    BY <2>2, <2>3
<1>2. \A i \in 1..n : w[i] # e /\ w[i] \in Nodes
  <2>1. \A i \in 1..n : s.n[w[i]] \in CacheKeys \X CacheObjs
    BY DEF Aged, n
  <2>2. <<>> \notin CacheKeys \X CacheObjs
    OBVIOUS
  <2>. QED
    BY <1>0, <2>1, <2>2
<1>3. /\ \A i \in 1..(n + 1) : x[i] = IF i = 1 THEN e ELSE w[i - 1]
      /\ \A i \in 1..(n + 1) : i # 1 => i - 1 \in 1..n
      /\ \A i \in 1..n : i + 1 \in 1..(n + 1) /\ i + 1 # 1 /\ (i + 1) - 1 = i
      /\ 1 \in 1..(n + 1) /\ x[1] = e
  BY <1>0 DEF Behind
<1>31. \A i \in 1..n : x[i + 1] = w[i] /\ i + 1 \in 1..(n + 1)
  BY <1>3
<1>4. x = Behind(e, w, n)
  OBVIOUS
<1>. HIDE DEF n, f, b, t, tf, tb
<1>5. Linked(tf, tb, x, n + 1) /\ tf \in [Nodes -> Nodes] /\ tb \in [Nodes -> Nodes]
  <2>1. CASE n = 0
    <3>1. tf = [f EXCEPT ![e] = e] /\ tb = [b EXCEPT ![e] = e]
      BY <1>0, <1>1, <2>1
    <3>2. tf[e] = e /\ tb[e] = e /\ tf \in [Nodes -> Nodes] /\ tb \in [Nodes -> Nodes]
      BY <1>0, <3>1
    <3>3. n + 1 = 1 /\ (\A i \in 1..(n + 1) : i = 1) /\ 1 \in 1..(n + 1)
      BY <2>1
    <3>4. x = [i \in 1..(n + 1) |-> IF i = 1 THEN e ELSE w[i - 1]]
      BY <1>4 DEF Behind
    <3>5. x \in [1..(n + 1) -> Nodes] /\ x[1] = e
      BY <3>3, <3>4
    <3>6. \A i \in 1..(n + 1) : After(i, n + 1) = 1 /\ Before(i, n + 1) = 1
      BY <3>3 DEF After, Before
    <3>7. \A i \in 1..(n + 1) : tf[x[i]] = x[After(i, n + 1)] /\ tb[x[i]] = x[Before(i, n + 1)]
      BY <3>2, <3>3, <3>5, <3>6
    <3>8. \A i, l \in 1..(n + 1) : i # l => x[i] # x[l]
      BY <3>3
    <3>9. Linked(tf, tb, x, n + 1)
      BY <3>5, <3>7, <3>8 DEF Linked
    <3>. QED
      BY <3>2, <3>9
  <2>2. CASE n # 0
    <3>1. s.h = w[1] /\ s.h # NoEntry
      <4>1. 1 \in 1..n
        BY <1>0, <2>2
      <4>. QED
        BY <1>0, <1>2, <2>2, <4>1, NodesAre
    <3>. DEFINE h == s.h
    <3>2. h = w[1] /\ h # NoEntry
      BY <3>1
    <3>. HIDE DEF h
    <3>3. Linked(f, b, w, n) /\ n \in Nat \ {0} /\ \A i \in 1..n : w[i] # e
      BY <1>0, <1>2, <2>2 DEF Aged, f, b, n
    <3>4. /\ tf = Redirected(Redirected(f, e, h), b[h], e)
          /\ tb = Redirected(Redirected(b, e, b[h]), h, e)
      BY <1>1, <3>2 DEF h
    <3>5. f \in [Nodes -> Nodes] /\ b \in [Nodes -> Nodes] /\ x = Behind(e, w, n)
      BY <1>0, <1>4
    <3>. QED
      BY <3>2, <3>3, <3>4, <3>5, FrontLinkIs
  <2>. QED
    BY <2>1, <2>2
<1>6. \A d \in Nodes : t.n[d] = IF d = e THEN <<k, o>> ELSE s.n[d]
  BY <1>0, <1>1 DEF CacheRecords
<1>7. \A q \in CacheKeys : t.m[q] = IF q = k THEN e ELSE s.m[q]
  BY <1>0, <1>1 DEF CacheRecords
<1>8. t \in CacheRecords
  <2>1. t.m \in [CacheKeys -> Nodes \cup {NoEntry}]
    BY <1>0, <1>1 DEF CacheRecords
  <2>2. t.n \in [Nodes -> (CacheKeys \X CacheObjs) \cup {<<>>}]
    BY <1>0, <1>1 DEF CacheRecords
  <2>3. t.c \in Nat /\ t.h \in Nodes \cup {NoEntry}
    BY <1>0, <1>1
  <2>. QED
    BY <1>1, <1>5, <2>1, <2>2, <2>3 DEF CacheRecords, tf, tb
<1>9. \A i \in 1..(n + 1) : t.n[x[i]] \in CacheKeys \X CacheObjs /\ t.m[t.n[x[i]][1]] = x[i]
  <2>. SUFFICES ASSUME NEW i \in 1..(n + 1)
                PROVE  t.n[x[i]] \in CacheKeys \X CacheObjs /\ t.m[t.n[x[i]][1]] = x[i]
    OBVIOUS
  <2>1. CASE i = 1
    <3>1. t.n[x[i]] = <<k, o>> /\ x[i] = e /\ t.m[k] = e
      BY <1>3, <1>6, <1>7, <2>1
    <3>. QED
      BY <3>1
  <2>2. CASE i # 1
    <3>1. i - 1 \in 1..n /\ x[i] = w[i - 1]
      BY <1>3, <2>2
    <3>. DEFINE p == s.n[x[i]]
    <3>2. p \in CacheKeys \X CacheObjs /\ s.m[p[1]] = x[i] /\ x[i] # e /\ x[i] \in Nodes
      BY <1>2, <3>1 DEF Aged, n
    <3>3. t.n[x[i]] = p
      BY <1>6, <3>2
    <3>. HIDE DEF p
    <3>4. p[1] \in CacheKeys /\ x[i] # NoEntry
      BY <3>2, NodesAre
    <3>5. p[1] # k
      BY <3>2, <3>4
    <3>. QED
      BY <1>7, <3>2, <3>3, <3>4, <3>5
  <2>. QED
    BY <2>1, <2>2
<1>10. \A q \in CacheKeys : t.m[q] # NoEntry =>
                              \E i \in 1..(n + 1) : x[i] = t.m[q] /\ t.n[x[i]][1] = q
  <2>. SUFFICES ASSUME NEW q \in CacheKeys, t.m[q] # NoEntry
                PROVE  \E i \in 1..(n + 1) : x[i] = t.m[q] /\ t.n[x[i]][1] = q
    OBVIOUS
  <2>1. CASE q = k
    <3>1. x[1] = t.m[q] /\ t.n[x[1]] = <<k, o>>
      BY <1>3, <1>6, <1>7, <2>1
    <3>. QED
      BY <1>3, <2>1, <3>1
  <2>2. CASE q # k
    <3>1. PICK l \in 1..n : w[l] = s.m[q] /\ s.n[w[l]][1] = q
      BY <1>7, <2>2 DEF Aged, n
    <3>2. x[l + 1] = t.m[q] /\ t.n[x[l + 1]] = s.n[w[l]]
      BY <1>2, <1>31, <1>6, <1>7, <2>2, <3>1
    <3>. QED
      BY <1>31, <3>1, <3>2
  <2>. QED
    BY <2>1, <2>2
<1>11. \A d \in Nodes : t.n[d] # <<>> => \E i \in 1..(n + 1) : x[i] = d
  <2>. SUFFICES ASSUME NEW d \in Nodes, t.n[d] # <<>> PROVE \E i \in 1..(n + 1) : x[i] = d
    OBVIOUS
  <2>1. CASE d = e
    BY <1>3, <2>1
  <2>2. CASE d # e
    <3>1. PICK l \in 1..n : w[l] = d
      BY <1>6, <2>2 DEF Aged, n
    <3>. QED
      BY <1>31, <3>1
  <2>. QED
    BY <2>1, <2>2
<1>12. Aged(t, x)
  <2>1. Linked(t.f, t.b, x, t.c) /\ t.c = n + 1 /\ t.c # 0 /\ t.h = x[1]
    BY <1>0, <1>1, <1>3, <1>5 DEF tf, tb
  <2>. QED
    BY <1>8, <1>9, <1>10, <1>11, <2>1 DEF Aged
<1>13. ListOf(t, x) = Behind(<<k, o>>, ListOf(s, w), n)
  <2>. DEFINE L == ListOf(s, w)
  <2>1. \A i \in 1..n : L[i] = s.n[w[i]]
    BY DEF ListOf, n
  <2>. HIDE DEF L
  <2>2. \A i \in 1..(n + 1) : t.n[x[i]] = IF i = 1 THEN <<k, o>> ELSE L[i - 1]
    <3>. SUFFICES ASSUME NEW i \in 1..(n + 1)
                  PROVE  t.n[x[i]] = IF i = 1 THEN <<k, o>> ELSE L[i - 1]
      OBVIOUS
    <3>1. CASE i = 1
      BY <1>3, <1>6, <3>1
    <3>2. CASE i # 1
      <4>1. i - 1 \in 1..n /\ x[i] = w[i - 1]
        BY <1>3, <3>2
      <4>. QED
        BY <1>2, <1>6, <2>1, <3>2, <4>1
    <3>. QED
      BY <3>1, <3>2
  <2>3. ListOf(t, x) = [i \in 1..(n + 1) |-> t.n[x[i]]]
    BY <1>1 DEF ListOf
  <2>4. Behind(<<k, o>>, L, n) = [i \in 1..(n + 1) |-> IF i = 1 THEN <<k, o>> ELSE L[i - 1]]
    BY DEF Behind
  <2>5. ListOf(t, x) = Behind(<<k, o>>, L, n)
    BY <2>2, <2>3, <2>4
  <2>. QED
    BY <2>5 DEF L
<1>. QED
  BY <1>1, <1>12, <1>13 DEF t, n

LEMMA NextIs ==
  ASSUME NEW t, NEW w, Aged(t, w), t.c <= cMax, This' = t
  PROVE  CacheInv' /\ AgeList' = ListOf(t, w)
<1>1. t.c = c'
  BY DEF This
<1>2. AgeList' = ListOf(t, w)
  <2>1. Listed(t) = ListOf(t, w)
    BY ListedIs
  <2>. QED
    BY <2>1 DEF AgeList
<1>3. w \in [1..c' -> Nodes]
  BY <1>1 DEF Aged, Linked
<1>4. CacheInv'
  BY <1>1, <1>3 DEF CacheInv
<1>. QED
  BY <1>2, <1>4

LEMMA BecomesIs ==
  ASSUME NEW t \in CacheRecords, byKey' = t.m, FLink' = t.f, BLink' = t.b, node' = t.n,
         AgeListHead' = t.h, c' = t.c
  PROVE  This' = t
BY DEF This, CacheRecords

(* The age list without a key, and the key in it.                          *)
LEMMA PositionIs ==
  ASSUME NEW w, Aged(This, w), NEW k \in CacheKeys
  PROVE  /\ AgeList = ListOf(This, w)
         /\ byKey[k] = NoEntry => Lru!Position(k) = {} /\ Lru!Without(k) = AgeList
         /\ \A j \in 1..c : w[j] = byKey[k] =>
              Lru!Position(k) = {j} /\ Lru!Without(k) = Dropped(AgeList, c, j)
<1>. DEFINE s == This
            L == ListOf(s, w)
<1>1. AgeList = L
  BY ListedIs DEF AgeList
<1>2. s.c = c /\ s.m = byKey
  BY DEF This
<1>. HIDE DEF s
<1>3. /\ c \in Nat /\ L \in Seq(CacheKeys \X CacheObjs) /\ Len(L) = c
      /\ \A i \in 1..c : L[i] = s.n[w[i]]
  BY <1>2, ListOfIs DEF s
<1>4. \A i \in 1..c : L[i][1] = k <=> w[i] = byKey[k]
  BY <1>2, <1>3, KeyOf DEF s
<1>5. \A i, j \in 1..c : i # j => w[i] # w[j]
  BY <1>2 DEF Aged, Linked, s
<1>6. \A i \in 1..c : w[i] # NoEntry
  BY <1>2, NodesAre DEF Aged, Linked, s
<1>. HIDE DEF L
<1>7. Lru!Position(k) = {i \in 1..c : L[i][1] = k}
  BY <1>1, <1>3 DEF Lru!Position
<1>8. byKey[k] = NoEntry => Lru!Position(k) = {} /\ Lru!Without(k) = AgeList
  BY <1>4, <1>6, <1>7 DEF Lru!Without
<1>9. ASSUME NEW j \in 1..c, w[j] = byKey[k]
      PROVE  Lru!Position(k) = {j} /\ Lru!Without(k) = Dropped(AgeList, c, j)
  <2>1. Lru!Position(k) = {j}
    BY <1>4, <1>5, <1>7, <1>9
  <2>2. (CHOOSE i \in Lru!Position(k) : TRUE) = j /\ Lru!Position(k) # {}
    BY <2>1
  <2>3. Lru!Without(k) = SubSeq(AgeList, 1, j - 1) \o SubSeq(AgeList, j + 1, Len(AgeList))
    BY <2>2 DEF Lru!Without, Lru!RemoveAt
  <2>4. SubSeq(L, 1, j - 1) \o SubSeq(L, j + 1, Len(L))
          = [i \in 1..(Len(L) - 1) |-> IF i < j THEN L[i] ELSE L[i + 1]]
    BY <1>3, RemoveAtIs
  <2>. QED
    BY <1>1, <1>3, <2>1, <2>3, <2>4 DEF Dropped
<1>. QED
  BY <1>1, <1>8, <1>9 DEF L, s

LEMMA EntryOf ==
  ASSUME NEW w, Aged(This, w), NEW k \in CacheKeys, byKey[k] # NoEntry
  PROVE  \E j \in 1..c : w[j] = byKey[k]
BY DEF Aged, This

LEMMA RemovedIs ==
  ASSUME CacheInv, NEW k \in CacheKeys
  PROVE  /\ Without(This, k).m[k] = NoEntry /\ Without(This, k).c <= cMax
         /\ \E v : Aged(Without(This, k), v) /\ ListOf(Without(This, k), v) = Lru!Without(k)
<1>1. PICK w : Aged(This, w)
  BY DEF CacheInv
<1>2. c \in Nat /\ c <= cMax /\ cMax \in Nat /\ This.c = c /\ This.m = byKey
  BY <1>1, CacheAssumption DEF Aged, CacheRecords, CacheInv, This
<1>3. AgeList = ListOf(This, w)
  BY <1>1, PositionIs
<1>4. CASE byKey[k] = NoEntry
  <2>1. Without(This, k) = This
    BY <1>2, <1>4 DEF Without
  <2>2. Lru!Without(k) = AgeList
    BY <1>1, <1>4, PositionIs
  <2>. QED
    BY <1>1, <1>2, <1>3, <1>4, <2>1, <2>2
<1>5. CASE byKey[k] # NoEntry
  <2>1. PICK j \in 1..c : w[j] = byKey[k]
    BY <1>1, <1>5, EntryOf
  <2>. DEFINE s == This
              t == Without(s, k)
              v == Dropped(w, s.c, j)
  <2>2. Lru!Without(k) = Dropped(AgeList, c, j)
    BY <1>1, <2>1, PositionIs
  <2>3. t.m[k] = NoEntry
    <3>1. s \in CacheRecords /\ s.m[k] # NoEntry
      BY <1>1, <1>2, <1>5 DEF Aged
    <3>. HIDE DEF s
    <3>2. t.m = [s.m EXCEPT ![k] = NoEntry]
      <4>1. PICK x, y : x = s.m[k] /\ y = t
        OBVIOUS
      <4>2. Parted(y, s, k, x)
        BY <3>1, <4>1, WithoutParts
      <4>. QED
        BY <4>1, <4>2 DEF Parted
    <3>. HIDE DEF t
    <3>. QED
      BY <3>1, <3>2 DEF CacheRecords
  <2>4. Aged(t, v) /\ t.c = c - 1 /\ ListOf(t, v) = Dropped(ListOf(s, w), c, j)
    <3>1. Aged(s, w) /\ j \in 1..s.c /\ w[j] = s.m[k] /\ v = Dropped(w, s.c, j) /\ s.c = c
      BY <1>1, <1>2, <2>1
    <3>. HIDE DEF s, v
    <3>2. /\ Aged(Without(s, k), v) /\ Without(s, k).c = s.c - 1
          /\ ListOf(Without(s, k), v) = Dropped(ListOf(s, w), s.c, j)
      BY <3>1, WithoutIs
    <3>. QED
      BY <3>1, <3>2
  <2>. HIDE DEF v, t
  <2>. QED
    BY <1>2, <1>3, <2>2, <2>3, <2>4 DEF t
<1>. QED
  BY <1>4, <1>5

(* The entry that was not used for the longest time is removed.            *)
LEMMA EvictedIs ==
  ASSUME NEW s, NEW w, Aged(s, w), s.c # 0
  PROVE  LET q == s.n[s.b[s.h]][1]
         IN  /\ q \in CacheKeys /\ \A k \in CacheKeys :
                                       s.m[k] = NoEntry => Without(s, q).m[k] = NoEntry
             /\ Without(s, q).c = s.c - 1
             /\ \E v : /\ Aged(Without(s, q), v)
                       /\ ListOf(Without(s, q), v) = Dropped(ListOf(s, w), s.c, s.c)
<1>. DEFINE n == s.c
            q == s.n[s.b[s.h]][1]
            t == Without(s, q)
            v == Dropped(w, n, n)
<1>1. s \in CacheRecords /\ n \in Nat \ {0} /\ 1 \in 1..n /\ n \in 1..n
  BY DEF Aged, CacheRecords
<1>2. s.h = w[1] /\ s.b[w[1]] = w[n]
  <2>1. Before(1, n) = n
    BY DEF Before
  <2>2. \A i \in 1..n : s.b[w[i]] = w[Before(i, n)]
    BY DEF Aged, Linked
  <2>3. s.h = w[1]
    BY <1>1 DEF Aged
  <2>. QED
    BY <1>1, <2>1, <2>2, <2>3
<1>3. q \in CacheKeys /\ w[n] = s.m[q]
  <2>1. s.n[w[n]] \in CacheKeys \X CacheObjs /\ s.m[s.n[w[n]][1]] = w[n]
    BY <1>1 DEF Aged
  <2>2. q = s.n[w[n]][1]
    BY <1>2
  <2>. QED
    BY <2>1, <2>2
<1>4. v = Dropped(w, s.c, n)
  OBVIOUS
<1>. HIDE DEF q, v
<1>5. s.m[q] # NoEntry
  <2>1. w[n] \in Nodes
    BY <1>1 DEF Aged, Linked
  <2>. QED
    BY <1>3, <2>1, NodesAre
<1>6. t.m = [s.m EXCEPT ![q] = NoEntry]
  <2>1. PICK x, y : x = s.m[q] /\ y = t
    OBVIOUS
  <2>2. Parted(y, s, q, x)
    BY <1>1, <1>3, <1>5, <2>1, WithoutParts DEF Aged
  <2>. QED
    BY <2>1, <2>2 DEF Parted
<1>7. Aged(t, v) /\ t.c = n - 1 /\ ListOf(t, v) = Dropped(ListOf(s, w), n, n)
  <2>. HIDE DEF n
  <2>1. n \in 1..s.c /\ s.c = n
    BY <1>1 DEF n
  <2>. QED
    BY <1>3, <1>4, <2>1, WithoutIs
<1>. HIDE DEF t
<1>8. \A k \in CacheKeys : s.m[k] = NoEntry => t.m[k] = NoEntry
  BY <1>1, <1>3, <1>6 DEF CacheRecords
<1>. QED
  BY <1>3, <1>7, <1>8 DEF t, q

(* There is an allocation to be had.                                       *)
LEMMA FreeNode ==
  ASSUME NEW s, NEW w, Aged(s, w), s.c <= cMax
  PROVE  LET e == Min({x \in Nodes : s.n[x] = <<>>}) IN e \in Nodes /\ s.n[e] = <<>>
<1>. DEFINE Unused == {x \in Nodes : s.n[x] = <<>>}
<1>0. s.c \in Nat /\ cMax \in Nat /\ w \in [1..s.c -> Nodes]
  BY CacheAssumption DEF Aged, CacheRecords, Linked
<1>1. Unused # {}
  <2>. SUFFICES ASSUME Unused = {} PROVE FALSE
    OBVIOUS
  <2>1. \A e \in Nodes : \E i \in 1..s.c : w[i] = e
    BY DEF Aged
  <2>2. w \in Surjection(1..s.c, Nodes)
    BY <1>0, <2>1 DEF Surjection
  <2>3. ExistsSurjection(1..s.c, Nodes)
    BY <2>2 DEF ExistsSurjection
  <2>4. Cardinality(Nodes) <= s.c
    BY <1>0, <2>3, FS_SurjCardinalityBound
  <2>5. Cardinality(Nodes) = cMax + 1
    <3>1. 1 \in Int /\ cMax + 1 \in Int /\ ~(1 > cMax + 1) /\ (cMax + 1) - 1 + 1 = cMax + 1
      BY <1>0
    <3>2. Cardinality(1..(cMax + 1)) = IF 1 > cMax + 1 THEN 0 ELSE (cMax + 1) - 1 + 1
      BY <3>1, FS_Interval
    <3>. QED
      BY <3>1, <3>2 DEF Nodes
  <2>. QED
    BY <1>0, <2>4, <2>5
<1>2. \E x \in Unused : \A y \in Unused : x <= y
  <2>1. Unused \in SUBSET Nat
    BY NodesAre
  <2>. HIDE DEF Unused
  <2>. QED
    BY <1>1, <2>1, NatMin
<1>3. Min(Unused) \in Unused
  <2>. HIDE DEF Unused
  <2>. QED
    BY <1>2 DEF Min
<1>. QED
  BY <1>3

LEMMA RemoveStep ==
  ASSUME CacheInv, NEW k \in CacheKeys, byKey[k] # NoEntry, Becomes(Without(This, k))
  PROVE  CacheInv' /\ Lru!Delete(k)
<1>. DEFINE t == Without(This, k)
<1>1. t.c <= cMax /\ \E v : Aged(t, v) /\ ListOf(t, v) = Lru!Without(k)
  BY RemovedIs
<1>2. PICK v : Aged(t, v) /\ ListOf(t, v) = Lru!Without(k)
  BY <1>1
<1>3. /\ byKey' = t.m /\ FLink' = t.f /\ BLink' = t.b /\ node' = t.n
      /\ AgeListHead' = t.h /\ c' = t.c
  BY DEF Becomes
<1>. HIDE DEF t
<1>4. This' = t
  <2>1. t \in CacheRecords
    BY <1>2 DEF Aged
  <2>. QED
    BY <1>3, <2>1, BecomesIs
<1>5. CacheInv' /\ AgeList' = ListOf(t, v)
  BY <1>1, <1>2, <1>4, NextIs
<1>. QED
  BY <1>2, <1>5 DEF Lru!Delete

LEMMA UseStep ==
  ASSUME CacheInv, NEW k \in CacheKeys, byKey[k] # NoEntry, AgeListHead # byKey[k],
         Becomes(AtFront(Unlinked(This, byKey[k]), byKey[k]))
  PROVE  CacheInv' /\ Lru!Use(k)
<1>1. PICK w : Aged(This, w)
  BY DEF CacheInv
<1>2. PICK j \in 1..c : w[j] = byKey[k]
  BY <1>1, EntryOf
<1>3. c \in Nat /\ c <= cMax /\ This.c = c /\ This.m = byKey /\ This.h = AgeListHead
  BY <1>1 DEF Aged, CacheRecords, CacheInv, This
<1>4. j # 1
  <2>1. 1 \in 1..c /\ c # 0
    BY <1>2, <1>3
  <2>2. This.h = w[1]
    BY <1>1, <1>3, <2>1 DEF Aged
  <2>. QED
    BY <1>2, <1>3, <2>2
<1>. DEFINE s == This
            t == AtFront(Unlinked(s, w[j]), w[j])
            v == Dropped(w, s.c, j)
            x == Behind(w[j], v, s.c - 1)
            L == ListOf(s, w)
<1>5. /\ byKey' = t.m /\ FLink' = t.f /\ BLink' = t.b /\ node' = t.n
      /\ AgeListHead' = t.h /\ c' = t.c
  BY <1>2 DEF Becomes
<1>6. AgeList = L /\ Lru!Position(k) = {j} /\ Lru!Without(k) = Dropped(AgeList, c, j)
  BY <1>1, <1>2, PositionIs
<1>7. Aged(t, x) /\ t.c = c /\ ListOf(t, x) = Behind(L[j], Dropped(L, c, j), c - 1)
  <2>1. /\ Aged(s, w) /\ j \in 1..s.c /\ w[j] = s.m[k] /\ j # 1 /\ s.c = c
        /\ x = Behind(w[j], Dropped(w, s.c, j), s.c - 1)
    BY <1>1, <1>2, <1>3, <1>4
  <2>. HIDE DEF s, x
  <2>2. /\ Aged(t, x) /\ t.c = s.c
        /\ ListOf(t, x) = Behind(L[j], Dropped(L, s.c, j), s.c - 1)
    BY <2>1, UsedIs
  <2>. QED
    BY <2>1, <2>2
<1>8. L \in Seq(CacheKeys \X CacheObjs) /\ Len(L) = c
  BY <1>1, <1>3, ListOfIs
<1>. HIDE DEF t, x, s, L, v
<1>9. This' = t
  <2>1. t \in CacheRecords
    BY <1>7 DEF Aged
  <2>. QED
    BY <1>5, <2>1, BecomesIs
<1>10. CacheInv' /\ AgeList' = ListOf(t, x)
  BY <1>3, <1>7, <1>9, NextIs
<1>11. <<L[j]>> \o Dropped(L, c, j) = Behind(L[j], Dropped(L, c, j), c - 1)
  <2>1. L[j] \in CacheKeys \X CacheObjs
    BY <1>8
  <2>. DEFINE D == Dropped(L, c, j)
  <2>2. D \in Seq(CacheKeys \X CacheObjs) /\ Len(D) = c - 1
    <3>1. c - 1 \in Nat
      BY <1>2, <1>3
    <3>2. \A i \in 1..(c - 1) : (IF i < j THEN L[i] ELSE L[i + 1]) \in CacheKeys \X CacheObjs
      BY <1>3, <1>8
    <3>. QED
      BY <3>1, <3>2 DEF Dropped
  <2>. HIDE DEF D
  <2>3. <<L[j]>> \o D = [i \in 1..(Len(D) + 1) |-> IF i = 1 THEN L[j] ELSE D[i - 1]]
    BY <2>1, <2>2, ConsIs
  <2>. QED
    BY <2>2, <2>3 DEF D, Behind
<1>12. AgeList' = <<AgeList[j]>> \o Lru!Without(k)
  BY <1>6, <1>7, <1>10, <1>11
<1>. QED
  BY <1>6, <1>10, <1>12 DEF Lru!Use

(* A list that is stored into.                                             *)
LEMMA StoredIs ==
  ASSUME NEW L \in Seq(CacheKeys \X CacheObjs), Len(L) <= cMax, NEW p \in CacheKeys \X CacheObjs,
         NEW D, D = IF Len(L) = cMax THEN Dropped(L, Len(L), Len(L)) ELSE L,
         NEW d, d = IF Len(L) = cMax THEN Len(L) - 1 ELSE Len(L)
  PROVE  Lru!Cut(<<p>> \o L) = Behind(p, D, d)
<1>. DEFINE n == Len(L)
            C == <<p>> \o L
<1>0. n \in Nat /\ cMax \in Nat \ {0}
  BY CacheAssumption
<1>1. C = [i \in 1..(n + 1) |-> IF i = 1 THEN p ELSE L[i - 1]]
  BY ConsIs
<1>2. C \in Seq(CacheKeys \X CacheObjs) /\ Len(C) = n + 1
  <2>1. \A i \in 1..(n + 1) : (IF i = 1 THEN p ELSE L[i - 1]) \in CacheKeys \X CacheObjs
    OBVIOUS
  <2>2. n + 1 \in Nat
    BY <1>0
  <2>. HIDE DEF C, n
  <2>. QED
    BY <1>1, <2>1, <2>2
<1>. HIDE DEF C
<1>3. CASE n = cMax
  <2>1. Lru!Cut(C) = [i \in 1..n |-> C[i]]
    <3>1. Len(C) > cMax /\ cMax \in 0..Len(C)
      BY <1>0, <1>2, <1>3
    <3>2. SubSeq(C, 1, cMax) = [i \in 1..cMax |-> C[i]]
      BY <1>2, <3>1, FrontIs
    <3>. QED
      BY <1>3, <3>1, <3>2 DEF Lru!Cut
  <2>2. D = Dropped(L, n, n) /\ d = n - 1 /\ d + 1 = n
    BY <1>0, <1>3
  <2>. HIDE DEF n
  <2>3. \A i \in 1..n : C[i] = IF i = 1 THEN p ELSE D[i - 1]
    <3>. SUFFICES ASSUME NEW i \in 1..n PROVE C[i] = IF i = 1 THEN p ELSE D[i - 1]
      OBVIOUS
    <3>1. C[i] = IF i = 1 THEN p ELSE L[i - 1]
      BY <1>0, <1>1
    <3>2. CASE i = 1
      BY <3>1, <3>2
    <3>3. CASE i # 1
      <4>1. i - 1 \in 1..(n - 1) /\ i - 1 < n
        BY <1>0, <3>3
      <4>2. D[i - 1] = L[i - 1]
        BY <2>2, <4>1 DEF Dropped
      <4>. QED
        BY <3>1, <3>3, <4>2
    <3>. QED
      BY <3>2, <3>3
  <2>4. Behind(p, D, d) = [i \in 1..n |-> IF i = 1 THEN p ELSE D[i - 1]]
    BY <2>2 DEF Behind
  <2>5. Lru!Cut(C) = Behind(p, D, d)
    BY <2>1, <2>3, <2>4
  <2>. QED
    BY <2>5 DEF C
<1>4. CASE n # cMax
  <2>1. ~(Len(C) > cMax) /\ D = L /\ d = n
    BY <1>0, <1>2, <1>4
  <2>. QED
    BY <1>1, <2>1 DEF Lru!Cut, Behind, C
<1>. QED
  BY <1>3, <1>4

LEMMA CachePushStep ==
  ASSUME CacheInv, NEW k \in CacheKeys, NEW o \in CacheObjs, CachePush(k, o)
  PROVE  CacheInv' /\ Lru!Store(k, o)
<1>. DEFINE s == Without(This, k)
            L == Lru!Without(k)
            q == s.n[s.b[s.h]][1]
            t == IF Full(s) THEN Without(s, q) ELSE s
            e == Min({x \in Nodes : t.n[x] = <<>>})
            r == Added(t, e, k, o)
            D == IF Len(L) = cMax THEN Dropped(L, Len(L), Len(L)) ELSE L
            d == IF Len(L) = cMax THEN Len(L) - 1 ELSE Len(L)
<1>1. s.m[k] = NoEntry /\ s.c <= cMax /\ \E v : Aged(s, v) /\ ListOf(s, v) = L
  BY RemovedIs
<1>2. PICK v : Aged(s, v) /\ ListOf(s, v) = L
  BY <1>1
<1>3. byKey' = r.m /\ FLink' = r.f /\ BLink' = r.b /\ node' = r.n /\ AgeListHead' = r.h /\ c' = r.c
  BY DEF CachePush, Becomes, Added
<1>. HIDE DEF s, L
<1>4. s.c \in Nat /\ cMax \in Nat \ {0} /\ L \in Seq(CacheKeys \X CacheObjs) /\ Len(L) = s.c
  BY <1>2, ListOfIs, CacheAssumption
<1>5. t.m[k] = NoEntry /\ t.c = d /\ d < cMax /\ \E w : Aged(t, w) /\ ListOf(t, w) = D
  <2>1. CASE s.c = cMax
    <3>1. Full(s) /\ Len(L) = cMax /\ s.c # 0
      BY <1>4, <2>1 DEF Full
    <3>2. t = Without(s, q) /\ d = s.c - 1 /\ D = Dropped(L, s.c, s.c)
      BY <1>4, <3>1
    <3>3. /\ \A p \in CacheKeys : s.m[p] = NoEntry => Without(s, q).m[p] = NoEntry
          /\ Without(s, q).c = s.c - 1
          /\ \E w : /\ Aged(Without(s, q), w)
                    /\ ListOf(Without(s, q), w) = Dropped(ListOf(s, v), s.c, s.c)
      BY <1>2, <3>1, EvictedIs
    <3>. HIDE DEF t, D, d, q
    <3>4. d < cMax
      BY <1>4, <2>1, <3>2
    <3>. QED
      BY <1>1, <1>2, <3>2, <3>3, <3>4
  <2>2. CASE s.c # cMax
    <3>1. ~Full(s) /\ Len(L) # cMax /\ s.c < cMax
      BY <1>1, <1>4, <2>2 DEF Full
    <3>2. t = s /\ d = s.c /\ D = L
      BY <1>4, <3>1
    <3>. HIDE DEF t, D, d
    <3>. QED
      BY <1>1, <1>2, <3>1, <3>2
  <2>. QED
    BY <2>1, <2>2
<1>51. d \in Nat
  BY <1>4
<1>6. PICK w : Aged(t, w) /\ ListOf(t, w) = D
  BY <1>5
<1>. HIDE DEF t
<1>7. e \in Nodes /\ t.n[e] = <<>>
  <2>1. t.c <= cMax
    BY <1>4, <1>5, <1>51
  <2>. QED
    BY <1>6, <2>1, FreeNode
<1>. HIDE DEF e, D, d
<1>8. PICK x : x = Behind(e, w, t.c)
  OBVIOUS
<1>9. Aged(r, x) /\ r.c = t.c + 1 /\ ListOf(r, x) = Behind(<<k, o>>, ListOf(t, w), t.c)
  BY <1>5, <1>6, <1>7, <1>8, AddedIs
<1>. HIDE DEF r
<1>10. This' = r
  <2>1. r \in CacheRecords
    BY <1>9 DEF Aged
  <2>. QED
    BY <1>3, <2>1, BecomesIs
<1>11. r.c <= cMax
  BY <1>4, <1>5, <1>51, <1>9
<1>12. CacheInv' /\ AgeList' = ListOf(r, x)
  BY <1>9, <1>10, <1>11, NextIs
<1>13. Lru!Cut(<<<<k, o>>>> \o L) = Behind(<<k, o>>, D, d)
  <2>. DEFINE p == <<k, o>>
  <2>1. p \in CacheKeys \X CacheObjs
    OBVIOUS
  <2>2. /\ D = IF Len(L) = cMax THEN Dropped(L, Len(L), Len(L)) ELSE L
        /\ d = IF Len(L) = cMax THEN Len(L) - 1 ELSE Len(L)
    BY DEF D, d
  <2>3. Len(L) <= cMax
    BY <1>1, <1>4
  <2>. HIDE DEF p
  <2>4. Lru!Cut(<<p>> \o L) = Behind(p, D, d)
    BY <1>4, <2>1, <2>2, <2>3, StoredIs
  <2>. QED
    BY <2>4 DEF p
<1>. QED
  BY <1>5, <1>6, <1>9, <1>12, <1>13 DEF Lru!Store, L

LEMMA CacheStep ==
  ASSUME CacheInv, [CacheNext]_cacheVars
  PROVE  CacheInv' /\ [Lru!Next]_AgeList
<1>1. ASSUME This' = This PROVE CacheInv' /\ AgeList' = AgeList
  <2>1. PICK w : Aged(This, w)
    BY DEF CacheInv
  <2>2. This.c = c /\ c <= cMax /\ AgeList = ListOf(This, w)
    BY <2>1, ListedIs DEF This, CacheInv, AgeList
  <2>. DEFINE s == This
  <2>3. Aged(s, w) /\ s.c <= cMax /\ This' = s
    BY <1>1, <2>1, <2>2
  <2>. HIDE DEF s
  <2>4. CacheInv' /\ AgeList' = ListOf(s, w)
    BY <2>3, NextIs
  <2>. QED
    BY <2>2, <2>4 DEF s
<1>2. CASE CacheClear
  <2>. DEFINE t == [m |-> [k \in CacheKeys |-> NoEntry], f |-> FLink, b |-> BLink,
                    n |-> [e \in Nodes |-> <<>>], h |-> NoEntry, c |-> 0]
              w == [i \in 1..0 |-> 1]
  <2>0. PICK v : Aged(This, v)
    BY DEF CacheInv
  <2>1. FLink \in [Nodes -> Nodes] /\ BLink \in [Nodes -> Nodes]
    <3>1. This \in CacheRecords
      BY <2>0 DEF Aged
    <3>. QED
      BY <3>1 DEF CacheRecords, This
  <2>2. This' = t
    BY <1>2 DEF CacheClear, Becomes, This
  <2>3. Aged(t, w)
    <3>1. t \in CacheRecords
      BY <2>1 DEF CacheRecords
    <3>2. t.c = 0 /\ t.h = NoEntry
      OBVIOUS
    <3>3. \A k \in CacheKeys : t.m[k] = NoEntry
      OBVIOUS
    <3>4. \A e \in Nodes : t.n[e] = <<>>
      OBVIOUS
    <3>5. Linked(t.f, t.b, w, t.c)
      BY <3>2 DEF Linked
    <3>. HIDE DEF t
    <3>. QED
      BY <3>1, <3>2, <3>3, <3>4, <3>5 DEF Aged
  <2>4. t.c <= cMax /\ t.c = 0
    BY CacheAssumption
  <2>. HIDE DEF t, w
  <2>5. CacheInv' /\ AgeList' = ListOf(t, w)
    BY <2>2, <2>3, <2>4, NextIs
  <2>6. ListOf(t, w) = <<>>
    BY <2>4 DEF ListOf
  <2>. QED
    BY <2>5, <2>6 DEF Lru!Next, Lru!Clear
<1>3. ASSUME NEW k \in CacheKeys, CacheRemoveByKey(k) PROVE CacheInv' /\ [Lru!Next]_AgeList
  BY <1>3, RemoveStep DEF CacheRemoveByKey, Lru!Next
<1>4. ASSUME NEW k \in CacheKeys, CacheGetByKey(k) PROVE CacheInv' /\ [Lru!Next]_AgeList
  <2>0. byKey[k] # NoEntry
    BY <1>4 DEF CacheGetByKey
  <2>1. CASE Becomes(Without(This, k))
    BY <2>0, <2>1, RemoveStep DEF Lru!Next
  <2>2. CASE AgeListHead = byKey[k] /\ Becomes(This)
    <3>1. This' = This
      BY <2>2 DEF Becomes, This
    <3>. QED
      BY <1>1, <3>1
  <2>3. CASE AgeListHead # byKey[k] /\ Becomes(AtFront(Unlinked(This, byKey[k]), byKey[k]))
    BY <2>0, <2>3, UseStep DEF Lru!Next
  <2>. QED
    BY <1>4, <2>1, <2>2, <2>3 DEF CacheGetByKey
<1>5. ASSUME NEW k \in CacheKeys, NEW o \in CacheObjs, CachePush(k, o)
      PROVE  CacheInv' /\ [Lru!Next]_AgeList
  BY <1>5, CachePushStep DEF Lru!Next
<1>6. CASE UNCHANGED cacheVars
  <2>1. This' = This
    BY <1>6 DEF cacheVars, This
  <2>. QED
    BY <1>1, <2>1
<1>. QED
  BY <1>2, <1>3, <1>4, <1>5, <1>6 DEF CacheNext

LEMMA CacheStarts == CacheInit => CacheInv /\ Lru!Init
<1>. SUFFICES ASSUME CacheInit PROVE CacheInv /\ Lru!Init
  OBVIOUS
<1>. DEFINE w == [i \in 1..0 |-> 1]
<1>1. This.c = 0 /\ This.h = NoEntry /\ This.m = byKey /\ This.n = node /\ c = 0
  BY DEF CacheInit, This
<1>2. This \in CacheRecords
  BY DEF CacheInit, This, CacheRecords
<1>3. Linked(This.f, This.b, w, This.c)
  BY <1>1 DEF Linked
<1>4. (\A k \in CacheKeys : This.m[k] = NoEntry) /\ \A e \in Nodes : This.n[e] = <<>>
  BY <1>1 DEF CacheInit
<1>5. Aged(This, w)
  BY <1>1, <1>2, <1>3, <1>4 DEF Aged
<1>6. w \in [1..c -> Nodes] /\ c <= cMax
  BY <1>1, CacheAssumption
<1>7. CacheInv
  <2>. HIDE DEF w
  <2>. QED
    BY <1>5, <1>6 DEF CacheInv
<1>8. AgeList = <<>>
  BY <1>1 DEF AgeList, Listed
<1>. QED
  BY <1>7, <1>8 DEF Lru!Init

(* In every reachable state the age list is one circle of the entries that *)
(* the map knows, each found by its own key, and they are at most cMax.    *)
THEOREM CacheInvariant == CacheSpec => []CacheInv
<1>1. CacheInit => CacheInv
  BY CacheStarts
<1>2. CacheInv /\ [CacheNext]_cacheVars => CacheInv'
  BY CacheStep
<1>. QED
  BY <1>1, <1>2, PTL DEF CacheSpec

(* Through every get, replacement, removal and failed validation the age   *)
(* list is the list of an LRU cache: what is evicted is what was not used  *)
(* for the longest time.                                                   *)
THEOREM CacheImplements == CacheSpec => CacheIsLru
<1>1. CacheInit => CacheInv /\ Lru!Init
  BY CacheStarts
<1>2. CacheInv /\ [CacheNext]_cacheVars => CacheInv' /\ [Lru!Next]_AgeList
  BY CacheStep
<1>. QED
  BY <1>1, <1>2, PTL DEF CacheSpec, CacheIsLru, Lru!Spec

(***************************************************************************)
(* The hash index.                                                         *)
(***************************************************************************)
Table(n) == 0..(n - 1)
Home(e, i, n) == HashOf[At(e, i)] % n

(* Going around n slots: d slots on from s, and from s on to t.            *)
Ahead(s, d, n)  == IF s + d < n THEN s + d ELSE s + d - n
Toward(s, t, n) == IF s <= t THEN t - s ELSE t - s + n

(* h is an index of n slots over the entries i \in I of e: each has one    *)
(* slot, and no slot between the one that it prefers and its own is free.  *)
Tabled(h, I, n) ==
    /\ n \in Nat \ {0} /\ h \in [Table(n) -> Nat] /\ I \subseteq Nat \ {0}
    /\ \A s \in Table(n) : h[s] = 0 \/ h[s] \in I
    /\ \A s, t \in Table(n) : h[s] = h[t] /\ h[s] # 0 => s = t
    /\ \A i \in I : \E s \in Table(n) : h[s] = i
Placed(h, e, I, n) ==
    /\ Tabled(h, I, n)
    /\ \A i \in I : At(e, i) \in DOMAIN HashOf
    /\ \A s, t \in Table(n) :
         h[s] # 0 /\ Toward(Home(e, h[s], n), t, n) < Toward(Home(e, h[s], n), s, n) => h[t] # 0

LEMMA AheadIs ==
  ASSUME NEW n \in Nat \ {0}, NEW s \in Table(n)
  PROVE  /\ \A d \in Table(n) : Ahead(s, d, n) \in Table(n) /\ Toward(s, Ahead(s, d, n), n) = d
         /\ \A t \in Table(n) : Toward(s, t, n) \in Table(n) /\ Ahead(s, Toward(s, t, n), n) = t
         /\ \A d \in 0..n : (s + d) % n = Ahead(s, d, n) /\ (s + d) % n \in Table(n)
<1>1. \A d \in Table(n) : Ahead(s, d, n) \in Table(n) /\ Toward(s, Ahead(s, d, n), n) = d
  BY DEF Ahead, Toward, Table
<1>2. \A t \in Table(n) : Toward(s, t, n) \in Table(n) /\ Ahead(s, Toward(s, t, n), n) = t
  BY DEF Ahead, Toward, Table
<1>3. \A d \in 0..n : (s + d) % n = Ahead(s, d, n)
  <2>. SUFFICES ASSUME NEW d \in 0..n PROVE (s + d) % n = Ahead(s, d, n)
    OBVIOUS
  <2>1. s \in 0..(n - 1)
    BY DEF Table
  <2>. QED
    BY <2>1, Modulo DEF Ahead
<1>4. \A d \in 0..n : Ahead(s, d, n) \in Table(n)
  BY DEF Ahead, Table
<1>. QED
  BY <1>1, <1>2, <1>3, <1>4

LEMMA SizeIs ==
  ASSUME NEW n \in Nat, NEW S, NEW h \in [Table(n) -> S]
  PROVE  Size(h) = n
<1>1. 0 \in Int /\ n - 1 \in Int
  OBVIOUS
<1>2. Cardinality(0..(n - 1)) = IF 0 > n - 1 THEN 0 ELSE (n - 1) - 0 + 1
  BY <1>1, FS_Interval
<1>3. Cardinality(0..(n - 1)) = n
  BY <1>2
<1>. QED
  BY <1>3 DEF Size, Table

(* The slot of T that is met first from s on.                              *)
LEMMA FirstIs ==
  ASSUME NEW n \in Nat \ {0}, NEW s \in Table(n), NEW T \in SUBSET Table(n), T # {},
         NEW p, p = (s + Min({d \in 0..(n - 1) : (s + d) % n \in T})) % n
  PROVE  p \in T /\ \A t \in T : Toward(s, p, n) <= Toward(s, t, n)
<1>. DEFINE D == {d \in 0..(n - 1) : (s + d) % n \in T}
<1>1. \A t \in T : Toward(s, t, n) \in D
  <2>. SUFFICES ASSUME NEW t \in T PROVE Toward(s, t, n) \in D
    OBVIOUS
  <2>1. Toward(s, t, n) \in Table(n) /\ Ahead(s, Toward(s, t, n), n) = t
    BY AheadIs
  <2>2. Toward(s, t, n) \in 0..n /\ Toward(s, t, n) \in 0..(n - 1)
    BY <2>1 DEF Table
  <2>3. (s + Toward(s, t, n)) % n = t
    BY <2>1, <2>2, AheadIs
  <2>. QED
    BY <2>2, <2>3
<1>2. \E x \in D : \A y \in D : x <= y
  <2>1. D \in SUBSET Nat /\ D # {}
    BY <1>1
  <2>. HIDE DEF D
  <2>. QED
    BY <2>1, NatMin
<1>3. Min(D) \in D /\ \A y \in D : Min(D) <= y
  <2>. HIDE DEF D
  <2>. QED
    BY <1>2 DEF Min
<1>. DEFINE d == Min(D)
<1>. HIDE DEF d
<1>4. d \in Table(n) /\ d \in 0..n /\ (s + d) % n \in T /\ p = (s + d) % n
  BY <1>3 DEF d, Table
<1>5. Toward(s, p, n) = d
  <2>1. p = Ahead(s, d, n)
    BY <1>4, AheadIs
  <2>2. Toward(s, Ahead(s, d, n), n) = d
    BY <1>4, AheadIs
  <2>. QED
    BY <2>1, <2>2
<1>. QED
  BY <1>1, <1>3, <1>4, <1>5 DEF d

LEMMA HomeIs ==
  ASSUME NEW n \in Nat \ {0}, NEW e, NEW i, At(e, i) \in DOMAIN HashOf
  PROVE  Home(e, i, n) \in Table(n)
<1>1. HashOf[At(e, i)] \in Nat
  BY HashAssumption
<1>. HIDE DEF At
<1>2. HashOf[At(e, i)] % n \in 0..(n - 1)
  BY <1>1, ModuloIn
<1>. QED
  BY <1>2 DEF Home, Table

(* An index of more slots than entries has a free slot.                    *)
LEMMA FreeSlot ==
  ASSUME NEW h, NEW I, NEW n, Tabled(h, I, n), NEW m \in Nat, m < n, I \subseteq 1..m
  PROVE  \E z \in Table(n) : h[z] = 0
<1>. SUFFICES ASSUME \A z \in Table(n) : h[z] # 0 PROVE FALSE
  OBVIOUS
<1>1. n \in Nat \ {0} /\ h \in [Table(n) -> 1..m]
  BY DEF Tabled
<1>2. IsFiniteSet(Table(n)) /\ Cardinality(Table(n)) = n
  <2>1. 0 \in Int /\ n - 1 \in Int
    BY <1>1
  <2>2. /\ IsFiniteSet(0..(n - 1))
        /\ Cardinality(0..(n - 1)) = IF 0 > n - 1 THEN 0 ELSE (n - 1) - 0 + 1
    BY <2>1, FS_Interval
  <2>. QED
    BY <1>1, <2>2 DEF Table
<1>3. IsFiniteSet(1..m) /\ Cardinality(1..m) = m
  <2>1. 1 \in Int /\ m \in Int
    OBVIOUS
  <2>2. IsFiniteSet(1..m) /\ Cardinality(1..m) = IF 1 > m THEN 0 ELSE m - 1 + 1
    BY <2>1, FS_Interval
  <2>. QED
    BY <2>2
<1>4. \E x, y \in Table(n) : x # y /\ h[x] = h[y]
  <2>. DEFINE S == Table(n)
              T == 1..m
  <2>1. IsFiniteSet(S) /\ IsFiniteSet(T) /\ Cardinality(T) < Cardinality(S) /\ h \in [S -> T]
    BY <1>1, <1>2, <1>3
  <2>. HIDE DEF S, T
  <2>2. \E x, y \in S : x # y /\ h[x] = h[y]
    BY <2>1, FS_PigeonHole
  <2>. QED
    BY <2>2 DEF S
<1>. QED
  BY <1>4 DEF Tabled

(* The slot that an entry is inserted at.                                  *)
LEMMA InsertGoes ==
  ASSUME NEW n \in Nat \ {0}, NEW h \in [Table(n) -> Nat], NEW e, NEW i, At(e, i) \in DOMAIN HashOf,
         \E z \in Table(n) : h[z] = 0,
         NEW s, s = Home(e, i, n)
  PROVE  \E p \in Table(n) :
           /\ h[p] = 0 /\ InsertHash(h, e, i) = Redirected(h, p, i)
           /\ \A t \in Table(n) : Toward(s, t, n) < Toward(s, p, n) => h[t] # 0
<1>1. s \in Table(n) /\ Size(h) = n /\ Slot(h, At(e, i)) = s
  BY HomeIs, SizeIs DEF Slot, Home
<1>2. PICK T : T = {t \in Table(n) : h[t] = 0}
  OBVIOUS
<1>3. PICK w : w = (s + Min({d \in 0..(n - 1) : (s + d) % n \in T})) % n
  OBVIOUS
<1>4. {d \in 0..(n - 1) : h[(s + d) % n] = 0} = {d \in 0..(n - 1) : (s + d) % n \in T}
  <2>1. \A d \in 0..(n - 1) : (s + d) % n \in Table(n)
    BY <1>1, AheadIs
  <2>. QED
    BY <1>2, <2>1
<1>5. InsertHash(h, e, i) = Redirected(h, w, i)
  BY <1>1, <1>3, <1>4 DEF InsertHash, Probe, Redirected
<1>6. w \in T /\ \A t \in T : Toward(s, w, n) <= Toward(s, t, n)
  <2>1. T \in SUBSET Table(n) /\ T # {}
    BY <1>2
  <2>. QED
    BY <1>1, <1>3, <2>1, FirstIs
<1>7. w \in Table(n) /\ h[w] = 0
  BY <1>2, <1>6
<1>8. \A t \in Table(n) : Toward(s, t, n) < Toward(s, w, n) => h[t] # 0
  <2>. SUFFICES ASSUME NEW t \in Table(n), Toward(s, t, n) < Toward(s, w, n), h[t] = 0 PROVE FALSE
    OBVIOUS
  <2>1. Toward(s, t, n) \in Int /\ Toward(s, w, n) \in Int
    BY <1>1, <1>7, AheadIs DEF Table
  <2>. QED
    BY <1>2, <1>6, <2>1
<1>. QED
  BY <1>5, <1>7, <1>8

(* Another entry in a free slot.                                           *)
LEMMA TabledWith ==
  ASSUME NEW n, NEW h, NEW I, Tabled(h, I, n), NEW i \in Nat \ {0}, i \notin I,
         NEW p \in Table(n), h[p] = 0
  PROVE  Tabled(Redirected(h, p, i), I \cup {i}, n)
<1>1. /\ n \in Nat \ {0} /\ h \in [Table(n) -> Nat] /\ I \subseteq Nat \ {0}
      /\ \A s \in Table(n) : h[s] = 0 \/ h[s] \in I
      /\ \A s, t \in Table(n) : h[s] = h[t] /\ h[s] # 0 => s = t
      /\ \A j \in I : \E s \in Table(n) : h[s] = j
  BY DEF Tabled
<1>2. PICK g : g = Redirected(h, p, i)
  OBVIOUS
<1>3. g \in [Table(n) -> Nat] /\ \A s \in Table(n) : g[s] = IF s = p THEN i ELSE h[s]
  BY <1>1, <1>2 DEF Redirected
<1>4. \A s \in Table(n) : g[s] = 0 \/ g[s] \in I \cup {i}
  BY <1>1, <1>3
<1>5. \A s, t \in Table(n) : g[s] = g[t] /\ g[s] # 0 => s = t
  BY <1>1, <1>3
<1>6. \A j \in I \cup {i} : \E s \in Table(n) : g[s] = j
  <2>. SUFFICES ASSUME NEW j \in I \cup {i} PROVE \E s \in Table(n) : g[s] = j
    OBVIOUS
  <2>1. CASE j = i
    BY <1>3, <2>1
  <2>2. CASE j \in I
    <3>1. PICK s \in Table(n) : h[s] = j
      BY <1>1, <2>2
    <3>2. s # p
      BY <1>1, <2>2, <3>1
    <3>. QED
      BY <1>3, <3>1, <3>2
  <2>. QED
    BY <2>1, <2>2
<1>. QED
  BY <1>1, <1>2, <1>3, <1>4, <1>5, <1>6 DEF Tabled

(* An entry leaves its slot.                                               *)
LEMMA TabledWithout ==
  ASSUME NEW n, NEW h, NEW I, Tabled(h, I, n), NEW p \in Table(n), h[p] # 0
  PROVE  Tabled(Redirected(h, p, 0), I \ {h[p]}, n)
<1>1. /\ n \in Nat \ {0} /\ h \in [Table(n) -> Nat] /\ I \subseteq Nat \ {0}
      /\ \A s \in Table(n) : h[s] = 0 \/ h[s] \in I
      /\ \A s, t \in Table(n) : h[s] = h[t] /\ h[s] # 0 => s = t
      /\ \A j \in I : \E s \in Table(n) : h[s] = j
  BY DEF Tabled
<1>2. PICK g : g = Redirected(h, p, 0)
  OBVIOUS
<1>3. g \in [Table(n) -> Nat] /\ \A s \in Table(n) : g[s] = IF s = p THEN 0 ELSE h[s]
  BY <1>1, <1>2 DEF Redirected
<1>4. \A s \in Table(n) : g[s] = 0 \/ g[s] \in I \ {h[p]}
  BY <1>1, <1>3
<1>5. \A s, t \in Table(n) : g[s] = g[t] /\ g[s] # 0 => s = t
  BY <1>1, <1>3
<1>6. \A j \in I \ {h[p]} : \E s \in Table(n) : g[s] = j
  BY <1>1, <1>3
<1>. QED
  BY <1>1, <1>2, <1>3, <1>4, <1>5, <1>6 DEF Tabled

LEMMA HashWith ==
  ASSUME NEW n, NEW h, NEW e, NEW I, Placed(h, e, I, n), NEW i \in Nat \ {0}, i \notin I,
         At(e, i) \in DOMAIN HashOf, \E z \in Table(n) : h[z] = 0
  PROVE  Placed(InsertHash(h, e, i), e, I \cup {i}, n)
<1>1. /\ n \in Nat \ {0} /\ h \in [Table(n) -> Nat]
      /\ Tabled(h, I, n)
      /\ \A j \in I : At(e, j) \in DOMAIN HashOf
      /\ \A s, t \in Table(n) :
           h[s] # 0 /\ Toward(Home(e, h[s], n), t, n) < Toward(Home(e, h[s], n), s, n) => h[t] # 0
  BY DEF Placed, Tabled
<1>2. PICK w : w = Home(e, i, n)
  OBVIOUS
<1>3. PICK p \in Table(n) :
        /\ h[p] = 0 /\ InsertHash(h, e, i) = Redirected(h, p, i)
        /\ \A t \in Table(n) : Toward(w, t, n) < Toward(w, p, n) => h[t] # 0
  BY <1>1, <1>2, InsertGoes
<1>4. PICK g : g = Redirected(h, p, i)
  OBVIOUS
<1>5. \A s \in Table(n) : g[s] = IF s = p THEN i ELSE h[s]
  BY <1>1, <1>4 DEF Redirected
<1>6. Tabled(g, I \cup {i}, n)
  BY <1>1, <1>3, <1>4, TabledWith
<1>7. ASSUME NEW s \in Table(n), NEW t \in Table(n), g[s] # 0,
             Toward(Home(e, g[s], n), t, n) < Toward(Home(e, g[s], n), s, n)
      PROVE  g[t] # 0
  <2>1. CASE s = p
    <3>1. g[s] = i
      BY <1>5, <2>1
    <3>2. h[t] # 0
      BY <1>2, <1>3, <1>7, <2>1, <3>1
    <3>. QED
      BY <1>5, <3>2
  <2>2. CASE s # p
    <3>1. g[s] = h[s]
      BY <1>5, <2>2
    <3>2. h[t] # 0
      BY <1>1, <1>7, <3>1
    <3>. QED
      BY <1>5, <3>2
  <2>. QED
    BY <2>1, <2>2
<1>8. \A j \in I \cup {i} : At(e, j) \in DOMAIN HashOf
  BY <1>1
<1>9. Placed(g, e, I \cup {i}, n)
  BY <1>6, <1>7, <1>8 DEF Placed
<1>. QED
  BY <1>3, <1>4, <1>9

(* Only the values of the entries that are indexed matter.                 *)
LEMMA PlacedSame ==
  ASSUME NEW n, NEW h, NEW e, NEW I, Placed(h, e, I, n), NEW f, \A i \in I : At(f, i) = At(e, i)
  PROVE  Placed(h, f, I, n)
<1>1. \A s \in Table(n) : h[s] # 0 => Home(f, h[s], n) = Home(e, h[s], n)
  BY DEF Placed, Tabled, Home
<1>2. \A i \in I : At(f, i) \in DOMAIN HashOf
  BY DEF Placed
<1>. QED
  BY <1>1, <1>2 DEF Placed

(***************************************************************************)
(* Seen from a free slot z the slots are in a line.                        *)
(***************************************************************************)
Lined(h, e, I, z, n) ==
    /\ Tabled(h, I, n) /\ h[z] = 0
    /\ \A i \in I : At(e, i) \in DOMAIN HashOf
    /\ \A t \in Table(n) : h[t] # 0 =>
         /\ 1 <= Toward(z, Home(e, h[t], n), n)
         /\ Toward(z, Home(e, h[t], n), n) <= Toward(z, t, n)
    /\ \A t, u \in Table(n) :
         h[t] # 0 /\ Toward(z, Home(e, h[t], n), n) <= Toward(z, u, n)
                  /\ Toward(z, u, n) < Toward(z, t, n) => h[u] # 0

LEMMA InLine ==
  ASSUME NEW n \in Nat \ {0}, NEW z \in Table(n), NEW s \in Table(n), NEW t \in Table(n),
         NEW u \in Table(n)
  PROVE  /\ Toward(z, s, n) \in Table(n) /\ (Toward(z, s, n) = 0 <=> s = z)
         /\ Toward(z, s, n) = Toward(z, t, n) <=> s = t
         /\ Toward(z, s, n) <= Toward(z, t, n) =>
              (Toward(s, u, n) < Toward(s, t, n)
                 <=> Toward(z, s, n) <= Toward(z, u, n) /\ Toward(z, u, n) < Toward(z, t, n))
         /\ Toward(z, t, n) < Toward(z, s, n) /\ t # z => Toward(s, z, n) < Toward(s, t, n)
         /\ Toward(z, t, n) < Toward(z, s, n) /\ Toward(z, s, n) <= Toward(z, u, n) =>
              Toward(s, u, n) < Toward(s, t, n)
  BY DEF Toward, Table

LEMMA TowardIn ==
  ASSUME NEW n \in Nat \ {0}, NEW z \in Table(n), NEW s \in Table(n)
  PROVE  Toward(z, s, n) \in Nat /\ Toward(z, s, n) < n
  BY DEF Toward, Table

LEMMA LinedIs ==
  ASSUME NEW n, NEW h, NEW e, NEW I, NEW z \in Table(n)
  PROVE  Lined(h, e, I, z, n) <=> Placed(h, e, I, n) /\ h[z] = 0
<1>1. ASSUME Lined(h, e, I, z, n)
      PROVE  Placed(h, e, I, n) /\ h[z] = 0
  <2>1. n \in Nat \ {0} /\ Tabled(h, I, n) /\ h[z] = 0 /\ \A i \in I : At(e, i) \in DOMAIN HashOf
    BY <1>1 DEF Lined, Tabled
  <2>2. ASSUME NEW s \in Table(n), NEW t \in Table(n), h[s] # 0,
               Toward(Home(e, h[s], n), t, n) < Toward(Home(e, h[s], n), s, n)
        PROVE  h[t] # 0
    <3>1. PICK w : w = Home(e, h[s], n)
      OBVIOUS
    <3>2. h[s] \in I
      BY <2>1, <2>2 DEF Tabled
    <3>3. w \in Table(n)
      BY <2>1, <3>1, <3>2, HomeIs
    <3>4. Toward(z, w, n) <= Toward(z, s, n)
      BY <1>1, <2>2, <3>1 DEF Lined
    <3>5. Toward(z, w, n) <= Toward(z, t, n) /\ Toward(z, t, n) < Toward(z, s, n)
      BY <2>1, <2>2, <3>1, <3>3, <3>4, InLine
    <3>. QED
      BY <1>1, <2>2, <3>1, <3>5 DEF Lined
  <2>. QED
    BY <2>1, <2>2 DEF Placed
<1>2. ASSUME Placed(h, e, I, n), h[z] = 0
      PROVE  Lined(h, e, I, z, n)
  <2>1. n \in Nat \ {0} /\ Tabled(h, I, n) /\ \A i \in I : At(e, i) \in DOMAIN HashOf
    BY <1>2 DEF Placed, Tabled
  <2>2. ASSUME NEW t \in Table(n), h[t] # 0, NEW w, w = Home(e, h[t], n)
        PROVE  /\ w \in Table(n) /\ 1 <= Toward(z, w, n) /\ Toward(z, w, n) <= Toward(z, t, n)
               /\ \A u \in Table(n) :
                    Toward(z, w, n) <= Toward(z, u, n) /\ Toward(z, u, n) < Toward(z, t, n)
                      => h[u] # 0
    <3>1. h[t] \in I
      BY <2>1, <2>2 DEF Tabled
    <3>2. w \in Table(n)
      BY <2>1, <2>2, <3>1, HomeIs
    <3>3. t # z /\ ~(Toward(w, z, n) < Toward(w, t, n))
      BY <1>2, <2>2 DEF Placed
    <3>4. Toward(z, w, n) \in Nat /\ Toward(z, t, n) \in Nat /\ (Toward(z, w, n) = 0 <=> w = z)
          /\ Toward(z, t, n) # 0 /\ Toward(z, z, n) = 0
      BY <2>1, <3>2, <3>3, InLine DEF Table
    <3>5. Toward(z, w, n) <= Toward(z, t, n)
      BY <2>1, <3>2, <3>3, <3>4, InLine
    <3>6. w # z
      BY <2>1, <3>2, <3>3, <3>4, <3>5
    <3>7. ASSUME NEW u \in Table(n),
                 Toward(z, w, n) <= Toward(z, u, n), Toward(z, u, n) < Toward(z, t, n)
          PROVE  h[u] # 0
      <4>1. Toward(w, u, n) < Toward(w, t, n)
        BY <2>1, <3>2, <3>5, <3>7, InLine
      <4>. QED
        BY <1>2, <2>2, <4>1 DEF Placed
    <3>. QED
      BY <3>2, <3>4, <3>5, <3>6, <3>7
  <2>. QED
    BY <1>2, <2>1, <2>2 DEF Lined
<1>. QED
  BY <1>1, <1>2

LEMMA Between ==
  ASSUME NEW n \in Nat \ {0}, NEW s \in Table(n), NEW z \in Table(n), NEW x \in Table(n),
         Toward(s, x, n) < Toward(s, z, n)
  PROVE  Toward(z, x, n) = Toward(z, s, n) + Toward(s, x, n)
  BY DEF Toward, Table

(***************************************************************************)
(* A removal: the entries behind the slot are inserted again, one by one.  *)
(***************************************************************************)
LEMMA InsertIn ==
  ASSUME NEW n, NEW h \in [Table(n) -> Nat], NEW e, NEW i \in Nat
  PROVE  InsertHash(h, e, i) \in [Table(n) -> Nat]
BY DEF InsertHash

LEMMA RehashIn ==
  ASSUME NEW n, NEW h \in [Table(n) -> Nat], NEW e, NEW x \in Table(n)
  PROVE  Rehash(h, e, x) \in [Table(n) -> Nat]
<1>1. PICK g : g = [h EXCEPT ![x] = 0]
  OBVIOUS
<1>2. g \in [Table(n) -> Nat] /\ h[x] \in Nat
  BY <1>1
<1>3. InsertHash(g, e, h[x]) \in [Table(n) -> Nat]
  BY <1>2, InsertIn
<1>4. Rehash(h, e, x) = h \/ Rehash(h, e, x) = InsertHash(g, e, h[x])
  BY <1>1 DEF Rehash
<1>. QED
  BY <1>3, <1>4

(* How far behind slot s the first free slot is.                           *)
Gap(g, s, n) == Min({d \in 1..n : g[(s + d) % n] = 0})

(* a[d] is the index after d entries behind slot s have been inserted      *)
(* again.                                                                  *)
Removing(a, g, e, s, m, n) ==
    /\ a \in [0..m -> [Table(n) -> Nat]] /\ a[0] = g
    /\ \A d \in 1..m : a[d] = Rehash(a[d - 1], e, (s + d) % n)

LEMMA RemoveGoes ==
  ASSUME NEW n \in Nat \ {0}, NEW h \in [Table(n) -> Nat], NEW e, NEW s \in Table(n),
         NEW g, g = Redirected(h, s, 0), NEW m \in Nat, m + 1 = Gap(g, s, n)
  PROVE  \E a : Removing(a, g, e, s, m, n) /\ RemoveHash(h, e, s) = a[m]
<1>1. m = Min({d \in 1..n : g[(s + d) % n] = 0}) - 1
  <2>1. PICK b : b = Gap(g, s, n)
    OBVIOUS
  <2>2. m + 1 = b
    BY <2>1
  <2>3. m = b - 1
    BY <2>2
  <2>. QED
    BY <2>1, <2>3 DEF Gap
<1>2. g \in [Table(n) -> Nat] /\ Size(h) = n /\ g = [h EXCEPT ![s] = 0]
  BY SizeIs DEF Redirected
<1>. DEFINE X == [Table(n) -> Nat]
            G == [w \in X \X (1..m) |-> Rehash(w[1], e, (s + w[2]) % n)]
            g0 == [h EXCEPT ![s] = 0]
            m0 == Min({d \in 1..Size(h) : g0[(s + d) % Size(h)] = 0}) - 1
            Go(a) == [d \in 0..m0 |->
                        IF d = 0 THEN g0 ELSE Rehash(a[d - 1], e, (s + d) % Size(h))]
<1>3. G \in [X \X (1..m) -> X]
  <2>. SUFFICES ASSUME NEW w \in X \X (1..m) PROVE Rehash(w[1], e, (s + w[2]) % n) \in X
    OBVIOUS
  <2>1. PICK v, d : v = w[1] /\ d = w[2]
    OBVIOUS
  <2>2. v \in [Table(n) -> Nat] /\ d \in 1..m
    BY <2>1
  <2>3. (s + d) % n \in Table(n)
    <3>1. s + d \in Nat
      BY <2>2 DEF Table
    <3>. QED
      BY <3>1, ModuloIn DEF Table
  <2>4. Rehash(v, e, (s + d) % n) \in X
    BY <2>2, <2>3, RehashIn
  <2>. QED
    BY <2>1, <2>4
<1>4. PICK a \in [0..m -> X] : a[0] = g /\ \A d \in 1..m : a[d] = G[<<a[d - 1], d>>]
  <2>1. g \in X
    BY <1>2
  <2>2. PICK DD : DD = X \X (1..m)
    OBVIOUS
  <2>. HIDE DEF X, G
  <2>3. \E a : Stepped(a, m, X, g, G)
    BY <1>3, <2>1, <2>2, Steps
  <2>. QED
    BY <2>3 DEF Stepped
<1>5. \A d \in 1..m : a[d] = Rehash(a[d - 1], e, (s + d) % n)
  <2>. SUFFICES ASSUME NEW d \in 1..m PROVE a[d] = Rehash(a[d - 1], e, (s + d) % n)
    OBVIOUS
  <2>1. d - 1 \in 0..m
    OBVIOUS
  <2>2. PICK w : w = <<a[d - 1], d>>
    OBVIOUS
  <2>3. w \in X \X (1..m) /\ w[1] = a[d - 1] /\ w[2] = d
    BY <1>4, <2>1, <2>2
  <2>4. a[d] = G[w]
    BY <1>4, <2>2
  <2>. QED
    BY <2>3, <2>4
<1>6. a = Go(a)
  <2>1. \A d \in 0..m : d = 0 \/ d \in 1..m
    OBVIOUS
  <2>2. a = [d \in 0..m |-> a[d]]
    BY <1>4
  <2>3. \A d \in 0..m : a[d] = IF d = 0 THEN g ELSE Rehash(a[d - 1], e, (s + d) % n)
    BY <1>4, <1>5, <2>1
  <2>4. g0 = g /\ m0 = m /\ Size(h) = n
    BY <1>1, <1>2
  <2>. HIDE DEF g0, m0
  <2>. QED
    BY <2>2, <2>3, <2>4
<1>7. PICK u : u = CHOOSE f : f = Go(f)
  OBVIOUS
<1>8. u = Go(u)
  <2>. HIDE DEF Go
  <2>. QED
    BY <1>6, <1>7
<1>9. RemoveHash(h, e, s) = u[m]
  <2>1. RemoveHash(h, e, s) = u[m0]
    BY <1>7 DEF RemoveHash
  <2>2. m0 = m
    BY <1>1, <1>2
  <2>. QED
    BY <2>1, <2>2
<1>10. /\ u \in [0..m -> X] /\ u[0] = g
       /\ \A d \in 1..m : u[d] = Rehash(u[d - 1], e, (s + d) % n)
  <2>0. g0 = g /\ m0 = m /\ Size(h) = n
    BY <1>1, <1>2
  <2>1. DOMAIN u = 0..m /\ u[0] = g /\ u = [d \in 0..m |-> u[d]]
    <3>. HIDE DEF g0, m0
    <3>. QED
      BY <1>8, <2>0
  <2>2. \A d \in 1..m : u[d] = Rehash(u[d - 1], e, (s + d) % n)
    <3>. HIDE DEF g0, m0
    <3>. QED
      BY <1>8, <2>0
  <2>3. a = u
    <3>. DEFINE Bad == {d \in 0..m : a[d] # u[d]}
    <3>1. SUFFICES ASSUME Bad # {} PROVE FALSE
      <4>1. a = [d \in 0..m |-> a[d]] /\ u = [d \in 0..m |-> u[d]]
        BY <1>4, <2>1
      <4>2. \A d \in 0..m : a[d] = u[d]
        BY <3>1
      <4>. QED
        BY <4>1, <4>2
    <3>2. PICK d \in Bad : \A l \in Bad : d <= l
      <4>1. Bad \in SUBSET Nat
        OBVIOUS
      <4>. HIDE DEF Bad
      <4>. QED
        BY <3>1, <4>1, NatMin
    <3>. HIDE DEF X
    <3>3. d \in 0..m /\ d # 0 /\ a[d] # u[d]
      BY <1>4, <2>1, <3>2
    <3>6. d \in 1..m /\ d - 1 \in 0..m /\ d - 1 \notin Bad
      <4>1. d \in 1..m /\ d - 1 \in 0..m /\ ~(d <= d - 1)
        BY <3>3
      <4>. HIDE DEF Bad
      <4>. QED
        BY <3>2, <4>1
    <3>4. a[d - 1] = u[d - 1]
      BY <3>6
    <3>5. a[d] = Rehash(u[d - 1], e, (s + d) % n)
      BY <1>5, <3>6, <3>4
    <3>. QED
      BY <2>2, <3>3, <3>5, <3>6
  <2>. QED
    BY <1>4, <2>1, <2>2, <2>3
<1>. QED
  BY <1>9, <1>10 DEF Removing

(* While the entries behind a removed one are inserted again: a is the     *)
(* index, h is what it was before, from z on the removed entry was slot k, *)
(* and d entries have been done.                                           *)
During(a, h, e, I, z, k, d, n) ==
    /\ Tabled(a, I, n) /\ a[z] = 0
    /\ \A u \in Table(n) : k + d < Toward(z, u, n) => a[u] = h[u]
    /\ \A t \in Table(n) : a[t] # 0 =>
         /\ 1 <= Toward(z, Home(e, a[t], n), n)
         /\ Toward(z, Home(e, a[t], n), n) <= Toward(z, t, n)
    /\ \A t, u \in Table(n) :
         a[t] # 0 /\ Toward(z, Home(e, a[t], n), n) <= Toward(z, u, n)
                  /\ Toward(z, u, n) < Toward(z, t, n) =>
           \/ a[u] # 0
           \/ k + d < Toward(z, t, n) /\ k <= Toward(z, u, n) /\ Toward(z, u, n) <= k + d

LEMMA LoopStarts ==
  ASSUME NEW n, NEW h, NEW e, NEW I, NEW z \in Table(n), Lined(h, e, I, z, n),
         NEW s \in Table(n), h[s] # 0, NEW f, \A i \in I \ {h[s]} : At(f, i) = At(e, i),
         NEW g, g = Redirected(h, s, 0), NEW k, k = Toward(z, s, n)
  PROVE  During(g, h, f, I \ {h[s]}, z, k, 0, n)
<1>1. /\ n \in Nat \ {0} /\ h \in [Table(n) -> Nat] /\ Tabled(h, I, n) /\ h[z] = 0
      /\ \A t \in Table(n) : h[t] = 0 \/ h[t] \in I
      /\ \A t, u \in Table(n) : h[t] = h[u] /\ h[t] # 0 => t = u
  BY DEF Lined, Tabled
<1>2. Tabled(g, I \ {h[s]}, n)
  BY <1>1, TabledWithout
<1>3. \A t \in Table(n) : g[t] = IF t = s THEN 0 ELSE h[t]
  BY <1>1 DEF Redirected
<1>4. \A u \in Table(n) : Toward(z, u, n) \in Nat /\ (Toward(z, u, n) = k <=> u = s)
  BY <1>1, InLine, TowardIn
<1>5. g[z] = 0 /\ k \in Nat
  BY <1>1, <1>3, <1>4
<1>6. \A u \in Table(n) : k + 0 < Toward(z, u, n) => g[u] = h[u]
  BY <1>3, <1>4, <1>5
<1>7. \A t \in Table(n) : g[t] # 0 => t # s /\ g[t] = h[t] /\ Home(f, g[t], n) = Home(e, h[t], n)
  <2>. SUFFICES ASSUME NEW t \in Table(n), g[t] # 0
                PROVE  t # s /\ g[t] = h[t] /\ Home(f, g[t], n) = Home(e, h[t], n)
    OBVIOUS
  <2>1. t # s /\ g[t] = h[t] /\ h[t] \in I \ {h[s]}
    BY <1>1, <1>3
  <2>2. At(f, h[t]) = At(e, h[t])
    BY <2>1
  <2>. QED
    BY <2>1, <2>2 DEF Home
<1>8. ASSUME NEW t \in Table(n), g[t] # 0
      PROVE  /\ 1 <= Toward(z, Home(f, g[t], n), n)
             /\ Toward(z, Home(f, g[t], n), n) <= Toward(z, t, n)
  BY <1>7, <1>8 DEF Lined
<1>9. ASSUME NEW t \in Table(n), NEW u \in Table(n), g[t] # 0,
             Toward(z, Home(f, g[t], n), n) <= Toward(z, u, n),
             Toward(z, u, n) < Toward(z, t, n)
      PROVE  \/ g[u] # 0
             \/ k + 0 < Toward(z, t, n) /\ k <= Toward(z, u, n) /\ Toward(z, u, n) <= k + 0
  <2>1. h[u] # 0
    BY <1>7, <1>9 DEF Lined
  <2>2. CASE u # s
    BY <1>3, <2>1, <2>2
  <2>3. CASE u = s
    <3>1. Toward(z, u, n) = k /\ Toward(z, t, n) \in Nat
      BY <1>4, <2>3
    <3>. QED
      BY <1>5, <1>9, <3>1
  <2>. QED
    BY <2>2, <2>3
<1>. QED
  BY <1>2, <1>5, <1>6, <1>8, <1>9 DEF During

LEMMA LoopEnds ==
  ASSUME NEW n, NEW a, NEW h, NEW e, NEW I, NEW z \in Table(n), NEW k, NEW d,
         During(a, h, e, I, z, k, d, n), k + d = n - 1, \A i \in I : At(e, i) \in DOMAIN HashOf
  PROVE  Lined(a, e, I, z, n)
<1>1. n \in Nat \ {0}
  BY DEF During, Tabled
<1>2. \A t \in Table(n) : Toward(z, t, n) \in Nat /\ Toward(z, t, n) <= n - 1
  BY <1>1, InLine DEF Table
<1>3. \A t \in Table(n) : ~(k + d < Toward(z, t, n))
  BY <1>1, <1>2
<1>. QED
  BY <1>3 DEF During, Lined

LEMMA LoopStep ==
  ASSUME NEW n, NEW a, NEW h, NEW e, NEW I, NEW z \in Table(n), NEW k \in Nat, NEW d \in Nat,
         During(a, h, e, I, z, k, d, n), \A i \in I : At(e, i) \in DOMAIN HashOf,
         NEW x \in Table(n), h[x] # 0, NEW q, q = d + 1, Toward(z, x, n) = k + q
  PROVE  During(Rehash(a, e, x), h, e, I, z, k, q, n)
<1>1. /\ n \in Nat \ {0} /\ a \in [Table(n) -> Nat] /\ Tabled(a, I, n) /\ I \subseteq Nat \ {0}
      /\ \A t \in Table(n) : a[t] = 0 \/ a[t] \in I
      /\ \A t, u \in Table(n) : a[t] = a[u] /\ a[t] # 0 => t = u
  BY DEF During, Tabled
<1>2. PICK L : L = [u \in Table(n) |-> Toward(z, u, n)]
  OBVIOUS
<1>3. /\ \A u \in Table(n) : L[u] = Toward(z, u, n) /\ L[u] \in Nat
      /\ \A u, v \in Table(n) : L[u] = L[v] => u = v
      /\ L[x] = k + d + 1
  <2>1. \A u \in Table(n) : L[u] = Toward(z, u, n)
    BY <1>2
  <2>2. \A u \in Table(n) : Toward(z, u, n) \in Nat
    BY <1>1, TowardIn
  <2>3. \A u, v \in Table(n) : Toward(z, u, n) = Toward(z, v, n) => u = v
    BY <1>1, InLine
  <2>. QED
    BY <2>1, <2>2, <2>3
<1>4. PICK w : w = Home(e, a[x], n)
  OBVIOUS
<1>5. /\ a[z] = 0
      /\ \A u \in Table(n) : k + d < L[u] => a[u] = h[u]
      /\ \A t \in Table(n) : a[t] # 0 => Home(e, a[t], n) \in Table(n)
      /\ \A t \in Table(n) : a[t] # 0 => 1 <= L[Home(e, a[t], n)] /\ L[Home(e, a[t], n)] <= L[t]
      /\ \A t, u \in Table(n) :
           a[t] # 0 /\ L[Home(e, a[t], n)] <= L[u] /\ L[u] < L[t] =>
             a[u] # 0 \/ (k + d < L[t] /\ k <= L[u] /\ L[u] <= k + d)
  <2>1. \A t \in Table(n) : a[t] # 0 => Home(e, a[t], n) \in Table(n)
    BY <1>1, HomeIs
  <2>. QED
    BY <1>3, <2>1 DEF During
<1>6. a[x] # 0 /\ a[x] \in I /\ w \in Table(n) /\ 1 <= L[w] /\ L[w] <= L[x] /\ L[w] \in Nat
  BY <1>1, <1>3, <1>4, <1>5
<1>7. Size(a) = n /\ Slot(a, At(e, a[x])) = w
  BY <1>1, <1>4, SizeIs DEF Slot, Home
<1>8. ASSUME NEW b, Tabled(b, I, n), b[z] = 0,
             \A u \in Table(n) : k + d + 1 < L[u] => b[u] = h[u],
             \A t \in Table(n) : b[t] # 0 =>
               1 <= L[Home(e, b[t], n)] /\ L[Home(e, b[t], n)] <= L[t],
             \A t, u \in Table(n) :
               b[t] # 0 /\ L[Home(e, b[t], n)] <= L[u] /\ L[u] < L[t] =>
                 b[u] # 0 \/ (k + d + 1 < L[t] /\ k <= L[u] /\ L[u] <= k + d + 1)
      PROVE  During(b, h, e, I, z, k, q, n)
  <2>1. \A t \in Table(n) : b[t] # 0 => Home(e, b[t], n) \in Table(n)
    BY <1>1, <1>8, HomeIs DEF Tabled
  <2>2. k + q = k + d + 1
    OBVIOUS
  <2>. QED
    BY <1>3, <1>8, <2>1, <2>2 DEF During
<1>9. CASE w = x
  <2>1. Rehash(a, e, x) = a
    BY <1>7, <1>9 DEF Rehash
  <2>2. \A u \in Table(n) : k + d + 1 < L[u] => a[u] = h[u]
    BY <1>3, <1>5
  <2>3. ASSUME NEW t \in Table(n), NEW u \in Table(n),
               a[t] # 0, L[Home(e, a[t], n)] <= L[u], L[u] < L[t]
        PROVE  a[u] # 0 \/ (k + d + 1 < L[t] /\ k <= L[u] /\ L[u] <= k + d + 1)
    <3>1. a[u] # 0 \/ (k + d < L[t] /\ k <= L[u] /\ L[u] <= k + d)
      BY <1>5, <2>3
    <3>2. t # x
      <4>. SUFFICES ASSUME t = x PROVE FALSE
        OBVIOUS
      <4>1. Home(e, a[t], n) = x
        BY <1>4, <1>9
      <4>2. L[x] <= L[u] /\ L[u] < L[x]
        BY <2>3, <4>1
      <4>3. L[x] \in Nat /\ L[u] \in Nat
        BY <1>3
      <4>. QED
        BY <4>2, <4>3
    <3>3. L[t] # k + d + 1 /\ L[t] \in Nat /\ L[u] \in Nat
      BY <1>3, <3>2
    <3>. QED
      BY <3>1, <3>3
  <2>. QED
    BY <1>1, <1>5, <1>8, <2>1, <2>2, <2>3
<1>10. CASE w # x
  <2>1. PICK i : i = a[x]
    OBVIOUS
  <2>2. PICK g : g = Redirected(a, x, 0)
    OBVIOUS
  <2>3. /\ g \in [Table(n) -> Nat] /\ g[x] = 0
        /\ \A u \in Table(n) : g[u] = IF u = x THEN 0 ELSE a[u]
    BY <1>1, <2>2 DEF Redirected
  <2>4. Rehash(a, e, x) = InsertHash(g, e, i)
    BY <1>7, <1>10, <2>1, <2>2 DEF Rehash, Redirected
  <2>5. PICK p \in Table(n) :
          /\ g[p] = 0 /\ InsertHash(g, e, i) = Redirected(g, p, i)
          /\ \A t \in Table(n) : Toward(w, t, n) < Toward(w, p, n) => g[t] # 0
    <3>1. At(e, i) \in DOMAIN HashOf /\ w = Home(e, i, n) /\ \E y \in Table(n) : g[y] = 0
      BY <1>4, <1>6, <2>1, <2>3
    <3>. QED
      BY <1>1, <2>3, <3>1, InsertGoes
  <2>6. L[w] <= L[p] /\ L[p] <= L[x] /\ L[p] \in Nat
        /\ \A u \in Table(n) : L[w] <= L[u] /\ L[u] < L[p] => g[u] # 0
    <3>1. ~(Toward(w, x, n) < Toward(w, p, n))
      BY <2>3, <2>5
    <3>2. ~(L[p] < L[w])
      <4>. SUFFICES ASSUME L[p] < L[w] PROVE FALSE
        OBVIOUS
      <4>1. L[x] \in Nat /\ L[p] \in Nat /\ L[p] < L[x]
        BY <1>3, <1>6
      <4>2. Toward(w, x, n) < Toward(w, p, n)
        <5>1. Toward(z, w, n) = L[w] /\ Toward(z, x, n) = L[x] /\ Toward(z, p, n) = L[p]
          BY <1>3, <1>6
        <5>2. Toward(z, p, n) < Toward(z, w, n) /\ Toward(z, w, n) <= Toward(z, x, n)
          BY <1>6, <4>1, <5>1
        <5>. QED
          BY <1>1, <1>6, <5>2, InLine
      <4>. QED
        BY <3>1, <4>2
    <3>3. L[w] <= L[p] /\ L[p] \in Nat
      BY <1>3, <1>6, <3>2
    <3>4. \A u \in Table(n) : Toward(w, u, n) < Toward(w, p, n) <=> L[w] <= L[u] /\ L[u] < L[p]
      <4>1. Toward(z, w, n) = L[w] /\ Toward(z, p, n) = L[p]
        BY <1>3, <1>6
      <4>2. \A u \in Table(n) : Toward(z, u, n) = L[u]
        BY <1>3
      <4>3. Toward(z, w, n) <= Toward(z, p, n)
        BY <3>3, <4>1
      <4>4. \A u \in Table(n) :
              Toward(w, u, n) < Toward(w, p, n)
                <=> Toward(z, w, n) <= Toward(z, u, n) /\ Toward(z, u, n) < Toward(z, p, n)
        BY <1>1, <1>6, <4>3, InLine
      <4>. QED
        BY <4>1, <4>2, <4>4
    <3>. QED
      BY <1>3, <1>6, <2>5, <3>1, <3>3, <3>4
  <2>7. PICK b : b = Redirected(g, p, i)
    OBVIOUS
  <2>8. \A u \in Table(n) : b[u] = IF u = p THEN i ELSE IF u = x THEN 0 ELSE a[u]
    BY <2>3, <2>7 DEF Redirected
  <2>9. Tabled(b, I, n) /\ i # 0 /\ i \in I
    <3>1. Tabled(g, I \ {i}, n) /\ i \in Nat \ {0} /\ i \in I
      BY <1>1, <1>6, <2>1, <2>2, TabledWithout
    <3>2. Tabled(b, (I \ {i}) \cup {i}, n)
      BY <2>5, <2>7, <3>1, TabledWith
    <3>3. (I \ {i}) \cup {i} = I
      BY <3>1
    <3>. QED
      BY <3>1, <3>2, <3>3
  <2>10. L[z] = 0 /\ z # p /\ b[z] = 0
    <3>1. L[z] = 0
      BY <1>1, <1>3, InLine
    <3>2. z # p
      BY <1>6, <2>6, <3>1
    <3>. QED
      BY <1>5, <2>8, <3>1, <3>2
  <2>11. \A u \in Table(n) : k + d + 1 < L[u] => b[u] = h[u]
    <3>. SUFFICES ASSUME NEW u \in Table(n), k + d + 1 < L[u] PROVE b[u] = h[u]
      OBVIOUS
    <3>1. u # x /\ u # p /\ k + d < L[u]
      BY <1>3, <2>6
    <3>. QED
      BY <1>5, <2>8, <3>1
  <2>12. ASSUME NEW t \in Table(n), b[t] # 0
         PROVE  1 <= L[Home(e, b[t], n)] /\ L[Home(e, b[t], n)] <= L[t]
    <3>1. CASE t = p
      <4>1. b[t] = i /\ Home(e, b[t], n) = w
        BY <1>4, <2>1, <2>8, <3>1
      <4>. QED
        BY <1>6, <2>6, <3>1, <4>1
    <3>2. CASE t # p
      <4>1. b[t] = a[t]
        BY <2>8, <2>12, <3>2
      <4>. QED
        BY <1>5, <2>12, <4>1
    <3>. QED
      BY <3>1, <3>2
  <2>13. ASSUME NEW t \in Table(n), NEW u \in Table(n),
                b[t] # 0, L[Home(e, b[t], n)] <= L[u], L[u] < L[t]
         PROVE  b[u] # 0 \/ (k + d + 1 < L[t] /\ k <= L[u] /\ L[u] <= k + d + 1)
    <3>1. CASE t = p
      <4>1. b[t] = i /\ Home(e, b[t], n) = w
        BY <1>4, <2>1, <2>8, <3>1
      <4>2. g[u] # 0
        BY <2>6, <2>13, <3>1, <4>1
      <4>. QED
        BY <2>3, <2>8, <2>9, <4>2
    <3>2. CASE t # p
      <4>1. b[t] = a[t] /\ t # x
        BY <2>8, <2>13, <3>2
      <4>2. a[u] # 0 \/ (k + d < L[t] /\ k <= L[u] /\ L[u] <= k + d)
        BY <1>5, <2>13, <4>1
      <4>3. L[t] # k + d + 1 /\ L[t] \in Nat /\ L[u] \in Nat
        BY <1>3, <4>1
      <4>4. CASE u = x
        <5>1. L[u] = k + d + 1
          BY <1>3, <4>4
        <5>. QED
          BY <2>13, <4>3, <5>1
      <4>5. CASE u # x
        BY <2>8, <2>9, <4>2, <4>3, <4>5
      <4>. QED
        BY <4>4, <4>5
    <3>. QED
      BY <3>1, <3>2
  <2>14. During(b, h, e, I, z, k, q, n)
    BY <1>8, <2>9, <2>10, <2>11, <2>12, <2>13
  <2>. QED
    BY <2>4, <2>5, <2>7, <2>14
<1>. QED
  BY <1>9, <1>10

(* The index without the entry of slot s.                                  *)
LEMMA HashWithout ==
  ASSUME NEW n, NEW h, NEW e, NEW I, Placed(h, e, I, n), NEW s \in Table(n), h[s] # 0,
         NEW f, \A i \in I \ {h[s]} : At(f, i) = At(e, i), \E z \in Table(n) : h[z] = 0
  PROVE  Placed(RemoveHash(h, f, s), f, I \ {h[s]}, n)
<1>1. /\ n \in Nat \ {0} /\ h \in [Table(n) -> Nat]
      /\ \A i \in I : At(e, i) \in DOMAIN HashOf
  BY DEF Placed, Tabled
<1>2. PICK g : g = Redirected(h, s, 0)
  OBVIOUS
<1>3. g \in [Table(n) -> Nat] /\ \A u \in Table(n) : g[u] = IF u = s THEN 0 ELSE h[u]
  BY <1>1, <1>2 DEF Redirected
<1>4. PICK D : D = {d \in 1..n : g[(s + d) % n] = 0}
  OBVIOUS
<1>5. PICK y \in Table(n) : h[y] = 0
  OBVIOUS
<1>6. Toward(s, y, n) \in D /\ Toward(s, y, n) < n
  <2>1. PICK d : d = Toward(s, y, n)
    OBVIOUS
  <2>2. d \in Nat /\ d < n /\ d # 0
    <3>1. y # s
      BY <1>5
    <3>. QED
      BY <1>1, <2>1, <3>1, TowardIn, InLine
  <2>3. d \in 0..n /\ d \in 1..n
    BY <1>1, <2>2
  <2>4. (s + d) % n = y
    BY <1>1, <2>1, <2>3, AheadIs
  <2>5. g[y] = 0
    BY <1>3, <1>5
  <2>. QED
    BY <1>4, <2>1, <2>2, <2>3, <2>4, <2>5
<1>7. PICK b : b = Min(D)
  OBVIOUS
<1>8. b \in D /\ \A d \in D : b <= d
  <2>1. D \in SUBSET Nat /\ D # {}
    BY <1>4, <1>6
  <2>2. \E d \in D : \A q \in D : d <= q
    BY <2>1, NatMin
  <2>. QED
    BY <1>7, <2>2 DEF Min
<1>9. b \in 1..n /\ b < n
  <2>1. b \in 1..n /\ Toward(s, y, n) \in 1..n /\ b <= Toward(s, y, n)
    BY <1>4, <1>6, <1>8
  <2>. QED
    BY <1>1, <1>6, <2>1
<1>10. PICK m : m = b - 1
  OBVIOUS
<1>11. m \in Nat /\ b = m + 1
  BY <1>9, <1>10
<1>12. PICK z : z = (s + b) % n
  OBVIOUS
<1>13. z \in Table(n) /\ Toward(s, z, n) = b /\ z # s /\ h[z] = 0
  <2>1. b \in 0..n /\ b \in Table(n) /\ b # 0
    BY <1>1, <1>9 DEF Table
  <2>2. z \in Table(n) /\ z = Ahead(s, b, n)
    BY <1>1, <1>12, <2>1, AheadIs
  <2>3. Toward(s, z, n) = b
    BY <1>1, <2>1, <2>2, AheadIs
  <2>4. z # s
    BY <1>1, <2>1, <2>3, InLine
  <2>5. g[z] = 0
    BY <1>4, <1>8, <1>12
  <2>. QED
    BY <1>3, <2>2, <2>3, <2>4, <2>5
<1>14. PICK k : k = Toward(z, s, n)
  OBVIOUS
<1>15. k \in Nat /\ k + m = n - 1
  <2>1. k = n - b
    BY <1>1, <1>13, <1>14 DEF Toward, Table
  <2>. QED
    BY <1>1, <1>9, <1>10, <2>1
<1>16. ASSUME NEW d \in 1..m, NEW x, x = (s + d) % n
       PROVE  x \in Table(n) /\ h[x] # 0 /\ Toward(z, x, n) = k + d
  <2>1. d \in 0..n /\ d \in 1..n /\ d \in Table(n) /\ d < b /\ d # 0
    BY <1>1, <1>9, <1>11 DEF Table
  <2>2. x \in Table(n) /\ x = Ahead(s, d, n)
    BY <1>1, <1>16, <2>1, AheadIs
  <2>3. Toward(s, x, n) = d
    BY <1>1, <2>1, <2>2, AheadIs
  <2>4. g[x] # 0
    <3>1. d \notin D
      BY <1>8, <1>9, <2>1
    <3>. QED
      BY <1>4, <1>16, <2>1, <3>1
  <2>5. Toward(z, x, n) = k + d
    BY <1>1, <1>13, <1>14, <2>1, <2>2, <2>3, Between
  <2>. QED
    BY <1>3, <2>2, <2>4, <2>5
<1>17. PICK a : Removing(a, g, f, s, m, n) /\ RemoveHash(h, f, s) = a[m]
  <2>1. m + 1 = Gap(g, s, n)
    BY <1>4, <1>7, <1>11 DEF Gap
  <2>. QED
    BY <1>1, <1>2, <1>11, <2>1, RemoveGoes
<1>18. PICK J : J = I \ {h[s]}
  OBVIOUS
<1>19. \A i \in J : At(f, i) \in DOMAIN HashOf
  BY <1>1, <1>18
<1>20. \A d \in 0..m : During(a[d], h, f, J, z, k, d, n)
  <2>. DEFINE Bad == {d \in 0..m : ~During(a[d], h, f, J, z, k, d, n)}
  <2>1. SUFFICES ASSUME Bad # {} PROVE FALSE
    OBVIOUS
  <2>2. PICK d \in Bad : \A q \in Bad : d <= q
    <3>1. Bad \in SUBSET Nat
      OBVIOUS
    <3>. HIDE DEF Bad
    <3>. QED
      BY <2>1, <3>1, NatMin
  <2>3. d \in 0..m /\ ~During(a[d], h, f, J, z, k, d, n)
    BY <2>2
  <2>4. d # 0
    <3>1. Lined(h, e, I, z, n)
      BY <1>13, LinedIs
    <3>2. During(g, h, f, J, z, k, 0, n)
      BY <1>2, <1>13, <1>14, <1>18, <3>1, LoopStarts
    <3>3. a[0] = g
      BY <1>2, <1>17 DEF Removing
    <3>. QED
      BY <2>3, <3>2, <3>3
  <2>5. d \in 1..m /\ d - 1 \in 0..m /\ d - 1 \in Nat /\ ~(d <= d - 1)
    BY <1>11, <2>3, <2>4
  <2>6. d - 1 \notin Bad
    <3>. HIDE DEF Bad
    <3>. QED
      BY <2>2, <2>5
  <2>7. PICK q, v, x : q = d - 1 /\ v = a[d - 1] /\ x = (s + d) % n
    OBVIOUS
  <2>8. During(v, h, f, J, z, k, q, n) /\ q \in Nat /\ d = q + 1
    BY <2>5, <2>6, <2>7
  <2>9. x \in Table(n) /\ h[x] # 0 /\ Toward(z, x, n) = k + d
    BY <1>16, <2>5, <2>7
  <2>10. During(Rehash(v, f, x), h, f, J, z, k, d, n)
    BY <1>13, <1>15, <1>19, <2>8, <2>9, LoopStep
  <2>11. a[d] = Rehash(v, f, x)
    BY <1>17, <2>5, <2>7 DEF Removing
  <2>. QED
    BY <2>3, <2>10, <2>11
<1>21. PICK r : r = RemoveHash(h, f, s)
  OBVIOUS
<1>22. During(r, h, f, J, z, k, m, n)
  <2>1. m \in 0..m
    BY <1>11
  <2>. QED
    BY <1>17, <1>20, <1>21, <2>1
<1>23. Lined(r, f, J, z, n)
  BY <1>13, <1>15, <1>19, <1>22, LoopEnds
<1>. QED
  BY <1>13, <1>18, <1>21, <1>23, LinedIs

LEMMA HashWithoutSlot ==
  ASSUME NEW n, NEW h, NEW e, NEW I, Placed(h, e, I, n), NEW s \in Table(n), h[s] # 0,
         \E z \in Table(n) : h[z] = 0, NEW J, J = I \ {h[s]}
  PROVE  Placed(RemoveHash(h, e, s), e, J, n)
<1>1. PICK f : f = e
  OBVIOUS
<1>2. \A i \in I \ {h[s]} : At(f, i) = At(e, i)
  BY <1>1
<1>3. Placed(RemoveHash(h, f, s), f, I \ {h[s]}, n)
  BY <1>2, HashWithout
<1>. QED
  BY <1>1, <1>3

(* What a lookup finds, and the slot of an entry.                          *)
LEMMA LookupIs ==
  ASSUME NEW n, NEW h, NEW e, NEW I, Placed(h, e, I, n), \E z \in Table(n) : h[z] = 0,
         NEW x \in DOMAIN HashOf, NEW r, r = Lookup(h, e, x)
  PROVE  \/ r = -1 /\ \A i \in I : At(e, i) # x
         \/ r # -1 /\ r \in Table(n) /\ h[r] \in I /\ At(e, h[r]) = x
<1>1. /\ n \in Nat \ {0} /\ h \in [Table(n) -> Nat] /\ I \subseteq Nat \ {0}
      /\ \A t \in Table(n) : h[t] = 0 \/ h[t] \in I
      /\ \A i \in I : \E t \in Table(n) : h[t] = i
  BY DEF Placed, Tabled
<1>2. PICK s : s = HashOf[x] % n
  OBVIOUS
<1>3. s \in Table(n) /\ Size(h) = n /\ Slot(h, x) = s
  <2>1. HashOf[x] \in Nat
    BY HashAssumption
  <2>. QED
    BY <1>1, <1>2, <2>1, ModuloIn, SizeIs DEF Slot, Table
<1>4. PICK T : T = {t \in Table(n) : h[t] = 0 \/ At(e, h[t]) = x}
  OBVIOUS
<1>5. PICK p : p = (s + Min({d \in 0..(n - 1) : (s + d) % n \in T})) % n
  OBVIOUS
<1>6. {d \in 0..(n - 1) : h[(s + d) % n] = 0 \/ At(e, h[(s + d) % n]) = x}
        = {d \in 0..(n - 1) : (s + d) % n \in T}
  <2>1. \A d \in 0..(n - 1) : (s + d) % n \in Table(n)
    BY <1>1, <1>3, AheadIs
  <2>. QED
    BY <1>4, <2>1
<1>7. r = IF h[p] = 0 THEN -1 ELSE p
  BY <1>3, <1>5, <1>6 DEF Lookup, Probe
<1>8. p \in T /\ \A t \in T : Toward(s, p, n) <= Toward(s, t, n)
  <2>1. T \in SUBSET Table(n) /\ T # {}
    BY <1>4
  <2>2. n \in Nat \ {0} /\ s \in Table(n)
    BY <1>1, <1>3
  <2>. QED
    BY <1>5, <2>1, <2>2, FirstIs
<1>9. p \in Table(n) /\ (h[p] = 0 \/ At(e, h[p]) = x)
  BY <1>4, <1>8
<1>10. CASE h[p] = 0
  <2>1. ASSUME NEW i \in I, At(e, i) = x PROVE FALSE
    <3>1. PICK t \in Table(n) : h[t] = i
      BY <1>1
    <3>2. h[t] # 0 /\ t # p /\ t \in T /\ Home(e, h[t], n) = s
      BY <1>1, <1>2, <1>4, <1>10, <2>1, <3>1 DEF Home
    <3>3. Toward(s, p, n) <= Toward(s, t, n) /\ Toward(s, p, n) # Toward(s, t, n)
      BY <1>1, <1>3, <1>8, <1>9, <3>2, InLine
    <3>4. Toward(s, p, n) < Toward(s, t, n)
      BY <1>1, <1>3, <1>9, <3>3, TowardIn
    <3>. QED
      BY <1>9, <1>10, <3>2, <3>4 DEF Placed
  <2>. QED
    BY <1>7, <1>10, <2>1
<1>11. CASE h[p] # 0
  <2>1. p # -1
    BY <1>1, <1>9 DEF Table
  <2>. QED
    BY <1>1, <1>7, <1>9, <1>11, <2>1
<1>. QED
  BY <1>10, <1>11

LEMMA SlotOfIs ==
  ASSUME NEW n, NEW h, NEW e, NEW I, Placed(h, e, I, n), NEW i \in I, NEW r, r = SlotOf(h, e, i)
  PROVE  r \in Table(n) /\ h[r] = i
<1>1. /\ n \in Nat \ {0} /\ h \in [Table(n) -> Nat] /\ At(e, i) \in DOMAIN HashOf
      /\ \E t \in Table(n) : h[t] = i
  BY DEF Placed, Tabled
<1>2. PICK s : s = Home(e, i, n)
  OBVIOUS
<1>3. s \in Table(n) /\ Size(h) = n /\ Slot(h, At(e, i)) = s
  BY <1>1, <1>2, HomeIs, SizeIs DEF Slot, Home
<1>4. PICK T : T = {t \in Table(n) : h[t] = i}
  OBVIOUS
<1>5. {d \in 0..(n - 1) : h[(s + d) % n] = i} = {d \in 0..(n - 1) : (s + d) % n \in T}
  <2>1. \A d \in 0..(n - 1) : (s + d) % n \in Table(n)
    BY <1>1, <1>3, AheadIs
  <2>. QED
    BY <1>4, <2>1
<1>6. r = (s + Min({d \in 0..(n - 1) : (s + d) % n \in T})) % n
  BY <1>3, <1>5 DEF SlotOf, Probe
<1>7. r \in T
  <2>1. T \in SUBSET Table(n) /\ T # {}
    BY <1>1, <1>4
  <2>. QED
    BY <1>1, <1>3, <1>6, <2>1, FirstIs
<1>. QED
  BY <1>4, <1>7

(***************************************************************************)
(* A whole index.                                                          *)
(***************************************************************************)
(* All entries of e, with slots to spare: less than three quarters used.   *)
Indexed(h, e, n) == Placed(h, e, 1..Len(e), n) /\ Len(e) + 1 <= (3 * n) \div 4

LEMMA SomeFree ==
  ASSUME NEW h, NEW e, NEW I, NEW n, Placed(h, e, I, n), NEW m \in Nat, m < n, I \subseteq 1..m
  PROVE  \E z \in Table(n) : h[z] = 0
BY FreeSlot DEF Placed

LEMMA Spare ==
  ASSUME NEW n \in Nat, NEW m \in Nat, m + 1 <= (3 * n) \div 4
  PROVE  m < n
OBVIOUS

LEMMA EmptyIs ==
  ASSUME NEW n \in Nat \ {0}, NEW e
  PROVE  Placed(Empty(n), e, {}, n)
<1>1. Empty(n) \in [Table(n) -> Nat] /\ \A s \in Table(n) : Empty(n)[s] = 0
  BY DEF Empty, Table
<1>. QED
  BY <1>1 DEF Placed, Tabled

(* a[i] is the index of the entries 1 to i.                                *)
Indexing(a, e, n) ==
    /\ a \in [0..Len(e) -> [Table(n) -> Nat]] /\ a[0] = Empty(n)
    /\ \A i \in 1..Len(e) : a[i] = InsertHash(a[i - 1], e, i)

LEMMA IndexGoes ==
  ASSUME NEW n \in Nat \ {0}, NEW e, Len(e) \in Nat
  PROVE  \E a : Indexing(a, e, n) /\ Index(e, n) = a[Len(e)]
<1>1. PICK m : m = Len(e)
  OBVIOUS
<1>2. PICK g : g = Empty(n)
  OBVIOUS
<1>. DEFINE X == [Table(n) -> Nat]
            G == [w \in X \X (1..m) |-> InsertHash(w[1], e, w[2])]
            Go(a) == [i \in 0..Len(e) |-> IF i = 0 THEN Empty(n) ELSE InsertHash(a[i - 1], e, i)]
<1>3. G \in [X \X (1..m) -> X] /\ g \in X /\ m \in Nat
  <2>1. g \in X
    BY <1>2 DEF Empty, Table
  <2>2. ASSUME NEW w \in X \X (1..m) PROVE InsertHash(w[1], e, w[2]) \in X
    <3>1. PICK v, i : v = w[1] /\ i = w[2]
      OBVIOUS
    <3>2. v \in [Table(n) -> Nat] /\ i \in Nat
      BY <3>1
    <3>3. InsertHash(v, e, i) \in [Table(n) -> Nat]
      BY <3>2, InsertIn
    <3>. QED
      BY <3>1, <3>3
  <2>. QED
    BY <1>1, <2>1, <2>2
<1>4. PICK a \in [0..m -> X] : a[0] = g /\ \A d \in 1..m : a[d] = G[<<a[d - 1], d>>]
  <2>1. PICK D : D = X \X (1..m)
    OBVIOUS
  <2>. HIDE DEF X, G
  <2>2. \E a : Stepped(a, m, X, g, G)
    BY <1>3, <2>1, Steps
  <2>. QED
    BY <2>2 DEF Stepped
<1>5. \A d \in 1..m : a[d] = InsertHash(a[d - 1], e, d)
  <2>. SUFFICES ASSUME NEW d \in 1..m PROVE a[d] = InsertHash(a[d - 1], e, d)
    OBVIOUS
  <2>1. d - 1 \in 0..m
    BY <1>3
  <2>2. PICK w : w = <<a[d - 1], d>>
    OBVIOUS
  <2>3. w \in X \X (1..m) /\ w[1] = a[d - 1] /\ w[2] = d
    BY <1>4, <2>1, <2>2
  <2>4. a[d] = G[w]
    BY <1>4, <2>2
  <2>. QED
    BY <2>3, <2>4
<1>6. a = Go(a)
  <2>1. \A d \in 0..m : d = 0 \/ d \in 1..m
    BY <1>3
  <2>2. a = [d \in 0..m |-> a[d]]
    BY <1>4
  <2>3. \A d \in 0..m : a[d] = IF d = 0 THEN g ELSE InsertHash(a[d - 1], e, d)
    BY <1>4, <1>5, <2>1
  <2>. QED
    BY <1>1, <1>2, <2>2, <2>3
<1>7. PICK u : u = CHOOSE f : f = Go(f)
  OBVIOUS
<1>8. u = Go(u)
  <2>. HIDE DEF Go
  <2>. QED
    BY <1>6, <1>7
<1>9. Index(e, n) = u[m]
  <2>1. Index(e, n) = u[Len(e)]
    BY <1>7 DEF Index
  <2>. QED
    BY <1>1, <2>1
<1>10. /\ u \in [0..m -> X] /\ u[0] = g
       /\ \A d \in 1..m : u[d] = InsertHash(u[d - 1], e, d)
  <2>1. DOMAIN u = 0..m /\ u[0] = g /\ u = [d \in 0..m |-> u[d]]
    BY <1>1, <1>2, <1>3, <1>8
  <2>2. \A d \in 1..m : u[d] = InsertHash(u[d - 1], e, d)
    BY <1>1, <1>2, <1>3, <1>8
  <2>3. a = u
    <3>. DEFINE Bad == {d \in 0..m : a[d] # u[d]}
    <3>1. SUFFICES ASSUME Bad # {} PROVE FALSE
      <4>1. a = [d \in 0..m |-> a[d]] /\ u = [d \in 0..m |-> u[d]]
        BY <1>4, <2>1
      <4>2. \A d \in 0..m : a[d] = u[d]
        BY <3>1
      <4>. QED
        BY <4>1, <4>2
    <3>2. PICK d \in Bad : \A l \in Bad : d <= l
      <4>1. Bad \in SUBSET Nat
        BY <1>3
      <4>. HIDE DEF Bad
      <4>. QED
        BY <3>1, <4>1, NatMin
    <3>. HIDE DEF X
    <3>3. d \in 0..m /\ d # 0 /\ a[d] # u[d]
      BY <1>4, <2>1, <3>2
    <3>6. d \in 1..m /\ d - 1 \in 0..m /\ d - 1 \notin Bad
      <4>1. d \in 1..m /\ d - 1 \in 0..m /\ ~(d <= d - 1)
        BY <1>3, <3>3
      <4>. HIDE DEF Bad
      <4>. QED
        BY <3>2, <4>1
    <3>4. a[d - 1] = u[d - 1]
      BY <3>6
    <3>5. a[d] = InsertHash(u[d - 1], e, d)
      BY <1>5, <3>6, <3>4
    <3>. QED
      BY <2>2, <3>3, <3>5, <3>6
  <2>. QED
    BY <1>4, <2>1, <2>2, <2>3
<1>. QED
  BY <1>1, <1>2, <1>9, <1>10 DEF Indexing

LEMMA IndexIs ==
  ASSUME NEW n \in Nat \ {0}, NEW e, NEW m \in Nat, m = Len(e), m < n,
         \A i \in 1..m : At(e, i) \in DOMAIN HashOf
  PROVE  Placed(Index(e, n), e, 1..m, n)
<1>1. PICK a : Indexing(a, e, n) /\ Index(e, n) = a[m]
  BY IndexGoes
<1>. DEFINE Bad == {i \in 0..m : ~Placed(a[i], e, 1..i, n)}
<1>2. SUFFICES ASSUME Bad # {} PROVE FALSE
  <2>1. m \in 0..m
    OBVIOUS
  <2>. QED
    BY <1>1, <1>2, <2>1
<1>3. PICK i \in Bad : \A j \in Bad : i <= j
  <2>1. Bad \in SUBSET Nat
    OBVIOUS
  <2>. HIDE DEF Bad
  <2>. QED
    BY <1>2, <2>1, NatMin
<1>4. i \in 0..m /\ ~Placed(a[i], e, 1..i, n)
  BY <1>3
<1>5. i # 0
  <2>1. 1..0 = {} /\ a[0] = Empty(n)
    BY <1>1 DEF Indexing
  <2>2. Placed(a[0], e, 1..0, n)
    BY <2>1, EmptyIs
  <2>. QED
    BY <1>4, <2>2
<1>6. i \in 1..m /\ i - 1 \in 0..m /\ ~(i <= i - 1) /\ i - 1 \in Nat
  BY <1>4, <1>5
<1>7. i - 1 \notin Bad
  <2>. HIDE DEF Bad
  <2>. QED
    BY <1>3, <1>6
<1>8. PICK j, h : j = i - 1 /\ h = a[i - 1]
  OBVIOUS
<1>9. Placed(h, e, 1..j, n) /\ j \in Nat /\ j < n
  BY <1>6, <1>7, <1>8
<1>10. PICK I : I = 1..j
  OBVIOUS
<1>11. Placed(h, e, I, n) /\ \E z \in Table(n) : h[z] = 0
  BY <1>9, <1>10, SomeFree
<1>12. i \in Nat \ {0} /\ i \notin I /\ I \cup {i} = 1..i /\ At(e, i) \in DOMAIN HashOf
  BY <1>6, <1>8, <1>10
<1>13. Placed(InsertHash(h, e, i), e, I \cup {i}, n)
  BY <1>11, <1>12, HashWith
<1>14. a[i] = InsertHash(h, e, i)
  BY <1>1, <1>6, <1>8 DEF Indexing
<1>. QED
  BY <1>4, <1>12, <1>13, <1>14

(* The index that the next entry is inserted into.                         *)
LEMMA GrownIs ==
  ASSUME NEW h, NEW e, NEW n, Indexed(h, e, n), NEW m \in Nat, m = Len(e)
  PROVE  \E k \in Nat \ {0} : Placed(Grown(h, e), e, 1..m, k) /\ m + 2 <= (3 * k) \div 4
<1>1. n \in Nat \ {0} /\ Size(h) = n /\ \A i \in 1..m : At(e, i) \in DOMAIN HashOf
  <2>1. n \in Nat \ {0} /\ h \in [Table(n) -> Nat] /\ \A i \in 1..m : At(e, i) \in DOMAIN HashOf
    BY DEF Indexed, Placed, Tabled
  <2>. QED
    BY <2>1, SizeIs
<1>2. CASE m + 1 = (3 * n) \div 4
  <2>1. PICK k : k = 2 * n
    OBVIOUS
  <2>2. k \in Nat \ {0} /\ m < k /\ m + 2 <= (3 * k) \div 4
    BY <1>1, <1>2, <2>1
  <2>3. Grown(h, e) = Index(e, k)
    BY <1>1, <1>2, <2>1 DEF Grown
  <2>4. Placed(Index(e, k), e, 1..m, k)
    BY <1>1, <2>2, IndexIs
  <2>. QED
    BY <2>2, <2>3, <2>4
<1>3. CASE m + 1 # (3 * n) \div 4
  <2>1. Grown(h, e) = h
    BY <1>1, <1>3 DEF Grown
  <2>2. m + 2 <= (3 * n) \div 4
    BY <1>1, <1>3 DEF Indexed
  <2>. QED
    BY <1>1, <2>1, <2>2 DEF Indexed
<1>. QED
  BY <1>2, <1>3

LEMMA Pushed ==
  ASSUME NEW h, NEW e \in Seq(DOMAIN HashOf), NEW n, Indexed(h, e, n), NEW v \in DOMAIN HashOf,
         NEW f, f = Append(e, v), NEW k, k = Len(f)
  PROVE  \E l : Indexed(InsertHash(Grown(h, e), f, k), f, l)
<1>1. PICK m \in Nat : m = Len(e)
  OBVIOUS
<1>2. /\ f = [i \in 1..(m + 1) |-> IF i = m + 1 THEN v ELSE e[i]]
       /\ Len(f) = m + 1 /\ k = m + 1 /\ DOMAIN e = 1..m
  BY <1>1, AppendIs
<1>3. At(f, k) \in DOMAIN HashOf /\ \A i \in 1..m : At(f, i) = At(e, i)
  <2>1. k \in 1..(m + 1) /\ \A i \in 1..m : i \in 1..(m + 1) /\ i # m + 1
    BY <1>2
  <2>. QED
    BY <1>2, <2>1 DEF At
<1>4. PICK l \in Nat \ {0} : Placed(Grown(h, e), e, 1..m, l) /\ m + 2 <= (3 * l) \div 4
  BY <1>1, GrownIs
<1>5. PICK g, I : g = Grown(h, e) /\ I = 1..m
  OBVIOUS
<1>6. Placed(g, f, I, l)
  BY <1>4, <1>5, <1>3, PlacedSame
<1>7. m < l
  BY <1>4
<1>8. \E z \in Table(l) : g[z] = 0
  BY <1>5, <1>6, <1>7, SomeFree
<1>9. k \in Nat \ {0} /\ k \notin I /\ I \cup {k} = 1..(m + 1)
  BY <1>5, <1>2
<1>10. Placed(InsertHash(g, f, k), f, I \cup {k}, l)
  BY <1>6, <1>8, <1>9, <1>3, HashWith
<1>11. I \cup {k} = 1..Len(f) /\ InsertHash(g, f, k) = InsertHash(Grown(h, e), f, k)
  BY <1>5, <1>9, <1>2
<1>12. Len(f) + 1 <= (3 * l) \div 4
  <2>1. Len(f) + 1 = m + 2
    BY <1>2
  <2>. QED
    BY <1>4, <2>1
<1>. QED
  BY <1>10, <1>11, <1>12 DEF Indexed

(* What an index finds.                                                    *)
LEMMA Finds ==
  ASSUME NEW h, NEW e, NEW n, Indexed(h, e, n), NEW m \in Nat, m = Len(e),
         NEW x \in DOMAIN HashOf, NEW r, r = Lookup(h, e, x)
  PROVE  \/ r = -1 /\ ~Found(h, e, x) /\ \A i \in 1..m : At(e, i) # x
         \/ /\ r # -1 /\ Found(h, e, x) /\ r \in Table(n)
            /\ h[r] \in 1..m /\ At(e, h[r]) = x
<1>1. PICK I : I = 1..m
  OBVIOUS
<1>2. Placed(h, e, I, n) /\ n \in Nat /\ m < n
  BY <1>1 DEF Indexed, Placed, Tabled
<1>3. \E z \in Table(n) : h[z] = 0
  BY <1>1, <1>2, SomeFree
<1>4. \/ r = -1 /\ \A i \in I : At(e, i) # x
      \/ r # -1 /\ r \in Table(n) /\ h[r] \in I /\ At(e, h[r]) = x
  BY <1>2, <1>3, LookupIs
<1>. QED
  BY <1>1, <1>4 DEF Found

LEMMA ExactIs ==
  ASSUME NEW h, NEW e, NEW n, Indexed(h, e, n), Len(e) \in Nat, DOMAIN e = 1..Len(e),
         NEW all \in SUBSET DOMAIN HashOf
  PROVE  Exact(h, e, all)
<1>1. PICK m \in Nat : m = Len(e)
  OBVIOUS
<1>2. /\ n \in Nat \ {0} /\ h \in [Table(n) -> Nat] /\ DOMAIN e = 1..m /\ DOMAIN h = Table(n)
      /\ \A s \in Table(n) : h[s] = 0 \/ h[s] \in 1..m
      /\ \A s, t \in Table(n) : h[s] = h[t] /\ h[s] # 0 => s = t
      /\ \A i \in 1..m : \E s \in Table(n) : h[s] = i
  BY <1>1 DEF Indexed, Placed, Tabled
<1>3. ASSUME NEW x \in all PROVE Found(h, e, x) <=> x \in Range(e)
  <2>1. PICK r : r = Lookup(h, e, x)
    OBVIOUS
  <2>2. x \in DOMAIN HashOf
    OBVIOUS
  <2>3. \/ r = -1 /\ ~Found(h, e, x) /\ \A i \in 1..m : At(e, i) # x
        \/ r # -1 /\ Found(h, e, x) /\ r \in Table(n) /\ h[r] \in 1..m /\ At(e, h[r]) = x
    BY <1>1, <2>1, <2>2, Finds
  <2>4. \A i \in 1..m : At(e, i) = e[i]
    BY <1>2 DEF At
  <2>. QED
    BY <1>2, <2>3, <2>4 DEF Range
<1>4. ASSUME NEW i \in 1..m PROVE Cardinality({s \in Table(n) : h[s] = i}) = 1
  <2>1. PICK s \in Table(n) : h[s] = i
    BY <1>2
  <2>2. {t \in Table(n) : h[t] = i} = {s}
    BY <1>2, <2>1
  <2>3. Cardinality({s}) = 1
    BY FS_Singleton
  <2>. QED
    BY <2>2, <2>3
<1>. QED
  BY <1>2, <1>3, <1>4 DEF Exact

(***************************************************************************)
(* The set.                                                                *)
(***************************************************************************)
(* The entries of a sequence: none twice.                                  *)
Distinct(e) == \A i, j \in DOMAIN e : e[i] = e[j] => i = j

LEMMA EndIs ==
  ASSUME NEW S, NEW e \in Seq(S), e # <<>>
  PROVE  /\ Len(e) \in Nat /\ Len(e) - 1 \in Nat /\ Len(e) \in 1..Len(e) /\ Len(e) \in DOMAIN e
         /\ Last(e) = e[Len(e)] /\ Last(e) \in S
         /\ Front(e) \in Seq(S) /\ Len(Front(e)) = Len(e) - 1
         /\ \A i \in 1..(Len(e) - 1) : i \in 1..Len(e) /\ Front(e)[i] = e[i]
<1>0. PICK m : m = Len(e)
  OBVIOUS
<1>1. m \in Nat /\ m # 0 /\ e \in [1..m -> S]
  BY <1>0
<1>2. m - 1 \in 0..m
  BY <1>1
<1>3. Front(e) = [i \in 1..(m - 1) |-> e[i]]
  BY <1>0, <1>2, FrontIs DEF Front
<1>4. \A i \in 1..(m - 1) : i \in 1..m
  BY <1>1
<1>5. m \in 1..m /\ m - 1 \in Nat
  BY <1>1
<1>6. Front(e) \in [1..(m - 1) -> S]
  BY <1>1, <1>3, <1>4
<1>7. Front(e) \in Seq(S)
  BY <1>5, <1>6, SeqDef
<1>8. Len(Front(e)) = m - 1
  BY <1>5, <1>6, <1>7, LenProperties
<1>. QED
  BY <1>0, <1>1, <1>3, <1>4, <1>5, <1>7, <1>8 DEF Last

LEMMA AtIs ==
  ASSUME NEW S, NEW e \in Seq(S)
  PROVE  /\ DOMAIN e = 1..Len(e) /\ Len(e) \in Nat
         /\ \A i \in 1..Len(e) : At(e, i) = e[i] /\ e[i] \in S
BY DEF At

(* f is e without its last entry, which took the place of entry i.         *)
Moved(f, e, i) ==
    /\ Len(f) = Len(e) - 1
    /\ \A j \in 1..(Len(e) - 1) : f[j] = IF j = i THEN e[Len(e)] ELSE e[j]

LEMMA MovedIs ==
  ASSUME NEW S, NEW e \in Seq(S), NEW i \in Nat, i # 0, i < Len(e),
         NEW f, f = [Front(e) EXCEPT ![i] = Last(e)]
  PROVE  f \in Seq(S) /\ Moved(f, e, i)
<1>1. PICK m : m = Len(e)
  OBVIOUS
<1>2. PICK g, x : g = Front(e) /\ x = Last(e)
  OBVIOUS
<1>3. e # <<>>
  OBVIOUS
<1>4. /\ m \in Nat /\ m - 1 \in Nat /\ x = e[m] /\ x \in S
      /\ g \in Seq(S) /\ Len(g) = m - 1 /\ \A j \in 1..(m - 1) : g[j] = e[j]
  BY <1>1, <1>2, <1>3, EndIs
<1>5. f = [g EXCEPT ![i] = x] /\ i \in 1..Len(g)
  BY <1>1, <1>2, <1>4
<1>6. f \in Seq(S) /\ Len(f) = Len(g)
  <2>1. g \in [1..Len(g) -> S]
    BY <1>4
  <2>2. f \in [1..Len(g) -> S]
    BY <1>4, <1>5, <2>1
  <2>3. Len(g) \in Nat
    BY <1>4
  <2>4. f \in Seq(S)
    BY <2>2, <2>3, InSeq
  <2>. QED
    BY <2>2, <2>3, <2>4, LenProperties
<1>7. \A j \in 1..(m - 1) : f[j] = IF j = i THEN e[m] ELSE e[j]
  BY <1>4, <1>5
<1>. QED
  BY <1>1, <1>4, <1>6, <1>7 DEF Moved

LEMMA MovedDistinct ==
  ASSUME NEW S, NEW e \in Seq(S), Distinct(e), NEW i, NEW f \in Seq(S), Moved(f, e, i)
  PROVE  Distinct(f)
<1>1. PICK m \in Nat : m = Len(e)
  OBVIOUS
<1>2. DOMAIN f = 1..(m - 1) /\ DOMAIN e = 1..m
      /\ \A j \in 1..(m - 1) : f[j] = IF j = i THEN e[m] ELSE e[j]
  BY <1>1 DEF Moved
<1>3. \A j \in 1..(m - 1) : j \in 1..m /\ j # m /\ m \in 1..m
  OBVIOUS
<1>. QED
  BY <1>2, <1>3 DEF Distinct

LEMMA FrontDistinct ==
  ASSUME NEW S, NEW e \in Seq(S), Distinct(e), e # <<>>
  PROVE  Distinct(Front(e))
<1>1. PICK m, f : m = Len(e) /\ f = Front(e)
  OBVIOUS
<1>2. f \in Seq(S) /\ Len(f) = m - 1 /\ \A i \in 1..(m - 1) : i \in 1..m /\ f[i] = e[i]
  BY <1>1, EndIs
<1>3. DOMAIN f = 1..(m - 1) /\ DOMAIN e = 1..m
  BY <1>1, <1>2
<1>. QED
  BY <1>1, <1>2, <1>3 DEF Distinct

LEMMA AppendDistinct ==
  ASSUME NEW S, NEW e \in Seq(S), Distinct(e), NEW v \in S, \A i \in 1..Len(e) : e[i] # v,
         NEW f, f = Append(e, v)
  PROVE  Distinct(f)
<1>1. PICK m \in Nat : m = Len(e)
  OBVIOUS
<1>2. DOMAIN f = 1..(m + 1) /\ DOMAIN e = 1..m
      /\ \A i \in 1..(m + 1) : f[i] = IF i = m + 1 THEN v ELSE e[i]
  BY <1>1, AppendIs
<1>3. \A i \in 1..(m + 1) : i = m + 1 \/ i \in 1..m
  OBVIOUS
<1>. QED
  BY <1>1, <1>2, <1>3 DEF Distinct

(* The last entry leaves an index, its slot looked up.                     *)
LEMMA LastLeaves ==
  ASSUME NEW h, NEW e \in Seq(DOMAIN HashOf), NEW n, Indexed(h, e, n), Distinct(e), e # <<>>,
         NEW f, \A i \in 1..(Len(e) - 1) : At(f, i) = At(e, i),
         NEW r, r = Lookup(h, e, Last(e))
  PROVE  r # -1 /\ Indexed(RemoveHash(h, f, r), Front(e), n)
<1>1. PICK m, x : m = Len(e) /\ x = Last(e)
  OBVIOUS
<1>2. PICK d : d = Front(e)
  OBVIOUS
<1>3. /\ m \in Nat /\ m - 1 \in Nat /\ m \in 1..m /\ x = e[m] /\ x \in DOMAIN HashOf
      /\ d \in Seq(DOMAIN HashOf) /\ Len(d) = m - 1
      /\ \A i \in 1..(m - 1) : i \in 1..m /\ d[i] = e[i]
  BY <1>1, <1>2, EndIs
<1>4. DOMAIN e = 1..m /\ \A i \in 1..m : At(e, i) = e[i]
  BY <1>1, AtIs
<1>5. \/ r = -1 /\ \A i \in 1..m : At(e, i) # x
      \/ r # -1 /\ r \in Table(n) /\ h[r] \in 1..m /\ At(e, h[r]) = x
  BY <1>1, <1>3, Finds
<1>6. r # -1 /\ r \in Table(n) /\ h[r] = m
  BY <1>3, <1>4, <1>5 DEF Distinct
<1>7. PICK I : I = 1..m
  OBVIOUS
<1>8. Placed(h, e, I, n) /\ m + 1 <= (3 * n) \div 4 /\ n \in Nat
  BY <1>1, <1>7 DEF Indexed, Placed, Tabled
<1>9. I \ {h[r]} = 1..(m - 1)
  BY <1>3, <1>6, <1>7
<1>10. \E z \in Table(n) : h[z] = 0
  <2>1. m < n
    BY <1>3, <1>8, Spare
  <2>. QED
    BY <1>3, <1>7, <1>8, <2>1, SomeFree
<1>11. PICK g : g = RemoveHash(h, f, r)
  OBVIOUS
<1>12. Placed(g, f, I \ {h[r]}, n)
  <2>1. h[r] # 0
    BY <1>3, <1>6
  <2>2. \A i \in I \ {h[r]} : At(f, i) = At(e, i)
    BY <1>1, <1>9
  <2>. QED
    BY <1>6, <1>8, <1>10, <1>11, <2>1, <2>2, HashWithout
<1>13. \A i \in I \ {h[r]} : At(d, i) = At(f, i)
  <2>1. \A i \in 1..(m - 1) : At(d, i) = d[i]
    BY <1>3, AtIs
  <2>. QED
    BY <1>1, <1>3, <1>4, <1>9, <2>1
<1>14. Placed(g, d, I \ {h[r]}, n)
  BY <1>12, <1>13, PlacedSame
<1>15. Len(d) + 1 <= (3 * n) \div 4
  BY <1>3, <1>8
<1>. QED
  BY <1>2, <1>3, <1>6, <1>9, <1>11, <1>14, <1>15 DEF Indexed

(* Until a slot was used that had changed, the index is that of the        *)
(* values, of which none is there twice.                                   *)
SetInv ==
    /\ setValues \in Seq(Values) /\ setStale \in BOOLEAN
    /\ ~setStale => Distinct(setValues) /\ \E n : Indexed(setHash, setValues, n)

LEMMA ValuesSeq == Seq(Values) \subseteq Seq(DOMAIN HashOf)
  BY SeqMonotonic, SetAssumption

LEMMA SetStarts == SetInit => SetInv
<1>. SUFFICES ASSUME SetInit PROVE SetInv
  OBVIOUS
<1>1. setValues = <<>> /\ setHash = Empty(SetSize) /\ setStale = FALSE
  BY DEF SetInit
<1>2. Len(setValues) = 0 /\ setValues \in Seq(Values) /\ DOMAIN setValues = {} /\ 1..0 = {}
  BY <1>1
<1>3. PICK n : n = SetSize
  OBVIOUS
<1>4. n \in Nat \ {0} /\ 0 + 1 <= (3 * n) \div 4
  <2>1. n \in Nat /\ n # 0 /\ n # 1
    BY <1>3, SetAssumption
  <2>. QED
    BY <2>1
<1>5. Indexed(setHash, setValues, n)
  BY <1>1, <1>2, <1>3, <1>4, EmptyIs DEF Indexed
<1>. QED
  BY <1>1, <1>2, <1>5 DEF SetInv, Distinct

LEMMA SetPushStep ==
  ASSUME SetInv, ~setStale, NEW v \in Values, SetPush(v)
  PROVE  SetInv'
<1>1. PICK n : Indexed(setHash, setValues, n)
  BY DEF SetInv
<1>2. PICK e, f, m, k : e = setValues /\ f = Append(e, v) /\ m = Len(e) /\ k = Len(f)
  OBVIOUS
<1>3. /\ e \in Seq(Values) /\ e \in Seq(DOMAIN HashOf) /\ v \in DOMAIN HashOf /\ m \in Nat
      /\ Distinct(e)
  BY <1>2, ValuesSeq, SetAssumption DEF SetInv
<1>4. f \in Seq(Values)
  BY <1>2, <1>3
<1>6. \E l : Indexed(InsertHash(Grown(setHash, e), f, k), f, l)
  BY <1>1, <1>2, <1>3, Pushed
<1>7. setValues' = f /\ setStale' = setStale
      /\ setHash' = InsertHash(Grown(setHash, e), f, k)
  BY <1>2, <1>4 DEF SetPush
<1>8. Distinct(f)
  <2>1. PICK r : r = Lookup(setHash, e, v)
    OBVIOUS
  <2>2. ~Found(setHash, e, v)
    BY <1>2 DEF SetPush
  <2>3. \A i \in 1..m : At(e, i) # v
    BY <1>1, <1>2, <1>3, <2>1, <2>2, Finds
  <2>4. \A i \in 1..Len(e) : e[i] # v
    BY <1>2, <1>3, <2>3, AtIs
  <2>. QED
    BY <1>2, <1>3, <2>4, AppendDistinct
<1>. QED
  BY <1>4, <1>6, <1>7, <1>8 DEF SetInv

(* The last value leaves.                                                  *)
LEMMA SetLast ==
  ASSUME SetInv, ~setStale, setValues # <<>>, NEW n, Indexed(setHash, setValues, n)
  PROVE  /\ Front(setValues) \in Seq(Values) /\ Distinct(Front(setValues)) /\ LastSlot # -1
         /\ Indexed(WithoutLast, Front(setValues), n)
<1>2. PICK e, m, f : e = setValues /\ m = Len(e) /\ f = [e EXCEPT ![m] = 0]
  OBVIOUS
<1>3. e \in Seq(Values) /\ e \in Seq(DOMAIN HashOf) /\ Distinct(e) /\ e # <<>>
  BY <1>2, ValuesSeq DEF SetInv
<1>4. Front(e) \in Seq(Values) /\ m \in Nat
  BY <1>2, <1>3, EndIs
<1>5. Distinct(Front(e))
  BY <1>3, FrontDistinct
<1>6. \A i \in 1..(Len(e) - 1) : At(f, i) = At(e, i)
  <2>1. DOMAIN e = 1..m /\ DOMAIN f = 1..m
    BY <1>2, <1>3
  <2>2. \A i \in 1..(Len(e) - 1) : i \in 1..m /\ i # m
    BY <1>2, <1>4
  <2>. QED
    BY <1>2, <2>1, <2>2 DEF At
<1>7. PICK r : r = LastSlot
  OBVIOUS
<1>8. r = Lookup(setHash, e, Last(e))
  BY <1>2, <1>7 DEF LastSlot
<1>9. r # -1 /\ Indexed(RemoveHash(setHash, f, r), Front(e), n)
  BY <1>2, <1>3, <1>6, <1>8, LastLeaves
<1>10. WithoutLast = RemoveHash(setHash, f, r)
  BY <1>2, <1>7 DEF WithoutLast
<1>. QED
  BY <1>2, <1>4, <1>5, <1>7, <1>9, <1>10

(* Another value moves to the place of the one that left.                  *)
LEMMA Replaced ==
  ASSUME NEW h, NEW e \in Seq(DOMAIN HashOf), NEW n, Indexed(h, e, n), NEW s \in Table(n),
         NEW i \in 1..Len(e), h[s] = i,
         NEW f \in Seq(DOMAIN HashOf), Len(f) = Len(e), \A j \in 1..Len(e) : j # i => f[j] = e[j]
  PROVE  Indexed(InsertHash(RemoveHash(h, e, s), f, i), f, n)
<1>1. PICK m, I : m = Len(e) /\ I = 1..m
  OBVIOUS
<1>2. Placed(h, e, I, n) /\ m + 1 <= (3 * n) \div 4 /\ n \in Nat /\ m \in Nat /\ i \in Nat \ {0}
  BY <1>1 DEF Indexed, Placed, Tabled
<1>3. m < n
  BY <1>2, Spare
<1>4. \E z \in Table(n) : h[z] = 0
  BY <1>1, <1>2, <1>3, SomeFree
<1>5. PICK g, J : g = RemoveHash(h, e, s) /\ J = I \ {h[s]}
  OBVIOUS
<1>6. Placed(g, e, J, n)
  <2>1. h[s] # 0
    BY <1>2
  <2>. QED
    BY <1>2, <1>4, <1>5, <2>1, HashWithoutSlot
<1>7. (\A j \in 1..m : At(e, j) = e[j]) /\ \A j \in 1..m : At(f, j) = f[j] /\ f[j] \in DOMAIN HashOf
  BY <1>1, AtIs
<1>8. Placed(g, f, J, n)
  <2>1. \A j \in J : At(f, j) = At(e, j)
    BY <1>1, <1>5, <1>7
  <2>. QED
    BY <1>6, <2>1, PlacedSame
<1>9. \E z \in Table(n) : g[z] = 0
  <2>1. J \subseteq 1..m
    BY <1>1, <1>5
  <2>. QED
    BY <1>2, <1>3, <1>8, <2>1, SomeFree
<1>10. i \notin J /\ J \cup {i} = I /\ At(f, i) \in DOMAIN HashOf
  BY <1>1, <1>5, <1>7
<1>11. Placed(InsertHash(g, f, i), f, J \cup {i}, n)
  BY <1>2, <1>8, <1>9, <1>10, HashWith
<1>. QED
  BY <1>1, <1>2, <1>5, <1>10, <1>11 DEF Indexed

LEMMA SetRemoveStep ==
  ASSUME SetInv, ~setStale, NEW v \in Values, SetRemove(v)
  PROVE  SetInv'
<1>1. PICK n : Indexed(setHash, setValues, n)
  BY DEF SetInv
<1>2. PICK e, m : e = setValues /\ m = Len(e)
  OBVIOUS
<1>3. PICK s, i : s = Lookup(setHash, e, v) /\ i = setHash[s]
  OBVIOUS
<1>4. e \in Seq(Values) /\ e \in Seq(DOMAIN HashOf) /\ Distinct(e) /\ v \in DOMAIN HashOf
  BY <1>2, ValuesSeq, SetAssumption DEF SetInv
<1>5. i \in 1..m /\ e[i] = v /\ s \in Table(n)
  <2>1. Found(setHash, e, v)
    BY <1>2 DEF SetRemove
  <2>2. m \in Nat
    BY <1>2, <1>4
  <2>3. s \in Table(n) /\ i \in 1..m /\ At(e, i) = v
    BY <1>1, <1>2, <1>3, <1>4, <2>1, <2>2, Finds
  <2>. QED
    BY <1>2, <1>4, <2>3, AtIs
<1>6. e # <<>> /\ m \in Nat
  BY <1>2, <1>4, <1>5
<1>7. PICK d : d = Front(e)
  OBVIOUS
<1>8. PICK h : h = WithoutLast
  OBVIOUS
<1>9. d \in Seq(Values) /\ Distinct(d) /\ Indexed(h, d, n)
  BY <1>1, <1>2, <1>6, <1>7, <1>8, SetLast
<1>10. CASE v = Last(e)
  <2>1. setValues' = d /\ setHash' = h /\ setStale' = setStale
    BY <1>2, <1>7, <1>8, <1>10 DEF SetRemove
  <2>. QED
    BY <1>9, <2>1 DEF SetInv
<1>11. CASE v # Last(e)
  <2>1. PICK f : f = [d EXCEPT ![i] = Last(e)]
    OBVIOUS
  <2>2. setValues' = f /\ setHash' = InsertHash(RemoveHash(h, d, s), f, i) /\ setStale' = (h[s] # i)
    BY <1>2, <1>3, <1>7, <1>8, <1>11, <2>1 DEF SetRemove
  <2>3. i \in 1..(m - 1)
    <3>1. Last(e) = e[m]
      BY <1>2 DEF Last
    <3>2. i # m
      BY <1>5, <1>11, <3>1
    <3>. QED
      BY <1>5, <1>6, <3>2
  <2>4. f \in Seq(Values) /\ Moved(f, e, i)
    <3>1. i \in Nat /\ i # 0 /\ i < Len(e) /\ f = [Front(e) EXCEPT ![i] = Last(e)]
      BY <1>2, <1>6, <1>7, <2>1, <2>3
    <3>. QED
      BY <1>4, <3>1, MovedIs
  <2>5. CASE h[s] # i
    BY <2>2, <2>4, <2>5 DEF SetInv
  <2>6. CASE h[s] = i
    <3>1. Distinct(f)
      BY <1>4, <2>4, MovedDistinct
    <3>3. Len(d) = m - 1 /\ \A j \in 1..(m - 1) : d[j] = e[j]
      BY <1>2, <1>4, <1>6, <1>7, EndIs
    <3>4. d \in Seq(DOMAIN HashOf) /\ f \in Seq(DOMAIN HashOf)
      BY <1>9, <2>4, ValuesSeq
    <3>5. /\ i \in 1..Len(d) /\ Len(f) = Len(d)
          /\ \A j \in 1..Len(d) : j # i => f[j] = d[j]
      BY <1>2, <2>3, <2>4, <3>3 DEF Moved
    <3>6. Indexed(InsertHash(RemoveHash(h, d, s), f, i), f, n)
      BY <1>5, <1>9, <3>3, <3>4, <3>5, <2>6, Replaced
    <3>. QED
      BY <2>2, <2>4, <2>6, <3>1, <3>6 DEF SetInv
  <2>. QED
    BY <2>5, <2>6
<1>. QED
  BY <1>10, <1>11

LEMMA SetPopStep ==
  ASSUME SetInv, ~setStale, SetPop
  PROVE  SetInv'
<1>1. PICK n : Indexed(setHash, setValues, n)
  BY DEF SetInv
<1>2. PICK d, h : d = Front(setValues) /\ h = WithoutLast
  OBVIOUS
<1>3. setValues # <<>> /\ setValues' = d /\ setHash' = h /\ setStale' = setStale
  BY <1>2 DEF SetPop
<1>4. d \in Seq(Values) /\ Distinct(d) /\ Indexed(h, d, n)
  BY <1>1, <1>2, <1>3, SetLast
<1>. QED
  BY <1>3, <1>4 DEF SetInv

LEMMA Cleared ==
  ASSUME NEW h, NEW e, NEW n, Indexed(h, e, n), NEW m \in Nat, Len(e) = m
  PROVE  Indexed(Empty(Size(h)), <<>>, n)
<1>1. n \in Nat \ {0} /\ Size(h) = n /\ m + 1 <= (3 * n) \div 4
  BY SizeIs DEF Indexed, Placed, Tabled
<1>2. Len(<<>>) = 0 /\ 1..0 = {} /\ 0 + 1 <= (3 * n) \div 4
  BY <1>1
<1>. QED
  BY <1>1, <1>2, EmptyIs DEF Indexed

LEMMA SetClearStep ==
  ASSUME SetInv, ~setStale, SetClear
  PROVE  SetInv'
<1>1. PICK n : Indexed(setHash, setValues, n)
  BY DEF SetInv
<1>2. PICK e, h : e = <<>> /\ h = Empty(Size(setHash))
  OBVIOUS
<1>3. setValues' = e /\ setHash' = h /\ setStale' = setStale
  BY <1>2 DEF SetClear
<1>4. PICK m \in Nat : Len(setValues) = m
  BY DEF SetInv
<1>5. Indexed(h, e, n)
  BY <1>1, <1>2, <1>4, Cleared
<1>6. e \in Seq(Values) /\ DOMAIN e = {}
  BY <1>2
<1>. QED
  BY <1>3, <1>5, <1>6 DEF SetInv, Distinct

LEMMA SetStep == SetInv /\ [SetNext]_setVars => SetInv'
<1>. SUFFICES ASSUME SetInv, [SetNext]_setVars PROVE SetInv'
  OBVIOUS
<1>1. CASE SetNext
  <2>1. ~setStale /\ (SetPop \/ SetClear \/ \E v \in Values : SetPush(v) \/ SetRemove(v))
    BY <1>1 DEF SetNext
  <2>. QED
    BY <2>1, SetPopStep, SetClearStep, SetPushStep, SetRemoveStep
<1>2. CASE UNCHANGED setVars
  BY <1>2 DEF SetInv, setVars
<1>. QED
  BY <1>1, <1>2

LEMMA SetIsExact == SetInv => SetExact
<1>. SUFFICES ASSUME SetInv, ~setStale PROVE Exact(setHash, setValues, Values)
  BY DEF SetExact
<1>1. PICK n, e : Indexed(setHash, e, n) /\ e = setValues
  BY DEF SetInv
<1>2. e \in Seq(Values) /\ Values \in SUBSET DOMAIN HashOf
  BY <1>1, SetAssumption DEF SetInv
<1>3. DOMAIN e = 1..Len(e) /\ Len(e) \in Nat
  BY <1>2
<1>4. Exact(setHash, e, Values)
  BY <1>1, <1>2, <1>3, ExactIs
<1>. QED
  BY <1>1, <1>4

(* The index of the set stays that of its values, of which none is there   *)
(* twice, until a removal used a stale slot (ObSet_Push, ObSet_Pop,        *)
(* ObSet_Clear and ObSet_Remove in ob_set.c).                              *)
THEOREM SetInvariant == SetSpec => []SetInv
<1>1. SetInit => SetInv
  BY SetStarts
<1>2. SetInv /\ [SetNext]_setVars => SetInv'
  BY SetStep
<1>. QED
  BY <1>1, <1>2, PTL DEF SetSpec

(***************************************************************************)
(* The map: removals.                                                      *)
(***************************************************************************)
(* An index whose entries are those of e, each of them once.               *)
Tidy(h, e) == Distinct(e) /\ \E n : Indexed(h, e, n)

LEMMA WithoutEntryIs ==
  ASSUME NEW S, NEW e \in Seq(S), NEW i \in Nat, i # 0, i <= Len(e), NEW f, f = WithoutEntry(e, i)
  PROVE  f \in Seq(S) /\ Moved(f, e, i)
<1>1. PICK m : m = Len(e)
  OBVIOUS
<1>2. PICK g, x : g = [e EXCEPT ![i] = x] /\ x = Last(e)
  <2>1. PICK x : x = Last(e)
    OBVIOUS
  <2>. QED
    BY <2>1
<1>3. e # <<>>
  OBVIOUS
<1>4. m \in Nat /\ m - 1 \in Nat /\ m \in 1..m /\ x = e[m] /\ x \in S
  BY <1>1, <1>2, <1>3, EndIs
<1>5. g \in Seq(S) /\ Len(g) = m
  <2>1. e \in [1..m -> S]
    BY <1>1
  <2>2. g \in [1..m -> S]
    BY <1>2, <1>4, <2>1
  <2>3. g \in Seq(S)
    BY <1>4, <2>2, SeqDef
  <2>. QED
    BY <1>4, <2>2, <2>3, LenProperties
<1>6. \A j \in 1..m : g[j] = IF j = i THEN e[m] ELSE e[j]
  BY <1>1, <1>2, <1>4
<1>7. g # <<>> /\ f = Front(g)
  BY <1>2, <1>4, <1>5 DEF WithoutEntry
<1>8. f \in Seq(S) /\ Len(f) = m - 1 /\ \A j \in 1..(m - 1) : j \in 1..m /\ f[j] = g[j]
  BY <1>5, <1>7, EndIs
<1>. QED
  BY <1>1, <1>6, <1>8 DEF Moved

(* A removal keeps an index tidy, whichever entry it removes.              *)
LEMMA RemovedHashIs ==
  ASSUME NEW h, NEW e \in Seq(DOMAIN HashOf), Tidy(h, e),
         NEW i \in Nat, i # 0, i <= Len(e), NEW f, f = WithoutEntry(e, i)
  PROVE  Tidy(RemovedHash(h, e, i), f)
<1>1. PICK n : Indexed(h, e, n)
  BY DEF Tidy
<1>2. PICK m, I : m = Len(e) /\ I = 1..m
  OBVIOUS
<1>3. f \in Seq(DOMAIN HashOf) /\ Moved(f, e, i)
  BY WithoutEntryIs
<1>4. Distinct(f)
  BY <1>3, MovedDistinct DEF Tidy
<1>5. /\ m \in Nat /\ n \in Nat \ {0} /\ m < n /\ m + 1 <= (3 * n) \div 4 /\ i \in I
      /\ Placed(h, e, I, n)
  <2>1. m \in Nat /\ n \in Nat \ {0} /\ m + 1 <= (3 * n) \div 4 /\ Placed(h, e, I, n)
    BY <1>1, <1>2 DEF Indexed, Placed, Tabled
  <2>2. m < n
    BY <2>1, Spare
  <2>. QED
    BY <1>2, <2>1, <2>2
<1>6. /\ \A j \in I : At(e, j) = e[j]
      /\ Len(f) = m - 1
      /\ \A j \in 1..(m - 1) : At(f, j) = f[j] /\ f[j] \in DOMAIN HashOf
      /\ \A j \in 1..(m - 1) : f[j] = IF j = i THEN e[m] ELSE e[j]
  BY <1>2, <1>3, AtIs DEF Moved
<1>7. \E z \in Table(n) : h[z] = 0
  BY <1>2, <1>5, SomeFree
<1>8. PICK s, g, J : s = SlotOf(h, e, i) /\ g = RemoveHash(h, e, s) /\ J = I \ {i}
  OBVIOUS
<1>9. s \in Table(n) /\ h[s] = i
  BY <1>5, <1>8, SlotOfIs
<1>10. Placed(g, e, J, n)
  <2>1. h[s] # 0 /\ J = I \ {h[s]}
    BY <1>8, <1>9
  <2>. QED
    BY <1>5, <1>7, <1>8, <1>9, <2>1, HashWithoutSlot
<1>11. Len(f) + 1 <= (3 * n) \div 4
  BY <1>5, <1>6
<1>12. CASE i = m
  <2>1. RemovedHash(h, e, i) = g
    BY <1>2, <1>8, <1>12 DEF RemovedHash
  <2>2. J = 1..(m - 1)
    BY <1>2, <1>5, <1>8, <1>12
  <2>3. \A j \in J : At(f, j) = At(e, j)
    BY <1>2, <1>5, <1>6, <1>12, <2>2
  <2>4. Placed(g, f, J, n)
    BY <1>10, <2>3, PlacedSame
  <2>5. Indexed(g, f, n)
    BY <1>6, <1>11, <2>2, <2>4 DEF Indexed
  <2>. QED
    BY <1>4, <2>1, <2>5 DEF Tidy
<1>13. CASE i # m
  <2>1. PICK t, k, K : t = SlotOf(g, e, m) /\ k = RemoveHash(g, e, t) /\ K = J \ {m}
    OBVIOUS
  <2>2. m \in J /\ J \subseteq 1..m /\ K \subseteq 1..m /\ m # 0
    BY <1>2, <1>5, <1>8, <1>13, <2>1
  <2>3. t \in Table(n) /\ g[t] = m
    BY <1>10, <2>1, <2>2, SlotOfIs
  <2>4. \E z \in Table(n) : g[z] = 0
    BY <1>5, <1>10, <2>2, SomeFree
  <2>5. Placed(k, e, K, n)
    <3>1. g[t] # 0 /\ K = J \ {g[t]}
      BY <2>1, <2>2, <2>3
    <3>. QED
      BY <1>10, <2>1, <2>3, <2>4, <3>1, HashWithoutSlot
  <2>6. PICK d : d = [e EXCEPT ![i] = Last(e)]
    OBVIOUS
  <2>7. RemovedHash(h, e, i) = InsertHash(k, d, i)
    BY <1>2, <1>8, <1>13, <2>1, <2>6 DEF RemovedHash
  <2>8. i \in 1..(m - 1) /\ i \notin K /\ K \cup {i} = 1..(m - 1)
    BY <1>2, <1>5, <1>8, <1>13, <2>1
  <2>9. \A j \in 1..m : At(d, j) = IF j = i THEN e[m] ELSE e[j]
    <3>1. DOMAIN e = 1..m /\ DOMAIN d = 1..m /\ Last(e) = e[m]
      BY <1>2, <2>6 DEF Last
    <3>. QED
      BY <2>6, <3>1 DEF At
  <2>10. \A j \in 1..(m - 1) : j \in 1..m
    BY <1>5
  <2>11. \A j \in 1..(m - 1) : At(f, j) = At(d, j) /\ At(d, j) \in DOMAIN HashOf
    BY <1>6, <2>9, <2>10
  <2>12. Placed(k, d, K, n)
    <3>1. \A j \in K : At(d, j) = At(e, j)
      BY <1>2, <1>6, <2>2, <2>8, <2>9
    <3>. QED
      BY <2>5, <3>1, PlacedSame
  <2>13. \E z \in Table(n) : k[z] = 0
    BY <1>5, <2>2, <2>5, SomeFree
  <2>14. Placed(InsertHash(k, d, i), d, K \cup {i}, n)
    BY <2>8, <2>11, <2>12, <2>13, HashWith
  <2>15. Placed(InsertHash(k, d, i), f, K \cup {i}, n)
    BY <2>8, <2>11, <2>14, PlacedSame
  <2>16. Indexed(InsertHash(k, d, i), f, n)
    BY <1>6, <1>11, <2>8, <2>15 DEF Indexed
  <2>. QED
    BY <1>4, <2>7, <2>16 DEF Tidy
<1>. QED
  BY <1>12, <1>13

(***************************************************************************)
(* Maps as records.                                                        *)
(***************************************************************************)
Tables == UNION {[Table(n) -> Nat] : n \in Nat}

MapRecords == [k : Seq(Keys), v : Seq(Vals), hk : Tables, hv : Tables]

(* Both indexes are tidy.                                                  *)
Good(m) ==
    /\ m \in MapRecords /\ Len(m.v) = Len(m.k)
    /\ Tidy(m.hk, m.k) /\ Tidy(m.hv, m.v)

EntriesOf(m) == {<<m.k[i], m.v[i]>> : i \in DOMAIN m.k}

LEMMA KeysAre ==
  /\ Keys \subseteq Nat /\ Keys \subseteq DOMAIN HashOf /\ Vals \subseteq DOMAIN HashOf
  /\ Seq(Keys) \subseteq Seq(DOMAIN HashOf) /\ Seq(Vals) \subseteq Seq(DOMAIN HashOf)
<1>1. Keys \subseteq Nat /\ Keys \subseteq DOMAIN HashOf /\ Vals \subseteq DOMAIN HashOf
  BY MapAssumption DEF Keys, Vals
<1>. QED
  BY <1>1, SeqMonotonic

LEMMA TidyIn ==
  ASSUME NEW h, NEW e, Tidy(h, e)
  PROVE  h \in Tables
BY DEF Tidy, Indexed, Placed, Tabled, Tables

LEMMA RemovedAtIs ==
  ASSUME NEW m, Good(m), NEW i \in Nat, i # 0, i <= Len(m.k), NEW l, l = RemovedAt(m, i)
  PROVE  Good(l) /\ Moved(l.k, m.k, i) /\ Moved(l.v, m.v, i)
<1>1. PICK e, f, g, h : e = m.k /\ f = m.v /\ g = m.hk /\ h = m.hv
  OBVIOUS
<1>2. PICK u, d, a, b : /\ u = WithoutEntry(e, i) /\ d = WithoutEntry(f, i)
                        /\ a = RemovedHash(g, e, i) /\ b = RemovedHash(h, f, i)
  OBVIOUS
<1>3. /\ e \in Seq(Keys) /\ f \in Seq(Vals) /\ Tidy(g, e) /\ Tidy(h, f) /\ Len(f) = Len(e)
      /\ i <= Len(e) /\ i <= Len(f)
  BY <1>1 DEF Good, MapRecords
<1>4. l = [k |-> u, v |-> d, hk |-> a, hv |-> b]
  BY <1>1, <1>2 DEF RemovedAt
<1>5. u \in Seq(Keys) /\ Moved(u, e, i) /\ d \in Seq(Vals) /\ Moved(d, f, i)
  BY <1>2, <1>3, WithoutEntryIs
<1>6. Tidy(a, u) /\ Tidy(b, d)
  <2>1. e \in Seq(DOMAIN HashOf) /\ f \in Seq(DOMAIN HashOf)
    BY <1>3, KeysAre
  <2>. QED
    BY <1>2, <1>3, <2>1, RemovedHashIs
<1>7. a \in Tables /\ b \in Tables
  BY <1>6, TidyIn
<1>8. Len(d) = Len(u)
  BY <1>3, <1>5 DEF Moved
<1>9. l \in MapRecords /\ l.k = u /\ l.v = d /\ l.hk = a /\ l.hv = b
  BY <1>4, <1>5, <1>7 DEF MapRecords
<1>. QED
  BY <1>1, <1>5, <1>6, <1>8, <1>9 DEF Good

(* A removal takes the entry of one key, and no other.                     *)
LEMMA RemovedEntries ==
  ASSUME NEW m, Good(m), NEW i \in Nat, i # 0, i <= Len(m.k), NEW l, l = RemovedAt(m, i)
  PROVE  EntriesOf(l) = {p \in EntriesOf(m) : p[1] # m.k[i]}
<1>1. PICK e, f, u, d, n : e = m.k /\ f = m.v /\ u = l.k /\ d = l.v /\ n = Len(e)
  OBVIOUS
<1>2. Good(l) /\ Moved(u, e, i) /\ Moved(d, f, i)
  BY <1>1, RemovedAtIs
<1>3. /\ e \in Seq(Keys) /\ Len(f) = n /\ Distinct(e) /\ n \in Nat /\ DOMAIN e = 1..n
      /\ u \in Seq(Keys)
  BY <1>1, <1>2 DEF Good, MapRecords, Tidy
<1>4. DOMAIN u = 1..(n - 1)
  BY <1>1, <1>2, <1>3 DEF Moved
<1>5. \A j \in 1..(n - 1) : /\ u[j] = IF j = i THEN e[n] ELSE e[j]
                            /\ d[j] = IF j = i THEN f[n] ELSE f[j]
  BY <1>1, <1>2, <1>3 DEF Moved
<1>6. /\ EntriesOf(m) = {<<e[j], f[j]>> : j \in 1..n}
      /\ EntriesOf(l) = {<<u[j], d[j]>> : j \in 1..(n - 1)}
  BY <1>1, <1>3, <1>4 DEF EntriesOf
<1>7. \A j \in 1..n : e[j] = e[i] <=> j = i
  BY <1>1, <1>3 DEF Distinct
<1>8. n \in 1..n /\ i \in 1..n /\ \A j \in 1..(n - 1) : j \in 1..n /\ j # n
  BY <1>1, <1>3
<1>9. ASSUME NEW p \in EntriesOf(l) PROVE p \in EntriesOf(m) /\ p[1] # e[i]
  <2>1. PICK j \in 1..(n - 1) : p = <<u[j], d[j]>>
    BY <1>6
  <2>2. PICK k \in 1..n : k = IF j = i THEN n ELSE j
    BY <1>8
  <2>3. p = <<e[k], f[k]>> /\ k # i
    BY <1>5, <1>8, <2>1, <2>2
  <2>. QED
    BY <1>6, <1>7, <2>3
<1>10. ASSUME NEW p \in EntriesOf(m), p[1] # e[i] PROVE p \in EntriesOf(l)
  <2>1. PICK j \in 1..n : p = <<e[j], f[j]>>
    BY <1>6
  <2>2. j # i
    BY <1>10, <2>1
  <2>3. \E k \in 1..(n - 1) : k = IF j = n THEN i ELSE j
    BY <1>3, <1>8, <2>2
  <2>4. PICK k \in 1..(n - 1) : k = IF j = n THEN i ELSE j
    BY <2>3
  <2>5. p = <<u[k], d[k]>>
    BY <1>5, <2>1, <2>2, <2>4
  <2>. QED
    BY <1>6, <2>5
<1>. QED
  BY <1>1, <1>9, <1>10

(***************************************************************************)
(* The map: its other operations.                                          *)
(***************************************************************************)
MapInv == Good(pm)

LEMMA GoodIs ==
  ASSUME NEW u \in Seq(Keys), NEW d \in Seq(Vals), NEW a, NEW b, Tidy(a, u), Tidy(b, d),
         Len(d) = Len(u), NEW l, l = [k |-> u, v |-> d, hk |-> a, hv |-> b]
  PROVE  Good(l)
<1>1. a \in Tables /\ b \in Tables
  BY TidyIn
<1>2. l \in MapRecords /\ l.k = u /\ l.v = d /\ l.hk = a /\ l.hv = b
  BY <1>1 DEF MapRecords
<1>. QED
  BY <1>2 DEF Good

LEMMA TidyEmpty ==
  ASSUME NEW n \in Nat \ {0, 1}
  PROVE  Tidy(Empty(n), <<>>)
<1>1. Len(<<>>) = 0 /\ DOMAIN <<>> = {} /\ 1..0 = {} /\ n \in Nat \ {0} /\ 0 + 1 <= (3 * n) \div 4
  OBVIOUS
<1>2. Indexed(Empty(n), <<>>, n)
  BY <1>1, EmptyIs DEF Indexed
<1>. QED
  BY <1>1, <1>2 DEF Tidy, Distinct

LEMMA TidyCleared ==
  ASSUME NEW h, NEW e, Tidy(h, e), Len(e) \in Nat
  PROVE  Tidy(Empty(Size(h)), <<>>)
<1>1. PICK n, m, f : Indexed(h, e, n) /\ m = Len(e) /\ f = <<>>
  BY DEF Tidy
<1>2. Indexed(Empty(Size(h)), f, n)
  BY <1>1, Cleared
<1>. QED
  BY <1>1, <1>2 DEF Tidy, Distinct

LEMMA MapStarts == MapInit => MapInv
<1>. SUFFICES ASSUME MapInit PROVE MapInv
  OBVIOUS
<1>1. PICK e, h : e = <<>> /\ h = Empty(MapSize)
  OBVIOUS
<1>2. Tidy(h, e)
  BY <1>1, MapAssumption, TidyEmpty
<1>3. e \in Seq(Keys) /\ e \in Seq(Vals)
  BY <1>1
<1>4. pm = [k |-> e, v |-> e, hk |-> h, hv |-> h]
  BY <1>1 DEF MapInit
<1>. QED
  BY <1>2, <1>3, <1>4, GoodIs DEF MapInv

LEMMA TidyPushed ==
  ASSUME NEW h, NEW e \in Seq(DOMAIN HashOf), Tidy(h, e), NEW x \in DOMAIN HashOf,
         ~Found(h, e, x), NEW f, f = Append(e, x), NEW k, k = Len(f)
  PROVE  Tidy(InsertHash(Grown(h, e), f, k), f)
<1>1. PICK n, m, r : Indexed(h, e, n) /\ m = Len(e) /\ r = Lookup(h, e, x)
  BY DEF Tidy
<1>2. \E l : Indexed(InsertHash(Grown(h, e), f, k), f, l)
  BY <1>1, Pushed
<1>3. \A i \in 1..Len(e) : e[i] # x
  <2>1. m \in Nat
    BY <1>1
  <2>2. \A i \in 1..m : At(e, i) # x
    BY <1>1, <2>1, Finds
  <2>. QED
    BY <1>1, <2>2, AtIs
<1>4. Distinct(f)
  BY <1>3, AppendDistinct DEF Tidy
<1>. QED
  BY <1>2, <1>4 DEF Tidy

LEMMA MapPushStep ==
  ASSUME MapInv, NEW p \in Pairs, MapPush(p[1], p[2])
  PROVE  MapInv'
<1>1. PICK x, y : x = p[1] /\ y = p[2]
  OBVIOUS
<1>2. PICK e, f, g, h : e = pm.k /\ f = pm.v /\ g = pm.hk /\ h = pm.hv
  OBVIOUS
<1>3. /\ e \in Seq(Keys) /\ f \in Seq(Vals) /\ Tidy(g, e) /\ Tidy(h, f) /\ Len(f) = Len(e)
      /\ e \in Seq(DOMAIN HashOf) /\ f \in Seq(DOMAIN HashOf)
  BY <1>2, KeysAre DEF MapInv, Good, MapRecords
<1>4. x \in Keys /\ y \in Vals /\ x \in DOMAIN HashOf /\ y \in DOMAIN HashOf
  <2>1. x \in Keys /\ y \in Vals
    BY <1>1 DEF Keys, Vals
  <2>. QED
    BY <2>1, KeysAre
<1>5. PICK u, d : u = Append(e, x) /\ d = Append(f, y)
  OBVIOUS
<1>6. PICK i, j : i = Len(u) /\ j = Len(d)
  OBVIOUS
<1>7. PICK a, b : a = InsertHash(Grown(g, e), u, i) /\ b = InsertHash(Grown(h, f), d, j)
  OBVIOUS
<1>8. /\ ~Found(g, e, x) /\ ~Found(h, f, y)
      /\ pm' = [k |-> u, v |-> d, hk |-> a, hv |-> b]
  BY <1>1, <1>2, <1>5, <1>6, <1>7 DEF MapPush
<1>9. Tidy(a, u) /\ Tidy(b, d)
  BY <1>3, <1>4, <1>5, <1>6, <1>7, <1>8, TidyPushed
<1>10. u \in Seq(Keys) /\ d \in Seq(Vals) /\ Len(d) = Len(u)
  BY <1>3, <1>4, <1>5
<1>11. PICK l : l = [k |-> u, v |-> d, hk |-> a, hv |-> b]
  OBVIOUS
<1>12. Good(l) /\ pm' = l
  BY <1>8, <1>9, <1>10, <1>11, GoodIs
<1>. QED
  BY <1>12 DEF MapInv

LEMMA MapClearStep ==
  ASSUME MapInv, MapClear
  PROVE  MapInv'
<1>1. PICK e, g, h : e = <<>> /\ g = Empty(Size(pm.hk)) /\ h = Empty(Size(pm.hv))
  OBVIOUS
<1>2. Tidy(g, e) /\ Tidy(h, e)
  <2>1. /\ Tidy(pm.hk, pm.k) /\ Tidy(pm.hv, pm.v)
        /\ Len(pm.k) \in Nat /\ Len(pm.v) \in Nat
    BY DEF MapInv, Good, MapRecords
  <2>. QED
    BY <1>1, <2>1, TidyCleared
<1>3. e \in Seq(Keys) /\ e \in Seq(Vals)
  BY <1>1
<1>4. PICK l : l = [k |-> e, v |-> e, hk |-> g, hv |-> h]
  OBVIOUS
<1>5. Good(l) /\ pm' = l
  BY <1>1, <1>2, <1>3, <1>4, GoodIs DEF MapClear
<1>. QED
  BY <1>5 DEF MapInv

(* The entry that a lookup found is removed.                               *)
LEMMA FoundAt ==
  ASSUME NEW h, NEW e \in Seq(DOMAIN HashOf), Tidy(h, e), NEW x \in DOMAIN HashOf, Found(h, e, x),
         NEW i, i = h[Lookup(h, e, x)]
  PROVE  i \in Nat /\ i # 0 /\ i <= Len(e) /\ e[i] = x
<1>1. PICK n, m, r : Indexed(h, e, n) /\ m = Len(e) /\ r = Lookup(h, e, x)
  BY DEF Tidy
<1>2. m \in Nat
  BY <1>1
<1>3. i \in 1..m /\ At(e, i) = x
  BY <1>1, <1>2, Finds
<1>4. e[i] = x
  BY <1>1, <1>3, AtIs
<1>. QED
  BY <1>1, <1>2, <1>3, <1>4

LEMMA ByKey ==
  ASSUME MapInv, NEW x \in Keys, MapRemoveByKey(x)
  PROVE  MapInv' /\ EntriesOf(pm') = {p \in EntriesOf(pm) : p[1] # x}
<1>1. PICK m, i, l : m = pm /\ i = m.hk[Lookup(m.hk, m.k, x)] /\ l = RemovedAt(m, i)
  OBVIOUS
<1>2. Good(m) /\ Found(m.hk, m.k, x) /\ pm' = l
  BY <1>1 DEF MapInv, MapRemoveByKey
<1>3. i \in Nat /\ i # 0 /\ i <= Len(m.k) /\ m.k[i] = x
  <2>1. PICK h, e : h = m.hk /\ e = m.k
    OBVIOUS
  <2>2. e \in Seq(DOMAIN HashOf) /\ Tidy(h, e) /\ x \in DOMAIN HashOf
    BY <1>2, <2>1, KeysAre DEF Good, MapRecords
  <2>3. Found(h, e, x) /\ i = h[Lookup(h, e, x)]
    BY <1>1, <1>2, <2>1
  <2>4. i \in Nat /\ i # 0 /\ i <= Len(e) /\ e[i] = x
    BY <2>2, <2>3, FoundAt
  <2>. QED
    BY <2>1, <2>4
<1>4. Good(l)
  BY <1>1, <1>2, <1>3, RemovedAtIs
<1>5. EntriesOf(l) = {p \in EntriesOf(m) : p[1] # m.k[i]}
  BY <1>1, <1>2, <1>3, RemovedEntries
<1>. QED
  BY <1>1, <1>2, <1>3, <1>4, <1>5 DEF MapInv

LEMMA ByValue ==
  ASSUME MapInv, NEW y \in Vals, MapRemove(y)
  PROVE  MapInv'
<1>1. PICK m, i, l : m = pm /\ i = m.hv[Lookup(m.hv, m.v, y)] /\ l = RemovedAt(m, i)
  OBVIOUS
<1>2. Good(m) /\ Found(m.hv, m.v, y) /\ pm' = l
  BY <1>1 DEF MapInv, MapRemove
<1>3. i \in Nat /\ i # 0 /\ i <= Len(m.k)
  <2>1. PICK h, e : h = m.hv /\ e = m.v
    OBVIOUS
  <2>2. e \in Seq(DOMAIN HashOf) /\ Tidy(h, e) /\ y \in DOMAIN HashOf /\ Len(e) = Len(m.k)
    BY <1>2, <2>1, KeysAre DEF Good, MapRecords
  <2>3. Found(h, e, y) /\ i = h[Lookup(h, e, y)]
    BY <1>1, <1>2, <2>1
  <2>4. i \in Nat /\ i # 0 /\ i <= Len(e)
    BY <2>2, <2>3, FoundAt
  <2>. QED
    BY <2>2, <2>4
<1>4. Good(l)
  BY <1>1, <1>2, <1>3, RemovedAtIs
<1>. QED
  BY <1>2, <1>4 DEF MapInv

LEMMA Popped ==
  ASSUME MapInv, MapPop
  PROVE  MapInv'
<1>1. PICK m, i, l : m = pm /\ i = Len(m.k) /\ l = RemovedAt(m, i)
  OBVIOUS
<1>2. Good(m) /\ m.k # <<>> /\ pm' = l
  BY <1>1 DEF MapInv, MapPop
<1>3. i \in Nat /\ i # 0 /\ i <= Len(m.k)
  BY <1>1, <1>2 DEF Good, MapRecords
<1>4. Good(l)
  BY <1>1, <1>2, <1>3, RemovedAtIs
<1>. QED
  BY <1>2, <1>4 DEF MapInv

(***************************************************************************)
(* The filter.                                                             *)
(***************************************************************************)
(* What l is of m after the last d entries have been visited.              *)
Filtering(l, m, d, F) ==
    /\ Good(l) /\ Len(m.k) - d <= Len(l.k)
    /\ \A j \in 1..(Len(m.k) - d) : l.k[j] = m.k[j]
    /\ EntriesOf(l) =
         {p \in EntriesOf(m) : p[1] \notin F \/ \E j \in 1..(Len(m.k) - d) : p[1] = m.k[j]}

LEMMA FilterStarts ==
  ASSUME NEW m, Good(m), NEW F
  PROVE  Filtering(m, m, 0, F)
<1>1. PICK n \in Nat : n = Len(m.k)
  BY DEF Good, MapRecords
<1>2. DOMAIN m.k = 1..n /\ n - 0 = n
  BY <1>1 DEF Good, MapRecords
<1>3. ASSUME NEW p \in EntriesOf(m) PROVE \E j \in 1..n : p[1] = m.k[j]
  <2>1. PICK j \in 1..n : p = <<m.k[j], m.v[j]>>
    BY <1>2 DEF EntriesOf
  <2>. QED
    BY <2>1
<1>. QED
  BY <1>1, <1>2, <1>3 DEF Filtering

LEMMA FilterStep ==
  ASSUME NEW m, Good(m), NEW d \in Nat, NEW l, NEW F, Filtering(l, m, d, F),
         NEW i \in Nat, i # 0, i + d = Len(m.k), NEW u, u = d + 1
  PROVE  Filtering(RemovedIf(l, i, F), m, u, F)
<1>1. PICK n \in Nat : n = Len(m.k)
  BY DEF Good, MapRecords
<1>2. PICK e : e = m.k
  OBVIOUS
<1>3. e \in Seq(Keys) /\ Distinct(e) /\ DOMAIN e = 1..n /\ Len(e) = n
  BY <1>1, <1>2 DEF Good, MapRecords, Tidy
<1>4. n - d = i /\ n - u = i - 1 /\ i \in 1..n /\ i \in 1..i /\ i - 1 \in Nat
  BY <1>1
<1>5. /\ Good(l) /\ i <= Len(l.k) /\ \A j \in 1..i : l.k[j] = e[j]
      /\ EntriesOf(l) = {p \in EntriesOf(m) : p[1] \notin F \/ \E j \in 1..i : p[1] = e[j]}
  BY <1>1, <1>2, <1>4 DEF Filtering
<1>6. PICK x : x = e[i]
  OBVIOUS
<1>7. At(l.k, i) = x /\ Len(l.k) \in Nat
  <2>1. l.k \in Seq(Keys)
    BY <1>5 DEF Good, MapRecords
  <2>2. i \in 1..Len(l.k) /\ l.k[i] = x
    BY <1>5, <1>6, <2>1
  <2>. QED
    BY <2>1, <2>2, AtIs
<1>8. \A j \in 1..(i - 1) : j \in 1..i /\ j # i
  BY <1>4
<1>9. CASE x \in F
  <2>1. PICK k : k = RemovedAt(l, i)
    OBVIOUS
  <2>2. RemovedIf(l, i, F) = k
    BY <1>7, <1>9, <2>1 DEF RemovedIf
  <2>3. Good(k) /\ Moved(k.k, l.k, i)
    BY <1>5, <2>1, RemovedAtIs
  <2>4. EntriesOf(k) = {p \in EntriesOf(l) : p[1] # l.k[i]}
    BY <1>5, <2>1, RemovedEntries
  <2>5. l.k[i] = x
    BY <1>4, <1>5, <1>6
  <2>6. i - 1 <= Len(k.k) /\ \A j \in 1..(i - 1) : k.k[j] = e[j]
    <3>1. Len(k.k) = Len(l.k) - 1
      BY <2>3 DEF Moved
    <3>2. i - 1 <= Len(k.k) /\ \A j \in 1..(i - 1) : j \in 1..(Len(l.k) - 1)
      BY <1>4, <1>5, <1>7, <3>1
    <3>3. \A j \in 1..(i - 1) : k.k[j] = l.k[j]
      BY <1>8, <2>3, <3>2 DEF Moved
    <3>. QED
      BY <1>5, <1>8, <3>2, <3>3
  <2>7. EntriesOf(k) = {p \in EntriesOf(m) : p[1] \notin F \/ \E j \in 1..(i - 1) : p[1] = e[j]}
    <3>1. \A j \in 1..(i - 1) : e[j] # x
      <4>1. \A j \in 1..(i - 1) : j \in 1..n
        BY <1>4
      <4>. QED
        BY <1>3, <1>4, <1>6, <1>8, <4>1 DEF Distinct
    <3>2. \A j \in 1..i : j = i \/ j \in 1..(i - 1)
      BY <1>4
    <3>. QED
      BY <1>5, <1>6, <1>8, <1>9, <2>4, <2>5, <3>1, <3>2
  <2>. QED
    BY <1>1, <1>2, <1>4, <2>2, <2>3, <2>6, <2>7 DEF Filtering
<1>10. CASE x \notin F
  <2>1. RemovedIf(l, i, F) = l
    BY <1>7, <1>10 DEF RemovedIf
  <2>2. i - 1 <= Len(l.k) /\ \A j \in 1..(i - 1) : l.k[j] = e[j]
    BY <1>4, <1>5, <1>7, <1>8
  <2>3. EntriesOf(l) = {p \in EntriesOf(m) : p[1] \notin F \/ \E j \in 1..(i - 1) : p[1] = e[j]}
    <3>1. \A j \in 1..i : j = i \/ j \in 1..(i - 1)
      BY <1>4
    <3>. QED
      BY <1>5, <1>6, <1>8, <1>10, <3>1
  <2>. QED
    BY <1>1, <1>2, <1>4, <1>5, <2>1, <2>2, <2>3 DEF Filtering
<1>. QED
  BY <1>9, <1>10

LEMMA FilterGoes ==
  ASSUME NEW m, Good(m), NEW F
  PROVE  Filtering(Filtered(m, F), m, Len(m.k), F)
<1>1. PICK n \in Nat : n = Len(m.k)
  BY DEF Good, MapRecords
<1>. DEFINE X == {l \in MapRecords : Good(l)}
            G == [w \in X \X (1..n) |->
                    IF n + 1 - w[2] <= Len(w[1].k) THEN RemovedIf(w[1], n + 1 - w[2], F) ELSE w[1]]
            Go(a) == [j \in 0..Len(m.k) |->
                        IF j = 0 THEN m ELSE RemovedIf(a[j - 1], Visited(Len(m.k))[j], F)]
<1>2. m \in X
  BY DEF Good
<1>3. G \in [X \X (1..n) -> X]
  <2>1. ASSUME NEW w \in X \X (1..n) PROVE G[w] \in X
    <3>1. PICK l, i : l = w[1] /\ i = n + 1 - w[2]
      OBVIOUS
    <3>2. l \in X /\ i \in Nat /\ i # 0
      BY <3>1
    <3>3. CASE i <= Len(l.k)
      <4>1. Good(RemovedAt(l, i))
        BY <3>2, <3>3, RemovedAtIs
      <4>2. RemovedAt(l, i) \in X
        BY <4>1 DEF Good
      <4>3. RemovedIf(l, i, F) \in X
        BY <3>2, <4>2 DEF RemovedIf
      <4>. QED
        BY <3>1, <3>3, <4>3
    <3>4. CASE ~(i <= Len(l.k))
      BY <3>1, <3>2, <3>4
    <3>. QED
      BY <3>3, <3>4
  <2>. HIDE DEF X
  <2>2. G = [w \in X \X (1..n) |-> G[w]]
    OBVIOUS
  <2>. HIDE DEF G
  <2>. QED
    BY <2>1, <2>2
<1>4. PICK a \in [0..n -> X] : a[0] = m /\ \A d \in 1..n : a[d] = G[<<a[d - 1], d>>]
  <2>1. PICK D : D = X \X (1..n)
    OBVIOUS
  <2>. HIDE DEF X, G
  <2>2. \E a : Stepped(a, n, X, m, G)
    BY <1>2, <1>3, <2>1, Steps
  <2>. QED
    BY <2>2 DEF Stepped
<1>. DEFINE Bad == {d \in 0..n : ~Filtering(a[d], m, d, F)}
<1>5. ASSUME NEW d \in 1..n, NEW u, u = d - 1, Filtering(a[u], m, u, F)
      PROVE  a[d] = RemovedIf(a[d - 1], n + 1 - d, F) /\ Filtering(a[d], m, d, F)
  <2>1. PICK l, i : l = a[d - 1] /\ i = n + 1 - d
    OBVIOUS
  <2>2. l \in X /\ i \in Nat /\ i # 0 /\ u \in Nat /\ i + u = n /\ n - u = i /\ d = u + 1
    BY <1>5, <2>1
  <2>3. Filtering(l, m, u, F)
    BY <1>5, <2>1
  <2>4. i <= Len(l.k)
    BY <1>1, <2>2, <2>3 DEF Filtering
  <2>5. a[d] = RemovedIf(l, i, F)
    <3>1. PICK w : w = <<l, d>>
      OBVIOUS
    <3>2. w \in X \X (1..n) /\ w[1] = l /\ w[2] = d
      BY <2>2, <3>1
    <3>3. a[d] = G[w]
      BY <1>4, <2>1, <3>1
    <3>4. G[w] = RemovedIf(l, i, F)
      BY <2>1, <2>4, <3>2
    <3>. QED
      BY <3>3, <3>4
  <2>6. Filtering(RemovedIf(l, i, F), m, d, F)
    BY <1>1, <2>2, <2>3, FilterStep
  <2>. QED
    BY <2>1, <2>5, <2>6
<1>6. Bad = {}
  <2>1. SUFFICES ASSUME Bad # {} PROVE FALSE
    OBVIOUS
  <2>2. PICK d \in Bad : \A u \in Bad : d <= u
    <3>1. Bad \in SUBSET Nat
      OBVIOUS
    <3>. HIDE DEF Bad
    <3>. QED
      BY <2>1, <3>1, NatMin
  <2>3. d \in 0..n /\ ~Filtering(a[d], m, d, F)
    BY <2>2
  <2>4. d # 0
    BY <1>4, <2>3, FilterStarts
  <2>5. PICK u : u = d - 1
    OBVIOUS
  <2>6. d \in 1..n /\ u \in 0..n /\ ~(d <= u)
    BY <2>3, <2>4, <2>5
  <2>7. u \notin Bad
    <3>. HIDE DEF Bad
    <3>. QED
      BY <2>2, <2>6
  <2>8. Filtering(a[u], m, u, F)
    BY <2>6, <2>7
  <2>. QED
    BY <1>5, <2>3, <2>5, <2>6, <2>8
<1>7. \A d \in 0..n : Filtering(a[d], m, d, F)
  BY <1>6
<1>8. \A d \in 1..n : a[d] = RemovedIf(a[d - 1], n + 1 - d, F)
  <2>. SUFFICES ASSUME NEW d \in 1..n PROVE a[d] = RemovedIf(a[d - 1], n + 1 - d, F)
    OBVIOUS
  <2>1. PICK u : u = d - 1
    OBVIOUS
  <2>2. u \in 0..n
    BY <2>1
  <2>3. Filtering(a[u], m, u, F)
    BY <1>7, <2>2
  <2>. QED
    BY <1>5, <2>1, <2>3
<1>. HIDE DEF Bad, X, G
<1>9. \A b : Go(b) = [j \in 0..n |-> IF j = 0 THEN m ELSE RemovedIf(b[j - 1], n + 1 - j, F)]
  <2>1. \A j \in 0..n : j # 0 => Visited(n)[j] = n + 1 - j
    BY DEF Visited
  <2>. QED
    BY <1>1, <2>1
<1>10. a = Go(a)
  <2>1. \A j \in 0..n : j = 0 \/ j \in 1..n
    OBVIOUS
  <2>2. a = [j \in 0..n |-> a[j]]
    BY <1>4
  <2>3. \A j \in 0..n : a[j] = IF j = 0 THEN m ELSE RemovedIf(a[j - 1], n + 1 - j, F)
    BY <1>4, <1>8, <2>1
  <2>. HIDE DEF Go
  <2>. QED
    BY <1>9, <2>2, <2>3
<1>11. PICK b : b = CHOOSE f : f = Go(f)
  OBVIOUS
<1>12. b = Go(b)
  <2>. HIDE DEF Go
  <2>. QED
    BY <1>10, <1>11
<1>13. Filtered(m, F) = b[n]
  <2>1. Filtered(m, F) = b[Len(m.k)]
    BY <1>11 DEF Filtered
  <2>. QED
    BY <1>1, <2>1
<1>. HIDE DEF Go
<1>14. \A j \in 0..n : b[j] = IF j = 0 THEN m ELSE RemovedIf(b[j - 1], n + 1 - j, F)
  <2>1. b = [j \in 0..n |-> IF j = 0 THEN m ELSE RemovedIf(b[j - 1], n + 1 - j, F)]
    BY <1>9, <1>12
  <2>. QED
    BY <2>1
<1>15. \A d \in 0..n : a[d] = b[d]
  <2>. DEFINE Off == {d \in 0..n : a[d] # b[d]}
  <2>1. SUFFICES ASSUME Off # {} PROVE FALSE
    OBVIOUS
  <2>2. PICK d \in Off : \A u \in Off : d <= u
    <3>1. Off \in SUBSET Nat
      OBVIOUS
    <3>. HIDE DEF Off
    <3>. QED
      BY <2>1, <3>1, NatMin
  <2>3. d \in 0..n /\ d # 0 /\ a[d] # b[d]
    BY <1>4, <1>14, <2>2
  <2>4. PICK u : u = d - 1
    OBVIOUS
  <2>5. d \in 1..n /\ u \in 0..n /\ ~(d <= u)
    BY <2>3, <2>4
  <2>6. u \notin Off
    <3>. HIDE DEF Off
    <3>. QED
      BY <2>2, <2>5
  <2>7. a[u] = b[u]
    BY <2>5, <2>6
  <2>. QED
    BY <1>8, <1>14, <2>3, <2>4, <2>5, <2>7
<1>16. n \in 0..n
  OBVIOUS
<1>17. Filtering(b[n], m, n, F)
  BY <1>7, <1>15, <1>16
<1>. QED
  BY <1>1, <1>13, <1>17

LEMMA ByFilter ==
  ASSUME MapInv, NEW F, MapRemoveByFilter(F)
  PROVE  MapInv' /\ EntriesOf(pm') = {p \in EntriesOf(pm) : p[1] \notin F}
<1>1. PICK m, l : m = pm /\ l = Filtered(m, F)
  OBVIOUS
<1>2. Good(m) /\ pm' = l
  BY <1>1 DEF MapInv, MapRemoveByFilter
<1>3. Filtering(l, m, Len(m.k), F) /\ Len(m.k) \in Nat
  BY <1>1, <1>2, FilterGoes DEF Good, MapRecords
<1>4. 1..(Len(m.k) - Len(m.k)) = {}
  BY <1>3
<1>5. Good(l) /\ EntriesOf(l) = {p \in EntriesOf(m) : p[1] \notin F}
  BY <1>3, <1>4 DEF Filtering
<1>. QED
  BY <1>1, <1>2, <1>5 DEF MapInv

(***************************************************************************)
(* The sort.                                                               *)
(***************************************************************************)
LEMMA Counting ==
  ASSUME NEW n \in Nat
  PROVE  IsFiniteSet(1..n) /\ Cardinality(1..n) = n
<1>1. 1 \in Int /\ n \in Int
  OBVIOUS
<1>2. IsFiniteSet(1..n) /\ Cardinality(1..n) = IF 1 > n THEN 0 ELSE n - 1 + 1
  BY <1>1, FS_Interval
<1>. QED
  BY <1>2

(* A function from 1..n to itself that takes no value twice takes all.     *)
LEMMA Permutes ==
  ASSUME NEW n \in Nat, NEW K, K = 1..n, NEW f \in Injection(K, K)
  PROVE  \A k \in K : \E l \in K : f[l] = k
<1>1. IsFiniteSet(K)
  BY Counting
<1>2. f \in Surjection(K, K)
  BY <1>1, FS_Injection
<1>. QED
  BY <1>2 DEF Surjection

(* The rank of an entry is the number of keys up to its own.               *)
LEMMA RankedIs ==
  ASSUME NEW e \in Seq(Nat), Distinct(e), NEW n \in Nat, n = Len(e)
  PROVE  \E f \in [1..n -> 1..n] : \A k, l \in 1..n : k < l => e[f[k]] < e[f[l]]
<1>. DEFINE K == 1..n
            Below(k) == {l \in K : e[l] <= e[k]}
            rank == [k \in K |-> Cardinality(Below(k))]
<1>1. /\ IsFiniteSet(K) /\ Cardinality(K) = n
      /\ \A k \in K : e[k] \in Nat
      /\ \A k, l \in K : e[k] = e[l] => k = l
  BY Counting DEF Distinct
<1>2. \A k \in K : /\ IsFiniteSet(Below(k)) /\ Cardinality(Below(k)) \in 1..n
                   /\ rank[k] = Cardinality(Below(k))
  <2>. SUFFICES ASSUME NEW k \in K
                PROVE  IsFiniteSet(Below(k)) /\ Cardinality(Below(k)) \in 1..n
    OBVIOUS
  <2>1. Below(k) \in SUBSET K /\ k \in Below(k)
    BY <1>1
  <2>2. IsFiniteSet(Below(k)) /\ Cardinality(Below(k)) <= n
    BY <1>1, <2>1, FS_Subset
  <2>3. Cardinality(Below(k)) \in Nat /\ Cardinality(Below(k)) # 0
    BY <2>1, <2>2, FS_CardinalityType, FS_EmptySet
  <2>. QED
    BY <1>1, <2>2, <2>3
<1>. HIDE DEF rank
<1>3. ASSUME NEW k \in K, NEW l \in K, e[k] < e[l] PROVE rank[k] < rank[l]
  <2>1. Below(k) \in SUBSET Below(l) /\ l \in Below(l) /\ l \notin Below(k)
    BY <1>1, <1>3
  <2>2. /\ Cardinality(Below(k)) <= Cardinality(Below(l))
        /\ Cardinality(Below(k)) # Cardinality(Below(l))
    BY <1>2, <2>1, FS_Subset
  <2>. HIDE DEF Below
  <2>3. /\ rank[k] = Cardinality(Below(k)) /\ Cardinality(Below(k)) \in Nat
        /\ rank[l] = Cardinality(Below(l)) /\ Cardinality(Below(l)) \in Nat
    BY <1>2
  <2>. QED
    BY <2>2, <2>3
<1>4. \A k \in K : rank[k] \in K
  BY <1>2
<1>. HIDE DEF Below
<1>5. \A k, l \in K : rank[k] = rank[l] => k = l
  <2>. SUFFICES ASSUME NEW k \in K, NEW l \in K, k # l PROVE rank[k] # rank[l]
    OBVIOUS
  <2>1. e[k] < e[l] \/ e[l] < e[k]
    BY <1>1
  <2>. QED
    BY <1>1, <1>3, <1>4, <2>1
<1>6. \A k \in K : \E l \in K : rank[l] = k
  <2>1. rank \in [K -> K]
    BY <1>4 DEF rank
  <2>2. PICK r, J : r = rank /\ J = K
    OBVIOUS
  <2>3. r \in Injection(J, J)
    BY <1>5, <2>1, <2>2 DEF Injection, IsInjective
  <2>. QED
    BY <2>2, <2>3, Permutes
<1>7. PICK f \in [K -> K] : \A k \in K : rank[f[k]] = k
  <2>. DEFINE f == [k \in K |-> CHOOSE l \in K : rank[l] = k]
  <2>1. f \in [K -> K] /\ \A k \in K : rank[f[k]] = k
    BY <1>6
  <2>. QED
    BY <2>1
<1>8. ASSUME NEW k \in K, NEW l \in K, k < l PROVE e[f[k]] < e[f[l]]
  <2>1. f[k] \in K /\ f[l] \in K /\ rank[f[k]] = k /\ rank[f[l]] = l
    BY <1>7
  <2>2. ~(e[f[l]] < e[f[k]])
    BY <1>1, <1>3, <1>8, <2>1
  <2>3. e[f[l]] # e[f[k]]
    BY <1>1, <1>8, <2>1
  <2>. QED
    BY <1>1, <2>1, <2>2, <2>3
<1>. QED
  BY <1>7, <1>8

LEMMA TidyIndex ==
  ASSUME NEW h, NEW e, Tidy(h, e), NEW f \in Seq(DOMAIN HashOf), Distinct(f), Len(f) = Len(e)
  PROVE  Tidy(Index(f, Size(h)), f)
<1>1. PICK n : Indexed(h, e, n)
  BY DEF Tidy
<1>2. PICK m \in Nat : m = Len(f)
  OBVIOUS
<1>3. n \in Nat \ {0} /\ Size(h) = n /\ m + 1 <= (3 * n) \div 4
  BY <1>1, <1>2, SizeIs DEF Indexed, Placed, Tabled
<1>4. m < n
  BY <1>3, Spare
<1>5. \A i \in 1..m : At(f, i) \in DOMAIN HashOf
  BY <1>2, AtIs
<1>6. Placed(Index(f, n), f, 1..m, n)
  BY <1>2, <1>3, <1>4, <1>5, IndexIs
<1>7. Indexed(Index(f, n), f, n)
  BY <1>2, <1>3, <1>6 DEF Indexed
<1>. QED
  BY <1>3, <1>7 DEF Tidy

LEMMA Sorted ==
  ASSUME MapInv, MapSort
  PROVE  MapInv' /\ EntriesOf(pm') = EntriesOf(pm) /\ InOrder(pm'.k)
<1>1. PICK m, e, f, g, h : m = pm /\ e = m.k /\ f = m.v /\ g = m.hk /\ h = m.hv
  OBVIOUS
<1>2. /\ e \in Seq(Keys) /\ f \in Seq(Vals) /\ Len(f) = Len(e) /\ Tidy(g, e) /\ Tidy(h, f)
      /\ Distinct(e) /\ Distinct(f) /\ e \in Seq(Nat)
  <2>1. Seq(Keys) \subseteq Seq(Nat)
    BY KeysAre, SeqMonotonic
  <2>. QED
    BY <1>1, <2>1 DEF MapInv, Good, MapRecords, Tidy
<1>3. PICK n \in Nat : n = Len(e)
  BY <1>2
<1>4. /\ DOMAIN e = 1..n /\ DOMAIN f = 1..n
      /\ \A i \in 1..n : e[i] \in Keys /\ e[i] \in Nat /\ f[i] \in Vals
  BY <1>2, <1>3
<1>5. PICK E : E = {<<e[i], f[i]>> : i \in 1..n}
  OBVIOUS
<1>6. EntriesOf(m) = E
  BY <1>1, <1>4, <1>5 DEF EntriesOf
<1>. DEFINE Rising(s) == \A i, j \in 1..n : i < j => s[i][1] < s[j][1]
<1>7. PICK r \in [1..n -> 1..n] : \A k, l \in 1..n : k < l => e[r[k]] < e[r[l]]
  BY <1>2, <1>3, RankedIs
<1>8. [i \in 1..n |-> <<e[r[i]], f[r[i]]>>] \in [1..n -> E]
      /\ Rising([i \in 1..n |-> <<e[r[i]], f[r[i]]>>])
  <2>1. \A i \in 1..n : <<e[r[i]], f[r[i]]>> \in E
    BY <1>5, <1>7
  <2>. QED
    BY <1>7, <2>1
<1>9. PICK s : s = Ranked(m)
  OBVIOUS
<1>10. s \in [1..n -> E] /\ Rising(s)
  <2>. DEFINE Ris(x) == \A i, j \in 1..Len(m.k) : i < j => x[i][1] < x[j][1]
  <2>1. s = CHOOSE x \in [1..Len(m.k) -> EntriesOf(m)] : Ris(x)
    BY <1>9 DEF Ranked, EntriesOf
  <2>2. EntriesOf(m) = E /\ 1..Len(m.k) = 1..n /\ \A x : Ris(x) <=> Rising(x)
    BY <1>1, <1>3, <1>6
  <2>3. \E x \in [1..Len(m.k) -> EntriesOf(m)] : Ris(x)
    <3>. HIDE DEF Ris, Rising
    <3>. QED
      BY <1>8, <2>2
  <2>4. s \in [1..Len(m.k) -> EntriesOf(m)] /\ Ris(s)
    <3>. HIDE DEF Ris, Rising
    <3>. QED
      BY <2>1, <2>3
  <2>. HIDE DEF Ris, Rising
  <2>. QED
    BY <2>2, <2>4
<1>11. PICK p \in [1..n -> 1..n] : \A i \in 1..n : s[i] = <<e[p[i]], f[p[i]]>>
  <2>. DEFINE P == [i \in 1..n |-> CHOOSE j \in 1..n : s[i] = <<e[j], f[j]>>]
  <2>1. \A i \in 1..n : \E j \in 1..n : s[i] = <<e[j], f[j]>>
    BY <1>5, <1>10
  <2>2. P \in [1..n -> 1..n] /\ \A i \in 1..n : s[i] = <<e[P[i]], f[P[i]]>>
    BY <2>1
  <2>. QED
    BY <2>2
<1>12. PICK u, d : u = [i \in 1..n |-> e[p[i]]] /\ d = [i \in 1..n |-> f[p[i]]]
  OBVIOUS
<1>13. u = [i \in DOMAIN s |-> s[i][1]] /\ d = [i \in DOMAIN s |-> s[i][2]]
  <2>1. DOMAIN s = 1..n
    BY <1>10
  <2>2. \A i \in 1..n : s[i][1] = e[p[i]] /\ s[i][2] = f[p[i]]
    <3>. SUFFICES ASSUME NEW i \in 1..n PROVE s[i][1] = e[p[i]] /\ s[i][2] = f[p[i]]
      OBVIOUS
    <3>1. s[i] = <<e[p[i]], f[p[i]]>>
      BY <1>11
    <3>2. PICK x, y : x = e[p[i]] /\ y = f[p[i]]
      OBVIOUS
    <3>3. s[i] = <<x, y>> /\ <<x, y>>[1] = x /\ <<x, y>>[2] = y
      BY <3>1, <3>2
    <3>. QED
      BY <3>2, <3>3
  <2>. QED
    BY <1>12, <2>1, <2>2
<1>14. \A i, j \in 1..n : i < j => u[i] < u[j]
  <2>1. \A i \in 1..n : u[i] = s[i][1]
    BY <1>10, <1>13
  <2>2. \A i, j \in 1..n : i < j => s[i][1] < s[j][1]
    BY <1>10
  <2>. QED
    BY <2>1, <2>2
<1>15. /\ u \in [1..n -> Keys] /\ d \in [1..n -> Vals] /\ \A i \in 1..n : u[i] \in Nat
       /\ u \in Seq(Keys) /\ d \in Seq(Vals) /\ Len(u) = n /\ Len(d) = n
  <2>1. u \in [1..n -> Keys] /\ d \in [1..n -> Vals] /\ \A i \in 1..n : u[i] \in Nat
    BY <1>4, <1>11, <1>12
  <2>2. u \in Seq(Keys) /\ d \in Seq(Vals)
    BY <2>1, SeqDef
  <2>. QED
    BY <2>1, <2>2, LenProperties
<1>16. \A i, j \in 1..n : p[i] = p[j] => i = j
  <2>. SUFFICES ASSUME NEW i \in 1..n, NEW j \in 1..n, p[i] = p[j], i # j PROVE FALSE
    OBVIOUS
  <2>1. u[i] = u[j] /\ u[i] \in Nat
    BY <1>12, <1>15
  <2>2. i < j \/ j < i
    OBVIOUS
  <2>3. u[i] < u[j] \/ u[j] < u[i]
    BY <1>14, <2>2
  <2>4. PICK x : x = u[i]
    OBVIOUS
  <2>5. x \in Nat /\ x < x
    BY <2>1, <2>3, <2>4
  <2>. QED
    BY <2>5
<1>17. Distinct(u) /\ Distinct(d)
  <2>1. \A i \in 1..n : p[i] \in 1..n /\ u[i] = e[p[i]] /\ d[i] = f[p[i]]
    BY <1>11, <1>12
  <2>2. /\ \A i, j \in 1..n : e[i] = e[j] => i = j
        /\ \A i, j \in 1..n : f[i] = f[j] => i = j
    BY <1>2, <1>4 DEF Distinct
  <2>3. \A i, j \in 1..n : u[i] = u[j] => i = j
    <3>. SUFFICES ASSUME NEW i \in 1..n, NEW j \in 1..n, u[i] = u[j] PROVE i = j
      OBVIOUS
    <3>1. PICK a, b \in 1..n : a = p[i] /\ b = p[j]
      BY <2>1
    <3>2. e[a] = e[b]
      BY <2>1, <3>1
    <3>3. a = b
      BY <2>2, <3>2
    <3>. QED
      BY <1>16, <3>1, <3>3
  <2>4. \A i, j \in 1..n : d[i] = d[j] => i = j
    <3>. SUFFICES ASSUME NEW i \in 1..n, NEW j \in 1..n, d[i] = d[j] PROVE i = j
      OBVIOUS
    <3>1. PICK a, b \in 1..n : a = p[i] /\ b = p[j]
      BY <2>1
    <3>2. f[a] = f[b]
      BY <2>1, <3>1
    <3>3. a = b
      BY <2>2, <3>2
    <3>. QED
      BY <1>16, <3>1, <3>3
  <2>5. DOMAIN u = 1..n /\ DOMAIN d = 1..n
    BY <1>15
  <2>. QED
    BY <2>3, <2>4, <2>5 DEF Distinct
<1>18. PICK a, b : a = Index(u, Size(g)) /\ b = Index(d, Size(h))
  OBVIOUS
<1>19. Tidy(a, u) /\ Tidy(b, d)
  <2>1. u \in Seq(DOMAIN HashOf) /\ d \in Seq(DOMAIN HashOf) /\ Len(u) = Len(e) /\ Len(d) = Len(f)
    BY <1>2, <1>3, <1>15, KeysAre
  <2>. QED
    BY <1>2, <1>17, <1>18, <2>1, TidyIndex
<1>20. PICK l : l = [k |-> u, v |-> d, hk |-> a, hv |-> b]
  OBVIOUS
<1>21. pm' = l
  BY <1>1, <1>9, <1>13, <1>18, <1>20 DEF MapSort
<1>22. Good(l) /\ l.k = u /\ l.v = d
  <2>1. Len(d) = Len(u)
    BY <1>15
  <2>. QED
    BY <1>15, <1>19, <1>20, <2>1, GoodIs
<1>23. EntriesOf(l) = E
  <2>1. EntriesOf(l) = {<<u[i], d[i]>> : i \in 1..n}
    BY <1>15, <1>22 DEF EntriesOf
  <2>2. \A i \in 1..n : <<u[i], d[i]>> = <<e[p[i]], f[p[i]]>> /\ p[i] \in 1..n
    BY <1>11, <1>12
  <2>3. \A j \in 1..n : \E i \in 1..n : p[i] = j
    <3>1. PICK K : K = 1..n
      OBVIOUS
    <3>2. p \in Injection(K, K)
      BY <1>16, <3>1 DEF Injection, IsInjective
    <3>. QED
      BY <3>1, <3>2, Permutes
  <2>4. ASSUME NEW x \in EntriesOf(l) PROVE x \in E
    <3>1. PICK i \in 1..n : x = <<u[i], d[i]>>
      BY <2>1
    <3>2. PICK j \in 1..n : j = p[i] /\ x = <<e[j], f[j]>>
      BY <2>2, <3>1
    <3>. QED
      BY <1>5, <3>2
  <2>5. ASSUME NEW x \in E PROVE x \in EntriesOf(l)
    <3>1. PICK j \in 1..n : x = <<e[j], f[j]>>
      BY <1>5
    <3>2. PICK i \in 1..n : p[i] = j
      BY <2>3
    <3>3. x = <<u[i], d[i]>>
      BY <2>2, <3>1, <3>2
    <3>. QED
      BY <2>1, <3>3
  <2>. QED
    BY <2>4, <2>5
<1>24. InOrder(u)
  <2>1. \A i \in 2..n : i - 1 \in 1..n /\ i \in 1..n /\ i - 1 < i
    OBVIOUS
  <2>. QED
    BY <1>14, <1>15, <2>1 DEF InOrder
<1>. QED
  BY <1>1, <1>6, <1>21, <1>22, <1>23, <1>24 DEF MapInv

(***************************************************************************)
(* The search of a sorted map.                                             *)
(***************************************************************************)
LEMMA LeastIs ==
  ASSUME NEW S \in SUBSET Nat, NEW x \in S, \A y \in S : x <= y
  PROVE  Min(S) = x
<1>1. \A z \in S : (\A y \in S : z <= y) => z = x
  OBVIOUS
<1>. QED
  BY <1>1 DEF Min

LEMMA GreatestIs ==
  ASSUME NEW n \in Nat, NEW S \in SUBSET (0..n), S # {}
  PROVE  Max(S) \in S /\ \A y \in S : y <= Max(S)
<1>. DEFINE T == {k \in 0..n : n - k \in S}
<1>1. T \in SUBSET Nat /\ T # {}
  <2>1. PICK y \in S : TRUE
    OBVIOUS
  <2>2. PICK k : k = n - y
    OBVIOUS
  <2>3. k \in 0..n /\ n - k = y
    BY <2>2
  <2>4. k \in T
    BY <2>1, <2>3
  <2>5. \A j \in T : j \in Nat
    OBVIOUS
  <2>. HIDE DEF T
  <2>. QED
    BY <2>4, <2>5
<1>2. PICK k \in T : \A l \in T : k <= l
  <2>. HIDE DEF T
  <2>. QED
    BY <1>1, NatMin
<1>3. n - k \in S /\ \A y \in S : y <= n - k
  <2>1. \A y \in S : n - y \in 0..n /\ n - (n - y) = y
    OBVIOUS
  <2>2. \A y \in S : n - y \in T
    BY <2>1
  <2>. QED
    BY <1>2, <2>2
<1>. QED
  BY <1>3 DEF Max

LEMMA OrderIs ==
  ASSUME NEW e \in Seq(Nat), InOrder(e), NEW n \in Nat, n = Len(e)
  PROVE  \A i, j \in 1..n : i < j => e[i] < e[j]
<1>. SUFFICES ASSUME NEW i \in 1..n PROVE \A j \in 1..n : i < j => e[i] < e[j]
  OBVIOUS
<1>. DEFINE Bad == {j \in 1..n : i < j /\ ~(e[i] < e[j])}
<1>1. SUFFICES ASSUME Bad # {} PROVE FALSE
  OBVIOUS
<1>2. PICK j \in Bad : \A l \in Bad : j <= l
  <2>1. Bad \in SUBSET Nat
    OBVIOUS
  <2>. HIDE DEF Bad
  <2>. QED
    BY <1>1, <2>1, NatMin
<1>3. j \in 2..n /\ j - 1 \in 1..n /\ j - 1 \notin Bad
  BY <1>2
<1>4. e[j - 1] < e[j] /\ e[j] \in Nat /\ e[j - 1] \in Nat /\ e[i] \in Nat
  BY <1>3 DEF InOrder
<1>. QED
  BY <1>2, <1>3, <1>4

(* The search that halves its steps: where it may be, and how it goes on.  *)
Grid(n) == {w \in (0..n) \X (1..n) : 2 * w[1] <= w[2]}
Halve(e, q, w) ==
    <<w[1] \div 2, IF e[w[2]] > q THEN w[2] - w[1]
                   ELSE IF w[2] + w[1] <= Len(e) THEN w[2] + w[1] ELSE w[2]>>
Goes(e, q, f, w) == IF w[1] <= 1 \/ e[w[2]] = q THEN w[2] ELSE f[Halve(e, q, w)]
Searches(e, q, G, f) == f = [w \in G |-> Goes(e, q, f, w)]

LEMMA HalveIs ==
  ASSUME NEW e \in Seq(Nat), NEW n \in Nat, n = Len(e), NEW q, NEW w \in Grid(n), ~(w[1] <= 1)
  PROVE  Halve(e, q, w) \in Grid(n) /\ Halve(e, q, w)[1] < w[1] /\ w[1] \in 0..n
<1>1. PICK s, i : s = w[1] /\ i = w[2]
  OBVIOUS
<1>2. s \in 0..n /\ i \in 1..n /\ 2 * s <= i /\ s >= 2
  BY <1>1 DEF Grid
<1>3. PICK t, j : /\ t = s \div 2
                  /\ j = IF e[i] > q THEN i - s ELSE IF i + s <= Len(e) THEN i + s ELSE i
  OBVIOUS
<1>4. t \in 0..n /\ t < s /\ 2 * t <= s
  BY <1>2, <1>3
<1>5. j \in 1..n /\ s <= j
  <2>1. CASE e[i] > q
    <3>1. j = i - s
      BY <1>3, <2>1
    <3>. QED
      BY <1>2, <3>1
  <2>2. CASE ~(e[i] > q) /\ i + s <= Len(e)
    <3>1. j = i + s
      BY <1>3, <2>2
    <3>. QED
      BY <1>2, <2>2, <3>1
  <2>3. CASE ~(e[i] > q) /\ ~(i + s <= Len(e))
    <3>1. j = i
      BY <1>3, <2>3
    <3>. QED
      BY <1>2, <3>1
  <2>. QED
    BY <2>1, <2>2, <2>3
<1>6. Halve(e, q, w) = <<t, j>>
  BY <1>1, <1>3 DEF Halve
<1>7. <<t, j>> \in (0..n) \X (1..n) /\ <<t, j>>[1] = t /\ <<t, j>>[2] = j /\ 2 * t <= j
  BY <1>2, <1>4, <1>5
<1>. QED
  BY <1>1, <1>2, <1>4, <1>6, <1>7 DEF Grid

LEMMA GoesIn ==
  ASSUME NEW e \in Seq(Nat), NEW n \in Nat, n = Len(e), NEW q, NEW f, NEW w \in Grid(n),
         \A v \in Grid(n) : v[1] < w[1] => f[v] \in 1..n
  PROVE  Goes(e, q, f, w) \in 1..n
<1>1. CASE w[1] <= 1 \/ e[w[2]] = q
  <2>1. w[2] \in 1..n
    BY DEF Grid
  <2>. QED
    BY <1>1, <2>1 DEF Goes
<1>2. CASE ~(w[1] <= 1) /\ ~(e[w[2]] = q)
  <2>1. Halve(e, q, w) \in Grid(n) /\ Halve(e, q, w)[1] < w[1]
    BY <1>2, HalveIs
  <2>. QED
    BY <1>2, <2>1 DEF Goes
<1>. QED
  BY <1>1, <1>2

(* There is such a search: its values for step 0, for step 1, and so on.   *)
LEMMA SearchIs ==
  ASSUME NEW e \in Seq(Nat), NEW n \in Nat, n = Len(e), NEW q, NEW G, G = Grid(n)
  PROVE  \E f : Searches(e, q, G, f)
<1>. DEFINE X == [G -> 1..n]
            b == [w \in G |-> w[2]]
            F == [x \in X \X (1..n) |->
                    [w \in G |-> IF w[1] = x[2] THEN Goes(e, q, x[1], w) ELSE x[1][w]]]
<1>1. b \in X
  BY DEF Grid
<1>2. F \in [X \X (1..n) -> X]
  <2>. SUFFICES ASSUME NEW x \in X \X (1..n)
                PROVE  [w \in G |-> IF w[1] = x[2] THEN Goes(e, q, x[1], w) ELSE x[1][w]] \in X
    OBVIOUS
  <2>1. PICK f : f = x[1]
    OBVIOUS
  <2>2. f \in [G -> 1..n]
    BY <2>1
  <2>3. \A w \in G : Goes(e, q, f, w) \in 1..n
    BY <2>2, GoesIn
  <2>. QED
    BY <2>1, <2>2, <2>3
<1>3. PICK r : Stepped(r, n, X, b, F)
  <2>1. PICK D : D = X \X (1..n)
    OBVIOUS
  <2>. HIDE DEF X, F, b
  <2>. QED
    BY <1>1, <1>2, <2>1, Steps
<1>4. /\ \A d \in 0..n : r[d] \in X
      /\ r[0] = b
      /\ \A d \in 1..n : r[d] = F[<<r[d - 1], d>>]
  <2>. HIDE DEF X, F, b
  <2>. QED
    BY <1>3 DEF Stepped
<1>5. \A d \in 1..n : r[d] = [w \in G |-> IF w[1] = d THEN Goes(e, q, r[d - 1], w) ELSE r[d - 1][w]]
  <2>. SUFFICES ASSUME NEW d \in 1..n
                PROVE  r[d] = [w \in G |-> IF w[1] = d THEN Goes(e, q, r[d - 1], w)
                                           ELSE r[d - 1][w]]
    OBVIOUS
  <2>1. PICK g : g = r[d - 1]
    OBVIOUS
  <2>2. g \in X /\ r[d] = F[<<g, d>>]
    <3>. HIDE DEF X, F, b
    <3>1. d - 1 \in 0..n
      OBVIOUS
    <3>. QED
      BY <1>4, <2>1, <3>1
  <2>3. <<g, d>> \in X \X (1..n) /\ <<g, d>>[1] = g /\ <<g, d>>[2] = d
    BY <2>2
  <2>4. F[<<g, d>>] = [w \in G |-> IF w[1] = d THEN Goes(e, q, g, w) ELSE g[w]]
    BY <2>3
  <2>. QED
    BY <2>1, <2>2, <2>4
<1>. DEFINE Holds(d) == \A w \in G : w[1] <= d => r[d][w] = Goes(e, q, r[d], w)
<1>6. Holds(0)
  <2>. SUFFICES ASSUME NEW w \in G, w[1] <= 0 PROVE r[0][w] = Goes(e, q, r[0], w)
    OBVIOUS
  <2>1. r[0][w] = w[2]
    BY <1>4
  <2>2. w[1] <= 1
    BY DEF Grid
  <2>. QED
    BY <2>1, <2>2 DEF Goes
<1>7. ASSUME NEW d \in 1..n, Holds(d - 1) PROVE Holds(d)
  <2>. SUFFICES ASSUME NEW w \in G, w[1] <= d PROVE r[d][w] = Goes(e, q, r[d], w)
    OBVIOUS
  <2>1. PICK f, g : f = r[d] /\ g = r[d - 1]
    OBVIOUS
  <2>2. \A v \in G : f[v] = IF v[1] = d THEN Goes(e, q, g, v) ELSE g[v]
    <3>1. f = [v \in G |-> IF v[1] = d THEN Goes(e, q, g, v) ELSE g[v]]
      BY <1>5, <2>1
    <3>. QED
      BY <3>1
  <2>3. w[1] \in 0..n /\ \A v \in G : v[1] \in 0..n
    BY DEF Grid
  <2>4. f[w] = Goes(e, q, g, w)
    <3>1. CASE w[1] = d
      BY <2>2, <3>1
    <3>2. CASE w[1] # d
      <4>1. w[1] <= d - 1
        BY <2>3, <3>2
      <4>. QED
        BY <1>7, <2>1, <2>2, <3>2, <4>1
    <3>. QED
      BY <3>1, <3>2
  <2>5. Goes(e, q, g, w) = Goes(e, q, f, w)
    <3>1. CASE w[1] <= 1
      BY <3>1 DEF Goes
    <3>2. CASE ~(w[1] <= 1)
      <4>1. PICK v : v = Halve(e, q, w)
        OBVIOUS
      <4>2. v \in G /\ v[1] < w[1]
        BY <3>2, <4>1, HalveIs
      <4>3. v[1] # d
        BY <2>3, <4>2
      <4>4. f[v] = g[v]
        BY <2>2, <4>2, <4>3
      <4>. QED
        BY <4>1, <4>4 DEF Goes
    <3>. QED
      BY <3>1, <3>2
  <2>. QED
    BY <2>1, <2>4, <2>5
<1>8. Holds(n)
  <2>. DEFINE Bad == {d \in 0..n : ~Holds(d)}
  <2>. HIDE DEF Holds
  <2>1. SUFFICES ASSUME Bad # {} PROVE FALSE
    <3>1. n \in 0..n
      OBVIOUS
    <3>. QED
      BY <3>1
  <2>2. PICK d \in Bad : \A l \in Bad : d <= l
    <3>1. Bad \in SUBSET Nat
      OBVIOUS
    <3>. HIDE DEF Bad
    <3>. QED
      BY <2>1, <3>1, NatMin
  <2>3. d # 0
    BY <1>6, <2>2
  <2>4. d \in 1..n /\ d - 1 \in 0..n /\ d - 1 \notin Bad
    BY <2>2, <2>3
  <2>. QED
    BY <1>7, <2>2, <2>4
<1>9. PICK f : f = r[n]
  OBVIOUS
<1>10. f \in [G -> 1..n]
  BY <1>4, <1>9
<1>11. \A w \in G : f[w] = Goes(e, q, f, w)
  <2>1. \A w \in G : w[1] <= n
    BY DEF Grid
  <2>. QED
    BY <1>8, <1>9, <2>1
<1>12. f = [w \in G |-> Goes(e, q, f, w)]
  BY <1>10, <1>11
<1>. QED
  BY <1>12 DEF Searches

LEMMA StartIs ==
  ASSUME NEW e \in Seq(Nat), NEW n \in Nat \ {0}, n = Len(e), NEW q
  PROVE  Start(e, q) \in 1..n
<1>1. PICK G : G = Grid(n)
  OBVIOUS
<1>2. PICK i : i = Max({1, (n - 1) \div 2})
  OBVIOUS
<1>3. i \in 1..n
  <2>1. {1, (n - 1) \div 2} \in SUBSET (0..n)
    OBVIOUS
  <2>2. PICK S : S = {1, (n - 1) \div 2}
    OBVIOUS
  <2>3. S \in SUBSET (0..n) /\ S # {} /\ 1 \in S
    BY <2>1, <2>2
  <2>4. Max(S) \in S /\ \A y \in S : y <= Max(S)
    BY <2>3, GreatestIs
  <2>. QED
    BY <1>2, <2>2, <2>3, <2>4
<1>4. <<i \div 2, i>> \in G
  <2>1. i \div 2 \in 0..n /\ 2 * (i \div 2) <= i
    BY <1>3
  <2>2. PICK s : s = i \div 2
    OBVIOUS
  <2>3. <<s, i>> \in (0..n) \X (1..n) /\ <<s, i>>[1] = s /\ <<s, i>>[2] = i
    BY <1>3, <2>1, <2>2
  <2>. QED
    BY <1>1, <2>1, <2>2, <2>3 DEF Grid
<1>. DEFINE Dom == {w \in (0..Len(e)) \X (1..Len(e)) : 2 * w[1] <= w[2]}
            Go(f) == [w \in Dom |->
                IF w[1] <= 1 \/ e[w[2]] = q THEN w[2]
                ELSE f[<<w[1] \div 2, IF e[w[2]] > q THEN w[2] - w[1]
                                      ELSE IF w[2] + w[1] <= Len(e) THEN w[2] + w[1] ELSE w[2]>>]]
<1>5. PICK u : u = CHOOSE f : f = Go(f)
  OBVIOUS
<1>6. Start(e, q) = u[<<i \div 2, i>>]
  BY <1>2, <1>5 DEF Start
<1>7. \A f : Go(f) = [w \in G |-> Goes(e, q, f, w)]
  <2>1. Dom = G
    BY <1>1 DEF Grid
  <2>. HIDE DEF Dom
  <2>. QED
    BY <2>1 DEF Goes, Halve
<1>8. \E f : f = Go(f)
  <2>1. PICK f : Searches(e, q, G, f)
    BY <1>1, SearchIs
  <2>2. f = [w \in G |-> Goes(e, q, f, w)]
    BY <2>1 DEF Searches
  <2>. HIDE DEF Go
  <2>. QED
    BY <1>7, <2>2
<1>9. u = [w \in G |-> Goes(e, q, u, w)]
  <2>. HIDE DEF Go
  <2>1. u = Go(u)
    BY <1>5, <1>8
  <2>. QED
    BY <1>7, <2>1
<1>. DEFINE Bad == {s \in 0..n : \E w \in G : w[1] = s /\ ~(u[w] \in 1..n)}
<1>10. Bad = {}
  <2>. SUFFICES ASSUME Bad # {} PROVE FALSE
    OBVIOUS
  <2>1. PICK s \in Bad : \A l \in Bad : s <= l
    <3>1. Bad \in SUBSET Nat
      OBVIOUS
    <3>. HIDE DEF Bad
    <3>. QED
      BY <3>1, NatMin
  <2>2. PICK w \in G : w[1] = s /\ ~(u[w] \in 1..n)
    BY <2>1
  <2>3. \A v \in G : v[1] < w[1] => u[v] \in 1..n
    <3>. SUFFICES ASSUME NEW v \in G, v[1] < w[1], ~(u[v] \in 1..n) PROVE FALSE
      OBVIOUS
    <3>1. v[1] \in 0..n
      BY <1>1 DEF Grid
    <3>2. v[1] \in Bad /\ s \in Nat
      BY <3>1
    <3>3. PICK t : t = v[1]
      OBVIOUS
    <3>. HIDE DEF Bad
    <3>4. s <= t /\ t < s /\ t \in 0..n /\ s \in Nat
      BY <2>1, <2>2, <3>1, <3>2, <3>3
    <3>. QED
      BY <3>4
  <2>4. Goes(e, q, u, w) \in 1..n
    BY <1>1, <2>3, GoesIn
  <2>. QED
    BY <1>9, <2>2, <2>4
<1>11. PICK w : w = <<i \div 2, i>>
  OBVIOUS
<1>12. w \in G /\ w[1] \in 0..n
  BY <1>1, <1>4, <1>11 DEF Grid
<1>13. u[w] \in 1..n
  BY <1>10, <1>12
<1>. QED
  BY <1>6, <1>11, <1>13

(* The search finds the first key that is not less than q.                 *)
NotLess(e, q, n) == {j \in 1..n : e[j] >= q}

LEMMA QFindIs ==
  ASSUME NEW e \in Seq(Nat), InOrder(e), NEW q \in Nat, NEW n \in Nat, n = Len(e),
         NEW js, js = NotLess(e, q, n)
  PROVE  QFind(e, q) = IF js = {} THEN 0 ELSE Min(js)
<1>. USE DEF NotLess
<1>1. CASE e = <<>>
  <2>1. n = 0 /\ js = {}
    BY <1>1
  <2>. QED
    BY <1>1, <2>1 DEF QFind
<1>2. CASE e # <<>>
  <2>1. n \in Nat \ {0} /\ js \in SUBSET Nat
    BY <1>2
  <2>2. PICK i : i = Start(e, q)
    OBVIOUS
  <2>3. i \in 1..n
    BY <2>1, <2>2, StartIs
  <2>4. \A j \in 1..n : e[j] \in Nat
    OBVIOUS
  <2>5. \A j, k \in 1..n : j < k => e[j] < e[k]
    BY OrderIs
  <2>6. PICK up, dn : up = {j \in i..Len(e) : e[j] >= q} /\ dn = {j \in 1..i : e[j] <= q}
    OBVIOUS
  <2>7. QFind(e, q) = IF e[i] = q THEN i
                      ELSE IF e[i] < q THEN IF up = {} THEN 0 ELSE Min(up)
                      ELSE IF dn = {} THEN 1
                      ELSE IF e[Max(dn)] = q THEN Max(dn) ELSE Max(dn) + 1
    BY <1>2, <2>2, <2>6 DEF QFind
  <2>8. ASSUME NEW x \in 1..n, e[x] >= q, \A j \in 1..n : j < x => e[j] < q
        PROVE  js # {} /\ Min(js) = x
    <3>1. x \in js
      BY <2>8
    <3>2. \A j \in js : x <= j
      <4>. SUFFICES ASSUME NEW j \in js, j < x PROVE FALSE
        BY <2>1
      <4>1. j \in 1..n /\ e[j] >= q /\ e[j] < q /\ e[j] \in Nat
        BY <2>4, <2>8
      <4>. QED
        BY <4>1
    <3>. QED
      BY <2>1, <3>1, <3>2, LeastIs
  <2>9. CASE e[i] = q
    <3>1. \A j \in 1..n : j < i => e[j] < q
      BY <2>3, <2>5, <2>9
    <3>2. e[i] >= q
      BY <2>9
    <3>. QED
      BY <2>3, <2>7, <2>8, <2>9, <3>1, <3>2
  <2>10. CASE e[i] < q
    <3>1. \A j \in 1..n : j <= i => e[j] < q
      BY <2>3, <2>4, <2>5, <2>10
    <3>2. up = js
      <4>1. ASSUME NEW j \in js PROVE j \in up
        <5>1. j \in 1..n /\ e[j] >= q /\ e[j] \in Nat
          BY <2>4
        <5>2. ~(j <= i)
          BY <3>1, <5>1
        <5>. QED
          BY <2>3, <2>6, <5>1, <5>2
      <4>2. up \subseteq js
        BY <2>3, <2>6
      <4>. QED
        BY <4>1, <4>2
    <3>3. e[i] # q
      BY <2>3, <2>4, <2>10
    <3>. QED
      BY <2>7, <2>10, <3>2, <3>3
  <2>11. CASE e[i] > q
    <3>1. QFind(e, q) = IF dn = {} THEN 1
                        ELSE IF e[Max(dn)] = q THEN Max(dn) ELSE Max(dn) + 1
      BY <2>3, <2>4, <2>7, <2>11
    <3>2. CASE dn = {}
      <4>1. 1 \in 1..n /\ 1 \in 1..i /\ 1 \notin dn
        BY <2>3, <3>2
      <4>2. e[1] >= q
        BY <2>4, <2>6, <4>1
      <4>3. PICK x : x = 1
        OBVIOUS
      <4>4. x \in 1..n /\ e[x] >= q /\ \A j \in 1..n : j < x => e[j] < q
        BY <4>1, <4>2, <4>3
      <4>. QED
        BY <2>8, <3>1, <3>2, <4>3, <4>4
    <3>3. CASE dn # {}
      <4>1. dn \in SUBSET (0..i) /\ i \in Nat
        BY <2>3, <2>6
      <4>2. PICK m : m = Max(dn)
        OBVIOUS
      <4>3. m \in dn /\ \A y \in dn : y <= m
        BY <3>3, <4>1, <4>2, GreatestIs
      <4>4. m \in 1..n /\ m \in 1..i /\ e[m] <= q /\ e[m] \in Nat
        BY <2>3, <2>4, <2>6, <4>3
      <4>5. CASE e[m] = q
        <5>1. \A j \in 1..n : j < m => e[j] < q
          BY <2>5, <4>4, <4>5
        <5>2. e[m] >= q
          BY <4>5
        <5>. QED
          BY <2>8, <3>1, <3>3, <4>2, <4>4, <4>5, <5>1, <5>2
      <4>6. CASE e[m] # q
        <5>1. PICK x : x = m + 1
          OBVIOUS
        <5>2. m # i
          BY <2>3, <2>4, <2>11, <4>4
        <5>3. x \in 1..n /\ x \in 1..i /\ x \notin dn
          BY <2>3, <4>3, <4>4, <5>1, <5>2
        <5>4. e[x] >= q
          BY <2>4, <2>6, <5>3
        <5>5. ASSUME NEW j \in 1..n, j < x PROVE e[j] < q
          <6>1. j = m \/ j < m
            BY <4>4, <5>1, <5>5
          <6>2. j < m => e[j] < e[m]
            BY <2>5, <4>4
          <6>. QED
            BY <2>4, <4>4, <4>6, <6>1, <6>2
        <5>6. js # {} /\ Min(js) = x
          BY <2>8, <5>3, <5>4, <5>5
        <5>. QED
          BY <3>1, <3>3, <4>2, <4>6, <5>1, <5>6
      <4>. QED
        BY <4>5, <4>6
    <3>. QED
      BY <3>2, <3>3
  <2>12. e[i] = q \/ e[i] < q \/ e[i] > q
    BY <2>3, <2>4
  <2>. QED
    BY <2>9, <2>10, <2>11, <2>12
<1>. QED
  BY <1>1, <1>2

LEMMA MapIsExact == MapInv => MapExact
<1>. SUFFICES ASSUME MapInv PROVE MapExact
  OBVIOUS
<1>1. PICK m, e, f : m = pm /\ e = m.k /\ f = m.v
  OBVIOUS
<1>2. /\ e \in Seq(Keys) /\ f \in Seq(Vals) /\ Tidy(m.hk, e) /\ Tidy(m.hv, f)
      /\ e \in Seq(Nat)
  <2>1. Seq(Keys) \subseteq Seq(Nat)
    BY KeysAre, SeqMonotonic
  <2>. QED
    BY <1>1, <2>1 DEF MapInv, Good, MapRecords
<1>3. Exact(m.hk, e, Keys)
  <2>1. PICK h, n, K : h = m.hk /\ Indexed(h, e, n) /\ K = Keys
    BY <1>2 DEF Tidy
  <2>2. Len(e) \in Nat /\ DOMAIN e = 1..Len(e) /\ K \in SUBSET DOMAIN HashOf
    BY <1>2, <2>1, KeysAre
  <2>3. Exact(h, e, K)
    BY <2>1, <2>2, ExactIs
  <2>. QED
    BY <2>1, <2>3
<1>4. Exact(m.hv, f, Vals)
  <2>1. PICK h, n, K : h = m.hv /\ Indexed(h, f, n) /\ K = Vals
    BY <1>2 DEF Tidy
  <2>2. Len(f) \in Nat /\ DOMAIN f = 1..Len(f) /\ K \in SUBSET DOMAIN HashOf
    BY <1>2, <2>1, KeysAre
  <2>3. Exact(h, f, K)
    BY <2>1, <2>2, ExactIs
  <2>. QED
    BY <2>1, <2>3
<1>5. ASSUME InOrder(e), NEW q \in {0} \cup Keys \cup {k + 1 : k \in Keys}
      PROVE  LET js == {j \in DOMAIN e : e[j] >= q} IN
             QFind(e, q) = IF js = {} THEN 0 ELSE Min(js)
  <2>1. q \in Nat
    <3>1. CASE q \in {0} \cup Keys
      BY <3>1, KeysAre
    <3>2. CASE q \in {k + 1 : k \in Keys}
      <4>1. PICK k \in Keys : q = k + 1
        BY <3>2
      <4>2. k \in Nat
        BY KeysAre
      <4>. QED
        BY <4>1, <4>2
    <3>. QED
      BY <3>1, <3>2
  <2>2. PICK n \in Nat : n = Len(e)
    BY <1>2
  <2>3. PICK js : js = NotLess(e, q, n)
    OBVIOUS
  <2>4. QFind(e, q) = IF js = {} THEN 0 ELSE Min(js)
    BY <1>2, <1>5, <2>1, <2>2, <2>3, QFindIs
  <2>5. DOMAIN e = 1..n
    BY <1>2, <2>2
  <2>. QED
    BY <2>3, <2>4, <2>5 DEF NotLess
<1>. QED
  BY <1>1, <1>3, <1>4, <1>5 DEF MapExact

LEMMA MapStep == MapInv /\ [MapNext]_pm => MapInv'
<1>. SUFFICES ASSUME MapInv, [MapNext]_pm PROVE MapInv'
  OBVIOUS
<1>1. ASSUME NEW p \in Pairs, MapPush(p[1], p[2]) PROVE MapInv'
  BY <1>1, MapPushStep
<1>2. ASSUME NEW k \in Keys, MapRemoveByKey(k) PROVE MapInv'
  BY <1>2, ByKey
<1>3. ASSUME NEW v \in Vals, MapRemove(v) PROVE MapInv'
  BY <1>3, ByValue
<1>4. ASSUME NEW F \in SUBSET Keys, MapRemoveByFilter(F) PROVE MapInv'
  BY <1>4, ByFilter
<1>5. CASE MapPop \/ MapSort \/ MapClear
  BY <1>5, Popped, Sorted, MapClearStep
<1>6. CASE UNCHANGED pm
  BY <1>6 DEF MapInv
<1>. QED
  BY <1>1, <1>2, <1>3, <1>4, <1>5, <1>6 DEF MapNext

(* Both indexes of the map stay those of its keys and of its values, none  *)
(* of which is there twice, through growth, the entry that a removal       *)
(* moves, the filter and the sort (ob_map.c).                              *)
THEOREM MapInvariant == MapSpec => []MapInv
<1>1. MapInit => MapInv
  BY MapStarts
<1>2. MapInv /\ [MapNext]_pm => MapInv'
  BY MapStep
<1>. QED
  BY <1>1, <1>2, PTL DEF MapSpec

LEMMA MapEffects ==
  MapInv =>
     [/\ \A k \in Keys : MapRemoveByKey(k) => Entries' = {p \in Entries : p[1] # k}
      /\ \A F \in SUBSET Keys : MapRemoveByFilter(F) => Entries' = {p \in Entries : p[1] \notin F}
      /\ MapSort => Entries' = Entries /\ InOrder(pm'.k)]_pm
<1>. SUFFICES ASSUME MapInv
     PROVE  /\ \A k \in Keys : MapRemoveByKey(k) => Entries' = {p \in Entries : p[1] # k}
            /\ \A F \in SUBSET Keys :
                 MapRemoveByFilter(F) => Entries' = {p \in Entries : p[1] \notin F}
            /\ MapSort => Entries' = Entries /\ InOrder(pm'.k)
  OBVIOUS
<1>1. Entries = EntriesOf(pm) /\ Entries' = EntriesOf(pm')
  BY DEF Entries, EntriesOf
<1>2. ASSUME NEW k \in Keys, MapRemoveByKey(k)
      PROVE  Entries' = {p \in Entries : p[1] # k}
  <2>1. EntriesOf(pm') = {p \in EntriesOf(pm) : p[1] # k}
    BY <1>2, ByKey
  <2>. QED
    BY <1>1, <2>1
<1>3. ASSUME NEW F \in SUBSET Keys, MapRemoveByFilter(F)
      PROVE  Entries' = {p \in Entries : p[1] \notin F}
  <2>1. EntriesOf(pm') = {p \in EntriesOf(pm) : p[1] \notin F}
    BY <1>3, ByFilter
  <2>. QED
    BY <1>1, <2>1
<1>4. ASSUME MapSort PROVE Entries' = Entries /\ InOrder(pm'.k)
  <2>1. EntriesOf(pm') = EntriesOf(pm) /\ InOrder(pm'.k)
    BY <1>4, Sorted
  <2>. QED
    BY <1>1, <2>1
<1>. QED
  BY <1>2, <1>3, <1>4

(***************************************************************************)
(* The structures next to each other.                                      *)
(***************************************************************************)
(* Each structure of the object manager takes its own steps only.          *)
LEMMA Each == ManagerSpec => Spec /\ SetSpec /\ MapSpec /\ CacheSpec /\ QueueSpec
<1>. DEFINE all == <<structure, vars, setVars, pm, cacheVars, queueVars>>
<1>1. ManagerInit => Init /\ SetInit /\ MapInit /\ CacheInit /\ QueueInit
  BY DEF ManagerInit
<1>2. [ManagerNext]_all => /\ [Next]_vars /\ [SetNext]_setVars /\ [MapNext]_pm
                           /\ [CacheNext]_cacheVars /\ [QueueNext]_queueVars
  BY DEF ManagerNext
<1>. HIDE DEF all
<1>3. ManagerSpec => ManagerInit /\ [][ManagerNext]_all
  BY DEF ManagerSpec, all
<1>. QED
  BY <1>1, <1>2, <1>3, PTL DEF Spec, SetSpec, MapSpec, CacheSpec, QueueSpec

(* Lookups in the set and in the map find exactly what is there, and the   *)
(* search of a sorted map the first key that is not less (ob_set.c and     *)
(* ob_map.c, in their hash indexes and in _ObMap_QFind).                   *)
THEOREM Lookups == ManagerSpec => []TablesExact
<1>1. SetInv /\ MapInv => TablesExact
  BY SetIsExact, MapIsExact DEF TablesExact
<1>. QED
  BY <1>1, Each, SetInvariant, MapInvariant, PTL

(* A removal by key or by a filter and a sort change the entries of the    *)
(* map as they should, and nothing else of it (ob_map.c).                  *)
THEOREM Effects == MapSpec => MapStepsExact
<1>1. MapSpec => []MapInv
  BY MapInvariant
<1>2. MapInv => [/\ \A k \in Keys : MapRemoveByKey(k) => Entries' = {p \in Entries : p[1] # k}
                 /\ \A F \in SUBSET Keys :
                      MapRemoveByFilter(F) => Entries' = {p \in Entries : p[1] \notin F}
                 /\ MapSort => Entries' = Entries /\ InOrder(pm'.k)]_pm
  BY MapEffects
<1>. QED
  BY <1>1, <1>2, PTL DEF MapStepsExact
=============================================================================
