--------------------------- MODULE VmmHandle_proofs ---------------------------
(***************************************************************************)
(* API calls only reach handles that live, a handle is torn down by one    *)
(* thread, a parent outlives its children and no handle is lost: for any   *)
(* number of users, any handles and any relation of parents to children.   *)
(***************************************************************************)
EXTENDS VmmHandle, FiniteSetTheorems, TLAPS

Creating(t) == pc[t] \in {"initAdd", "initSub", "initAttach", "initNotify", "initDone", "initFail"}
Locking(t)  == Creating(t) /\ pc[t] # "initAdd"
Calling(t)  == pc[t] \in {"in", "dup"}
Inside(h)   == {t \in Users : Calling(t) /\ H[t] = h}

Slots == 0..(MaxCount - 1)

(* The types of the list and of where the threads are.                     *)
ListTyped    == slots \in [Slots -> Handles \cup {None}] /\ count \in 0..MaxCount
ThreadsTyped == pc \in [Threads -> Pc] /\ H \in [Threads -> Handles \cup {None}]

(* The list is compact and has no handle twice.                            *)
ListCompact ==
    /\ \A i \in Slots : slots[i] # None <=> i < count
    /\ \A i, j \in 0..(count - 1) : slots[i] = slots[j] => i = j

Listing == \A h \in Handles : Listed(h) => mem[h] = "alloc" /\ dwHandleCount[h] > 0

(* Who is where, and with which handle.  The unit that closes a child was  *)
(* queued by the close of its parent, which happens once.                  *)
Placed ==
    /\ \A t \in Threads : Locking(t) <=> coreLock = t
    /\ \A t \in Threads : pc[t] \notin {"idle", "closeAll"} => H[t] \in Handles
    /\ \A t \in Users : pc[t] # "queued"
    /\ \A k \in Handles : pc[k] # "idle" =>
         /\ pc[k] \in {"queued", "close"} \/ Tearing(k)
         /\ H[k] = k /\ Parent[k] # None /\ childAbort[Parent[k]]

(* A handle that is created is nobody else's business.                     *)
Created ==
    \A t \in Threads : Creating(t) =>
        /\ mem[H[t]] = "alloc"
        /\ pc[t] = "initAdd" => ~Listed(H[t]) /\ dwHandleCount[H[t]] > 0
        /\ \A u \in Threads \ {t} : Creating(u) \/ Tearing(u) => H[u] # H[t]

(* A close has what it waited for, and nothing brings it back.             *)
Waited ==
    \A t \in Threads :
        /\ pc[t] \in {"abort", "waitExt", "waitInt", "detach", "notify", "free"} =>
             children[H[t]] = {}
        /\ pc[t] \in {"waitInt", "detach", "notify", "free"} =>
             \A u \in Users : Calling(u) => H[u] # H[t]
        /\ pc[t] \in {"notify", "free"} => hParent[H[t]] = None

(* The two directions of the relation between parent and child agree.      *)
Family ==
    \A h \in Handles :
        /\ \A q \in Handles : h \in children[q] <=> hParent[h] = q
        /\ hParent[h] # None =>
             hParent[h] = Parent[h] /\ mem[h] = "alloc" /\ mem[Parent[h]] = "alloc"

IInv ==
    /\ TypeOK /\ ListCompact /\ Listing /\ Placed /\ Created /\ Waited /\ Family
    /\ CallsOnLiveHandle /\ TornDownOnce

(* With room for all handles in the list, a handle that is allocated is    *)
(* listed, about to be listed, or being torn down; and a listed one has    *)
(* not been given up.                                                      *)
Kept ==
    /\ \A h \in Handles : mem[h] = "alloc" =>
         Listed(h) \/ \E t \in Threads : H[t] = h /\ (pc[t] = "initAdd" \/ Tearing(t))
    /\ \A h \in Handles : Listed(h) \/ mem[h] = "none" => ~fAbort[h]
    /\ \A t \in Threads : pc[t] = "initAdd" => ~fAbort[H[t]]

(***************************************************************************)
(* The allow-list.                                                         *)
(***************************************************************************)
LEMMA ListAdd ==
  ASSUME TypeOK, ListCompact, NEW h \in Handles, ~Listed(h), count < MaxCount,
         slots' = [slots EXCEPT ![count] = h], count' = count + 1
  PROVE  /\ ListCompact' /\ Allowed' = Allowed \cup {h}
         /\ slots' \in [Slots -> Handles \cup {None}] /\ count' \in 0..MaxCount
<1>1. MaxCount \in Nat /\ count \in Nat /\ None \notin Handles
  BY BoundAssumption, SetsAssumption DEF BoundAssumption, SetsAssumption, Threads, TypeOK
<1>. USE <1>1 DEF TypeOK, Slots
<1>2. /\ count \in Slots /\ count' \in 0..MaxCount /\ slots' \in [Slots -> Handles \cup {None}]
      /\ slots'[count] = h /\ \A i \in Slots : i # count => slots'[i] = slots[i]
  OBVIOUS
<1>3. /\ 0..(count' - 1) = (0..(count - 1)) \cup {count}
      /\ count \notin 0..(count - 1) /\ 0..(count - 1) \subseteq Slots
  OBVIOUS
<1>4. Allowed' = Allowed \cup {h}
  BY <1>2, <1>3 DEF Allowed
<1>5. ListCompact'
  BY <1>2, <1>3 DEF ListCompact, Listed, Allowed
<1>. QED
  BY <1>2, <1>4, <1>5

LEMMA ListRemove ==
  ASSUME TypeOK, ListCompact, NEW h \in Handles, Listed(h), Remove(h)
  PROVE  /\ ListCompact' /\ Allowed' = Allowed \ {h}
         /\ slots' \in [Slots -> Handles \cup {None}] /\ count' \in 0..MaxCount
<1>1. MaxCount \in Nat /\ count \in Nat /\ None \notin Handles
  BY BoundAssumption, SetsAssumption DEF BoundAssumption, SetsAssumption, Threads, TypeOK
<1>. USE <1>1 DEF TypeOK, Slots
<1>. DEFINE i == CHOOSE j \in 0..(count - 1) : slots[j] = h
            l == count - 1
<1>2. i \in 0..l /\ slots[i] = h
  BY DEF Listed, Allowed
<1>3. count' = l /\ slots' = [slots EXCEPT ![i] = slots[l], ![l] = None]
  BY DEF Remove
<1>. HIDE DEF i
<1>4. l \in Nat /\ l \in Slots /\ i \in Slots /\ l < MaxCount
  BY <1>2
<1>5. \A j \in Slots : /\ j < count' <=> j < l
                       /\ j < count <=> j < l \/ j = l
                       /\ j \in 0..l <=> j < l \/ j = l
                       /\ j \in 0..(count' - 1) <=> j < l
  BY <1>3, <1>4
<1>6. 0..l \subseteq Slots /\ 0..(count' - 1) \subseteq Slots
  BY <1>3, <1>4
<1>7. /\ slots' \in [Slots -> Handles \cup {None}] /\ slots'[l] = None
      /\ i # l => slots'[i] = slots[l]
      /\ \A j \in Slots : j # i /\ j # l => slots'[j] = slots[j]
  BY <1>3, <1>4
<1>. HIDE DEF l, TypeOK, Slots
<1>8. Allowed = {slots[j] : j \in 0..l} /\ Allowed' = {slots'[j] : j \in 0..(count' - 1)}
  BY DEF Allowed, l
<1>9. \A j \in 0..l : slots[j] = h => j = i
  BY <1>2 DEF ListCompact, l
<1>10. Allowed' = Allowed \ {h}
  <2>1. \A x \in Allowed' : x \in Allowed /\ x # h
    <3>. SUFFICES ASSUME NEW j \in 0..(count' - 1) PROVE slots'[j] \in Allowed /\ slots'[j] # h
      BY <1>8
    <3>1. j \in Slots /\ j < l /\ j \in 0..l /\ j # l
      BY <1>4, <1>5, <1>6
    <3>2. CASE j = i
      BY <1>7, <1>8, <1>9, <3>1, <3>2, <1>2, <1>5, <1>4
    <3>3. CASE j # i
      BY <1>7, <1>8, <1>9, <3>1, <3>3
    <3>. QED
      BY <3>2, <3>3
  <2>2. \A x \in Allowed : x # h => x \in Allowed'
    <3>. SUFFICES ASSUME NEW j \in 0..l, slots[j] # h PROVE slots[j] \in Allowed'
      BY <1>8
    <3>1. j \in Slots /\ j # i /\ (j < l \/ j = l)
      BY <1>2, <1>5, <1>6
    <3>2. CASE j < l
      BY <1>4, <1>5, <1>7, <1>8, <3>1, <3>2
    <3>3. CASE j = l
      BY <1>2, <1>4, <1>5, <1>7, <1>8, <3>1, <3>3
    <3>. QED
      BY <3>1, <3>2, <3>3
  <2>. QED
    BY <2>1, <2>2
<1>11. ListCompact'
  <2>1. \A j \in Slots : slots'[j] # None <=> j < count'
    <3>. SUFFICES ASSUME NEW j \in Slots PROVE slots'[j] # None <=> j < count'
      OBVIOUS
    <3>1. \A k \in Slots : slots[k] # None <=> k < l \/ k = l
      BY <1>5 DEF ListCompact
    <3>2. i < l \/ i = l
      BY <1>2, <1>4, <1>5
    <3>3. ~(l < l)
      BY <1>4
    <3>. QED
      BY <1>4, <1>5, <1>7, <3>1, <3>2, <3>3
  <2>2. \A j, k \in 0..(count' - 1) : slots'[j] = slots'[k] => j = k
    <3>. SUFFICES ASSUME NEW j \in 0..(count' - 1), NEW k \in 0..(count' - 1), slots'[j] = slots'[k]
                  PROVE  j = k
      OBVIOUS
    <3>1. /\ j \in Slots /\ k \in Slots /\ j \in 0..l /\ k \in 0..l /\ j # l /\ k # l
          /\ l \in 0..l
      BY <1>4, <1>5, <1>6
    <3>2. \A x, y \in 0..l : slots[x] = slots[y] => x = y
      BY DEF ListCompact, l
    <3>. QED
      BY <1>7, <3>1, <3>2
  <2>. QED
    BY <2>1, <2>2 DEF ListCompact
<1>12. count' \in 0..MaxCount
  BY <1>3, <1>4
<1>. QED
  BY <1>7, <1>10, <1>11, <1>12

(***************************************************************************)
(* A step of a thread.                                                     *)
(***************************************************************************)
Step(t) ==
    \/ t \in Users /\ (UserBegins(t) \/ UserGoesOn(t))
    \/ t \in Handles /\ UnitGoesOn(t)

(* Where a close ends, the thread has no handle.                           *)
LEMMA CloseReturns ==
  ASSUME NEW t \in Threads, NEW from, CloseReturn(t, from)
  PROVE  /\ pc[t] = from /\ H' = [H EXCEPT ![t] = None]
         /\ pc' = [pc EXCEPT ![t] = "idle"] \/ (t \in Users /\ pc' = [pc EXCEPT ![t] = "closeAll"])
<1>1. CASE t \in Users /\ force[t]
  BY <1>1 DEF CloseReturn, Goto
<1>2. CASE ~(t \in Users /\ force[t])
  <2>1. Finish(t, from)
    BY <1>2, Zenon DEF CloseReturn
  <2>. QED
    BY <2>1 DEF Finish, Goto
<1>. QED
  BY <1>1, <1>2

LEMMA StepPlaced ==
  ASSUME IInv, NEW t \in Threads, Step(t)
  PROVE  (Placed /\ ThreadsTyped)'
<1>0. /\ Placed /\ pc \in [Threads -> Pc] /\ H \in [Threads -> Handles \cup {None}]
      /\ slots \in [0..(MaxCount - 1) -> Handles \cup {None}] /\ childAbort \in [Handles -> BOOLEAN]
      /\ None \notin Threads /\ Users \cap Handles = {} /\ Threads = Users \cup Handles
  BY SetsAssumption DEF SetsAssumption, Threads, IInv, TypeOK
<1>. USE <1>0
    DEF Placed, ThreadsTyped, Pc, Creating, Locking, Tearing, Goto, listVars, handleVars,
        childVars
<1>1. ASSUME t \in Users, NEW h \in Handles, CallReserve(t, h) PROVE (Placed /\ ThreadsTyped)'
  BY <1>1 DEF CallReserve, Reserve, Reservable
<1>2. ASSUME t \in Users, NEW h \in Handles, DuplicateReserve(t, h) PROVE (Placed /\ ThreadsTyped)'
  BY <1>2 DEF DuplicateReserve, Reserve, Reservable
<1>3. ASSUME t \in Users, NEW h \in Handles, InitAlloc(t, h) PROVE (Placed /\ ThreadsTyped)'
  BY <1>3 DEF InitAlloc, Reservable
<1>4. ASSUME t \in Users, NEW h \in Handles, UserClose(t, h) PROVE (Placed /\ ThreadsTyped)'
  BY <1>4 DEF UserClose
<1>5. CASE t \in Users /\ CloseAllStart(t)
  BY <1>5 DEF CloseAllStart
<1>6. CASE t \in Users /\ CallReturn(t)
  BY <1>6 DEF CallReturn, Finish
<1>7. CASE t \in Users /\ DuplicateReturn(t)
  BY <1>7 DEF DuplicateReturn, Finish
<1>8. CASE t \in Users /\ InitAdd(t)
  <2>1. CASE count < MaxCount
    BY <1>8, <2>1 DEF InitAdd
  <2>2. CASE ~(count < MaxCount)
    BY <1>8, <2>2 DEF InitAdd
  <2>. QED
    BY <2>1, <2>2
<1>9. CASE t \in Users /\ InitSubsystems(t)
  <2>1. CASE Goto(t, "initSub", "initDone")
    BY <1>9, <2>1 DEF InitSubsystems
  <2>2. CASE Goto(t, "initSub", "initAttach")
    BY <1>9, <2>2 DEF InitSubsystems
  <2>3. CASE Goto(t, "initSub", "initFail")
    BY <1>9, <2>3 DEF InitSubsystems
  <2>. QED
    BY <1>9, <2>1, <2>2, <2>3 DEF InitSubsystems
<1>10. CASE t \in Users /\ InitAttach(t)
  BY <1>10 DEF InitAttach, CanAttach, Reservable
<1>11. CASE t \in Users /\ InitAttachFail(t)
  BY <1>11 DEF InitAttachFail
<1>12. CASE t \in Users /\ InitNotify(t)
  <2>1. CASE Goto(t, "initNotify", "initDone")
    BY <1>12, <2>1 DEF InitNotify
  <2>2. CASE Goto(t, "initNotify", "initFail")
    BY <1>12, <2>2 DEF InitNotify
  <2>. QED
    BY <1>12, <2>1, <2>2 DEF InitNotify
<1>13. CASE t \in Users /\ InitDone(t)
  BY <1>13 DEF InitDone, Finish
<1>14. CASE t \in Users /\ InitFail(t)
  BY <1>14 DEF InitFail
<1>15. CASE t \in Users /\ CloseAllNext(t)
  <2>0. 0 \in 0..(MaxCount - 1)
    BY BoundAssumption DEF BoundAssumption
  <2>1. CASE slots[0] = None
    BY <1>15, <2>1 DEF CloseAllNext, Finish
  <2>2. CASE slots[0] # None
    BY <1>15, <2>0, <2>2 DEF CloseAllNext
  <2>. QED
    BY <2>1, <2>2
<1>16. CASE CloseHead(t)
  <2>1. CASE CloseReturn(t, "close")
    BY <1>16, <2>1, CloseReturns DEF CloseHead
  <2>2. CASE Goto(t, "close", "closeKids") /\ UNCHANGED <<coreLock, H>>
    BY <1>16, <2>2 DEF CloseHead
  <2>. QED
    BY <1>16, <2>1, <2>2 DEF CloseHead
<1>17. CASE CloseKids(t)
  <2>1. H[t] \in Handles
    BY <1>17 DEF CloseKids
  <2>2. \A k \in children[H[t]] : k \in Handles /\ Parent[k] = H[t]
    BY <2>1 DEF IInv, TypeOK, Family
  <2>. QED
    BY <1>17, <2>1, <2>2 DEF CloseKids
<1>18. CASE WaitKids(t)
  BY <1>18 DEF WaitKids
<1>19. CASE CloseAbort(t)
  BY <1>19 DEF CloseAbort
<1>20. CASE WaitExternal(t)
  BY <1>20 DEF WaitExternal
<1>21. CASE WaitInternal(t)
  BY <1>21 DEF WaitInternal
<1>22. CASE Detach(t)
  BY <1>22 DEF Detach
<1>23. CASE DetachNotify(t)
  BY <1>23 DEF DetachNotify
<1>24. CASE Free(t)
  BY <1>24, CloseReturns DEF Free
<1>25. CASE t \in Handles /\ UnitStart(t)
  BY <1>25 DEF UnitStart
<1>. QED
  BY <1>1, <1>2, <1>3, <1>4, <1>5, <1>6, <1>7, <1>8, <1>9, <1>10, <1>11, <1>12, <1>13, <1>14,
     <1>15, <1>16, <1>17, <1>18, <1>19, <1>20, <1>21, <1>22, <1>23, <1>24, <1>25
  DEF Step, UserBegins, UserGoesOn, UnitGoesOn, Closing, Initializing

(***************************************************************************)
(* The list in a step: a handle is added by its creator, removed by the    *)
(* thread that starts to tear it down, and else nothing changes.           *)
(***************************************************************************)
Adds(t)    == /\ InitAdd(t) /\ pc[t] = "initAdd" /\ ~Listed(H[t]) /\ count < MaxCount
              /\ Allowed' = Allowed \cup {H[t]}
Removes(t) == Reservable(H[t]) /\ Goto(t, "close", "closeKids") /\ Allowed' = Allowed \ {H[t]}

LEMMA ListSame ==
  ASSUME UNCHANGED <<slots, count>>, ListCompact, ListTyped
  PROVE  (ListCompact /\ ListTyped)' /\ Allowed' = Allowed
  BY DEF ListCompact, ListTyped, Allowed

LEMMA AllowedHandles ==
  ASSUME ListCompact, ListTyped
  PROVE  Allowed \subseteq Handles
<1>. SUFFICES ASSUME NEW i \in 0..(count - 1) PROVE slots[i] \in Handles
  BY DEF Allowed
<1>1. i \in Slots /\ i < count
  BY BoundAssumption DEF BoundAssumption, ListTyped, Slots
<1>. QED
  BY <1>1 DEF ListCompact, ListTyped

LEMMA StepList ==
  ASSUME IInv, NEW t \in Threads, Step(t)
  PROVE  (ListCompact /\ ListTyped)' /\ (Allowed' = Allowed \/ Adds(t) \/ Removes(t))
<1>0. ListCompact /\ ListTyped
  BY DEF IInv, TypeOK, ListTyped, Slots
<1>. USE <1>0, ListSame DEF listVars
<1>1. ASSUME t \in Users, NEW h \in Handles, CallReserve(t, h)
      PROVE  (ListCompact /\ ListTyped)' /\ (Allowed' = Allowed \/ Adds(t) \/ Removes(t))
  BY <1>1 DEF CallReserve, Reserve
<1>2. ASSUME t \in Users, NEW h \in Handles, DuplicateReserve(t, h)
      PROVE  (ListCompact /\ ListTyped)' /\ (Allowed' = Allowed \/ Adds(t) \/ Removes(t))
  BY <1>2 DEF DuplicateReserve, Reserve
<1>3. ASSUME t \in Users, NEW h \in Handles, InitAlloc(t, h)
      PROVE  (ListCompact /\ ListTyped)' /\ (Allowed' = Allowed \/ Adds(t) \/ Removes(t))
  BY <1>3 DEF InitAlloc
<1>4. ASSUME t \in Users, NEW h \in Handles, UserClose(t, h)
      PROVE  (ListCompact /\ ListTyped)' /\ (Allowed' = Allowed \/ Adds(t) \/ Removes(t))
  BY <1>4 DEF UserClose
<1>5. CASE t \in Users /\ CloseAllStart(t)
  BY <1>5 DEF CloseAllStart
<1>6. CASE t \in Users /\ CallReturn(t)
  BY <1>6 DEF CallReturn
<1>7. CASE t \in Users /\ DuplicateReturn(t)
  BY <1>7 DEF DuplicateReturn
<1>8. CASE t \in Users /\ InitAdd(t)
  <2>1. pc[t] = "initAdd"
    BY <1>8 DEF InitAdd, Goto
  <2>2. H[t] \in Handles /\ ~Listed(H[t])
    BY <2>1 DEF IInv, Placed, Created, Creating
  <2>3. CASE count < MaxCount
    <3>1. slots' = [slots EXCEPT ![count] = H[t]] /\ count' = count + 1
      BY <1>8, <2>3 DEF InitAdd
    <3>. QED
      BY <1>8, <2>1, <2>2, <2>3, <3>1, ListAdd DEF IInv, Adds, ListTyped
  <2>4. CASE ~(count < MaxCount)
    BY <1>8, <2>4 DEF InitAdd
  <2>. QED
    BY <2>3, <2>4
<1>9. CASE t \in Users /\ InitSubsystems(t)
  BY <1>9 DEF InitSubsystems
<1>10. CASE t \in Users /\ InitAttach(t)
  BY <1>10 DEF InitAttach
<1>11. CASE t \in Users /\ InitAttachFail(t)
  BY <1>11 DEF InitAttachFail
<1>12. CASE t \in Users /\ InitNotify(t)
  BY <1>12 DEF InitNotify
<1>13. CASE t \in Users /\ InitDone(t)
  BY <1>13 DEF InitDone
<1>14. CASE t \in Users /\ InitFail(t)
  BY <1>14 DEF InitFail
<1>15. CASE t \in Users /\ CloseAllNext(t)
  BY <1>15 DEF CloseAllNext
<1>16. CASE CloseHead(t)
  <2>1. CASE UNCHANGED listVars
    BY <2>1
  <2>2. CASE Reservable(H[t]) /\ Remove(H[t]) /\ Goto(t, "close", "closeKids")
    <3>1. Listed(H[t]) /\ H[t] \in Handles
      BY <2>2, AllowedHandles DEF Reservable, Listed
    <3>. QED
      BY <2>2, <3>1, ListRemove DEF IInv, Removes, ListTyped
  <2>. QED
    BY <1>16, <2>1, <2>2 DEF CloseHead
<1>17. CASE CloseKids(t)
  BY <1>17 DEF CloseKids
<1>18. CASE WaitKids(t)
  BY <1>18 DEF WaitKids
<1>19. CASE CloseAbort(t)
  BY <1>19 DEF CloseAbort
<1>20. CASE WaitExternal(t)
  BY <1>20 DEF WaitExternal
<1>21. CASE WaitInternal(t)
  BY <1>21 DEF WaitInternal
<1>22. CASE Detach(t)
  BY <1>22 DEF Detach
<1>23. CASE DetachNotify(t)
  BY <1>23 DEF DetachNotify
<1>24. CASE Free(t)
  BY <1>24 DEF Free
<1>25. CASE t \in Handles /\ UnitStart(t)
  BY <1>25 DEF UnitStart
<1>. QED
  BY <1>1, <1>2, <1>3, <1>4, <1>5, <1>6, <1>7, <1>8, <1>9, <1>10, <1>11, <1>12, <1>13, <1>14,
     <1>15, <1>16, <1>17, <1>18, <1>19, <1>20, <1>21, <1>22, <1>23, <1>24, <1>25
  DEF Step, UserBegins, UserGoesOn, UnitGoesOn, Closing, Initializing

(***************************************************************************)
(* Creation and teardown have the handle to themselves.                    *)
(***************************************************************************)
LEMMA StepAlone ==
  ASSUME IInv, NEW t \in Threads, Step(t)
  PROVE  (Listing /\ Created /\ TornDownOnce)'
<1>0. /\ Placed /\ pc \in [Threads -> Pc] /\ H \in [Threads -> Handles \cup {None}]
      /\ mem \in [Handles -> {"none", "alloc", "freed"}] /\ dwHandleCount \in [Handles -> Nat]
      /\ None \notin Threads /\ Threads = Users \cup Handles
      /\ Listing /\ Created /\ TornDownOnce /\ Allowed \subseteq Handles
  BY SetsAssumption, AllowedHandles DEF SetsAssumption, Threads, IInv, TypeOK, ListTyped, Slots
<1>00. UNCHANGED <<slots, count>> => Allowed' = Allowed
  BY ListSame DEF IInv, TypeOK, ListTyped, Slots
<1>. USE <1>0, <1>00
    DEF Placed, Pc, Creating, Locking, Tearing, Goto, Listed, Listing, Created, TornDownOnce,
        listVars, handleVars, childVars
<1>1. ASSUME t \in Users, NEW h \in Handles, CallReserve(t, h)
      PROVE  (Listing /\ Created /\ TornDownOnce)'
  BY <1>1 DEF CallReserve, Reserve, Reservable
<1>2. ASSUME t \in Users, NEW h \in Handles, DuplicateReserve(t, h)
      PROVE  (Listing /\ Created /\ TornDownOnce)'
  BY <1>2 DEF DuplicateReserve, Reserve, Reservable
<1>3. ASSUME t \in Users, NEW h \in Handles, InitAlloc(t, h)
      PROVE  (Listing /\ Created /\ TornDownOnce)'
  BY <1>3 DEF InitAlloc, Reservable
<1>4. ASSUME t \in Users, NEW h \in Handles, UserClose(t, h)
      PROVE  (Listing /\ Created /\ TornDownOnce)'
  BY <1>4 DEF UserClose
<1>5. CASE t \in Users /\ CloseAllStart(t)
  BY <1>5 DEF CloseAllStart
<1>6. CASE t \in Users /\ CallReturn(t)
  BY <1>6 DEF CallReturn, Finish
<1>7. CASE t \in Users /\ DuplicateReturn(t)
  BY <1>7 DEF DuplicateReturn, Finish
<1>8. CASE t \in Users /\ InitAdd(t)
  <2>1. CASE Allowed' = Allowed /\ pc' = [pc EXCEPT ![t] = "initFail"]
    BY <1>8, <2>1 DEF InitAdd
  <2>2. CASE Allowed' = Allowed \cup {H[t]} /\ pc' = [pc EXCEPT ![t] = "initSub"]
    BY <1>8, <2>2 DEF InitAdd
  <2>. QED
    BY <1>8, <2>1, <2>2, StepList DEF InitAdd, Adds, Removes
<1>9. CASE t \in Users /\ InitSubsystems(t)
  <2>1. CASE Goto(t, "initSub", "initDone")
    BY <1>9, <2>1 DEF InitSubsystems
  <2>2. CASE Goto(t, "initSub", "initAttach")
    BY <1>9, <2>2 DEF InitSubsystems
  <2>3. CASE Goto(t, "initSub", "initFail")
    BY <1>9, <2>3 DEF InitSubsystems
  <2>. QED
    BY <1>9, <2>1, <2>2, <2>3 DEF InitSubsystems
<1>10. CASE t \in Users /\ InitAttach(t)
  BY <1>10 DEF InitAttach, CanAttach, Reservable
<1>11. CASE t \in Users /\ InitAttachFail(t)
  BY <1>11 DEF InitAttachFail
<1>12. CASE t \in Users /\ InitNotify(t)
  <2>1. CASE Goto(t, "initNotify", "initDone")
    BY <1>12, <2>1 DEF InitNotify
  <2>2. CASE Goto(t, "initNotify", "initFail")
    BY <1>12, <2>2 DEF InitNotify
  <2>. QED
    BY <1>12, <2>1, <2>2 DEF InitNotify
<1>13. CASE t \in Users /\ InitDone(t)
  BY <1>13 DEF InitDone, Finish
<1>14. CASE t \in Users /\ InitFail(t)
  BY <1>14 DEF InitFail
<1>15. CASE t \in Users /\ CloseAllNext(t)
  <2>1. CASE Finish(t, "closeAll")
    BY <1>15, <2>1 DEF CloseAllNext, Finish
  <2>2. CASE Goto(t, "closeAll", "close") /\ H' = [H EXCEPT ![t] = slots[0]]
    BY <1>15, <2>2 DEF CloseAllNext
  <2>. QED
    BY <1>15, <2>1, <2>2 DEF CloseAllNext
<1>16. CASE CloseHead(t)
  <2>1. CASE CloseReturn(t, "close") /\ UNCHANGED listVars
    BY <1>16, <2>1, CloseReturns DEF CloseHead, Reservable
  <2>2. CASE /\ Reservable(H[t]) /\ Remove(H[t])
             /\ Goto(t, "close", "closeKids") /\ UNCHANGED <<coreLock, H>>
             /\ dwHandleCount' = [dwHandleCount EXCEPT ![H[t]] = 0]
    <3>1. Listed(H[t]) /\ Allowed' = Allowed \ {H[t]}
      BY <2>2, ListRemove DEF Reservable, IInv
    <3>. QED
      BY <1>16, <2>2, <3>1 DEF CloseHead
  <2>. QED
    BY <1>16, <2>1, <2>2 DEF CloseHead
<1>17. CASE CloseKids(t)
  <2>1. H[t] \in Handles
    BY <1>17 DEF CloseKids
  <2>2. \A k \in children[H[t]] : k \in Handles /\ k \notin Users
    BY <2>1, SetsAssumption DEF IInv, TypeOK, SetsAssumption
  <2>3. \A u \in Threads : u # t /\ (Creating(u) \/ Tearing(u))' => H'[u] = H[u] /\ pc'[u] = pc[u]
    BY <1>17, <2>2 DEF CloseKids
  <2>4. H'[t] = H[t] /\ pc'[t] = "waitKids"
    BY <1>17, <2>2 DEF CloseKids
  <2>. QED
    BY <1>17, <2>1, <2>3, <2>4 DEF CloseKids
<1>18. CASE WaitKids(t)
  BY <1>18 DEF WaitKids
<1>19. CASE CloseAbort(t)
  BY <1>19 DEF CloseAbort
<1>20. CASE WaitExternal(t)
  BY <1>20 DEF WaitExternal
<1>21. CASE WaitInternal(t)
  BY <1>21 DEF WaitInternal
<1>22. CASE Detach(t)
  <2>1. CASE Goto(t, "detach", "free")
    BY <1>22, <2>1 DEF Detach
  <2>2. CASE Goto(t, "detach", "notify")
    BY <1>22, <2>2 DEF Detach
  <2>. QED
    BY <1>22, <2>1, <2>2 DEF Detach
<1>23. CASE DetachNotify(t)
  BY <1>23 DEF DetachNotify
<1>24. CASE Free(t)
  BY <1>24, CloseReturns DEF Free
<1>25. CASE t \in Handles /\ UnitStart(t)
  BY <1>25 DEF UnitStart
<1>. QED
  BY <1>1, <1>2, <1>3, <1>4, <1>5, <1>6, <1>7, <1>8, <1>9, <1>10, <1>11, <1>12, <1>13, <1>14,
     <1>15, <1>16, <1>17, <1>18, <1>19, <1>20, <1>21, <1>22, <1>23, <1>24, <1>25
  DEF Step, UserBegins, UserGoesOn, UnitGoesOn, Closing, Initializing

(***************************************************************************)
(* Parents, children and calls.                                            *)
(***************************************************************************)
LEMMA InsideFinite ==
  ASSUME NEW h \in Handles
  PROVE  IsFiniteSet(Inside(h))
  BY SetsAssumption, FS_Subset DEF SetsAssumption, Inside

(* CallsOnLiveHandle, handle by handle.                                    *)
CountsAt(h) == /\ cThreadExternal[h] = Cardinality(Inside(h))
               /\ Inside(h) # {} => mem[h] = "alloc"

LEMMA Counts ==
  CallsOnLiveHandle <=> \A h \in Handles : CountsAt(h)
  BY DEF CallsOnLiveHandle, CountsAt, Inside, Calling

LEMMA NobodyInside ==
  ASSUME CallsOnLiveHandle, NEW h \in Handles, cThreadExternal[h] = 0
  PROVE  \A u \in Users : Calling(u) => H[u] # h
<1>1. Inside(h) = {}
  BY InsideFinite, Counts, FS_EmptySet DEF CountsAt
<1>. QED
  BY <1>1 DEF Inside

LEMMA StepFamily ==
  ASSUME IInv, NEW t \in Threads, Step(t)
  PROVE  (Waited /\ Family)'
<1>0. /\ Placed /\ pc \in [Threads -> Pc] /\ H \in [Threads -> Handles \cup {None}]
      /\ mem \in [Handles -> {"none", "alloc", "freed"}]
      /\ children \in [Handles -> SUBSET Handles] /\ hParent \in [Handles -> Handles \cup {None}]
      /\ None \notin Threads /\ None \notin Handles
      /\ Threads = Users \cup Handles /\ Users \cap Handles = {}
      /\ Listing /\ Created /\ TornDownOnce /\ Waited /\ Family /\ Allowed \subseteq Handles
  BY SetsAssumption, AllowedHandles DEF SetsAssumption, Threads, IInv, TypeOK, ListTyped, Slots
<1>. USE <1>0
    DEF Placed, Pc, Creating, Tearing, Calling, Goto, Listed, Listing, Created, TornDownOnce,
        Waited, Family, listVars, handleVars, childVars
<1>1. ASSUME t \in Users, NEW h \in Handles, CallReserve(t, h) PROVE (Waited /\ Family)'
  BY <1>1 DEF CallReserve, Reserve, Reservable
<1>2. ASSUME t \in Users, NEW h \in Handles, DuplicateReserve(t, h) PROVE (Waited /\ Family)'
  BY <1>2 DEF DuplicateReserve, Reserve, Reservable
<1>3. ASSUME t \in Users, NEW h \in Handles, InitAlloc(t, h) PROVE (Waited /\ Family)'
  BY <1>3 DEF InitAlloc, Reservable
<1>4. ASSUME t \in Users, NEW h \in Handles, UserClose(t, h) PROVE (Waited /\ Family)'
  BY <1>4 DEF UserClose
<1>5. CASE t \in Users /\ CloseAllStart(t)
  BY <1>5 DEF CloseAllStart
<1>6. CASE t \in Users /\ CallReturn(t)
  BY <1>6 DEF CallReturn, Finish
<1>7. CASE t \in Users /\ DuplicateReturn(t)
  BY <1>7 DEF DuplicateReturn, Finish
<1>8. CASE t \in Users /\ InitAdd(t)
  <2>1. CASE pc' = [pc EXCEPT ![t] = "initFail"]
    BY <1>8, <2>1 DEF InitAdd
  <2>2. CASE pc' = [pc EXCEPT ![t] = "initSub"]
    BY <1>8, <2>2 DEF InitAdd
  <2>. QED
    BY <1>8, <2>1, <2>2 DEF InitAdd
<1>9. CASE t \in Users /\ InitSubsystems(t)
  <2>1. CASE Goto(t, "initSub", "initDone")
    BY <1>9, <2>1 DEF InitSubsystems
  <2>2. CASE Goto(t, "initSub", "initAttach")
    BY <1>9, <2>2 DEF InitSubsystems
  <2>3. CASE Goto(t, "initSub", "initFail")
    BY <1>9, <2>3 DEF InitSubsystems
  <2>. QED
    BY <1>9, <2>1, <2>2, <2>3 DEF InitSubsystems
<1>10. CASE t \in Users /\ InitAttach(t)
  BY <1>10 DEF InitAttach, CanAttach, Reservable
<1>11. CASE t \in Users /\ InitAttachFail(t)
  BY <1>11 DEF InitAttachFail
<1>12. CASE t \in Users /\ InitNotify(t)
  <2>1. CASE Goto(t, "initNotify", "initDone")
    BY <1>12, <2>1 DEF InitNotify
  <2>2. CASE Goto(t, "initNotify", "initFail")
    BY <1>12, <2>2 DEF InitNotify
  <2>. QED
    BY <1>12, <2>1, <2>2 DEF InitNotify
<1>13. CASE t \in Users /\ InitDone(t)
  BY <1>13 DEF InitDone, Finish
<1>14. CASE t \in Users /\ InitFail(t)
  BY <1>14 DEF InitFail
<1>15. CASE t \in Users /\ CloseAllNext(t)
  <2>1. CASE Finish(t, "closeAll")
    BY <1>15, <2>1 DEF CloseAllNext, Finish
  <2>2. CASE Goto(t, "closeAll", "close") /\ H' = [H EXCEPT ![t] = slots[0]]
    BY <1>15, <2>2 DEF CloseAllNext
  <2>. QED
    BY <1>15, <2>1, <2>2 DEF CloseAllNext
<1>16. CASE CloseHead(t)
  <2>1. CASE CloseReturn(t, "close")
    BY <1>16, <2>1, CloseReturns DEF CloseHead
  <2>2. CASE Goto(t, "close", "closeKids") /\ UNCHANGED <<coreLock, H>>
    BY <1>16, <2>2 DEF CloseHead
  <2>. QED
    BY <1>16, <2>1, <2>2 DEF CloseHead
<1>17. CASE CloseKids(t)
  <2>1. H[t] \in Handles
    BY <1>17 DEF CloseKids
  <2>2. \A k \in children[H[t]] : k \in Handles /\ k \notin Users
    BY <2>1
  <2>3. /\ \A u \in Threads : u # t /\ Tearing(u)' => H'[u] = H[u] /\ pc'[u] = pc[u]
        /\ \A u \in Users : Calling(u)' => H'[u] = H[u] /\ pc'[u] = pc[u]
    BY <1>17, <2>2 DEF CloseKids
  <2>4. H'[t] = H[t] /\ pc'[t] = "waitKids" /\ UNCHANGED <<children, hParent, mem>>
    BY <1>17, <2>2 DEF CloseKids
  <2>. QED
    BY <2>1, <2>3, <2>4
<1>18. CASE WaitKids(t)
  BY <1>18 DEF WaitKids
<1>19. CASE CloseAbort(t)
  <2>1. H[t] \in Handles
    BY <1>19 DEF CloseAbort
  <2>3. /\ \A u \in Threads : u # t /\ Tearing(u)' => H'[u] = H[u] /\ pc'[u] = pc[u]
        /\ \A u \in Users : Calling(u)' => H'[u] = H[u] /\ pc'[u] = pc[u]
    BY <1>19 DEF CloseAbort
  <2>4. H'[t] = H[t] /\ pc'[t] = "waitExt" /\ UNCHANGED <<children, hParent, mem>>
    BY <1>19 DEF CloseAbort
  <2>. QED
    BY <1>19, <2>1, <2>3, <2>4 DEF CloseAbort
<1>20. CASE WaitExternal(t)
  <2>1. H[t] \in Handles
    BY <1>20 DEF WaitExternal
  <2>2. \A u \in Users : Calling(u) => H[u] # H[t]
    BY <1>20, <2>1, NobodyInside DEF WaitExternal, IInv
  <2>. QED
    BY <1>20, <2>2 DEF WaitExternal
<1>21. CASE WaitInternal(t)
  BY <1>21 DEF WaitInternal
<1>22. CASE Detach(t)
  <2>1. CASE Goto(t, "detach", "free")
    BY <1>22, <2>1 DEF Detach
  <2>2. CASE Goto(t, "detach", "notify")
    BY <1>22, <2>2 DEF Detach
  <2>. QED
    BY <1>22, <2>1, <2>2 DEF Detach
<1>23. CASE DetachNotify(t)
  BY <1>23 DEF DetachNotify
<1>24. CASE Free(t)
  BY <1>24, CloseReturns DEF Free
<1>25. CASE t \in Handles /\ UnitStart(t)
  BY <1>25 DEF UnitStart
<1>. QED
  BY <1>1, <1>2, <1>3, <1>4, <1>5, <1>6, <1>7, <1>8, <1>9, <1>10, <1>11, <1>12, <1>13, <1>14,
     <1>15, <1>16, <1>17, <1>18, <1>19, <1>20, <1>21, <1>22, <1>23, <1>24, <1>25
  DEF Step, UserBegins, UserGoesOn, UnitGoesOn, Closing, Initializing

LEMMA StepCalls ==
  ASSUME IInv, NEW t \in Threads, Step(t), NEW g \in Handles
  PROVE  CountsAt(g)'
<1>0. /\ Placed /\ pc \in [Threads -> Pc] /\ H \in [Threads -> Handles \cup {None}]
      /\ mem \in [Handles -> {"none", "alloc", "freed"}] /\ cThreadExternal \in [Handles -> Nat]
      /\ None \notin Threads /\ None \notin Handles
      /\ Threads = Users \cup Handles /\ Users \cap Handles = {}
      /\ Listing /\ Waited /\ Allowed \subseteq Handles
  BY SetsAssumption, AllowedHandles DEF SetsAssumption, Threads, IInv, TypeOK, ListTyped, Slots
<1>00. CountsAt(g) /\ IsFiniteSet(Inside(g)) /\ Cardinality(Inside(g)) \in Nat
  BY Counts, InsideFinite, FS_CardinalityType DEF IInv
<1>000. ASSUME /\ UNCHANGED cThreadExternal
               /\ \A u \in Users : (Calling(u)' <=> Calling(u)) /\ (Calling(u) => H'[u] = H[u])
               /\ mem[g] = "alloc" /\ Inside(g) # {} => mem'[g] = "alloc"
        PROVE  CountsAt(g)'
  <2>1. Inside(g)' = Inside(g)
    BY <1>000 DEF Inside
  <2>. QED
    BY <1>00, <1>000, <2>1 DEF CountsAt
<1>. USE <1>0, <1>000 DEF Placed, Pc, Calling, Goto, listVars, handleVars, childVars
<1>1. ASSUME t \in Users, NEW h \in Handles, CallReserve(t, h) PROVE CountsAt(g)'
  <2>1. /\ cThreadExternal' = [cThreadExternal EXCEPT ![h] = @ + 1]
        /\ UNCHANGED mem /\ mem[h] = "alloc"
        /\ ~Calling(t) /\ Calling(t)' /\ H'[t] = h
        /\ \A u \in Users \ {t} : pc'[u] = pc[u] /\ H'[u] = H[u]
    BY <1>1 DEF CallReserve, Reserve, Reservable, Listed, Listing
  <2>2. CASE h = g
    <3>1. Inside(g)' = Inside(g) \cup {t} /\ t \notin Inside(g)
      BY <1>1, <2>1, <2>2 DEF Inside
    <3>2. Cardinality(Inside(g)') = Cardinality(Inside(g)) + 1
      BY <1>00, <3>1, FS_AddElement
    <3>. QED
      BY <1>00, <2>1, <2>2, <3>2 DEF CountsAt
  <2>3. CASE h # g
    <3>1. Inside(g)' = Inside(g)
      BY <1>1, <2>1, <2>3 DEF Inside
    <3>. QED
      BY <1>00, <2>1, <2>3, <3>1 DEF CountsAt
  <2>. QED
    BY <2>2, <2>3
<1>2. ASSUME t \in Users, NEW h \in Handles, DuplicateReserve(t, h) PROVE CountsAt(g)'
  <2>1. /\ cThreadExternal' = [cThreadExternal EXCEPT ![h] = @ + 1]
        /\ UNCHANGED mem /\ mem[h] = "alloc"
        /\ ~Calling(t) /\ Calling(t)' /\ H'[t] = h
        /\ \A u \in Users \ {t} : pc'[u] = pc[u] /\ H'[u] = H[u]
    BY <1>2 DEF DuplicateReserve, Reserve, Reservable, Listed, Listing
  <2>2. CASE h = g
    <3>1. Inside(g)' = Inside(g) \cup {t} /\ t \notin Inside(g)
      BY <1>2, <2>1, <2>2 DEF Inside
    <3>2. Cardinality(Inside(g)') = Cardinality(Inside(g)) + 1
      BY <1>00, <3>1, FS_AddElement
    <3>. QED
      BY <1>00, <2>1, <2>2, <3>2 DEF CountsAt
  <2>3. CASE h # g
    <3>1. Inside(g)' = Inside(g)
      BY <1>2, <2>1, <2>3 DEF Inside
    <3>. QED
      BY <1>00, <2>1, <2>3, <3>1 DEF CountsAt
  <2>. QED
    BY <2>2, <2>3
<1>3. ASSUME t \in Users, NEW h \in Handles, InitAlloc(t, h) PROVE CountsAt(g)'
  BY <1>3 DEF InitAlloc, Reservable
<1>4. ASSUME t \in Users, NEW h \in Handles, UserClose(t, h) PROVE CountsAt(g)'
  BY <1>4 DEF UserClose
<1>5. CASE t \in Users /\ CloseAllStart(t)
  BY <1>5 DEF CloseAllStart
<1>6. CASE t \in Users /\ CallReturn(t)
  <2>1. /\ cThreadExternal' = [cThreadExternal EXCEPT ![H[t]] = @ - 1] /\ UNCHANGED mem
        /\ Calling(t) /\ ~Calling(t)'
        /\ \A u \in Users \ {t} : pc'[u] = pc[u] /\ H'[u] = H[u]
    BY <1>6 DEF CallReturn, Finish
  <2>2. CASE H[t] = g
    <3>1. Inside(g)' = Inside(g) \ {t} /\ t \in Inside(g)
      BY <1>6, <2>1, <2>2 DEF Inside
    <3>. QED
      BY <1>00, <2>1, <2>2, <3>1, FS_RemoveElement DEF CountsAt
  <2>3. CASE H[t] # g
    <3>1. Inside(g)' = Inside(g)
      BY <1>6, <2>1, <2>3 DEF Inside
    <3>. QED
      BY <1>00, <2>1, <2>3, <3>1 DEF CountsAt
  <2>. QED
    BY <2>2, <2>3
<1>7. CASE t \in Users /\ DuplicateReturn(t)
  <2>1. /\ cThreadExternal' = [cThreadExternal EXCEPT ![H[t]] = @ - 1] /\ UNCHANGED mem
        /\ Calling(t) /\ ~Calling(t)'
        /\ \A u \in Users \ {t} : pc'[u] = pc[u] /\ H'[u] = H[u]
    BY <1>7 DEF DuplicateReturn, Finish
  <2>2. CASE H[t] = g
    <3>1. Inside(g)' = Inside(g) \ {t} /\ t \in Inside(g)
      BY <1>7, <2>1, <2>2 DEF Inside
    <3>. QED
      BY <1>00, <2>1, <2>2, <3>1, FS_RemoveElement DEF CountsAt
  <2>3. CASE H[t] # g
    <3>1. Inside(g)' = Inside(g)
      BY <1>7, <2>1, <2>3 DEF Inside
    <3>. QED
      BY <1>00, <2>1, <2>3, <3>1 DEF CountsAt
  <2>. QED
    BY <2>2, <2>3
<1>8. CASE t \in Users /\ InitAdd(t)
  <2>1. CASE pc' = [pc EXCEPT ![t] = "initFail"]
    BY <1>8, <2>1 DEF InitAdd
  <2>2. CASE pc' = [pc EXCEPT ![t] = "initSub"]
    BY <1>8, <2>2 DEF InitAdd
  <2>. QED
    BY <1>8, <2>1, <2>2 DEF InitAdd
<1>9. CASE t \in Users /\ InitSubsystems(t)
  <2>1. CASE Goto(t, "initSub", "initDone")
    BY <1>9, <2>1 DEF InitSubsystems
  <2>2. CASE Goto(t, "initSub", "initAttach")
    BY <1>9, <2>2 DEF InitSubsystems
  <2>3. CASE Goto(t, "initSub", "initFail")
    BY <1>9, <2>3 DEF InitSubsystems
  <2>. QED
    BY <1>9, <2>1, <2>2, <2>3 DEF InitSubsystems
<1>10. CASE t \in Users /\ InitAttach(t)
  BY <1>10 DEF InitAttach, CanAttach, Reservable
<1>11. CASE t \in Users /\ InitAttachFail(t)
  BY <1>11 DEF InitAttachFail
<1>12. CASE t \in Users /\ InitNotify(t)
  <2>1. CASE Goto(t, "initNotify", "initDone")
    BY <1>12, <2>1 DEF InitNotify
  <2>2. CASE Goto(t, "initNotify", "initFail")
    BY <1>12, <2>2 DEF InitNotify
  <2>. QED
    BY <1>12, <2>1, <2>2 DEF InitNotify
<1>13. CASE t \in Users /\ InitDone(t)
  BY <1>13 DEF InitDone, Finish
<1>14. CASE t \in Users /\ InitFail(t)
  BY <1>14 DEF InitFail
<1>15. CASE t \in Users /\ CloseAllNext(t)
  <2>1. CASE Finish(t, "closeAll")
    BY <1>15, <2>1 DEF CloseAllNext, Finish
  <2>2. CASE Goto(t, "closeAll", "close") /\ H' = [H EXCEPT ![t] = slots[0]]
    BY <1>15, <2>2 DEF CloseAllNext
  <2>. QED
    BY <1>15, <2>1, <2>2 DEF CloseAllNext
<1>16. CASE CloseHead(t)
  <2>1. CASE CloseReturn(t, "close")
    BY <1>16, <2>1, CloseReturns DEF CloseHead
  <2>2. CASE Goto(t, "close", "closeKids") /\ UNCHANGED <<coreLock, H>>
    BY <1>16, <2>2 DEF CloseHead
  <2>. QED
    BY <1>16, <2>1, <2>2 DEF CloseHead
<1>17. CASE CloseKids(t)
  <2>1. \A k \in children[H[t]] : k \in Handles /\ k \notin Users
    BY <1>17 DEF CloseKids, IInv, TypeOK
  <2>2. \A u \in Users : (Calling(u)' <=> Calling(u)) /\ (Calling(u) => H'[u] = H[u])
    BY <1>17, <2>1 DEF CloseKids
  <2>. QED
    BY <1>17, <2>2 DEF CloseKids
<1>18. CASE WaitKids(t)
  BY <1>18 DEF WaitKids
<1>19. CASE CloseAbort(t)
  BY <1>19 DEF CloseAbort
<1>20. CASE WaitExternal(t)
  BY <1>20 DEF WaitExternal
<1>21. CASE WaitInternal(t)
  BY <1>21 DEF WaitInternal
<1>22. CASE Detach(t)
  <2>1. CASE Goto(t, "detach", "free")
    BY <1>22, <2>1 DEF Detach
  <2>2. CASE Goto(t, "detach", "notify")
    BY <1>22, <2>2 DEF Detach
  <2>. QED
    BY <1>22, <2>1, <2>2 DEF Detach
<1>23. CASE DetachNotify(t)
  BY <1>23 DEF DetachNotify
<1>24. CASE Free(t)
  <2>1. \A u \in Users : Calling(u) => H[u] # H[t]
    BY <1>24, CloseReturns DEF Free, Waited
  <2>2. H[t] = g => Inside(g) = {}
    BY <2>1 DEF Inside
  <2>. QED
    BY <1>24, <2>2, CloseReturns DEF Free
<1>25. CASE t \in Handles /\ UnitStart(t)
  BY <1>25 DEF UnitStart
<1>. QED
  BY <1>1, <1>2, <1>3, <1>4, <1>5, <1>6, <1>7, <1>8, <1>9, <1>10, <1>11, <1>12, <1>13, <1>14,
     <1>15, <1>16, <1>17, <1>18, <1>19, <1>20, <1>21, <1>22, <1>23, <1>24, <1>25
  DEF Step, UserBegins, UserGoesOn, UnitGoesOn, Closing, Initializing

(***************************************************************************)
(* Types.                                                                  *)
(***************************************************************************)
LEMMA SomebodyInside ==
  ASSUME CallsOnLiveHandle, TypeOK, NEW t \in Users, Calling(t), H[t] \in Handles
  PROVE  cThreadExternal[H[t]] - 1 \in Nat
<1>1. t \in Inside(H[t]) /\ IsFiniteSet(Inside(H[t]))
  BY InsideFinite DEF Inside
<1>2. Cardinality(Inside(H[t])) # 0
  BY <1>1, FS_EmptySet
<1>3. cThreadExternal[H[t]] \in Nat /\ cThreadExternal[H[t]] = Cardinality(Inside(H[t]))
  BY Counts DEF CountsAt, TypeOK
<1>. QED
  BY <1>2, <1>3

LEMMA StepTypes ==
  ASSUME IInv, NEW t \in Threads, Step(t)
  PROVE  TypeOK'
<1>0. /\ coreLock \in Users \cup {None}
      /\ mem \in [Handles -> {"none", "alloc", "freed"}] /\ fAbort \in [Handles -> BOOLEAN]
      /\ dwHandleCount \in [Handles -> Nat] /\ cThreadExternal \in [Handles -> Nat]
      /\ children \in [Handles -> SUBSET Handles] /\ childAbort \in [Handles -> BOOLEAN]
      /\ hParent \in [Handles -> Handles \cup {None}]
      /\ force \in [Threads -> BOOLEAN] /\ par \in [Threads -> Handles \cup {None}]
      /\ owned \in [Handles -> Nat] /\ Allowed \subseteq Handles
      /\ pc[t] \notin {"idle", "closeAll"} => H[t] \in Handles
  BY AllowedHandles DEF IInv, TypeOK, ListTyped, Slots, Placed
<1>00. ASSUME /\ coreLock' \in Users \cup {None}
              /\ mem' \in [Handles -> {"none", "alloc", "freed"}]
              /\ fAbort' \in [Handles -> BOOLEAN]
              /\ dwHandleCount' \in [Handles -> Nat] /\ cThreadExternal' \in [Handles -> Nat]
              /\ children' \in [Handles -> SUBSET Handles] /\ childAbort' \in [Handles -> BOOLEAN]
              /\ hParent' \in [Handles -> Handles \cup {None}]
              /\ force' \in [Threads -> BOOLEAN] /\ par' \in [Threads -> Handles \cup {None}]
              /\ owned' \in [Handles -> Nat]
       PROVE  TypeOK'
  BY <1>00, StepList, StepPlaced DEF TypeOK, ListTyped, ThreadsTyped, Slots
<1>. USE <1>0, <1>00 DEF Goto, listVars, handleVars, childVars
<1>1. ASSUME t \in Users, NEW h \in Handles, CallReserve(t, h) PROVE TypeOK'
  BY <1>1 DEF CallReserve, Reserve, Reservable
<1>2. ASSUME t \in Users, NEW h \in Handles, DuplicateReserve(t, h) PROVE TypeOK'
  BY <1>2 DEF DuplicateReserve, Reserve, Reservable
<1>3. ASSUME t \in Users, NEW h \in Handles, InitAlloc(t, h) PROVE TypeOK'
  BY <1>3 DEF InitAlloc, Reservable
<1>4. ASSUME t \in Users, NEW h \in Handles, UserClose(t, h) PROVE TypeOK'
  BY <1>4 DEF UserClose
<1>5. CASE t \in Users /\ CloseAllStart(t)
  BY <1>5 DEF CloseAllStart
<1>6. CASE t \in Users /\ CallReturn(t)
  <2>1. cThreadExternal[H[t]] - 1 \in Nat /\ H[t] \in Handles
    BY <1>6, SomebodyInside DEF CallReturn, Finish, Calling, IInv
  <2>. QED
    BY <1>6, <2>1 DEF CallReturn
<1>7. CASE t \in Users /\ DuplicateReturn(t)
  <2>1. cThreadExternal[H[t]] - 1 \in Nat /\ H[t] \in Handles
    BY <1>7, SomebodyInside DEF DuplicateReturn, Finish, Calling, IInv
  <2>. QED
    BY <1>7, <2>1 DEF DuplicateReturn
<1>8. CASE t \in Users /\ InitAdd(t)
  BY <1>8 DEF InitAdd
<1>9. CASE t \in Users /\ InitSubsystems(t)
  BY <1>9 DEF InitSubsystems
<1>10. CASE t \in Users /\ InitAttach(t)
  <2>1. H[t] \in Handles /\ Parent[H[t]] \in Handles
    BY <1>10 DEF InitAttach, CanAttach, Reservable, Listed
  <2>. QED
    BY <1>10, <2>1 DEF InitAttach
<1>11. CASE t \in Users /\ InitAttachFail(t)
  BY <1>11 DEF InitAttachFail
<1>12. CASE t \in Users /\ InitNotify(t)
  BY <1>12 DEF InitNotify
<1>13. CASE t \in Users /\ InitDone(t)
  BY <1>13 DEF InitDone, Finish
<1>14. CASE t \in Users /\ InitFail(t)
  BY <1>14 DEF InitFail
<1>15. CASE t \in Users /\ CloseAllNext(t)
  BY <1>15 DEF CloseAllNext, Finish
<1>16. CASE CloseHead(t)
  <2>0. /\ H[t] \in Handles
        /\ UNCHANGED <<coreLock, mem, fAbort, cThreadExternal, childVars, force, par>>
    BY <1>16 DEF CloseHead
  <2>1. dwHandleCount' \in [Handles -> Nat]
    <3>1. Reservable(H[t]) => dwHandleCount[H[t]] - 1 \in Nat
      BY <2>0 DEF Reservable, Listing, IInv
    <3>. QED
      BY <1>16, <2>0, <3>1 DEF CloseHead
  <2>2. owned' \in [Handles -> Nat]
    BY <1>16, <2>0 DEF CloseHead
  <2>. QED
    BY <2>0, <2>1, <2>2
<1>17. CASE CloseKids(t)
  BY <1>17 DEF CloseKids
<1>18. CASE WaitKids(t)
  BY <1>18 DEF WaitKids
<1>19. CASE CloseAbort(t)
  BY <1>19 DEF CloseAbort
<1>20. CASE WaitExternal(t)
  BY <1>20 DEF WaitExternal
<1>21. CASE WaitInternal(t)
  BY <1>21 DEF WaitInternal
<1>22. CASE Detach(t)
  BY <1>22 DEF Detach
<1>23. CASE DetachNotify(t)
  BY <1>23 DEF DetachNotify
<1>24. CASE Free(t)
  BY <1>24 DEF Free
<1>25. CASE t \in Handles /\ UnitStart(t)
  BY <1>25 DEF UnitStart
<1>. QED
  BY <1>1, <1>2, <1>3, <1>4, <1>5, <1>6, <1>7, <1>8, <1>9, <1>10, <1>11, <1>12, <1>13, <1>14,
     <1>15, <1>16, <1>17, <1>18, <1>19, <1>20, <1>21, <1>22, <1>23, <1>24, <1>25
  DEF Step, UserBegins, UserGoesOn, UnitGoesOn, Closing, Initializing

(***************************************************************************)
(* The invariant.                                                          *)
(***************************************************************************)
LEMMA InitInv == Init => IInv
<1>. SUFFICES ASSUME Init PROVE IInv
  OBVIOUS
<1>1. /\ MaxCount \in Nat \ {0} /\ None \notin Handles /\ None \notin Users
      /\ Threads = Users \cup Handles
  BY BoundAssumption, SetsAssumption DEF BoundAssumption, SetsAssumption, Threads
<1>2. Allowed = {}
  BY <1>1 DEF Init, Allowed
<1>3. TypeOK /\ ListCompact
  BY <1>1 DEF Init, TypeOK, Pc, ListCompact, Slots
<1>4. \A t \in Threads : pc[t] = "idle"
  BY DEF Init
<1>5. Listing /\ Placed /\ Created /\ Waited /\ Family /\ TornDownOnce
  BY <1>1, <1>2, <1>4
 
  DEF Init, Listed, Listing, Placed, Locking, Creating, Tearing, Calling, Created, Waited,
      Family, TornDownOnce
<1>6. CallsOnLiveHandle
  <2>1. \A h \in Handles : Inside(h) = {} /\ cThreadExternal[h] = 0
    BY <1>1, <1>4 DEF Init, Inside, Calling
  <2>. QED
    BY <2>1, Counts, FS_EmptySet DEF CountsAt
<1>. QED
  BY <1>3, <1>5, <1>6 DEF IInv

LEMMA StepInv == IInv /\ [Next]_vars => IInv'
<1>. SUFFICES ASSUME IInv, [Next]_vars PROVE IInv'
  OBVIOUS
<1>1. ASSUME NEW t \in Threads, Step(t) PROVE IInv'
  <2>1. CallsOnLiveHandle'
    BY <1>1, StepCalls DEF CallsOnLiveHandle, CountsAt, Inside, Calling
  <2>. QED
    BY <1>1, <2>1, StepTypes, StepList, StepPlaced, StepAlone, StepFamily DEF IInv
<1>2. CASE UNCHANGED vars
  <2>1. /\ UNCHANGED <<listVars, handleVars, childVars, threadVars, owned>>
        /\ UNCHANGED <<slots, count>>
        /\ Allowed' = Allowed
    BY <1>2, ListSame DEF vars, listVars, IInv, TypeOK, ListTyped, Slots
  <2>2. UNCHANGED <<coreLock, mem, fAbort, dwHandleCount, cThreadExternal,
                    children, childAbort, hParent, pc, H, force, par, owned>>
    BY <2>1 DEF listVars, handleVars, childVars, threadVars
  <2>3. TypeOK' /\ ListCompact'
    BY <2>1, <2>2 DEF IInv, TypeOK, ListCompact
  <2>4. Listing' /\ Placed' /\ Created' /\ TornDownOnce'
    BY <2>1, <2>2
    DEF IInv, Listing, Listed, Placed, Locking, Creating, Tearing, Created, TornDownOnce
  <2>5. Waited' /\ Family' /\ CallsOnLiveHandle'
    BY <2>1, <2>2
    DEF IInv, Tearing, Calling, Waited, Family, CallsOnLiveHandle
  <2>. QED
    BY <2>3, <2>4, <2>5 DEF IInv
<1>. QED
  BY <1>1, <1>2 DEF Next, Step, Threads

(* Every state reached satisfies the inductive invariant.                  *)
THEOREM Inductive == Spec => []IInv
<1>. QED
  BY InitInv, StepInv, PTL DEF Spec

(* An API call that has reserved a handle works on memory that is not      *)
(* freed, and cThreadExternal counts exactly the calls inside.             *)
THEOREM Reserved == Spec => []CallsOnLiveHandle
<1>1. IInv => CallsOnLiveHandle
  BY DEF IInv
<1>. QED
  BY <1>1, Inductive, PTL

(* However many users close a handle, duplicate it or close all, and even  *)
(* if its parent closes it too, one thread tears it down.                  *)
THEOREM ClosedOnce == Spec => []TornDownOnce
<1>1. IInv => TornDownOnce
  BY DEF IInv
<1>. QED
  BY <1>1, Inductive, PTL

(* The bare pointer of a child to its parent never dangles.                *)
THEOREM Parents == Spec => []ParentOutlivesChild
<1>1. IInv => ParentOutlivesChild
  <2>. SUFFICES ASSUME IInv, NEW h \in Handles, hParent[h] # None
                PROVE  /\ mem[hParent[h]] = "alloc"
                       /\ h \in children[hParent[h]] /\ mem[h] = "alloc"
    BY DEF ParentOutlivesChild
  <2>1. hParent[h] \in Handles
    BY DEF IInv, TypeOK
  <2>. QED
    BY <2>1 DEF IInv, Family
<1>. QED
  BY <1>1, Inductive, PTL

(***************************************************************************)
(* With a slot for every handle no handle is lost.  (Without it one is:    *)
(* the close of a handle that found no slot does nothing.)                 *)
(***************************************************************************)
Room == Cardinality(Handles) <= MaxCount

LEMMA SlotLeft ==
  ASSUME Room, ListCompact, ListTyped, NEW h \in Handles, ~Listed(h)
  PROVE  count < MaxCount
<1>. DEFINE I == 0..(count - 1)
<1>1. MaxCount \in Nat /\ count \in Nat /\ IsFiniteSet(Handles) /\ Cardinality(Handles) \in Nat
  BY BoundAssumption, SetsAssumption, FS_CardinalityType
  DEF BoundAssumption, SetsAssumption, ListTyped
<1>2. IsFiniteSet(I) /\ Cardinality(I) = count
  <2>1. 0 \in Int /\ count - 1 \in Int
    BY <1>1
  <2>. QED
    <3>1. IsFiniteSet(I) /\ Cardinality(I) = IF 0 > count - 1 THEN 0 ELSE count - 1 - 0 + 1
      BY <2>1, FS_Interval
    <3>. HIDE DEF I
    <3>. QED
      BY <1>1, <3>1
<1>3. Allowed \subseteq Handles \ {h}
  BY AllowedHandles DEF Listed
<1>4. IsFiniteSet(Handles \ {h}) /\ Cardinality(Handles \ {h}) = Cardinality(Handles) - 1
  BY <1>1, FS_RemoveElement
<1>5. IsFiniteSet(Allowed) /\ Cardinality(Allowed) <= Cardinality(Handles) - 1
  BY <1>3, <1>4, FS_Subset
<1>6. Cardinality(Allowed) = count
  <2>. DEFINE f == [i \in I |-> slots[i]]
  <2>1. f \in Bijection(I, Allowed)
    BY DEF Allowed, ListCompact, Bijection, Injection, Surjection, IsInjective
  <2>. HIDE DEF f, I
  <2>2. ExistsBijection(I, Allowed)
    BY <2>1 DEF ExistsBijection
  <2>. QED
    BY <1>2, <1>5, <2>2, FS_Bijection
<1>. QED
  BY <1>1, <1>5, <1>6, FS_CardinalityType DEF Room

LEMMA StepKept ==
  ASSUME IInv, Kept, Room, NEW t \in Threads, Step(t)
  PROVE  Kept'
<1>0. /\ Placed /\ pc \in [Threads -> Pc] /\ H \in [Threads -> Handles \cup {None}]
      /\ mem \in [Handles -> {"none", "alloc", "freed"}] /\ fAbort \in [Handles -> BOOLEAN]
      /\ None \notin Threads /\ None \notin Handles
      /\ Threads = Users \cup Handles /\ Users \cap Handles = {}
      /\ Listing /\ Created /\ TornDownOnce /\ Allowed \subseteq Handles
  BY SetsAssumption, AllowedHandles DEF SetsAssumption, Threads, IInv, TypeOK, ListTyped, Slots
<1>00. UNCHANGED <<slots, count>> => Allowed' = Allowed
  BY ListSame DEF IInv, TypeOK, ListTyped, Slots
<1>. USE <1>0, <1>00
    DEF Placed, Pc, Creating, Locking, Tearing, Goto, Listed, Listing, Created, TornDownOnce,
        Kept, listVars, handleVars, childVars
<1>1. ASSUME t \in Users, NEW h \in Handles, CallReserve(t, h) PROVE Kept'
  BY <1>1 DEF CallReserve, Reserve, Reservable
<1>2. ASSUME t \in Users, NEW h \in Handles, DuplicateReserve(t, h) PROVE Kept'
  BY <1>2 DEF DuplicateReserve, Reserve, Reservable
<1>3. ASSUME t \in Users, NEW h \in Handles, InitAlloc(t, h) PROVE Kept'
  BY <1>3 DEF InitAlloc, Reservable
<1>4. ASSUME t \in Users, NEW h \in Handles, UserClose(t, h) PROVE Kept'
  BY <1>4 DEF UserClose
<1>5. CASE t \in Users /\ CloseAllStart(t)
  BY <1>5 DEF CloseAllStart
<1>6. CASE t \in Users /\ CallReturn(t)
  BY <1>6 DEF CallReturn, Finish
<1>7. CASE t \in Users /\ DuplicateReturn(t)
  BY <1>7 DEF DuplicateReturn, Finish
<1>8. CASE t \in Users /\ InitAdd(t)
  <2>1. pc[t] = "initAdd" /\ H[t] \in Handles /\ ~Listed(H[t])
    BY <1>8 DEF InitAdd
  <2>2. count < MaxCount
    BY <2>1, SlotLeft DEF IInv, TypeOK, ListTyped, Slots
  <2>3. Allowed' = Allowed \cup {H[t]}
    <3>1. slots' = [slots EXCEPT ![count] = H[t]] /\ count' = count + 1
      BY <1>8, <2>2 DEF InitAdd
    <3>. QED
      BY <2>1, <2>2, <3>1, ListAdd DEF IInv
  <2>. QED
    BY <1>8, <2>1, <2>2, <2>3 DEF InitAdd
<1>9. CASE t \in Users /\ InitSubsystems(t)
  <2>1. CASE Goto(t, "initSub", "initDone")
    BY <1>9, <2>1 DEF InitSubsystems
  <2>2. CASE Goto(t, "initSub", "initAttach")
    BY <1>9, <2>2 DEF InitSubsystems
  <2>3. CASE Goto(t, "initSub", "initFail")
    BY <1>9, <2>3 DEF InitSubsystems
  <2>. QED
    BY <1>9, <2>1, <2>2, <2>3 DEF InitSubsystems
<1>10. CASE t \in Users /\ InitAttach(t)
  BY <1>10 DEF InitAttach, CanAttach, Reservable
<1>11. CASE t \in Users /\ InitAttachFail(t)
  BY <1>11 DEF InitAttachFail
<1>12. CASE t \in Users /\ InitNotify(t)
  <2>1. CASE Goto(t, "initNotify", "initDone")
    BY <1>12, <2>1 DEF InitNotify
  <2>2. CASE Goto(t, "initNotify", "initFail")
    BY <1>12, <2>2 DEF InitNotify
  <2>. QED
    BY <1>12, <2>1, <2>2 DEF InitNotify
<1>13. CASE t \in Users /\ InitDone(t)
  BY <1>13 DEF InitDone, Finish
<1>14. CASE t \in Users /\ InitFail(t)
  BY <1>14 DEF InitFail
<1>15. CASE t \in Users /\ CloseAllNext(t)
  <2>1. CASE Finish(t, "closeAll")
    BY <1>15, <2>1 DEF CloseAllNext, Finish
  <2>2. CASE Goto(t, "closeAll", "close") /\ H' = [H EXCEPT ![t] = slots[0]]
    BY <1>15, <2>2 DEF CloseAllNext
  <2>. QED
    BY <1>15, <2>1, <2>2 DEF CloseAllNext
<1>16. CASE CloseHead(t)
  <2>1. CASE CloseReturn(t, "close") /\ UNCHANGED listVars
    BY <1>16, <2>1, CloseReturns DEF CloseHead, Reservable
  <2>2. CASE /\ Reservable(H[t]) /\ Remove(H[t])
             /\ Goto(t, "close", "closeKids") /\ UNCHANGED <<coreLock, H>>
    <3>1. Listed(H[t]) /\ Allowed' = Allowed \ {H[t]}
      BY <2>2, ListRemove DEF Reservable, IInv
    <3>. QED
      BY <1>16, <2>2, <3>1 DEF CloseHead
  <2>. QED
    BY <1>16, <2>1, <2>2 DEF CloseHead
<1>17. CASE CloseKids(t)
  <2>1. H[t] \in Handles
    BY <1>17 DEF CloseKids
  <2>2. \A k \in children[H[t]] :
           k \in Handles /\ k \notin Users /\ (childAbort[H[t]] \/ pc[k] = "idle")
    <3>. SUFFICES ASSUME NEW k \in children[H[t]]
                  PROVE  k \in Handles /\ k \notin Users /\ (childAbort[H[t]] \/ pc[k] = "idle")
      OBVIOUS
    <3>1. k \in Handles /\ k \notin Users
      BY <2>1 DEF IInv, TypeOK
    <3>2. Parent[k] = H[t] /\ (pc[k] # "idle" => childAbort[Parent[k]])
      BY <2>1, <3>1 DEF IInv, Family
    <3>. QED
      BY <3>1, <3>2
  <2>3. \A u \in Threads : /\ u # t /\ (Creating(u) \/ Tearing(u)) => H'[u] = H[u] /\ pc'[u] = pc[u]
                           /\ pc'[u] = "initAdd" => pc[u] = "initAdd" /\ H'[u] = H[u]
    BY <1>17, <2>2 DEF CloseKids
  <2>4. H'[t] = H[t] /\ pc'[t] = "waitKids" /\ UNCHANGED <<listVars, handleVars>>
    BY <1>17, <2>2 DEF CloseKids
  <2>5. \A u \in Threads :
           (pc[u] = "initAdd" \/ Tearing(u)) => (pc'[u] = "initAdd" \/ Tearing(u)') /\ H'[u] = H[u]
    BY <1>17, <2>3, <2>4 DEF CloseKids
  <2>. QED
    BY <2>1, <2>3, <2>4, <2>5
<1>18. CASE WaitKids(t)
  BY <1>18 DEF WaitKids
<1>19. CASE CloseAbort(t)
  <2>1. H[t] \in Handles /\ H[t] \notin Allowed /\ mem[H[t]] = "alloc"
    BY <1>19 DEF CloseAbort
  <2>2. \A u \in Threads : /\ u # t /\ (Creating(u) \/ Tearing(u)) => H'[u] = H[u] /\ pc'[u] = pc[u]
                           /\ pc'[u] = "initAdd" => pc[u] = "initAdd" /\ H'[u] = H[u]
    BY <1>19 DEF CloseAbort
  <2>3. H'[t] = H[t] /\ pc'[t] = "waitExt" /\ UNCHANGED <<slots, count, mem>>
    BY <1>19 DEF CloseAbort
  <2>4. \A u \in Threads : pc[u] = "initAdd" => H[u] # H[t]
    BY <1>19 DEF CloseAbort
  <2>5. fAbort' = [fAbort EXCEPT ![H[t]] = TRUE]
    BY <1>19 DEF CloseAbort
  <2>. QED
    BY <2>1, <2>2, <2>3, <2>4, <2>5
<1>20. CASE WaitExternal(t)
  BY <1>20 DEF WaitExternal
<1>21. CASE WaitInternal(t)
  BY <1>21 DEF WaitInternal
<1>22. CASE Detach(t)
  <2>1. CASE Goto(t, "detach", "free")
    BY <1>22, <2>1 DEF Detach
  <2>2. CASE Goto(t, "detach", "notify")
    BY <1>22, <2>2 DEF Detach
  <2>. QED
    BY <1>22, <2>1, <2>2 DEF Detach
<1>23. CASE DetachNotify(t)
  BY <1>23 DEF DetachNotify
<1>24. CASE Free(t)
  BY <1>24, CloseReturns DEF Free
<1>25. CASE t \in Handles /\ UnitStart(t)
  BY <1>25 DEF UnitStart
<1>. QED
  BY <1>1, <1>2, <1>3, <1>4, <1>5, <1>6, <1>7, <1>8, <1>9, <1>10, <1>11, <1>12, <1>13, <1>14,
     <1>15, <1>16, <1>17, <1>18, <1>19, <1>20, <1>21, <1>22, <1>23, <1>24, <1>25
  DEF Step, UserBegins, UserGoesOn, UnitGoesOn, Closing, Initializing

(* No handle is lost while there is room in the list.                      *)
THEOREM NothingLost ==
  ASSUME Room
  PROVE  Spec => []NoLeak
<1>1. Init => Kept
  <2>. SUFFICES ASSUME Init PROVE Kept
    OBVIOUS
  <2>1. Threads = Users \cup Handles
    BY DEF Threads
  <2>. QED
    BY <2>1 DEF Init, Kept
<1>2. IInv /\ Kept /\ [Next]_vars => Kept'
  <2>. SUFFICES ASSUME IInv, Kept, [Next]_vars PROVE Kept'
    OBVIOUS
  <2>1. ASSUME NEW t \in Threads, Step(t) PROVE Kept'
    BY <2>1, StepKept
  <2>2. CASE UNCHANGED vars
    BY <2>2 DEF vars, listVars, handleVars, childVars, threadVars, Kept, Listed, Allowed, Tearing
  <2>. QED
    BY <2>1, <2>2 DEF Next, Step, Threads
<1>3. Kept => NoLeak
  BY DEF Kept, NoLeak, Tearing
<1>. QED
  BY <1>1, <1>2, <1>3, Inductive, PTL DEF Spec

=============================================================================
