------------------------------- MODULE ObSet -------------------------------
(***************************************************************************)
(* The hashed value set (src/vmm/ob/ob_set.c): the values in the order of  *)
(* their index, and the hash index over them.  Every operation runs under  *)
(* the lock of the set.                                                    *)
(***************************************************************************)
EXTENDS ObHash

CONSTANTS Values, SetSize, SetCapacity  \* cHashMax of a new set, OB_SET_TABLE_MAX_CAPACITY

ASSUME SetAssumption == SetSize \in Nat \ {0, 1} /\ Values \subseteq DOMAIN HashOf

VARIABLES
    setValues, setHash,
    setStale    \* a removal used a slot that its own re-hashing had changed

setVars == <<setValues, setHash, setStale>>

SetInit == setValues = <<>> /\ setHash = Empty(SetSize) /\ setStale = FALSE

SetPush(v) ==
    /\ ~Found(setHash, setValues, v) /\ Len(setValues) + 1 # SetCapacity
    /\ setValues' = Append(setValues, v)
    /\ setHash' = InsertHash(Grown(setHash, setValues), setValues', Len(setValues'))
    /\ UNCHANGED setStale

(* The last value leaves the index, while its entry is zero.               *)
LastSlot == Lookup(setHash, setValues, Last(setValues))
WithoutLast == RemoveHash(setHash, [setValues EXCEPT ![Len(setValues)] = 0], LastSlot)

SetPop ==
    /\ setValues # <<>> /\ LastSlot # -1
    /\ setValues' = Front(setValues) /\ setHash' = WithoutLast
    /\ UNCHANGED setStale

(* The slot of the value to remove is looked up before the last value      *)
(* leaves the index, and used after that.                                  *)
SetRemove(v) ==
    /\ Found(setHash, setValues, v) /\ LastSlot # -1
    /\ LET s == Lookup(setHash, setValues, v)
           i == setHash[s]
           rest == Front(setValues)
           h == RemoveHash(WithoutLast, rest, s) IN
       IF v = Last(setValues) THEN setValues' = rest /\ setHash' = WithoutLast /\ UNCHANGED setStale
       ELSE /\ setValues' = [rest EXCEPT ![i] = Last(setValues)]
            /\ setHash' = InsertHash(h, setValues', i)
            /\ setStale' = (WithoutLast[s] # i)

SetClear ==
    /\ setValues # <<>>
    /\ setValues' = <<>> /\ setHash' = Empty(Size(setHash)) /\ UNCHANGED setStale

SetNext ==
    /\ ~setStale
    /\ SetPop \/ SetClear \/ \E v \in Values : SetPush(v) \/ SetRemove(v)

SetSpec == SetInit /\ [][SetNext]_setVars

(* Until a removal used a stale slot, ObSet_Exists finds exactly the       *)
(* values of the set, and each value has one slot.                         *)
SetExact == ~setStale => Exact(setHash, setValues, Values)

(* "Check if a value already exists in the ObSet." (ob_set.c): every value *)
(* of the set is found.  Violated after ObSet_Remove.                      *)
SetFindsAll == \A i \in DOMAIN setValues : Found(setHash, setValues, setValues[i])
=============================================================================
