----------------------------- MODULE ObContainer -----------------------------
(***************************************************************************)
(* An object container (src/vmm/ob/ob_container.c) and the reference       *)
(* counts of the objects in it (src/vmm/ob/ob_core.c).  The engine         *)
(* publishes its process tables, maps and plugin contexts this way: some   *)
(* threads replace the object while others get it, use it and drop it,     *)
(* and whoever drops the last reference frees it.                          *)
(*                                                                         *)
(* The SRW lock of the container is the reader-writer lock that its name   *)
(* promises; every access between acquiring and releasing it is a step of  *)
(* its own, so that nothing but the lock makes the operations atomic.      *)
(***************************************************************************)
EXTENDS Integers, FiniteSets

CONSTANTS
    Threads,
    Objects,    \* the objects that may be allocated, each once
    None

ASSUME ThreadsAssumption == IsFiniteSet(Threads)
ASSUME NoneAssumption    == None \notin Threads /\ None \notin Objects

VARIABLES
    shared, excl,   \* LockSRW: the threads that share it, or the one that excludes
    pOb,            \* the contained object
    valid,          \* OB_CONTAINER_IS_VALID
    count, mem,     \* _count of each object, and "none", "live" or "freed"
    pc, ob, old     \* of each thread: where it is, its object, and pObOld

lockVars == <<shared, excl>>
vars == <<lockVars, pOb, valid, count, mem, pc, ob, old>>

Init ==
    /\ shared = {} /\ excl = None
    /\ pOb = None /\ valid = TRUE
    /\ count = [o \in Objects |-> 0] /\ mem = [o \in Objects |-> "none"]
    /\ pc = [t \in Threads |-> "idle"]
    /\ ob = [t \in Threads |-> None] /\ old = [t \in Threads |-> None]

Goto(t, from, to) == pc[t] = from /\ pc' = [pc EXCEPT ![t] = to]

(* Ob_XINCREF and the decrement of Ob_XDECREF; both ignore NULL.           *)
Incref(o) == count' = IF o = None THEN count ELSE [count EXCEPT ![o] = @ + 1]
Decref(o) == count' = IF o = None THEN count ELSE [count EXCEPT ![o] = @ - 1]
IsLast(o) == o # None /\ count[o] = 1

(***************************************************************************)
(* ObContainer_GetOb, and the use of what it returns.                      *)
(***************************************************************************)
(* Mutant: without the lock.                                               *)
GetAcquireNot(t) ==
    /\ Goto(t, "idle", "getRead") /\ valid
    /\ UNCHANGED <<lockVars, pOb, valid, count, mem, ob, old>>

GetAcquire(t) ==
    /\ Goto(t, "idle", "getRead") /\ valid
    /\ excl = None /\ shared' = shared \cup {t}
    /\ UNCHANGED <<excl, pOb, valid, count, mem, ob, old>>

GetRead(t) ==
    /\ Goto(t, "getRead", "getIncref")
    /\ ob' = [ob EXCEPT ![t] = pOb]
    /\ UNCHANGED <<lockVars, pOb, valid, count, mem, old>>

GetIncref(t) ==
    /\ Goto(t, "getIncref", "getRelease")
    /\ Incref(ob[t])
    /\ UNCHANGED <<lockVars, pOb, valid, mem, ob, old>>

GetRelease(t) ==
    /\ Goto(t, "getRelease", "use")
    /\ shared' = shared \ {t}
    /\ UNCHANGED <<excl, pOb, valid, count, mem, ob, old>>

(* Ob_DECREF of the object a thread holds ...                              *)
Drop(t) ==
    /\ Goto(t, "use", IF IsLast(ob[t]) THEN "free" ELSE "idle")
    /\ Decref(ob[t])
    /\ ob' = [ob EXCEPT ![t] = IF IsLast(ob[t]) THEN ob[t] ELSE None]
    /\ UNCHANGED <<lockVars, pOb, valid, mem, old>>

(* ... which frees the object if the count became zero.                    *)
Free(t) ==
    /\ Goto(t, "free", "idle")
    /\ mem' = [mem EXCEPT ![ob[t]] = "freed"]
    /\ ob' = [ob EXCEPT ![t] = None]
    /\ UNCHANGED <<lockVars, pOb, valid, count, old>>

(***************************************************************************)
(* ObContainer_SetOb of a new object or of NULL, by a caller that then     *)
(* keeps its own reference in use for a while.                             *)
(***************************************************************************)
Alloc(t, o) ==
    /\ mem[o] = "none" /\ mem' = [mem EXCEPT ![o] = "live"]
    /\ count' = [count EXCEPT ![o] = 1]
    /\ Goto(t, "idle", "set") /\ ob' = [ob EXCEPT ![t] = o] /\ valid
    /\ UNCHANGED <<lockVars, pOb, valid, old>>

SetNull(t) ==
    /\ Goto(t, "idle", "set") /\ valid
    /\ UNCHANGED <<lockVars, pOb, valid, count, mem, ob, old>>

SetAcquire(t) ==
    /\ Goto(t, "set", "setRead")
    /\ excl = None /\ shared = {} /\ excl' = t
    /\ UNCHANGED <<shared, pOb, valid, count, mem, ob, old>>

SetRead(t) ==
    /\ Goto(t, "setRead", "setIncref")
    /\ old' = [old EXCEPT ![t] = pOb]
    /\ UNCHANGED <<lockVars, pOb, valid, count, mem, ob>>

(* Mutant: the container borrows the reference of the caller.              *)
SetIncrefNot(t) ==
    /\ Goto(t, "setIncref", "setStore")
    /\ UNCHANGED <<lockVars, pOb, valid, count, mem, ob, old>>

SetIncref(t) ==
    /\ Goto(t, "setIncref", "setStore")
    /\ Incref(ob[t])
    /\ UNCHANGED <<lockVars, pOb, valid, mem, ob, old>>

SetStore(t) ==
    /\ Goto(t, "setStore", "setRelease")
    /\ pOb' = ob[t]
    /\ UNCHANGED <<lockVars, valid, count, mem, ob, old>>

SetRelease(t) ==
    /\ Goto(t, "setRelease", "setDecref")
    /\ excl' = None
    /\ UNCHANGED <<shared, pOb, valid, count, mem, ob, old>>

(* The old object is dropped; if that was the last reference, it is freed  *)
(* before anything else.                                                   *)
SetDecref(t) ==
    /\ Goto(t, "setDecref", IF IsLast(old[t]) THEN "setFree" ELSE "use")
    /\ Decref(old[t])
    /\ old' = [old EXCEPT ![t] = IF IsLast(old[t]) THEN old[t] ELSE None]
    /\ UNCHANGED <<lockVars, pOb, valid, mem, ob>>

SetFree(t) ==
    /\ Goto(t, "setFree", "use")
    /\ mem' = [mem EXCEPT ![old[t]] = "freed"]
    /\ old' = [old EXCEPT ![t] = None]
    /\ UNCHANGED <<lockVars, pOb, valid, count, ob>>

(* ObContainer_ObCloseCallback: the last reference to the container went,  *)
(* so that nobody is in an operation on it.  The thread takes over the     *)
(* reference of the container and drops it.                                *)
InOperation(t) == pc[t] \notin {"idle", "use", "free"}

Close(t) ==
    /\ Goto(t, "idle", "use") /\ valid
    /\ \A u \in Threads : ~InOperation(u)
    /\ valid' = FALSE /\ pOb' = None
    /\ ob' = [ob EXCEPT ![t] = pOb]
    /\ UNCHANGED <<lockVars, count, mem, old>>

(***************************************************************************)
(* The specification.                                                      *)
(***************************************************************************)
Step(t) ==
    \/ GetAcquire(t) \/ GetRead(t) \/ GetIncref(t) \/ GetRelease(t) \/ Drop(t) \/ Free(t)
    \/ (\E o \in Objects : Alloc(t, o)) \/ SetNull(t) \/ SetAcquire(t) \/ SetRead(t)
    \/ SetIncref(t) \/ SetStore(t) \/ SetRelease(t) \/ SetDecref(t) \/ SetFree(t) \/ Close(t)

Next == \E t \in Threads : Step(t)

Spec == Init /\ [][Next]_vars

(***************************************************************************)
(* Properties.                                                             *)
(***************************************************************************)
Pc == {"idle", "getRead", "getIncref", "getRelease", "use", "free", "set", "setRead",
       "setIncref", "setStore", "setRelease", "setDecref", "setFree"}

TypeOK ==
    /\ shared \in SUBSET Threads /\ excl \in Threads \cup {None}
    /\ pOb \in Objects \cup {None} /\ valid \in BOOLEAN
    /\ count \in [Objects -> Nat] /\ mem \in [Objects -> {"none", "live", "freed"}]
    /\ pc \in [Threads -> Pc]
    /\ ob \in [Threads -> Objects \cup {None}] /\ old \in [Threads -> Objects \cup {None}]

(* The references to an object: threads that hold it, the thread that is   *)
(* about to store it or that has taken it out, and the container.          *)
Owns(t)    == pc[t] \in {"getRelease", "use", "set", "setRead", "setIncref", "setStore",
                         "setRelease", "setDecref", "setFree"}
Stores(t)  == pc[t] = "setStore"
Removed(t) == pc[t] \in {"setRelease", "setDecref"}

OwnRefs(o)   == {t \in Threads : Owns(t) /\ ob[t] = o}
StoreRefs(o) == {t \in Threads : Stores(t) /\ ob[t] = o}
OldRefs(o)   == {t \in Threads : Removed(t) /\ old[t] = o}
CellRef(o)   == IF pOb = o THEN 1 ELSE 0

(* The count of an object is the number of references to it: none is lost, *)
(* so that the object is freed, and none is dropped twice, so that it is   *)
(* not freed early, whatever gets race with the set that replaces it.      *)
CountIsRefs ==
    \A o \in Objects :
        count[o] = Cardinality(OwnRefs(o)) + Cardinality(StoreRefs(o))
                     + Cardinality(OldRefs(o)) + CellRef(o)

(* Nobody increments, uses, stores, drops or frees an object that was      *)
(* freed.                                                                  *)
Touches(t, o) ==
    \/ ob[t] = o /\ pc[t] # "idle"
    \/ old[t] = o /\ pc[t] \in {"setIncref", "setStore", "setRelease", "setDecref", "setFree"}
NoUseAfterFree == \A t \in Threads, o \in Objects : Touches(t, o) => mem[o] = "live"

(* An allocated object with a zero count is being freed, and by one thread *)
(* only.                                                                   *)
Frees(t, o) == (pc[t] = "free" /\ ob[t] = o) \/ (pc[t] = "setFree" /\ old[t] = o)
FreedOnce ==
    \A o \in Objects :
        /\ mem[o] = "live" => (count[o] = 0 <=> \E t \in Threads : Frees(t, o))
        /\ \A t, u \in Threads : Frees(t, o) /\ Frees(u, o) => t = u

(***************************************************************************)
(* What the proof needs to know besides.                                   *)
(***************************************************************************)
(* The lock excludes what it should.                                       *)
Sharing(t)   == pc[t] \in {"getRead", "getIncref", "getRelease"}
Excluding(t) == pc[t] \in {"setRead", "setIncref", "setStore", "setRelease"}
Locking ==
    /\ \A t \in Threads : (t \in shared <=> Sharing(t)) /\ (excl = t <=> Excluding(t))
    /\ excl # None => shared = {}

(* What was read from the container under the lock is still there, and an  *)
(* idle thread holds nothing.                                              *)
Reading ==
    \A t \in Threads :
        /\ pc[t] = "getIncref" => ob[t] = pOb
        /\ pc[t] \in {"setIncref", "setStore"} => old[t] = pOb
        /\ pc[t] \in {"idle", "getRead"} => ob[t] = None
        /\ pc[t] \in {"free", "setFree"} => (IF pc[t] = "free" THEN ob[t] ELSE old[t]) # None

(* A counted or a dying object is allocated.                               *)
Alive ==
    \A o \in Objects :
        /\ count[o] > 0 => mem[o] = "live"
        /\ \A t \in Threads : Frees(t, o) => mem[o] = "live" /\ count[o] = 0
=============================================================================
