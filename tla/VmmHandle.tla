----------------------------- MODULE VmmHandle -----------------------------
(***************************************************************************)
(* The life cycle of VMM handles (src/vmm/vmmdll_core.c): the global       *)
(* allow-list behind g_VMMDLL_CORE_LOCK, the reservation of a handle by    *)
(* API calls, duplication, initialization with an optional parent,         *)
(* closing, and the attachment of child handles to their parent.           *)
(*                                                                         *)
(* Threads are API users and, for each child handle, the work unit by      *)
(* which its parent force-closes it.  A handle is an allocation: it is     *)
(* never reused after it was freed.  VmmDllCore_Initialize holds the       *)
(* global lock across all its steps, so coreLock is a variable; the other  *)
(* critical sections under it are single steps that need it free.          *)
(***************************************************************************)
EXTENDS Integers, FiniteSets

CONSTANTS
    Handles,    \* the handles that may be created
    Users,      \* threads of API users
    Parent,     \* Parent[h]: cfg.qwParentVmmHandle, or None
    MaxCount,   \* VMM_HANDLE_MAX_COUNT, the slots of the allow-list
    MaxRefs,    \* bound of the model on dwHandleCount, for each handle
    None

Threads == Users \cup Handles

ASSUME SetsAssumption   ==
    IsFiniteSet(Handles) /\ IsFiniteSet(Users) /\ Users \cap Handles = {} /\ None \notin Threads
ASSUME ParentAssumption == Parent \in [Handles -> Handles \cup {None}]
ASSUME BoundAssumption  == MaxCount \in Nat \ {0} /\ MaxRefs \in [Handles -> Nat \ {0}]

VARIABLES
    coreLock,           \* thread that holds g_VMMDLL_CORE_LOCK across steps
    slots,              \* g_VMMDLL_CORE_HANDLES
    count,              \* g_VMMDLL_CORE_HANDLE_COUNT
    mem,                \* "none", "alloc" or "freed"
    fAbort,             \* H->fAbort (set together with magic = 0)
    dwHandleCount, cThreadExternal,
    children,           \* H->childvmm.h as a set, c being its cardinality
    childAbort,         \* H->childvmm.fAbort
    hParent,            \* H->childvmm.hParent
    pc, H,              \* of each thread: where it is, and with which handle
    force,              \* fForceCloseAll of the close it executes
    par,                \* hParent read by VmmParentDetach
    owned               \* references that users were given and did not close

listVars   == <<coreLock, slots, count>>
handleVars == <<mem, fAbort, dwHandleCount, cThreadExternal>>
childVars  == <<children, childAbort, hParent>>
threadVars == <<pc, H, force, par>>
vars == <<listVars, handleVars, childVars, threadVars, owned>>

Pc == {"idle", "in", "dup", "initAdd", "initSub", "initAttach", "initNotify", "initDone",
       "initFail", "queued", "close", "closeKids", "waitKids", "abort", "waitExt", "waitInt",
       "detach", "notify", "free", "closeAll"}

Init ==
    /\ coreLock = None /\ slots = [i \in 0..(MaxCount - 1) |-> None] /\ count = 0
    /\ mem = [h \in Handles |-> "none"] /\ fAbort = [h \in Handles |-> FALSE]
    /\ dwHandleCount = [h \in Handles |-> 0] /\ cThreadExternal = [h \in Handles |-> 0]
    /\ children = [h \in Handles |-> {}] /\ childAbort = [h \in Handles |-> FALSE]
    /\ hParent = [h \in Handles |-> None]
    /\ pc = [t \in Threads |-> "idle"] /\ H = [t \in Threads |-> None]
    /\ force = [t \in Threads |-> FALSE] /\ par = [t \in Threads |-> None]
    /\ owned = [h \in Handles |-> 0]

Allowed   == {slots[i] : i \in 0..(count - 1)}
Listed(h) == h \in Allowed

(* The test inside VmmDllCore_HandleReserveExternal.                       *)
Reservable(h) == Listed(h) /\ ~fAbort[h]

Goto(t, from, to) == pc[t] = from /\ pc' = [pc EXCEPT ![t] = to]
Finish(t, from)   == Goto(t, from, "idle") /\ H' = [H EXCEPT ![t] = None]

(***************************************************************************)
(* API calls: reserve, use, return.                                        *)
(***************************************************************************)
Reserve(t, h, to) ==
    /\ coreLock = None /\ Reservable(h)
    /\ Goto(t, "idle", to) /\ H' = [H EXCEPT ![t] = h]
    /\ cThreadExternal' = [cThreadExternal EXCEPT ![h] = @ + 1]
    /\ UNCHANGED <<listVars, mem, fAbort, dwHandleCount, childVars, force, par, owned>>

CallReserve(t, h) == Reserve(t, h, "in")

CallReturn(t) ==
    /\ Finish(t, "in")
    /\ cThreadExternal' = [cThreadExternal EXCEPT ![H[t]] = @ - 1]
    /\ UNCHANGED <<listVars, mem, fAbort, dwHandleCount, childVars, force, par, owned>>

(* VmmDllCore_HandleDuplicate: the lock is released between the            *)
(* reservation and the increment of the handle count.                      *)
DuplicateReserve(t, h) == dwHandleCount[h] < MaxRefs[h] /\ Reserve(t, h, "dup")

DuplicateReturn(t) ==
    /\ Finish(t, "dup")
    /\ dwHandleCount' = [dwHandleCount EXCEPT ![H[t]] = @ + 1]
    /\ owned' = [owned EXCEPT ![H[t]] = @ + 1]
    /\ cThreadExternal' = [cThreadExternal EXCEPT ![H[t]] = @ - 1]
    /\ UNCHANGED <<listVars, mem, fAbort, childVars, force, par>>

(***************************************************************************)
(* VmmDllCore_Initialize.                                                  *)
(***************************************************************************)
(* Allocation of the handle and the early check of the parent.             *)
InitAlloc(t, h) ==
    /\ mem[h] = "none"
    /\ Parent[h] # None => Reservable(Parent[h]) /\ coreLock = None
    /\ Goto(t, "idle", "initAdd") /\ H' = [H EXCEPT ![t] = h]
    /\ mem' = [mem EXCEPT ![h] = "alloc"]
    /\ dwHandleCount' = [dwHandleCount EXCEPT ![h] = 1]
    /\ UNCHANGED <<listVars, fAbort, cThreadExternal, childVars, force, par, owned>>

(* The global lock is taken and VmmDllCore_HandleAdd fills a slot, if      *)
(* there is one.                                                           *)
InitAdd(t) ==
    /\ coreLock = None /\ coreLock' = t
    /\ IF count < MaxCount
       THEN /\ slots' = [slots EXCEPT ![count] = H[t]] /\ count' = count + 1
            /\ Goto(t, "initAdd", "initSub")
       ELSE /\ Goto(t, "initAdd", "initFail")
            /\ UNCHANGED <<slots, count>>
    /\ UNCHANGED <<handleVars, childVars, H, force, par, owned>>

(* The device, the work pool and the vmm sub-system start, or do not.      *)
InitSubsystems(t) ==
    /\ \/ Goto(t, "initSub", IF Parent[H[t]] = None THEN "initDone" ELSE "initAttach")
       \/ Goto(t, "initSub", "initFail")
    /\ UNCHANGED <<listVars, handleVars, childVars, H, force, par, owned>>

(* VmmDllCore_Initialize_HandleAttachParent under the locks of both        *)
(* child tables; the reservation of the parent is returned before the      *)
(* notification.                                                           *)
CanAttach(h) ==
    /\ Reservable(Parent[h])
    /\ ~fAbort[h] /\ ~childAbort[h] /\ ~childAbort[Parent[h]]

InitAttach(t) ==
    LET h == H[t] IN
    /\ Goto(t, "initAttach", "initNotify")
    /\ CanAttach(h)
    /\ children' = [children EXCEPT ![Parent[h]] = @ \cup {h}]
    /\ hParent' = [hParent EXCEPT ![h] = Parent[h]]
    /\ UNCHANGED <<listVars, handleVars, childAbort, H, force, par, owned>>

InitAttachFail(t) ==
    /\ Goto(t, "initAttach", "initFail")
    /\ ~CanAttach(H[t])
    /\ UNCHANGED <<listVars, handleVars, childVars, H, force, par, owned>>

(* PluginManager_Notify of the parent, then forensic mode, which may fail. *)
InitNotify(t) ==
    /\ Goto(t, "initNotify", "initDone") \/ Goto(t, "initNotify", "initFail")
    /\ UNCHANGED <<listVars, handleVars, childVars, H, force, par, owned>>

InitDone(t) ==
    /\ Finish(t, "initDone")
    /\ coreLock' = None
    /\ owned' = [owned EXCEPT ![H[t]] = 1]
    /\ UNCHANGED <<slots, count, handleVars, childVars, force, par>>

(* The failure path leaves the lock and closes the handle like a user.     *)
InitFail(t) ==
    /\ Goto(t, "initFail", "close")
    /\ coreLock' = None
    /\ force' = [force EXCEPT ![t] = FALSE]
    /\ UNCHANGED <<slots, count, handleVars, childVars, H, par, owned>>

(***************************************************************************)
(* VmmDllCore_CloseHandle and VmmDllCore_CloseAll.                         *)
(***************************************************************************)
(* A user closes a reference it was given: VmmDllCore_Close.               *)
UserClose(t, h) ==
    /\ owned[h] > 0 /\ owned' = [owned EXCEPT ![h] = @ - 1]
    /\ Goto(t, "idle", "close") /\ H' = [H EXCEPT ![t] = h]
    /\ force' = [force EXCEPT ![t] = FALSE]
    /\ UNCHANGED <<listVars, handleVars, childVars, par>>

CloseAllStart(t) ==
    /\ Goto(t, "idle", "closeAll")
    /\ force' = [force EXCEPT ![t] = TRUE]
    /\ UNCHANGED <<listVars, handleVars, childVars, H, par, owned>>

(* The first slot is read under the lock and closed after it is released.  *)
CloseAllNext(t) ==
    /\ pc[t] = "closeAll" /\ coreLock = None
    /\ IF slots[0] = None
       THEN /\ Finish(t, "closeAll")
            /\ force' = [force EXCEPT ![t] = FALSE]
       ELSE /\ Goto(t, "closeAll", "close")
            /\ H' = [H EXCEPT ![t] = slots[0]]
            /\ UNCHANGED force
    /\ UNCHANGED <<listVars, handleVars, childVars, par, owned>>

(* Where a finished close goes on: CloseAll has the next handle to close.  *)
CloseReturn(t, from) ==
    IF t \in Users /\ force[t]
    THEN Goto(t, from, "closeAll") /\ H' = [H EXCEPT ![t] = None]
    ELSE Finish(t, from)

(* Mutants: the handle stays listed; the last one leaves the list instead. *)
RemoveNothing(h) == UNCHANGED <<slots, count>>

RemoveLast(h) ==
    /\ count' = count - 1
    /\ slots' = [slots EXCEPT ![count - 1] = None]

(* VmmDllCore_HandleRemove moves the last handle into the freed slot.      *)
Remove(h) ==
    LET i == CHOOSE j \in 0..(count - 1) : slots[j] = h IN
    /\ count' = count - 1
    /\ slots' = [slots EXCEPT ![i] = slots[count - 1], ![count - 1] = None]

(* The head of the close, one critical section: nothing if the handle is   *)
(* not listed, a decrement, or the removal from the allow-list; a forced   *)
(* close revokes the references of the users.                              *)
CloseHead(t) ==
    LET h == H[t] IN
    /\ pc[t] = "close" /\ coreLock = None
    /\ \/ /\ ~Reservable(h)
          /\ CloseReturn(t, "close")
          /\ UNCHANGED <<listVars, dwHandleCount, owned>>
       \/ /\ Reservable(h) /\ ~force[t] /\ dwHandleCount[h] # 1
          /\ dwHandleCount' = [dwHandleCount EXCEPT ![h] = @ - 1]
          /\ CloseReturn(t, "close")
          /\ UNCHANGED <<listVars, owned>>
       \/ /\ Reservable(h) /\ (force[t] \/ dwHandleCount[h] = 1)
          /\ dwHandleCount' = [dwHandleCount EXCEPT ![h] = 0]
          /\ Remove(h)
          /\ Goto(t, "close", "closeKids")
          /\ owned' = IF force[t] THEN [owned EXCEPT ![h] = 0] ELSE owned
          /\ UNCHANGED <<coreLock, H>>
    /\ UNCHANGED <<mem, fAbort, cThreadExternal, childVars, force, par>>

(* Mutant: the children are not closed.                                    *)
CloseKidsNone(t) ==
    /\ Goto(t, "closeKids", "waitKids")
    /\ childAbort' = [childAbort EXCEPT ![H[t]] = TRUE]
    /\ UNCHANGED <<listVars, handleVars, children, hParent, H, force, par, owned>>

(* VmmChildCloseAll: once per handle, a work unit per child.               *)
CloseKids(t) ==
    LET h == H[t]
        new == IF childAbort[h] THEN {} ELSE children[h]
    IN
    /\ pc[t] = "closeKids"
    /\ childAbort' = [childAbort EXCEPT ![h] = TRUE]
    /\ pc' = [u \in Threads |-> IF u = t THEN "waitKids"
                                ELSE IF u \in new THEN "queued" ELSE pc[u]]
    /\ H' = [u \in Threads |-> IF u \in new THEN u ELSE H[u]]
    /\ UNCHANGED <<listVars, handleVars, children, hParent, force, par, owned>>

(* A worker of the parent runs VmmChildCloseSingle.                        *)
UnitStart(k) ==
    /\ Goto(k, "queued", "close")
    /\ force' = [force EXCEPT ![k] = TRUE]
    /\ UNCHANGED <<listVars, handleVars, childVars, H, par, owned>>

(* Mutant: the parent does not wait.                                       *)
WaitKidsNot(t) ==
    /\ Goto(t, "waitKids", "abort")
    /\ UNCHANGED <<listVars, handleVars, childVars, H, force, par, owned>>

WaitKids(t) ==
    /\ Goto(t, "waitKids", "abort")
    /\ children[H[t]] = {}
    /\ UNCHANGED <<listVars, handleVars, childVars, H, force, par, owned>>

(* fAbort and magic; VmmWork_Interrupt drops the units still queued.       *)
CloseAbort(t) ==
    LET dropped == {k \in Handles : Parent[k] = H[t] /\ pc[k] = "queued"} IN
    /\ pc[t] = "abort"
    /\ fAbort' = [fAbort EXCEPT ![H[t]] = TRUE]
    /\ pc' = [u \in Threads |-> IF u = t THEN "waitExt"
                                ELSE IF u \in dropped THEN "idle" ELSE pc[u]]
    /\ H' = [u \in Threads |-> IF u \in dropped THEN None ELSE H[u]]
    /\ UNCHANGED <<listVars, mem, dwHandleCount, cThreadExternal, childVars, force, par, owned>>

(* Mutant: the external calls are not waited for.                          *)
WaitExternalNot(t) ==
    /\ Goto(t, "waitExt", "waitInt")
    /\ UNCHANGED <<listVars, handleVars, childVars, H, force, par, owned>>

WaitExternal(t) ==
    /\ Goto(t, "waitExt", "waitInt")
    /\ cThreadExternal[H[t]] = 0
    /\ UNCHANGED <<listVars, handleVars, childVars, H, force, par, owned>>

(* Every worker has left its last unit before cThreadInternal is zero.     *)
WaitInternal(t) ==
    /\ Goto(t, "waitInt", "detach")
    /\ \A k \in Handles : Parent[k] = H[t] => pc[k] = "idle"
    /\ UNCHANGED <<listVars, handleVars, childVars, H, force, par, owned>>

(* VmmParentDetach: the entry goes under the lock of the parent ...        *)
Detach(t) ==
    LET h == H[t]  up == hParent[H[t]] IN
    /\ Goto(t, "detach", IF up = None \/ h \notin children[up] THEN "free" ELSE "notify")
    /\ par' = [par EXCEPT ![t] = up]
    /\ hParent' = [hParent EXCEPT ![h] = None]
    /\ children' = [q \in Handles |-> IF q = up THEN children[q] \ {h} ELSE children[q]]
    /\ UNCHANGED <<listVars, handleVars, childAbort, H, force, owned>>

(* ... and the parent is notified after the lock was released.             *)
DetachNotify(t) ==
    /\ Goto(t, "notify", "free")
    /\ par' = [par EXCEPT ![t] = None]
    /\ UNCHANGED <<listVars, handleVars, childVars, H, force, owned>>

Free(t) ==
    /\ CloseReturn(t, "free")
    /\ mem' = [mem EXCEPT ![H[t]] = "freed"]
    /\ UNCHANGED <<listVars, fAbort, dwHandleCount, cThreadExternal, childVars, force, par, owned>>

(***************************************************************************)
(* The specification.                                                      *)
(***************************************************************************)
Closing(t) ==
    \/ CloseHead(t) \/ CloseKids(t) \/ WaitKids(t) \/ CloseAbort(t)
    \/ WaitExternal(t) \/ WaitInternal(t) \/ Detach(t) \/ DetachNotify(t) \/ Free(t)

Initializing(t) ==
    \/ InitAdd(t) \/ InitSubsystems(t) \/ InitAttach(t) \/ InitAttachFail(t)
    \/ InitNotify(t) \/ InitDone(t) \/ InitFail(t)

UserBegins(t) ==
    \/ CloseAllStart(t)
    \/ \E h \in Handles :
        CallReserve(t, h) \/ DuplicateReserve(t, h) \/ InitAlloc(t, h) \/ UserClose(t, h)

UserGoesOn(t) ==
    \/ CallReturn(t) \/ DuplicateReturn(t) \/ Initializing(t) \/ CloseAllNext(t) \/ Closing(t)

UnitGoesOn(k) == UnitStart(k) \/ Closing(k)

Next ==
    \/ \E t \in Users : UserBegins(t) \/ UserGoesOn(t)
    \/ \E k \in Handles : UnitGoesOn(k)

Spec == Init /\ [][Next]_vars

(* A call that has begun goes on; nobody has to begin one.  The lock is    *)
(* fair enough that a thread waiting for it repeatedly gets it.            *)
FairSpec ==
    /\ Spec
    /\ \A t \in Users : SF_vars(UserGoesOn(t))
    /\ \A k \in Handles : SF_vars(UnitGoesOn(k))

(***************************************************************************)
(* Properties.                                                             *)
(***************************************************************************)
TypeOK ==
    /\ coreLock \in Users \cup {None}
    /\ slots \in [0..(MaxCount - 1) -> Handles \cup {None}] /\ count \in 0..MaxCount
    /\ mem \in [Handles -> {"none", "alloc", "freed"}] /\ fAbort \in [Handles -> BOOLEAN]
    /\ dwHandleCount \in [Handles -> Nat] /\ cThreadExternal \in [Handles -> Nat]
    /\ children \in [Handles -> SUBSET Handles] /\ childAbort \in [Handles -> BOOLEAN]
    /\ hParent \in [Handles -> Handles \cup {None}]
    /\ pc \in [Threads -> Pc] /\ H \in [Threads -> Handles \cup {None}]
    /\ force \in [Threads -> BOOLEAN] /\ par \in [Threads -> Handles \cup {None}]
    /\ owned \in [Handles -> Nat]

(* An API call that reserved a handle never works on freed memory, and     *)
(* the threads inside are the ones the handle counts.                      *)
CallsOnLiveHandle ==
    \A h \in Handles :
        LET inside == {t \in Users : pc[t] \in {"in", "dup"} /\ H[t] = h} IN
        /\ cThreadExternal[h] = Cardinality(inside)
        /\ inside # {} => mem[h] = "alloc"

(* A handle is torn down by one thread, and not while it is listed.        *)
Tearing(t) == pc[t] \in {"closeKids", "waitKids", "abort", "waitExt", "waitInt", "detach",
                         "notify", "free"}
TornDownOnce ==
    \A t \in Threads : Tearing(t) =>
        /\ ~Listed(H[t]) /\ mem[H[t]] = "alloc"
        /\ \A u \in Threads \ {t} : Tearing(u) => H[u] # H[t]

(* "hParent does not carry refcount but should be safe to use since parent *)
(* won't be deallocated when there are active childs" (vmm.h 1707-1708).   *)
ParentOutlivesChild ==
    \A h \in Handles : hParent[h] # None =>
        /\ mem[hParent[h]] = "alloc"
        /\ h \in children[hParent[h]] /\ mem[h] = "alloc"

(* An allocated handle is listed, or some thread is creating or closing    *)
(* it: nothing else could ever free it.                                    *)
NoLeak ==
    \A h \in Handles : mem[h] = "alloc" =>
        \/ Listed(h)
        \/ \E t \in Threads : H[t] = h /\ pc[t] \notin {"idle", "in", "dup", "queued"}

(* A handle that was taken off the allow-list is eventually freed.         *)
CloseEnds == \A h \in Handles :
    (\E t \in Threads : pc[t] = "closeKids" /\ H[t] = h) ~> (mem[h] = "freed")
=============================================================================
