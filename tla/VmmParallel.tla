---------------------------- MODULE VmmParallel ----------------------------
(***************************************************************************)
(* VmmWork_ProcessActionForeachParallel_Void (src/vmm/vmmwork.c): a caller *)
(* hands the selected processes to the work pool in batches.  The units of *)
(* a batch share one reference counted object, take their process from its *)
(* table by decrementing an index, and drop their reference; the callback  *)
(* that runs when the count came down to 1 sets the event for which the    *)
(* caller waits before it refills the table.                               *)
(*                                                                         *)
(* The event is the one of OsEvent, with every step of its futex lock; the *)
(* pool is the queue of low priority units, its workers, and a thread that *)
(* closes the handle.  VmmWork has every step of a worker that goes to     *)
(* sleep; here to reset its event, to enter psThreadAvail and to wait is   *)
(* one step, and to pop a worker, to set its event and to return from the  *)
(* wait is one: between them nobody else looks at what they change.  A     *)
(* unit's own count is not repeated: its reference to the object is        *)
(* dropped by the worker that ran it, or by the interrupt that removes it. *)
(***************************************************************************)
EXTENDS Integers, FiniteSets, Sequences

CONSTANTS
    Workers,    \* threads of the pool
    Caller, Closer,
    MaxProc,    \* bound on the processes that are selected
    MaxThread,  \* cMaxThread, the size of a batch
    Half        \* VMM_WORK_THREADPOOL_NUM_THREADS / 2

Threads == Workers \cup {Caller, Closer}

(* A process is named by its place in pObProcessSelectedSet.               *)
Procs == 1..MaxProc

ASSUME ThreadsAssumption == IsFiniteSet(Workers) /\ Caller # Closer /\ {Caller, Closer} \cap Workers = {}
ASSUME ProcAssumption == MaxProc \in Nat
ASSUME MaxAssumption == MaxThread \in Nat \ {0, 1}
ASSUME HalfAssumption == Half \in Nat /\ Half + 1 < Cardinality(Workers)

VARIABLES
    xchg, c, epc, timed,    \* the event hEventFinish, and where threads are inside it
    at,                     \* where each thread is
    fAbort,                 \* H->fAbort
    selected, left,         \* pObProcessSelectedSet; units still to queue
    iPID, dwPIDs, count,    \* ctxOb: index, table, reference count
    freed,                  \* has ctxOb, with its event, been freed?
    queue,                  \* units in pmUnitLow
    idx,                    \* index that a worker took
    taken,                  \* history: how often a process was handed out
    chosen                  \* history: the processes that were selected

eventVars == <<xchg, c, epc, timed>>
ctxVars == <<iPID, dwPIDs, count, freed>>
vars == <<eventVars, at, fAbort, selected, left, ctxVars, queue, idx, taken, chosen>>

E == INSTANCE OsEvent WITH pc <- epc, Nobody <- Closer

(* Steps 1 and 2: the caller has selected processes and created ctxOb; the *)
(* workers are through with what they did before.                          *)
Init ==
    /\ E!CreateEvent
    /\ at = [t \in Threads |-> IF t = Caller THEN "batch" ELSE "idle"]
    /\ fAbort = FALSE /\ left = 0
    /\ \E n \in 0..MaxProc : chosen = 1..n /\ selected = [i \in 1..n |-> i]
    /\ iPID = 0 /\ dwPIDs = <<>> /\ count = 1 /\ freed = FALSE
    /\ queue = 0 /\ idx = [w \in Workers |-> 0]
    /\ taken = [p \in Procs |-> 0]

psThreadAvail == {w \in Workers : at[w] = "sleep"}

Goto(t, from, to) == at[t] = from /\ at' = [at EXCEPT ![t] = to]

(* Ob_XDECREF of ctxOb: the callbacks at 1 and at 0 run in the thread that *)
(* brought the count there; the one at 0 closes the event.                 *)
Decref(t, from, to) ==
    /\ Goto(t, from, IF count - 1 = 1 THEN "signal" ELSE to)
    /\ count' = count - 1
    /\ freed' = (count - 1 = 0)

(* Where a thread goes on after the callback at 1.                         *)
After == [t \in Threads |-> IF t = Caller THEN "wait" ELSE IF t = Closer THEN "drain" ELSE "idle"]

(* VmmWork_CallbackCleanup1_ObVmmWorkForeachProcess.                       *)
Signal(t) ==
    /\ Goto(t, "signal", "signalled")
    /\ E!SetEvent(t)
    /\ UNCHANGED <<fAbort, selected, left, ctxVars, queue, idx, taken, chosen>>

SignalReturn(t) ==
    /\ epc[t] = "out"
    /\ Goto(t, "signalled", After[t])
    /\ UNCHANGED <<eventVars, fAbort, selected, left, ctxVars, queue, idx, taken, chosen>>

(* Steps inside the event: the lock taken or tried, the release's tail.    *)
EventStep(t) ==
    /\ \/ at[t] = "waiting" /\ (E!WaitStep(t) \/ E!WaitPass(t))
       \/ at[t] = "resetting" /\ E!ResetStep(t)
       \/ E!ReleaseTail(t)
    /\ UNCHANGED <<at, fAbort, selected, left, ctxVars, queue, idx, taken, chosen>>

----------------------------------------------------------------------------
(* The caller.  ObSet_Pop takes from the end.                              *)
Batch(n) == [i \in 0..(n - 1) |-> selected[Len(selected) - i]]

(* Mutant: the loop that queues the units of a batch ends one too early.   *)
FillFewer ==
    /\ selected # <<>> /\ Goto(Caller, "batch", "queue")
    /\ LET n == IF Len(selected) < MaxThread THEN Len(selected) ELSE MaxThread IN
        /\ iPID' = n /\ dwPIDs' = Batch(n) /\ left' = n - 1
        /\ selected' = SubSeq(selected, 1, Len(selected) - n)
    /\ count' = count + 1
    /\ UNCHANGED <<eventVars, fAbort, freed, queue, idx, taken, chosen>>

Fill ==
    /\ selected # <<>> /\ Goto(Caller, "batch", "queue")
    /\ LET n == IF Len(selected) < MaxThread THEN Len(selected) ELSE MaxThread IN
        /\ iPID' = n /\ dwPIDs' = Batch(n) /\ left' = n
        /\ selected' = SubSeq(selected, 1, Len(selected) - n)
    /\ count' = count + 1
    /\ UNCHANGED <<eventVars, fAbort, freed, queue, idx, taken, chosen>>

NoMore ==
    /\ selected = <<>> /\ Goto(Caller, "batch", "end")
    /\ UNCHANGED <<eventVars, fAbort, selected, left, ctxVars, queue, idx, taken, chosen>>

(* VmmWork_Ob takes a reference for the unit; VmmWork_QueueWorkUnit drops  *)
(* it again when the handle is closing.                                    *)
QueueCheck ==
    /\ left > 0
    /\ Goto(Caller, "queue", IF fAbort THEN "queue" ELSE "push")
    /\ left' = left - 1
    /\ count' = IF fAbort THEN count ELSE count + 1
    /\ UNCHANGED <<eventVars, fAbort, selected, iPID, dwPIDs, freed, queue, idx, taken, chosen>>

QueuePush ==
    /\ Goto(Caller, "push", "wake")
    /\ queue' = queue + 1
    /\ UNCHANGED <<eventVars, fAbort, selected, left, ctxVars, idx, taken, chosen>>

(* The caller, or whoever queued a unit, wakes a sleeping worker if there  *)
(* is one; at[t] becomes "to".                                             *)
Wake(t, from, to) ==
    /\ at[t] = from
    /\ \/ psThreadAvail = {} /\ at' = [at EXCEPT ![t] = to]
       \/ \E w \in psThreadAvail : at' = [at EXCEPT ![t] = to, ![w] = "idle"]

QueueWake ==
    /\ Wake(Caller, "wake", "queue")
    /\ UNCHANGED <<eventVars, fAbort, selected, left, ctxVars, queue, idx, taken, chosen>>

QueueDone ==
    /\ left = 0
    /\ Decref(Caller, "queue", "wait")
    /\ UNCHANGED <<eventVars, fAbort, selected, left, iPID, dwPIDs, queue, idx, taken, chosen>>

Wait ==
    /\ Goto(Caller, "wait", "waiting")
    /\ E!WaitForSingleObject(Caller)
    /\ UNCHANGED <<fAbort, selected, left, ctxVars, queue, idx, taken, chosen>>

(* Mutant: the event is not reset between two batches.                     *)
WaitReturnNoReset ==
    /\ epc[Caller] = "out" /\ Goto(Caller, "waiting", "check")
    /\ UNCHANGED <<eventVars, fAbort, selected, left, ctxVars, queue, idx, taken, chosen>>

WaitReturn ==
    /\ epc[Caller] = "out" /\ Goto(Caller, "waiting", "reset")
    /\ UNCHANGED <<eventVars, fAbort, selected, left, ctxVars, queue, idx, taken, chosen>>

Reset ==
    /\ Goto(Caller, "reset", "resetting")
    /\ E!ResetEvent(Caller)
    /\ UNCHANGED <<fAbort, selected, left, ctxVars, queue, idx, taken, chosen>>

ResetReturn ==
    /\ epc[Caller] = "out" /\ Goto(Caller, "resetting", "check")
    /\ UNCHANGED <<eventVars, fAbort, selected, left, ctxVars, queue, idx, taken, chosen>>

CheckAbort ==
    /\ Goto(Caller, "check", IF fAbort THEN "end" ELSE "batch")
    /\ UNCHANGED <<eventVars, fAbort, selected, left, ctxVars, queue, idx, taken, chosen>>

End ==
    /\ Decref(Caller, "end", "done")
    /\ UNCHANGED <<eventVars, fAbort, selected, left, iPID, dwPIDs, queue, idx, taken, chosen>>

CallerStep ==
    \/ Fill \/ NoMore \/ QueueCheck \/ QueuePush \/ QueueWake \/ QueueDone \/ Wait \/ WaitReturn
    \/ Reset \/ ResetReturn \/ CheckAbort \/ End

----------------------------------------------------------------------------
(* A worker looks at the abort flag (one that finds it set leaves), at the *)
(* normal units, of which this call has none, and at psThreadAvail: it     *)
(* takes low priority work only if more than half of the pool sleeps.      *)
WorkerLoop(w) ==
    /\ ~fAbort
    /\ Goto(w, "idle", IF Cardinality(psThreadAvail) > Half THEN "pop" ELSE "avail")
    /\ UNCHANGED <<eventVars, fAbort, selected, left, ctxVars, queue, idx, taken, chosen>>

WorkerPop(w) ==
    /\ queue > 0 /\ Goto(w, "pop", "unit")
    /\ queue' = queue - 1
    /\ UNCHANGED <<eventVars, fAbort, selected, left, ctxVars, idx, taken, chosen>>

WorkerPopEmpty(w) ==
    /\ queue = 0 /\ Goto(w, "pop", "avail")
    /\ UNCHANGED <<eventVars, fAbort, selected, left, ctxVars, queue, idx, taken, chosen>>

WorkerSleep(w) ==
    /\ Goto(w, "avail", "sleep")
    /\ UNCHANGED <<eventVars, fAbort, selected, left, ctxVars, queue, idx, taken, chosen>>

(* Units of other calls: who queues one wakes a worker; one that runs      *)
(* keeps its worker from going on.                                         *)
OtherWake ==
    /\ \E w \in Workers : Goto(w, "sleep", "idle")
    /\ UNCHANGED <<eventVars, fAbort, selected, left, ctxVars, queue, idx, taken, chosen>>

(* Mutant: two units may take the same index.                              *)
TakeIndexStale(w) ==
    /\ Goto(w, "unit", "get")
    /\ \E i \in {iPID, iPID - 1} : iPID' = i
    /\ idx' = [idx EXCEPT ![w] = iPID - 1]
    /\ UNCHANGED <<eventVars, fAbort, selected, left, dwPIDs, count, freed, queue, taken, chosen>>

(* InterlockedDecrement(&ctx->iPID), then the read of ctx->dwPIDs.         *)
TakeIndex(w) ==
    /\ Goto(w, "unit", "get")
    /\ iPID' = iPID - 1
    /\ idx' = [idx EXCEPT ![w] = iPID - 1]
    /\ UNCHANGED <<eventVars, fAbort, selected, left, dwPIDs, count, freed, queue, taken, chosen>>

TakeProcess(w) ==
    /\ Goto(w, "get", "act")
    /\ taken' = IF idx[w] \in DOMAIN dwPIDs THEN [taken EXCEPT ![dwPIDs[idx[w]]] = @ + 1] ELSE taken
    /\ UNCHANGED <<eventVars, fAbort, selected, left, ctxVars, queue, idx, chosen>>

(* The action ended; freeing the unit drops its reference to ctxOb.        *)
WorkerDrop(w) ==
    /\ Decref(w, "act", "idle")
    /\ UNCHANGED <<eventVars, fAbort, selected, left, iPID, dwPIDs, queue, idx, taken, chosen>>

WorkerStep(w) ==
    \/ WorkerLoop(w) \/ WorkerPop(w) \/ WorkerPopEmpty(w)
    \/ WorkerSleep(w) \/ TakeIndex(w) \/ TakeProcess(w) \/ WorkerDrop(w)

----------------------------------------------------------------------------
(* The thread that closes the handle: abort, then VmmWork_Interrupt again  *)
(* and again, which wakes the sleeping workers and then frees the units    *)
(* that are still queued.                                                  *)
Abort ==
    /\ Goto(Closer, "idle", "interrupt")
    /\ fAbort' = TRUE
    /\ UNCHANGED <<eventVars, selected, left, ctxVars, queue, idx, taken, chosen>>

InterruptPop ==
    /\ Wake(Closer, "interrupt", IF psThreadAvail = {} THEN "drain" ELSE "interrupt")
    /\ UNCHANGED <<eventVars, fAbort, selected, left, ctxVars, queue, idx, taken, chosen>>

(* Mutant: the interrupt forgets the units instead of freeing them.        *)
DrainForget ==
    /\ queue > 0 /\ Goto(Closer, "drain", "drain")
    /\ queue' = queue - 1
    /\ UNCHANGED <<eventVars, fAbort, selected, left, ctxVars, idx, taken, chosen>>

Drain ==
    /\ queue > 0 /\ Decref(Closer, "drain", "drain")
    /\ queue' = queue - 1
    /\ UNCHANGED <<eventVars, fAbort, selected, left, iPID, dwPIDs, idx, taken, chosen>>

(* Thirty seconds later, as the call or the workers are not through.       *)
InterruptAgain ==
    /\ queue = 0 /\ Goto(Closer, "drain", "interrupt")
    /\ UNCHANGED <<eventVars, fAbort, selected, left, ctxVars, queue, idx, taken, chosen>>

CloserStep == InterruptPop \/ Drain \/ InterruptAgain

Terminated == at[Caller] = "done" /\ UNCHANGED vars

Step(t) ==
    \/ EventStep(t) \/ Signal(t) \/ SignalReturn(t)
    \/ t = Caller /\ CallerStep
    \/ t \in Workers /\ WorkerStep(t)
    \/ t = Closer /\ CloserStep

Next == Abort \/ OtherWake \/ Terminated \/ \E t \in Threads : Step(t)

Spec == Init /\ [][Next]_vars

(* Threads that can run do; nothing makes the handle close.                *)
FairSpec == Spec /\ \A t \in Threads : WF_vars(Step(t))

(***************************************************************************)
(* Properties.                                                             *)
(***************************************************************************)
Busy == {w \in Workers : at[w] \in {"unit", "get", "act"}}

(* The caller refills the table, or lets go of it, only when no unit of    *)
(* the batch is queued or running: the count comes down to 1 exactly once  *)
(* for a batch, after its last unit (vmmwork.c 357-365).  Once the object  *)
(* is freed nobody starts an operation on its event, though the thread     *)
(* that set it may still be in the tail of its release.                    *)
BatchIntact ==
    /\ at[Caller] \in {"reset", "resetting", "check", "batch", "end", "done"} =>
        queue = 0 /\ Busy = {}
    /\ freed => \A t \in Threads : at[t] # "signal" /\ epc[t] \in {"out", "relDec", "relWake"}

(* Every unit finds a process of its own in the table; without an abort    *)
(* exactly the processes that were selected, those of every batch, have    *)
(* been handed out when the call returns.                                  *)
HandedOutOnce ==
    /\ \A w \in Workers : at[w] = "get" => idx[w] \in DOMAIN dwPIDs
    /\ \A p \in Procs : taken[p] <= IF p \in chosen THEN 1 ELSE 0
    /\ at[Caller] = "done" /\ ~fAbort => \A p \in chosen : taken[p] = 1

(* The event on the futex lock is, in this use, the abstract event: set    *)
(* when the last unit is through, and never lost on the waiting caller.    *)
Promise == INSTANCE Event WITH set <- E!isSet, waiting <- E!waiters
EventSpec == Promise!Spec

(* The call returns once the handle is closed.  While the handle stays     *)
(* open it returns as well, or else its last units stay queued over a pool *)
(* in which every worker sleeps: each of those that were awake together    *)
(* found too few asleep (vmmwork.c 63).  The next unit that somebody else  *)
(* queues wakes a worker and ends this; here others have stopped queueing. *)
AllAsleep == queue > 0 /\ psThreadAvail = Workers
ForeachEnds ==
    /\ fAbort ~> at[Caller] = "done"
    /\ <>[][~OtherWake]_vars => <>(at[Caller] = "done") \/ <>[]AllAsleep
=============================================================================
