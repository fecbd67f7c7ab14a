------------------------------ MODULE VmmWork ------------------------------
(***************************************************************************)
(* The work thread pool of src/vmm/vmmwork.c together with the shutdown    *)
(* sequence of VmmDllCore_CloseHandle (src/vmm/vmmdll_core.c) that stops   *)
(* it: worker threads, the threads that queue work units and wait for      *)
(* them, VmmWork_Interrupt, its repetition every 30 seconds, and           *)
(* VmmWork_Close.                                                          *)
(*                                                                         *)
(* An agent is whatever executes a call that queues work: an external API  *)
(* caller, or the body of a work unit that itself parallelizes.  The calls *)
(* of one agent are abstracted to the set of units it queues and to which  *)
(* of these it waits for.  Queues are sets: the LIFO order in which ObMap  *)
(* and ObSet pop is one of the orders the model allows.                    *)
(***************************************************************************)
EXTENDS Integers, FiniteSets

CONSTANTS
    Workers,    \* threads of the pool (VMM_WORK_THREADPOOL_NUM_THREADS)
    Callers,    \* external API threads
    Units,      \* work units that may be queued
    Batch,      \* Batch[a]: the units the agent a queues
    LowPrio,    \* units queued with VMMWORK_FLAG_PRIO_LOW
    Async,      \* units queued without an event or object to wait for
    LateStart,  \* may a created thread first be scheduled during shutdown?
    None        \* no worker, no unit

Agents == Callers \cup Units

ASSUME WorkersAssumption == IsFiniteSet(Workers) /\ Workers # {}
ASSUME AgentsAssumption  == IsFiniteSet(Callers) /\ Callers \cap Units = {}
(* A unit is an allocation of the call that queues it.                     *)
ASSUME BatchAssumption   ==
    /\ Batch \in [Agents -> SUBSET Units]
    /\ \A a, b \in Agents : a # b => Batch[a] \cap Batch[b] = {}
ASSUME UnitsAssumption   == LowPrio \subseteq Units /\ Async \subseteq Units
ASSUME NoneAssumption    == None \notin Workers \cup Units
ASSUME LateAssumption    == LateStart \in BOOLEAN

VARIABLES
    fAbort,             \* H->fAbort
    cThreadInternal,    \* H->cThreadInternal
    cThreadExternal,    \* H->cThreadExternal
    psThreadAvail, psThreadAll, psThreadExit,
    pmUnit, pmUnitLow,
    wpc,                \* program counter of each worker
    puOb,               \* unit held by each worker
    hEventWakeup,       \* wakeup event of each worker (manual reset)
    ref,                \* reference count of each unit object
    released,           \* units whose cleanup callback has run
    ran,                \* units whose body has been started
    apc,                \* program counter of each agent
    todo,               \* units the agent still has to queue
    ppu,                \* unit the agent is queueing
    pt,                 \* worker the agent popped from psThreadAvail
    cpc,                \* program counter of the closing thread
    cret,               \* where VmmWork_Interrupt returns to
    cpt                 \* worker the closing thread popped

flagVars   == <<fAbort, cThreadInternal, cThreadExternal>>
setVars    == <<psThreadAvail, psThreadAll, psThreadExit>>
queueVars  == <<pmUnit, pmUnitLow>>
workerVars == <<wpc, puOb, hEventWakeup>>
unitVars   == <<ref, released, ran>>
agentVars  == <<apc, todo, ppu, pt>>
closeVars  == <<cpc, cret, cpt>>
vars == <<flagVars, setVars, queueVars, workerVars, unitVars, agentVars, closeVars>>

WorkerPc == {"new", "loop", "pop", "size", "popLow", "run", "decref", "reset",
             "avail", "wait", "exitAll", "exitPush", "exitCount", "exited"}
AgentPc  == {"idle", "enter", "next", "check", "push", "wake", "signal", "decref",
             "wait", "done", "returned"}
ClosePc  == {"open", "removed", "intPop", "intSet", "intClear", "intClearLow",
             "waitExt", "waitInt", "closeWait", "closeClear", "closeExit", "freed"}

(* What a reference drop does: the count, and at zero the cleanup callback *)
(* which sets the finish event or drops the awaited object.                *)
Decref(S) ==
    /\ ref' = [u \in Units |-> IF u \in S THEN ref[u] - 1 ELSE ref[u]]
    /\ released' = released \cup {u \in S : ref[u] = 1}

Init ==
    /\ fAbort = FALSE
    /\ cThreadExternal = 0
    /\ psThreadAvail = {} /\ psThreadAll = Workers /\ psThreadExit = {}
    /\ pmUnit = {} /\ pmUnitLow = {}
    /\ \/ wpc = [w \in Workers |-> "loop"] /\ cThreadInternal = Cardinality(Workers)
       \/ LateStart /\ wpc = [w \in Workers |-> "new"] /\ cThreadInternal = 0
    /\ puOb = [w \in Workers |-> None]
    /\ hEventWakeup = [w \in Workers |-> FALSE]
    /\ ref = [u \in Units |-> 0] /\ released = {} /\ ran = {}
    /\ apc = [a \in Agents |-> "idle"] /\ todo = Batch
    /\ ppu = [a \in Agents |-> None] /\ pt = [a \in Agents |-> None]
    /\ cpc = "open" /\ cret = "waitExt" /\ cpt = None

(***************************************************************************)
(* A worker: VmmWork_MainWorkerLoop_ThreadProc.                            *)
(***************************************************************************)
Goto(w, from, to) == wpc[w] = from /\ wpc' = [wpc EXCEPT ![w] = to]

WorkerStart(w) ==
    /\ Goto(w, "new", "loop")
    /\ cThreadInternal' = cThreadInternal + 1
    /\ UNCHANGED <<fAbort, cThreadExternal, setVars, queueVars, puOb, hEventWakeup,
                   unitVars, agentVars, closeVars>>

WorkerLoop(w) ==
    /\ Goto(w, "loop", IF fAbort THEN "exitAll" ELSE "pop")
    /\ UNCHANGED <<flagVars, setVars, queueVars, puOb, hEventWakeup, unitVars,
                   agentVars, closeVars>>

(* The unit changes hands from the queue to the worker with its reference, *)
(* and its body starts.                                                    *)
TakeUnit(w, from, u) ==
    /\ Goto(w, from, "run")
    /\ puOb' = [puOb EXCEPT ![w] = u]
    /\ ran' = ran \cup {u}
    /\ apc' = [apc EXCEPT ![u] = "enter"]
    /\ UNCHANGED <<flagVars, setVars, hEventWakeup, ref, released, todo, ppu, pt, closeVars>>

WorkerPop(w) ==
    \E u \in pmUnit :
        /\ TakeUnit(w, "pop", u)
        /\ pmUnit' = pmUnit \ {u}
        /\ UNCHANGED pmUnitLow

WorkerPopEmpty(w) ==
    /\ pmUnit = {}
    /\ Goto(w, "pop", "size")
    /\ UNCHANGED <<flagVars, setVars, queueVars, puOb, hEventWakeup, unitVars,
                   agentVars, closeVars>>

(* Low priority work only if more than half of the pool is idle.           *)
WorkerSize(w) ==
    /\ Goto(w, "size", IF Cardinality(psThreadAvail) > Cardinality(Workers) \div 2
                       THEN "popLow" ELSE "reset")
    /\ UNCHANGED <<flagVars, setVars, queueVars, puOb, hEventWakeup, unitVars,
                   agentVars, closeVars>>

WorkerPopLow(w) ==
    \E u \in pmUnitLow :
        /\ TakeUnit(w, "popLow", u)
        /\ pmUnitLow' = pmUnitLow \ {u}
        /\ UNCHANGED pmUnit

WorkerPopLowEmpty(w) ==
    /\ pmUnitLow = {}
    /\ Goto(w, "popLow", "reset")
    /\ UNCHANGED <<flagVars, setVars, queueVars, puOb, hEventWakeup, unitVars,
                   agentVars, closeVars>>

(* The body of the unit has returned.                                      *)
WorkerRan(w) ==
    /\ Goto(w, "run", "decref")
    /\ apc[puOb[w]] = "done"
    /\ UNCHANGED <<flagVars, setVars, queueVars, puOb, hEventWakeup, unitVars,
                   agentVars, closeVars>>

WorkerDecref(w) ==
    /\ Goto(w, "decref", "loop")
    /\ Decref({puOb[w]})
    /\ puOb' = [puOb EXCEPT ![w] = None]
    /\ UNCHANGED <<flagVars, setVars, queueVars, hEventWakeup, ran, agentVars, closeVars>>

WorkerReset(w) ==
    /\ Goto(w, "reset", "avail")
    /\ hEventWakeup' = [hEventWakeup EXCEPT ![w] = FALSE]
    /\ UNCHANGED <<flagVars, setVars, queueVars, puOb, unitVars, agentVars, closeVars>>

WorkerAvail(w) ==
    /\ Goto(w, "avail", "wait")
    /\ psThreadAvail' = psThreadAvail \cup {w}
    /\ UNCHANGED <<flagVars, psThreadAll, psThreadExit, queueVars, puOb, hEventWakeup,
                   unitVars, agentVars, closeVars>>

(* Mutant: the woken worker goes back to sleep without a look at the queue. *)
WorkerWokenIdle(w) ==
    /\ hEventWakeup[w]
    /\ Goto(w, "wait", "reset")
    /\ UNCHANGED <<flagVars, setVars, queueVars, puOb, hEventWakeup, unitVars,
                   agentVars, closeVars>>

WorkerWoken(w) ==
    /\ hEventWakeup[w]
    /\ Goto(w, "wait", "loop")
    /\ UNCHANGED <<flagVars, setVars, queueVars, puOb, hEventWakeup, unitVars,
                   agentVars, closeVars>>

WorkerExitAll(w) ==
    /\ Goto(w, "exitAll", "exitPush")
    /\ psThreadAll' = psThreadAll \ {w}
    /\ UNCHANGED <<flagVars, psThreadAvail, psThreadExit, queueVars, puOb, hEventWakeup,
                   unitVars, agentVars, closeVars>>

WorkerExitPush(w) ==
    /\ Goto(w, "exitPush", "exitCount")
    /\ psThreadExit' = psThreadExit \cup {w}
    /\ UNCHANGED <<flagVars, psThreadAvail, psThreadAll, queueVars, puOb, hEventWakeup,
                   unitVars, agentVars, closeVars>>

WorkerExitCount(w) ==
    /\ Goto(w, "exitCount", "exited")
    /\ cThreadInternal' = cThreadInternal - 1
    /\ UNCHANGED <<fAbort, cThreadExternal, setVars, queueVars, puOb, hEventWakeup,
                   unitVars, agentVars, closeVars>>

Worker(w) ==
    \/ WorkerStart(w) \/ WorkerLoop(w)
    \/ WorkerPop(w) \/ WorkerPopEmpty(w)
    \/ WorkerSize(w) \/ WorkerPopLow(w) \/ WorkerPopLowEmpty(w)
    \/ WorkerRan(w) \/ WorkerDecref(w)
    \/ WorkerReset(w) \/ WorkerAvail(w) \/ WorkerWoken(w)
    \/ WorkerExitAll(w) \/ WorkerExitPush(w) \/ WorkerExitCount(w)

(***************************************************************************)
(* An agent that queues units and waits: VmmWork_Value, VmmWork_Ob,        *)
(* VmmWork_Void, VmmWorkWaitMultiple2_Void and one batch of                *)
(* VmmWork_ProcessActionForeachParallel_Void.                              *)
(***************************************************************************)
AGoto(a, from, to) == apc[a] = from /\ apc' = [apc EXCEPT ![a] = to]

(* VmmDllCore_HandleReserveExternal: the handle is in the allow-list until *)
(* the closing thread removes it.                                          *)
CallerReserve(c) ==
    /\ cpc = "open"
    /\ AGoto(c, "idle", "enter")
    /\ cThreadExternal' = cThreadExternal + 1
    /\ UNCHANGED <<fAbort, cThreadInternal, setVars, queueVars, workerVars, unitVars,
                   todo, ppu, pt, closeVars>>

CallerReturn(c) ==
    /\ AGoto(c, "done", "returned")
    /\ cThreadExternal' = cThreadExternal - 1
    /\ UNCHANGED <<fAbort, cThreadInternal, setVars, queueVars, workerVars, unitVars,
                   todo, ppu, pt, closeVars>>

(* VmmWorkWaitMultiple2_Void returns at once on an aborted handle.         *)
AgentEnter(a) ==
    /\ AGoto(a, "enter", IF fAbort THEN "done" ELSE "next")
    /\ UNCHANGED <<flagVars, setVars, queueVars, workerVars, unitVars, todo, ppu, pt,
                   closeVars>>

(* Allocation of the next unit object, with one reference.                 *)
AgentAlloc(a) ==
    /\ AGoto(a, "next", "check")
    /\ \E u \in todo[a] :
        /\ ppu' = [ppu EXCEPT ![a] = u]
        /\ todo' = [todo EXCEPT ![a] = @ \ {u}]
        /\ ref' = [ref EXCEPT ![u] = 1]
    /\ UNCHANGED <<flagVars, setVars, queueVars, workerVars, released, ran, pt, closeVars>>

AgentAllQueued(a) ==
    /\ todo[a] = {}
    /\ AGoto(a, "next", "wait")
    /\ UNCHANGED <<flagVars, setVars, queueVars, workerVars, unitVars, todo, ppu, pt,
                   closeVars>>

(* VmmWork_QueueWorkUnit_DECREF_NULL: the abort check comes before the     *)
(* push, and nothing holds the two together.                               *)
AgentCheck(a) ==
    /\ AGoto(a, "check", IF fAbort THEN "decref" ELSE "push")
    /\ UNCHANGED <<flagVars, setVars, queueVars, workerVars, unitVars, todo, ppu, pt,
                   closeVars>>

(* Mutant: the queue takes the pointer without a reference of its own.     *)
AgentPushNoIncref(a) ==
    /\ AGoto(a, "push", "wake")
    /\ IF ppu[a] \in LowPrio
       THEN pmUnitLow' = pmUnitLow \cup {ppu[a]} /\ UNCHANGED pmUnit
       ELSE pmUnit' = pmUnit \cup {ppu[a]} /\ UNCHANGED pmUnitLow
    /\ UNCHANGED <<flagVars, setVars, workerVars, unitVars, todo, ppu, pt, closeVars>>

AgentPush(a) ==
    /\ AGoto(a, "push", "wake")
    /\ IF ppu[a] \in LowPrio
       THEN pmUnitLow' = pmUnitLow \cup {ppu[a]} /\ UNCHANGED pmUnit
       ELSE pmUnit' = pmUnit \cup {ppu[a]} /\ UNCHANGED pmUnitLow
    /\ ref' = [ref EXCEPT ![ppu[a]] = @ + 1]
    /\ UNCHANGED <<flagVars, setVars, workerVars, released, ran, todo, ppu, pt, closeVars>>

(* Mutant: the worker is popped and its event is not set.                  *)
AgentWakeUnsignalled(a) ==
    /\ AGoto(a, "wake", "decref")
    /\ \E w \in psThreadAvail : psThreadAvail' = psThreadAvail \ {w}
    /\ UNCHANGED <<flagVars, psThreadAll, psThreadExit, queueVars, workerVars, unitVars,
                   todo, ppu, pt, closeVars>>

AgentWake(a) ==
    /\ AGoto(a, "wake", "signal")
    /\ \E w \in psThreadAvail :
        /\ psThreadAvail' = psThreadAvail \ {w}
        /\ pt' = [pt EXCEPT ![a] = w]
    /\ UNCHANGED <<flagVars, psThreadAll, psThreadExit, queueVars, workerVars, unitVars,
                   todo, ppu, closeVars>>

AgentWakeNone(a) ==
    /\ psThreadAvail = {}
    /\ AGoto(a, "wake", "decref")
    /\ UNCHANGED <<flagVars, setVars, queueVars, workerVars, unitVars, todo, ppu, pt,
                   closeVars>>

AgentSignal(a) ==
    /\ AGoto(a, "signal", "decref")
    /\ hEventWakeup' = [hEventWakeup EXCEPT ![pt[a]] = TRUE]
    /\ pt' = [pt EXCEPT ![a] = None]
    /\ UNCHANGED <<flagVars, setVars, queueVars, wpc, puOb, unitVars, todo, ppu, closeVars>>

AgentDecref(a) ==
    /\ AGoto(a, "decref", "next")
    /\ Decref({ppu[a]})
    /\ ppu' = [ppu EXCEPT ![a] = None]
    /\ UNCHANGED <<flagVars, setVars, queueVars, workerVars, ran, todo, pt, closeVars>>

(* Mutant: bWaitAll is FALSE.                                              *)
AgentWaitedAny(a) ==
    /\ Batch[a] \ Async = {} \/ (Batch[a] \ Async) \cap released # {}
    /\ AGoto(a, "wait", "done")
    /\ UNCHANGED <<flagVars, setVars, queueVars, workerVars, unitVars, todo, ppu, pt,
                   closeVars>>

(* WaitForMultipleObjects / WaitForSingleObject, INFINITE.                 *)
AgentWaited(a) ==
    /\ (Batch[a] \ Async) \subseteq released
    /\ AGoto(a, "wait", "done")
    /\ UNCHANGED <<flagVars, setVars, queueVars, workerVars, unitVars, todo, ppu, pt,
                   closeVars>>

Agent(a) ==
    \/ AgentEnter(a) \/ AgentAlloc(a) \/ AgentAllQueued(a) \/ AgentCheck(a)
    \/ AgentPush(a) \/ AgentWake(a) \/ AgentWakeNone(a) \/ AgentSignal(a)
    \/ AgentDecref(a) \/ AgentWaited(a)

(***************************************************************************)
(* The closing thread: VmmDllCore_CloseHandle, VmmWork_Interrupt and       *)
(* VmmWork_Close.                                                          *)
(***************************************************************************)
CGoto(from, to) == cpc = from /\ cpc' = to

CloseRemove ==
    /\ CGoto("open", "removed")
    /\ UNCHANGED <<flagVars, setVars, queueVars, workerVars, unitVars, agentVars, cret, cpt>>

CloseAbort ==
    /\ CGoto("removed", "intPop")
    /\ fAbort' = TRUE
    /\ UNCHANGED <<cThreadInternal, cThreadExternal, setVars, queueVars, workerVars,
                   unitVars, agentVars, cret, cpt>>

InterruptPop ==
    /\ CGoto("intPop", "intSet")
    /\ \E w \in psThreadAvail : psThreadAvail' = psThreadAvail \ {w} /\ cpt' = w
    /\ UNCHANGED <<flagVars, psThreadAll, psThreadExit, queueVars, workerVars, unitVars,
                   agentVars, cret>>

InterruptSet ==
    /\ CGoto("intSet", "intPop")
    /\ hEventWakeup' = [hEventWakeup EXCEPT ![cpt] = TRUE]
    /\ cpt' = None
    /\ UNCHANGED <<flagVars, setVars, queueVars, wpc, puOb, unitVars, agentVars, cret>>

InterruptPopEmpty ==
    /\ psThreadAvail = {}
    /\ CGoto("intPop", "intClear")
    /\ UNCHANGED <<flagVars, setVars, queueVars, workerVars, unitVars, agentVars, cret, cpt>>

InterruptClear ==
    /\ CGoto("intClear", "intClearLow")
    /\ pmUnit' = {} /\ Decref(pmUnit)
    /\ UNCHANGED <<flagVars, setVars, pmUnitLow, workerVars, ran, agentVars, cret, cpt>>

InterruptClearLow ==
    /\ CGoto("intClearLow", cret)
    /\ pmUnitLow' = {} /\ Decref(pmUnitLow)
    /\ UNCHANGED <<flagVars, setVars, pmUnit, workerVars, ran, agentVars, cret, cpt>>

CloseExternalZero ==
    /\ cThreadExternal = 0
    /\ CGoto("waitExt", "waitInt")
    /\ cret' = "waitInt"
    /\ UNCHANGED <<flagVars, setVars, queueVars, workerVars, unitVars, agentVars, cpt>>

(* Mutant: only the wait for external threads repeats the interrupt.       *)
CloseRetryExternal ==
    /\ cThreadExternal # 0
    /\ CGoto("waitExt", "intPop")
    /\ UNCHANGED <<flagVars, setVars, queueVars, workerVars, unitVars, agentVars, cret, cpt>>

(* Thirty seconds have passed and the awaited count is still not zero.     *)
CloseRetry ==
    /\ \/ CGoto("waitExt", "intPop") /\ cThreadExternal # 0
       \/ CGoto("waitInt", "intPop") /\ cThreadInternal # 0
    /\ UNCHANGED <<flagVars, setVars, queueVars, workerVars, unitVars, agentVars, cret, cpt>>

(* Mutant: VmmWork_Close alone waits for the workers.                      *)
CloseInternalAny ==
    /\ CGoto("waitInt", "closeWait")
    /\ UNCHANGED <<flagVars, setVars, queueVars, workerVars, unitVars, agentVars, cret, cpt>>

CloseInternalZero ==
    /\ cThreadInternal = 0
    /\ CGoto("waitInt", "closeWait")
    /\ UNCHANGED <<flagVars, setVars, queueVars, workerVars, unitVars, agentVars, cret, cpt>>

(* VmmWork_Close wakes whoever is still in psThreadAll ...                 *)
CloseSignal ==
    /\ cpc = "closeWait"
    /\ \E w \in psThreadAll : hEventWakeup' = [hEventWakeup EXCEPT ![w] = TRUE]
    /\ UNCHANGED <<flagVars, setVars, queueVars, wpc, puOb, unitVars, agentVars, closeVars>>

(* ... until the set is empty, then frees everything.                      *)
CloseAllGone ==
    /\ psThreadAll = {}
    /\ CGoto("closeWait", "closeClear")
    /\ UNCHANGED <<flagVars, setVars, queueVars, workerVars, unitVars, agentVars, cret, cpt>>

CloseClear ==
    /\ CGoto("closeClear", "closeExit")
    /\ pmUnit' = {} /\ pmUnitLow' = {} /\ Decref(pmUnit \cup pmUnitLow)
    /\ UNCHANGED <<flagVars, setVars, workerVars, ran, agentVars, cret, cpt>>

CloseFree ==
    /\ CGoto("closeExit", "freed")
    /\ psThreadExit' = {} /\ psThreadAvail' = {}
    /\ UNCHANGED <<flagVars, psThreadAll, queueVars, workerVars, unitVars, agentVars,
                   cret, cpt>>

Close ==
    \/ CloseRemove \/ CloseAbort
    \/ InterruptPop \/ InterruptSet \/ InterruptPopEmpty \/ InterruptClear \/ InterruptClearLow
    \/ CloseExternalZero \/ CloseRetry \/ CloseInternalZero
    \/ CloseSignal \/ CloseAllGone \/ CloseClear \/ CloseFree

(* The handle and its pool are gone: nothing is left to happen.            *)
Terminated == cpc = "freed" /\ UNCHANGED vars

Next ==
    \/ \E w \in Workers : Worker(w)
    \/ \E c \in Callers : CallerReserve(c) \/ CallerReturn(c)
    \/ \E a \in Agents : Agent(a)
    \/ Close
    \/ Terminated

Spec == Init /\ [][Next]_vars

(* Every thread that can run eventually does, and the closing thread keeps *)
(* looping; nobody is obliged to make a call or to close the handle.       *)
Fairness ==
    /\ \A w \in Workers : WF_vars(Worker(w))
    /\ \A c \in Callers : WF_vars(CallerReturn(c))
    /\ \A a \in Agents : WF_vars(Agent(a))
    /\ WF_vars(Close /\ cpc # "open")

FairSpec == Spec /\ Fairness

(***************************************************************************)
(* Properties.                                                             *)
(***************************************************************************)
TypeOK ==
    /\ fAbort \in BOOLEAN /\ cThreadInternal \in Nat /\ cThreadExternal \in Nat
    /\ psThreadAvail \subseteq Workers /\ psThreadAll \subseteq Workers
    /\ psThreadExit \subseteq Workers
    /\ pmUnit \subseteq Units /\ pmUnitLow \subseteq Units
    /\ wpc \in [Workers -> WorkerPc]
    /\ puOb \in [Workers -> Units \cup {None}]
    /\ hEventWakeup \in [Workers -> BOOLEAN]
    /\ ref \in [Units -> Int] /\ released \subseteq Units /\ ran \subseteq Units
    /\ apc \in [Agents -> AgentPc] /\ todo \in [Agents -> SUBSET Units]
    /\ ppu \in [Agents -> Units \cup {None}] /\ pt \in [Agents -> Workers \cup {None}]
    /\ cpc \in ClosePc /\ cret \in {"waitExt", "waitInt"} /\ cpt \in Workers \cup {None}

(* A worker that sleeps on a wakeup event which is not set can still be    *)
(* woken: psThreadAvail holds it, or somebody popped it and is about to    *)
(* set the event.  This is why the worker resets the event before it       *)
(* enters psThreadAvail and not after (vmmwork.c 78-80).                   *)
SleepersReachable ==
    \A w \in Workers : (wpc[w] = "wait" /\ ~hEventWakeup[w]) =>
        \/ w \in psThreadAvail
        \/ \E a \in Agents : pt[a] = w
        \/ cpt = w

(* The reference count of a unit is the number of its holders - the agent  *)
(* that queues it, the queue, the worker that runs it - in every           *)
(* interleaving of push, pop, run, clear and drop, and the cleanup         *)
(* callback has run exactly when the last holder of a unit has gone.       *)
Holders(u) ==
      Cardinality({a \in Agents : ppu[a] = u})
    + Cardinality({w \in Workers : puOb[w] = u})
    + (IF u \in pmUnit \cup pmUnitLow THEN 1 ELSE 0)
RefsAreHolders ==
    \A u \in Units : ref[u] = Holders(u) /\ (u \in released => ref[u] = 0)

(* When a call that waits for its units has returned, no unit of it is     *)
(* queued or running: the units use contexts on the stack of the caller.   *)
NoUnitOutlivesCall ==
    \A a \in Agents : apc[a] \in {"done", "returned"} =>
        \A u \in Batch[a] \ Async :
            u \notin pmUnit \cup pmUnitLow /\ \A w \in Workers : puOb[w] # u

(* "(2) wait for worker threads to exit (done on abort) when completed no  *)
(* threads except this one should access the handle"                       *)
(* (vmmdll_core.c 259-260): once the pool and the handle are freed, every  *)
(* worker has done its last access to them and no external call is inside. *)
NoAccessAfterFree ==
    cpc = "freed" =>
        /\ \A w \in Workers : wpc[w] = "exited"
        /\ \A c \in Callers : apc[c] \in {"idle", "returned"}

(* The shutdown ends: once the abort flag is set the handle is eventually  *)
(* freed, although workers fall asleep and units are queued after the      *)
(* interrupt that should have woken the ones and released the others.      *)
ShutdownEnds == fAbort ~> (cpc = "freed")

(* A unit of normal priority whose queueing popped a sleeping worker is    *)
(* taken by some worker, or the handle is being closed.  A low priority    *)
(* unit need not be: the woken worker looks at the pool again, may find    *)
(* too few others asleep (vmmwork.c 63) and goes back to sleep.            *)
WokenUnitTaken ==
    \A u \in Units \ LowPrio :
        (\E a \in Agents : apc[a] = "signal" /\ ppu[a] = u) ~> (u \in ran \/ fAbort)
=============================================================================
