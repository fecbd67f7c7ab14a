--------------------------- MODULE VmmWork_proofs ---------------------------
(***************************************************************************)
(* No sleeping worker is forgotten, the counts of units are exact, no unit *)
(* outlives the call that waits for it and nobody touches the pool after   *)
(* it was freed: for any number of workers, callers and units and any way  *)
(* in which units queue further units.                                     *)
(***************************************************************************)
EXTENDS VmmWork, FiniteSetTheorems, TLAPS

Queueing(u) == \E a \in Agents : ppu[a] = u
Running(u)  == \E w \in Workers : puOb[w] = u
Queued(u)   == u \in pmUnit \cup pmUnitLow

(* A unit that its caller has not allocated yet.                           *)
Fresh(u) == \A a \in Agents : u \in Batch[a] => u \in todo[a]

(* What a thread holds says where it is.                                   *)
Held ==
    /\ \A a \in Agents :
        /\ ppu[a] # None <=> apc[a] \in {"check", "push", "wake", "signal", "decref"}
        /\ ppu[a] # None => ppu[a] \in Batch[a] /\ ppu[a] \notin todo[a]
        /\ pt[a] # None <=> apc[a] = "signal"
    /\ \A w \in Workers : puOb[w] # None <=> wpc[w] \in {"run", "decref"}
    /\ cpt # None <=> cpc = "intSet"

(* A call has queued none of its units when it starts or returns early,    *)
(* and else returns when they are released.                                *)
Calls ==
    \A a \in Agents :
        /\ todo[a] \subseteq Batch[a]
        /\ apc[a] \in {"idle", "enter"} => todo[a] = Batch[a]
        /\ apc[a] \in {"done", "returned"} =>
             todo[a] = Batch[a] \/ Batch[a] \ Async \subseteq released

(* A unit is queued once and runs once.                                    *)
Once ==
    /\ \A u \in Units :
        /\ Fresh(u) => ~Queued(u) /\ u \notin ran /\ u \notin released
        /\ \A a \in Agents : ppu[a] = u /\ apc[a] \in {"check", "push"} =>
             ~Queued(u) /\ u \notin ran
        /\ Queued(u) => u \notin ran
        /\ Running(u) => u \in ran
        /\ u \notin ran => apc[u] = "idle"
    /\ \A v, w \in Workers : puOb[v] = puOb[w] /\ puOb[v] # None => v = w
    /\ pmUnitLow \subseteq LowPrio /\ pmUnit \cap LowPrio = {}

Bit(b) == IF b THEN 1 ELSE 0
Counted ==
    \A u \in Units :
        /\ ref[u] = Bit(Queueing(u)) + Bit(Running(u)) + Bit(Queued(u))
        /\ u \in released => ref[u] = 0

(* The threads that the two counters of the handle count, and what the     *)
(* closing thread has found to be zero.                                    *)
InPool  == {w \in Workers : wpc[w] \notin {"new", "exited"}}
InCalls == {c \in Callers : apc[c] \notin {"idle", "returned"}}
Closed  == cpc \in {"closeWait", "closeClear", "closeExit", "freed"}
Counters ==
    /\ cThreadInternal = Cardinality(InPool) /\ cThreadExternal = Cardinality(InCalls)
    /\ cret = "waitInt" => cpc # "open" /\ InCalls = {}
    /\ cpc = "waitInt" \/ Closed => cret = "waitInt"
    /\ fAbort <=> cpc \notin {"open", "removed"}
    /\ Closed => \A w \in Workers :
         wpc[w] \in {"new", "loop", "exitAll", "exitPush", "exitCount", "exited"}
    /\ ~LateStart => \A w \in Workers : wpc[w] # "new" /\ (Closed => wpc[w] = "exited")

IInv == TypeOK /\ Held /\ SleepersReachable /\ Calls /\ Once /\ Counted /\ Counters

(***************************************************************************)
(* Types.                                                                  *)
(***************************************************************************)
LEMMA ConstantTypes ==
  /\ None \notin Workers /\ None \notin Units /\ Agents = Callers \cup Units
  /\ Callers \cap Units = {} /\ Batch \in [Agents -> SUBSET Units] /\ LowPrio \subseteq Units
  /\ \A a, b \in Agents : a # b => Batch[a] \cap Batch[b] = {}
  BY NoneAssumption, AgentsAssumption, BatchAssumption, UnitsAssumption
  DEF NoneAssumption, AgentsAssumption, BatchAssumption, UnitsAssumption, Agents

LEMMA CountsDrop ==
  ASSUME IInv
  PROVE  /\ IsFiniteSet(InPool) /\ IsFiniteSet(InCalls)
         /\ InPool # {} => cThreadInternal - 1 \in Nat
         /\ InCalls # {} => cThreadExternal - 1 \in Nat
<1>1. IsFiniteSet(InPool) /\ IsFiniteSet(InCalls)
  BY WorkersAssumption, AgentsAssumption, FS_Subset
  DEF WorkersAssumption, AgentsAssumption, InPool, InCalls
<1>2. /\ cThreadInternal \in Nat /\ cThreadInternal = Cardinality(InPool)
      /\ cThreadExternal \in Nat /\ cThreadExternal = Cardinality(InCalls)
  BY DEF IInv, TypeOK, Counters
<1>3. /\ InPool # {} => cThreadInternal # 0
      /\ InCalls # {} => cThreadExternal # 0
  BY <1>1, <1>2, FS_EmptySet
<1>. QED
  BY <1>1, <1>2, <1>3

LEMMA TypesWorker ==
  ASSUME IInv, NEW w \in Workers, Worker(w)
  PROVE  TypeOK'
<1>. USE ConstantTypes
    DEF IInv, TypeOK, Held, WorkerPc, AgentPc, ClosePc, Goto, AGoto, CGoto, Decref, flagVars,
        setVars, queueVars, workerVars, unitVars, agentVars, closeVars
<1>1. CASE WorkerStart(w)
  BY <1>1 DEF WorkerStart
<1>2. CASE WorkerLoop(w)
  BY <1>2 DEF WorkerLoop
<1>3. CASE WorkerPop(w)
  BY <1>3 DEF WorkerPop, TakeUnit
<1>4. CASE WorkerPopEmpty(w)
  BY <1>4 DEF WorkerPopEmpty
<1>5. CASE WorkerSize(w)
  BY <1>5 DEF WorkerSize
<1>6. CASE WorkerPopLow(w)
  BY <1>6 DEF WorkerPopLow, TakeUnit
<1>7. CASE WorkerPopLowEmpty(w)
  BY <1>7 DEF WorkerPopLowEmpty
<1>8. CASE WorkerRan(w)
  BY <1>8 DEF WorkerRan
<1>9. CASE WorkerDecref(w)
  BY <1>9 DEF WorkerDecref
<1>10. CASE WorkerReset(w)
  BY <1>10 DEF WorkerReset
<1>11. CASE WorkerAvail(w)
  BY <1>11 DEF WorkerAvail
<1>12. CASE WorkerWoken(w)
  BY <1>12 DEF WorkerWoken
<1>13. CASE WorkerExitAll(w)
  BY <1>13 DEF WorkerExitAll
<1>14. CASE WorkerExitPush(w)
  BY <1>14 DEF WorkerExitPush
<1>15. CASE WorkerExitCount(w)
  <2>1. w \in InPool
    BY <1>15 DEF WorkerExitCount, InPool
  <2>2. cThreadInternal - 1 \in Nat
    BY <2>1, CountsDrop
  <2>. QED
    BY <1>15, <2>2 DEF WorkerExitCount
<1>. QED
  BY <1>1, <1>2, <1>3, <1>4, <1>5, <1>6, <1>7, <1>8, <1>9, <1>10, <1>11, <1>12, <1>13, <1>14, <1>15
  DEF Worker

LEMMA TypesCaller ==
  ASSUME IInv, NEW c \in Callers, CallerReserve(c) \/ CallerReturn(c)
  PROVE  TypeOK'
<1>. USE ConstantTypes
    DEF IInv, TypeOK, Held, WorkerPc, AgentPc, ClosePc, Goto, AGoto, CGoto, Decref, flagVars,
        setVars, queueVars, workerVars, unitVars, agentVars, closeVars
<1>1. CASE CallerReserve(c)
  BY <1>1 DEF CallerReserve
<1>2. CASE CallerReturn(c)
  <2>1. c \in InCalls
    BY <1>2 DEF CallerReturn, InCalls
  <2>2. cThreadExternal - 1 \in Nat
    BY <2>1, CountsDrop
  <2>. QED
    BY <1>2, <2>2 DEF CallerReturn
<1>. QED
  BY <1>1, <1>2

LEMMA TypesAgent ==
  ASSUME IInv, NEW a \in Agents, Agent(a)
  PROVE  TypeOK'
<1>. USE ConstantTypes
    DEF IInv, TypeOK, Held, WorkerPc, AgentPc, ClosePc, Goto, AGoto, CGoto, Decref, flagVars,
        setVars, queueVars, workerVars, unitVars, agentVars, closeVars
<1>1. CASE AgentEnter(a)
  BY <1>1 DEF AgentEnter
<1>2. CASE AgentAlloc(a)
  BY <1>2 DEF AgentAlloc
<1>3. CASE AgentAllQueued(a)
  BY <1>3 DEF AgentAllQueued
<1>4. CASE AgentCheck(a)
  BY <1>4 DEF AgentCheck
<1>5. CASE AgentPush(a)
  BY <1>5 DEF AgentPush
<1>6. CASE AgentWake(a)
  BY <1>6 DEF AgentWake
<1>7. CASE AgentWakeNone(a)
  BY <1>7 DEF AgentWakeNone
<1>8. CASE AgentSignal(a)
  BY <1>8 DEF AgentSignal
<1>9. CASE AgentDecref(a)
  BY <1>9 DEF AgentDecref
<1>10. CASE AgentWaited(a)
  BY <1>10 DEF AgentWaited
<1>. QED
  BY <1>1, <1>2, <1>3, <1>4, <1>5, <1>6, <1>7, <1>8, <1>9, <1>10 DEF Agent

LEMMA TypesClose ==
  ASSUME IInv, Close
  PROVE  TypeOK'
<1>. USE ConstantTypes
    DEF IInv, TypeOK, Held, WorkerPc, AgentPc, ClosePc, Goto, AGoto, CGoto, Decref, flagVars,
        setVars, queueVars, workerVars, unitVars, agentVars, closeVars
<1>1. CASE CloseRemove
  BY <1>1 DEF CloseRemove
<1>2. CASE CloseAbort
  BY <1>2 DEF CloseAbort
<1>3. CASE InterruptPop
  BY <1>3 DEF InterruptPop
<1>4. CASE InterruptSet
  BY <1>4 DEF InterruptSet
<1>5. CASE InterruptPopEmpty
  BY <1>5 DEF InterruptPopEmpty
<1>6. CASE InterruptClear
  BY <1>6 DEF InterruptClear
<1>7. CASE InterruptClearLow
  BY <1>7 DEF InterruptClearLow
<1>8. CASE CloseExternalZero
  BY <1>8 DEF CloseExternalZero
<1>9. CASE CloseRetry
  BY <1>9 DEF CloseRetry
<1>10. CASE CloseInternalZero
  BY <1>10 DEF CloseInternalZero
<1>11. CASE CloseSignal
  BY <1>11 DEF CloseSignal
<1>12. CASE CloseAllGone
  BY <1>12 DEF CloseAllGone
<1>13. CASE CloseClear
  BY <1>13 DEF CloseClear
<1>14. CASE CloseFree
  BY <1>14 DEF CloseFree
<1>. QED
  BY <1>1, <1>2, <1>3, <1>4, <1>5, <1>6, <1>7, <1>8, <1>9, <1>10, <1>11, <1>12, <1>13, <1>14
  DEF Close

(***************************************************************************)
(* What threads hold, and who will wake a sleeper.                         *)
(***************************************************************************)
LEMMA HeldWorker ==
  ASSUME IInv, NEW w \in Workers, Worker(w)
  PROVE  (Held /\ SleepersReachable)'
<1>0. TypeOK /\ Held /\ SleepersReachable /\ Once
  BY DEF IInv
<1>. USE <1>0, ConstantTypes
    DEF TypeOK, Held, SleepersReachable, Goto, AGoto, CGoto, Decref, flagVars, setVars,
        queueVars, workerVars, unitVars, agentVars, closeVars
<1>1. CASE WorkerStart(w)
  BY <1>1 DEF WorkerStart
<1>2. CASE WorkerLoop(w)
  BY <1>2 DEF WorkerLoop
<1>3. CASE WorkerPop(w)
  BY <1>3 DEF WorkerPop, TakeUnit, Once, Queued
<1>4. CASE WorkerPopEmpty(w)
  BY <1>4 DEF WorkerPopEmpty
<1>5. CASE WorkerSize(w)
  BY <1>5 DEF WorkerSize
<1>6. CASE WorkerPopLow(w)
  BY <1>6 DEF WorkerPopLow, TakeUnit, Once, Queued
<1>7. CASE WorkerPopLowEmpty(w)
  BY <1>7 DEF WorkerPopLowEmpty
<1>8. CASE WorkerRan(w)
  BY <1>8 DEF WorkerRan
<1>9. CASE WorkerDecref(w)
  BY <1>9 DEF WorkerDecref
<1>10. CASE WorkerReset(w)
  BY <1>10 DEF WorkerReset
<1>11. CASE WorkerAvail(w)
  BY <1>11 DEF WorkerAvail
<1>12. CASE WorkerWoken(w)
  BY <1>12 DEF WorkerWoken
<1>13. CASE WorkerExitAll(w)
  BY <1>13 DEF WorkerExitAll
<1>14. CASE WorkerExitPush(w)
  BY <1>14 DEF WorkerExitPush
<1>15. CASE WorkerExitCount(w)
  BY <1>15 DEF WorkerExitCount
<1>. QED
  BY <1>1, <1>2, <1>3, <1>4, <1>5, <1>6, <1>7, <1>8, <1>9, <1>10, <1>11, <1>12, <1>13, <1>14, <1>15
  DEF Worker

LEMMA HeldCaller ==
  ASSUME IInv, NEW c \in Callers, CallerReserve(c) \/ CallerReturn(c)
  PROVE  (Held /\ SleepersReachable)'
<1>0. TypeOK /\ Held /\ SleepersReachable /\ Once
  BY DEF IInv
<1>. USE <1>0, ConstantTypes
    DEF TypeOK, Held, SleepersReachable, Goto, AGoto, CGoto, Decref, flagVars, setVars,
        queueVars, workerVars, unitVars, agentVars, closeVars
<1>1. CASE CallerReserve(c)
  BY <1>1 DEF CallerReserve
<1>2. CASE CallerReturn(c)
  BY <1>2 DEF CallerReturn
<1>. QED
  BY <1>1, <1>2

LEMMA HeldAgent ==
  ASSUME IInv, NEW a \in Agents, Agent(a)
  PROVE  (Held /\ SleepersReachable)'
<1>0. TypeOK /\ Held /\ SleepersReachable /\ Once
  BY DEF IInv
<1>. USE <1>0, ConstantTypes
    DEF TypeOK, Held, SleepersReachable, Goto, AGoto, CGoto, Decref, flagVars, setVars,
        queueVars, workerVars, unitVars, agentVars, closeVars
<1>1. CASE AgentEnter(a)
  BY <1>1 DEF AgentEnter
<1>2. CASE AgentAlloc(a)
  <2>. PICK u \in todo[a] : ppu' = [ppu EXCEPT ![a] = u] /\ todo' = [todo EXCEPT ![a] = @ \ {u}]
    BY <1>2 DEF AgentAlloc
  <2>1. u \in Batch[a] /\ u # None /\ u \in Units
    BY DEF IInv, Calls
  <2>. QED
    BY <1>2, <2>1 DEF AgentAlloc
<1>3. CASE AgentAllQueued(a)
  BY <1>3 DEF AgentAllQueued
<1>4. CASE AgentCheck(a)
  BY <1>4 DEF AgentCheck
<1>5. CASE AgentPush(a)
  BY <1>5 DEF AgentPush
<1>6. CASE AgentWake(a)
  BY <1>6 DEF AgentWake
<1>7. CASE AgentWakeNone(a)
  BY <1>7 DEF AgentWakeNone
<1>8. CASE AgentSignal(a)
  BY <1>8 DEF AgentSignal
<1>9. CASE AgentDecref(a)
  BY <1>9 DEF AgentDecref
<1>10. CASE AgentWaited(a)
  BY <1>10 DEF AgentWaited
<1>. QED
  BY <1>1, <1>2, <1>3, <1>4, <1>5, <1>6, <1>7, <1>8, <1>9, <1>10 DEF Agent

LEMMA HeldClose ==
  ASSUME IInv, Close
  PROVE  (Held /\ SleepersReachable)'
<1>0. TypeOK /\ Held /\ SleepersReachable /\ Once
  BY DEF IInv
<1>. USE <1>0, ConstantTypes
    DEF TypeOK, Held, SleepersReachable, Goto, AGoto, CGoto, Decref, flagVars, setVars,
        queueVars, workerVars, unitVars, agentVars, closeVars
<1>1. CASE CloseRemove
  BY <1>1 DEF CloseRemove
<1>2. CASE CloseAbort
  BY <1>2 DEF CloseAbort
<1>3. CASE InterruptPop
  BY <1>3 DEF InterruptPop
<1>4. CASE InterruptSet
  BY <1>4 DEF InterruptSet
<1>5. CASE InterruptPopEmpty
  BY <1>5 DEF InterruptPopEmpty
<1>6. CASE InterruptClear
  BY <1>6 DEF InterruptClear
<1>7. CASE InterruptClearLow
  BY <1>7 DEF InterruptClearLow
<1>8. CASE CloseExternalZero
  BY <1>8 DEF CloseExternalZero
<1>9. CASE CloseRetry
  BY <1>9 DEF CloseRetry
<1>10. CASE CloseInternalZero
  BY <1>10 DEF CloseInternalZero
<1>11. CASE CloseSignal
  BY <1>11 DEF CloseSignal
<1>12. CASE CloseAllGone
  BY <1>12 DEF CloseAllGone
<1>13. CASE CloseClear
  BY <1>13 DEF CloseClear
<1>14. CASE CloseFree
  <2>1. \A v \in Workers : wpc[v] # "wait"
    BY <1>14 DEF CloseFree, IInv, Counters, Closed
  <2>. QED
    BY <1>14, <2>1 DEF CloseFree
<1>. QED
  BY <1>1, <1>2, <1>3, <1>4, <1>5, <1>6, <1>7, <1>8, <1>9, <1>10, <1>11, <1>12, <1>13, <1>14
  DEF Close

(***************************************************************************)
(* Calls and their units.                                                  *)
(***************************************************************************)
LEMMA CallsWorker ==
  ASSUME IInv, NEW w \in Workers, Worker(w)
  PROVE  Calls'
<1>0. TypeOK /\ Held /\ Calls /\ Once
  BY DEF IInv
<1>. USE <1>0, ConstantTypes
    DEF TypeOK, Held, Calls, Goto, AGoto, CGoto, Decref, flagVars, setVars, queueVars,
        workerVars, unitVars, agentVars, closeVars
<1>1. CASE WorkerStart(w)
  BY <1>1 DEF WorkerStart
<1>2. CASE WorkerLoop(w)
  BY <1>2 DEF WorkerLoop
<1>3. CASE WorkerPop(w)
  BY <1>3 DEF WorkerPop, TakeUnit, Once, Queued
<1>4. CASE WorkerPopEmpty(w)
  BY <1>4 DEF WorkerPopEmpty
<1>5. CASE WorkerSize(w)
  BY <1>5 DEF WorkerSize
<1>6. CASE WorkerPopLow(w)
  BY <1>6 DEF WorkerPopLow, TakeUnit, Once, Queued
<1>7. CASE WorkerPopLowEmpty(w)
  BY <1>7 DEF WorkerPopLowEmpty
<1>8. CASE WorkerRan(w)
  BY <1>8 DEF WorkerRan
<1>9. CASE WorkerDecref(w)
  BY <1>9 DEF WorkerDecref
<1>10. CASE WorkerReset(w)
  BY <1>10 DEF WorkerReset
<1>11. CASE WorkerAvail(w)
  BY <1>11 DEF WorkerAvail
<1>12. CASE WorkerWoken(w)
  BY <1>12 DEF WorkerWoken
<1>13. CASE WorkerExitAll(w)
  BY <1>13 DEF WorkerExitAll
<1>14. CASE WorkerExitPush(w)
  BY <1>14 DEF WorkerExitPush
<1>15. CASE WorkerExitCount(w)
  BY <1>15 DEF WorkerExitCount
<1>. QED
  BY <1>1, <1>2, <1>3, <1>4, <1>5, <1>6, <1>7, <1>8, <1>9, <1>10, <1>11, <1>12, <1>13, <1>14, <1>15
  DEF Worker

LEMMA CallsCaller ==
  ASSUME IInv, NEW c \in Callers, CallerReserve(c) \/ CallerReturn(c)
  PROVE  Calls'
<1>0. TypeOK /\ Held /\ Calls /\ Once
  BY DEF IInv
<1>. USE <1>0, ConstantTypes
    DEF TypeOK, Held, Calls, Goto, AGoto, CGoto, Decref, flagVars, setVars, queueVars,
        workerVars, unitVars, agentVars, closeVars
<1>1. CASE CallerReserve(c)
  BY <1>1 DEF CallerReserve
<1>2. CASE CallerReturn(c)
  BY <1>2 DEF CallerReturn
<1>. QED
  BY <1>1, <1>2

LEMMA CallsAgent ==
  ASSUME IInv, NEW a \in Agents, Agent(a)
  PROVE  Calls'
<1>0. TypeOK /\ Held /\ Calls /\ Once
  BY DEF IInv
<1>. USE <1>0, ConstantTypes
    DEF TypeOK, Held, Calls, Goto, AGoto, CGoto, Decref, flagVars, setVars, queueVars,
        workerVars, unitVars, agentVars, closeVars
<1>1. CASE AgentEnter(a)
  BY <1>1 DEF AgentEnter
<1>2. CASE AgentAlloc(a)
  BY <1>2 DEF AgentAlloc
<1>3. CASE AgentAllQueued(a)
  BY <1>3 DEF AgentAllQueued
<1>4. CASE AgentCheck(a)
  BY <1>4 DEF AgentCheck
<1>5. CASE AgentPush(a)
  BY <1>5 DEF AgentPush
<1>6. CASE AgentWake(a)
  BY <1>6 DEF AgentWake
<1>7. CASE AgentWakeNone(a)
  BY <1>7 DEF AgentWakeNone
<1>8. CASE AgentSignal(a)
  BY <1>8 DEF AgentSignal
<1>9. CASE AgentDecref(a)
  BY <1>9 DEF AgentDecref
<1>10. CASE AgentWaited(a)
  BY <1>10 DEF AgentWaited
<1>. QED
  BY <1>1, <1>2, <1>3, <1>4, <1>5, <1>6, <1>7, <1>8, <1>9, <1>10 DEF Agent

LEMMA CallsClose ==
  ASSUME IInv, Close
  PROVE  Calls'
<1>0. TypeOK /\ Held /\ Calls /\ Once
  BY DEF IInv
<1>. USE <1>0, ConstantTypes
    DEF TypeOK, Held, Calls, Goto, AGoto, CGoto, Decref, flagVars, setVars, queueVars,
        workerVars, unitVars, agentVars, closeVars
<1>1. CASE CloseRemove
  BY <1>1 DEF CloseRemove
<1>2. CASE CloseAbort
  BY <1>2 DEF CloseAbort
<1>3. CASE InterruptPop
  BY <1>3 DEF InterruptPop
<1>4. CASE InterruptSet
  BY <1>4 DEF InterruptSet
<1>5. CASE InterruptPopEmpty
  BY <1>5 DEF InterruptPopEmpty
<1>6. CASE InterruptClear
  BY <1>6 DEF InterruptClear
<1>7. CASE InterruptClearLow
  BY <1>7 DEF InterruptClearLow
<1>8. CASE CloseExternalZero
  BY <1>8 DEF CloseExternalZero
<1>9. CASE CloseRetry
  BY <1>9 DEF CloseRetry
<1>10. CASE CloseInternalZero
  BY <1>10 DEF CloseInternalZero
<1>11. CASE CloseSignal
  BY <1>11 DEF CloseSignal
<1>12. CASE CloseAllGone
  BY <1>12 DEF CloseAllGone
<1>13. CASE CloseClear
  BY <1>13 DEF CloseClear
<1>14. CASE CloseFree
  BY <1>14 DEF CloseFree
<1>. QED
  BY <1>1, <1>2, <1>3, <1>4, <1>5, <1>6, <1>7, <1>8, <1>9, <1>10, <1>11, <1>12, <1>13, <1>14
  DEF Close

LEMMA OnceWorker ==
  ASSUME IInv, NEW w \in Workers, Worker(w)
  PROVE  Once'
<1>0. TypeOK /\ Held /\ Calls /\ Once
  BY DEF IInv
<1>. USE <1>0, ConstantTypes
    DEF TypeOK, Held, Calls, Once, Fresh, Queued, Running, Goto, AGoto, CGoto, Decref, flagVars,
        setVars, queueVars, workerVars, unitVars, agentVars, closeVars
<1>1. CASE WorkerStart(w)
  BY <1>1 DEF WorkerStart
<1>2. CASE WorkerLoop(w)
  BY <1>2 DEF WorkerLoop
<1>3. CASE WorkerPop(w)
  BY <1>3 DEF WorkerPop, TakeUnit, Once, Queued
<1>4. CASE WorkerPopEmpty(w)
  BY <1>4 DEF WorkerPopEmpty
<1>5. CASE WorkerSize(w)
  BY <1>5 DEF WorkerSize
<1>6. CASE WorkerPopLow(w)
  BY <1>6 DEF WorkerPopLow, TakeUnit, Once, Queued
<1>7. CASE WorkerPopLowEmpty(w)
  BY <1>7 DEF WorkerPopLowEmpty
<1>8. CASE WorkerRan(w)
  BY <1>8 DEF WorkerRan
<1>9. CASE WorkerDecref(w)
  BY <1>9 DEF WorkerDecref
<1>10. CASE WorkerReset(w)
  BY <1>10 DEF WorkerReset
<1>11. CASE WorkerAvail(w)
  BY <1>11 DEF WorkerAvail
<1>12. CASE WorkerWoken(w)
  BY <1>12 DEF WorkerWoken
<1>13. CASE WorkerExitAll(w)
  BY <1>13 DEF WorkerExitAll
<1>14. CASE WorkerExitPush(w)
  BY <1>14 DEF WorkerExitPush
<1>15. CASE WorkerExitCount(w)
  BY <1>15 DEF WorkerExitCount
<1>. QED
  BY <1>1, <1>2, <1>3, <1>4, <1>5, <1>6, <1>7, <1>8, <1>9, <1>10, <1>11, <1>12, <1>13, <1>14, <1>15
  DEF Worker

LEMMA OnceCaller ==
  ASSUME IInv, NEW c \in Callers, CallerReserve(c) \/ CallerReturn(c)
  PROVE  Once'
<1>0. TypeOK /\ Held /\ Calls /\ Once
  BY DEF IInv
<1>. USE <1>0, ConstantTypes
    DEF TypeOK, Held, Calls, Once, Fresh, Queued, Running, Goto, AGoto, CGoto, Decref, flagVars,
        setVars, queueVars, workerVars, unitVars, agentVars, closeVars
<1>1. CASE CallerReserve(c)
  BY <1>1 DEF CallerReserve
<1>2. CASE CallerReturn(c)
  BY <1>2 DEF CallerReturn
<1>. QED
  BY <1>1, <1>2

LEMMA OnceAgent ==
  ASSUME IInv, NEW a \in Agents, Agent(a)
  PROVE  Once'
<1>0. TypeOK /\ Held /\ Calls /\ Once
  BY DEF IInv
<1>. USE <1>0, ConstantTypes
    DEF TypeOK, Held, Calls, Once, Fresh, Queued, Running, Goto, AGoto, CGoto, Decref, flagVars,
        setVars, queueVars, workerVars, unitVars, agentVars, closeVars
<1>1. CASE AgentEnter(a)
  BY <1>1 DEF AgentEnter
<1>2. CASE AgentAlloc(a)
  <2>1. PICK u \in todo[a] : /\ ppu' = [ppu EXCEPT ![a] = u]
                            /\ todo' = [todo EXCEPT ![a] = @ \ {u}]
    BY <1>2 DEF AgentAlloc
  <2>2. /\ apc[a] = "next" /\ apc' = [apc EXCEPT ![a] = "check"] /\ a \in Agents
        /\ UNCHANGED <<pmUnit, pmUnitLow, puOb, ran, released>>
    BY <1>2 DEF AgentAlloc
  <2>3. u \in Units /\ Fresh(u)
    BY <2>1
  <2>4. ~Queued(u) /\ u \notin ran
    BY <2>3
  <2>5. ASSUME NEW v \in Units, NEW b \in Agents
        PROVE  ppu'[b] = v /\ apc'[b] \in {"check", "push"} => ~Queued(v)' /\ v \notin ran'
    BY <2>1, <2>2, <2>4
  <2>6. ASSUME NEW v \in Units
        PROVE  Fresh(v)' => ~Queued(v)' /\ v \notin ran' /\ v \notin released'
    <3>1. Fresh(v)' => Fresh(v)
      BY <2>1
    <3>. QED
      BY <2>2, <3>1
  <2>7. ASSUME NEW v \in Units
        PROVE  v \notin ran' => apc'[v] = "idle"
    BY <2>2
  <2>. QED
    BY <2>2, <2>5, <2>6, <2>7
<1>3. CASE AgentAllQueued(a)
  BY <1>3 DEF AgentAllQueued
<1>4. CASE AgentCheck(a)
  BY <1>4 DEF AgentCheck
<1>5. CASE AgentPush(a)
  BY <1>5 DEF AgentPush
<1>6. CASE AgentWake(a)
  BY <1>6 DEF AgentWake
<1>7. CASE AgentWakeNone(a)
  BY <1>7 DEF AgentWakeNone
<1>8. CASE AgentSignal(a)
  BY <1>8 DEF AgentSignal
<1>9. CASE AgentDecref(a)
  BY <1>9 DEF AgentDecref
<1>10. CASE AgentWaited(a)
  BY <1>10 DEF AgentWaited
<1>. QED
  BY <1>1, <1>2, <1>3, <1>4, <1>5, <1>6, <1>7, <1>8, <1>9, <1>10 DEF Agent

LEMMA OnceClose ==
  ASSUME IInv, Close
  PROVE  Once'
<1>0. TypeOK /\ Held /\ Calls /\ Once
  BY DEF IInv
<1>. USE <1>0, ConstantTypes
    DEF TypeOK, Held, Calls, Once, Fresh, Queued, Running, Goto, AGoto, CGoto, Decref, flagVars,
        setVars, queueVars, workerVars, unitVars, agentVars, closeVars
<1>1. CASE CloseRemove
  BY <1>1 DEF CloseRemove
<1>2. CASE CloseAbort
  BY <1>2 DEF CloseAbort
<1>3. CASE InterruptPop
  BY <1>3 DEF InterruptPop
<1>4. CASE InterruptSet
  BY <1>4 DEF InterruptSet
<1>5. CASE InterruptPopEmpty
  BY <1>5 DEF InterruptPopEmpty
<1>6. CASE InterruptClear
  BY <1>6 DEF InterruptClear
<1>7. CASE InterruptClearLow
  BY <1>7 DEF InterruptClearLow
<1>8. CASE CloseExternalZero
  BY <1>8 DEF CloseExternalZero
<1>9. CASE CloseRetry
  BY <1>9 DEF CloseRetry
<1>10. CASE CloseInternalZero
  BY <1>10 DEF CloseInternalZero
<1>11. CASE CloseSignal
  BY <1>11 DEF CloseSignal
<1>12. CASE CloseAllGone
  BY <1>12 DEF CloseAllGone
<1>13. CASE CloseClear
  BY <1>13 DEF CloseClear
<1>14. CASE CloseFree
  BY <1>14 DEF CloseFree
<1>. QED
  BY <1>1, <1>2, <1>3, <1>4, <1>5, <1>6, <1>7, <1>8, <1>9, <1>10, <1>11, <1>12, <1>13, <1>14
  DEF Close

(***************************************************************************)
(* The counts of the units.                                                *)
(***************************************************************************)
LEMMA CountedWorker ==
  ASSUME IInv, NEW w \in Workers, Worker(w)
  PROVE  Counted'
<1>0. TypeOK /\ Held /\ Calls /\ Once /\ Counted
  BY DEF IInv
<1>. USE <1>0, ConstantTypes
    DEF TypeOK, Held, Calls, Once, Counted, Bit, Fresh, Queued, Queueing, Running, Goto, AGoto,
        CGoto, Decref, flagVars, setVars, queueVars, workerVars, unitVars, agentVars, closeVars
<1>1. CASE WorkerStart(w)
  BY <1>1 DEF WorkerStart
<1>2. CASE WorkerLoop(w)
  BY <1>2 DEF WorkerLoop
<1>3. CASE WorkerPop(w)
  BY <1>3 DEF WorkerPop, TakeUnit
<1>4. CASE WorkerPopEmpty(w)
  BY <1>4 DEF WorkerPopEmpty
<1>5. CASE WorkerSize(w)
  BY <1>5 DEF WorkerSize
<1>6. CASE WorkerPopLow(w)
  BY <1>6 DEF WorkerPopLow, TakeUnit
<1>7. CASE WorkerPopLowEmpty(w)
  BY <1>7 DEF WorkerPopLowEmpty
<1>8. CASE WorkerRan(w)
  BY <1>8 DEF WorkerRan
<1>9. CASE WorkerDecref(w)
  BY <1>9 DEF WorkerDecref
<1>10. CASE WorkerReset(w)
  BY <1>10 DEF WorkerReset
<1>11. CASE WorkerAvail(w)
  BY <1>11 DEF WorkerAvail
<1>12. CASE WorkerWoken(w)
  BY <1>12 DEF WorkerWoken
<1>13. CASE WorkerExitAll(w)
  BY <1>13 DEF WorkerExitAll
<1>14. CASE WorkerExitPush(w)
  BY <1>14 DEF WorkerExitPush
<1>15. CASE WorkerExitCount(w)
  BY <1>15 DEF WorkerExitCount
<1>. QED
  BY <1>1, <1>2, <1>3, <1>4, <1>5, <1>6, <1>7, <1>8, <1>9, <1>10, <1>11, <1>12, <1>13, <1>14, <1>15
  DEF Worker

LEMMA CountedCaller ==
  ASSUME IInv, NEW c \in Callers, CallerReserve(c) \/ CallerReturn(c)
  PROVE  Counted'
<1>0. TypeOK /\ Held /\ Calls /\ Once /\ Counted
  BY DEF IInv
<1>. USE <1>0, ConstantTypes
    DEF TypeOK, Held, Calls, Once, Counted, Bit, Fresh, Queued, Queueing, Running, Goto, AGoto,
        CGoto, Decref, flagVars, setVars, queueVars, workerVars, unitVars, agentVars, closeVars
<1>1. CASE CallerReserve(c)
  BY <1>1 DEF CallerReserve
<1>2. CASE CallerReturn(c)
  BY <1>2 DEF CallerReturn
<1>. QED
  BY <1>1, <1>2

LEMMA CountedAgent ==
  ASSUME IInv, NEW a \in Agents, Agent(a)
  PROVE  Counted'
<1>0. TypeOK /\ Held /\ Calls /\ Once /\ Counted
  BY DEF IInv
<1>. USE <1>0, ConstantTypes
    DEF TypeOK, Held, Calls, Once, Counted, Bit, Fresh, Queued, Queueing, Running, Goto, AGoto,
        CGoto, Decref, flagVars, setVars, queueVars, workerVars, unitVars, agentVars, closeVars
<1>1. CASE AgentEnter(a)
  BY <1>1 DEF AgentEnter
<1>2. CASE AgentAlloc(a)
  <2>1. PICK u \in todo[a] : /\ ppu' = [ppu EXCEPT ![a] = u]
                            /\ ref' = [ref EXCEPT ![u] = 1]
    BY <1>2 DEF AgentAlloc
  <2>2. a \in Agents /\ UNCHANGED <<pmUnit, pmUnitLow, puOb, released>>
    BY <1>2 DEF AgentAlloc
  <2>3. u \in Units /\ Fresh(u) /\ ppu[a] = None
    BY <1>2, <2>1 DEF AgentAlloc
  <2>4. ~Queued(u) /\ ~Running(u) /\ u \notin released
    BY <2>3
  <2>5. Bit(Queueing(u))' = 1 /\ Bit(Running(u))' = 0 /\ Bit(Queued(u))' = 0
    BY <2>1, <2>2, <2>4
  <2>6. ASSUME NEW v \in Units, v # u
        PROVE  /\ Queueing(v)' = Queueing(v) /\ Running(v)' = Running(v) /\ Queued(v)' = Queued(v)
               /\ ref'[v] = ref[v] /\ (v \in released' <=> v \in released)
    BY <2>1, <2>2, <2>3, <2>6
  <2>. QED
    BY <2>1, <2>2, <2>3, <2>4, <2>5, <2>6
<1>3. CASE AgentAllQueued(a)
  BY <1>3 DEF AgentAllQueued
<1>4. CASE AgentCheck(a)
  BY <1>4 DEF AgentCheck
<1>5. CASE AgentPush(a)
  BY <1>5 DEF AgentPush
<1>6. CASE AgentWake(a)
  BY <1>6 DEF AgentWake
<1>7. CASE AgentWakeNone(a)
  BY <1>7 DEF AgentWakeNone
<1>8. CASE AgentSignal(a)
  BY <1>8 DEF AgentSignal
<1>9. CASE AgentDecref(a)
  BY <1>9 DEF AgentDecref
<1>10. CASE AgentWaited(a)
  BY <1>10 DEF AgentWaited
<1>. QED
  BY <1>1, <1>2, <1>3, <1>4, <1>5, <1>6, <1>7, <1>8, <1>9, <1>10 DEF Agent

LEMMA CountedClose ==
  ASSUME IInv, Close
  PROVE  Counted'
<1>0. TypeOK /\ Held /\ Calls /\ Once /\ Counted
  BY DEF IInv
<1>. USE <1>0, ConstantTypes
    DEF TypeOK, Held, Calls, Once, Counted, Bit, Fresh, Queued, Queueing, Running, Goto, AGoto,
        CGoto, Decref, flagVars, setVars, queueVars, workerVars, unitVars, agentVars, closeVars
<1>1. CASE CloseRemove
  BY <1>1 DEF CloseRemove
<1>2. CASE CloseAbort
  BY <1>2 DEF CloseAbort
<1>3. CASE InterruptPop
  BY <1>3 DEF InterruptPop
<1>4. CASE InterruptSet
  BY <1>4 DEF InterruptSet
<1>5. CASE InterruptPopEmpty
  BY <1>5 DEF InterruptPopEmpty
<1>6. CASE InterruptClear
  BY <1>6 DEF InterruptClear
<1>7. CASE InterruptClearLow
  BY <1>7 DEF InterruptClearLow
<1>8. CASE CloseExternalZero
  BY <1>8 DEF CloseExternalZero
<1>9. CASE CloseRetry
  BY <1>9 DEF CloseRetry
<1>10. CASE CloseInternalZero
  BY <1>10 DEF CloseInternalZero
<1>11. CASE CloseSignal
  BY <1>11 DEF CloseSignal
<1>12. CASE CloseAllGone
  BY <1>12 DEF CloseAllGone
<1>13. CASE CloseClear
  BY <1>13 DEF CloseClear
<1>14. CASE CloseFree
  BY <1>14 DEF CloseFree
<1>. QED
  BY <1>1, <1>2, <1>3, <1>4, <1>5, <1>6, <1>7, <1>8, <1>9, <1>10, <1>11, <1>12, <1>13, <1>14
  DEF Close

(***************************************************************************)
(* The counts of the threads, and the order of the shutdown.               *)
(***************************************************************************)
LEMMA SameThreads ==
  ASSUME IInv, InPool' = InPool, InCalls' = InCalls, UNCHANGED <<cThreadInternal, cThreadExternal>>
  PROVE  /\ cThreadInternal' = Cardinality(InPool') /\ cThreadExternal' = Cardinality(InCalls')
  BY DEF IInv, Counters

LEMMA CountersWorker ==
  ASSUME IInv, NEW w \in Workers, Worker(w)
  PROVE  Counters'
<1>0. TypeOK /\ Held /\ Once /\ Counters
  BY DEF IInv
<1>. USE <1>0, ConstantTypes
    DEF TypeOK, Held, Goto, AGoto, CGoto, flagVars, setVars, queueVars, workerVars, unitVars,
        agentVars, closeVars
<1>1. CASE WorkerStart(w)
  <2>1. /\ InPool' = InPool \cup {w} /\ w \notin InPool /\ InCalls' = InCalls
        /\ cThreadInternal' = cThreadInternal + 1 /\ UNCHANGED cThreadExternal
    BY <1>1 DEF WorkerStart, InPool, InCalls
  <2>2. cThreadInternal' = Cardinality(InPool')
    BY <2>1, CountsDrop, FS_AddElement DEF Counters
  <2>. QED
    BY <1>1, <2>1, <2>2 DEF WorkerStart, Counters, Closed, InPool
<1>2. CASE WorkerLoop(w)
  <2>1. InPool' = InPool /\ InCalls' = InCalls /\ UNCHANGED <<cThreadInternal, cThreadExternal>>
    BY <1>2 DEF WorkerLoop, InPool, InCalls
  <2>. QED
    BY <1>2, <2>1, SameThreads DEF WorkerLoop, Counters, Closed, InPool
<1>3. CASE WorkerPop(w)
  <2>1. InPool' = InPool /\ InCalls' = InCalls /\ UNCHANGED <<cThreadInternal, cThreadExternal>>
    BY <1>3 DEF WorkerPop, TakeUnit, InPool, InCalls, Once, Queued
  <2>. QED
    BY <1>3, <2>1, SameThreads DEF WorkerPop, TakeUnit, Counters, Closed, InPool
<1>4. CASE WorkerPopEmpty(w)
  <2>1. InPool' = InPool /\ InCalls' = InCalls /\ UNCHANGED <<cThreadInternal, cThreadExternal>>
    BY <1>4 DEF WorkerPopEmpty, InPool, InCalls
  <2>. QED
    BY <1>4, <2>1, SameThreads DEF WorkerPopEmpty, Counters, Closed, InPool
<1>5. CASE WorkerSize(w)
  <2>1. InPool' = InPool /\ InCalls' = InCalls /\ UNCHANGED <<cThreadInternal, cThreadExternal>>
    BY <1>5 DEF WorkerSize, InPool, InCalls
  <2>. QED
    BY <1>5, <2>1, SameThreads DEF WorkerSize, Counters, Closed, InPool
<1>6. CASE WorkerPopLow(w)
  <2>1. InPool' = InPool /\ InCalls' = InCalls /\ UNCHANGED <<cThreadInternal, cThreadExternal>>
    BY <1>6 DEF WorkerPopLow, TakeUnit, InPool, InCalls, Once, Queued
  <2>. QED
    BY <1>6, <2>1, SameThreads DEF WorkerPopLow, TakeUnit, Counters, Closed, InPool
<1>7. CASE WorkerPopLowEmpty(w)
  <2>1. InPool' = InPool /\ InCalls' = InCalls /\ UNCHANGED <<cThreadInternal, cThreadExternal>>
    BY <1>7 DEF WorkerPopLowEmpty, InPool, InCalls
  <2>. QED
    BY <1>7, <2>1, SameThreads DEF WorkerPopLowEmpty, Counters, Closed, InPool
<1>8. CASE WorkerRan(w)
  <2>1. InPool' = InPool /\ InCalls' = InCalls /\ UNCHANGED <<cThreadInternal, cThreadExternal>>
    BY <1>8 DEF WorkerRan, InPool, InCalls
  <2>. QED
    BY <1>8, <2>1, SameThreads DEF WorkerRan, Counters, Closed, InPool
<1>9. CASE WorkerDecref(w)
  <2>1. InPool' = InPool /\ InCalls' = InCalls /\ UNCHANGED <<cThreadInternal, cThreadExternal>>
    BY <1>9 DEF WorkerDecref, InPool, InCalls
  <2>. QED
    BY <1>9, <2>1, SameThreads DEF WorkerDecref, Counters, Closed, InPool
<1>10. CASE WorkerReset(w)
  <2>1. InPool' = InPool /\ InCalls' = InCalls /\ UNCHANGED <<cThreadInternal, cThreadExternal>>
    BY <1>10 DEF WorkerReset, InPool, InCalls
  <2>. QED
    BY <1>10, <2>1, SameThreads DEF WorkerReset, Counters, Closed, InPool
<1>11. CASE WorkerAvail(w)
  <2>1. InPool' = InPool /\ InCalls' = InCalls /\ UNCHANGED <<cThreadInternal, cThreadExternal>>
    BY <1>11 DEF WorkerAvail, InPool, InCalls
  <2>. QED
    BY <1>11, <2>1, SameThreads DEF WorkerAvail, Counters, Closed, InPool
<1>12. CASE WorkerWoken(w)
  <2>1. InPool' = InPool /\ InCalls' = InCalls /\ UNCHANGED <<cThreadInternal, cThreadExternal>>
    BY <1>12 DEF WorkerWoken, InPool, InCalls
  <2>. QED
    BY <1>12, <2>1, SameThreads DEF WorkerWoken, Counters, Closed, InPool
<1>13. CASE WorkerExitAll(w)
  <2>1. InPool' = InPool /\ InCalls' = InCalls /\ UNCHANGED <<cThreadInternal, cThreadExternal>>
    BY <1>13 DEF WorkerExitAll, InPool, InCalls
  <2>. QED
    BY <1>13, <2>1, SameThreads DEF WorkerExitAll, Counters, Closed, InPool
<1>14. CASE WorkerExitPush(w)
  <2>1. InPool' = InPool /\ InCalls' = InCalls /\ UNCHANGED <<cThreadInternal, cThreadExternal>>
    BY <1>14 DEF WorkerExitPush, InPool, InCalls
  <2>. QED
    BY <1>14, <2>1, SameThreads DEF WorkerExitPush, Counters, Closed, InPool
<1>15. CASE WorkerExitCount(w)
  <2>1. /\ InPool' = InPool \ {w} /\ w \in InPool /\ InCalls' = InCalls
        /\ cThreadInternal' = cThreadInternal - 1 /\ UNCHANGED cThreadExternal
    BY <1>15 DEF WorkerExitCount, InPool, InCalls
  <2>2. cThreadInternal' = Cardinality(InPool')
    BY <2>1, CountsDrop, FS_RemoveElement DEF Counters
  <2>. QED
    BY <1>15, <2>1, <2>2 DEF WorkerExitCount, Counters, Closed, InPool
<1>. QED
  BY <1>1, <1>2, <1>3, <1>4, <1>5, <1>6, <1>7, <1>8, <1>9, <1>10, <1>11, <1>12, <1>13, <1>14, <1>15
  DEF Worker

LEMMA CountersCaller ==
  ASSUME IInv, NEW c \in Callers, CallerReserve(c) \/ CallerReturn(c)
  PROVE  Counters'
<1>0. TypeOK /\ Held /\ Once /\ Counters
  BY DEF IInv
<1>. USE <1>0, ConstantTypes
    DEF TypeOK, Held, Goto, AGoto, CGoto, flagVars, setVars, queueVars, workerVars, unitVars,
        agentVars, closeVars
<1>1. CASE CallerReserve(c)
  <2>1. /\ InCalls' = InCalls \cup {c} /\ c \notin InCalls /\ InPool' = InPool
        /\ cThreadExternal' = cThreadExternal + 1 /\ UNCHANGED cThreadInternal
    BY <1>1 DEF CallerReserve, InPool, InCalls
  <2>2. cThreadExternal' = Cardinality(InCalls')
    BY <2>1, CountsDrop, FS_AddElement DEF Counters
  <2>. QED
    BY <1>1, <2>1, <2>2 DEF CallerReserve, Counters, Closed, InPool
<1>2. CASE CallerReturn(c)
  <2>1. /\ InCalls' = InCalls \ {c} /\ c \in InCalls /\ InPool' = InPool
        /\ cThreadExternal' = cThreadExternal - 1 /\ UNCHANGED cThreadInternal
    BY <1>2 DEF CallerReturn, InPool, InCalls
  <2>2. cThreadExternal' = Cardinality(InCalls')
    BY <2>1, CountsDrop, FS_RemoveElement DEF Counters
  <2>. QED
    BY <1>2, <2>1, <2>2 DEF CallerReturn, Counters, Closed, InPool
<1>. QED
  BY <1>1, <1>2

LEMMA CountersAgent ==
  ASSUME IInv, NEW a \in Agents, Agent(a)
  PROVE  Counters'
<1>0. TypeOK /\ Held /\ Once /\ Counters
  BY DEF IInv
<1>. USE <1>0, ConstantTypes
    DEF TypeOK, Held, Goto, AGoto, CGoto, flagVars, setVars, queueVars, workerVars, unitVars,
        agentVars, closeVars
<1>1. CASE AgentEnter(a)
  <2>1. InPool' = InPool /\ InCalls' = InCalls /\ UNCHANGED <<cThreadInternal, cThreadExternal>>
    BY <1>1 DEF AgentEnter, InPool, InCalls
  <2>. QED
    BY <1>1, <2>1, SameThreads DEF AgentEnter, Counters, Closed, InPool
<1>2. CASE AgentAlloc(a)
  <2>1. InPool' = InPool /\ InCalls' = InCalls /\ UNCHANGED <<cThreadInternal, cThreadExternal>>
    BY <1>2 DEF AgentAlloc, InPool, InCalls
  <2>. QED
    BY <1>2, <2>1, SameThreads DEF AgentAlloc, Counters, Closed, InPool
<1>3. CASE AgentAllQueued(a)
  <2>1. InPool' = InPool /\ InCalls' = InCalls /\ UNCHANGED <<cThreadInternal, cThreadExternal>>
    BY <1>3 DEF AgentAllQueued, InPool, InCalls
  <2>. QED
    BY <1>3, <2>1, SameThreads DEF AgentAllQueued, Counters, Closed, InPool
<1>4. CASE AgentCheck(a)
  <2>1. InPool' = InPool /\ InCalls' = InCalls /\ UNCHANGED <<cThreadInternal, cThreadExternal>>
    BY <1>4 DEF AgentCheck, InPool, InCalls
  <2>. QED
    BY <1>4, <2>1, SameThreads DEF AgentCheck, Counters, Closed, InPool
<1>5. CASE AgentPush(a)
  <2>1. InPool' = InPool /\ InCalls' = InCalls /\ UNCHANGED <<cThreadInternal, cThreadExternal>>
    BY <1>5 DEF AgentPush, InPool, InCalls
  <2>. QED
    BY <1>5, <2>1, SameThreads DEF AgentPush, Counters, Closed, InPool
<1>6. CASE AgentWake(a)
  <2>1. InPool' = InPool /\ InCalls' = InCalls /\ UNCHANGED <<cThreadInternal, cThreadExternal>>
    BY <1>6 DEF AgentWake, InPool, InCalls
  <2>. QED
    BY <1>6, <2>1, SameThreads DEF AgentWake, Counters, Closed, InPool
<1>7. CASE AgentWakeNone(a)
  <2>1. InPool' = InPool /\ InCalls' = InCalls /\ UNCHANGED <<cThreadInternal, cThreadExternal>>
    BY <1>7 DEF AgentWakeNone, InPool, InCalls
  <2>. QED
    BY <1>7, <2>1, SameThreads DEF AgentWakeNone, Counters, Closed, InPool
<1>8. CASE AgentSignal(a)
  <2>1. InPool' = InPool /\ InCalls' = InCalls /\ UNCHANGED <<cThreadInternal, cThreadExternal>>
    BY <1>8 DEF AgentSignal, InPool, InCalls
  <2>. QED
    BY <1>8, <2>1, SameThreads DEF AgentSignal, Counters, Closed, InPool
<1>9. CASE AgentDecref(a)
  <2>1. InPool' = InPool /\ InCalls' = InCalls /\ UNCHANGED <<cThreadInternal, cThreadExternal>>
    BY <1>9 DEF AgentDecref, InPool, InCalls
  <2>. QED
    BY <1>9, <2>1, SameThreads DEF AgentDecref, Counters, Closed, InPool
<1>10. CASE AgentWaited(a)
  <2>1. InPool' = InPool /\ InCalls' = InCalls /\ UNCHANGED <<cThreadInternal, cThreadExternal>>
    BY <1>10 DEF AgentWaited, InPool, InCalls
  <2>. QED
    BY <1>10, <2>1, SameThreads DEF AgentWaited, Counters, Closed, InPool
<1>. QED
  BY <1>1, <1>2, <1>3, <1>4, <1>5, <1>6, <1>7, <1>8, <1>9, <1>10 DEF Agent

LEMMA CountersClose ==
  ASSUME IInv, Close
  PROVE  Counters'
<1>0. TypeOK /\ Held /\ Once /\ Counters
  BY DEF IInv
<1>. USE <1>0, ConstantTypes
    DEF TypeOK, Held, Goto, AGoto, CGoto, flagVars, setVars, queueVars, workerVars, unitVars,
        agentVars, closeVars
<1>1. CASE CloseRemove
  <2>1. InPool' = InPool /\ InCalls' = InCalls /\ UNCHANGED <<cThreadInternal, cThreadExternal>>
    BY <1>1 DEF CloseRemove, InPool, InCalls
  <2>. QED
    BY <1>1, <2>1, SameThreads DEF CloseRemove, Counters, Closed, InPool, InCalls
<1>2. CASE CloseAbort
  <2>1. InPool' = InPool /\ InCalls' = InCalls /\ UNCHANGED <<cThreadInternal, cThreadExternal>>
    BY <1>2 DEF CloseAbort, InPool, InCalls
  <2>. QED
    BY <1>2, <2>1, SameThreads DEF CloseAbort, Counters, Closed, InPool, InCalls
<1>3. CASE InterruptPop
  <2>1. InPool' = InPool /\ InCalls' = InCalls /\ UNCHANGED <<cThreadInternal, cThreadExternal>>
    BY <1>3 DEF InterruptPop, InPool, InCalls
  <2>. QED
    BY <1>3, <2>1, SameThreads DEF InterruptPop, Counters, Closed, InPool, InCalls
<1>4. CASE InterruptSet
  <2>1. InPool' = InPool /\ InCalls' = InCalls /\ UNCHANGED <<cThreadInternal, cThreadExternal>>
    BY <1>4 DEF InterruptSet, InPool, InCalls
  <2>. QED
    BY <1>4, <2>1, SameThreads DEF InterruptSet, Counters, Closed, InPool, InCalls
<1>5. CASE InterruptPopEmpty
  <2>1. InPool' = InPool /\ InCalls' = InCalls /\ UNCHANGED <<cThreadInternal, cThreadExternal>>
    BY <1>5 DEF InterruptPopEmpty, InPool, InCalls
  <2>. QED
    BY <1>5, <2>1, SameThreads DEF InterruptPopEmpty, Counters, Closed, InPool, InCalls
<1>6. CASE InterruptClear
  <2>1. InPool' = InPool /\ InCalls' = InCalls /\ UNCHANGED <<cThreadInternal, cThreadExternal>>
    BY <1>6 DEF InterruptClear, InPool, InCalls
  <2>. QED
    BY <1>6, <2>1, SameThreads DEF InterruptClear, Counters, Closed, InPool, InCalls
<1>7. CASE InterruptClearLow
  <2>1. InPool' = InPool /\ InCalls' = InCalls /\ UNCHANGED <<cThreadInternal, cThreadExternal>>
    BY <1>7 DEF InterruptClearLow, InPool, InCalls
  <2>. QED
    BY <1>7, <2>1, SameThreads DEF InterruptClearLow, Counters, Closed, InPool, InCalls
<1>8. CASE CloseExternalZero
  <2>1. InPool' = InPool /\ InCalls' = InCalls /\ UNCHANGED <<cThreadInternal, cThreadExternal>>
    BY <1>8 DEF CloseExternalZero, InPool, InCalls
  <2>2. InCalls = {}
    BY <1>8, CountsDrop, FS_EmptySet DEF CloseExternalZero, Counters
  <2>. QED
    BY <1>8, <2>1, <2>2, SameThreads DEF CloseExternalZero, Counters, Closed
<1>9. CASE CloseRetry
  <2>1. InPool' = InPool /\ InCalls' = InCalls /\ UNCHANGED <<cThreadInternal, cThreadExternal>>
    BY <1>9 DEF CloseRetry, InPool, InCalls
  <2>. QED
    BY <1>9, <2>1, SameThreads DEF CloseRetry, Counters, Closed, InPool, InCalls
<1>10. CASE CloseInternalZero
  <2>1. InPool' = InPool /\ InCalls' = InCalls /\ UNCHANGED <<cThreadInternal, cThreadExternal>>
    BY <1>10 DEF CloseInternalZero, InPool, InCalls
  <2>2. InPool = {}
    BY <1>10, CountsDrop, FS_EmptySet DEF CloseInternalZero, Counters
  <2>3. \A v \in Workers : wpc[v] \in {"new", "exited"}
    BY <2>2 DEF InPool
  <2>. QED
    BY <1>10, <2>1, <2>3, SameThreads DEF CloseInternalZero, Counters, Closed
<1>11. CASE CloseSignal
  <2>1. InPool' = InPool /\ InCalls' = InCalls /\ UNCHANGED <<cThreadInternal, cThreadExternal>>
    BY <1>11 DEF CloseSignal, InPool, InCalls
  <2>. QED
    BY <1>11, <2>1, SameThreads DEF CloseSignal, Counters, Closed, InPool, InCalls
<1>12. CASE CloseAllGone
  <2>1. InPool' = InPool /\ InCalls' = InCalls /\ UNCHANGED <<cThreadInternal, cThreadExternal>>
    BY <1>12 DEF CloseAllGone, InPool, InCalls
  <2>. QED
    BY <1>12, <2>1, SameThreads DEF CloseAllGone, Counters, Closed, InPool, InCalls
<1>13. CASE CloseClear
  <2>1. InPool' = InPool /\ InCalls' = InCalls /\ UNCHANGED <<cThreadInternal, cThreadExternal>>
    BY <1>13 DEF CloseClear, InPool, InCalls
  <2>. QED
    BY <1>13, <2>1, SameThreads DEF CloseClear, Counters, Closed, InPool, InCalls
<1>14. CASE CloseFree
  <2>1. InPool' = InPool /\ InCalls' = InCalls /\ UNCHANGED <<cThreadInternal, cThreadExternal>>
    BY <1>14 DEF CloseFree, InPool, InCalls
  <2>. QED
    BY <1>14, <2>1, SameThreads DEF CloseFree, Counters, Closed, InPool, InCalls
<1>. QED
  BY <1>1, <1>2, <1>3, <1>4, <1>5, <1>6, <1>7, <1>8, <1>9, <1>10, <1>11, <1>12, <1>13, <1>14
  DEF Close

(***************************************************************************)
(* The invariant.                                                          *)
(***************************************************************************)
LEMMA InitInv == Init => IInv
<1>. SUFFICES ASSUME Init PROVE IInv
  OBVIOUS
<1>. USE ConstantTypes DEF Init
<1>1. /\ IsFiniteSet(Workers) /\ IsFiniteSet(Callers)
      /\ Cardinality(Workers) \in Nat /\ Cardinality({}) = 0
  BY WorkersAssumption, AgentsAssumption, FS_CardinalityType, FS_EmptySet
  DEF WorkersAssumption, AgentsAssumption
<1>2. /\ \A w \in Workers : wpc[w] \in {"new", "loop"} /\ puOb[w] = None
      /\ \A a \in Agents : apc[a] = "idle" /\ ppu[a] = None /\ pt[a] = None /\ todo[a] = Batch[a]
      /\ \A u \in Units : u \in Agents
  OBVIOUS
<1>3. TypeOK
  <2>1. wpc \in [Workers -> WorkerPc] /\ cThreadInternal \in Nat
    BY <1>1 DEF WorkerPc
  <2>2. /\ puOb \in [Workers -> Units \cup {None}] /\ hEventWakeup \in [Workers -> BOOLEAN]
        /\ ref \in [Units -> Int] /\ apc \in [Agents -> AgentPc]
        /\ todo \in [Agents -> SUBSET Units]
        /\ ppu \in [Agents -> Units \cup {None}] /\ pt \in [Agents -> Workers \cup {None}]
    BY DEF AgentPc
  <2>3. cpc \in ClosePc /\ cret \in {"waitExt", "waitInt"} /\ cpt \in Workers \cup {None}
    BY DEF ClosePc
  <2>4. /\ fAbort \in BOOLEAN /\ cThreadExternal \in Nat
        /\ psThreadAvail \subseteq Workers /\ psThreadAll \subseteq Workers
        /\ psThreadExit \subseteq Workers /\ pmUnit \subseteq Units /\ pmUnitLow \subseteq Units
        /\ released \subseteq Units /\ ran \subseteq Units
    OBVIOUS
  <2>. QED
    BY <2>1, <2>2, <2>3, <2>4 DEF TypeOK
<1>4. Held /\ SleepersReachable /\ Calls
  BY <1>2 DEF Held, SleepersReachable, Calls
<1>5. Once /\ Counted
  BY <1>2 DEF Once, Counted, Bit, Fresh, Queued, Queueing, Running
<1>6. Counters
  <2>1. InCalls = {}
    BY <1>2 DEF InCalls
  <2>2. CASE wpc = [w \in Workers |-> "loop"] /\ cThreadInternal = Cardinality(Workers)
    <3>1. InPool = Workers
      BY <2>2 DEF InPool
    <3>. QED
      BY <1>1, <2>1, <2>2, <3>1 DEF Counters, Closed
  <2>3. CASE LateStart /\ wpc = [w \in Workers |-> "new"] /\ cThreadInternal = 0
    <3>1. InPool = {}
      BY <2>3 DEF InPool
    <3>. QED
      BY <1>1, <2>1, <2>3, <3>1 DEF Counters, Closed
  <2>. QED
    BY <2>2, <2>3
<1>. QED
  BY <1>3, <1>4, <1>5, <1>6 DEF IInv

LEMMA StepInv == IInv /\ [Next]_vars => IInv'
<1>. SUFFICES ASSUME IInv, [Next]_vars PROVE IInv'
  OBVIOUS
<1>1. ASSUME NEW w \in Workers, Worker(w) PROVE IInv'
  BY <1>1, TypesWorker, HeldWorker, CallsWorker, OnceWorker, CountedWorker, CountersWorker DEF IInv
<1>2. ASSUME NEW c \in Callers, CallerReserve(c) \/ CallerReturn(c) PROVE IInv'
  BY <1>2, TypesCaller, HeldCaller, CallsCaller, OnceCaller, CountedCaller, CountersCaller DEF IInv
<1>3. ASSUME NEW a \in Agents, Agent(a) PROVE IInv'
  BY <1>3, TypesAgent, HeldAgent, CallsAgent, OnceAgent, CountedAgent, CountersAgent DEF IInv
<1>4. CASE Close
  BY <1>4, TypesClose, HeldClose, CallsClose, OnceClose, CountedClose, CountersClose DEF IInv
<1>5. CASE UNCHANGED vars
  <2>. USE <1>5
  DEF IInv, vars, flagVars, setVars, queueVars, workerVars, unitVars, agentVars, closeVars
  <2>1. TypeOK' /\ Held' /\ SleepersReachable' /\ Calls'
    BY DEF TypeOK, Held, SleepersReachable, Calls
  <2>2. Once'
    BY DEF Once, Fresh, Queued, Running
  <2>3. Counted'
    BY DEF Counted, Bit, Queued, Queueing, Running
  <2>4. Counters'
    BY DEF Counters, InPool, InCalls, Closed
  <2>. QED
    BY <2>1, <2>2, <2>3, <2>4
<1>. QED
  BY <1>1, <1>2, <1>3, <1>4, <1>5 DEF Next, Terminated

(* Every state reached satisfies the inductive invariant.                  *)
THEOREM Inductive == Spec => []IInv
<1>. QED
  BY InitInv, StepInv, PTL DEF Spec

(* Whoever sleeps on an event that is not set is in psThreadAvail, or      *)
(* popped by a thread that is about to set the event.                      *)
THEOREM Sleepers == Spec => []SleepersReachable
<1>1. IInv => SleepersReachable
  BY DEF IInv
<1>. QED
  BY <1>1, Inductive, PTL

(* A set with at most one element has as many as the bit says.             *)
LEMMA AtMostOne ==
  ASSUME NEW S, \A x, y \in S : x = y
  PROVE  Cardinality(S) = Bit(S # {})
<1>1. CASE S = {}
  BY <1>1, FS_EmptySet DEF Bit
<1>2. CASE S # {}
  <2>1. PICK x \in S : S = {x}
    BY <1>2
  <2>2. Cardinality({x}) = 1
    BY FS_Singleton
  <2>. QED
    BY <1>2, <2>1, <2>2 DEF Bit
<1>. QED
  BY <1>1, <1>2

(* The reference count of a unit is the number of its holders, whatever    *)
(* clears, runs and drops it, and a released unit has none.                *)
THEOREM References == Spec => []RefsAreHolders
<1>1. IInv => RefsAreHolders
  <2>. SUFFICES ASSUME IInv, NEW u \in Units
                PROVE  ref[u] = Holders(u) /\ (u \in released => ref[u] = 0)
    BY DEF RefsAreHolders
  <2>. DEFINE Q == {a \in Agents : ppu[a] = u}
              R == {w \in Workers : puOb[w] = u}
  <2>1. \A a, b \in Q : a = b
    BY ConstantTypes DEF IInv, Held
  <2>2. \A v, w \in R : v = w
    BY ConstantTypes DEF IInv, Once
  <2>3. Cardinality(Q) = Bit(Queueing(u)) /\ Cardinality(R) = Bit(Running(u))
    <3>1. (Q # {}) = Queueing(u) /\ (R # {}) = Running(u)
      BY DEF Queueing, Running
    <3>. HIDE DEF Q, R
    <3>. QED
      BY <2>1, <2>2, <3>1, AtMostOne
  <2>. QED
    BY <2>3 DEF IInv, Counted, Holders, Bit, Queued
<1>. QED
  BY <1>1, Inductive, PTL

(* The contexts on the stack of a caller outlive the units that use them.  *)
THEOREM CallsOutliveUnits == Spec => []NoUnitOutlivesCall
<1>1. IInv => NoUnitOutlivesCall
  <2>. SUFFICES ASSUME IInv, NEW a \in Agents, apc[a] \in {"done", "returned"},
                       NEW u \in Batch[a] \ Async
                PROVE  ~Queued(u) /\ ~Running(u)
    BY DEF NoUnitOutlivesCall, Queued, Running
  <2>1. u \in Units
    BY ConstantTypes
  <2>2. CASE todo[a] = Batch[a]
    <3>1. Fresh(u)
      BY <2>2, ConstantTypes DEF Fresh
    <3>. QED
      BY <2>1, <3>1 DEF IInv, Once
  <2>3. CASE Batch[a] \ Async \subseteq released
    <3>1. ref[u] = 0
      BY <2>1, <2>3 DEF IInv, Counted
    <3>. QED
      BY <2>1, <3>1 DEF IInv, Counted, Bit
  <2>. QED
    BY <2>2, <2>3 DEF IInv, Calls
<1>. QED
  BY <1>1, Inductive, PTL

(* When the threads of the pool have been counted before the shutdown,     *)
(* nobody is left in the pool or in a call when the handle is freed.       *)
THEOREM FreedLast ==
  ASSUME ~LateStart
  PROVE  Spec => []NoAccessAfterFree
<1>1. IInv => NoAccessAfterFree
  BY DEF IInv, Counters, Closed, InCalls, NoAccessAfterFree
<1>. QED
  BY <1>1, Inductive, PTL

=============================================================================
