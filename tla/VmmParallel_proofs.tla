------------------------- MODULE VmmParallel_proofs -------------------------
(***************************************************************************)
(* The batches of a parallel-for stay apart and every process is handed    *)
(* out once, for any number of workers, processes and units in a batch.    *)
(***************************************************************************)
EXTENDS VmmParallel, FiniteSetTheorems, SequenceTheorems, TLAPS

Quiet    == {"idle", "pop", "avail", "sleep"}
AtWorker == {"idle", "pop", "avail", "sleep", "unit", "get", "act", "signal", "signalled"}
AtCloser == {"idle", "interrupt", "drain", "signal", "signalled"}
AtCaller == {"batch", "queue", "push", "wake", "wait", "waiting", "reset", "resetting", "check",
             "end", "done", "signal", "signalled"}
AtAll    == AtWorker \cup AtCloser \cup AtCaller

Pending == {t \in Threads : at[t] = "signal"}
Unset   == xchg = 1 /\ epc[Caller] # "in"
Popped  == {w \in Workers : at[w] = "unit"}

Typed ==
    /\ xchg \in {0, 1} /\ epc \in [Threads -> E!Pc] /\ fAbort \in BOOLEAN
    /\ at \in [Threads -> AtAll] /\ at[Caller] \in AtCaller /\ at[Closer] \in AtCloser
    /\ \A w \in Workers : at[w] \in AtWorker
    /\ count \in Nat /\ queue \in Nat /\ left \in Nat /\ iPID \in Nat /\ idx \in [Workers -> Int]
    /\ selected \in Seq(Procs) /\ taken \in [Procs -> Nat]

(* Where threads can be inside the event.                                  *)
InEvent ==
    /\ \A t \in Threads \ {Caller} :
        /\ epc[t] \in {"out", "relDec", "relWake"}
        /\ epc[t] # "out" => at[t] = "signalled"
    /\ epc[Caller] # "out" => at[Caller] \in {"signalled", "waiting", "resetting"}
    /\ at[Caller] = "signalled" => epc[Caller] \in {"out", "relDec", "relWake"}
    /\ at[Caller] = "waiting" =>
         /\ epc[Caller] \in {"cas", "futex", "sleep", "in", "relDec", "relWake", "out"}
         /\ epc[Caller] \in {"relDec", "relWake", "out"} => xchg = 0
    /\ at[Caller] = "resetting" =>
         \/ epc[Caller] = "try" /\ xchg = 0
         \/ epc[Caller] = "out" /\ xchg = 1

(* The event is set once in a batch, by whoever brought the count to one.  *)
Phases ==
    /\ \A t, u \in Pending : t = u
    /\ at[Caller] \in {"queue", "push", "wake"} => count > 1
    /\ at[Caller] \in {"wait", "waiting"} => count > 0
    /\ at[Caller] \in {"signal", "signalled", "reset", "resetting", "check", "batch", "end"} =>
         count = 1
    /\ at[Caller] = "done" => count = 0
    /\ count > 1 => Unset /\ Pending = {}
    /\ at[Caller] \in {"wait", "waiting"} /\ count = 1 => (Unset <=> Pending # {})
    /\ at[Caller] = "signal" => Unset
    /\ at[Caller] \in {"signalled", "reset"} => xchg = 0 /\ Pending = {}
    /\ at[Caller] = "resetting" => Pending = {}
    /\ at[Caller] \in {"check", "batch", "end"} => Unset /\ Pending = {}
    /\ at[Caller] = "done" => Pending = {}
    /\ freed => at[Caller] = "done"

(* The references to the object: the call, the filling of a batch, the     *)
(* unit about to be pushed, the queued units and those that run.           *)
Bit(b) == IF b THEN 1 ELSE 0
References ==
    /\ count = Bit(at[Caller] # "done") + Bit(at[Caller] \in {"queue", "push", "wake"})
               + Bit(at[Caller] = "push") + queue + Cardinality(Busy)
    /\ at[Caller] \notin {"queue", "push", "wake"} => left = 0

(* Who will take an index.                                                 *)
Index ==
    /\ iPID >= left + Bit(at[Caller] = "push") + queue + Cardinality(Popped)
    /\ ~fAbort => iPID = left + Bit(at[Caller] = "push") + queue + Cardinality(Popped)
    /\ at[Caller] \in {"end", "done"} /\ ~fAbort => selected = <<>>
    /\ at[Closer] # "idle" => fAbort

(* Who has taken which process.                                            *)
Shares ==
    /\ DOMAIN dwPIDs \subseteq Nat /\ \A i \in Nat : i < iPID => i \in DOMAIN dwPIDs
    /\ \A i \in DOMAIN dwPIDs : dwPIDs[i] \in Procs
    /\ \A i, j \in DOMAIN dwPIDs : dwPIDs[i] = dwPIDs[j] => i = j
    /\ \A i, j \in 1..Len(selected) : selected[i] = selected[j] => i = j
    /\ \A i \in 1..Len(selected) :
         taken[selected[i]] = 0 /\ \A j \in DOMAIN dwPIDs : dwPIDs[j] # selected[i]
    /\ \A p \in Procs : taken[p] <= 1
    /\ \A i \in DOMAIN dwPIDs :
        /\ i < iPID => taken[dwPIDs[i]] = 0
        /\ i >= iPID => taken[dwPIDs[i]] = 1 \/ \E w \in Workers : at[w] = "get" /\ idx[w] = i
    /\ \A w \in Workers : at[w] = "get" =>
        /\ idx[w] \in DOMAIN dwPIDs /\ idx[w] >= iPID /\ taken[dwPIDs[idx[w]]] = 0
        /\ \A v \in Workers : at[v] = "get" /\ idx[v] = idx[w] => v = w

(* Where the selected processes are: handed out, still to be selected into *)
(* a batch, or in the table of this one.                                   *)
Account ==
    /\ chosen \subseteq Procs
    /\ \A i \in 1..Len(selected) : selected[i] \in chosen
    /\ \A i \in DOMAIN dwPIDs : dwPIDs[i] \in chosen
    /\ \A p \in Procs : taken[p] > 0 => p \in chosen
    /\ ~fAbort => \A p \in chosen :
         \/ taken[p] = 1
         \/ \E i \in 1..Len(selected) : selected[i] = p
         \/ \E i \in DOMAIN dwPIDs : dwPIDs[i] = p

IInv == Typed /\ InEvent /\ Phases /\ References /\ Index /\ Shares /\ Account

LEMMA ThreadTypes ==
  /\ Caller \in Threads /\ Closer \in Threads /\ Caller # Closer
  /\ Caller \notin Workers /\ Closer \notin Workers /\ Threads = Workers \cup {Caller, Closer}
  /\ IsFiniteSet(Workers) /\ MaxThread \in Nat /\ MaxThread > 1
  BY ThreadsAssumption, MaxAssumption DEF ThreadsAssumption, MaxAssumption, Threads

(***************************************************************************)
(* The pool: steps in which nothing moves but workers that have no unit,   *)
(* and whoever wakes them.                                                 *)
(***************************************************************************)
CallerOwn ==
    \/ Fill \/ NoMore \/ QueueCheck \/ QueuePush \/ QueueDone \/ Wait \/ WaitReturn
    \/ Reset \/ ResetReturn \/ CheckAbort \/ End

WorkerOwn(w) == WorkerPop(w) \/ TakeIndex(w) \/ TakeProcess(w) \/ WorkerDrop(w)

PoolStep ==
    \/ QueueWake \/ OtherWake \/ InterruptPop \/ InterruptAgain
    \/ \E w \in Workers : WorkerLoop(w) \/ WorkerPopEmpty(w) \/ WorkerSleep(w)

LEMMA PoolMoves ==
  ASSUME IInv, PoolStep
  PROVE  /\ UNCHANGED <<xchg, c, epc, timed, fAbort, selected, left, iPID, dwPIDs, count, freed,
                        queue, idx, taken, chosen>>
         /\ at' \in [Threads -> AtAll]
         /\ at'[Caller] = at[Caller] \/ (at[Caller] = "wake" /\ at'[Caller] = "queue")
         /\ \/ at'[Closer] = at[Closer]
            \/ {at[Closer], at'[Closer]} \subseteq {"interrupt", "drain"}
         /\ \A w \in Workers : at'[w] = at[w] \/ {at[w], at'[w]} \subseteq Quiet
<1>0. Typed
  BY DEF IInv
<1>1. UNCHANGED <<xchg, c, epc, timed, fAbort, selected, left, iPID, dwPIDs, count, freed, queue,
                  idx, taken, chosen>>
  BY DEF PoolStep, QueueWake, OtherWake, InterruptPop, InterruptAgain, WorkerLoop, WorkerPopEmpty,
         WorkerSleep, eventVars, ctxVars
<1>. USE <1>0, ThreadTypes
     DEF Typed, Goto, Wake, psThreadAvail, AtAll, AtWorker, AtCloser, AtCaller, Quiet
<1>2. CASE QueueWake
  BY <1>1, <1>2 DEF QueueWake
<1>3. CASE OtherWake
  BY <1>1, <1>3 DEF OtherWake
<1>4. CASE InterruptPop
  BY <1>1, <1>4 DEF InterruptPop
<1>5. CASE InterruptAgain
  BY <1>1, <1>5 DEF InterruptAgain
<1>6. ASSUME NEW w \in Workers, WorkerLoop(w) \/ WorkerPopEmpty(w) \/ WorkerSleep(w)
      PROVE  \E to \in Quiet : at[w] \in Quiet /\ at' = [at EXCEPT ![w] = to]
  BY <1>6 DEF WorkerLoop, WorkerPopEmpty, WorkerSleep
<1>. QED
  BY <1>1, <1>2, <1>3, <1>4, <1>5, <1>6 DEF PoolStep

LEMMA PoolKeeps ==
  ASSUME IInv, PoolStep
  PROVE  IInv'
<1>1. /\ UNCHANGED <<xchg, c, epc, timed, fAbort, selected, left, iPID, dwPIDs, count, freed, queue,
                     idx, taken, chosen>>
      /\ at' \in [Threads -> AtAll]
      /\ at'[Caller] = at[Caller] \/ (at[Caller] = "wake" /\ at'[Caller] = "queue")
      /\ \/ at'[Closer] = at[Closer]
         \/ {at[Closer], at'[Closer]} \subseteq {"interrupt", "drain"}
      /\ \A w \in Workers : at'[w] = at[w] \/ {at[w], at'[w]} \subseteq Quiet
  BY PoolMoves
<1>2. Busy' = Busy /\ Popped' = Popped
      /\ \A w \in Workers : at'[w] = "get" <=> at[w] = "get"
  BY <1>1 DEF Busy, Popped, Quiet
<1>3. \A t \in Threads : /\ at'[t] = "signal" <=> at[t] = "signal"
                         /\ at'[t] = "signalled" <=> at[t] = "signalled"
  BY <1>1, ThreadTypes DEF Quiet
<1>4. Pending' = Pending /\ Unset' = Unset
  BY <1>1, <1>3 DEF Pending, Unset
<1>5. Typed'
  BY <1>1, ThreadTypes DEF IInv, Typed, AtCaller, AtCloser, AtWorker, Quiet
<1>6. InEvent'
  BY <1>1, <1>3, ThreadTypes DEF IInv, InEvent
<1>7. Phases'
  BY <1>1, <1>4 DEF IInv, Phases
<1>8. References'
  BY <1>1, <1>2 DEF IInv, References, Bit
<1>9. Index'
  BY <1>1, <1>2 DEF IInv, Index, Bit
<1>10. Shares'
  BY <1>1, <1>2 DEF IInv, Shares
<1>11. Account'
  BY <1>1 DEF IInv, Account
<1>. QED
  BY <1>5, <1>6, <1>7, <1>8, <1>9, <1>10, <1>11 DEF IInv

(***************************************************************************)
(* Where threads are in the event.                                         *)
(***************************************************************************)
LEMMA WakeOne ==
  ASSUME epc \in [Threads -> E!Pc], NEW t \in Threads, E!ReleaseWake(t)
  PROVE  /\ epc[t] = "relWake" /\ epc'[t] = "out" /\ UNCHANGED xchg
         /\ \A u \in Threads \ {t} : epc'[u] = epc[u] \/ (epc[u] = "sleep" /\ epc'[u] = "cas")
<1>1. epc[t] = "relWake" /\ UNCHANGED xchg
  BY DEF E!ReleaseWake
<1>2. CASE epc' = [epc EXCEPT ![t] = "out"]
  BY <1>1, <1>2
<1>3. CASE \E s \in Threads : epc[s] = "sleep" /\ epc' = [epc EXCEPT ![t] = "out", ![s] = "cas"]
  <2>1. PICK s \in Threads : epc[s] = "sleep" /\ epc' = [epc EXCEPT ![t] = "out", ![s] = "cas"]
    BY <1>3
  <2>2. s # t
    BY <1>1, <2>1
  <2>. QED
    BY <1>1, <2>1, <2>2
<1>. QED
  BY <1>2, <1>3 DEF E!ReleaseWake, E!Sleepers

LEMMA InEventEvent ==
  ASSUME IInv, NEW t \in Threads, EventStep(t)
  PROVE  InEvent'
<1>0. Typed /\ InEvent /\ Phases
  BY DEF IInv
<1>. USE <1>0, ThreadTypes
    DEF Typed, InEvent, Phases, Pending, Unset, eventVars, ctxVars, Goto, AtWorker, AtCaller,
        AtCloser, AtAll
<1>. UNCHANGED <<at, fAbort, selected, left, ctxVars, queue, idx, taken>>
  BY DEF EventStep
<1>1. CASE at[t] = "waiting" /\ E!CasOk(t)
  BY <1>1 DEF E!CasOk, E!Goto
<1>2. CASE at[t] = "waiting" /\ E!CasFail(t)
  BY <1>2 DEF E!CasFail, E!Goto
<1>3. CASE at[t] = "waiting" /\ E!FutexWait(t)
  BY <1>3 DEF E!FutexWait, E!Goto
<1>4. CASE at[t] = "waiting" /\ E!WaitPass(t)
  BY <1>4 DEF E!WaitPass, E!Goto
<1>5. CASE at[t] = "resetting" /\ E!ResetOk(t)
  BY <1>5 DEF E!ResetOk, E!Goto
<1>6. CASE at[t] = "resetting" /\ E!TryFail(t)
  <2>1. t = Caller
    BY <1>6
  <2>. QED
    BY <1>6, <2>1 DEF E!TryFail, E!Goto
<1>7. CASE at[t] = "resetting" /\ E!Undo(t)
  BY <1>7 DEF E!Undo, E!Goto
<1>8. CASE E!ReleaseDec(t)
  BY <1>8 DEF E!ReleaseDec, E!Goto
<1>9. CASE E!ReleaseWake(t)
  <2>1. /\ epc[t] = "relWake" /\ epc'[t] = "out" /\ UNCHANGED xchg
        /\ \A u \in Threads \ {t} : epc'[u] = epc[u] \/ (epc[u] = "sleep" /\ epc'[u] = "cas")
    BY <1>9, WakeOne
  <2>2. CASE t = Caller
    BY <2>1, <2>2
  <2>3. CASE t # Caller
    BY <2>1, <2>3
  <2>. QED
    BY <2>2, <2>3
<1>. QED
  BY <1>1, <1>2, <1>3, <1>4, <1>5, <1>6, <1>7, <1>8, <1>9
  DEF EventStep, E!WaitStep, E!ResetStep, E!ReleaseTail

LEMMA InEventCaller ==
  ASSUME IInv, CallerOwn
  PROVE  InEvent'
<1>0. Typed /\ InEvent /\ Phases
  BY DEF IInv
<1>. USE <1>0, ThreadTypes
    DEF Typed, InEvent, Phases, Pending, Unset, eventVars, ctxVars, Goto, AtWorker, AtCaller,
        AtCloser, AtAll
<1>1. CASE Fill
  BY <1>1 DEF Fill
<1>2. CASE NoMore
  BY <1>2 DEF NoMore
<1>3. CASE QueueCheck
  BY <1>3 DEF QueueCheck
<1>4. CASE QueuePush
  BY <1>4 DEF QueuePush
<1>5. CASE QueueDone
  BY <1>5 DEF QueueDone, Decref
<1>6. CASE Wait
  BY <1>6 DEF Wait, E!WaitForSingleObject, E!Acquire, E!Goto
<1>7. CASE WaitReturn
  BY <1>7 DEF WaitReturn
<1>8. CASE Reset
  BY <1>8 DEF Reset, E!ResetEvent, E!AcquireTry, E!Goto
<1>9. CASE ResetReturn
  BY <1>9 DEF ResetReturn
<1>10. CASE CheckAbort
  BY <1>10 DEF CheckAbort
<1>11. CASE End
  BY <1>11 DEF End, Decref
<1>. QED
  BY <1>1, <1>2, <1>3, <1>4, <1>5, <1>6, <1>7, <1>8, <1>9, <1>10, <1>11 DEF CallerOwn

LEMMA InEventWorker ==
  ASSUME IInv, NEW w \in Workers, WorkerOwn(w)
  PROVE  InEvent'
<1>0. Typed /\ InEvent /\ Phases
  BY DEF IInv
<1>. USE <1>0, ThreadTypes
    DEF Typed, InEvent, Phases, Pending, Unset, eventVars, ctxVars, Goto, AtWorker, AtCaller,
        AtCloser, AtAll
<1>1. CASE WorkerPop(w)
  BY <1>1 DEF WorkerPop
<1>2. CASE TakeIndex(w)
  BY <1>2 DEF TakeIndex
<1>3. CASE TakeProcess(w)
  BY <1>3 DEF TakeProcess
<1>4. CASE WorkerDrop(w)
  BY <1>4 DEF WorkerDrop, Decref
<1>. QED
  BY <1>1, <1>2, <1>3, <1>4 DEF WorkerOwn

LEMMA InEventOthers ==
  ASSUME IInv, Abort \/ Drain \/ \E t \in Threads : Signal(t) \/ SignalReturn(t)
  PROVE  InEvent'
<1>0. Typed /\ InEvent /\ Phases
  BY DEF IInv
<1>. USE <1>0, ThreadTypes
    DEF Typed, InEvent, Phases, Pending, Unset, eventVars, ctxVars, Goto, AtWorker, AtCaller,
        AtCloser, AtAll
<1>1. CASE Abort
  BY <1>1 DEF Abort
<1>2. CASE Drain
  BY <1>2 DEF Drain, Decref
<1>3. ASSUME NEW t \in Threads, Signal(t)
       PROVE  InEvent'
  BY <1>3 DEF Signal, E!SetEvent, E!Goto
<1>4. ASSUME NEW t \in Threads, SignalReturn(t)
       PROVE  InEvent'
  BY <1>4 DEF SignalReturn, After
<1>. QED
  BY <1>1, <1>2, <1>3, <1>4

(***************************************************************************)
(* Who counts.                                                             *)
(***************************************************************************)
LEMMA BusyFinite ==
  /\ IsFiniteSet(Busy) /\ IsFiniteSet(Popped)
  /\ Cardinality(Busy) \in Nat /\ Cardinality(Popped) \in Nat
  /\ Busy # {} => Cardinality(Busy) > 0
  /\ Popped # {} => Cardinality(Popped) > 0
  /\ Popped \subseteq Busy
<1>1. IsFiniteSet(Busy) /\ IsFiniteSet(Popped) /\ Popped \subseteq Busy
  BY ThreadTypes, FS_Subset DEF Busy, Popped
<1>2. Cardinality(Busy) \in Nat /\ Cardinality(Popped) \in Nat
  BY <1>1, FS_CardinalityType
<1>. QED
  BY <1>1, <1>2, FS_EmptySet

(* A queued unit and one that runs hold the count above one, so that at a  *)
(* count of one there is none.                                             *)
LEMMA Held ==
  ASSUME Typed, Phases, References
  PROVE  /\ queue > 0 \/ Busy # {} => count > 1
         /\ count > 1 => at[Caller] \in {"queue", "push", "wake", "wait", "waiting"}
         /\ at[Caller] \in {"queue", "push", "wake"} /\ (queue > 0 \/ Busy # {}) => count > 2
<1>1. at[Caller] \in AtCaller /\ count \in Nat /\ queue \in Nat
  BY DEF Typed
<1>2. count = (IF at[Caller] # "done" THEN 1 ELSE 0)
              + (IF at[Caller] \in {"queue", "push", "wake"} THEN 1 ELSE 0)
              + (IF at[Caller] = "push" THEN 1 ELSE 0) + queue + Cardinality(Busy)
  BY DEF References, Bit
<1>3. queue > 0 \/ Busy # {} => queue + Cardinality(Busy) > 0
  BY <1>1, BusyFinite
<1>4. count > 1 => at[Caller] \in {"queue", "push", "wake", "wait", "waiting"}
  BY <1>1 DEF Phases, AtCaller
<1>5. CASE at[Caller] = "done"
  <2>1. count = 0 /\ queue + Cardinality(Busy) = 0
    BY <1>1, <1>2, <1>5, BusyFinite DEF Phases
  <2>2. queue \in Nat /\ Cardinality(Busy) \in Nat
    BY <1>1, BusyFinite
  <2>3. queue = 0 /\ ~(Cardinality(Busy) > 0)
    BY <2>1, <2>2
  <2>4. Busy = {}
    BY <2>3, BusyFinite
  <2>. QED
    BY <1>4, <1>5, <2>3, <2>4
<1>6. CASE at[Caller] \in {"queue", "push", "wake"}
  BY <1>1, <1>2, <1>3, <1>4, <1>6, BusyFinite
<1>7. CASE at[Caller] \notin {"done", "queue", "push", "wake"}
  BY <1>1, <1>2, <1>3, <1>4, <1>7, BusyFinite
<1>. QED
  BY <1>5, <1>6, <1>7

(***************************************************************************)
(* The event is set once in a batch.                                       *)
(***************************************************************************)
LEMMA PhasesEvent ==
  ASSUME IInv, NEW t \in Threads, EventStep(t)
  PROVE  Phases'
<1>0. /\ Typed /\ InEvent /\ Phases
      /\ queue > 0 \/ Busy # {} => count > 1
      /\ count > 1 => at[Caller] \in {"queue", "push", "wake", "wait", "waiting"}
      /\ at[Caller] \in {"queue", "push", "wake"} /\ (queue > 0 \/ Busy # {}) => count > 2
  BY Held DEF IInv
<1>. USE <1>0, ThreadTypes
    DEF Typed, InEvent, Phases, Pending, Unset, eventVars, ctxVars, Goto, AtWorker, AtCaller,
        AtCloser, AtAll
<1>. UNCHANGED <<at, fAbort, selected, left, ctxVars, queue, idx, taken>>
  BY DEF EventStep
<1>1. CASE at[t] = "waiting" /\ E!CasOk(t)
  BY <1>1 DEF E!CasOk, E!Goto
<1>2. CASE at[t] = "waiting" /\ E!CasFail(t)
  BY <1>2 DEF E!CasFail, E!Goto
<1>3. CASE at[t] = "waiting" /\ E!FutexWait(t)
  BY <1>3 DEF E!FutexWait, E!Goto
<1>4. CASE at[t] = "waiting" /\ E!WaitPass(t)
  BY <1>4 DEF E!WaitPass, E!Goto
<1>5. CASE at[t] = "resetting" /\ E!ResetOk(t)
  BY <1>5 DEF E!ResetOk, E!Goto
<1>6. CASE at[t] = "resetting" /\ E!TryFail(t)
  BY <1>6 DEF E!TryFail, E!Goto
<1>7. CASE at[t] = "resetting" /\ E!Undo(t)
  BY <1>7 DEF E!Undo, E!Goto
<1>8. CASE E!ReleaseDec(t)
  BY <1>8 DEF E!ReleaseDec, E!Goto
<1>9. CASE E!ReleaseWake(t)
  BY <1>9 DEF E!ReleaseWake, E!Sleepers
<1>. QED
  BY <1>1, <1>2, <1>3, <1>4, <1>5, <1>6, <1>7, <1>8, <1>9
  DEF EventStep, E!WaitStep, E!ResetStep, E!ReleaseTail

LEMMA PhasesCaller ==
  ASSUME IInv, CallerOwn
  PROVE  Phases'
<1>0. /\ Typed /\ InEvent /\ Phases
      /\ queue > 0 \/ Busy # {} => count > 1
      /\ count > 1 => at[Caller] \in {"queue", "push", "wake", "wait", "waiting"}
      /\ at[Caller] \in {"queue", "push", "wake"} /\ (queue > 0 \/ Busy # {}) => count > 2
  BY Held DEF IInv
<1>. USE <1>0, ThreadTypes
    DEF Typed, InEvent, Phases, Pending, Unset, eventVars, ctxVars, Goto, AtWorker, AtCaller,
        AtCloser, AtAll
<1>1. CASE Fill
  BY <1>1 DEF Fill
<1>2. CASE NoMore
  BY <1>2 DEF NoMore
<1>3. CASE QueueCheck
  BY <1>3 DEF QueueCheck
<1>4. CASE QueuePush
  BY <1>4 DEF QueuePush
<1>5. CASE QueueDone
  <2>1. /\ at[Caller] = "queue" /\ count' = count - 1 /\ UNCHANGED <<xchg, epc>>
        /\ freed' = (count - 1 = 0)
    BY <1>5 DEF QueueDone, Decref
  <2>2. count > 1 /\ Pending = {} /\ Unset
    BY <1>5, <2>1 DEF QueueDone, Decref
  <2>3. ~freed'
    <3>1. ~(count - 1 = 0)
      BY <2>2
    <3>. QED
      BY ONLY <2>1, <3>1, Zenon
  <2>4. CASE count - 1 = 1
    <3>1. at' = [at EXCEPT ![Caller] = "signal"]
      BY <1>5, <2>4 DEF QueueDone, Decref
    <3>. QED
      BY <2>1, <2>2, <2>3, <2>4, <3>1
  <2>5. CASE count - 1 # 1
    <3>1. at' = [at EXCEPT ![Caller] = "wait"]
      BY <1>5, <2>5 DEF QueueDone, Decref
    <3>. QED
      BY <2>1, <2>2, <2>3, <2>5, <3>1
  <2>. QED
    BY <2>4, <2>5
<1>6. CASE Wait
  BY <1>6 DEF Wait, E!WaitForSingleObject, E!Acquire, E!Goto
<1>7. CASE WaitReturn
  BY <1>7 DEF WaitReturn
<1>8. CASE Reset
  BY <1>8 DEF Reset, E!ResetEvent, E!AcquireTry, E!Goto
<1>9. CASE ResetReturn
  BY <1>9 DEF ResetReturn
<1>10. CASE CheckAbort
  BY <1>10 DEF CheckAbort
<1>11. CASE End
  BY <1>11 DEF End, Decref
<1>. QED
  BY <1>1, <1>2, <1>3, <1>4, <1>5, <1>6, <1>7, <1>8, <1>9, <1>10, <1>11 DEF CallerOwn

LEMMA PhasesWorker ==
  ASSUME IInv, NEW w \in Workers, WorkerOwn(w)
  PROVE  Phases'
<1>0. /\ Typed /\ InEvent /\ Phases
      /\ queue > 0 \/ Busy # {} => count > 1
      /\ count > 1 => at[Caller] \in {"queue", "push", "wake", "wait", "waiting"}
      /\ at[Caller] \in {"queue", "push", "wake"} /\ (queue > 0 \/ Busy # {}) => count > 2
  BY Held DEF IInv
<1>. USE <1>0, ThreadTypes
    DEF Typed, InEvent, Phases, Pending, Unset, eventVars, ctxVars, Goto, AtWorker, AtCaller,
        AtCloser, AtAll
<1>1. CASE WorkerPop(w)
  BY <1>1 DEF WorkerPop
<1>2. CASE TakeIndex(w)
  BY <1>2 DEF TakeIndex
<1>3. CASE TakeProcess(w)
  BY <1>3 DEF TakeProcess
<1>4. CASE WorkerDrop(w)
  <2>1. /\ at[w] = "act" /\ count' = count - 1 /\ UNCHANGED <<xchg, epc>>
        /\ freed' = (count - 1 = 0)
    BY <1>4 DEF WorkerDrop, Decref, Busy
  <2>2. count > 1 /\ Pending = {} /\ Unset
        /\ at[Caller] \in {"queue", "push", "wake", "wait", "waiting"}
        /\ (at[Caller] \in {"queue", "push", "wake"} => count > 2)
    BY <1>4, <2>1 DEF WorkerDrop, Decref, Busy
  <2>3. ~freed'
    <3>1. ~(count - 1 = 0)
      BY <2>2
    <3>. QED
      BY ONLY <2>1, <3>1, Zenon
  <2>4. CASE count - 1 = 1
    <3>1. at' = [at EXCEPT ![w] = "signal"]
      BY <1>4, <2>4 DEF WorkerDrop, Decref, Busy
    <3>. QED
      BY <2>1, <2>2, <2>3, <2>4, <3>1
  <2>5. CASE count - 1 # 1
    <3>1. at' = [at EXCEPT ![w] = "idle"]
      BY <1>4, <2>5 DEF WorkerDrop, Decref, Busy
    <3>. QED
      BY <2>1, <2>2, <2>3, <2>5, <3>1
  <2>. QED
    BY <2>4, <2>5
<1>. QED
  BY <1>1, <1>2, <1>3, <1>4 DEF WorkerOwn

LEMMA PhasesOthers ==
  ASSUME IInv, Abort \/ Drain \/ \E t \in Threads : Signal(t) \/ SignalReturn(t)
  PROVE  Phases'
<1>0. /\ Typed /\ InEvent /\ Phases
      /\ queue > 0 \/ Busy # {} => count > 1
      /\ count > 1 => at[Caller] \in {"queue", "push", "wake", "wait", "waiting"}
      /\ at[Caller] \in {"queue", "push", "wake"} /\ (queue > 0 \/ Busy # {}) => count > 2
  BY Held DEF IInv
<1>. USE <1>0, ThreadTypes
    DEF Typed, InEvent, Phases, Pending, Unset, eventVars, ctxVars, Goto, AtWorker, AtCaller,
        AtCloser, AtAll
<1>1. CASE Abort
  BY <1>1 DEF Abort
<1>2. CASE Drain
  <2>1. /\ at[Closer] = "drain" /\ count' = count - 1 /\ UNCHANGED <<xchg, epc>>
        /\ freed' = (count - 1 = 0)
    BY <1>2 DEF Drain, Decref
  <2>2. count > 1 /\ Pending = {} /\ Unset
        /\ at[Caller] \in {"queue", "push", "wake", "wait", "waiting"}
        /\ (at[Caller] \in {"queue", "push", "wake"} => count > 2)
    BY <1>2, <2>1 DEF Drain, Decref
  <2>3. ~freed'
    <3>1. ~(count - 1 = 0)
      BY <2>2
    <3>. QED
      BY ONLY <2>1, <3>1, Zenon
  <2>4. CASE count - 1 = 1
    <3>1. at' = [at EXCEPT ![Closer] = "signal"]
      BY <1>2, <2>4 DEF Drain, Decref
    <3>. QED
      BY <2>1, <2>2, <2>3, <2>4, <3>1
  <2>5. CASE count - 1 # 1
    <3>1. at' = [at EXCEPT ![Closer] = "drain"]
      BY <1>2, <2>5 DEF Drain, Decref
    <3>. QED
      BY <2>1, <2>2, <2>3, <2>5, <3>1
  <2>. QED
    BY <2>4, <2>5
<1>3. ASSUME NEW t \in Threads, Signal(t)
       PROVE  Phases'
  BY <1>3 DEF Signal, E!SetEvent, E!Goto
<1>4. ASSUME NEW t \in Threads, SignalReturn(t)
       PROVE  Phases'
  BY <1>4 DEF SignalReturn, After
<1>. QED
  BY <1>1, <1>2, <1>3, <1>4

(***************************************************************************)
(* The references to the object.                                           *)
(***************************************************************************)
LEMMA SameWorkers ==
  ASSUME \A w \in Workers : at'[w] = at[w]
  PROVE  Busy' = Busy /\ Popped' = Popped
  BY DEF Busy, Popped

(* A step of a worker from one place to another.                           *)
InUnit(place) == place \in {"unit", "get", "act"}
LEMMA WorkerMoves ==
  ASSUME Typed, NEW w \in Workers, NEW to \in AtAll, at' = [at EXCEPT ![w] = to]
  PROVE  /\ (InUnit(to) <=> InUnit(at[w])) => Cardinality(Busy') = Cardinality(Busy)
         /\ InUnit(to) /\ ~InUnit(at[w]) => Cardinality(Busy') = Cardinality(Busy) + 1
         /\ ~InUnit(to) /\ InUnit(at[w]) => Cardinality(Busy') = Cardinality(Busy) - 1
         /\ (to = "unit" <=> at[w] = "unit") => Cardinality(Popped') = Cardinality(Popped)
         /\ to = "unit" /\ at[w] # "unit" => Cardinality(Popped') = Cardinality(Popped) + 1
         /\ to # "unit" /\ at[w] = "unit" => Cardinality(Popped') = Cardinality(Popped) - 1
<1>. USE ThreadTypes DEF Typed, InUnit
<1>0. IsFiniteSet(Busy) /\ IsFiniteSet(Popped)
  BY BusyFinite
<1>1. (InUnit(to) <=> InUnit(at[w])) => Busy' = Busy
  BY DEF Busy
<1>2. (to = "unit" <=> at[w] = "unit") => Popped' = Popped
  BY DEF Popped
<1>3. InUnit(to) /\ ~InUnit(at[w]) => Busy' = Busy \cup {w} /\ w \notin Busy
  BY DEF Busy
<1>4. ~InUnit(to) /\ InUnit(at[w]) => Busy' = Busy \ {w} /\ w \in Busy
  BY DEF Busy
<1>5. to = "unit" /\ at[w] # "unit" => Popped' = Popped \cup {w} /\ w \notin Popped
  BY DEF Popped
<1>6. to # "unit" /\ at[w] = "unit" => Popped' = Popped \ {w} /\ w \in Popped
  BY DEF Popped
<1>7. /\ w \notin Busy => Cardinality(Busy \cup {w}) = Cardinality(Busy) + 1
      /\ w \in Busy => Cardinality(Busy \ {w}) = Cardinality(Busy) - 1
  BY <1>0, FS_AddElement, FS_RemoveElement
<1>8. /\ w \notin Popped => Cardinality(Popped \cup {w}) = Cardinality(Popped) + 1
      /\ w \in Popped => Cardinality(Popped \ {w}) = Cardinality(Popped) - 1
  BY <1>0, FS_AddElement, FS_RemoveElement
<1>. QED
  BY <1>1, <1>2, <1>3, <1>4, <1>5, <1>6, <1>7, <1>8

LEMMA ReferencesEvent ==
  ASSUME IInv, NEW t \in Threads, EventStep(t)
  PROVE  References'
<1>0. /\ Typed /\ References
      /\ Cardinality(Busy) \in Nat /\ (queue > 0 \/ Busy # {} => count > 1)
  BY Held, BusyFinite DEF IInv
<1>s. \A w \in Workers : at'[w] = at[w]
  BY DEF EventStep
<1>b. Busy' = Busy /\ Popped' = Popped
  BY <1>s, SameWorkers
<1>. USE <1>b
<1>. USE <1>0, ThreadTypes
    DEF Typed, References, Bit, eventVars, ctxVars, Goto, AtWorker, AtCaller, AtCloser, AtAll
<1>. UNCHANGED <<at, fAbort, selected, left, ctxVars, queue, idx, taken>>
  BY DEF EventStep
<1>1. CASE at[t] = "waiting" /\ E!CasOk(t)
  BY <1>1 DEF E!CasOk, E!Goto
<1>2. CASE at[t] = "waiting" /\ E!CasFail(t)
  BY <1>2 DEF E!CasFail, E!Goto
<1>3. CASE at[t] = "waiting" /\ E!FutexWait(t)
  BY <1>3 DEF E!FutexWait, E!Goto
<1>4. CASE at[t] = "waiting" /\ E!WaitPass(t)
  BY <1>4 DEF E!WaitPass, E!Goto
<1>5. CASE at[t] = "resetting" /\ E!ResetOk(t)
  BY <1>5 DEF E!ResetOk, E!Goto
<1>6. CASE at[t] = "resetting" /\ E!TryFail(t)
  BY <1>6 DEF E!TryFail, E!Goto
<1>7. CASE at[t] = "resetting" /\ E!Undo(t)
  BY <1>7 DEF E!Undo, E!Goto
<1>8. CASE E!ReleaseDec(t)
  BY <1>8 DEF E!ReleaseDec, E!Goto
<1>9. CASE E!ReleaseWake(t)
  BY <1>9 DEF E!ReleaseWake, E!Sleepers
<1>. QED
  BY <1>1, <1>2, <1>3, <1>4, <1>5, <1>6, <1>7, <1>8, <1>9
  DEF EventStep, E!WaitStep, E!ResetStep, E!ReleaseTail

LEMMA ReferencesCaller ==
  ASSUME IInv, CallerOwn
  PROVE  References'
<1>0. /\ Typed /\ References
      /\ Cardinality(Busy) \in Nat /\ (queue > 0 \/ Busy # {} => count > 1)
  BY Held, BusyFinite DEF IInv
<1>s. \A w \in Workers : at'[w] = at[w]
  BY <1>0, ThreadTypes
  DEF CallerOwn, Typed, Goto, Decref, E!WaitForSingleObject, Fill, NoMore, QueueCheck,
      QueuePush, QueueDone, Wait, WaitReturn, Reset, ResetReturn, CheckAbort, End
<1>b. Busy' = Busy /\ Popped' = Popped
  BY <1>s, SameWorkers
<1>. USE <1>b
<1>. USE <1>0, ThreadTypes
    DEF Typed, References, Bit, eventVars, ctxVars, Goto, AtWorker, AtCaller, AtCloser, AtAll
<1>1. CASE Fill
  BY <1>1 DEF Fill
<1>2. CASE NoMore
  BY <1>2 DEF NoMore
<1>3. CASE QueueCheck
  BY <1>3 DEF QueueCheck
<1>4. CASE QueuePush
  BY <1>4 DEF QueuePush
<1>5. CASE QueueDone
  BY <1>5 DEF QueueDone, Decref
<1>6. CASE Wait
  BY <1>6 DEF Wait, E!WaitForSingleObject, E!Acquire, E!Goto
<1>7. CASE WaitReturn
  BY <1>7 DEF WaitReturn
<1>8. CASE Reset
  BY <1>8 DEF Reset, E!ResetEvent, E!AcquireTry, E!Goto
<1>9. CASE ResetReturn
  BY <1>9 DEF ResetReturn
<1>10. CASE CheckAbort
  BY <1>10 DEF CheckAbort
<1>11. CASE End
  <2>1. at[Caller] = "end" /\ count = 1
    BY <1>11 DEF End, Decref, Phases, IInv
  <2>a. ~(count - 1 = 1) /\ count - 1 = 0
    BY <2>1
  <2>2. at' = [at EXCEPT ![Caller] = "done"] /\ count' = 0
    BY <1>11, <2>a DEF End, Decref
  <2>. QED
    BY <1>11, <2>1, <2>2 DEF End
<1>. QED
  BY <1>1, <1>2, <1>3, <1>4, <1>5, <1>6, <1>7, <1>8, <1>9, <1>10, <1>11 DEF CallerOwn

LEMMA ReferencesWorker ==
  ASSUME IInv, NEW w \in Workers, WorkerOwn(w)
  PROVE  References'
<1>0. /\ Typed /\ References
      /\ Cardinality(Busy) \in Nat /\ (queue > 0 \/ Busy # {} => count > 1)
  BY Held, BusyFinite DEF IInv
<1>. USE <1>0, ThreadTypes
    DEF Typed, References, Bit, eventVars, ctxVars, Goto, AtWorker, AtCaller, AtCloser, AtAll
<1>1. CASE WorkerPop(w)
  <2>1. at[w] = "pop" /\ \E to \in {"unit"} : at' = [at EXCEPT ![w] = to]
    BY <1>1 DEF WorkerPop
  <2>2. /\ Cardinality(Busy') = Cardinality(Busy) + 1
        /\ Cardinality(Popped') = Cardinality(Popped) + 1
    BY <2>1, WorkerMoves DEF InUnit
  <2>3. at'[Caller] = at[Caller]
    BY <2>1
  <2>4. queue' = queue - 1 /\ UNCHANGED <<count, left>>
    BY <1>1, <2>2 DEF WorkerPop
  <2>. QED
    BY <2>2, <2>3, <2>4
<1>2. CASE TakeIndex(w)
  <2>1. at[w] = "unit" /\ \E to \in {"get"} : at' = [at EXCEPT ![w] = to]
    BY <1>2 DEF TakeIndex
  <2>2. /\ Cardinality(Busy') = Cardinality(Busy)
        /\ Cardinality(Popped') = Cardinality(Popped) - 1
    BY <2>1, WorkerMoves DEF InUnit
  <2>3. at'[Caller] = at[Caller]
    BY <2>1
  <2>. QED
    BY <1>2, <2>1, <2>2, <2>3 DEF TakeIndex
<1>3. CASE TakeProcess(w)
  <2>1. at[w] = "get" /\ \E to \in {"act"} : at' = [at EXCEPT ![w] = to]
    BY <1>3 DEF TakeProcess
  <2>2. /\ Cardinality(Busy') = Cardinality(Busy)
        /\ Cardinality(Popped') = Cardinality(Popped)
    BY <2>1, WorkerMoves DEF InUnit
  <2>3. at'[Caller] = at[Caller]
    BY <2>1
  <2>. QED
    BY <1>3, <2>1, <2>2, <2>3 DEF TakeProcess
<1>4. CASE WorkerDrop(w)
  <2>1. at[w] = "act" /\ \E to \in {"signal", "idle"} : at' = [at EXCEPT ![w] = to]
    BY <1>4 DEF WorkerDrop, Decref
  <2>2. /\ Cardinality(Busy') = Cardinality(Busy) - 1
        /\ Cardinality(Popped') = Cardinality(Popped)
    BY <2>1, WorkerMoves DEF InUnit
  <2>3. at'[Caller] = at[Caller]
    BY <2>1
  <2>. QED
    BY <1>4, <2>1, <2>2, <2>3 DEF WorkerDrop, Decref
<1>. QED
  BY <1>1, <1>2, <1>3, <1>4 DEF WorkerOwn

LEMMA ReferencesOthers ==
  ASSUME IInv, Abort \/ Drain \/ \E t \in Threads : Signal(t) \/ SignalReturn(t)
  PROVE  References'
<1>0. /\ Typed /\ References
      /\ Cardinality(Busy) \in Nat /\ (queue > 0 \/ Busy # {} => count > 1)
  BY Held, BusyFinite DEF IInv
<1>. USE <1>0, ThreadTypes
    DEF Typed, References, Bit, eventVars, ctxVars, Goto, AtWorker, AtCaller, AtCloser, AtAll
<1>1. CASE Abort
  <2>1. Busy' = Busy /\ Popped' = Popped
    BY <1>1 DEF Abort, Busy, Popped
  <2>. QED
    BY <1>1, <2>1 DEF Abort
<1>2. CASE Drain
  <2>1. Busy' = Busy /\ Popped' = Popped
    BY <1>2 DEF Drain, Decref, Busy, Popped
  <2>. QED
    BY <1>2, <2>1 DEF Drain, Decref
<1>3. ASSUME NEW t \in Threads, Signal(t)
       PROVE  References'
  <2>1. Busy' = Busy /\ Popped' = Popped
    BY <1>3 DEF Signal, E!SetEvent, E!Goto, Busy, Popped
  <2>. QED
    BY <1>3, <2>1 DEF Signal, E!SetEvent, E!Goto
<1>4. ASSUME NEW t \in Threads, SignalReturn(t)
       PROVE  References'
  <2>1. Busy' = Busy /\ Popped' = Popped
    BY <1>4 DEF SignalReturn, After, Busy, Popped
  <2>. QED
    BY <1>4, <2>1 DEF SignalReturn, After
<1>. QED
  BY <1>1, <1>2, <1>3, <1>4

(***************************************************************************)
(* Indexes that are still to be taken, one for each unit that will.        *)
(***************************************************************************)
LEMMA IndexEvent ==
  ASSUME IInv, NEW t \in Threads, EventStep(t)
  PROVE  Index'
<1>0. /\ Typed /\ Index /\ (at[Caller] = "batch" => left = 0 /\ queue = 0 /\ Busy = {})
      /\ Cardinality(Popped) \in Nat /\ (Popped # {} => Cardinality(Popped) > 0)
      /\ Busy = {} => Cardinality(Popped) = 0
  <2>1. at[Caller] = "batch" => left = 0 /\ queue = 0 /\ Busy = {}
    BY Held DEF IInv, Phases, Typed, References
  <2>2. Busy = {} => Popped = {}
    BY BusyFinite
  <2>3. Cardinality(Popped) \in Nat /\ (Popped # {} => Cardinality(Popped) > 0)
        /\ (Popped = {} => Cardinality(Popped) = 0)
    BY BusyFinite, FS_EmptySet
  <2>. QED
    BY <2>1, <2>2, <2>3 DEF IInv
<1>s. \A w \in Workers : at'[w] = at[w]
  BY DEF EventStep
<1>b. Busy' = Busy /\ Popped' = Popped
  BY <1>s, SameWorkers
<1>. USE <1>b
<1>. USE <1>0, ThreadTypes
    DEF Typed, Index, Bit, eventVars, ctxVars, Goto, AtWorker, AtCaller, AtCloser, AtAll
<1>. UNCHANGED <<at, fAbort, selected, left, ctxVars, queue, idx, taken>>
  BY DEF EventStep
<1>1. CASE at[t] = "waiting" /\ E!CasOk(t)
  BY <1>1 DEF E!CasOk, E!Goto
<1>2. CASE at[t] = "waiting" /\ E!CasFail(t)
  BY <1>2 DEF E!CasFail, E!Goto
<1>3. CASE at[t] = "waiting" /\ E!FutexWait(t)
  BY <1>3 DEF E!FutexWait, E!Goto
<1>4. CASE at[t] = "waiting" /\ E!WaitPass(t)
  BY <1>4 DEF E!WaitPass, E!Goto
<1>5. CASE at[t] = "resetting" /\ E!ResetOk(t)
  BY <1>5 DEF E!ResetOk, E!Goto
<1>6. CASE at[t] = "resetting" /\ E!TryFail(t)
  BY <1>6 DEF E!TryFail, E!Goto
<1>7. CASE at[t] = "resetting" /\ E!Undo(t)
  BY <1>7 DEF E!Undo, E!Goto
<1>8. CASE E!ReleaseDec(t)
  BY <1>8 DEF E!ReleaseDec, E!Goto
<1>9. CASE E!ReleaseWake(t)
  BY <1>9 DEF E!ReleaseWake, E!Sleepers
<1>. QED
  BY <1>1, <1>2, <1>3, <1>4, <1>5, <1>6, <1>7, <1>8, <1>9
  DEF EventStep, E!WaitStep, E!ResetStep, E!ReleaseTail

LEMMA IndexCaller ==
  ASSUME IInv, CallerOwn
  PROVE  Index'
<1>0. /\ Typed /\ Index /\ (at[Caller] = "batch" => left = 0 /\ queue = 0 /\ Busy = {})
      /\ Cardinality(Popped) \in Nat /\ (Popped # {} => Cardinality(Popped) > 0)
      /\ Busy = {} => Cardinality(Popped) = 0
  <2>1. at[Caller] = "batch" => left = 0 /\ queue = 0 /\ Busy = {}
    BY Held DEF IInv, Phases, Typed, References
  <2>2. Busy = {} => Popped = {}
    BY BusyFinite
  <2>3. Cardinality(Popped) \in Nat /\ (Popped # {} => Cardinality(Popped) > 0)
        /\ (Popped = {} => Cardinality(Popped) = 0)
    BY BusyFinite, FS_EmptySet
  <2>. QED
    BY <2>1, <2>2, <2>3 DEF IInv
<1>s. \A w \in Workers : at'[w] = at[w]
  BY <1>0, ThreadTypes
  DEF CallerOwn, Typed, Goto, Decref, E!WaitForSingleObject, Fill, NoMore, QueueCheck,
      QueuePush, QueueDone, Wait, WaitReturn, Reset, ResetReturn, CheckAbort, End
<1>b. Busy' = Busy /\ Popped' = Popped
  BY <1>s, SameWorkers
<1>. USE <1>b
<1>. USE <1>0, ThreadTypes
    DEF Typed, Index, Bit, eventVars, ctxVars, Goto, AtWorker, AtCaller, AtCloser, AtAll
<1>1. CASE Fill
  BY <1>1 DEF Fill
<1>2. CASE NoMore
  BY <1>2 DEF NoMore
<1>3. CASE QueueCheck
  BY <1>3 DEF QueueCheck
<1>4. CASE QueuePush
  BY <1>4 DEF QueuePush
<1>5. CASE QueueDone
  BY <1>5 DEF QueueDone, Decref
<1>6. CASE Wait
  BY <1>6 DEF Wait, E!WaitForSingleObject, E!Acquire, E!Goto
<1>7. CASE WaitReturn
  BY <1>7 DEF WaitReturn
<1>8. CASE Reset
  BY <1>8 DEF Reset, E!ResetEvent, E!AcquireTry, E!Goto
<1>9. CASE ResetReturn
  BY <1>9 DEF ResetReturn
<1>10. CASE CheckAbort
  BY <1>10 DEF CheckAbort
<1>11. CASE End
  BY <1>11 DEF End, Decref
<1>. QED
  BY <1>1, <1>2, <1>3, <1>4, <1>5, <1>6, <1>7, <1>8, <1>9, <1>10, <1>11 DEF CallerOwn

LEMMA IndexWorker ==
  ASSUME IInv, NEW w \in Workers, WorkerOwn(w)
  PROVE  Index'
<1>0. /\ Typed /\ Index /\ (at[Caller] = "batch" => left = 0 /\ queue = 0 /\ Busy = {})
      /\ Cardinality(Popped) \in Nat /\ (Popped # {} => Cardinality(Popped) > 0)
      /\ Busy = {} => Cardinality(Popped) = 0
  <2>1. at[Caller] = "batch" => left = 0 /\ queue = 0 /\ Busy = {}
    BY Held DEF IInv, Phases, Typed, References
  <2>2. Busy = {} => Popped = {}
    BY BusyFinite
  <2>3. Cardinality(Popped) \in Nat /\ (Popped # {} => Cardinality(Popped) > 0)
        /\ (Popped = {} => Cardinality(Popped) = 0)
    BY BusyFinite, FS_EmptySet
  <2>. QED
    BY <2>1, <2>2, <2>3 DEF IInv
<1>. USE <1>0, ThreadTypes
    DEF Typed, Index, Bit, eventVars, ctxVars, Goto, AtWorker, AtCaller, AtCloser, AtAll
<1>1. CASE WorkerPop(w)
  <2>1. at[w] = "pop" /\ \E to \in {"unit"} : at' = [at EXCEPT ![w] = to]
    BY <1>1 DEF WorkerPop
  <2>2. /\ Cardinality(Busy') = Cardinality(Busy) + 1
        /\ Cardinality(Popped') = Cardinality(Popped) + 1
    BY <2>1, WorkerMoves DEF InUnit
  <2>3. at'[Caller] = at[Caller]
    BY <2>1
  <2>4. /\ iPID' = iPID /\ queue' = queue - 1
        /\ UNCHANGED <<left, fAbort, selected>> /\ at'[Closer] = at[Closer]
    BY <1>1, <2>1 DEF WorkerPop
  <2>. DEFINE sum == left + Bit(at[Caller] = "push") + queue + Cardinality(Popped)
  <2>5. sum' = sum /\ sum \in Int
    <3>1. left \in Int /\ queue \in Int /\ Cardinality(Popped) \in Int
          /\ Bit(at[Caller] = "push") \in Int
      OBVIOUS
    <3>2. Bit(at[Caller] = "push")' = Bit(at[Caller] = "push")
      BY <2>3
    <3>. HIDE DEF Bit
    <3>3. sum \in Int
      BY <3>1
    <3>. QED
      BY <2>2, <2>4, <3>1, <3>2, <3>3
  <2>. HIDE DEF sum
  <2>6. iPID >= sum /\ (~fAbort => iPID = sum)
    BY DEF sum
  <2>7. iPID' >= sum' /\ (~fAbort => iPID' = sum')
    BY <2>4, <2>5, <2>6
  <2>. QED
    BY <2>3, <2>4, <2>7 DEF sum
<1>2. CASE TakeIndex(w)
  <2>1. at[w] = "unit" /\ \E to \in {"get"} : at' = [at EXCEPT ![w] = to]
    BY <1>2 DEF TakeIndex
  <2>2. /\ Cardinality(Busy') = Cardinality(Busy)
        /\ Cardinality(Popped') = Cardinality(Popped) - 1
    BY <2>1, WorkerMoves DEF InUnit
  <2>3. at'[Caller] = at[Caller]
    BY <2>1
  <2>4. /\ iPID' = iPID - 1 /\ queue' = queue
        /\ UNCHANGED <<left, fAbort, selected>> /\ at'[Closer] = at[Closer]
    BY <1>2, <2>1 DEF TakeIndex
  <2>. DEFINE sum == left + Bit(at[Caller] = "push") + queue + Cardinality(Popped)
  <2>5. sum' = sum - 1 /\ sum \in Int
    <3>1. left \in Int /\ queue \in Int /\ Cardinality(Popped) \in Int
          /\ Bit(at[Caller] = "push") \in Int
      OBVIOUS
    <3>2. Bit(at[Caller] = "push")' = Bit(at[Caller] = "push")
      BY <2>3
    <3>. HIDE DEF Bit
    <3>3. sum \in Int
      BY <3>1
    <3>. QED
      BY <2>2, <2>4, <3>1, <3>2, <3>3
  <2>. HIDE DEF sum
  <2>6. iPID >= sum /\ (~fAbort => iPID = sum)
    BY DEF sum
  <2>7. iPID' >= sum' /\ (~fAbort => iPID' = sum')
    BY <2>4, <2>5, <2>6
  <2>. QED
    BY <2>3, <2>4, <2>7 DEF sum
<1>3. CASE TakeProcess(w)
  <2>1. at[w] = "get" /\ \E to \in {"act"} : at' = [at EXCEPT ![w] = to]
    BY <1>3 DEF TakeProcess
  <2>2. /\ Cardinality(Busy') = Cardinality(Busy)
        /\ Cardinality(Popped') = Cardinality(Popped)
    BY <2>1, WorkerMoves DEF InUnit
  <2>3. at'[Caller] = at[Caller]
    BY <2>1
  <2>. QED
    BY <1>3, <2>1, <2>2, <2>3 DEF TakeProcess
<1>4. CASE WorkerDrop(w)
  <2>1. at[w] = "act" /\ \E to \in {"signal", "idle"} : at' = [at EXCEPT ![w] = to]
    BY <1>4 DEF WorkerDrop, Decref
  <2>2. /\ Cardinality(Busy') = Cardinality(Busy) - 1
        /\ Cardinality(Popped') = Cardinality(Popped)
    BY <2>1, WorkerMoves DEF InUnit
  <2>3. at'[Caller] = at[Caller]
    BY <2>1
  <2>. QED
    BY <1>4, <2>1, <2>2, <2>3 DEF WorkerDrop, Decref
<1>. QED
  BY <1>1, <1>2, <1>3, <1>4 DEF WorkerOwn

LEMMA IndexOthers ==
  ASSUME IInv, Abort \/ Drain \/ \E t \in Threads : Signal(t) \/ SignalReturn(t)
  PROVE  Index'
<1>0. /\ Typed /\ Index /\ (at[Caller] = "batch" => left = 0 /\ queue = 0 /\ Busy = {})
      /\ Cardinality(Popped) \in Nat /\ (Popped # {} => Cardinality(Popped) > 0)
      /\ Busy = {} => Cardinality(Popped) = 0
  <2>1. at[Caller] = "batch" => left = 0 /\ queue = 0 /\ Busy = {}
    BY Held DEF IInv, Phases, Typed, References
  <2>2. Busy = {} => Popped = {}
    BY BusyFinite
  <2>3. Cardinality(Popped) \in Nat /\ (Popped # {} => Cardinality(Popped) > 0)
        /\ (Popped = {} => Cardinality(Popped) = 0)
    BY BusyFinite, FS_EmptySet
  <2>. QED
    BY <2>1, <2>2, <2>3 DEF IInv
<1>. USE <1>0, ThreadTypes
    DEF Typed, Index, Bit, eventVars, ctxVars, Goto, AtWorker, AtCaller, AtCloser, AtAll
<1>1. CASE Abort
  <2>1. Busy' = Busy /\ Popped' = Popped
    BY <1>1 DEF Abort, Busy, Popped
  <2>. QED
    BY <1>1, <2>1 DEF Abort
<1>2. CASE Drain
  <2>1. Busy' = Busy /\ Popped' = Popped
    BY <1>2 DEF Drain, Decref, Busy, Popped
  <2>. QED
    BY <1>2, <2>1 DEF Drain, Decref
<1>3. ASSUME NEW t \in Threads, Signal(t)
       PROVE  Index'
  <2>1. Busy' = Busy /\ Popped' = Popped
    BY <1>3 DEF Signal, E!SetEvent, E!Goto, Busy, Popped
  <2>. QED
    BY <1>3, <2>1 DEF Signal, E!SetEvent, E!Goto
<1>4. ASSUME NEW t \in Threads, SignalReturn(t)
       PROVE  Index'
  <2>1. Busy' = Busy /\ Popped' = Popped
    BY <1>4 DEF SignalReturn, After, Busy, Popped
  <2>. QED
    BY <1>4, <2>1 DEF SignalReturn, After
<1>. QED
  BY <1>1, <1>2, <1>3, <1>4

(***************************************************************************)
(* Who has taken which process.                                            *)
(***************************************************************************)
LEMMA SharesSame ==
  ASSUME Shares, UNCHANGED <<iPID, dwPIDs, selected, idx, taken>>,
         \A w \in Workers : at'[w] = "get" <=> at[w] = "get"
  PROVE  Shares'
  BY DEF Shares

LEMMA SharesEvent ==
  ASSUME IInv, NEW t \in Threads, EventStep(t)
  PROVE  Shares'
  BY SharesSame DEF IInv, EventStep, ctxVars

LEMMA SharesOthers ==
  ASSUME IInv, Abort \/ Drain \/ \E t \in Threads : Signal(t) \/ SignalReturn(t)
  PROVE  Shares'
<1>0. Typed /\ Shares
  BY DEF IInv
<1>1. UNCHANGED <<iPID, dwPIDs, selected, idx, taken>>
  BY DEF Abort, Drain, Signal, SignalReturn, ctxVars
<1>. SUFFICES ASSUME NEW w \in Workers
              PROVE  at'[w] = "get" <=> at[w] = "get"
  BY <1>0, <1>1, SharesSame
<1>. USE <1>0, ThreadTypes DEF Typed, Goto
<1>2. CASE Abort
  BY <1>2 DEF Abort
<1>3. CASE Drain
  BY <1>3 DEF Drain, Decref
<1>4. CASE \E t \in Threads : Signal(t)
  BY <1>4 DEF Signal
<1>5. CASE \E t \in Threads : SignalReturn(t)
  BY <1>5 DEF SignalReturn, After
<1>. QED
  BY <1>2, <1>3, <1>4, <1>5

LEMMA SharesFill ==
  ASSUME IInv, Fill
  PROVE  Shares'
<1>1. Typed /\ Shares /\ Busy = {}
  BY Held DEF IInv, Phases, Typed, Fill, Goto
<1>2. selected \in Seq(Procs) /\ Len(selected) \in Nat /\ MaxThread \in Nat
  BY <1>1, ThreadTypes, LenProperties DEF Typed
<1>. DEFINE n == IF Len(selected) < MaxThread THEN Len(selected) ELSE MaxThread
<1>3. n \in Nat /\ n <= Len(selected)
  BY <1>2
<1>4. iPID' = n /\ dwPIDs' = Batch(n) /\ selected' = SubSeq(selected, 1, Len(selected) - n)
  BY DEF Fill
<1>5. UNCHANGED <<idx, taken>> /\ \A w \in Workers : at'[w] # "get"
  BY <1>1, ThreadTypes DEF Fill, Goto, Typed, Busy
<1>. HIDE DEF n
<1>6. /\ DOMAIN dwPIDs' = 0..(n - 1)
      /\ \A i \in 0..(n - 1) : dwPIDs'[i] = selected[Len(selected) - i]
      /\ \A i \in 0..(n - 1) : Len(selected) - i \in 1..Len(selected)
  BY <1>2, <1>3, <1>4 DEF Batch
<1>7. /\ Len(selected') = Len(selected) - n
      /\ \A j \in 1..(Len(selected) - n) : selected'[j] = selected[j] /\ j \in 1..Len(selected)
  BY <1>2, <1>3, <1>4, SubSeqProperties
<1>8. /\ DOMAIN dwPIDs' \subseteq Nat /\ \A i \in Nat : i < n => i \in DOMAIN dwPIDs'
      /\ \A i \in DOMAIN dwPIDs' : i < n
  BY <1>3, <1>6
<1>9. /\ \A i \in DOMAIN dwPIDs' : dwPIDs'[i] \in Procs /\ taken[dwPIDs'[i]] = 0
      /\ \A i, j \in DOMAIN dwPIDs' : dwPIDs'[i] = dwPIDs'[j] => i = j
  <2>1. \A i \in 1..Len(selected) : selected[i] \in Procs /\ taken[selected[i]] = 0
    BY <1>1, <1>2, ElementOfSeq DEF Shares
  <2>2. ASSUME NEW i \in 0..(n - 1), NEW j \in 0..(n - 1), dwPIDs'[i] = dwPIDs'[j]
        PROVE  i = j
    <3>1. selected[Len(selected) - i] = selected[Len(selected) - j]
      BY <1>6, <2>2
    <3>2. Len(selected) - i = Len(selected) - j
      BY <1>1, <1>6, <3>1 DEF Shares
    <3>. QED
      BY <1>2, <1>3, <3>2
  <2>3. \A i \in 0..(n - 1) : dwPIDs'[i] \in Procs /\ taken[dwPIDs'[i]] = 0
    BY <1>6, <2>1
  <2>. QED
    BY <1>6, <2>2, <2>3
<1>10. \A i, j \in 1..Len(selected') : selected'[i] = selected'[j] => i = j
  BY <1>1, <1>7 DEF Shares
<1>11. ASSUME NEW i \in 1..Len(selected')
       PROVE  taken[selected'[i]] = 0 /\ \A j \in DOMAIN dwPIDs' : dwPIDs'[j] # selected'[i]
  <2>1. i \in 1..Len(selected) /\ selected'[i] = selected[i] /\ i <= Len(selected) - n
    BY <1>7
  <2>2. \A j \in 0..(n - 1) : Len(selected) - j # i
    BY <1>2, <1>3, <2>1
  <2>. QED
    BY <1>1, <1>6, <2>1, <2>2 DEF Shares
<1>12. /\ \A p \in Procs : taken'[p] <= 1
       /\ \A i \in 1..Len(selected') :
            taken'[selected'[i]] = 0 /\ \A j \in DOMAIN dwPIDs' : dwPIDs'[j] # selected'[i]
  BY <1>1, <1>5, <1>11 DEF Shares
<1>13. ASSUME NEW i \in DOMAIN dwPIDs'
       PROVE  i < iPID' /\ ~(i >= iPID') /\ taken'[dwPIDs'[i]] = 0
  BY <1>3, <1>4, <1>5, <1>6, <1>8, <1>9
<1>14. \A i \in Nat : i < iPID' => i \in DOMAIN dwPIDs'
  BY <1>4, <1>8
<1>. QED
  BY <1>5, <1>8, <1>9, <1>10, <1>12, <1>13, <1>14 DEF Shares

LEMMA SharesCaller ==
  ASSUME IInv, CallerOwn
  PROVE  Shares'
<1>1. CASE Fill
  BY <1>1, SharesFill
<1>2. CASE ~Fill
  <2>1. UNCHANGED <<iPID, dwPIDs, selected, idx, taken>>
    BY <1>2
    DEF CallerOwn, ctxVars, NoMore, QueueCheck, QueuePush, QueueDone, Wait, WaitReturn, Reset,
        ResetReturn, CheckAbort, End
  <2>2. \A w \in Workers : at'[w] = at[w]
    BY ThreadTypes
    DEF IInv, CallerOwn, Typed, Goto, Decref, E!WaitForSingleObject, Fill, NoMore, QueueCheck,
        QueuePush, QueueDone, Wait, WaitReturn, Reset, ResetReturn, CheckAbort, End
  <2>. QED
    BY <2>1, <2>2, SharesSame DEF IInv
<1>. QED
  BY <1>1, <1>2

LEMMA SharesWorker ==
  ASSUME IInv, NEW w \in Workers, WorkerOwn(w)
  PROVE  Shares'
<1>0. /\ Typed /\ Shares /\ (at[w] = "unit" => iPID > 0)
  <2>1. at[w] = "unit" => Cardinality(Popped) > 0 /\ Cardinality(Popped) \in Nat
    BY BusyFinite DEF Popped
  <2>2. iPID >= left + (IF at[Caller] = "push" THEN 1 ELSE 0) + queue + Cardinality(Popped)
    BY DEF IInv, Index, Bit
  <2>. QED
    BY <2>1, <2>2 DEF IInv, Typed
<1>. USE <1>0, ThreadTypes DEF Typed, Goto
<1>1. CASE TakeIndex(w)
  <2>1. /\ at[w] = "unit" /\ at' = [at EXCEPT ![w] = "get"] /\ iPID' = iPID - 1
        /\ idx' = [idx EXCEPT ![w] = iPID - 1] /\ UNCHANGED <<selected, dwPIDs, taken>>
    BY <1>1 DEF TakeIndex
  <2>2. iPID - 1 \in DOMAIN dwPIDs /\ iPID - 1 \in Nat /\ taken[dwPIDs[iPID - 1]] = 0
    BY <2>1 DEF Shares
  <2>3. \A v \in Workers \ {w} : at'[v] = at[v] /\ idx'[v] = idx[v]
    BY <2>1
  <2>4. at'[w] = "get" /\ idx'[w] = iPID - 1
    BY <2>1
  <2>. QED
    BY <2>1, <2>2, <2>3, <2>4 DEF Shares
<1>2. CASE TakeProcess(w)
  <2>1. /\ at[w] = "get" /\ at' = [at EXCEPT ![w] = "act"]
        /\ UNCHANGED <<iPID, dwPIDs, selected, idx>>
    BY <1>2 DEF TakeProcess, ctxVars
  <2>. DEFINE p == dwPIDs[idx[w]]
  <2>2. idx[w] \in DOMAIN dwPIDs /\ p \in Procs /\ taken[p] = 0 /\ idx[w] >= iPID
    BY <2>1 DEF Shares
  <2>3. taken' = [taken EXCEPT ![p] = 1]
    BY <1>2, <2>2 DEF TakeProcess
  <2>4. /\ \A i \in DOMAIN dwPIDs : i # idx[w] => taken'[dwPIDs[i]] = taken[dwPIDs[i]]
        /\ taken'[p] = 1
        /\ \A q \in Procs : taken'[q] <= 1
    BY <2>2, <2>3 DEF Shares
  <2>5. \A i \in 1..Len(selected) : taken'[selected[i]] = taken[selected[i]]
    <3>1. \A i \in 1..Len(selected) : selected[i] \in Procs /\ selected[i] # p
      BY <2>2, LenProperties, ElementOfSeq DEF Shares
    <3>. QED
      BY <2>3, <3>1
  <2>6. \A v \in Workers : at'[v] = "get" <=> v # w /\ at[v] = "get"
    BY <2>1
  <2>7. ASSUME NEW i \in DOMAIN dwPIDs
        PROVE  /\ i < iPID => taken'[dwPIDs[i]] = 0
               /\ i >= iPID => taken'[dwPIDs[i]] = 1
                                 \/ \E v \in Workers : at'[v] = "get" /\ idx[v] = i
    BY <2>2, <2>4, <2>6 DEF Shares
  <2>8. ASSUME NEW v \in Workers, at'[v] = "get"
        PROVE  taken'[dwPIDs[idx[v]]] = 0
    BY <2>1, <2>4, <2>6, <2>8 DEF Shares
  <2>. QED
    BY <2>1, <2>4, <2>5, <2>6, <2>7, <2>8 DEF Shares
<1>3. CASE WorkerPop(w) \/ WorkerDrop(w)
  <2>1. UNCHANGED <<iPID, dwPIDs, selected, idx, taken>>
    BY <1>3 DEF WorkerPop, WorkerDrop, ctxVars
  <2>2. \A v \in Workers : at'[v] = "get" <=> at[v] = "get"
    BY <1>3 DEF WorkerPop, WorkerDrop, Decref
  <2>. QED
    BY <2>1, <2>2, SharesSame
<1>. QED
  BY <1>1, <1>2, <1>3 DEF WorkerOwn

(***************************************************************************)
(* Where the selected processes are.                                       *)
(***************************************************************************)
LEMMA AccountSame ==
  ASSUME Account, UNCHANGED <<dwPIDs, selected, taken, chosen>>, fAbort => fAbort'
  PROVE  Account'
  BY DEF Account

LEMMA AccountEvent ==
  ASSUME IInv, NEW t \in Threads, EventStep(t)
  PROVE  Account'
  BY AccountSame DEF IInv, EventStep, ctxVars

LEMMA AccountOthers ==
  ASSUME IInv, Abort \/ Drain \/ \E t \in Threads : Signal(t) \/ SignalReturn(t)
  PROVE  Account'
<1>1. UNCHANGED <<dwPIDs, selected, taken, chosen>> /\ (fAbort => fAbort')
  BY DEF Abort, Drain, Signal, SignalReturn, ctxVars
<1>. QED
  BY <1>1, AccountSame DEF IInv

(* When the table is refilled, all that were in it have been handed out.   *)
LEMMA AccountFill ==
  ASSUME IInv, Fill
  PROVE  Account'
<1>1. /\ Typed /\ Account /\ queue = 0 /\ Busy = {} /\ left = 0
      /\ at[Caller] = "batch"
  BY Held DEF IInv, Phases, Typed, References, Fill, Goto
<1>2. selected \in Seq(Procs) /\ Len(selected) \in Nat /\ MaxThread \in Nat
  BY <1>1, ThreadTypes, LenProperties DEF Typed
<1>. DEFINE n == IF Len(selected) < MaxThread THEN Len(selected) ELSE MaxThread
<1>3. n \in Nat /\ n <= Len(selected)
  BY <1>2
<1>4. /\ dwPIDs' = Batch(n) /\ selected' = SubSeq(selected, 1, Len(selected) - n)
      /\ UNCHANGED <<taken, chosen, fAbort>>
  BY DEF Fill
<1>. HIDE DEF n
<1>5. /\ DOMAIN dwPIDs' = 0..(n - 1)
      /\ \A i \in 0..(n - 1) : dwPIDs'[i] = selected[Len(selected) - i]
      /\ \A i \in 0..(n - 1) : Len(selected) - i \in 1..Len(selected)
  BY <1>2, <1>3, <1>4 DEF Batch
<1>6. /\ Len(selected') = Len(selected) - n
      /\ \A j \in 1..(Len(selected) - n) : selected'[j] = selected[j] /\ j \in 1..Len(selected)
  BY <1>2, <1>3, <1>4, SubSeqProperties
<1>7. ASSUME ~fAbort, NEW i \in DOMAIN dwPIDs
      PROVE  taken[dwPIDs[i]] = 1
  <2>1. Cardinality(Popped) = 0
    BY <1>1, BusyFinite, FS_EmptySet
  <2>2. iPID = 0
    BY <1>1, <1>7, <2>1 DEF IInv, Index, Bit
  <2>3. i \in Nat /\ i >= iPID
    BY <1>7, <2>2 DEF IInv, Shares
  <2>4. \A w \in Workers : at[w] # "get"
    BY <1>1 DEF Busy
  <2>. QED
    BY <2>3, <2>4 DEF IInv, Shares
<1>8. ASSUME NEW i \in 1..Len(selected)
      PROVE  \/ \E j \in 1..Len(selected') : selected'[j] = selected[i]
             \/ \E j \in DOMAIN dwPIDs' : dwPIDs'[j] = selected[i]
  <2>1. CASE i <= Len(selected) - n
    <3>1. i \in 1..(Len(selected) - n)
      BY <1>2, <1>3, <2>1
    <3>. QED
      BY <1>6, <3>1
  <2>2. CASE ~(i <= Len(selected) - n)
    <3>1. Len(selected) - i \in 0..(n - 1) /\ Len(selected) - (Len(selected) - i) = i
      BY <1>2, <1>3, <2>2
    <3>. QED
      BY <1>5, <3>1
  <2>. QED
    BY <2>1, <2>2
<1>9. \A i \in 1..Len(selected') : selected'[i] \in chosen
  BY <1>1, <1>6 DEF Account
<1>10. \A i \in DOMAIN dwPIDs' : dwPIDs'[i] \in chosen
  BY <1>1, <1>5 DEF Account
<1>11. ASSUME ~fAbort, NEW p \in chosen
       PROVE  \/ taken[p] = 1
              \/ \E i \in 1..Len(selected') : selected'[i] = p
              \/ \E i \in DOMAIN dwPIDs' : dwPIDs'[i] = p
  BY <1>1, <1>7, <1>8, <1>11 DEF Account
<1>. QED
  BY <1>1, <1>4, <1>9, <1>10, <1>11 DEF Account

LEMMA AccountCaller ==
  ASSUME IInv, CallerOwn
  PROVE  Account'
<1>1. CASE Fill
  BY <1>1, AccountFill
<1>2. CASE ~Fill
  <2>1. UNCHANGED <<dwPIDs, selected, taken, chosen, fAbort>>
    BY <1>2
    DEF CallerOwn, ctxVars, NoMore, QueueCheck, QueuePush, QueueDone, Wait, WaitReturn, Reset,
        ResetReturn, CheckAbort, End
  <2>. QED
    BY <2>1, AccountSame DEF IInv
<1>. QED
  BY <1>1, <1>2

LEMMA AccountWorker ==
  ASSUME IInv, NEW w \in Workers, WorkerOwn(w)
  PROVE  Account'
<1>0. Typed /\ Shares /\ Account
  BY DEF IInv
<1>1. CASE TakeProcess(w)
  <2>1. at[w] = "get" /\ UNCHANGED <<fAbort, dwPIDs, selected, chosen>>
    BY <1>1 DEF TakeProcess, Goto, ctxVars
  <2>. DEFINE p == dwPIDs[idx[w]]
  <2>2. idx[w] \in DOMAIN dwPIDs /\ p \in Procs /\ taken[p] = 0 /\ p \in chosen
    BY <1>0, <2>1 DEF Shares, Account
  <2>3. taken' = [taken EXCEPT ![p] = 1]
    BY <1>1, <2>2 DEF TakeProcess
  <2>4. /\ taken'[p] = 1
        /\ \A q \in Procs : q # p => taken'[q] = taken[q]
    BY <1>0, <2>2, <2>3 DEF Typed
  <2>5. chosen \subseteq Procs
    BY <1>0 DEF Account
  <2>6. \A q \in Procs : taken'[q] > 0 => q \in chosen
    BY <1>0, <2>2, <2>4 DEF Account
  <2>7. \A q \in chosen : taken[q] = 1 => taken'[q] = 1
    BY <2>4, <2>5
  <2>. QED
    BY <1>0, <2>1, <2>5, <2>6, <2>7 DEF Account
<1>2. CASE WorkerPop(w) \/ TakeIndex(w) \/ WorkerDrop(w)
  <2>1. UNCHANGED <<dwPIDs, selected, taken, chosen, fAbort>>
    BY <1>2 DEF WorkerPop, TakeIndex, WorkerDrop, ctxVars
  <2>. QED
    BY <1>0, <2>1, AccountSame
<1>. QED
  BY <1>1, <1>2 DEF WorkerOwn

(***************************************************************************)
(* Types.                                                                  *)
(***************************************************************************)
LEMMA TypedEvent ==
  ASSUME IInv, NEW t \in Threads, EventStep(t)
  PROVE  Typed'
<1>0. Typed
  BY DEF IInv
<1>. USE <1>0, ThreadTypes
    DEF Typed, E!Pc, eventVars, ctxVars, Goto, AtWorker, AtCaller, AtCloser, AtAll
<1>. UNCHANGED <<at, fAbort, selected, left, ctxVars, queue, idx, taken>>
  BY DEF EventStep
<1>1. CASE at[t] = "waiting" /\ E!CasOk(t)
  BY <1>1 DEF E!CasOk, E!Goto
<1>2. CASE at[t] = "waiting" /\ E!CasFail(t)
  BY <1>2 DEF E!CasFail, E!Goto
<1>3. CASE at[t] = "waiting" /\ E!FutexWait(t)
  BY <1>3 DEF E!FutexWait, E!Goto
<1>4. CASE at[t] = "waiting" /\ E!WaitPass(t)
  BY <1>4 DEF E!WaitPass, E!Goto
<1>5. CASE at[t] = "resetting" /\ E!ResetOk(t)
  BY <1>5 DEF E!ResetOk, E!Goto
<1>6. CASE at[t] = "resetting" /\ E!TryFail(t)
  BY <1>6 DEF E!TryFail, E!Goto
<1>7. CASE at[t] = "resetting" /\ E!Undo(t)
  BY <1>7 DEF E!Undo, E!Goto
<1>8. CASE E!ReleaseDec(t)
  BY <1>8 DEF E!ReleaseDec, E!Goto
<1>9. CASE E!ReleaseWake(t)
  BY <1>9 DEF E!ReleaseWake, E!Sleepers
<1>. QED
  BY <1>1, <1>2, <1>3, <1>4, <1>5, <1>6, <1>7, <1>8, <1>9
  DEF EventStep, E!WaitStep, E!ResetStep, E!ReleaseTail

LEMMA TypedCaller ==
  ASSUME IInv, CallerOwn
  PROVE  Typed'
<1>0. Typed
  BY DEF IInv
<1>. USE <1>0, ThreadTypes
    DEF Typed, E!Pc, eventVars, ctxVars, Goto, AtWorker, AtCaller, AtCloser, AtAll
<1>1. CASE Fill
  BY <1>1 DEF Fill
<1>2. CASE NoMore
  BY <1>2 DEF NoMore
<1>3. CASE QueueCheck
  BY <1>3 DEF QueueCheck
<1>4. CASE QueuePush
  BY <1>4 DEF QueuePush
<1>5. CASE QueueDone
  <2>1. count > 0 /\ count - 1 \in Nat
    <3>1. count > 0
      BY <1>5, Held DEF QueueDone, Decref, IInv, Phases, Busy
    <3>. QED
      BY <3>1
  <2>2. count' = count - 1 /\ UNCHANGED <<xchg, epc, fAbort, left, selected, iPID, idx, taken>>
    BY <1>5 DEF QueueDone, Decref
  <2>3. queue' \in Nat
    BY <1>5 DEF QueueDone
  <2>4. \E to \in {"signal", "wait"} : at' = [at EXCEPT ![Caller] = to]
    BY <1>5 DEF QueueDone, Decref
  <2>. QED
    BY <2>1, <2>2, <2>3, <2>4
<1>6. CASE Wait
  BY <1>6 DEF Wait, E!WaitForSingleObject, E!Acquire, E!Goto
<1>7. CASE WaitReturn
  BY <1>7 DEF WaitReturn
<1>8. CASE Reset
  BY <1>8 DEF Reset, E!ResetEvent, E!AcquireTry, E!Goto
<1>9. CASE ResetReturn
  BY <1>9 DEF ResetReturn
<1>10. CASE CheckAbort
  BY <1>10 DEF CheckAbort
<1>11. CASE End
  <2>1. count > 0 /\ count - 1 \in Nat
    <3>1. count > 0
      BY <1>11, Held DEF End, Decref, IInv, Phases, Busy
    <3>. QED
      BY <3>1
  <2>2. count' = count - 1 /\ UNCHANGED <<xchg, epc, fAbort, left, selected, iPID, idx, taken>>
    BY <1>11 DEF End, Decref
  <2>3. queue' \in Nat
    BY <1>11 DEF End
  <2>4. \E to \in {"signal", "done"} : at' = [at EXCEPT ![Caller] = to]
    BY <1>11 DEF End, Decref
  <2>. QED
    BY <2>1, <2>2, <2>3, <2>4
<1>. QED
  BY <1>1, <1>2, <1>3, <1>4, <1>5, <1>6, <1>7, <1>8, <1>9, <1>10, <1>11 DEF CallerOwn

LEMMA TypedWorker ==
  ASSUME IInv, NEW w \in Workers, WorkerOwn(w)
  PROVE  Typed'
<1>0. Typed
  BY DEF IInv
<1>. USE <1>0, ThreadTypes
    DEF Typed, E!Pc, eventVars, ctxVars, Goto, AtWorker, AtCaller, AtCloser, AtAll
<1>1. CASE WorkerPop(w)
  BY <1>1 DEF WorkerPop
<1>2. CASE TakeIndex(w)
  <2>1. at[w] = "unit" /\ Cardinality(Popped) > 0 /\ Cardinality(Popped) \in Nat
    BY <1>2, BusyFinite DEF TakeIndex, Popped
  <2>2. iPID >= left + (IF at[Caller] = "push" THEN 1 ELSE 0) + queue + Cardinality(Popped)
    BY DEF IInv, Index, Bit
  <2>3. iPID - 1 \in Nat
    BY <2>1, <2>2
  <2>. QED
    BY <1>2, <2>3 DEF TakeIndex
<1>3. CASE TakeProcess(w)
  <2>1. dwPIDs[idx[w]] \in Procs /\ idx[w] \in DOMAIN dwPIDs
    BY <1>3 DEF TakeProcess, IInv, Shares
  <2>2. taken' = [taken EXCEPT ![dwPIDs[idx[w]]] = @ + 1]
    BY <1>3, <2>1 DEF TakeProcess
  <2>. QED
    BY <1>3, <2>1, <2>2 DEF TakeProcess
<1>4. CASE WorkerDrop(w)
  <2>1. count > 0 /\ count - 1 \in Nat
    <3>1. count > 0
      BY <1>4, Held DEF WorkerDrop, Decref, IInv, Phases, Busy
    <3>. QED
      BY <3>1
  <2>2. count' = count - 1 /\ UNCHANGED <<xchg, epc, fAbort, left, selected, iPID, idx, taken>>
    BY <1>4 DEF WorkerDrop, Decref
  <2>3. queue' \in Nat
    BY <1>4 DEF WorkerDrop
  <2>4. \E to \in {"signal", "idle"} : at' = [at EXCEPT ![w] = to]
    BY <1>4 DEF WorkerDrop, Decref
  <2>. QED
    BY <2>1, <2>2, <2>3, <2>4
<1>. QED
  BY <1>1, <1>2, <1>3, <1>4 DEF WorkerOwn

LEMMA TypedOthers ==
  ASSUME IInv, Abort \/ Drain \/ \E t \in Threads : Signal(t) \/ SignalReturn(t)
  PROVE  Typed'
<1>0. Typed
  BY DEF IInv
<1>. USE <1>0, ThreadTypes
    DEF Typed, E!Pc, eventVars, ctxVars, Goto, AtWorker, AtCaller, AtCloser, AtAll
<1>1. CASE Abort
  BY <1>1 DEF Abort
<1>2. CASE Drain
  <2>1. count > 0 /\ count - 1 \in Nat
    <3>1. count > 0
      BY <1>2, Held DEF Drain, Decref, IInv, Phases, Busy
    <3>. QED
      BY <3>1
  <2>2. count' = count - 1 /\ UNCHANGED <<xchg, epc, fAbort, left, selected, iPID, idx, taken>>
    BY <1>2 DEF Drain, Decref
  <2>3. queue' \in Nat
    BY <1>2 DEF Drain
  <2>4. \E to \in {"signal", "drain"} : at' = [at EXCEPT ![Closer] = to]
    BY <1>2 DEF Drain, Decref
  <2>. QED
    BY <2>1, <2>2, <2>3, <2>4
<1>3. ASSUME NEW t \in Threads, Signal(t)
       PROVE  Typed'
  BY <1>3 DEF Signal, E!SetEvent, E!Goto
<1>4. ASSUME NEW t \in Threads, SignalReturn(t)
       PROVE  Typed'
  BY <1>4 DEF SignalReturn, After
<1>. QED
  BY <1>1, <1>2, <1>3, <1>4

(***************************************************************************)
(* The invariant.                                                          *)
(***************************************************************************)
LEMMA InitInv == Init => IInv
<1>. SUFFICES ASSUME Init
              PROVE  IInv
  OBVIOUS
<1>. USE ThreadTypes DEF Init, E!CreateEvent
<1>1. Busy = {} /\ Popped = {} /\ Cardinality(Busy) = 0 /\ Cardinality(Popped) = 0
  <2>1. Busy = {} /\ Popped = {}
    BY DEF Busy, Popped
  <2>. QED
    BY <2>1, FS_EmptySet
<1>2. PICK m \in 0..MaxProc : chosen = 1..m /\ selected = [i \in 1..m |-> i]
  OBVIOUS
<1>m. /\ m \in Nat /\ chosen \subseteq Procs /\ selected \in Seq(Procs) /\ Len(selected) = m
      /\ \A i \in 1..m : selected[i] = i /\ i \in chosen /\ i \in Procs
  BY <1>2, ProcAssumption DEF Procs, ProcAssumption
<1>3. Typed
  <2>1. /\ at \in [Threads -> AtAll] /\ at[Caller] \in AtCaller /\ at[Closer] \in AtCloser
        /\ \A w \in Workers : at[w] \in AtWorker
    BY DEF AtAll, AtWorker, AtCaller, AtCloser
  <2>2. epc \in [Threads -> E!Pc] /\ xchg \in {0, 1} /\ fAbort \in BOOLEAN
    BY DEF E!Pc
  <2>3. /\ count \in Nat /\ queue \in Nat /\ left \in Nat /\ iPID \in Nat
        /\ idx \in [Workers -> Int] /\ taken \in [Procs -> Nat]
    OBVIOUS
  <2>. QED
    BY <1>m, <2>1, <2>2, <2>3 DEF Typed
<1>4. InEvent /\ Phases
  BY DEF InEvent, Phases, Pending, Unset
<1>5. References /\ Index
  BY <1>1 DEF References, Index, Bit
<1>6. Shares
  BY <1>m DEF Shares
<1>7. Account
  BY <1>m DEF Account
<1>. QED
  BY <1>3, <1>4, <1>5, <1>6, <1>7 DEF IInv

LEMMA StepInv == IInv /\ [Next]_vars => IInv'
<1>. SUFFICES ASSUME IInv, [Next]_vars
              PROVE  IInv'
  OBVIOUS
<1>1. CASE UNCHANGED vars
  BY <1>1 DEF vars, eventVars, ctxVars, IInv, Typed, InEvent, Phases, Pending, Unset, References,
              Index, Shares, Account, Busy, Popped
<1>2. ASSUME NEW t \in Threads, EventStep(t)
      PROVE  IInv'
  BY <1>2, TypedEvent, InEventEvent, PhasesEvent, ReferencesEvent, IndexEvent, SharesEvent,
     AccountEvent DEF IInv
<1>3. CASE CallerOwn
  BY <1>3, TypedCaller, InEventCaller, PhasesCaller, ReferencesCaller, IndexCaller, SharesCaller,
     AccountCaller DEF IInv
<1>4. ASSUME NEW w \in Workers, WorkerOwn(w)
      PROVE  IInv'
  BY <1>4, TypedWorker, InEventWorker, PhasesWorker, ReferencesWorker, IndexWorker, SharesWorker,
     AccountWorker DEF IInv
<1>5. CASE Abort \/ Drain \/ \E t \in Threads : Signal(t) \/ SignalReturn(t)
  BY <1>5, TypedOthers, InEventOthers, PhasesOthers, ReferencesOthers, IndexOthers, SharesOthers,
     AccountOthers DEF IInv
<1>6. CASE PoolStep
  BY <1>6, PoolKeeps
<1>7. Next => \/ UNCHANGED vars \/ CallerOwn \/ PoolStep
              \/ \E t \in Threads : EventStep(t)
              \/ \E w \in Workers : WorkerOwn(w)
              \/ Abort \/ Drain \/ \E t \in Threads : Signal(t) \/ SignalReturn(t)
  BY DEF Next, Terminated, Step, CallerStep, CallerOwn, WorkerStep, WorkerOwn, CloserStep, PoolStep
<1>. QED
  BY <1>1, <1>2, <1>3, <1>4, <1>5, <1>6, <1>7

THEOREM Inductive == Spec => []IInv
<1>. QED
  BY InitInv, StepInv, PTL DEF Spec

(* The table is not refilled, and the object not given up, while a unit of *)
(* the batch is queued or runs; and nobody starts to use the event of an   *)
(* object that was freed.                                                  *)
THEOREM Intact == Spec => []BatchIntact
<1>1. IInv => BatchIntact
  <2>. SUFFICES ASSUME IInv
                PROVE  BatchIntact
    OBVIOUS
  <2>1. at[Caller] \in {"reset", "resetting", "check", "batch", "end", "done"} =>
          queue = 0 /\ Busy = {}
    BY Held DEF IInv, Typed
  <2>2. freed => \A t \in Threads : at[t] # "signal" /\ epc[t] \in {"out", "relDec", "relWake"}
    BY ThreadTypes DEF IInv, Phases, Pending, InEvent
  <2>. QED
    BY <2>1, <2>2 DEF BatchIntact
<1>. QED
  BY <1>1, Inductive, PTL

(* Every unit finds a process of its own in the table and no process is    *)
(* handed out twice; without an abort exactly the processes that were      *)
(* selected, those of every batch, have been handed out at the end.        *)
THEOREM HandedOut == Spec => []HandedOutOnce
<1>1. IInv => HandedOutOnce
  <2>. SUFFICES ASSUME IInv
                PROVE  HandedOutOnce
    OBVIOUS
  <2>1. ASSUME at[Caller] = "done", ~fAbort, NEW p \in chosen
        PROVE  taken[p] = 1
    <3>1. queue = 0 /\ Busy = {} /\ Popped = {} /\ left = 0
      BY <2>1, Held, BusyFinite DEF IInv, Typed, References
    <3>2. Cardinality(Popped) = 0
      BY <3>1, FS_EmptySet
    <3>3. iPID = 0 /\ selected = <<>>
      BY <2>1, <3>1, <3>2 DEF IInv, Index, Bit
    <3>4. \A w \in Workers : at[w] # "get"
      BY <3>1 DEF Busy
    <3>5. \A i \in DOMAIN dwPIDs : taken[dwPIDs[i]] = 1
      BY <3>3, <3>4 DEF IInv, Shares
    <3>6. ~\E i \in 1..Len(selected) : selected[i] = p
      BY <3>3
    <3>. QED
      BY <2>1, <3>5, <3>6 DEF IInv, Account
  <2>2. \A w \in Workers : at[w] = "get" => idx[w] \in DOMAIN dwPIDs
    BY DEF IInv, Shares
  <2>3. \A p \in Procs : taken[p] <= IF p \in chosen THEN 1 ELSE 0
    BY DEF IInv, Typed, Shares, Account
  <2>. QED
    BY <2>1, <2>2, <2>3 DEF HandedOutOnce
<1>. QED
  BY <1>1, Inductive, PTL

(***************************************************************************)
(* The event.                                                              *)
(***************************************************************************)
(* Only the caller waits, or has come through the lock.                    *)
Waits(e) == IF e[Caller] \in {"cas", "futex", "sleep"} THEN {Caller} ELSE {}

LEMMA OnlyCaller ==
  ASSUME NEW x, NEW e, \A t \in Threads \ {Caller} : e[t] \in {"out", "relDec", "relWake"}
  PROVE  /\ (x = 0 \/ \E t \in Threads : e[t] = "in") = (x = 0 \/ e[Caller] = "in")
         /\ {t \in Threads : e[t] \in {"cas", "futex", "sleep"}} = Waits(e)
  BY ThreadTypes DEF Waits

LEMMA EventIs ==
  IInv => E!isSet = (xchg = 0 \/ epc[Caller] = "in") /\ E!waiters = Waits(epc)
<1>. SUFFICES ASSUME IInv
              PROVE  E!isSet = (xchg = 0 \/ epc[Caller] = "in") /\ E!waiters = Waits(epc)
  OBVIOUS
<1>1. \A t \in Threads \ {Caller} : epc[t] \in {"out", "relDec", "relWake"}
  BY DEF IInv, InEvent
<1>2. PICK x, e : x = xchg /\ e = epc
  OBVIOUS
<1>3. /\ (x = 0 \/ \E t \in Threads : e[t] = "in") = (x = 0 \/ e[Caller] = "in")
      /\ {t \in Threads : e[t] \in {"cas", "futex", "sleep"}} = Waits(e)
  BY <1>1, <1>2, OnlyCaller
<1>. QED
  BY <1>2, <1>3 DEF E!isSet, E!waiters

(* What a step does to the event is seen in xchg and in where the caller   *)
(* is inside it.                                                           *)
Same == (xchg = 0 \/ epc[Caller] = "in") = (xchg = 0 \/ epc[Caller] = "in")'
           /\ Waits(epc') = Waits(epc)

LEMMA EventMoves ==
  ASSUME IInv, IInv', NEW t \in Threads, EventStep(t)
  PROVE  \/ Same
         \/ (xchg = 0 \/ epc[Caller] = "in") /\ (xchg = 0 \/ epc[Caller] = "in")'
            /\ Waits(epc) = {Caller} /\ Waits(epc') = {}
         \/ Waits(epc) = {} /\ Waits(epc') = {} /\ ~(xchg = 0 \/ epc[Caller] = "in")'
<1>0. /\ Typed /\ InEvent /\ epc \in [Threads -> E!Pc] /\ epc[Caller] \in E!Pc
      /\ Caller \in Threads
  BY ThreadTypes DEF IInv, Typed
<1>1. at[t] \in {"waiting", "resetting"} => t = Caller
  BY ThreadTypes DEF IInv, Typed, AtWorker, AtCloser
<1>2. CASE at[t] = "waiting" /\ E!CasOk(t)
  BY <1>0, <1>1, <1>2 DEF E!CasOk, E!Goto, Waits
<1>3. CASE at[t] = "waiting" /\ E!CasFail(t)
  BY <1>0, <1>1, <1>3 DEF E!CasFail, E!Goto, Waits, Same
<1>4. CASE at[t] = "waiting" /\ E!FutexWait(t)
  BY <1>0, <1>1, <1>4 DEF E!FutexWait, E!Goto, Waits, Same
<1>5. CASE at[t] = "waiting" /\ E!WaitPass(t)
  BY <1>0, <1>1, <1>5 DEF E!WaitPass, E!Goto, Waits, Same
<1>6. CASE at[t] = "resetting" /\ E!ResetOk(t)
  BY <1>0, <1>1, <1>6 DEF E!ResetOk, E!Goto, Waits, Same
<1>7. CASE at[t] = "resetting" /\ (E!TryFail(t) \/ E!Undo(t))
  BY <1>0, <1>1, <1>7 DEF InEvent, E!TryFail, E!Undo, E!Goto
<1>8. CASE E!ReleaseDec(t)
  BY <1>0, <1>8 DEF E!ReleaseDec, E!Goto, Waits, Same
<1>9. CASE E!ReleaseWake(t)
  <2>1. /\ epc[t] = "relWake" /\ epc'[t] = "out" /\ UNCHANGED xchg
        /\ \A u \in Threads \ {t} : epc'[u] = epc[u] \/ (epc[u] = "sleep" /\ epc'[u] = "cas")
    BY <1>0, <1>9, WakeOne
  <2>. QED
    BY <1>0, <2>1 DEF Waits, Same
<1>. QED
  BY <1>2, <1>3, <1>4, <1>5, <1>6, <1>7, <1>8, <1>9
  DEF EventStep, E!WaitStep, E!ResetStep, E!ReleaseTail

LEMMA EventFollows == IInv /\ IInv' /\ [Next]_vars => [Promise!Next]_<<E!isSet, E!waiters>>
<1>. SUFFICES ASSUME IInv, IInv', [Next]_vars PROVE [Promise!Next]_<<E!isSet, E!waiters>>
  OBVIOUS
<1>. DEFINE s == xchg = 0 \/ epc[Caller] = "in"
<1>1. E!isSet = s /\ E!waiters = Waits(epc)
  BY EventIs
<1>2. E!isSet' = s' /\ E!waiters' = Waits(epc')
  <2>1. \A t \in Threads \ {Caller} : epc'[t] \in {"out", "relDec", "relWake"}
    BY DEF IInv, InEvent
  <2>2. PICK x, e : x = xchg' /\ e = epc'
    OBVIOUS
  <2>3. /\ (x = 0 \/ \E t \in Threads : e[t] = "in") = (x = 0 \/ e[Caller] = "in")
        /\ {t \in Threads : e[t] \in {"cas", "futex", "sleep"}} = Waits(e)
    BY <2>1, <2>2, OnlyCaller
  <2>. QED
    BY <2>2, <2>3 DEF E!isSet, E!waiters
<1>3. ASSUME Same PROVE [Promise!Next]_<<E!isSet, E!waiters>>
  BY <1>1, <1>2, <1>3 DEF Same
<1>4. ASSUME UNCHANGED eventVars PROVE Same
  BY <1>4 DEF eventVars, Same
<1>5. CASE \E t \in Threads : EventStep(t)
  <2>1. PICK t \in Threads : EventStep(t)
    BY <1>5
  <2>2. CASE s /\ s' /\ Waits(epc) = {Caller} /\ Waits(epc') = {}
    <3>1. Promise!Pass(Caller)
      BY <1>1, <1>2, <2>2 DEF Promise!Pass
    <3>. QED
      BY <3>1, ThreadTypes DEF Promise!Next
  <2>3. CASE Waits(epc) = {} /\ Waits(epc') = {} /\ ~s'
    <3>1. Promise!Reset
      BY <1>1, <1>2, <2>3 DEF Promise!Reset
    <3>. QED
      BY <3>1 DEF Promise!Next
  <2>. QED
    BY <1>3, <2>1, <2>2, <2>3, EventMoves
<1>6. CASE \E t \in Threads : Signal(t)
  <2>1. PICK t \in Threads : Signal(t)
    BY <1>6
  <2>2. epc[t] = "out" /\ epc' = [epc EXCEPT ![t] = IF xchg = 1 THEN "relDec" ELSE "out"]
        /\ xchg' = 0
    BY <2>1 DEF Signal, E!SetEvent, E!Goto
  <2>3. s' /\ Waits(epc') = Waits(epc)
    BY <2>2, ThreadTypes DEF IInv, Typed, Waits
  <2>4. Promise!Set
    BY <1>1, <1>2, <2>3 DEF Promise!Set
  <2>. QED
    BY <2>4 DEF Promise!Next
<1>7. CASE Wait
  <2>1. epc[Caller] = "out" /\ epc' = [epc EXCEPT ![Caller] = "cas"] /\ xchg' = xchg
    BY <1>7 DEF Wait, E!WaitForSingleObject, E!Acquire, E!Goto
  <2>2. Waits(epc) = {} /\ Waits(epc') = {Caller} /\ s' = s
    BY <2>1, ThreadTypes DEF IInv, Typed, Waits
  <2>3. Promise!Wait(Caller)
    BY <1>1, <1>2, <2>2 DEF Promise!Wait
  <2>. QED
    BY <2>3, ThreadTypes DEF Promise!Next
<1>8. CASE Reset
  <2>1. epc[Caller] = "out" /\ epc' = [epc EXCEPT ![Caller] = "try"] /\ xchg' = xchg
    BY <1>8 DEF Reset, E!ResetEvent, E!AcquireTry, E!Goto
  <2>2. Same
    BY <2>1, ThreadTypes DEF IInv, Typed, Waits, Same
  <2>. QED
    BY <1>3, <2>2
<1>9. CASE UNCHANGED vars \/ Abort \/ Terminated \/ Drain \/ \E t \in Threads : SignalReturn(t)
  <2>1. UNCHANGED eventVars
    BY <1>9 DEF vars, Abort, Terminated, Drain, SignalReturn
  <2>. QED
    BY <1>3, <1>4, <2>1
<1>10. CASE \/ Fill \/ NoMore \/ QueueCheck \/ QueuePush \/ QueueDone \/ WaitReturn
            \/ ResetReturn \/ CheckAbort \/ End
  <2>1. UNCHANGED eventVars
    BY <1>10 DEF Fill, NoMore, QueueCheck, QueuePush, QueueDone, WaitReturn, ResetReturn,
                 CheckAbort, End
  <2>. QED
    BY <1>3, <1>4, <2>1
<1>11. CASE \E w \in Workers : WorkerOwn(w)
  <2>1. UNCHANGED eventVars
    BY <1>11 DEF WorkerOwn, WorkerPop, TakeIndex, TakeProcess, WorkerDrop
  <2>. QED
    BY <1>3, <1>4, <2>1
<1>12. CASE PoolStep
  <2>1. UNCHANGED eventVars
    BY <1>12, PoolMoves DEF eventVars
  <2>. QED
    BY <1>3, <1>4, <2>1
<1>. QED
  BY <1>5, <1>6, <1>7, <1>8, <1>9, <1>10, <1>11, <1>12
  DEF Next, Step, CallerStep, WorkerStep, WorkerOwn, CloserStep, PoolStep

(* Every step of the parallel-for is to its event a step of the abstract   *)
(* event, or none: whoever waits passes only while it is set, and the      *)
(* reset never meets a waiter (oscompatibility.c and vmmwork.c).           *)
THEOREM EventSteps == Spec => Promise!Init /\ [][Promise!Next]_<<E!isSet, E!waiters>>
<1>1. Init => Promise!Init
  <2>. SUFFICES ASSUME Init PROVE Promise!Init
    OBVIOUS
  <2>1. xchg = 1 /\ \A t \in Threads : epc[t] = "out"
    BY DEF Init, E!CreateEvent
  <2>2. ~E!isSet /\ E!waiters = {}
    BY <2>1 DEF E!isSet, E!waiters
  <2>3. E!isSet = FALSE
    BY <2>2 DEF E!isSet
  <2>. QED
    BY <2>2, <2>3 DEF Promise!Init
<1>2. IInv /\ IInv' /\ [Next]_vars => [Promise!Next]_<<E!isSet, E!waiters>>
  BY EventFollows
<1>. QED
  BY <1>1, <1>2, Inductive, PTL DEF Spec
=============================================================================
