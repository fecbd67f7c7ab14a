------------------------------ MODULE SRWLock ------------------------------
(***************************************************************************)
(* The slim reader/writer lock that src/vmm/oscompatibility.c builds on a  *)
(* Linux futex: AcquireSRWLockExclusive, its _Try and _Timeout variants,   *)
(* and ReleaseSRWLockExclusive (shared acquisition is the same function).  *)
(* Every lock of the program - object containers, sets, maps, the master   *)
(* lock, the page caches - is one of these on Linux.                       *)
(*                                                                         *)
(* Each atomic operation of the code is one step: the addition to c, the   *)
(* compare-and-swap on xchg, the futex system call.  FUTEX_WAIT compares   *)
(* xchg with 1 and falls asleep atomically; it returns when the thread is  *)
(* woken, when a signal arrives, and, if a timeout was given, when that    *)
(* expires.                                                                *)
(***************************************************************************)
EXTENDS Integers, FiniteSets

CONSTANTS Threads, Nobody

ASSUME ThreadsAssumption == IsFiniteSet(Threads) /\ Nobody \notin Threads

VARIABLES
    xchg,       \* SRWLock->xchg: 1 while the lock is held
    c,          \* SRWLock->c: threads that hold the lock or want it
    pc,         \* program counter of each thread
    timed       \* is the thread inside AcquireSRWLockExclusive_Timeout?
vars == <<xchg, c, pc, timed>>

Pc == {"out", "cas", "futex", "sleep", "try", "undo", "in", "relDec", "relWake"}

Init ==
    /\ xchg = 0 /\ c = 0
    /\ pc = [t \in Threads |-> "out"]
    /\ timed = [t \in Threads |-> FALSE]

Goto(t, from, to) == pc[t] = from /\ pc' = [pc EXCEPT ![t] = to]

(* AcquireSRWLockExclusive and AcquireSRWLockExclusive_Timeout announce    *)
(* themselves in c before they look at xchg.                               *)
Acquire(t) ==
    /\ Goto(t, "out", "cas")
    /\ c' = c + 1
    /\ \E b \in BOOLEAN : timed' = [timed EXCEPT ![t] = b]
    /\ UNCHANGED xchg

CasOk(t) ==
    /\ xchg = 0
    /\ Goto(t, "cas", "in")
    /\ xchg' = 1
    /\ UNCHANGED <<c, timed>>

(* Mutant: the wait does not compare xchg with 1.                          *)
FutexWaitBlind(t) ==
    /\ Goto(t, "futex", "sleep")
    /\ UNCHANGED <<xchg, c, timed>>

CasFail(t) ==
    /\ xchg = 1
    /\ Goto(t, "cas", "futex")
    /\ UNCHANGED <<xchg, c, timed>>

(* FUTEX_WAIT falls asleep on xchg = 1 and fails with EAGAIN otherwise.    *)
FutexWait(t) ==
    /\ Goto(t, "futex", IF xchg = 1 THEN "sleep" ELSE "cas")
    /\ UNCHANGED <<xchg, c, timed>>

(* A signal or the timeout ends the sleep: AcquireSRWLockExclusive ignores *)
(* the result of the call, the timed variant gives up.                     *)
FutexInterrupted(t) ==
    /\ Goto(t, "sleep", IF timed[t] THEN "undo" ELSE "cas")
    /\ UNCHANGED <<xchg, c, timed>>

(* Mutant: the attempt is not announced in c.                              *)
AcquireTryUncounted(t) ==
    /\ Goto(t, "out", "try")
    /\ UNCHANGED <<xchg, c, timed>>

AcquireTry(t) ==
    /\ Goto(t, "out", "try")
    /\ c' = c + 1
    /\ UNCHANGED <<xchg, timed>>

(* Mutant: an exchange instead of a compare-and-swap.                      *)
TryAny(t) ==
    /\ Goto(t, "try", "in")
    /\ xchg' = 1
    /\ UNCHANGED <<c, timed>>

TryOk(t) ==
    /\ xchg = 0
    /\ Goto(t, "try", "in")
    /\ xchg' = 1
    /\ UNCHANGED <<c, timed>>

TryFail(t) ==
    /\ xchg = 1
    /\ Goto(t, "try", "undo")
    /\ UNCHANGED <<xchg, c, timed>>

(* Mutant: the failed attempt leaves its count behind.                     *)
UndoNothing(t) ==
    /\ Goto(t, "undo", "out")
    /\ UNCHANGED <<xchg, c, timed>>

Undo(t) ==
    /\ Goto(t, "undo", "out")
    /\ c' = c - 1
    /\ UNCHANGED <<xchg, timed>>

ReleaseCas(t) ==
    /\ xchg = 1
    /\ Goto(t, "in", "relDec")
    /\ xchg' = 0
    /\ UNCHANGED <<c, timed>>

(* Mutant: the wakeup is skipped for a single waiter.                      *)
ReleaseDecOld(t) ==
    /\ Goto(t, "relDec", IF c - 2 > 0 THEN "relWake" ELSE "out")
    /\ c' = c - 1
    /\ UNCHANGED <<xchg, timed>>

(* Nobody wanted the lock after the decrement: no system call.             *)
ReleaseDec(t) ==
    /\ Goto(t, "relDec", IF c - 1 # 0 THEN "relWake" ELSE "out")
    /\ c' = c - 1
    /\ UNCHANGED <<xchg, timed>>

Sleepers == {t \in Threads : pc[t] = "sleep"}

(* FUTEX_WAKE of one sleeper, whichever the kernel picks.                  *)
ReleaseWake(t) ==
    /\ pc[t] = "relWake"
    /\ \/ \E s \in Sleepers : pc' = [pc EXCEPT ![t] = "out", ![s] = "cas"]
       \/ Sleepers = {} /\ pc' = [pc EXCEPT ![t] = "out"]
    /\ UNCHANGED <<xchg, c, timed>>

Step(t) ==
    \/ CasOk(t) \/ CasFail(t) \/ FutexWait(t)
    \/ TryOk(t) \/ TryFail(t) \/ Undo(t)
    \/ ReleaseCas(t) \/ ReleaseDec(t) \/ ReleaseWake(t)

Next == \E t \in Threads :
    Acquire(t) \/ AcquireTry(t) \/ FutexInterrupted(t) \/ Step(t)

Spec == Init /\ [][Next]_vars

(* A thread inside the lock's code or inside its critical section goes on; *)
(* nothing makes it ask for the lock, and no signal has to arrive.         *)
FairSpec == Spec /\ \A t \in Threads : WF_vars(Step(t))

(***************************************************************************)
(* Properties.                                                             *)
(***************************************************************************)
TypeOK ==
    /\ xchg \in {0, 1} /\ c \in Nat
    /\ pc \in [Threads -> Pc]
    /\ timed \in [Threads -> BOOLEAN]

(* At most one thread is between an acquisition and its release, whichever *)
(* of the three acquisition functions it used.                             *)
MutualExclusion == \A t, u \in Threads : pc[t] = "in" /\ pc[u] = "in" => t = u

(* c counts the threads that hold or want the lock: no failed attempt, no  *)
(* timeout and no signal makes it drift, so the release that finds it at   *)
(* zero may skip the wakeup.                                               *)
Wanting == {t \in Threads : pc[t] \notin {"out", "relWake"}}
CountExact == c = Cardinality(Wanting)

(* A thread sleeps on a free lock only while another thread is certain to  *)
(* take the lock or to wake a sleeper.                                     *)
Active == {t \in Threads : pc[t] \in {"cas", "futex", "try", "relDec", "relWake"}}
NoLostWakeup == xchg = 0 /\ Sleepers # {} => Active # {}

(* A free lock with a sleeper is taken.                                    *)
FreeLockTaken == (xchg = 0 /\ Sleepers # {}) ~> (xchg = 1 \/ Sleepers = {})

(* The lock implements the mutex its callers rely on.                      *)
holder == IF \E t \in Threads : pc[t] = "in"
          THEN CHOOSE t \in Threads : pc[t] = "in" ELSE Nobody
M == INSTANCE Mutex
MutexSpec == M!Spec
=============================================================================
