------------------------------ MODULE OsEvent ------------------------------
(***************************************************************************)
(* Manual-reset events on Linux (src/vmm/oscompatibility.c): an event is a *)
(* slim lock that is held while the event is not set.  To wait is to take  *)
(* the lock and to give it back, to set is to release it on behalf of      *)
(* whoever holds it, to reset is one attempt to take it and keep it.       *)
(* The thread of a program counter "in" has come through the lock and has  *)
(* not given it back.                                                      *)
(***************************************************************************)
EXTENDS SRWLock

(* CreateEvent of an event that is not set: ResetEvent takes the lock.     *)
CreateEvent ==
    /\ xchg = 1 /\ c = 1
    /\ pc = [t \in Threads |-> "out"]
    /\ timed = [t \in Threads |-> FALSE]

(* WaitForSingleObject always calls the variant that may time out.         *)
WaitForSingleObject(t) == Acquire(t) /\ timed'[t]

WaitStep(t) == CasOk(t) \/ CasFail(t) \/ FutexWait(t)

(* Having come through, the waiter of a manual-reset event releases the    *)
(* lock, unless a SetEvent released it in between.                         *)
WaitPass(t) ==
    /\ Goto(t, "in", IF xchg = 1 THEN "relDec" ELSE "out")
    /\ xchg' = 0
    /\ UNCHANGED <<c, timed>>

(* Mutant: the release on behalf of another wakes nobody.                  *)
SetEventQuiet(t) ==
    /\ Goto(t, "out", "out")
    /\ xchg' = 0
    /\ UNCHANGED <<c, timed>>

(* SetEvent releases a lock that is held, whoever holds it.                *)
SetEvent(t) ==
    /\ Goto(t, "out", IF xchg = 1 THEN "relDec" ELSE "out")
    /\ xchg' = 0
    /\ UNCHANGED <<c, timed>>

ReleaseTail(t) == ReleaseDec(t) \/ ReleaseWake(t)

(* ResetEvent: the attempt keeps the lock, or fails as the lock is held.   *)
ResetEvent(t) == AcquireTry(t)

ResetOk(t) ==
    /\ xchg = 0
    /\ Goto(t, "try", "out")
    /\ xchg' = 1
    /\ UNCHANGED <<c, timed>>

ResetStep(t) == ResetOk(t) \/ TryFail(t) \/ Undo(t)

(* The event as its user sees it.                                          *)
isSet == xchg = 0 \/ \E t \in Threads : pc[t] = "in"
waiters == {t \in Threads : pc[t] \in {"cas", "futex", "sleep"}}
=============================================================================
