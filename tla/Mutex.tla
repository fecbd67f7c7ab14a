------------------------------- MODULE Mutex -------------------------------
(***************************************************************************)
(* What the callers of AcquireSRWLockExclusive and ReleaseSRWLockExclusive *)
(* rely on: a lock is held by at most one thread, it is taken only while   *)
(* it is free, and only its holder gives it up.                            *)
(***************************************************************************)
CONSTANTS Threads, Nobody
VARIABLE holder

Init == holder = Nobody

Take(t) == holder = Nobody /\ holder' = t
Give(t) == holder = t /\ holder' = Nobody

Next == \E t \in Threads : Take(t) \/ Give(t)

Spec == Init /\ [][Next]_holder
=============================================================================
