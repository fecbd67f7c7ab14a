------------------------------- MODULE Event -------------------------------
(***************************************************************************)
(* What the engine relies on when it uses an event as a one-way signal to  *)
(* one thread: a manual-reset event stays set until it is reset, a wait    *)
(* returns only while the event is set, and, if the event is set and not   *)
(* reset, the wait returns.  The waiting thread is the one that resets.    *)
(***************************************************************************)
CONSTANT Threads
VARIABLES set, waiting

Init == set = FALSE /\ waiting = {}

Set == set' = TRUE /\ UNCHANGED waiting
Wait(t) == t \notin waiting /\ waiting' = waiting \cup {t} /\ UNCHANGED set
Pass(t) == set /\ t \in waiting /\ waiting' = waiting \ {t} /\ UNCHANGED set
Reset == waiting = {} /\ set' = FALSE /\ UNCHANGED waiting

Next == Set \/ Reset \/ \E t \in Threads : Wait(t) \/ Pass(t)

Spec ==
    /\ Init /\ [][Next]_<<set, waiting>>
    /\ \A t \in Threads : WF_<<set, waiting>>(Pass(t))
=============================================================================
