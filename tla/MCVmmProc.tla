----------------------------- MODULE MCVmmProc -----------------------------
EXTENDS VmmProc

(* Enumerations out of order, with a PID twice, with an exited process,    *)
(* and without a process another one has.                                  *)
MCLists == {<<<<4, FALSE>>, <<6, FALSE>>, <<5, FALSE>>>>,
            <<<<4, FALSE>>, <<6, TRUE>>, <<6, FALSE>>>>}
=============================================================================
