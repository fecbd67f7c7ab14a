----------------------------- MODULE MCVmmWork -----------------------------
(* Instances of VmmWork for TLC.                                           *)
EXTENDS VmmWork, TLC

CONSTANTS w1, w2, w3, c1, u1, u2, u3

\* c1 waits for u1, whose body itself waits for the low priority u3, and
\* queues u2 without waiting for it.
NestedBatch == [a \in {c1, u1, u2, u3} |->
    CASE a = c1 -> {u1, u2} [] a = u1 -> {u3} [] OTHER -> {}]

\* c1 queues u1 and u2, and no unit queues others.
FlatBatch == [a \in {c1, u1, u2} |-> IF a = c1 THEN {u1, u2} ELSE {}]

\* The workers are interchangeable.
Symmetry == Permutations(Workers)
=============================================================================
