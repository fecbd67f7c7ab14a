----------------------------- MODULE MCObjects -----------------------------
(* Constants for the run of the object manager's structures.               *)
EXTENDS ObManager

\* Values 1..5 and 11..14 with collisions in an index of 4 slots, some of
\* which remain in one of 8, and one that wraps around.
MCHashOf == [x \in 0..14 |->
    CASE x \in {1, 2, 13, 14} -> 1 [] x = 3 -> 5 [] x \in {4, 11} -> 2 [] x \in {5, 12} -> 3 [] OTHER -> 0]

MCPairs == {<<1, 11>>, <<2, 12>>, <<3, 13>>, <<4, 14>>, <<1, 12>>}

MCPackets == {<<"a", 1>>, <<"b", 2>>, <<"c", 4>>}
=============================================================================
