----------------------------- MODULE MCVmmCache -----------------------------
(* Instances of VmmCache for TLC.                                          *)
EXTENDS VmmCache, TLC

CONSTANT bucket

\* Every page in the same bucket, where the chains are longest.
OneBucket == [pg \in Pages |-> bucket]

Symmetry == Permutations(Objects) \cup Permutations(Pages) \cup Permutations(Readers)
               \cup Permutations(Fetchers) \cup Permutations(Writers)

\* Without writers nobody reads the content of an object that is on the empty
\* list or just reserved, nor the links of one that is in no chain, and the
\* order of a total list never matters.
Linked(o) == \E r \in R : o \in Members(ListHeadInUse[r])
Filled(o) == Linked(o) \/ Caller(o) # {} \/ Reserved(o) # {}
Live(f, P(_)) == [o \in {q \in Objects : P(q)} |-> f[o]]
LiveView ==
    <<iR, Lock, ListHeadEmpty, ListHeadInUse, [r \in R |-> Members(ListHeadTotal[r])], B, count,
      Live(FLink, Linked), Live(BLink, Linked), Live(iB, Linked), Live(qwA, Filled),
      Live(pb, Filled), deviceVars, pc, ob, ret, callVars>>
=============================================================================
