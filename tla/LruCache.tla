------------------------------ MODULE LruCache ------------------------------
(***************************************************************************)
(* What a cache map promises: at most Capacity objects by key; an object   *)
(* that is stored when the cache is full takes the place of the one that   *)
(* was used the longest ago.  lru lists keys and objects, the last used    *)
(* first.                                                                  *)
(***************************************************************************)
EXTENDS Integers, Sequences, SequencesExt

CONSTANTS Keys, Objs, Capacity

VARIABLE lru

(* A key is listed at most once.                                           *)
Position(k) == {i \in DOMAIN lru : lru[i][1] = k}
Without(k)  == IF Position(k) = {} THEN lru ELSE RemoveAt(lru, CHOOSE i \in Position(k) : TRUE)
Cut(s)     == IF Len(s) > Capacity THEN SubSeq(s, 1, Capacity) ELSE s

Store(k, o) == lru' = Cut(<<<<k, o>>>> \o Without(k))
Use(k)      == \E i \in Position(k) : lru' = <<lru[i]>> \o Without(k)
Delete(k)   == lru' = Without(k)
Clear       == lru' = <<>>

Init == lru = <<>>
Next == Clear \/ \E k \in Keys : Use(k) \/ Delete(k) \/ \E o \in Objs : Store(k, o)
Spec == Init /\ [][Next]_lru
=============================================================================
