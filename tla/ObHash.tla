------------------------------- MODULE ObHash -------------------------------
(***************************************************************************)
(* The hash index of the set and the map (src/vmm/ob/ob_set.c, ob_map.c):  *)
(* open addressing with linear probing, where a slot holds the index of an *)
(* entry, counted from 1, or 0.  What is indexed is a sequence e.  A slot  *)
(* that is emptied is followed by re-inserting the entries behind it that  *)
(* are not at their preferred slot.                                        *)
(***************************************************************************)
EXTENDS Integers, Sequences, FiniteSets, FiniteSetsExt, SequencesExt

CONSTANT HashOf     \* the hash of every value that is indexed, and of 0

ASSUME HashAssumption == \A x \in DOMAIN HashOf : HashOf[x] \in Nat

Size(h)    == Cardinality(DOMAIN h)         \* cHashMax, a power of two
Empty(n)   == [s \in 0..(n - 1) |-> 0]
Slot(h, x) == HashOf[x] % Size(h)           \* & dwHashMask
At(e, i)   == IF i \in DOMAIN e THEN e[i] ELSE 0

(* The first slot from that of x on which satisfies P.                     *)
Probe(h, x, P(_)) ==
    LET s == Slot(h, x) IN
    (s + Min({d \in 0..(Size(h) - 1) : P(h[(s + d) % Size(h)])})) % Size(h)

InsertHash(h, e, i) == [h EXCEPT ![Probe(h, At(e, i), LAMBDA y : y = 0)] = i]

(* Mutant: the entries behind the slot stay where they are.                *)
RemoveHashOnly(h, e, s) == [h EXCEPT ![s] = 0]

Rehash(h, e, x) ==
    IF Slot(h, At(e, h[x])) = x THEN h ELSE InsertHash([h EXCEPT ![x] = 0], e, h[x])

RemoveHash(h, e, s) ==
    LET g == [h EXCEPT ![s] = 0]
        behind == Min({d \in 1..Size(h) : g[(s + d) % Size(h)] = 0}) - 1
        rehashed[d \in 0..behind] ==
            IF d = 0 THEN g ELSE Rehash(rehashed[d - 1], e, (s + d) % Size(h)) IN
    rehashed[behind]

(* The slot where x is found, or -1: the search ends at an empty slot.     *)
Lookup(h, e, x) ==
    LET s == Probe(h, x, LAMBDA y : y = 0 \/ At(e, y) = x) IN IF h[s] = 0 THEN -1 ELSE s

Found(h, e, x) == Lookup(h, e, x) # -1
SlotOf(h, e, i) == Probe(h, At(e, i), LAMBDA y : y = i)

(* All entries of e inserted into an empty index of n slots.               *)
Index(e, n) ==
    LET upTo[i \in 0..Len(e)] == IF i = 0 THEN Empty(n) ELSE InsertHash(upTo[i - 1], e, i) IN
    upTo[Len(e)]

(* The index before entry Len(e) + 1 is pushed: it is doubled when three   *)
(* quarters are used.                                                      *)
Grown(h, e) == IF Len(e) + 1 = (3 * Size(h)) \div 4 THEN Index(e, 2 * Size(h)) ELSE h

(* Every entry is found, nothing else is, and no slot is taken otherwise.  *)
Exact(h, e, all) ==
    /\ \A x \in all : Found(h, e, x) <=> x \in Range(e)
    /\ \A i \in DOMAIN e : Cardinality({s \in DOMAIN h : h[s] = i}) = 1
    /\ \A s \in DOMAIN h : h[s] # 0 => h[s] \in DOMAIN e
=============================================================================
