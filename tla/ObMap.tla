------------------------------- MODULE ObMap -------------------------------
(***************************************************************************)
(* The hashed map (src/vmm/ob/ob_map.c): keys and values in the order of   *)
(* their entries, one hash index over the keys and one over the values; no *)
(* key and no value is in it twice.  Every operation runs under the lock   *)
(* of the map.                                                             *)
(***************************************************************************)
EXTENDS ObHash

CONSTANTS Pairs, MapSize, MapCapacity   \* cHashMax of a new map, OB_MAP_TABLE_MAX_CAPACITY

ASSUME MapAssumption ==
    /\ MapSize \in Nat \ {0, 1}
    /\ \A p \in Pairs : p = <<p[1], p[2]>> /\ p[1] \in Nat /\ {p[1], p[2]} \subseteq DOMAIN HashOf

VARIABLE pm     \* keys k and values v, hashes hk and hv

Keys == {p[1] : p \in Pairs}
Vals == {p[2] : p \in Pairs}
Entries == {<<pm.k[i], pm.v[i]>> : i \in DOMAIN pm.k}

MapInit == pm = [k |-> <<>>, v |-> <<>>, hk |-> Empty(MapSize), hv |-> Empty(MapSize)]

MapPush(k, v) ==
    /\ ~Found(pm.hk, pm.k, k) /\ ~Found(pm.hv, pm.v, v) /\ Len(pm.k) + 1 # MapCapacity
    /\ LET ks == Append(pm.k, k)
           vs == Append(pm.v, v) IN
       pm' = [k |-> ks, v |-> vs, hk |-> InsertHash(Grown(pm.hk, pm.k), ks, Len(ks)),
              hv |-> InsertHash(Grown(pm.hv, pm.v), vs, Len(vs))]

(* An index, and what it indexes, after entry i was removed and the last   *)
(* entry moved into its place.                                             *)
RemovedHash(h, e, i) ==
    LET g == RemoveHash(h, e, SlotOf(h, e, i)) IN
    IF i = Len(e) THEN g
    ELSE InsertHash(RemoveHash(g, e, SlotOf(g, e, Len(e))), [e EXCEPT ![i] = Last(e)], i)

WithoutEntry(e, i) == Front([e EXCEPT ![i] = Last(e)])

RemovedAt(m, i) == [k |-> WithoutEntry(m.k, i), v |-> WithoutEntry(m.v, i),
                   hk |-> RemovedHash(m.hk, m.k, i), hv |-> RemovedHash(m.hv, m.v, i)]

MapRemove(v) ==
    /\ Found(pm.hv, pm.v, v)
    /\ pm' = RemovedAt(pm, pm.hv[Lookup(pm.hv, pm.v, v)])

MapRemoveByKey(k) ==
    /\ Found(pm.hk, pm.k, k)
    /\ pm' = RemovedAt(pm, pm.hk[Lookup(pm.hk, pm.k, k)])

MapPop == pm.k # <<>> /\ pm' = RemovedAt(pm, Len(pm.k))

(* Mutant: the entries are visited from the first to the last.             *)
VisitedForward(n) == [i \in 1..n |-> i]

Visited(n) == [i \in 1..n |-> n + 1 - i]

(* The filter removes the entries whose key is in F.                       *)
RemovedIf(m, i, F) == IF At(m.k, i) \in F THEN RemovedAt(m, i) ELSE m

Filtered(m, F) ==
    LET n == Len(m.k)
        after[j \in 0..n] == IF j = 0 THEN m ELSE RemovedIf(after[j - 1], Visited(n)[j], F) IN
    after[n]

MapRemoveByFilter(F) == pm.k # <<>> /\ pm' = Filtered(pm, F)

(* ObMap_SortEntryIndexByKey: entries in order, both indexes made anew.    *)
Ranked(m) ==
    CHOOSE s \in [1..Len(m.k) -> {<<m.k[i], m.v[i]>> : i \in DOMAIN m.k}] :
        \A i, j \in 1..Len(m.k) : i < j => s[i][1] < s[j][1]

MapSort ==
    LET s == Ranked(pm)
        ks == [i \in DOMAIN s |-> s[i][1]]
        vs == [i \in DOMAIN s |-> s[i][2]] IN
    pm' = [k |-> ks, v |-> vs, hk |-> Index(ks, Size(pm.hk)), hv |-> Index(vs, Size(pm.hv))]

MapClear ==
    /\ pm.k # <<>>
    /\ pm' = [k |-> <<>>, v |-> <<>>, hk |-> Empty(Size(pm.hk)), hv |-> Empty(Size(pm.hv))]

MapNext ==
    \/ MapPop \/ MapSort \/ MapClear
    \/ \E p \in Pairs : MapPush(p[1], p[2])
    \/ \E k \in Keys : MapRemoveByKey(k)
    \/ \E v \in Vals : MapRemove(v)
    \/ \E F \in SUBSET Keys : MapRemoveByFilter(F)

MapSpec == MapInit /\ [][MapNext]_pm

(* Where _ObMap_QFind starts its linear search: it halves steps.  The      *)
(* power of two that it compares the half of n - 1 with is never smaller.  *)
Start(e, q) ==
    LET n == Len(e)
        first == Max({1, (n - 1) \div 2})
        go[w \in {w \in (0..n) \X (1..n) : 2 * w[1] <= w[2]}] ==     \* the step, the index
            LET st == w[1]
                i == w[2] IN
            IF st <= 1 \/ e[i] = q THEN i
            ELSE go[<<st \div 2, IF e[i] > q THEN i - st ELSE IF i + st <= n THEN i + st ELSE i>>] IN
    go[<<first \div 2, first>>]

(* _ObMap_QFind: from there up to the first key that is not less, or down  *)
(* to the last that is not greater.  0: there is none.                     *)
QFind(e, q) ==
    IF e = <<>> THEN 0
    ELSE LET i  == Start(e, q)
             up == {j \in i..Len(e) : e[j] >= q}
             dn == {j \in 1..i : e[j] <= q} IN
         IF e[i] = q THEN i
         ELSE IF e[i] < q THEN IF up = {} THEN 0 ELSE Min(up)
         ELSE IF dn = {} THEN 1 ELSE IF e[Max(dn)] = q THEN Max(dn) ELSE Max(dn) + 1

InOrder(e) == \A i \in 2..Len(e) : e[i - 1] < e[i]

(* Lookups by key and by value find exactly the entries, through growth,   *)
(* collisions, and the entry that a removal moves; in a sorted map         *)
(* _ObMap_QFind finds a key, or the next larger one.                       *)
MapExact ==
    /\ Exact(pm.hk, pm.k, Keys) /\ Exact(pm.hv, pm.v, Vals)
    /\ InOrder(pm.k) =>
        \A q \in {0} \cup Keys \cup {k + 1 : k \in Keys} :
            LET js == {j \in DOMAIN pm.k : pm.k[j] >= q} IN
            QFind(pm.k, q) = IF js = {} THEN 0 ELSE Min(js)

(* A removal by key, a removal by a filter that sees entries move, and a   *)
(* sort have their effect on the entries and no other; the sort loses none.*)
MapStepsExact ==
    [][/\ \A k \in Keys : MapRemoveByKey(k) => Entries' = {p \in Entries : p[1] # k}
       /\ \A F \in SUBSET Keys : MapRemoveByFilter(F) => Entries' = {p \in Entries : p[1] \notin F}
       /\ MapSort => Entries' = Entries /\ InOrder(pm'.k)]_pm
=============================================================================
