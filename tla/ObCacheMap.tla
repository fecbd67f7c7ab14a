----------------------------- MODULE ObCacheMap -----------------------------
(***************************************************************************)
(* The cache map (src/vmm/ob/ob_cachemap.c): entries in a map by key and   *)
(* on a circular age list whose head was used last.  An entry that is      *)
(* found may turn out invalid, and is then removed.  Every operation runs  *)
(* under the lock of the cache map.  The map is a function of the keys:    *)
(* ObMap keeps what it promises.                                           *)
(***************************************************************************)
EXTENDS Integers, Sequences, FiniteSets, FiniteSetsExt

CONSTANTS CacheKeys, CacheObjs, cMax, NoEntry

ASSUME CacheAssumption == cMax \in Nat \ {0} /\ NoEntry \notin Nat

Nodes == 1..(cMax + 1)      \* allocations; one more than are ever in use

VARIABLES
    byKey,              \* pm: the entry of each key, or NoEntry
    FLink, BLink, node, \* the entries: links, and key and object
    AgeListHead, c

cacheVars == <<byKey, FLink, BLink, node, AgeListHead, c>>

CacheInit ==
    /\ byKey = [k \in CacheKeys |-> NoEntry]
    /\ FLink = [e \in Nodes |-> e] /\ BLink = [e \in Nodes |-> e]
    /\ node = [e \in Nodes |-> <<>>] /\ AgeListHead = NoEntry /\ c = 0

(* The cache map as a record, for operations that are composed.            *)
This == [m |-> byKey, f |-> FLink, b |-> BLink, n |-> node, h |-> AgeListHead, c |-> c]
Becomes(s) ==
    /\ byKey' = s.m /\ FLink' = s.f /\ BLink' = s.b /\ node' = s.n
    /\ AgeListHead' = s.h /\ c' = s.c

Unlinked(s, e) == [s EXCEPT !.b = [@ EXCEPT ![s.f[e]] = s.b[e]],
                            !.f = [@ EXCEPT ![s.b[e]] = s.f[e]]]

(* Mutant: the entry that was last before the head is not linked.          *)
AtFrontOneWay(s, e) ==
    [s EXCEPT !.f = [@ EXCEPT ![e] = s.h],
              !.b = [@ EXCEPT ![e] = s.b[s.h], ![s.h] = e], !.h = e]

(* e, which is on no list, becomes the head of a list that has one.        *)
AtFront(s, e) ==
    [s EXCEPT !.f = [[@ EXCEPT ![e] = s.h] EXCEPT ![s.b[s.h]] = e],
              !.b = [@ EXCEPT ![e] = s.b[s.h], ![s.h] = e], !.h = e]

(* _ObCacheMap_RemoveByKey; the entry is freed.                            *)
Without(s, k) ==
    LET e == s.m[k] IN
    IF e = NoEntry THEN s
    ELSE [Unlinked(s, e) EXCEPT
            !.m = [@ EXCEPT ![k] = NoEntry], !.n = [@ EXCEPT ![e] = <<>>], !.c = @ - 1,
            !.h = IF s.c = 1 THEN NoEntry ELSE IF @ = e THEN s.f[e] ELSE @]

CacheRemoveByKey(k) == byKey[k] # NoEntry /\ Becomes(Without(This, k))

CacheGetByKey(k) ==
    /\ byKey[k] # NoEntry
    /\ \/ Becomes(Without(This, k))     \* pfnValidEntry says no
       \/ Becomes(IF AgeListHead = byKey[k] THEN This ELSE AtFront(Unlinked(This, byKey[k]), byKey[k]))

Full(s) == s.c >= cMax

CachePush(k, o) ==
    LET s == Without(This, k)
        t == IF Full(s) THEN Without(s, s.n[s.b[s.h]][1]) ELSE s
        e == Min({x \in Nodes : t.n[x] = <<>>})
        u == IF t.h # NoEntry THEN AtFront(t, e)
             ELSE [t EXCEPT !.f = [@ EXCEPT ![e] = e], !.b = [@ EXCEPT ![e] = e], !.h = e] IN
    Becomes([u EXCEPT !.n = [@ EXCEPT ![e] = <<k, o>>], !.m = [@ EXCEPT ![k] = e], !.c = @ + 1])

CacheClear ==
    /\ AgeListHead # NoEntry
    /\ Becomes([This EXCEPT !.m = [k \in CacheKeys |-> NoEntry], !.n = [e \in Nodes |-> <<>>],
                            !.h = NoEntry, !.c = 0])

CacheNext ==
    \/ CacheClear
    \/ \E k \in CacheKeys :
        CacheRemoveByKey(k) \/ CacheGetByKey(k) \/ \E o \in CacheObjs : CachePush(k, o)

CacheSpec == CacheInit /\ [][CacheNext]_cacheVars

(* The age list from its head on, s.c entries long.                        *)
Listed(s) ==
    LET at[i \in 1..s.c] == IF i = 1 THEN s.h ELSE s.f[at[i - 1]] IN [i \in 1..s.c |-> s.n[at[i]]]
AgeList == Listed(This)

Lru == INSTANCE LruCache WITH Keys <- CacheKeys, Objs <- CacheObjs, Capacity <- cMax, lru <- AgeList

(* "If the max number of map entries are reached the least recently        *)
(* accessed entry will be removed" (ob_cachemap.c 7-8): through every get, *)
(* replacement, removal and failed validation the age list is the list of  *)
(* an LRU cache.                                                           *)
CacheIsLru == Lru!Spec
=============================================================================
