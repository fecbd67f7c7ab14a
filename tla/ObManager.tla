----------------------------- MODULE ObManager -----------------------------
(* The collections of the object manager, and the container, each on its   *)
(* own: structure says which of them moves.                                *)
EXTENDS ObContainer, ObSet, ObMap, ObCacheMap, ObByteQueue

VARIABLE structure

ManagerInit ==
    /\ structure \in {"container", "set", "map", "cache", "queue"}
    /\ Init /\ SetInit /\ MapInit /\ CacheInit /\ QueueInit

ManagerNext ==
    /\ UNCHANGED structure
    /\ \/ structure = "container" /\ Next /\ UNCHANGED <<setVars, pm, cacheVars, queueVars>>
       \/ structure = "set" /\ SetNext /\ UNCHANGED <<vars, pm, cacheVars, queueVars>>
       \/ structure = "map" /\ MapNext /\ UNCHANGED <<vars, setVars, cacheVars, queueVars>>
       \/ structure = "cache" /\ CacheNext /\ UNCHANGED <<vars, setVars, pm, queueVars>>
       \/ structure = "queue" /\ QueueNext /\ UNCHANGED <<vars, setVars, pm, cacheVars>>

ManagerSpec ==
    ManagerInit /\ [][ManagerNext]_<<structure, vars, setVars, pm, cacheVars, queueVars>>

(* Lookups in the set and in the map find what is there and nothing else,  *)
(* whatever was inserted and removed before (ob_set.c, ob_map.c).          *)
TablesExact == SetExact /\ MapExact
=============================================================================
