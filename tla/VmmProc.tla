------------------------------ MODULE VmmProc ------------------------------
(***************************************************************************)
(* The process table (src/vmm/vmm.c) and the refresh that replaces it      *)
(* (src/vmm/vmmproc.c, src/vmm/vmmwin.c).  A refresh, under LockMaster,    *)
(* enters the processes it enumerates one by one into a new table, which   *)
(* hangs off the visible one, and then makes it the visible table.         *)
(* Readers take no lock: they reference the visible table, look up a       *)
(* process, and drop the table; between two steps of an iteration the      *)
(* table may have been replaced.                                           *)
(*                                                                         *)
(* Tables are numbered in the order of their allocation.  A process object *)
(* is named by its PID and by the table it was allocated for.  Table and   *)
(* process reference counts are explicit; a freed table drops the next one *)
(* and its processes in the step that frees it (the close callback runs in *)
(* the decrement).                                                         *)
(***************************************************************************)
EXTENDS Integers, Sequences, FiniteSets, FiniteSetsExt, SequencesExt

CONSTANTS
    Readers,
    Showing,    \* the readers that pass VMM_FLAG_PROCESS_SHOW_TERMINATED
    Lists,      \* the enumerations: sequences of <<PID, exited>>
    System,     \* the PID of the system process, first in every enumeration
    GetPids,    \* PIDs that readers ask for
    FakePids,   \* PIDs of terminated processes found by other means
    MaxTable,   \* bound: the last table that is allocated
    None

ASSUME ListsAssumption ==
    \A l \in Lists : l \in Seq((Nat \ {0}) \X BOOLEAN) /\ l # <<>> /\ Head(l) = <<System, FALSE>>
ASSUME PidsAssumption  == {System} \cup FakePids \subseteq Nat \ {0} /\ Showing \subseteq Readers
ASSUME BoundAssumption == MaxTable \in Nat \ {0} /\ IsFiniteSet(Readers)

Pids   == {System} \cup FakePids \cup UNION {{e[1] : e \in ToSet(l)} : l \in Lists}
Tables == 0..MaxTable
Procs  == Pids \X Tables
Pid(p) == IF p = None THEN 0 ELSE p[1]

ASSUME NoneAssumption == None \notin Nat \cup Procs \cup Seq(Pids \X BOOLEAN)

VARIABLES
    n,          \* tables 0..n were allocated
    cur,        \* H->vmm.pObCPROC
    map,        \* pObProcessMap of each table, in index order
    newproc,    \* pObCNewPROC of each table
    count,      \* c and cActive of each table
    exited,     \* dwState # 0, of each process object
    pers,       \* pObPersistent, named by the process it was made for
    tref, pref, \* reference counts of tables and process objects
    leaked,     \* references to tables that nobody will give back
    list,       \* what the holder of LockMaster has yet to enter, or None
    total,      \* fTotalRefresh
    sys,        \* pObProcessSystem held by the refresh
    whole,      \* the PIDs that the table is to have when LockMaster is free
    pc,         \* of each reader: where it is,
    tbl, proc,  \* the table and the process it holds,
    left        \* and the processes its iteration has yet to return

tableVars  == <<n, map, newproc, count, exited, pers>>
masterVars == <<list, total, sys>>
readerVars == <<pc, tbl, proc, left>>
vars == <<tableVars, cur, tref, pref, leaked, masterVars, whole, readerVars>>

Init ==
    /\ n = 0 /\ cur = 0 /\ map = [t \in Tables |-> <<>>] /\ newproc = [t \in Tables |-> None]
    /\ count = [t \in Tables |-> [c |-> 0, cActive |-> 0]]
    /\ exited = [p \in Procs |-> FALSE] /\ pers = [p \in Procs |-> None]
    /\ tref = [t \in Tables |-> IF t = 0 THEN 1 ELSE 0] /\ pref = [p \in Procs |-> 0]
    /\ leaked = [t \in Tables |-> 0] /\ list = None /\ total = FALSE /\ sys = None /\ whole = {}
    /\ pc = [r \in Readers |-> "idle"] /\ tbl = [r \in Readers |-> None]
    /\ proc = [r \in Readers |-> None] /\ left = [r \in Readers |-> {}]

PidsOf(t)    == {p[1] : p \in ToSet(map[t])}
Find(m, pid)  == SelectInSeq(m, LAMBDA p : p[1] = pid)
ByKey(m, pid) == IF Find(m, pid) = 0 THEN None ELSE m[Find(m, pid)]
Someone       == ByKey(map[cur], System) # None
Shown(p, r)  == ~exited[p] \/ r \in Showing

(***************************************************************************)
(* Reference counts.  Freed(t) are the tables that die when one reference  *)
(* to t goes away: t, and what hangs off it by its last reference.         *)
(***************************************************************************)
AddRef(f, x, k) == IF x = None THEN f ELSE [f EXCEPT ![x] = @ + k]

Freed(t) ==
    {u \in t..n : /\ tref[t] = 1
                  /\ \A v \in (t + 1)..u : tref[v] = 1 /\ newproc[v - 1] = v}

(* Mutant: the close callback of a table forgets its container.            *)
DropTableOnly(t) ==
    /\ tref' = [tref EXCEPT ![t] = @ - 1]
    /\ pref' = [p \in Procs |-> pref[p] - IF tref[t] = 1 /\ p \in ToSet(map[t]) THEN 1 ELSE 0]

DropTable(t) ==
    LET F == Freed(t) IN
    /\ tref' = [u \in Tables |->
                  IF u \in F THEN 0
                  ELSE IF u = t \/ (u - 1 \in F /\ newproc[u - 1] = u) THEN tref[u] - 1
                  ELSE tref[u]]
    /\ pref' = [p \in Procs |-> pref[p] - Cardinality({u \in F : p \in ToSet(map[u])})]

(***************************************************************************)
(* VmmProcessCreateEntry.                                                  *)
(***************************************************************************)
Alloc == newproc[cur] = None
New   == IF Alloc THEN n + 1 ELSE newproc[cur]

(* Mutant: a new object always gets new persistent information.            *)
PersistentFresh(p) == p

Persistent(p) == LET old == ByKey(map[cur], p[1]) IN IF old = None THEN p ELSE pers[old]

(* Mutant: the state that was enumerated is counted, not that of the       *)
(* object.                                                                 *)
CountedEnumerated(c, p, e) == [c |-> c.c + 1, cActive |-> c.cActive + IF e[2] THEN 0 ELSE 1]

Counted(c, p, e) == [c |-> c.c + 1, cActive |-> c.cActive + IF exited'[p] THEN 0 ELSE 1]

(* Enter e into the new table, whose map is m and whose counts are c: fail *)
(* if its PID is there; share the visible object of that PID, with the     *)
(* state it has, unless all is to be new.  The caller drops the reference  *)
(* that is returned.                                                       *)
CreateEntry(m, c, e, all) ==
    LET old == IF all THEN None ELSE ByKey(map[cur], e[1])
        p   == IF old = None THEN <<e[1], New>> ELSE old
        dup == Find(m, e[1]) # 0
        inc(q) == (IF Alloc /\ q \in ToSet(m) THEN 1 ELSE 0) + (IF ~dup /\ q = p THEN 1 ELSE 0) IN
    /\ n' = IF Alloc THEN n + 1 ELSE n
    /\ newproc' = [newproc EXCEPT ![cur] = New]
    /\ exited' = IF dup \/ old # None THEN exited ELSE [exited EXCEPT ![p] = e[2]]
    /\ pers' = IF dup \/ old # None THEN pers ELSE [pers EXCEPT ![p] = Persistent(p)]
    /\ map' = [map EXCEPT ![New] = IF dup THEN m ELSE Append(m, p)]
    /\ count' = [count EXCEPT ![New] = IF dup THEN c ELSE Counted(c, p, e)]
    /\ pref' = [q \in Procs |-> pref[q] + inc(q)]

(***************************************************************************)
(* The holder of LockMaster.                                               *)
(***************************************************************************)
Free == list = None /\ sys = None

Boot ==     \* the system process is found: an entry and VmmProcessCreateFinish
    /\ Free /\ ~Someone
    /\ list' = <<<<System, FALSE>>>> /\ total' = TRUE /\ whole' = {System}
    /\ UNCHANGED <<tableVars, cur, tref, pref, leaked, sys, readerVars>>

RefreshProcesses ==
    /\ Free /\ Someone /\ n < MaxTable
    /\ list' \in Lists /\ total' \in BOOLEAN
    /\ whole' = {e[1] : e \in ToSet(list')}
    /\ sys' = ByKey(map[cur], System) /\ pref' = AddRef(pref, sys', 1)
    /\ UNCHANGED <<tableVars, cur, tref, leaked, readerVars>>

Enum_Post ==
    /\ list \notin {None, <<>>} /\ list' = Tail(list)
    /\ CreateEntry(map[New], count[New], Head(list), total)
    /\ tref' = IF Alloc THEN [tref EXCEPT ![New] = 1] ELSE tref
    /\ UNCHANGED <<cur, leaked, total, sys, whole, readerVars>>

Copied == map[cur]

(* VmmProcessCreateTerminatedFakeEntry: the new table is given all visible *)
(* processes; the references taken to both tables are not given back.      *)
CreateTerminatedFakeEntry ==
    /\ Free /\ Someone /\ n < MaxTable
    /\ \E pid \in FakePids :
        /\ CreateEntry(Copied, count[cur], <<pid, TRUE>>, FALSE)
        /\ whole' = PidsOf(cur) \cup {pid}
    /\ tref' = [tref EXCEPT ![New] = 2, ![cur] = @ + 1]
    /\ leaked' = [leaked EXCEPT ![New] = @ + 1, ![cur] = @ + 1]
    /\ list' = <<>>
    /\ UNCHANGED <<cur, total, sys, readerVars>>

(* Mutant: the map keeps the order in which it was filled.                 *)
SortedAsFilled(m) == m

SortedByKey(m) ==
    CHOOSE s \in [1..Len(m) -> ToSet(m)] : \A i, j \in 1..Len(m) : i < j => s[i][1] < s[j][1]

CreateFinish ==
    /\ list = <<>> /\ list' = None
    /\ map' = [map EXCEPT ![newproc[cur]] = SortedByKey(@)]
    /\ cur' = newproc[cur]
    /\ LET F == IF tref[cur] = 1 THEN {cur} ELSE {} IN     \* the new table has H->vmm.pObCPROC
        /\ tref' = [tref EXCEPT ![cur] = @ - 1,
                                ![newproc[cur]] = @ + 1 - Cardinality(F)]
        /\ pref' = [p \in Procs |-> pref[p] - Cardinality({u \in F : p \in ToSet(map[u])})]
    /\ UNCHANGED <<n, newproc, count, exited, pers, leaked, total, sys, whole, readerVars>>

DropSystem ==   \* the end of VmmProc_RefreshProcesses
    /\ list = None /\ sys # None
    /\ sys' = None /\ pref' = AddRef(pref, sys, -1)
    /\ UNCHANGED <<tableVars, cur, tref, leaked, list, total, whole, readerVars>>

(***************************************************************************)
(* Readers: VmmProcessGet, VmmProcessGetNext, and Ob_DECREF of what they   *)
(* were given.                                                             *)
(***************************************************************************)
(* What a reader can see of table t.                                       *)
Visible(r, t) == {q[1] : q \in {x \in ToSet(map[t]) : Shown(x, r)}}

Goto(r, from, to) == pc[r] = from /\ pc' = [pc EXCEPT ![r] = to]

GetTable(r) ==
    /\ Goto(r, "idle", "find")
    /\ tref' = [tref EXCEPT ![cur] = @ + 1] /\ tbl' = [tbl EXCEPT ![r] = cur]
    /\ left' = [left EXCEPT ![r] = IF proc[r] = None THEN Visible(r, cur)
                                   ELSE @ \cap Visible(r, cur)]
    /\ UNCHANGED <<tableVars, cur, pref, leaked, masterVars, whole, proc>>

(* Mutant: a process that is not in the table ends the iteration.          *)
StartOrEnd(m, pid) == IF pid = 0 THEN 1 ELSE IF Find(m, pid) # 0 THEN Find(m, pid) + 1 ELSE Len(m) + 1

(* ObMap_GetNextByKeySorted: the entry after the key, or, if it is gone,   *)
(* the first one with a larger key.                                        *)
StartAt(m, pid) ==
    IF pid = 0 THEN 1
    ELSE IF Find(m, pid) # 0 THEN Find(m, pid) + 1
    ELSE LET i == SelectInSeq(m, LAMBDA p : p[1] >= pid) IN IF i = 0 THEN Len(m) + 1 ELSE i

(* The process after p that the reader can see.                            *)
Following(r, m, p) ==
    LET s == {i \in StartAt(m, Pid(p))..Len(m) : Shown(m[i], r)} IN
    IF s = {} THEN None ELSE m[Min(s)]

(* It is referenced and takes the place of the process held.               *)
GetNext(r) ==
    LET p == Following(r, map[tbl[r]], proc[r]) IN
    /\ Goto(r, "find", "drop")
    /\ pref' = AddRef(AddRef(pref, proc[r], -1), p, 1)
    /\ proc' = [proc EXCEPT ![r] = p] /\ left' = [left EXCEPT ![r] = @ \ {Pid(p)}]
    /\ UNCHANGED <<tableVars, cur, tref, leaked, masterVars, whole, tbl>>

Get(r) ==
    /\ Goto(r, "find", "drop") /\ proc[r] = None
    /\ \E pid \in GetPids :
        LET p == ByKey(map[tbl[r]], pid) IN
        /\ pref' = AddRef(pref, p, 1) /\ proc' = [proc EXCEPT ![r] = p]
        /\ left' = [left EXCEPT ![r] = IF p = None THEN {} ELSE {x \in @ : x > pid}]
    /\ UNCHANGED <<tableVars, cur, tref, leaked, masterVars, whole, tbl>>

Drop(r) ==
    /\ Goto(r, "drop", "idle")
    /\ DropTable(tbl[r]) /\ tbl' = [tbl EXCEPT ![r] = None]
    /\ UNCHANGED <<tableVars, cur, leaked, masterVars, whole, proc, left>>

Release(r) ==
    /\ pc[r] = "idle" /\ proc[r] # None
    /\ pref' = AddRef(pref, proc[r], -1)
    /\ proc' = [proc EXCEPT ![r] = None] /\ left' = [left EXCEPT ![r] = {}]
    /\ UNCHANGED <<tableVars, cur, tref, leaked, masterVars, whole, pc, tbl>>

Next ==
    \/ Boot \/ RefreshProcesses \/ Enum_Post \/ CreateTerminatedFakeEntry
    \/ CreateFinish \/ DropSystem
    \/ \E r \in Readers : GetTable(r) \/ GetNext(r) \/ Get(r) \/ Drop(r) \/ Release(r)

Spec == Init /\ [][Next]_vars

(***************************************************************************)
(* Properties.                                                             *)
(***************************************************************************)
(* Replacement is all or nothing (vmm.c 738-746, 1269-1284): when          *)
(* LockMaster is free the visible table holds exactly what the enumeration *)
(* found, or what was visible before and the process that was added, in    *)
(* the order of the PIDs, and no table is in preparation.  The counts that *)
(* VmmProcessListPIDs trusts are those of the table, although a shared     *)
(* object keeps the state it had when it was made.                         *)
WholeTable ==
    list = None =>
        /\ PidsOf(cur) = whole /\ Len(map[cur]) = Cardinality(whole)
        /\ newproc[cur] = None /\ count[cur].c = Len(map[cur])
        /\ count[cur].cActive = Cardinality({i \in DOMAIN map[cur] : ~exited[map[cur][i]]})

(* Every reference is counted: tables by H, by the table before, by        *)
(* readers and by what leaked; processes by the tables in use, by readers  *)
(* and by the refresh.  Nothing that is referenced was freed.              *)
CountsExact ==
    /\ \A t \in 0..n :
        tref[t] = (IF cur = t THEN 1 ELSE 0) + leaked[t]
                  + Cardinality({u \in 0..n : newproc[u] = t /\ tref[u] > 0})
                  + Cardinality({r \in Readers : tbl[r] = t})
    /\ \A p \in Procs :
        pref[p] = (IF sys = p THEN 1 ELSE 0)
                  + Cardinality({t \in 0..n : tref[t] > 0 /\ p \in ToSet(map[t])})
                  + Cardinality({r \in Readers : proc[r] = p})

(* An iteration with VmmProcessGetNext returns every process that was in   *)
(* each table it went through, although the table may be replaced and the  *)
(* process it stands on may vanish between two calls.                      *)
IterationComplete ==
    \A r \in Readers : pc[r] = "drop" /\ proc[r] = None => left[r] = {}

(* No call of VmmProcessGetNext goes back: an iteration ends.              *)
IterationAscends ==
    [][\A r \in Readers :
         pc[r] = "find" /\ pc'[r] = "drop" /\ proc[r] # None /\ proc'[r] # None =>
            Pid(proc'[r]) > Pid(proc[r])]_vars

(* Information that is to remain between refreshes (vmm.c                  *)
(* VmmProcessStatic_Initialize) does: a PID in two successive tables keeps *)
(* its persistent information, also when its process object is new.        *)
PersistentKept ==
    [][cur' # cur =>
         \A p \in ToSet(map[cur]), q \in ToSet(map'[cur']) : p[1] = q[1] => pers'[q] = pers[p]]_vars
=============================================================================
