---------------------------- MODULE VmmForensic ----------------------------
(***************************************************************************)
(* The initialization of forensic mode (src/vmm/fc.c): one unit of the     *)
(* work pool drives all the others.  It lets the plugins initialize, has   *)
(* FindEvil, the scan of objects and virtual memory and the two logs run   *)
(* beside it, reads physical memory chunk by chunk into two buffers, one   *)
(* of which is filled while the plugins are fed from the other, and then   *)
(* finalizes; when the handle closes it leaves by its fail path.           *)
(*                                                                         *)
(* The pool (VmmWork) appears by what it promises: a queued unit starts    *)
(* when a thread is free, one of low priority only while more than half of *)
(* the threads sleep; a unit that is freed sets its finish event.  So an   *)
(* event is set when its unit is "none" or "done".  Each fan-out to the    *)
(* plugins has one that its caller runs and one that a unit runs.  The     *)
(* unit of the JSON log is queued, awaited and closed as the one of the    *)
(* CSV log, next to it, and left out.                                      *)
(***************************************************************************)
EXTENDS Integers, FiniteSets

CONSTANTS
    Chunks,     \* chunks of physical memory
    Items,      \* ranges and objects to scan
    Pool        \* VMM_WORK_THREADPOOL_NUM_THREADS

Read(k) == IF k % 2 = 0 THEN "read0" ELSE "read1"
Bufs == {"read0", "read1"}
Plain == {"init", "find", "ingest", "csv"}  \* units that call a plugin, unless aborted, and end
Scanners == {"scan", "worker"}
Units == Plain \cup Bufs \cup Scanners \cup {"evil"}
Low == Bufs \cup {"csv", "worker"}         \* VMMWORK_FLAG_PRIO_LOW

(* The three units that wait for others may not use up the threads which   *)
(* units of low priority need.                                             *)
ASSUME PoolAssumption == Pool \in Nat /\ Pool - 4 > Pool \div 2
ASSUME SizeAssumption == Chunks \in Nat \ {0} /\ Items \in Nat

VARIABLES
    fAbort,             \* H->fAbort
    pc,                 \* where FcInitialize_ThreadProc is
    st,                 \* the state of every unit
    iChunk,             \* chunks queued so far
    pa, data, fValid,   \* of a buffer: the chunk to read, the one it holds or 0, is it whole?
    items,              \* pmScanItems: how many are left
    evilMap,            \* FindEvil.pm: "none", "open" or "gone"
    finalized,          \* has pfnFinalize dropped the plugins' contexts?
    fInitFinish,
    fed                 \* history: the chunk last given to plugins

bufVars == <<pa, data, fValid>>
vars == <<fAbort, pc, st, iChunk, bufVars, items, evilMap, finalized, fInitFinish, fed>>

Init ==
    /\ fAbort = FALSE /\ pc = "start"
    /\ st = [u \in Units |-> "none"]
    /\ iChunk = 0
    /\ pa = [b \in Bufs |-> 0] /\ data = [b \in Bufs |-> 0] /\ fValid = [b \in Bufs |-> FALSE]
    /\ items = Items
    /\ evilMap = "none" /\ finalized = FALSE /\ fInitFinish = FALSE
    /\ fed = 0

IsSet(u) == st[u] \in {"none", "done"}
Busy == {u \in Units : st[u] \notin {"none", "queued", "done"}}
Free == Pool - 1 - Cardinality(Busy)
InPlugin == {u \in Units : st[u] = "plugin"}

(* VmmWork_QueueWorkUnit_DECREF_NULL.                                      *)
Queued == IF fAbort THEN "done" ELSE "queued"

Goto(from, to) == pc = from /\ pc' = to
OrFail(to) == IF fAbort THEN "fail" ELSE to

----------------------------------------------------------------------------
(* The pool.                                                               *)
StartUnit(u) ==
    /\ st[u] = "queued"
    /\ IF u \in Low THEN Free - 1 > Pool \div 2 ELSE Free > 0
    /\ st' = [st EXCEPT ![u] = "run"]
    /\ UNCHANGED <<fAbort, pc, iChunk, bufVars, items, evilMap, finalized, fInitFinish, fed>>

(* Mutant: a unit that is removed does not set its event.                  *)
DropUnitSilently(u) ==
    /\ fAbort /\ st[u] = "queued" /\ UNCHANGED vars

(* VmmWork_Interrupt.                                                      *)
DropUnit(u) ==
    /\ fAbort /\ st[u] = "queued"
    /\ st' = [st EXCEPT ![u] = "done"]
    /\ UNCHANGED <<fAbort, pc, iChunk, bufVars, items, evilMap, finalized, fInitFinish, fed>>

Abort ==
    /\ ~fAbort /\ fAbort' = TRUE
    /\ UNCHANGED <<pc, st, iChunk, bufVars, items, evilMap, finalized, fInitFinish, fed>>

----------------------------------------------------------------------------
(* The units.  A step of a unit that touches nothing but its own state:    *)
UnitGoto(u, from, to) ==
    /\ st[u] = from /\ st' = [st EXCEPT ![u] = to]
    /\ UNCHANGED <<fAbort, pc, iChunk, bufVars, evilMap, finalized, fInitFinish, fed>>

(* PluginManager_Fc..._ThreadProc and PluginManager_FcLogCSV.              *)
CallPlugin(u) ==
    u \in Plain /\ UnitGoto(u, "run", IF fAbort THEN "done" ELSE "plugin") /\ UNCHANGED items

PluginReturns(u) ==
    /\ UnitGoto(u, "plugin", CASE u \in Plain -> "done" [] u \in Scanners -> "pop" [] OTHER -> "wait")
    /\ UNCHANGED items

(* FcScanPhysmem_ThreadProc.                                               *)
ReadBegin(b) ==
    /\ b \in Bufs /\ st[b] = "run"
    /\ st' = [st EXCEPT ![b] = IF fAbort THEN "done" ELSE "fill"]
    /\ fValid' = IF fAbort THEN fValid ELSE [fValid EXCEPT ![b] = FALSE]
    /\ data' = IF fAbort THEN data ELSE [data EXCEPT ![b] = 0]
    /\ UNCHANGED <<fAbort, pc, iChunk, pa, items, evilMap, finalized, fInitFinish, fed>>

ReadEnd(b) ==
    /\ b \in Bufs /\ st[b] = "fill"
    /\ \E ok \in BOOLEAN :
        /\ fValid' = [fValid EXCEPT ![b] = ok]
        /\ data' = IF ok THEN [data EXCEPT ![b] = pa[b]] ELSE data
    /\ st' = [st EXCEPT ![b] = "done"]
    /\ UNCHANGED <<fAbort, pc, iChunk, pa, items, evilMap, finalized, fInitFinish, fed>>

(* FcEvilInitialize_ThreadProc and PluginManager_FcFindEvil.               *)
EvilOpen ==
    /\ st["evil"] = "run"
    /\ st' = [st EXCEPT !["evil"] = IF fAbort THEN "done" ELSE "open"]
    /\ evilMap' = IF fAbort THEN evilMap ELSE "open"
    /\ UNCHANGED <<fAbort, pc, iChunk, bufVars, items, finalized, fInitFinish, fed>>

EvilFind ==
    /\ st["evil"] = "open"
    /\ st' = IF fAbort THEN [st EXCEPT !["evil"] = "done"]
             ELSE [st EXCEPT !["evil"] = "plugin", !["find"] = "queued"]
    /\ UNCHANGED <<fAbort, pc, iChunk, bufVars, items, evilMap, finalized, fInitFinish, fed>>

(* Mutant: FindEvil ends without waiting for the plugins' units.           *)
EvilEndEarly == UnitGoto("evil", "wait", "done") /\ UNCHANGED items

EvilEnd == IsSet("find") /\ UnitGoto("evil", "wait", "done") /\ UNCHANGED items

(* FcScanObjectAndVirtmem_ThreadProc; its workers run the loop it runs.    *)
ScanBegin ==
    /\ st["scan"] = "run"
    /\ st' = [st EXCEPT !["scan"] = "pop", !["worker"] = Queued]
    /\ UNCHANGED <<fAbort, pc, iChunk, bufVars, items, evilMap, finalized, fInitFinish, fed>>

WorkerBegin == UnitGoto("worker", "run", "pop") /\ UNCHANGED items

ScanLeave(u) == IF u = "scan" THEN "wait" ELSE "done"

(* FcScanVirtmem_ScanRanges_ThreadProc: an item is popped before the abort *)
(* flag is looked at; a range without data reaches no plugin.              *)
ScanPop(u) ==
    /\ u \in Scanners /\ items > 0
    /\ \E to \in IF fAbort THEN {ScanLeave(u)} ELSE {"plugin", "pop"} : UnitGoto(u, "pop", to)
    /\ items' = items - 1

ScanEmpty(u) ==
    u \in Scanners /\ items = 0 /\ UnitGoto(u, "pop", ScanLeave(u)) /\ UNCHANGED items

(* Mutant: the scan ends without waiting for its workers.                  *)
ScanEndEarly == UnitGoto("scan", "wait", "done") /\ UNCHANGED items

ScanEnd == IsSet("worker") /\ UnitGoto("scan", "wait", "done") /\ UNCHANGED items

UnitStep(u) ==
    \/ CallPlugin(u) \/ PluginReturns(u) \/ ReadBegin(u) \/ ReadEnd(u)
    \/ ScanPop(u) \/ ScanEmpty(u)
    \/ u = "evil" /\ (EvilOpen \/ EvilFind \/ EvilEnd)
    \/ u = "scan" /\ (ScanBegin \/ ScanEnd)
    \/ u = "worker" /\ WorkerBegin

----------------------------------------------------------------------------
(* The thread of FcInitialize_ThreadProc.  VmmWorkWaitMultiple2_Void runs  *)
(* the first plugin itself: Call until it returned, Await its unit after.  *)
Queue(u, from, to) ==
    /\ Goto(from, to) /\ st' = [st EXCEPT ![u] = Queued]
    /\ UNCHANGED <<fAbort, iChunk, bufVars, items, evilMap, finalized, fInitFinish, fed>>

Await(u, from, to) ==
    /\ IsSet(u) /\ Goto(from, to)
    /\ UNCHANGED <<fAbort, st, iChunk, bufVars, items, evilMap, finalized, fInitFinish, fed>>

Check(from, to) ==
    /\ Goto(from, OrFail(to))
    /\ UNCHANGED <<fAbort, st, iChunk, bufVars, items, evilMap, finalized, fInitFinish, fed>>

Start ==
    \/ fAbort /\ Check("start", "fail")
    \/ ~fAbort /\ Queue("init", "start", "init")

InitPlugins == Await("init", "init", "evil") \/ Queue("evil", "evil", "10%") \/ Check("10%", "scan")

QueueOthers == Queue("scan", "scan", "csv") \/ Queue("csv", "csv", "chunk")

(* FcScanPhysmem: the loop queues the next chunk, then turns to the one    *)
(* before it, which it feeds to the plugins once its unit is through.      *)
NextChunk ==
    /\ pc = "chunk" /\ iChunk < Chunks
    /\ iChunk' = iChunk + 1
    /\ LET b == Read(iChunk + 1) IN
        IF fAbort THEN pc' = "closebufs" /\ UNCHANGED <<pa, st>>
        ELSE /\ pc' = IF iChunk = 0 THEN "chunk" ELSE "chunkwait"
             /\ pa' = [pa EXCEPT ![b] = iChunk + 1]
             /\ st' = [st EXCEPT ![b] = "queued"]
    /\ UNCHANGED <<fAbort, data, fValid, items, evilMap, finalized, fInitFinish, fed>>

LastChunk ==
    /\ pc = "chunk" /\ iChunk = Chunks /\ pc' = "lastwait"
    /\ UNCHANGED <<fAbort, st, iChunk, bufVars, items, evilMap, finalized, fInitFinish, fed>>

(* Mutant: the buffer is fed to the plugins without waiting for the unit   *)
(* that fills it.                                                          *)
FeedUnfinished(from, ingest, skip) ==
    /\ pc = from
    /\ LET b == Read(iChunk - 1) IN
        /\ pc' = IF fAbort THEN "closebufs" ELSE IF fValid[b] THEN ingest ELSE skip
        /\ st' = IF ~fAbort /\ fValid[b] THEN [st EXCEPT !["ingest"] = "queued"] ELSE st
    /\ UNCHANGED <<fAbort, iChunk, bufVars, items, evilMap, finalized, fInitFinish, fed>>

Feed(from, ingest, skip) ==
    /\ pc = from /\ IsSet(Read(iChunk - 1))
    /\ LET b == Read(iChunk - 1) IN
        /\ pc' = IF fAbort THEN "closebufs" ELSE IF fValid[b] THEN ingest ELSE skip
        /\ st' = IF ~fAbort /\ fValid[b] THEN [st EXCEPT !["ingest"] = "queued"] ELSE st
    /\ UNCHANGED <<fAbort, iChunk, bufVars, items, evilMap, finalized, fInitFinish, fed>>

(* PluginManager_FcIngestPhysmem has returned.                             *)
Fed(from, to) ==
    /\ IsSet("ingest") /\ Goto(from, to)
    /\ fed' = data[Read(iChunk - 1)]
    /\ UNCHANGED <<fAbort, st, iChunk, bufVars, items, evilMap, finalized, fInitFinish>>

ScanPhysmem ==
    \/ NextChunk \/ Feed("chunkwait", "chunkfeed", "chunk") \/ Fed("chunkfeed", "chunk")
    \/ LastChunk \/ Feed("lastwait", "lastfeed", "closebufs") \/ Fed("lastfeed", "closebufs")
    \/ Await("read0", "closebufs", "closebuf1") \/ Await("read1", "closebuf1", "60%wait")

Ingested ==
    \/ Await("scan", "60%wait", "60%") \/ Check("60%", "ingestfinalize") \/ Check("ingestfinalize", "timeline")
    \/ Check("timeline", "90%")

AwaitOthers ==
    \/ Await("evil", "90%", "95%csv") \/ Await("csv", "95%csv", "95%") \/ Check("95%", "finalize")

(* PluginManager_FcFinalize.                                               *)
Finalize(from, to) ==
    /\ Goto(from, to) /\ finalized' = TRUE
    /\ UNCHANGED <<fAbort, st, iChunk, bufVars, items, evilMap, fInitFinish, fed>>

(* FcEvilFinalize: the output is made, and the map dropped in any case.    *)
EvilFinalize(from, to) ==
    /\ Goto(from, to)
    /\ evilMap' = IF evilMap = "open" THEN "gone" ELSE evilMap
    /\ UNCHANGED <<fAbort, st, iChunk, bufVars, items, finalized, fInitFinish, fed>>

Finish ==
    /\ Goto("100%", "fail") /\ fInitFinish' = ~fAbort
    /\ UNCHANGED <<fAbort, st, iChunk, bufVars, items, evilMap, finalized, fed>>

Success ==
    \/ Finalize("finalize", "finalized") \/ Check("finalized", "evilfinalize")
    \/ EvilFinalize("evilfinalize", "100%") \/ Finish

Fail ==
    \/ Finalize("fail", "closeevil") \/ Await("evil", "closeevil", "evilagain")
    \/ EvilFinalize("evilagain", "closecsv") \/ Await("csv", "closecsv", "closescan")
    \/ Await("scan", "closescan", "end")

MainStep ==
    \/ Start \/ InitPlugins \/ QueueOthers \/ ScanPhysmem \/ Ingested \/ AwaitOthers \/ Success \/ Fail

Terminated == pc = "end" /\ UNCHANGED vars

Next ==
    \/ Abort \/ Terminated \/ MainStep
    \/ \E u \in Units : StartUnit(u) \/ DropUnit(u) \/ UnitStep(u)

Spec == Init /\ [][Next]_vars

(* Every thread that can go on does so; the pool takes queued units until  *)
(* the handle closes, and then frees them.  Nothing makes the handle close.*)
FairSpec ==
    /\ Spec /\ WF_vars(MainStep)
    /\ \A u \in Units : WF_vars(~fAbort /\ StartUnit(u)) /\ WF_vars(DropUnit(u)) /\ WF_vars(UnitStep(u))

(***************************************************************************)
(* Properties.                                                             *)
(***************************************************************************)
St == {"none", "queued", "run", "plugin", "fill", "open", "pop", "wait", "done"}

TypeOK ==
    /\ fAbort \in BOOLEAN /\ finalized \in BOOLEAN /\ fInitFinish \in BOOLEAN
    /\ st \in [Units -> St]
    /\ iChunk \in 0..Chunks /\ items \in 0..Items
    /\ pa \in [Bufs -> 0..Chunks] /\ data \in [Bufs -> 0..Chunks] /\ fValid \in [Bufs -> BOOLEAN]
    /\ evilMap \in {"none", "open", "gone"}
    /\ fed \in 0..Chunks

Feeding == pc \in {"chunkfeed", "lastfeed"}
PastScan == pc \in {"ingestfinalize", "timeline", "90%", "95%csv", "95%", "finalize",
                    "finalized", "evilfinalize", "100%"}

(* While plugins are given a chunk, its buffer is not being refilled: it   *)
(* holds, whole, the chunk that was queued before the current one          *)
(* (fc.c 1024-1035).                                                       *)
BufferExclusive ==
    Feeding => LET b == Read(iChunk - 1) IN
        IsSet(b) /\ fValid[b] /\ data[b] = pa[b] /\ pa[b] = iChunk - 1

(* The stages do not overlap unless the handle closes: plugins are told    *)
(* that all is ingested when the scan, its workers and the reads are       *)
(* through and no item is left; their contexts go when no plugin runs; and *)
(* readers that see fInitFinish find every unit done.                      *)
StagesInOrder ==
    /\ PastScan /\ ~fAbort => items = 0 /\ \A u \in Scanners \cup Bufs \cup {"ingest"} : IsSet(u)
    /\ finalized /\ ~fAbort => InPlugin = {} /\ pc # "chunkfeed"
    /\ fInitFinish => finalized /\ evilMap = "gone" /\ \A u \in Units : IsSet(u)

(* What a unit uses lives until the unit is through, also on the way out   *)
(* of an abort: the two buffers and their events, the FindEvil map, the    *)
(* events and the CSV handle (fc.c 1052-1057, 1514-1534).                  *)
OutlivesItsUnits ==
    /\ pc \notin {"start", "init", "evil", "10%", "scan", "csv", "chunk", "chunkwait", "chunkfeed",
                  "lastwait", "lastfeed", "closebufs", "closebuf1"} =>
         \A b \in Bufs : IsSet(b)
    /\ evilMap = "gone" => IsSet("evil") /\ IsSet("find")
    /\ pc = "end" => \A u \in Units : IsSet(u)

(* "process last read chunk": when a scan that was not cut short is over,  *)
(* the plugins have seen its last chunk, if that could be read.            *)
LastChunkFed ==
    PastScan /\ ~fAbort /\ fValid[Read(Chunks)] => fed = Chunks

(* Initialization comes to an end, on either way, although three of the    *)
(* threads wait for units that have yet to be started.                     *)
InitEnds == <>(pc = "end")
=============================================================================
