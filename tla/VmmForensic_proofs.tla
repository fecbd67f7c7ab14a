-------------------------- MODULE VmmForensic_proofs --------------------------
(***************************************************************************)
(* The initialization of forensic mode never feeds a buffer that is being  *)
(* refilled, keeps its stages apart and leaves nothing behind that a unit  *)
(* still uses, for any number of chunks, of items and of threads.          *)
(***************************************************************************)
EXTENDS VmmForensic, TLAPS

Preparing == {"start", "init", "evil", "10%", "scan", "csv"}
Scanning  == {"chunk", "chunkwait", "chunkfeed", "lastwait", "lastfeed"}
Closing   == {"closebufs", "closebuf1"}
Waiting   == {"60%wait", "60%", "ingestfinalize", "timeline", "90%"}
Leaving   == {"fail", "closeevil", "evilagain", "closecsv", "closescan", "end"}
Ending    == {"finalize", "finalized", "evilfinalize", "100%"}

AllThrough == \A u \in Units : IsSet(u)

(* Where the initialization may be while a unit is not through: it leaves  *)
(* each of these places by waiting for that unit.                          *)
MainWaits ==
    /\ ~IsSet("init") => pc = "init"
    /\ ~IsSet("evil") =>
         pc \in {"10%", "scan", "csv"} \cup Scanning \cup Closing \cup Waiting \cup {"fail", "closeevil"}
    /\ ~IsSet("scan") =>
         pc \in {"csv"} \cup Scanning \cup Closing \cup {"60%wait"} \cup (Leaving \ {"end"})
    /\ ~IsSet("csv") =>
         pc \in Scanning \cup Closing \cup Waiting \cup {"95%csv", "fail", "closeevil", "evilagain", "closecsv"}
    /\ ~IsSet("ingest") => pc \in {"chunkfeed", "lastfeed"}
    /\ \A b \in Bufs : ~IsSet(b) => pc \in Scanning \cup Closing /\ (pc = "closebuf1" => b = "read1")

(* What a unit has queued is through before the unit is.                   *)
UnitsWait ==
    /\ ~IsSet("find") => st["evil"] \in {"plugin", "wait"}
    /\ ~IsSet("worker") => st["scan"] \in {"pop", "plugin", "wait"}

(* The two buffers: pa says what was queued for each; unless the handle    *)
(* closes, a buffer that is whole and not being filled holds it.           *)
Buffers ==
    /\ pc \in Preparing => iChunk = 0 /\ \A b \in Bufs : st[b] = "none" /\ ~fValid[b] /\ pa[b] = 0
    /\ pc \in Scanning =>
        IF iChunk = 0 THEN pc = "chunk" /\ \A b \in Bufs : IsSet(b) /\ ~fValid[b] /\ pa[b] = 0
        ELSE pa[Read(iChunk)] = iChunk /\ pa[Read(iChunk - 1)] = iChunk - 1
    /\ pc \in {"chunk", "chunkfeed", "lastfeed"} /\ iChunk > 0 => IsSet(Read(iChunk - 1))
    /\ \A b \in Bufs : ~fAbort /\ IsSet(b) /\ fValid[b] => data[b] = pa[b]

(* Unless the handle closes, what was queued ran: the scan ended because   *)
(* nothing was left to scan, and FindEvil opened its map.                  *)
NothingDropped ==
    ~fAbort =>
        /\ st["scan"] \in {"wait", "done"} => items = 0
        /\ pc \in {"csv"} \cup Scanning \cup Closing \cup Waiting \cup {"95%csv", "95%"} \cup Ending =>
             st["scan"] # "none"
        /\ st["evil"] \in {"open", "plugin", "wait", "done"} => evilMap # "none"
        /\ pc \in {"10%", "scan", "csv"} \cup Scanning \cup Closing \cup Waiting \cup {"95%csv", "95%"} \cup Ending =>
             st["evil"] # "none"
        /\ pc \in Leaving => AllThrough

(* What the last steps of the initialization have done.                    *)
Wound ==
    /\ evilMap = "gone" => IsSet("evil") /\ pc \in {"100%"} \cup Leaving
    /\ finalized => pc \in (Ending \ {"finalize"}) \cup Leaving
    /\ pc \in {"finalized", "evilfinalize", "100%"} => finalized
    /\ pc = "100%" => evilMap # "open"
    /\ fInitFinish => finalized /\ evilMap = "gone" /\ AllThrough /\ pc \in Leaving

Pcs == Preparing \cup Scanning \cup Closing \cup Waiting \cup {"95%csv", "95%"} \cup Ending \cup Leaving

IInv ==
    /\ TypeOK /\ pc \in Pcs
    /\ MainWaits /\ UnitsWait /\ Buffers /\ NothingDropped /\ Wound /\ BufferExclusive

----------------------------------------------------------------------------
(* The two buffers alternate. *)
LEMMA Alternate ==
  ASSUME NEW k \in Int
  PROVE  /\ Read(k) \in Bufs /\ Read(k + 1) # Read(k)
         /\ Read(k + 1 - 1) = Read(k) /\ Read(k - 1) = Read(k + 1)
         /\ \A b \in Bufs : b = Read(k) \/ b = Read(k + 1)
<1>1. k % 2 \in {0, 1} /\ (k + 1) % 2 = 1 - (k % 2) /\ (k - 1) % 2 = 1 - (k % 2) /\ k + 1 - 1 = k
  OBVIOUS
<1>. QED
  BY <1>1 DEF Read, Bufs

LEMMA InitInv == Init => IInv
<1>. SUFFICES ASSUME Init PROVE IInv
  OBVIOUS
<1>1. TypeOK /\ pc \in Pcs
  <2>1. 0 \in 0..Chunks /\ Items \in 0..Items
    BY SizeAssumption DEF SizeAssumption
  <2>. QED
    BY <2>1 DEF Init, TypeOK, St, Pcs, Preparing
<1>2. \A u \in Units : IsSet(u)
  BY DEF Init, IsSet
<1>3. Buffers
  BY DEF Init, Buffers, Preparing, Scanning, Bufs, Units
<1>4. MainWaits /\ UnitsWait
  BY <1>2 DEF MainWaits, UnitsWait, Units, Plain, Scanners, Bufs
<1>. QED
  BY <1>1, <1>2, <1>3, <1>4 DEF Init, IInv, NothingDropped, Wound, BufferExclusive, Feeding,
     Leaving, Ending, Scanning, Closing, Waiting, Units, Plain, Scanners

(* A step of the pool or of a unit. *)
LEMMA UnitKeeps ==
  ASSUME IInv, NEW u \in Units, StartUnit(u) \/ DropUnit(u) \/ UnitStep(u)
  PROVE  IInv'
<1>. USE DEF IInv, TypeOK, St, Pcs, IsSet, bufVars, MainWaits, UnitsWait, Buffers, NothingDropped, Wound,
         BufferExclusive, Feeding, AllThrough, Units, Plain, Scanners, Bufs
<1>1. CASE StartUnit(u)
  BY <1>1 DEF StartUnit
<1>2. CASE DropUnit(u)
  BY <1>2 DEF DropUnit
<1>3. CASE CallPlugin(u)
  BY <1>3 DEF CallPlugin, UnitGoto
<1>4. CASE PluginReturns(u)
  BY <1>4 DEF PluginReturns, UnitGoto
<1>5. CASE ReadBegin(u)
  <2>1. CASE fAbort
    BY <1>5, <2>1 DEF ReadBegin
  <2>2. CASE ~fAbort
    <3>1. 0 \in 0..Chunks /\ data' = [data EXCEPT ![u] = 0]
      BY <1>5, <2>2, SizeAssumption DEF ReadBegin, SizeAssumption
    <3>2. data' \in [Bufs -> 0..Chunks]
      BY <3>1
    <3>. QED
      BY <1>5, <2>2, <3>1, <3>2 DEF ReadBegin
  <2>. QED
    BY <2>1, <2>2
<1>6. CASE ReadEnd(u)
  BY <1>6 DEF ReadEnd
<1>7. CASE ScanPop(u)
  <2>1. items' \in 0..Items /\ items # 0
    BY <1>7, SizeAssumption DEF ScanPop, SizeAssumption
  <2>. QED
    BY <1>7, <2>1 DEF ScanPop, UnitGoto, ScanLeave
<1>8. CASE ScanEmpty(u)
  BY <1>8 DEF ScanEmpty, UnitGoto, ScanLeave
<1>9. CASE u = "evil" /\ EvilOpen
  <2>1. pc # "100%"
    BY <1>9 DEF EvilOpen, Scanning, Closing, Waiting
  <2>2. (NothingDropped /\ Wound)'
    BY <1>9, <2>1 DEF EvilOpen
  <2>. QED
    BY <1>9, <2>2 DEF EvilOpen
<1>10. CASE u = "evil" /\ EvilFind
  <2>1. \A b \in Bufs : st'[b] = st[b]
    BY <1>10 DEF EvilFind
  <2>2. (Buffers /\ BufferExclusive)'
    BY <1>10, <2>1, Alternate DEF EvilFind
  <2>. QED
    BY <1>10, <2>2 DEF EvilFind
<1>11. CASE u = "evil" /\ EvilEnd
  BY <1>11 DEF EvilEnd, UnitGoto
<1>12. CASE u = "scan" /\ ScanBegin
  <2>1. \A b \in Bufs : st'[b] = st[b]
    BY <1>12 DEF ScanBegin
  <2>2. (Buffers /\ BufferExclusive)'
    BY <1>12, <2>1, Alternate DEF ScanBegin
  <2>. QED
    BY <1>12, <2>2 DEF ScanBegin, Queued
<1>13. CASE u = "scan" /\ ScanEnd
  BY <1>13 DEF ScanEnd, UnitGoto
<1>14. CASE u = "worker" /\ WorkerBegin
  BY <1>14 DEF WorkerBegin, UnitGoto
<1>. QED
  BY <1>1, <1>2, <1>3, <1>4, <1>5, <1>6, <1>7, <1>8, <1>9, <1>10, <1>11, <1>12, <1>13, <1>14
  DEF UnitStep

(* A step of the unit that drives the others: before the first chunk ... *)
LEMMA StartKeeps ==
  ASSUME IInv, Start \/ InitPlugins \/ QueueOthers
  PROVE  IInv'
<1>. USE DEF IInv, TypeOK, St, Pcs, IsSet, Goto, bufVars, MainWaits, UnitsWait, Buffers, NothingDropped, Wound,
         BufferExclusive, Feeding, AllThrough, Preparing, Scanning, Closing, Waiting, Leaving, Ending,
         Units, Plain, Scanners, Bufs
<1>1. CASE fAbort /\ Check("start", "fail")
  BY <1>1 DEF Check, OrFail
<1>2. CASE ~fAbort /\ Queue("init", "start", "init")
  BY <1>2 DEF Queue, Queued
<1>3. CASE Await("init", "init", "evil")
  BY <1>3 DEF Await
<1>4. CASE Queue("evil", "evil", "10%")
  BY <1>4 DEF Queue, Queued
<1>5. CASE Check("10%", "scan")
  BY <1>5 DEF Check, OrFail
<1>6. CASE Queue("scan", "scan", "csv")
  BY <1>6 DEF Queue, Queued
<1>7. CASE Queue("csv", "csv", "chunk")
  BY <1>7 DEF Queue, Queued
<1>. QED
  BY <1>1, <1>2, <1>3, <1>4, <1>5, <1>6, <1>7 DEF Start, InitPlugins, QueueOthers

(* ... after the last chunk, while it waits for the other units ... *)
LEMMA IngestedKeeps ==
  ASSUME IInv, Ingested \/ AwaitOthers
  PROVE  IInv'
<1>. USE DEF IInv, TypeOK, St, Pcs, IsSet, Goto, bufVars, MainWaits, UnitsWait, Buffers, NothingDropped, Wound,
         BufferExclusive, Feeding, AllThrough, Preparing, Scanning, Closing, Waiting, Leaving, Ending,
         Units, Plain, Scanners, Bufs
<1>1. CASE Await("scan", "60%wait", "60%")
  BY <1>1 DEF Await
<1>2. CASE Check("60%", "ingestfinalize")
  BY <1>2 DEF Check, OrFail
<1>3. CASE Check("ingestfinalize", "timeline")
  BY <1>3 DEF Check, OrFail
<1>4. CASE Check("timeline", "90%")
  BY <1>4 DEF Check, OrFail
<1>5. CASE Await("evil", "90%", "95%csv")
  BY <1>5 DEF Await
<1>6. CASE Await("csv", "95%csv", "95%")
  BY <1>6 DEF Await
<1>7. CASE Check("95%", "finalize")
  BY <1>7 DEF Check, OrFail
<1>. QED
  BY <1>1, <1>2, <1>3, <1>4, <1>5, <1>6, <1>7 DEF Ingested, AwaitOthers

(* ... on its two ways out ... *)
LEMMA EndKeeps ==
  ASSUME IInv, Success \/ Fail
  PROVE  IInv'
<1>. USE DEF IInv, TypeOK, St, Pcs, IsSet, Goto, bufVars, MainWaits, UnitsWait, Buffers, NothingDropped, Wound,
         BufferExclusive, Feeding, AllThrough, Preparing, Scanning, Closing, Waiting, Leaving, Ending,
         Units, Plain, Scanners, Bufs
<1>1. CASE Finalize("finalize", "finalized")
  BY <1>1 DEF Finalize
<1>2. CASE Check("finalized", "evilfinalize")
  BY <1>2 DEF Check, OrFail
<1>3. CASE EvilFinalize("evilfinalize", "100%")
  BY <1>3 DEF EvilFinalize
<1>4. CASE Finish
  BY <1>4 DEF Finish
<1>5. CASE Finalize("fail", "closeevil")
  BY <1>5 DEF Finalize
<1>6. CASE Await("evil", "closeevil", "evilagain")
  BY <1>6 DEF Await
<1>7. CASE EvilFinalize("evilagain", "closecsv")
  BY <1>7 DEF EvilFinalize
<1>8. CASE Await("csv", "closecsv", "closescan")
  BY <1>8 DEF Await
<1>9. CASE Await("scan", "closescan", "end")
  BY <1>9 DEF Await
<1>. QED
  BY <1>1, <1>2, <1>3, <1>4, <1>5, <1>6, <1>7, <1>8, <1>9 DEF Success, Fail

(* ... and in the scan of physical memory, where b is the buffer queued    *)
(* last and o the other one.                                               *)
LEMMA ScanPhysmemKeeps ==
  ASSUME IInv, ScanPhysmem
  PROVE  IInv'
<1>. USE DEF IInv, TypeOK, St, Pcs, IsSet, Goto, bufVars, MainWaits, UnitsWait, Buffers, NothingDropped, Wound,
         BufferExclusive, Feeding, AllThrough, Preparing, Scanning, Closing, Waiting, Leaving, Ending,
         Units, Plain, Scanners, Bufs
<1>. DEFINE b == Read(iChunk)
           o == Read(iChunk + 1)
<1>0. /\ iChunk \in Int /\ iChunk + 1 \in Int /\ iChunk + 1 - 1 = iChunk
      /\ b \in Bufs /\ o \in Bufs /\ o # b /\ Read(iChunk - 1) = o
      /\ \A x \in Bufs : x = b \/ x = o
  BY Alternate
<1>. HIDE DEF b, o
<1>1. CASE NextChunk
  <2>1. CASE fAbort
    <3>1. iChunk' \in 0..Chunks /\ iChunk' = iChunk + 1 /\ UNCHANGED <<pa, st, data, fValid>> /\ pc' = "closebufs"
      BY <1>0, <1>1, <2>1, SizeAssumption DEF NextChunk, SizeAssumption
    <3>. QED
      BY <1>1, <2>1, <3>1 DEF NextChunk
  <2>2. CASE ~fAbort
    <3>1. iChunk' \in 0..Chunks /\ pa' = [pa EXCEPT ![o] = iChunk + 1] /\ pa' \in [Bufs -> 0..Chunks]
      BY <1>0, <1>1, <2>2, SizeAssumption DEF NextChunk, SizeAssumption, o
    <3>2. IsSet(o) /\ st' = [st EXCEPT ![o] = "queued"] /\ iChunk' - 1 = iChunk
      BY <1>0, <1>1, <2>2 DEF NextChunk, o
    <3>3. TypeOK' /\ (pc \in Pcs)' /\ MainWaits' /\ UnitsWait' /\ NothingDropped' /\ Wound'
      <4>1. TypeOK' /\ (pc \in Pcs)' /\ MainWaits' /\ UnitsWait'
        BY <1>0, <1>1, <2>2, <3>1, <3>2 DEF NextChunk
      <4>2. NothingDropped'
        BY <1>0, <1>1, <2>2, <3>1, <3>2 DEF NextChunk
      <4>3. Wound'
        BY <1>0, <1>1, <2>2, <3>1, <3>2 DEF NextChunk
      <4>. QED
        BY <4>1, <4>2, <4>3
    <3>4. Buffers' /\ BufferExclusive'
      BY <1>0, <1>1, <2>2, <3>1, <3>2 DEF NextChunk, b, o
    <3>. QED
      BY <3>3, <3>4
  <2>. QED
    BY <2>1, <2>2
<1>2. CASE Feed("chunkwait", "chunkfeed", "chunk")
  BY <1>0, <1>2 DEF Feed, b, o
<1>3. CASE Fed("chunkfeed", "chunk")
  BY <1>0, <1>3 DEF Fed, b, o
<1>4. CASE LastChunk
  BY <1>0, <1>4, SizeAssumption DEF LastChunk, SizeAssumption, b, o
<1>5. CASE Feed("lastwait", "lastfeed", "closebufs")
  <2>1. CASE fAbort \/ ~fValid[o]
    BY <1>0, <1>5, <2>1 DEF Feed, b, o
  <2>2. CASE ~fAbort /\ fValid[o]
    BY <1>0, <1>5, <2>2 DEF Feed, b, o
  <2>. QED
    BY <2>1, <2>2
<1>6. CASE Fed("lastfeed", "closebufs")
  BY <1>0, <1>6 DEF Fed, b, o
<1>7. CASE Await("read0", "closebufs", "closebuf1")
  BY <1>7 DEF Await
<1>8. CASE Await("read1", "closebuf1", "60%wait")
  BY <1>8 DEF Await
<1>. QED
  BY <1>1, <1>2, <1>3, <1>4, <1>5, <1>6, <1>7, <1>8, Zenon DEF ScanPhysmem

LEMMA StepInv == IInv /\ [Next]_vars => IInv'
<1>. SUFFICES ASSUME IInv, [Next]_vars PROVE IInv'
  OBVIOUS
<1>1. CASE Abort
  BY <1>1 DEF Abort, IInv, TypeOK, IsSet, bufVars, MainWaits, UnitsWait, Buffers, NothingDropped, Wound,
     BufferExclusive, Feeding, AllThrough
<1>2. ASSUME NEW u \in Units, StartUnit(u) \/ DropUnit(u) \/ UnitStep(u)
      PROVE  IInv'
  BY <1>2, UnitKeeps
<1>3. CASE MainStep
  BY <1>3, StartKeeps, ScanPhysmemKeeps, IngestedKeeps, EndKeeps DEF MainStep
<1>4. CASE UNCHANGED vars
  BY <1>4 DEF vars, IInv, TypeOK, IsSet, bufVars, MainWaits, UnitsWait, Buffers, NothingDropped, Wound,
     BufferExclusive, Feeding, AllThrough
<1>. QED
  BY <1>1, <1>2, <1>3, <1>4 DEF Next, Terminated

(* Where the initialization and its units are fits together in every state. *)
THEOREM Inductive == Spec => []IInv
BY InitInv, StepInv, PTL DEF Spec

(* Plugins are never fed from a buffer that is being refilled, and what    *)
(* they are fed is the chunk whose turn it is.                             *)
THEOREM Buffered == Spec => []BufferExclusive
<1>1. IInv => BufferExclusive
  BY DEF IInv
<1>. QED
  BY Inductive, <1>1, PTL

(* The stages of the initialization do not overlap while the handle stays  *)
(* open, and who sees fInitFinish sees all of it done.                     *)
THEOREM Staged == Spec => []StagesInOrder
<1>1. IInv => StagesInOrder
  <2>. SUFFICES ASSUME IInv PROVE StagesInOrder
    OBVIOUS
  <2>. USE DEF IInv, MainWaits, UnitsWait, NothingDropped, Wound, IsSet, AllThrough, Units, Plain, Scanners, Bufs,
           Scanning, Closing, Waiting, Leaving, Ending
  <2>1. PastScan /\ ~fAbort => items = 0 /\ \A u \in Scanners \cup Bufs \cup {"ingest"} : IsSet(u)
    BY DEF PastScan
  <2>2. finalized /\ ~fAbort => AllThrough /\ pc # "chunkfeed"
    OBVIOUS
  <2>3. finalized /\ ~fAbort => InPlugin = {} /\ pc # "chunkfeed"
    BY <2>2 DEF InPlugin
  <2>. QED
    BY <2>1, <2>3 DEF StagesInOrder
<1>. QED
  BY Inductive, <1>1, PTL

(* The buffers, the FindEvil map, the events and the handle of the output  *)
(* outlive the units that use them, on every way out.                      *)
THEOREM Outlived == Spec => []OutlivesItsUnits
<1>1. IInv => OutlivesItsUnits
  BY DEF OutlivesItsUnits, IInv, MainWaits, UnitsWait, Wound, IsSet, Units, Plain, Scanners, Bufs,
     Scanning, Closing, Waiting, Leaving
<1>. QED
  BY Inductive, <1>1, PTL
=============================================================================
