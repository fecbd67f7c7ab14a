------------------------------- MODULE VmmCache -------------------------------
(***************************************************************************)
(* A page cache of src/vmm/vmm.c (29-360): regions of preallocated page    *)
(* objects, each on the "empty" list, on the "in use" list and reachable   *)
(* from a hash bucket, or reserved by the thread that fills it; with the   *)
(* reads and writes of physical memory that use it (1380-1530).            *)
(*                                                                         *)
(* Threads are scattered reads (VmmReadScatterPhysical), fetches           *)
(* (VmmCacheGet_FromDeviceOnMiss), writes (VmmWriteScatterPhysical) and    *)
(* the periodic refresh (VmmCacheClearPartial).  The content of a page is  *)
(* the number of writes it reflects.  The shared sections of a region's    *)
(* lock and the exclusive ones without a loop are single steps that need   *)
(* the region not to be locked by a clear, whose loop takes several.       *)
(***************************************************************************)
EXTENDS Integers, Sequences, FiniteSets

CONSTANTS
    Readers, Fetchers, Writers, Refreshers,   \* threads, by what they do
    Pages,          \* page addresses
    Buckets, Hash,  \* VMM_CACHE_GET_BUCKET, a function from Pages to Buckets
    Regions,        \* VMM_CACHE_REGIONS
    MaxMems,        \* cMaxMems, objects per region
    Objects,        \* the objects that memory allows to allocate
    MaxWrites,      \* bound of the model: writes to a page
    None

Threads == Readers \cup Fetchers \cup Writers \cup Refreshers
R       == 0..(Regions - 1)

ASSUME HashAssumption   == Hash \in [Pages -> Buckets]
ASSUME BoundAssumption  == {Regions, MaxMems, MaxWrites} \subseteq Nat /\ Regions > 0
ASSUME NoneAssumption   == None \notin Threads \cup Objects \cup Pages
ASSUME FiniteAssumption == IsFiniteSet(Objects) /\ IsFiniteSet(Threads)
ASSUME RolesAssumption  ==
    /\ Readers \cap (Fetchers \cup Writers \cup Refreshers) = {}
    /\ Fetchers \cap (Writers \cup Refreshers) = {} /\ Writers \cap Refreshers = {}

VARIABLES
    iR,                 \* the active region
    Lock,               \* thread in t->Lock, and in the lock of the region it clears
    ListHeadEmpty, ListHeadInUse, ListHeadTotal,    \* per region, last pushed first
    B,                  \* first object of each bucket
    FLink, BLink,       \* the links of a bucket's chain
    count,              \* reference count of each object, 0 if not allocated
    qwA, pb, iB,        \* h.qwA, the content and the bucket of each object
    mem,                \* content of each page of the device
    written,            \* of each page, the last write no read straddled
    pc, a, ob,          \* of each thread: where it is, its page and its object
    i, iRB,             \* loop counter and first region of its lookup
    ret,                \* where the decrement of a count returns to
    buf,                \* what it read from the device
    need                \* the write that its result must reflect

listVars   == <<ListHeadEmpty, ListHeadInUse, ListHeadTotal>>
chainVars  == <<B, FLink, BLink>>
deviceVars == <<mem, written>>
objectVars == <<qwA, pb, iB>>
callVars   == <<a, i, iRB, buf, need>>
vars == <<iR, Lock, listVars, chainVars, count, objectVars, deviceVars, pc, ob, ret, callVars>>

Init ==
    /\ iR = 0 /\ Lock = None
    /\ ListHeadEmpty = [r \in R |-> <<>>] /\ ListHeadInUse = [r \in R |-> <<>>]
    /\ ListHeadTotal = [r \in R |-> <<>>]
    /\ B = [r \in R |-> [b \in Buckets |-> None]]
    /\ FLink = [o \in Objects |-> None] /\ BLink = [o \in Objects |-> None]
    /\ count = [o \in Objects |-> 0] /\ qwA = [o \in Objects |-> None]
    /\ pb = [o \in Objects |-> <<None, 0>>] /\ iB = [o \in Objects |-> None]
    /\ mem = [p \in Pages |-> 0] /\ written = [p \in Pages |-> 0]
    /\ pc = [t \in Threads |-> "idle"] /\ a = [t \in Threads |-> None]
    /\ ob = [t \in Threads |-> None] /\ i = [t \in Threads |-> 0]
    /\ iRB = [t \in Threads |-> 0] /\ ret = [t \in Threads |-> "idle"]
    /\ buf = [t \in Threads |-> 0] /\ need = [t \in Threads |-> 0]

Members(list) == {list[n] : n \in 1..Len(list)}

(* The region an object belongs to: that of its total list.                *)
RegionOf(o) == CHOOSE r \in R : o \in Members(ListHeadTotal[r])

(* The region that is cleared next, and the one whose lock is held.        *)
Oldest    == (iR + Regions - 1) % Regions
Locked(r) == Lock # None /\ r = Oldest

(* The n-th object of the chain of a bucket, None past its end.            *)
Chain(r, b) ==
    LET at[n \in 0..Cardinality(Objects)] ==
            IF n = 0 THEN B[r][b] ELSE IF at[n - 1] = None THEN None ELSE FLink[at[n - 1]]
    IN at

(* The first object of page p in region r, in a set; empty if there is     *)
(* none.  The walk of a chain that is cyclic and lacks p does not end.     *)
Lookup(r, p) ==
    LET at   == Chain(r, Hash[p])
        hits == {n \in DOMAIN at : at[n] # None /\ qwA[at[n]] = p}
    IN {at[n] : n \in {m \in hits : \A k \in hits : m <= k}}
WalkEnds(r, p) == Lookup(r, p) # {} \/ Chain(r, Hash[p])[Cardinality(Objects)] = None

Goto(t, from, to) == pc[t] = from /\ pc' = [pc EXCEPT ![t] = to]

(* What a thread that is done with its call forgets.                       *)
Forget(t) ==
    /\ a' = [a EXCEPT ![t] = None] /\ i' = [i EXCEPT ![t] = 0] /\ iRB' = [iRB EXCEPT ![t] = 0]
    /\ buf' = [buf EXCEPT ![t] = 0] /\ need' = [need EXCEPT ![t] = 0]

(***************************************************************************)
(* Reference counts.                                                       *)
(***************************************************************************)
(* Ob_DECREF by a thread at "from", which goes on at "next"; the callback  *)
(* at count 1 is a step of its own in between.                             *)
Decref(t, from, o, next) ==
    /\ Goto(t, from, IF count[o] = 2 THEN "count1" ELSE next)
    /\ count' = [count EXCEPT ![o] = @ - 1]
    /\ ob' = [ob EXCEPT ![t] = IF count[o] = 2 THEN o ELSE None]
    /\ ret' = [ret EXCEPT ![t] = IF count[o] = 2 THEN next ELSE "idle"]
    /\ IF next = "idle" THEN Forget(t) ELSE UNCHANGED callVars

(* Mutant: the empty list gets no reference.                               *)
CallbackUncounted(t) ==
    LET r == RegionOf(ob[t]) IN
    /\ Goto(t, "count1", ret[t])
    /\ ListHeadEmpty' = [ListHeadEmpty EXCEPT ![r] = <<ob[t]>> \o @]
    /\ ob' = [ob EXCEPT ![t] = None] /\ ret' = [ret EXCEPT ![t] = "idle"]
    /\ UNCHANGED <<iR, Lock, ListHeadInUse, ListHeadTotal, chainVars, count, objectVars,
                   deviceVars, callVars>>

(* VmmCache_CallbackRefCount1: back to the empty list.                     *)
CallbackRefCount1(t) ==
    LET r == RegionOf(ob[t]) IN
    /\ Goto(t, "count1", ret[t])
    /\ count' = [count EXCEPT ![ob[t]] = @ + 1]
    /\ ListHeadEmpty' = [ListHeadEmpty EXCEPT ![r] = <<ob[t]>> \o @]
    /\ ob' = [ob EXCEPT ![t] = None] /\ ret' = [ret EXCEPT ![t] = "idle"]
    /\ UNCHANGED <<iR, Lock, ListHeadInUse, ListHeadTotal, chainVars, objectVars,
                   deviceVars, callVars>>

(***************************************************************************)
(* VmmCacheGetEx, region by region from the active one.                    *)
(***************************************************************************)
FirstRegion(t) == IF i[t] = 0 THEN iR ELSE iRB[t]
LookupAt(t)    == (FirstRegion(t) + i[t]) % Regions

(* Mutant: the object is returned without a reference.                     *)
GetHitUncounted(t) ==
    /\ Goto(t, "get", IF t \in Writers THEN "unlink" ELSE "got")
    /\ ~Locked(LookupAt(t))
    /\ \E o \in Lookup(LookupAt(t), a[t]) : ob' = [ob EXCEPT ![t] = o]
    /\ i' = [i EXCEPT ![t] = 0] /\ iRB' = [iRB EXCEPT ![t] = 0]
    /\ UNCHANGED <<iR, Lock, listVars, chainVars, count, objectVars, deviceVars, ret, a, buf, need>>

GetHit(t) ==
    /\ Goto(t, "get", IF t \in Writers THEN "unlink" ELSE "got")
    /\ ~Locked(LookupAt(t))
    /\ \E o \in Lookup(LookupAt(t), a[t]) :
        /\ count' = [count EXCEPT ![o] = @ + 1]
        /\ ob' = [ob EXCEPT ![t] = o]
    /\ i' = [i EXCEPT ![t] = 0] /\ iRB' = [iRB EXCEPT ![t] = 0]
    /\ UNCHANGED <<iR, Lock, listVars, chainVars, objectVars, deviceVars, ret, a, buf, need>>

Missing(t) ==
    LET r == LookupAt(t) IN
    ~Locked(r) /\ Lookup(r, a[t]) = {} /\ WalkEnds(r, a[t])

(* A thread read the page before write v and puts it into the cache yet.   *)
Straddled(p, v) ==
    \E u \in Threads : a[u] = p /\
        \/ /\ u \in Readers /\ buf[u] < v
           /\ pc[u] \in {"reserve", "check", "alloc", "clear", "clearing", "fill", "data", "put"}
        \/ u \in Fetchers /\ pc[u] = "put" /\ pb[ob[u]][2] < v

(* A write that was straddled when it left a region is not counted.         *)
GetNextRegion(t) ==
    /\ Goto(t, "get", "get")
    /\ Missing(t) /\ i[t] + 1 < Regions
    /\ i' = [i EXCEPT ![t] = @ + 1] /\ iRB' = [iRB EXCEPT ![t] = FirstRegion(t)]
    /\ need' = IF t \in Writers /\ Straddled(a[t], need[t])
               THEN [need EXCEPT ![t] = 0] ELSE need
    /\ UNCHANGED <<iR, Lock, listVars, chainVars, count, objectVars, deviceVars, ob, ret, a, buf>>

(* A scattered read may ask for the active region only.                    *)
GetMiss(t) ==
    /\ Goto(t, "get", IF t \in Readers THEN "read" ELSE "reserve")
    /\ t \in Readers \cup Fetchers
    /\ Missing(t) /\ (i[t] + 1 = Regions \/ t \in Readers)
    /\ i' = [i EXCEPT ![t] = 0] /\ iRB' = [iRB EXCEPT ![t] = 0]
    /\ UNCHANGED <<iR, Lock, listVars, chainVars, count, objectVars, deviceVars, ob, ret,
                   a, buf, need>>

(* Mutant: only the first object of the page is invalidated.               *)
GotReleaseOnce(t) ==
    /\ Decref(t, "got", ob[t], "idle")
    /\ written' = IF t \in Writers /\ ~Straddled(a[t], need[t])
                  THEN [written EXCEPT ![a[t]] = need[t]] ELSE written
    /\ UNCHANGED <<iR, Lock, listVars, chainVars, objectVars, mem>>

(* The object is copied or handed to the caller, then its reference goes.  *)
GotRelease(t) ==
    /\ Decref(t, "got", ob[t], IF t \in Writers THEN "get" ELSE "idle")
    /\ UNCHANGED <<iR, Lock, listVars, chainVars, objectVars, deviceVars>>

(***************************************************************************)
(* VmmCacheReserve and VmmCacheClearPartial.                               *)
(***************************************************************************)
(* Mutant: the object stays on the empty list.                             *)
ReservePeek(t) ==
    /\ Goto(t, "reserve", "fill")
    /\ ListHeadEmpty[iR] # <<>>
    /\ ob' = [ob EXCEPT ![t] = Head(ListHeadEmpty[iR])]
    /\ UNCHANGED <<iR, Lock, listVars, chainVars, count, objectVars, deviceVars, ret, callVars>>

ReservePop(t) ==
    LET o == Head(ListHeadEmpty[iR]) IN
    /\ Goto(t, "reserve", "fill")
    /\ ListHeadEmpty[iR] # <<>>
    /\ ListHeadEmpty' = [ListHeadEmpty EXCEPT ![iR] = Tail(@)]
    /\ ob' = [ob EXCEPT ![t] = o] /\ qwA' = [qwA EXCEPT ![o] = None]
    /\ UNCHANGED <<iR, Lock, ListHeadInUse, ListHeadTotal, chainVars, count, pb, iB,
                   deviceVars, ret, callVars>>

(* Nothing to pop: the depth of the total list decides what follows.       *)
ReserveEmpty(t) ==
    /\ Goto(t, "reserve", "check") /\ ListHeadEmpty[iR] = <<>>
    /\ UNCHANGED <<iR, Lock, listVars, chainVars, count, objectVars, deviceVars, ob, ret, callVars>>

ReserveCheck(t) ==
    /\ Goto(t, "check", IF Len(ListHeadTotal[iR]) < MaxMems THEN "alloc" ELSE "clear")
    /\ UNCHANGED <<iR, Lock, listVars, chainVars, count, objectVars, deviceVars, ob, ret, callVars>>

(* A new object for the region that is active now; the empty list is not   *)
(* concerned.                                                              *)
ReserveAlloc(t) ==
    /\ Goto(t, "alloc", "fill")
    /\ \E o \in Objects :
        /\ count[o] = 0 /\ count' = [count EXCEPT ![o] = 2]
        /\ ListHeadTotal' = [ListHeadTotal EXCEPT ![iR] = <<o>> \o @]
        /\ ob' = [ob EXCEPT ![t] = o]
    /\ UNCHANGED <<iR, Lock, ListHeadEmpty, ListHeadInUse, chainVars, objectVars,
                   deviceVars, ret, callVars>>

(* Out of memory: nothing is cached, or nothing fetched.                   *)
ReserveAllocFail(t) ==
    /\ Goto(t, "alloc", "idle") /\ Forget(t)
    /\ \A o \in Objects : count[o] # 0
    /\ UNCHANGED <<iR, Lock, listVars, chainVars, count, objectVars, deviceVars, ob, ret>>

ClearLock(t) ==
    /\ Goto(t, "clear", "clearing")
    /\ Lock = None /\ Lock' = t
    /\ UNCHANGED <<iR, listVars, chainVars, count, objectVars, deviceVars, ob, ret, callVars>>

ClearPop(t) ==
    /\ ListHeadInUse[Oldest] # <<>>
    /\ Decref(t, "clearing", Head(ListHeadInUse[Oldest]), "clearing")
    /\ ListHeadInUse' = [ListHeadInUse EXCEPT ![Oldest] = Tail(@)]
    /\ UNCHANGED <<iR, Lock, ListHeadEmpty, ListHeadTotal, chainVars, objectVars, deviceVars>>

(* Where a clear returns to: a reservation tries again, as many times as   *)
(* there are regions.                                                      *)
ClearReturn(t) ==
    IF t \in Refreshers \/ i[t] + 1 = Regions
    THEN Goto(t, "clearing", "idle") /\ Forget(t)
    ELSE /\ Goto(t, "clearing", "reserve") /\ i' = [i EXCEPT ![t] = @ + 1]
         /\ UNCHANGED <<a, iRB, buf, need>>

(* Mutant: the buckets keep their objects.                                 *)
ClearDoneKeep(t) ==
    /\ ListHeadInUse[Oldest] = <<>>
    /\ iR' = Oldest /\ Lock' = None
    /\ ClearReturn(t)
    /\ UNCHANGED <<listVars, chainVars, count, objectVars, deviceVars, ob, ret>>

ClearDone(t) ==
    /\ ListHeadInUse[Oldest] = <<>>
    /\ B' = [B EXCEPT ![Oldest] = [b \in Buckets |-> None]]
    /\ iR' = Oldest /\ Lock' = None
    /\ ClearReturn(t)
    /\ UNCHANGED <<listVars, FLink, BLink, count, objectVars, deviceVars, ob, ret>>

(***************************************************************************)
(* Filling a reserved object, and VmmCacheReserveReturn.                   *)
(***************************************************************************)
FillAddress(t) ==
    /\ Goto(t, "fill", "data")
    /\ qwA' = [qwA EXCEPT ![ob[t]] = a[t]]
    /\ UNCHANGED <<iR, Lock, listVars, chainVars, count, pb, iB, deviceVars, ob, ret, callVars>>

(* A scattered read copies what it read.                                   *)
FillCopy(t) ==
    /\ t \in Readers /\ Goto(t, "data", "put")
    /\ pb' = [pb EXCEPT ![ob[t]] = <<a[t], buf[t]>>]
    /\ UNCHANGED <<iR, Lock, listVars, chainVars, count, qwA, iB, deviceVars, ob, ret, callVars>>

(* A fetch reads the device into the object and keeps a reference, or      *)
(* fails and gives the object back.                                        *)
FillFetch(t) ==
    /\ t \in Fetchers /\ Goto(t, "data", "put")
    /\ pb' = [pb EXCEPT ![ob[t]] = <<a[t], mem[a[t]]>>]
    /\ count' = [count EXCEPT ![ob[t]] = @ + 1]
    /\ UNCHANGED <<iR, Lock, listVars, chainVars, qwA, iB, deviceVars, ob, ret, callVars>>

FillFail(t) ==
    /\ t \in Fetchers /\ Decref(t, "data", ob[t], "idle")
    /\ UNCHANGED <<iR, Lock, listVars, chainVars, objectVars, deviceVars>>

(* The object enters its region: list, bucket, chain.                      *)
ReserveReturn(t) ==
    LET o == ob[t]  r == RegionOf(o)  b == Hash[qwA[o]]  first == B[r][b] IN
    /\ pc[t] = "put" /\ ~Locked(r)
    /\ ListHeadInUse' = [ListHeadInUse EXCEPT ![r] = <<o>> \o @]
    /\ iB' = [iB EXCEPT ![o] = b]
    /\ B' = [B EXCEPT ![r][b] = o]
    /\ FLink' = [FLink EXCEPT ![o] = first]
    /\ BLink' = [q \in Objects |-> CASE q = o -> None [] q = first -> o [] OTHER -> BLink[q]]
    /\ IF t \in Fetchers
       THEN Goto(t, "put", "got") /\ UNCHANGED <<ob, callVars>>
       ELSE Goto(t, "put", "idle") /\ ob' = [ob EXCEPT ![t] = None] /\ Forget(t)
    /\ UNCHANGED <<iR, Lock, ListHeadEmpty, ListHeadTotal, count, qwA, pb, deviceVars, ret>>

(***************************************************************************)
(* Physical reads and writes, and the refresh.                             *)
(***************************************************************************)
BeginGet(t, p) ==
    /\ t \in Readers \cup Fetchers
    /\ Goto(t, "idle", "get")
    /\ a' = [a EXCEPT ![t] = p] /\ need' = [need EXCEPT ![t] = written[p]]
    /\ UNCHANGED <<iR, Lock, listVars, chainVars, count, objectVars, deviceVars, ob, ret,
                   i, iRB, buf>>

(* LcReadScatter, then the put into the cache unless the caller does not   *)
(* want one (NOCACHEPUT), the read failed or was to use the cache only.    *)
ReadDevice(t) ==
    /\ Goto(t, "read", "reserve")
    /\ buf' = [buf EXCEPT ![t] = mem[a[t]]]
    /\ UNCHANGED <<iR, Lock, listVars, chainVars, count, objectVars, deviceVars, ob, ret,
                   a, i, iRB, need>>

ReadNoPut(t) ==
    /\ Goto(t, "read", "idle") /\ Forget(t)
    /\ UNCHANGED <<iR, Lock, listVars, chainVars, count, objectVars, deviceVars, ob, ret>>

(* LcWriteScatter, after which the page is invalidated.                    *)
WriteDevice(t, p) ==
    /\ t \in Writers /\ mem[p] < MaxWrites
    /\ Goto(t, "idle", "get")
    /\ mem' = [mem EXCEPT ![p] = @ + 1]
    /\ a' = [a EXCEPT ![t] = p] /\ need' = [need EXCEPT ![t] = mem[p] + 1]
    /\ UNCHANGED <<iR, Lock, listVars, chainVars, count, objectVars, written, ob, ret,
                   i, iRB, buf>>

(* Mutant: the successor keeps its link to the object.                     *)
UnlinkForward(t) ==
    LET o == ob[t]  r == RegionOf(o)  next == FLink[o]  prev == BLink[o] IN
    /\ Goto(t, "unlink", "got") /\ ~Locked(r)
    /\ FLink' = [q \in Objects |-> IF q = prev THEN next ELSE FLink[q]]
    /\ B' = IF prev = None THEN [B EXCEPT ![r][iB[o]] = next] ELSE B
    /\ UNCHANGED <<iR, Lock, listVars, BLink, count, objectVars, deviceVars, ob, ret, callVars>>

(* VmmCacheInvalidate_2: the object that was found leaves its chain; it    *)
(* stays on the in use list, and its own links stay as they are.           *)
Unlink(t) ==
    LET o == ob[t]  r == RegionOf(o)  next == FLink[o]  prev == BLink[o] IN
    /\ Goto(t, "unlink", "got") /\ ~Locked(r)
    /\ BLink' = [q \in Objects |-> IF q = next THEN prev ELSE BLink[q]]
    /\ FLink' = [q \in Objects |-> IF q = prev THEN next ELSE FLink[q]]
    /\ B' = IF prev = None THEN [B EXCEPT ![r][iB[o]] = next] ELSE B
    /\ UNCHANGED <<iR, Lock, listVars, count, objectVars, deviceVars, ob, ret, callVars>>

(* No object of the page is left: the write is complete.                   *)
WriteDone(t) ==
    /\ t \in Writers
    /\ Goto(t, "get", "idle") /\ Forget(t)
    /\ Missing(t) /\ i[t] + 1 = Regions
    /\ written' = IF need[t] = 0 \/ Straddled(a[t], need[t])
                  THEN written ELSE [written EXCEPT ![a[t]] = need[t]]
    /\ UNCHANGED <<iR, Lock, listVars, chainVars, count, objectVars, mem, ob, ret>>

BeginRefresh(t) ==
    /\ t \in Refreshers /\ Goto(t, "idle", "clear")
    /\ UNCHANGED <<iR, Lock, listVars, chainVars, count, objectVars, deviceVars, ob, ret, callVars>>

(***************************************************************************)
(* The specification.                                                      *)
(***************************************************************************)
Begin(t) ==
    \/ BeginRefresh(t)
    \/ \E p \in Pages : BeginGet(t, p) \/ WriteDevice(t, p)

Get(t) == GetHit(t) \/ GetNextRegion(t) \/ GetMiss(t) \/ GotRelease(t) \/ CallbackRefCount1(t)

Reserve(t) ==
    \/ ReservePop(t) \/ ReserveEmpty(t) \/ ReserveCheck(t) \/ ReserveAlloc(t)
    \/ ReserveAllocFail(t) \/ ClearLock(t) \/ ClearPop(t) \/ ClearDone(t)

Fill(t) == FillAddress(t) \/ FillCopy(t) \/ FillFetch(t) \/ FillFail(t) \/ ReserveReturn(t)

Device(t) == ReadDevice(t) \/ ReadNoPut(t) \/ Unlink(t) \/ WriteDone(t)

Next == \E t \in Threads : Begin(t) \/ Get(t) \/ Reserve(t) \/ Fill(t) \/ Device(t)

Spec == Init /\ [][Next]_vars

(***************************************************************************)
(* Properties.                                                             *)
(***************************************************************************)
Occurrences(o, list) == Cardinality({n \in 1..Len(list) : list[n] = o})
Reserved(o) == {t \in Threads : ob[t] = o /\ pc[t] \in {"fill", "data", "put"}}
Caller(o)   == {t \in Threads : ob[t] = o /\ (pc[t] \in {"got", "unlink"}
                                             \/ (pc[t] = "put" /\ t \in Fetchers))}

(* Of an object that was allocated, exactly one holds: it is on the empty  *)
(* list, on the in use list, reserved by one thread, or between two of     *)
(* them, its count dropped to that of the total list by the thread that is *)
(* about to put it on the empty list.  Nobody fills an object that somebody *)
(* else can get from a list.                                               *)
OneOwner ==
    \A r \in R : \A o \in Members(ListHeadTotal[r]) :
        LET places == Occurrences(o, ListHeadEmpty[r]) + Occurrences(o, ListHeadInUse[r])
                        + Cardinality(Reserved(o))
            leaving == Cardinality({t \in Threads : pc[t] = "count1" /\ ob[t] = o})
            callers == Cardinality(Caller(o))
        IN places + leaving <= 1 /\ (callers = 0 => places + leaving = 1)

(* The count of an object is the number of references to it: by the total  *)
(* list, by the list or the thread it is owned by, by the callers of a     *)
(* get.  An object is thus neither freed nor recycled while it is used.    *)
CountIsReferences ==
    \A r \in R : \A o \in Members(ListHeadTotal[r]) :
        count[o] = 1 + Occurrences(o, ListHeadEmpty[r]) + Occurrences(o, ListHeadInUse[r])
                     + Cardinality(Reserved(o)) + Cardinality(Caller(o))

(* "Clear the oldest region of all InUse entries" (vmm.h 2548): what a     *)
(* lookup can reach in a region, outside of the clear of that region, is   *)
(* on its in use list, so that clearing the list clears the region.        *)
ReachableIsInUse ==
    \A r \in R : ~Locked(r) => \A p \in Pages :
        LET at == Chain(r, Hash[p]) IN
        \A n \in DOMAIN at : at[n] # None => at[n] \in Members(ListHeadInUse[r])

(* "remove from bucket list" (vmm.c 311): an object that a writer unlinked *)
(* can be reached no more, until it is reserved and filled again.          *)
InvalidatedIsGone ==
    \A t \in Writers : pc[t] = "got" =>
        LET at == Chain(RegionOf(ob[t]), iB[ob[t]]) IN
        \A n \in DOMAIN at : at[n] # ob[t]

(* A get returns the page it was asked for, completely read, whatever      *)
(* other threads evict and refill.                                         *)
GetsItsPage ==
    \A t \in Readers \cup Fetchers : pc[t] = "got" => pb[ob[t]][1] = a[t]

(* "Invalidate cache entries belonging to a specific physical address."    *)
(* (vmm.h 2562): a get that begins after a write to the page is complete   *)
(* returns a content that reflects the write, but for writes that happened *)
(* between the device read and the cache put of another read of the page:  *)
(* that read puts the old content back.                                    *)
FreshAfterWrite ==
    \A t \in Readers \cup Fetchers : pc[t] = "got" => pb[ob[t]][2] >= need[t]
=============================================================================
