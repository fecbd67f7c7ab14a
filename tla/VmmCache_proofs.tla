---------------------------- MODULE VmmCache_proofs ----------------------------
(***************************************************************************)
(* Proofs about the page caches: who owns a page object, how often it is   *)
(* referenced, what a lookup can reach, and what a get returns.            *)
(*                                                                         *)
(* The invariant goes from the outside in: the values of the variables,    *)
(* where each thread is and what it holds, the lock of a clear, the lists, *)
(* the counts of the objects, the chains of the buckets, and the contents. *)
(* A chain is a function that recurses over its positions; what is on it   *)
(* is proved by taking the least position where it fails.                  *)
(***************************************************************************)
EXTENDS VmmCache, FiniteSetTheorems, WellFoundedInduction, TLAPS

(* Writes and clears of a cache: either there are no writes, or there is   *)
(* memory for fewer objects than a region may have, so that nothing is     *)
(* ever evicted.  With both, see observation 4 of the README.              *)
Quiet == Refreshers = {} /\ Cardinality(Objects) < MaxMems
Apart == Writers = {} \/ Quiet

Empty(r) == Members(ListHeadEmpty[r])
InUse(r) == Members(ListHeadInUse[r])
Total(r) == Members(ListHeadTotal[r])

Distinct(list) == \A m, n \in 1..Len(list) : list[m] = list[n] => m = n
Allocated(o)   == \E r \in R : o \in Total(r)

Pc == {"idle", "get", "got", "read", "reserve", "check", "alloc", "clear", "clearing", "fill",
       "data", "put", "unlink", "count1"}

(* Where a thread has an object, where it owns it, where it was given it   *)
(* by a get, where it clears a region.                                     *)
Holding(t)  == pc[t] \in {"got", "unlink", "count1", "fill", "data", "put"}
Owning(t)   == pc[t] \in {"count1", "fill", "data", "put"}
Calling(t)  == pc[t] \in {"got", "unlink"} \/ (pc[t] = "put" /\ t \in Fetchers)
Clearing(t) == pc[t] = "clearing" \/ (pc[t] = "count1" /\ ret[t] = "clearing")

StoreTypes ==
    /\ iR \in R /\ Lock \in Threads \cup {None}
    /\ ListHeadEmpty \in [R -> Seq(Objects)] /\ ListHeadInUse \in [R -> Seq(Objects)]
    /\ ListHeadTotal \in [R -> Seq(Objects)]
    /\ B \in [R -> [Buckets -> Objects \cup {None}]]
    /\ FLink \in [Objects -> Objects \cup {None}] /\ BLink \in [Objects -> Objects \cup {None}]
    /\ count \in [Objects -> Nat] /\ qwA \in [Objects -> Pages \cup {None}]
    /\ pb \in [Objects -> (Pages \cup {None}) \X Nat] /\ iB \in [Objects -> Buckets \cup {None}]
    /\ mem \in [Pages -> Nat] /\ written \in [Pages -> Nat]

ThreadTypes ==
    /\ pc \in [Threads -> Pc] /\ a \in [Threads -> Pages \cup {None}]
    /\ ob \in [Threads -> Objects \cup {None}] /\ i \in [Threads -> Nat]
    /\ iRB \in [Threads -> R] /\ ret \in [Threads -> {"idle", "clearing", "get"}]
    /\ buf \in [Threads -> Nat] /\ need \in [Threads -> Nat]

TypeOK == StoreTypes /\ ThreadTypes

(* What a thread holds and does says where it is.                          *)
HeldBy(t) ==
    /\ ob[t] # None <=> Holding(t)
    /\ pc[t] # "idle" /\ t \notin Refreshers =>
         a[t] \in Pages \/ (pc[t] = "count1" /\ ret[t] = "idle")
    /\ t \in Refreshers => pc[t] \in {"idle", "clear", "clearing", "count1"}
    /\ t \in Writers    => pc[t] \in {"idle", "get", "unlink", "got", "count1"}
    /\ t \in Readers    => pc[t] # "unlink"
    /\ t \in Fetchers   => pc[t] \notin {"unlink", "read"}
    /\ pc[t] = "count1" => ret[t] \in IF t \in Writers THEN {"get"}
                                      ELSE IF t \in Refreshers THEN {"clearing"}
                                      ELSE {"idle", "clearing"}
Held == \A t \in Threads : HeldBy(t)

(* One region is cleared at a time.                                        *)
Locking == \A t \in Threads : Lock = t <=> Clearing(t)

(* A cache that is never full is never cleared.                            *)
Calm == Quiet => \A t \in Threads : pc[t] # "clear" /\ ~Clearing(t)

(* Lists hold an object once, and its region holds it if it is anywhere.   *)
Lists ==
    /\ \A r \in R :
        /\ Distinct(ListHeadEmpty[r]) /\ Distinct(ListHeadInUse[r]) /\ Distinct(ListHeadTotal[r])
        /\ Empty(r) \subseteq Total(r) /\ InUse(r) \subseteq Total(r)
    /\ \A r, q \in R : r # q => Total(r) \cap Total(q) = {}

Bit(b) == IF b THEN 1 ELSE 0
On(list, o)  == \E r \in R : o \in Members(list[r])
Owner(o)     == {t \in Threads : ob[t] = o /\ Owning(t)}

(* Who owns an object owns it alone: it is on neither list, and nobody but *)
(* the owner uses it.  What is on the empty list is not used.              *)
Owned(o) ==
    /\ Owner(o) # {} => ~On(ListHeadEmpty, o) /\ ~On(ListHeadInUse, o)
    /\ \A t, u \in Threads : t \in Owner(o) /\ u \in Owner(o) \cup Caller(o) => u = t
    /\ On(ListHeadEmpty, o) => Caller(o) = {} /\ ~On(ListHeadInUse, o)

Counted(o) ==
    /\ Allocated(o) =>
        /\ count[o] = 1 + Bit(On(ListHeadEmpty, o)) + Bit(On(ListHeadInUse, o))
                        + Bit(Reserved(o) # {}) + Cardinality(Caller(o))
        /\ Caller(o) = {} => On(ListHeadEmpty, o) \/ On(ListHeadInUse, o) \/ Owner(o) # {}
    /\ ~Allocated(o) => count[o] = 0 /\ \A t \in Threads : ob[t] # o

Counts == \A o \in Objects : Owned(o) /\ Counted(o)

(* Outside of the clear of a region its chains stay in its in use list.    *)
Chained ==
    \A r \in R : ~Locked(r) =>
        /\ \A b \in Buckets : B[r][b] \in InUse(r) \cup {None}
        /\ \A o \in InUse(r) : FLink[o] \in InUse(r) \cup {None}

(* Without clears also backwards, and what is unlinked is in use.          *)
ChainedBack == Quiet =>
    /\ \A r \in R : \A o \in InUse(r) : BLink[o] \in InUse(r) \cup {None}
    /\ \A t \in Threads : pc[t] \in {"unlink", "got"} => On(ListHeadInUse, ob[t])

(* An object holds the page that it is filed under, once it is filled.     *)
Contents ==
    /\ \A r \in R : \A o \in InUse(r) :
        qwA[o] \in Pages /\ pb[o][1] = qwA[o] /\ iB[o] = Hash[qwA[o]]
    /\ \A t \in Threads :
        /\ pc[t] \in {"data", "put"} => qwA[ob[t]] = a[t]
        /\ pc[t] \in {"put", "got", "unlink"} => pb[ob[t]][1] = a[t]

IInv == TypeOK /\ Held /\ Locking /\ Calm /\ Lists /\ Counts /\ Chained
          /\ ChainedBack /\ Contents
(***************************************************************************)
(* Constants, lists, chains.                                               *)
(***************************************************************************)
LEMMA ConstantTypes ==
  /\ Hash \in [Pages -> Buckets] /\ Regions \in Nat \ {0} /\ MaxMems \in Nat /\ MaxWrites \in Nat
  /\ None \notin Threads /\ None \notin Objects /\ None \notin Pages
  /\ IsFiniteSet(Objects) /\ IsFiniteSet(Threads) /\ Cardinality(Objects) \in Nat
  BY HashAssumption, BoundAssumption, NoneAssumption, FiniteAssumption, FS_CardinalityType
  DEF HashAssumption, BoundAssumption, NoneAssumption, FiniteAssumption

LEMMA Roles ==
  \A t \in Threads :
    /\ t \notin Readers /\ t \notin Fetchers /\ t \notin Writers => t \in Refreshers
    /\ t \in Readers => t \notin Fetchers /\ t \notin Writers /\ t \notin Refreshers
    /\ t \in Fetchers => t \notin Writers /\ t \notin Refreshers
    /\ t \in Writers => t \notin Refreshers
  BY RolesAssumption DEF RolesAssumption, Threads

LEMMA Regional ==
  /\ 0 \in R /\ R \subseteq Nat
  /\ TypeOK => /\ iR \in R /\ Oldest \in R
               /\ \A t \in Threads : FirstRegion(t) \in R /\ LookupAt(t) \in R
<1>1. \A n \in Nat : n % Regions \in R
  BY ConstantTypes DEF R
<1>2. 0 \in R /\ R \subseteq Nat
  BY ConstantTypes DEF R
<1>3. ASSUME TypeOK
      PROVE  /\ iR \in R /\ Oldest \in R
             /\ \A t \in Threads : FirstRegion(t) \in R /\ LookupAt(t) \in R
  <2>1. iR \in R /\ iR \in Nat /\ iR + Regions - 1 \in Nat
    BY <1>2, <1>3, ConstantTypes DEF TypeOK, StoreTypes, ThreadTypes
  <2>2. ASSUME NEW t \in Threads PROVE FirstRegion(t) \in R /\ LookupAt(t) \in R
    <3>1. FirstRegion(t) \in R /\ FirstRegion(t) \in Nat /\ i[t] \in Nat
      BY <1>2, <1>3, <2>1 DEF TypeOK, StoreTypes, ThreadTypes, FirstRegion
    <3>. QED
      BY <1>1, <3>1 DEF LookupAt
  <2>. QED
    BY <1>1, <2>1, <2>2 DEF Oldest
<1>. QED
  BY <1>2, <1>3

LEMMA MembersPush ==
  ASSUME NEW S, NEW list \in Seq(S), NEW x \in S
  PROVE  /\ <<x>> \o list \in Seq(S) /\ Members(<<x>> \o list) = {x} \cup Members(list)
         /\ Distinct(list) /\ x \notin Members(list) => Distinct(<<x>> \o list)
<1>. DEFINE s == <<x>> \o list
<1>1. /\ s \in Seq(S) /\ Len(s) = Len(list) + 1 /\ Len(list) \in Nat
      /\ s[1] = x /\ \A n \in 2..Len(s) : s[n] = list[n - 1]
  OBVIOUS
<1>2. \A n \in 1..Len(list) : s[n + 1] = list[n]
  BY <1>1
<1>. HIDE DEF s
<1>3. Members(s) = {x} \cup Members(list)
  <2>1. ASSUME NEW y \in Members(s) PROVE y \in {x} \cup Members(list)
    <3>1. PICK n \in 1..Len(s) : y = s[n]
      BY <2>1 DEF Members
    <3>2. CASE n = 1
      BY <1>1, <3>1, <3>2
    <3>3. CASE n # 1
      <4>1. n - 1 \in 1..Len(list) /\ y = list[n - 1]
        BY <1>1, <3>1, <3>3
      <4>. QED
        BY <4>1 DEF Members
    <3>. QED
      BY <3>2, <3>3
  <2>2. x \in Members(s)
    <3>1. 1 \in 1..Len(s)
      BY <1>1
    <3>. QED
      BY <1>1, <3>1 DEF Members
  <2>3. ASSUME NEW y \in Members(list) PROVE y \in Members(s)
    <3>1. PICK n \in 1..Len(list) : y = list[n]
      BY <2>3 DEF Members
    <3>2. n + 1 \in 1..Len(s) /\ s[n + 1] = y
      BY <1>1, <1>2, <3>1
    <3>. QED
      BY <3>2 DEF Members
  <2>. QED
    BY <2>1, <2>2, <2>3
<1>4. ASSUME Distinct(list), x \notin Members(list) PROVE Distinct(s)
  <2>. SUFFICES ASSUME NEW m \in 1..Len(s), NEW n \in 1..Len(s), s[m] = s[n] PROVE m = n
    BY DEF Distinct
  <2>1. \A k \in 2..Len(s) : s[k] # x /\ k - 1 \in 1..Len(list) /\ s[k] = list[k - 1]
    BY <1>1, <1>4 DEF Members
  <2>2. CASE m = 1 \/ n = 1
    BY <1>1, <2>1, <2>2
  <2>3. CASE m # 1 /\ n # 1
    <3>1. m \in 2..Len(s) /\ n \in 2..Len(s)
      BY <1>1, <2>3
    <3>2. list[m - 1] = list[n - 1] /\ m - 1 \in 1..Len(list) /\ n - 1 \in 1..Len(list)
      BY <2>1, <3>1
    <3>3. m - 1 = n - 1
      BY <1>4, <3>2 DEF Distinct
    <3>. QED
      BY <3>1, <3>3
  <2>. QED
    BY <2>2, <2>3
<1>. QED
  BY <1>1, <1>3, <1>4 DEF s

LEMMA MembersTail ==
  ASSUME NEW S, NEW list \in Seq(S), list # <<>>, Distinct(list)
  PROVE  /\ Tail(list) \in Seq(S) /\ Distinct(Tail(list))
         /\ Head(list) \in S /\ Head(list) \in Members(list)
         /\ Members(Tail(list)) = Members(list) \ {Head(list)}
<1>. DEFINE s == Tail(list)  x == Head(list)
<1>1. /\ s \in Seq(S) /\ Len(list) \in Nat \ {0} /\ Len(s) = Len(list) - 1
      /\ \A n \in 1..Len(s) : s[n] = list[n + 1]
      /\ x = list[1] /\ x \in S
  OBVIOUS
<1>. HIDE DEF s, x
<1>2. x \in Members(list)
  <2>1. 1 \in 1..Len(list)
    BY <1>1
  <2>. QED
    BY <1>1, <2>1 DEF Members
<1>3. ASSUME NEW m \in 1..Len(s), NEW n \in 1..Len(s), s[m] = s[n] PROVE m = n
  <2>1. m + 1 \in 1..Len(list) /\ n + 1 \in 1..Len(list) /\ list[m + 1] = list[n + 1]
    BY <1>1, <1>3
  <2>2. m + 1 = n + 1
    BY <2>1 DEF Distinct
  <2>. QED
    BY <1>1, <2>2
<1>4. ASSUME NEW y \in Members(s) PROVE y \in Members(list) /\ y # x
  <2>1. PICK n \in 1..Len(s) : y = s[n]
    BY <1>4 DEF Members
  <2>2. n + 1 \in 1..Len(list) /\ y = list[n + 1] /\ 1 \in 1..Len(list) /\ n + 1 # 1
    BY <1>1, <2>1
  <2>3. y # list[1]
    BY <2>2 DEF Distinct
  <2>. QED
    BY <1>1, <2>2, <2>3 DEF Members
<1>5. ASSUME NEW y \in Members(list), y # x PROVE y \in Members(s)
  <2>1. PICK n \in 1..Len(list) : y = list[n]
    BY <1>5 DEF Members
  <2>2. n - 1 \in 1..Len(s) /\ s[n - 1] = y
    BY <1>1, <1>5, <2>1
  <2>. QED
    BY <2>2 DEF Members
<1>6. Members(s) = Members(list) \ {x}
  BY <1>4, <1>5
<1>. QED
  BY <1>1, <1>2, <1>3, <1>6 DEF Distinct, s, x

LEMMA ListMembers ==
  ASSUME TypeOK, NEW r \in R
  PROVE  /\ ListHeadEmpty[r] \in Seq(Objects) /\ ListHeadInUse[r] \in Seq(Objects)
         /\ ListHeadTotal[r] \in Seq(Objects)
         /\ Empty(r) \subseteq Objects /\ InUse(r) \subseteq Objects /\ Total(r) \subseteq Objects
<1>1. ASSUME NEW list \in Seq(Objects) PROVE Members(list) \subseteq Objects
  BY DEF Members
<1>2. /\ ListHeadEmpty[r] \in Seq(Objects) /\ ListHeadInUse[r] \in Seq(Objects)
      /\ ListHeadTotal[r] \in Seq(Objects)
  BY DEF TypeOK, StoreTypes, ThreadTypes
<1>. QED
  BY <1>1, <1>2 DEF Empty, InUse, Total

LEMMA OccurrencesIs ==
  ASSUME NEW S, NEW list \in Seq(S), Distinct(list), NEW x
  PROVE  Occurrences(x, list) = Bit(x \in Members(list))
<1>. DEFINE I == {n \in 1..Len(list) : list[n] = x}
<1>1. CASE x \notin Members(list)
  <2>1. I = {}
    BY <1>1 DEF Members
  <2>. QED
    BY <1>1, <2>1, FS_EmptySet DEF Occurrences, Bit
<1>2. CASE x \in Members(list)
  <2>1. PICK n \in 1..Len(list) : list[n] = x
    BY <1>2 DEF Members
  <2>2. I = {n}
    BY <2>1 DEF Distinct
  <2>. QED
    BY <1>2, <2>2, FS_Singleton DEF Occurrences, Bit
<1>. QED
  BY <1>1, <1>2

LEMMA MembersFew ==
  ASSUME NEW list \in Seq(Objects), Distinct(list)
  PROVE  Len(list) \in Nat /\ Len(list) <= Cardinality(Objects)
<1>1. Len(list) \in Nat /\ list \in [1..Len(list) -> Objects]
  OBVIOUS
<1>2. list \in Injection(1..Len(list), Objects)
  BY <1>1 DEF Distinct, Injection, IsInjective
<1>3. Cardinality(1..Len(list)) <= Cardinality(Objects)
  BY <1>2, ConstantTypes, FS_Injection
<1>4. Cardinality(1..Len(list)) = Len(list)
  BY <1>1, FS_Interval
<1>. QED
  BY <1>1, <1>3, <1>4

LEMMA RegionIs ==
  ASSUME Lists, NEW r \in R, NEW o \in Total(r)
  PROVE  RegionOf(o) = r
<1>1. \A q \in R : o \in Members(ListHeadTotal[q]) => q = r
  BY DEF Lists, Total
<1>. QED
  BY <1>1 DEF RegionOf, Total

LEMMA NatMin ==
  ASSUME NEW T, T \subseteq Nat, T # {}
  PROVE  \E n \in T : \A m \in T : n <= m
<1>. DEFINE Less == {ss \in Nat \X Nat : ss[1] < ss[2]}
<1>1. Less = OpToRel(<, Nat)
  BY DEF OpToRel
<1>2. IsWellFoundedOn(Less, Nat)
  BY <1>1, NatLessThanWellFounded, Zenon
<1>3. PICK n \in T : \A m \in T : <<m, n>> \notin Less
  <2>. HIDE DEF Less
  <2>. QED
    BY <1>2, WFMin
<1>4. \A m \in T : ~(m < n)
  BY <1>3
<1>. QED
  BY <1>4

(* The walk of a chain: each object is the link of the one before.  The    *)
(* recursion has a solution, as there is no shortest walk that cannot be   *)
(* continued.                                                              *)
Walk(at, k, r, b) ==
    at = [n \in 0..k |-> IF n = 0 THEN B[r][b]
                         ELSE IF at[n - 1] = None THEN None ELSE FLink[at[n - 1]]]

LEMMA WalkExists ==
  ASSUME NEW r, NEW b, NEW k \in Nat
  PROVE  \E at : Walk(at, k, r, b)
<1>. DEFINE Stuck == {m \in Nat : ~ \E at : Walk(at, m, r, b)}
<1>1. SUFFICES ASSUME Stuck # {} PROVE FALSE
  OBVIOUS
<1>2. PICK m \in Stuck : \A j \in Stuck : m <= j
  BY <1>1, NatMin
<1>3. CASE m = 0
  <2>. DEFINE at == [n \in 0..0 |-> B[r][b]]
  <2>1. Walk(at, 0, r, b)
    BY DEF Walk
  <2>. QED
    BY <1>3, <2>1
<1>4. CASE m # 0
  <2>1. m - 1 \in Nat /\ m - 1 \notin Stuck
    BY <1>2, <1>4
  <2>2. PICK f : Walk(f, m - 1, r, b)
    BY <2>1
  <2>. DEFINE last == IF f[m - 1] = None THEN None ELSE FLink[f[m - 1]]
              at   == [n \in 0..m |-> IF n = m THEN last ELSE f[n]]
  <2>3. \A n \in 0..(m - 1) : f[n] = IF n = 0 THEN B[r][b]
                                ELSE IF f[n - 1] = None THEN None ELSE FLink[f[n - 1]]
    BY <2>2 DEF Walk
  <2>4. \A n \in 0..m : at[n] = IF n = 0 THEN B[r][b]
                                ELSE IF at[n - 1] = None THEN None ELSE FLink[at[n - 1]]
    <3>. SUFFICES ASSUME NEW n \in 0..m
                  PROVE  at[n] = IF n = 0 THEN B[r][b]
                                 ELSE IF at[n - 1] = None THEN None ELSE FLink[at[n - 1]]
      OBVIOUS
    <3>1. CASE n = m
      <4>1. at[n] = last /\ n # 0 /\ n - 1 \in 0..m /\ n - 1 # m /\ at[n - 1] = f[m - 1]
        BY <1>4, <3>1
      <4>. QED
        BY <3>1, <4>1
    <3>2. CASE n # m
      <4>1. n \in 0..(m - 1) /\ at[n] = f[n]
        BY <3>2
      <4>2. n # 0 => n - 1 \in 0..m /\ n - 1 # m /\ at[n - 1] = f[n - 1]
        BY <4>1
      <4>. HIDE DEF at
      <4>. QED
        BY <2>3, <4>1, <4>2
    <3>. QED
      BY <3>1, <3>2
  <2>5. Walk(at, m, r, b)
    <3>. DEFINE g == [n \in 0..m |-> IF n = 0 THEN B[r][b]
                                ELSE IF at[n - 1] = None THEN None ELSE FLink[at[n - 1]]]
    <3>1. DOMAIN at = 0..m /\ DOMAIN g = 0..m /\ \A n \in 0..m : at[n] = g[n]
      BY <2>4
    <3>2. at = [n \in 0..m |-> at[n]]
      OBVIOUS
    <3>3. g = [n \in 0..m |-> g[n]]
      OBVIOUS
    <3>4. at = g
      <4>. HIDE DEF at, g
      <4>. QED
        BY <3>1, <3>2, <3>3
    <3>. QED
      BY <3>4 DEF Walk
  <2>. QED
    BY <2>5
<1>. QED
  BY <1>3, <1>4

LEMMA ChainIs ==
  ASSUME NEW r, NEW b
  PROVE  /\ DOMAIN Chain(r, b) = 0..Cardinality(Objects) /\ Chain(r, b)[0] = B[r][b]
         /\ \A n \in 1..Cardinality(Objects) :
              Chain(r, b)[n] = IF Chain(r, b)[n - 1] = None THEN None
                               ELSE FLink[Chain(r, b)[n - 1]]
<1>. DEFINE k == Cardinality(Objects)
            at == CHOOSE f : Walk(f, k, r, b)
<1>1. k \in Nat
  BY ConstantTypes
<1>2. Walk(at, k, r, b)
  <2>1. \E f : Walk(f, k, r, b)
    BY <1>1, WalkExists
  <2>. QED
    BY <2>1, Zenon
<1>3. Chain(r, b) = at
  BY Zenon DEF Chain, Walk
<1>. HIDE DEF at
<1>4. /\ DOMAIN at = 0..k /\ at[0] = B[r][b]
      /\ \A n \in 1..k : at[n] = IF at[n - 1] = None THEN None ELSE FLink[at[n - 1]]
  BY <1>1, <1>2 DEF Walk
<1>. QED
  BY <1>3, <1>4

(* A walk does not leave a set of objects that is closed under the links.  *)
LEMMA ChainWithin ==
  ASSUME NEW r, NEW b, NEW S, B[r][b] \in S \cup {None},
         \A o \in S : FLink[o] \in S \cup {None}
  PROVE  \A n \in 0..Cardinality(Objects) : Chain(r, b)[n] \in S \cup {None}
<1>. DEFINE k == Cardinality(Objects)
            Out == {n \in 0..k : Chain(r, b)[n] \notin S \cup {None}}
<1>1. SUFFICES ASSUME Out # {} PROVE FALSE
  OBVIOUS
<1>2. k \in Nat
  BY ConstantTypes
<1>3. PICK n \in Out : \A m \in Out : n <= m
  <2>1. Out \subseteq Nat
    BY <1>2
  <2>. HIDE DEF Out
  <2>. QED
    BY <1>1, <2>1, NatMin
<1>4. n # 0
  BY <1>3, ChainIs
<1>5. n \in 1..k /\ n - 1 \in 0..k /\ n - 1 \notin Out
  BY <1>2, <1>3, <1>4
<1>6. Chain(r, b)[n - 1] \in S \cup {None}
  BY <1>5
<1>7. Chain(r, b)[n] \in S \cup {None}
  BY <1>5, <1>6, ChainIs
<1>. QED
  BY <1>3, <1>7

LEMMA Found ==
  ASSUME Chained, TypeOK, NEW r \in R, ~Locked(r), NEW p \in Pages, NEW o \in Lookup(r, p)
  PROVE  o \in InUse(r) /\ o \in Objects /\ qwA[o] = p
<1>1. Hash[p] \in Buckets
  BY ConstantTypes
<1>2. \A n \in 0..Cardinality(Objects) : Chain(r, Hash[p])[n] \in InUse(r) \cup {None}
  BY <1>1, ChainWithin DEF Chained
<1>3. PICK n \in DOMAIN Chain(r, Hash[p]) :
        Chain(r, Hash[p])[n] = o /\ o # None /\ qwA[o] = p
  BY DEF Lookup
<1>4. o \in InUse(r)
  <2>1. n \in 0..Cardinality(Objects)
    BY ChainIs
  <2>2. Chain(r, Hash[p])[n] \in InUse(r) \cup {None}
    BY <1>2, <2>1
  <2>. QED
    BY <1>3, <2>2
<1>5. InUse(r) \subseteq Objects
  BY ListMembers
<1>. QED
  BY <1>3, <1>4, <1>5

(***************************************************************************)
(* Every step is by one thread and concerns one object.                    *)
(***************************************************************************)
OneStep(t, o) ==
    /\ \A u \in Threads \ {t} : ob'[u] = ob[u] /\ pc'[u] = pc[u]
    /\ ob[t] \in {o, None} /\ ob'[t] \in {o, None}
    /\ \A r \in R :
        /\ Empty(r)' \ {o} = Empty(r) \ {o} /\ InUse(r)' \ {o} = InUse(r) \ {o}
        /\ Total(r)' \ {o} = Total(r) \ {o}
    /\ \A q \in Objects \ {o} : count'[q] = count[q]

LEMMA OthersKeep ==
  ASSUME NEW t \in Threads, NEW o \in Objects, OneStep(t, o), NEW q \in Objects \ {o}
  PROVE  /\ Owner(q)' = Owner(q) /\ Caller(q)' = Caller(q) /\ Reserved(q)' = Reserved(q)
         /\ (On(ListHeadEmpty, q)' <=> On(ListHeadEmpty, q))
         /\ (On(ListHeadInUse, q)' <=> On(ListHeadInUse, q))
         /\ (Allocated(q)' <=> Allocated(q)) /\ count'[q] = count[q]
         /\ \A u \in Threads : ob'[u] = q <=> ob[u] = q
<1>1. \A u \in Threads : (ob'[u] = q <=> ob[u] = q) /\ (ob[u] = q => pc'[u] = pc[u])
  BY ConstantTypes DEF OneStep
<1>2. Owner(q)' = Owner(q)
  BY <1>1 DEF Owner, Owning
<1>3. Caller(q)' = Caller(q)
  BY <1>1 DEF Caller
<1>4. Reserved(q)' = Reserved(q)
  BY <1>1 DEF Reserved
<1>5. /\ On(ListHeadEmpty, q)' <=> On(ListHeadEmpty, q)
      /\ On(ListHeadInUse, q)' <=> On(ListHeadInUse, q)
      /\ Allocated(q)' <=> Allocated(q)
  BY DEF OneStep, On, Allocated, Empty, InUse, Total
<1>. QED
  BY <1>1, <1>2, <1>3, <1>4, <1>5 DEF OneStep

LEMMA OthersCount ==
  ASSUME Counts, NEW t \in Threads, NEW o \in Objects, OneStep(t, o), Owned(o)', Counted(o)'
  PROVE  Counts'
<1>. SUFFICES ASSUME NEW q \in Objects, q # o PROVE Owned(q)' /\ Counted(q)'
  BY DEF Counts
<1>1. Owned(q) /\ Counted(q)
  BY DEF Counts
<1>2. /\ Owner(q)' = Owner(q) /\ Caller(q)' = Caller(q) /\ Reserved(q)' = Reserved(q)
      /\ (On(ListHeadEmpty, q)' <=> On(ListHeadEmpty, q))
      /\ (On(ListHeadInUse, q)' <=> On(ListHeadInUse, q))
      /\ (Allocated(q)' <=> Allocated(q)) /\ count'[q] = count[q]
      /\ \A u \in Threads : ob'[u] = q <=> ob[u] = q
  BY OthersKeep
<1>3. Owned(q)'
  BY <1>1, <1>2 DEF Owned
<1>4. Counted(q)'
  <2>1. /\ Bit(On(ListHeadEmpty, q))' = Bit(On(ListHeadEmpty, q))
        /\ Bit(On(ListHeadInUse, q))' = Bit(On(ListHeadInUse, q))
        /\ Bit(Reserved(q) # {})' = Bit(Reserved(q) # {})
        /\ Cardinality(Caller(q))' = Cardinality(Caller(q))
    BY <1>2 DEF Bit
  <2>2. Allocated(q)' =>
          count'[q] = 1 + Bit(On(ListHeadEmpty, q))' + Bit(On(ListHeadInUse, q))'
                        + Bit(Reserved(q) # {})' + Cardinality(Caller(q))'
    BY <1>1, <1>2, <2>1 DEF Counted
  <2>3. Allocated(q)' /\ Caller(q)' = {} =>
          On(ListHeadEmpty, q)' \/ On(ListHeadInUse, q)' \/ Owner(q)' # {}
    BY <1>1, <1>2 DEF Counted
  <2>4. ~Allocated(q)' => count'[q] = 0 /\ \A u \in Threads : ob'[u] # q
    BY <1>1, <1>2 DEF Counted
  <2>. QED
    BY <2>2, <2>3, <2>4 DEF Counted
<1>. QED
  BY <1>3, <1>4

(* What the thread of the step does to the sets of threads of the object.  *)
LEMMA ThreadsOf ==
  ASSUME NEW t \in Threads, NEW o \in Objects, OneStep(t, o)
  PROVE  /\ Owner(o)' = (Owner(o) \ {t}) \cup {u \in {t} : ob'[t] = o /\ Owning(t)'}
         /\ Caller(o)' = (Caller(o) \ {t}) \cup {u \in {t} : ob'[t] = o /\ Calling(t)'}
         /\ (Reserved(o)' # {} <=> \/ Reserved(o) \ {t} # {}
                                   \/ ob'[t] = o /\ pc'[t] \in {"fill", "data", "put"})
         /\ t \in Owner(o) <=> ob[t] = o /\ Owning(t)
         /\ t \in Caller(o) <=> ob[t] = o /\ Calling(t)
         /\ Reserved(o) \subseteq Owner(o) /\ Caller(o) \subseteq Threads
         /\ \A u \in Owner(o) : pc[u] # "count1" => u \in Reserved(o)
<1>. USE DEF OneStep
<1>1. Owner(o)' = (Owner(o) \ {t}) \cup {u \in {t} : ob'[t] = o /\ Owning(t)'}
  BY DEF Owner, Owning
<1>2. Caller(o)' = (Caller(o) \ {t}) \cup {u \in {t} : ob'[t] = o /\ Calling(t)'}
  BY DEF Caller, Calling
<1>3. Reserved(o)' # {} <=> \/ Reserved(o) \ {t} # {}
                            \/ ob'[t] = o /\ pc'[t] \in {"fill", "data", "put"}
  BY DEF Reserved
<1>4. /\ t \in Owner(o) <=> ob[t] = o /\ Owning(t)
      /\ t \in Caller(o) <=> ob[t] = o /\ Calling(t)
      /\ Reserved(o) \subseteq Owner(o) /\ Caller(o) \subseteq Threads
      /\ \A u \in Owner(o) : pc[u] # "count1" => u \in Reserved(o)
  BY DEF Owner, Owning, Caller, Calling, Reserved
<1>. QED
  BY <1>1, <1>2, <1>3, <1>4

LEMMA CallersFinite ==
  ASSUME NEW o, NEW t
  PROVE  /\ IsFiniteSet(Caller(o)) /\ Cardinality(Caller(o)) \in Nat
         /\ Cardinality(Caller(o)) = 0 <=> Caller(o) = {}
         /\ Cardinality(Caller(o)) = 1 /\ t \in Caller(o) => Caller(o) = {t}
         /\ Cardinality(Caller(o) \cup {t}) =
              IF t \in Caller(o) THEN Cardinality(Caller(o)) ELSE Cardinality(Caller(o)) + 1
         /\ Cardinality(Caller(o) \ {t}) =
              IF t \in Caller(o) THEN Cardinality(Caller(o)) - 1 ELSE Cardinality(Caller(o))
<1>1. IsFiniteSet(Caller(o))
  BY ConstantTypes, FS_Subset DEF Caller
<1>2. Cardinality(Caller(o)) \in Nat /\ (Cardinality(Caller(o)) = 0 <=> Caller(o) = {})
  BY <1>1, FS_CardinalityType, FS_EmptySet
<1>3. Cardinality(Caller(o)) = 1 /\ t \in Caller(o) => Caller(o) = {t}
  BY <1>1, FS_Singleton
<1>. QED
  BY <1>1, <1>2, <1>3, FS_AddElement, FS_RemoveElement

(* An object that a thread holds is allocated, in one region, and its      *)
(* count covers the total list and what the thread has.                    *)
LEMMA Used ==
  ASSUME IInv, NEW t \in Threads, Holding(t)
  PROVE  /\ ob[t] \in Objects /\ Allocated(ob[t])
         /\ RegionOf(ob[t]) \in R /\ ob[t] \in Total(RegionOf(ob[t]))
         /\ count[ob[t]] \in Nat /\ count[ob[t]] > 0
         /\ Owned(ob[t]) /\ Counted(ob[t])
<1>1. ob[t] \in Objects
  BY DEF IInv, TypeOK, StoreTypes, ThreadTypes, Held, HeldBy
<1>2. Owned(ob[t]) /\ Counted(ob[t])
  BY <1>1 DEF IInv, Counts
<1>3. Allocated(ob[t])
  BY <1>2 DEF Counted
<1>4. PICK r \in R : ob[t] \in Total(r)
  BY <1>3 DEF Allocated
<1>5. RegionOf(ob[t]) = r
  BY <1>4, RegionIs DEF IInv
<1>6. count[ob[t]] \in Nat /\ count[ob[t]] > 0
  <2>1. count[ob[t]] \in Nat
    BY <1>1 DEF IInv, TypeOK, StoreTypes, ThreadTypes
  <2>2. Cardinality(Caller(ob[t])) \in Nat
    BY CallersFinite
  <2>3. count[ob[t]] = 1 + Bit(On(ListHeadEmpty, ob[t])) + Bit(On(ListHeadInUse, ob[t]))
                         + Bit(Reserved(ob[t]) # {}) + Cardinality(Caller(ob[t]))
    BY <1>2, <1>3 DEF Counted
  <2>. QED
    BY <2>1, <2>2, <2>3 DEF Bit
<1>. QED
  BY <1>1, <1>2, <1>3, <1>4, <1>5, <1>6

LEMMA Usable ==
  ASSUME IInv, NEW t \in Threads
  PROVE  /\ Holding(t) => /\ ob[t] \in Objects /\ RegionOf(ob[t]) \in R
                          /\ count[ob[t]] \in Nat /\ count[ob[t]] - 1 \in Nat
         /\ \A r \in R : ListHeadEmpty[r] # <<>> => Head(ListHeadEmpty[r]) \in Empty(r)
         /\ \A r \in R : ListHeadInUse[r] # <<>> => Head(ListHeadInUse[r]) \in InUse(r)
         /\ \A r \in R : \A o \in InUse(r) : count[o] - 1 \in Nat
         /\ \A r \in R : Empty(r) \subseteq Objects /\ InUse(r) \subseteq Objects
         /\ \A r \in R : ListHeadEmpty[r] # <<>> => Tail(ListHeadEmpty[r]) \in Seq(Objects)
         /\ \A r \in R : ListHeadInUse[r] # <<>> => Tail(ListHeadInUse[r]) \in Seq(Objects)
         /\ \A r \in R : \A o \in Objects : /\ <<o>> \o ListHeadEmpty[r] \in Seq(Objects)
                                           /\ <<o>> \o ListHeadInUse[r] \in Seq(Objects)
                                           /\ <<o>> \o ListHeadTotal[r] \in Seq(Objects)
<1>1. Holding(t) => /\ ob[t] \in Objects /\ RegionOf(ob[t]) \in R
                    /\ count[ob[t]] \in Nat /\ count[ob[t]] - 1 \in Nat
  BY Used
<1>2. ASSUME NEW r \in R
      PROVE  /\ ListHeadEmpty[r] \in Seq(Objects) /\ ListHeadInUse[r] \in Seq(Objects)
             /\ ListHeadTotal[r] \in Seq(Objects)
             /\ Empty(r) \subseteq Objects /\ InUse(r) \subseteq Objects
  BY <1>2, ListMembers DEF IInv
<1>3. ASSUME NEW r \in R
      PROVE  /\ ListHeadEmpty[r] # <<>> => Head(ListHeadEmpty[r]) \in Empty(r)
             /\ ListHeadInUse[r] # <<>> => Head(ListHeadInUse[r]) \in InUse(r)
  BY <1>2, <1>3, MembersTail DEF Empty, InUse, IInv, Lists
<1>4. ASSUME NEW r \in R, NEW o \in InUse(r) PROVE count[o] - 1 \in Nat
  <2>1. o \in Objects /\ Counted(o) /\ count[o] \in Nat
    BY <1>2, <1>4 DEF IInv, Counts, TypeOK, StoreTypes
  <2>2. o \in Total(r)
    BY <1>4 DEF IInv, Lists
  <2>3. Allocated(o) /\ Cardinality(Caller(o)) \in Nat
    BY <2>2, CallersFinite DEF Allocated
  <2>. QED
    BY <2>1, <2>3 DEF Counted, Bit
<1>5. ASSUME NEW list \in Seq(Objects), NEW o \in Objects
      PROVE  Tail(list) \in Seq(Objects) \/ list = <<>>
  OBVIOUS
<1>6. ASSUME NEW list \in Seq(Objects), NEW o \in Objects PROVE <<o>> \o list \in Seq(Objects)
  OBVIOUS
<1>. QED
  BY <1>1, <1>2, <1>3, <1>4, <1>5, <1>6

LEMMA HitDoes ==
  ASSUME IInv, NEW t \in Threads, GetHit(t)
  PROVE  \E o \in Objects :
           /\ o \in InUse(LookupAt(t)) /\ LookupAt(t) \in R /\ qwA[o] = a[t] /\ a[t] \in Pages
           /\ count' = [count EXCEPT ![o] = @ + 1] /\ ob' = [ob EXCEPT ![t] = o]
           /\ pc[t] = "get" /\ pc' = [pc EXCEPT ![t] = IF t \in Writers THEN "unlink" ELSE "got"]
           /\ i' = [i EXCEPT ![t] = 0] /\ iRB' = [iRB EXCEPT ![t] = 0]
           /\ UNCHANGED <<iR, Lock, listVars, chainVars, objectVars, deviceVars, ret, a, buf, need>>
<1>1. LookupAt(t) \in R
  BY Regional DEF IInv
<1>2. pc[t] = "get" /\ pc[t] # "idle" /\ pc[t] # "count1" /\ t \notin Refreshers /\ a[t] \in Pages
  BY DEF IInv, Held, HeldBy, GetHit, Goto
<1>3. \A o \in Lookup(LookupAt(t), a[t]) :
         o \in InUse(LookupAt(t)) /\ o \in Objects /\ qwA[o] = a[t]
  BY <1>1, <1>2, Found DEF IInv, GetHit
<1>. QED
  BY <1>1, <1>2, <1>3 DEF GetHit, Goto

LEMMA ReturnDoes ==
  ASSUME TypeOK, NEW t \in Threads, ReserveReturn(t)
  PROVE  /\ pc[t] = "put"
         /\ pc' = [pc EXCEPT ![t] = IF t \in Fetchers THEN "got" ELSE "idle"]
         /\ ob' = [ob EXCEPT ![t] = IF t \in Fetchers THEN @ ELSE None]
         /\ a' = [a EXCEPT ![t] = IF t \in Fetchers THEN @ ELSE None]
         /\ UNCHANGED <<iR, Lock, ListHeadEmpty, ListHeadTotal, count, qwA, pb, deviceVars, ret>>
<1>1. /\ pc[t] = "put"
      /\ UNCHANGED <<iR, Lock, ListHeadEmpty, ListHeadTotal, count, qwA, pb, deviceVars, ret>>
  BY DEF ReserveReturn
<1>2. IF t \in Fetchers
       THEN Goto(t, "put", "got") /\ UNCHANGED <<ob, callVars>>
       ELSE Goto(t, "put", "idle") /\ ob' = [ob EXCEPT ![t] = None] /\ Forget(t)
  BY DEF ReserveReturn
<1>. QED
  BY <1>1, <1>2 DEF Goto, Forget, callVars, TypeOK, ThreadTypes

LEMMA StepStoreTypes ==
  ASSUME Apart, IInv, NEW t \in Threads, Begin(t) \/ Get(t) \/ Reserve(t) \/ Fill(t) \/ Device(t)
  PROVE  StoreTypes'
<1>. USE DEF callVars, listVars, chainVars, objectVars, deviceVars, Pc
<1>0. StoreTypes /\ ThreadTypes /\ HeldBy(t)
  BY DEF IInv, Held, TypeOK
<1>a. /\ 0 \in R /\ iR \in R /\ Oldest \in R /\ FirstRegion(t) \in R /\ LookupAt(t) \in R
      /\ ob[t] # None <=> Holding(t)
      /\ pc[t] \notin {"idle", "count1"} /\ t \notin Refreshers => a[t] \in Pages
      /\ t \in Refreshers => pc[t] \in {"idle", "clear", "clearing", "count1"}
      /\ buf[t] \in Nat /\ need[t] \in Nat /\ i[t] \in Nat /\ iRB[t] \in R
      /\ \A p \in Pages : mem[p] \in Nat /\ written[p] \in Nat
      /\ pc[t] = "count1" => ret[t] \in {"idle", "clearing", "get"}
      /\ \A p \in Pages : mem[p] + 1 \in Nat
  <2>1. /\ 0 \in R /\ iR \in R /\ Oldest \in R /\ FirstRegion(t) \in R /\ LookupAt(t) \in R
    BY <1>0, Regional DEF TypeOK
  <2>2. ob[t] # None <=> Holding(t)
    BY <1>0 DEF HeldBy
  <2>3. /\ pc[t] \notin {"idle", "count1"} /\ t \notin Refreshers => a[t] \in Pages
        /\ t \in Refreshers => pc[t] \in {"idle", "clear", "clearing", "count1"}
    BY <1>0 DEF HeldBy
  <2>4. /\ buf[t] \in Nat /\ need[t] \in Nat /\ i[t] \in Nat /\ iRB[t] \in R
        /\ ret[t] \in {"idle", "clearing", "get"}
    BY <1>0 DEF ThreadTypes
  <2>5. \A p \in Pages : mem[p] \in Nat /\ written[p] \in Nat /\ mem[p] + 1 \in Nat
    BY <1>0 DEF StoreTypes
  <2>. QED
    BY <2>1, <2>2, <2>3, <2>4, <2>5
<1>b. TypeOK /\ IInv
  BY <1>0 DEF TypeOK
<1>c. \A x \in Objects, r \in R : /\ <<x>> \o ListHeadInUse[r] \in Seq(Objects)
                                 /\ <<x>> \o ListHeadEmpty[r] \in Seq(Objects)
                                 /\ <<x>> \o ListHeadTotal[r] \in Seq(Objects)
  BY <1>b, Usable
<1>1. ASSUME BeginRefresh(t) PROVE StoreTypes'
  BY <1>0, <1>a, <1>1, ConstantTypes, Usable, Roles DEF StoreTypes, Holding, BeginRefresh, Goto
<1>2. ASSUME GetHit(t) PROVE StoreTypes'
  <2>1. PICK o \in Objects : /\ count' = [count EXCEPT ![o] = @ + 1]
                             /\ UNCHANGED <<iR, Lock, listVars, chainVars, objectVars, deviceVars>>
    BY <1>2, HitDoes
  <2>. QED
    BY <1>0, <2>1 DEF StoreTypes
<1>3. ASSUME GetNextRegion(t) PROVE StoreTypes'
  BY <1>0, <1>a, <1>3, ConstantTypes, Usable, Roles DEF StoreTypes, Holding, GetNextRegion, Goto
<1>4. ASSUME GetMiss(t) PROVE StoreTypes'
  BY <1>0, <1>a, <1>4, ConstantTypes, Usable, Roles DEF StoreTypes, Holding, GetMiss, Goto
<1>5. ASSUME GotRelease(t) PROVE StoreTypes'
  BY <1>0, <1>a, <1>5, ConstantTypes, Usable, Roles DEF StoreTypes, Holding, GotRelease, Goto,
     Decref, Forget
<1>6. ASSUME CallbackRefCount1(t) PROVE StoreTypes'
  <2>1. /\ ob[t] \in Objects /\ count[ob[t]] + 1 \in Nat /\ RegionOf(ob[t]) \in R
        /\ <<ob[t]>> \o ListHeadEmpty[RegionOf(ob[t])] \in Seq(Objects)
    BY <1>b, <1>6, Usable DEF Holding, CallbackRefCount1, Goto
  <2>. QED
    BY <1>0, <1>a, <1>6, <2>1 DEF StoreTypes, CallbackRefCount1
<1>7. ASSUME ReservePop(t) PROVE StoreTypes'
  BY <1>0, <1>a, <1>7, ConstantTypes, Usable, Roles DEF StoreTypes, Holding, ReservePop, Goto
<1>8. ASSUME ReserveEmpty(t) PROVE StoreTypes'
  BY <1>0, <1>a, <1>8, ConstantTypes, Usable, Roles DEF StoreTypes, Holding, ReserveEmpty, Goto
<1>9. ASSUME ReserveCheck(t) PROVE StoreTypes'
  BY <1>0, <1>a, <1>9, ConstantTypes, Usable, Roles DEF StoreTypes, Holding, ReserveCheck, Goto
<1>10. ASSUME ReserveAlloc(t) PROVE StoreTypes'
  <2>1. PICK o \in Objects : /\ count' = [count EXCEPT ![o] = 2]
                             /\ ListHeadTotal' = [ListHeadTotal EXCEPT ![iR] = <<o>> \o @]
    BY <1>10 DEF ReserveAlloc
  <2>2. <<o>> \o ListHeadTotal[iR] \in Seq(Objects)
    BY <1>a, <1>b, Usable
  <2>. QED
    BY <1>0, <1>a, <1>10, <2>1, <2>2 DEF StoreTypes, ReserveAlloc
<1>11. ASSUME ReserveAllocFail(t) PROVE StoreTypes'
  BY <1>0, <1>a, <1>11, ConstantTypes, Usable, Roles DEF StoreTypes, Holding, ReserveAllocFail,
     Goto, Forget
<1>12. ASSUME ClearLock(t) PROVE StoreTypes'
  BY <1>0, <1>a, <1>12, ConstantTypes, Usable, Roles DEF StoreTypes, Holding, ClearLock, Goto
<1>13. ASSUME ClearPop(t) PROVE StoreTypes'
  BY <1>0, <1>a, <1>13, ConstantTypes, Usable, Roles DEF StoreTypes, Holding, ClearPop, Goto,
     Decref, Forget
<1>14. ASSUME ClearDone(t) PROVE StoreTypes'
  BY <1>0, <1>a, <1>14, ConstantTypes, Usable, Roles DEF StoreTypes, Holding, ClearDone, Goto,
     ClearReturn, Forget
<1>15. ASSUME FillAddress(t) PROVE StoreTypes'
  <2>1. ob[t] \in Objects /\ count[ob[t]] + 1 \in Nat
    BY <1>b, <1>15, Usable DEF Holding, FillAddress, Goto
  <2>2. a[t] \in Pages
    BY <1>a, <1>15 DEF FillAddress, Goto
  <2>. QED
    BY <1>0, <1>a, <1>15, <2>1, <2>2 DEF StoreTypes, FillAddress
<1>16. ASSUME FillCopy(t) PROVE StoreTypes'
  <2>1. ob[t] \in Objects /\ count[ob[t]] + 1 \in Nat
    BY <1>b, <1>16, Usable DEF Holding, FillCopy, Goto
  <2>2. a[t] \in Pages
    BY <1>a, <1>16 DEF FillCopy, Goto
  <2>. QED
    BY <1>0, <1>a, <1>16, <2>1, <2>2 DEF StoreTypes, FillCopy
<1>17. ASSUME FillFetch(t) PROVE StoreTypes'
  <2>1. ob[t] \in Objects /\ count[ob[t]] + 1 \in Nat
    BY <1>b, <1>17, Usable DEF Holding, FillFetch, Goto
  <2>2. a[t] \in Pages
    BY <1>a, <1>17 DEF FillFetch, Goto
  <2>. QED
    BY <1>0, <1>a, <1>17, <2>1, <2>2 DEF StoreTypes, FillFetch
<1>18. ASSUME FillFail(t) PROVE StoreTypes'
  BY <1>0, <1>a, <1>18, ConstantTypes, Usable, Roles DEF StoreTypes, Holding, FillFail, Goto,
     Decref, Forget
<1>19. ASSUME ReserveReturn(t) PROVE StoreTypes'
  <2>. DEFINE o == ob[t]  r == RegionOf(o)  b == Hash[qwA[o]]  first == B[r][b]
  <2>1. o \in Objects /\ r \in R
    BY <1>a, <1>b, <1>19, Usable DEF ReserveReturn, Holding
  <2>2. qwA[o] \in Pages
    <3>1. qwA[o] = a[t]
      BY <1>b, <1>19 DEF IInv, Contents, ReserveReturn
    <3>. QED
      BY <1>a, <1>19, <3>1 DEF ReserveReturn
  <2>3. b \in Buckets /\ first \in Objects \cup {None} /\ <<o>> \o ListHeadInUse[r] \in Seq(Objects)
    BY <1>0, <1>b, <2>1, <2>2, ConstantTypes, Usable DEF StoreTypes
  <2>4. /\ ListHeadInUse' = [ListHeadInUse EXCEPT ![r] = <<o>> \o @]
        /\ iB' = [iB EXCEPT ![o] = b]
        /\ B' = [B EXCEPT ![r][b] = o] /\ FLink' = [FLink EXCEPT ![o] = first]
        /\ BLink' = [q \in Objects |-> CASE q = o -> None [] q = first -> o [] OTHER -> BLink[q]]
        /\ UNCHANGED <<iR, Lock, ListHeadEmpty, ListHeadTotal, count, qwA, pb, deviceVars>>
    BY <1>19 DEF ReserveReturn
  <2>. HIDE DEF o, r, b, first
  <2>5. BLink' \in [Objects -> Objects \cup {None}]
    BY <1>0, <2>1, <2>4 DEF StoreTypes
  <2>6. B' \in [R -> [Buckets -> Objects \cup {None}]]
    BY <1>0, <2>1, <2>3, <2>4 DEF StoreTypes
  <2>. QED
    BY <1>0, <2>1, <2>3, <2>4, <2>5, <2>6 DEF StoreTypes
<1>20. ASSUME ReadDevice(t) PROVE StoreTypes'
  BY <1>0, <1>a, <1>20, ConstantTypes, Usable, Roles DEF StoreTypes, Holding, ReadDevice, Goto
<1>21. ASSUME ReadNoPut(t) PROVE StoreTypes'
  BY <1>0, <1>a, <1>21, ConstantTypes, Usable, Roles DEF StoreTypes, Holding, ReadNoPut, Goto,
     Forget
<1>22. ASSUME Unlink(t) PROVE StoreTypes'
  BY <1>0, <1>a, <1>22, ConstantTypes, Usable, Roles DEF StoreTypes, Holding, Unlink, Goto
<1>23. ASSUME WriteDone(t) PROVE StoreTypes'
  BY <1>0, <1>a, <1>23, Roles DEF StoreTypes, WriteDone, Goto
<1>24. ASSUME NEW p \in Pages, BeginGet(t, p) PROVE StoreTypes'
  BY <1>0, <1>a, <1>24, ConstantTypes, Usable, Roles DEF StoreTypes, Holding, BeginGet, Goto
<1>25. ASSUME NEW p \in Pages, WriteDevice(t, p) PROVE StoreTypes'
  BY <1>0, <1>a, <1>25 DEF StoreTypes, WriteDevice
<1>. QED
  BY <1>1, <1>2, <1>3, <1>4, <1>5, <1>6, <1>7, <1>8, <1>9, <1>10, <1>11, <1>12, <1>13, <1>14,
     <1>15, <1>16, <1>17, <1>18, <1>19, <1>20, <1>21, <1>22, <1>23, <1>24, <1>25 DEF Begin, Get,
     Reserve, Fill, Device

LEMMA StepThreadTypes ==
  ASSUME Apart, IInv, NEW t \in Threads, Begin(t) \/ Get(t) \/ Reserve(t) \/ Fill(t) \/ Device(t)
  PROVE  ThreadTypes'
<1>. USE DEF callVars, listVars, chainVars, objectVars, deviceVars, Pc
<1>0. StoreTypes /\ ThreadTypes /\ HeldBy(t)
  BY DEF IInv, Held, TypeOK
<1>a. /\ 0 \in R /\ iR \in R /\ Oldest \in R /\ FirstRegion(t) \in R /\ LookupAt(t) \in R
      /\ ob[t] # None <=> Holding(t)
      /\ pc[t] \notin {"idle", "count1"} /\ t \notin Refreshers => a[t] \in Pages
      /\ t \in Refreshers => pc[t] \in {"idle", "clear", "clearing", "count1"}
      /\ buf[t] \in Nat /\ need[t] \in Nat /\ i[t] \in Nat /\ iRB[t] \in R
      /\ \A p \in Pages : mem[p] \in Nat /\ written[p] \in Nat
      /\ pc[t] = "count1" => ret[t] \in {"idle", "clearing", "get"}
      /\ \A p \in Pages : mem[p] + 1 \in Nat
  <2>1. /\ 0 \in R /\ iR \in R /\ Oldest \in R /\ FirstRegion(t) \in R /\ LookupAt(t) \in R
    BY <1>0, Regional DEF TypeOK
  <2>2. ob[t] # None <=> Holding(t)
    BY <1>0 DEF HeldBy
  <2>3. /\ pc[t] \notin {"idle", "count1"} /\ t \notin Refreshers => a[t] \in Pages
        /\ t \in Refreshers => pc[t] \in {"idle", "clear", "clearing", "count1"}
    BY <1>0 DEF HeldBy
  <2>4. /\ buf[t] \in Nat /\ need[t] \in Nat /\ i[t] \in Nat /\ iRB[t] \in R
        /\ ret[t] \in {"idle", "clearing", "get"}
    BY <1>0 DEF ThreadTypes
  <2>5. \A p \in Pages : mem[p] \in Nat /\ written[p] \in Nat /\ mem[p] + 1 \in Nat
    BY <1>0 DEF StoreTypes
  <2>. QED
    BY <2>1, <2>2, <2>3, <2>4, <2>5
<1>b. TypeOK /\ IInv
  BY <1>0 DEF TypeOK
<1>c. \A x \in Objects, r \in R : /\ <<x>> \o ListHeadInUse[r] \in Seq(Objects)
                                 /\ <<x>> \o ListHeadEmpty[r] \in Seq(Objects)
                                 /\ <<x>> \o ListHeadTotal[r] \in Seq(Objects)
  BY <1>b, Usable
<1>1. ASSUME BeginRefresh(t) PROVE ThreadTypes'
  BY <1>0, <1>a, <1>1, ConstantTypes, Usable, Roles DEF ThreadTypes, Holding, BeginRefresh, Goto
<1>2. ASSUME GetHit(t) PROVE ThreadTypes'
  <2>1. PICK o \in Objects :
          /\ ob' = [ob EXCEPT ![t] = o] /\ i' = [i EXCEPT ![t] = 0] /\ iRB' = [iRB EXCEPT ![t] = 0]
          /\ pc' = [pc EXCEPT ![t] = IF t \in Writers THEN "unlink" ELSE "got"]
          /\ UNCHANGED <<ret, a, buf, need>>
    BY <1>2, HitDoes
  <2>. QED
    BY <1>0, <1>a, <2>1 DEF ThreadTypes
<1>3. ASSUME GetNextRegion(t) PROVE ThreadTypes'
  BY <1>0, <1>a, <1>3, ConstantTypes, Usable, Roles DEF ThreadTypes, Holding, GetNextRegion, Goto
<1>4. ASSUME GetMiss(t) PROVE ThreadTypes'
  BY <1>0, <1>a, <1>4, ConstantTypes, Usable, Roles DEF ThreadTypes, Holding, GetMiss, Goto
<1>5. ASSUME GotRelease(t) PROVE ThreadTypes'
  <2>1. ob[t] \in Objects
    BY <1>b, <1>5, Usable DEF Holding, GotRelease, Decref, Goto
  <2>2. CASE count[ob[t]] = 2
    BY <1>0, <1>a, <1>5, <2>1, <2>2 DEF ThreadTypes, GotRelease, Decref, Goto, Forget
  <2>3. CASE count[ob[t]] # 2
    BY <1>0, <1>a, <1>5, <2>1, <2>3 DEF ThreadTypes, GotRelease, Decref, Goto, Forget
  <2>. QED
    BY <2>2, <2>3
<1>6. ASSUME CallbackRefCount1(t) PROVE ThreadTypes'
  BY <1>0, <1>a, <1>6, ConstantTypes, Usable, Roles DEF ThreadTypes, Holding, CallbackRefCount1,
     Goto
<1>7. ASSUME ReservePop(t) PROVE ThreadTypes'
  BY <1>0, <1>a, <1>7, ConstantTypes, Usable, Roles DEF ThreadTypes, Holding, ReservePop, Goto
<1>8. ASSUME ReserveEmpty(t) PROVE ThreadTypes'
  BY <1>0, <1>a, <1>8, ConstantTypes, Usable, Roles DEF ThreadTypes, Holding, ReserveEmpty, Goto
<1>9. ASSUME ReserveCheck(t) PROVE ThreadTypes'
  BY <1>0, <1>a, <1>9, ConstantTypes, Usable, Roles DEF ThreadTypes, Holding, ReserveCheck, Goto
<1>10. ASSUME ReserveAlloc(t) PROVE ThreadTypes'
  BY <1>0, <1>a, <1>10, ConstantTypes, Usable, Roles DEF ThreadTypes, Holding, ReserveAlloc, Goto
<1>11. ASSUME ReserveAllocFail(t) PROVE ThreadTypes'
  BY <1>0, <1>a, <1>11, ConstantTypes, Usable, Roles DEF ThreadTypes, Holding, ReserveAllocFail,
     Goto, Forget
<1>12. ASSUME ClearLock(t) PROVE ThreadTypes'
  BY <1>0, <1>a, <1>12, ConstantTypes, Usable, Roles DEF ThreadTypes, Holding, ClearLock, Goto
<1>13. ASSUME ClearPop(t) PROVE ThreadTypes'
  BY <1>0, <1>a, <1>13, ConstantTypes, Usable, Roles DEF ThreadTypes, Holding, ClearPop, Goto,
     Decref, Forget
<1>14. ASSUME ClearDone(t) PROVE ThreadTypes'
  <2>0. UNCHANGED <<ob, ret>>
    BY <1>14 DEF ClearDone
  <2>1. CASE t \in Refreshers \/ i[t] + 1 = Regions
    <3>1. Goto(t, "clearing", "idle") /\ Forget(t)
      BY <1>14, <2>1 DEF ClearDone, ClearReturn
    <3>. QED
      BY <1>0, <1>a, <2>0, <3>1 DEF ThreadTypes, Goto, Forget
  <2>2. CASE ~(t \in Refreshers \/ i[t] + 1 = Regions)
    <3>1. /\ Goto(t, "clearing", "reserve") /\ i' = [i EXCEPT ![t] = @ + 1]
          /\ UNCHANGED <<a, iRB, buf, need>>
      BY <1>14, <2>2 DEF ClearDone, ClearReturn
    <3>. QED
      BY <1>0, <1>a, <2>0, <3>1 DEF ThreadTypes, Goto
  <2>. QED
    BY <2>1, <2>2
<1>15. ASSUME FillAddress(t) PROVE ThreadTypes'
  BY <1>0, <1>a, <1>15, ConstantTypes, Usable, Roles DEF ThreadTypes, Holding, FillAddress, Goto
<1>16. ASSUME FillCopy(t) PROVE ThreadTypes'
  BY <1>0, <1>a, <1>16, ConstantTypes, Usable, Roles DEF ThreadTypes, Holding, FillCopy, Goto
<1>17. ASSUME FillFetch(t) PROVE ThreadTypes'
  BY <1>0, <1>a, <1>17, ConstantTypes, Usable, Roles DEF ThreadTypes, Holding, FillFetch, Goto
<1>18. ASSUME FillFail(t) PROVE ThreadTypes'
  <2>1. ob[t] \in Objects
    BY <1>b, <1>18, Usable DEF Holding, FillFail, Decref, Goto
  <2>2. CASE count[ob[t]] = 2
    BY <1>0, <1>a, <1>18, <2>1, <2>2 DEF ThreadTypes, FillFail, Decref, Goto, Forget
  <2>3. CASE count[ob[t]] # 2
    BY <1>0, <1>a, <1>18, <2>1, <2>3 DEF ThreadTypes, FillFail, Decref, Goto, Forget
  <2>. QED
    BY <2>2, <2>3
<1>19. ASSUME ReserveReturn(t) PROVE ThreadTypes'
  <2>1. CASE t \in Fetchers
    <3>1. UNCHANGED <<ob, callVars, ret>> /\ pc' = [pc EXCEPT ![t] = "got"]
      BY <1>19, <2>1 DEF ReserveReturn, Goto
    <3>. QED
      BY <1>0, <3>1 DEF ThreadTypes
  <2>2. CASE t \notin Fetchers
    <3>1. /\ UNCHANGED ret /\ pc' = [pc EXCEPT ![t] = "idle"] /\ ob' = [ob EXCEPT ![t] = None]
          /\ Forget(t)
      BY <1>19, <2>2 DEF ReserveReturn, Goto
    <3>. QED
      BY <1>0, <1>a, <3>1 DEF ThreadTypes, Forget
  <2>. QED
    BY <2>1, <2>2
<1>20. ASSUME ReadDevice(t) PROVE ThreadTypes'
  <2>1. mem[a[t]] \in Nat
    BY <1>a, <1>20, <1>0, Roles DEF HeldBy, ReadDevice, Goto
  <2>. QED
    BY <1>0, <1>20, <2>1 DEF ThreadTypes, ReadDevice, Goto
<1>21. ASSUME ReadNoPut(t) PROVE ThreadTypes'
  BY <1>0, <1>a, <1>21, ConstantTypes, Usable, Roles DEF ThreadTypes, Holding, ReadNoPut, Goto,
     Forget
<1>22. ASSUME Unlink(t) PROVE ThreadTypes'
  BY <1>0, <1>a, <1>22, ConstantTypes, Usable, Roles DEF ThreadTypes, Holding, Unlink, Goto
<1>23. ASSUME WriteDone(t) PROVE ThreadTypes'
  BY <1>0, <1>a, <1>23, ConstantTypes, Usable, Roles DEF ThreadTypes, Holding, WriteDone, Goto,
     Forget
<1>24. ASSUME NEW p \in Pages, BeginGet(t, p) PROVE ThreadTypes'
  BY <1>0, <1>a, <1>24 DEF ThreadTypes, BeginGet, WriteDevice, Goto
<1>25. ASSUME NEW p \in Pages, WriteDevice(t, p) PROVE ThreadTypes'
  BY <1>0, <1>a, <1>25 DEF ThreadTypes, BeginGet, WriteDevice, Goto
<1>. QED
  BY <1>1, <1>2, <1>3, <1>4, <1>5, <1>6, <1>7, <1>8, <1>9, <1>10, <1>11, <1>12, <1>13, <1>14,
     <1>15, <1>16, <1>17, <1>18, <1>19, <1>20, <1>21, <1>22, <1>23, <1>24, <1>25 DEF Begin, Get,
     Reserve, Fill, Device

LEMMA StepHeld ==
  ASSUME Apart, IInv, NEW t \in Threads, Begin(t) \/ Get(t) \/ Reserve(t) \/ Fill(t) \/ Device(t)
  PROVE  Held'
<1>. USE DEF Holding, callVars, HeldBy
<1>0. SUFFICES ASSUME NEW u \in Threads PROVE HeldBy(u)'
  BY DEF Held
<1>a. /\ ThreadTypes /\ TypeOK /\ StoreTypes /\ Held /\ HeldBy(u) /\ HeldBy(t) 
  BY DEF IInv, Held, Locking, TypeOK
<1>1. ASSUME BeginRefresh(t) PROVE HeldBy(u)'
  <2>1. CASE u = t
    BY <1>a, <1>1, <2>1, ConstantTypes, Roles, Regional DEF ThreadTypes, BeginRefresh, Goto
  <2>2. CASE u # t
    BY <1>a, <1>1, <2>2, ConstantTypes DEF ThreadTypes, BeginRefresh, Goto
  <2>. QED
    BY <2>1, <2>2
<1>2. ASSUME GetHit(t) PROVE HeldBy(u)'
  <2>1. CASE u = t
    <3>1. PICK o \in Objects :
            /\ ob' = [ob EXCEPT ![t] = o] /\ pc[t] = "get"
            /\ pc' = [pc EXCEPT ![t] = IF t \in Writers THEN "unlink" ELSE "got"]
            /\ UNCHANGED <<ret, a>>
      BY <1>2, HitDoes DEF IInv
    <3>. QED
      BY <1>a, <2>1, <3>1, ConstantTypes, Roles DEF ThreadTypes
  <2>2. CASE u # t
    BY <1>a, <1>2, <2>2, ConstantTypes DEF ThreadTypes, StoreTypes, GetHit, Goto
  <2>. QED
    BY <2>1, <2>2
<1>3. ASSUME GetNextRegion(t) PROVE HeldBy(u)'
  <2>1. CASE u = t
    BY <1>a, <1>3, <2>1, ConstantTypes, Roles, Regional DEF ThreadTypes, GetNextRegion, Goto
  <2>2. CASE u # t
    BY <1>a, <1>3, <2>2, ConstantTypes DEF ThreadTypes, GetNextRegion, Goto
  <2>. QED
    BY <2>1, <2>2
<1>4. ASSUME GetMiss(t) PROVE HeldBy(u)'
  <2>1. CASE u = t
    BY <1>a, <1>4, <2>1, ConstantTypes, Roles, Regional DEF ThreadTypes, GetMiss, Goto
  <2>2. CASE u # t
    BY <1>a, <1>4, <2>2, ConstantTypes DEF ThreadTypes, GetMiss, Goto
  <2>. QED
    BY <2>1, <2>2
<1>5. ASSUME GotRelease(t) PROVE HeldBy(u)'
  <2>1. CASE u = t
    BY <1>a, <1>5, <2>1, ConstantTypes, Roles, Regional DEF ThreadTypes, GotRelease, Goto, Decref,
       Forget
  <2>2. CASE u # t
    BY <1>a, <1>5, <2>2, ConstantTypes DEF ThreadTypes, GotRelease, Goto, Decref, Forget
  <2>. QED
    BY <2>1, <2>2
<1>6. ASSUME CallbackRefCount1(t) PROVE HeldBy(u)'
  <2>1. CASE u = t
    BY <1>a, <1>6, <2>1, ConstantTypes, Roles, Regional DEF ThreadTypes, CallbackRefCount1, Goto
  <2>2. CASE u # t
    BY <1>a, <1>6, <2>2, ConstantTypes DEF ThreadTypes, CallbackRefCount1, Goto
  <2>. QED
    BY <2>1, <2>2
<1>7. ASSUME ReservePop(t) PROVE HeldBy(u)'
  <2>1. CASE u = t
    <3>1. Head(ListHeadEmpty[iR]) \in Objects
      BY <1>a, <1>7, Usable, Regional DEF ReservePop
    <3>. QED
      BY <1>a, <1>7, <2>1, <3>1, ConstantTypes, Roles DEF ThreadTypes, ReservePop, Goto
  <2>2. CASE u # t
    BY <1>a, <1>7, <2>2, ConstantTypes DEF ThreadTypes, StoreTypes, ReservePop, Goto
  <2>. QED
    BY <2>1, <2>2
<1>8. ASSUME ReserveEmpty(t) PROVE HeldBy(u)'
  <2>1. CASE u = t
    BY <1>a, <1>8, <2>1, ConstantTypes, Roles, Regional DEF ThreadTypes, ReserveEmpty, Goto
  <2>2. CASE u # t
    BY <1>a, <1>8, <2>2, ConstantTypes DEF ThreadTypes, ReserveEmpty, Goto
  <2>. QED
    BY <2>1, <2>2
<1>9. ASSUME ReserveCheck(t) PROVE HeldBy(u)'
  <2>1. CASE u = t
    BY <1>a, <1>9, <2>1, ConstantTypes, Roles, Regional DEF ThreadTypes, ReserveCheck, Goto
  <2>2. CASE u # t
    BY <1>a, <1>9, <2>2, ConstantTypes DEF ThreadTypes, ReserveCheck, Goto
  <2>. QED
    BY <2>1, <2>2
<1>10. ASSUME ReserveAlloc(t) PROVE HeldBy(u)'
  <2>1. CASE u = t
    BY <1>a, <1>10, <2>1, ConstantTypes, Roles, Regional DEF ThreadTypes, StoreTypes,
       ReserveAlloc, Goto
  <2>2. CASE u # t
    BY <1>a, <1>10, <2>2, ConstantTypes DEF ThreadTypes, StoreTypes, ReserveAlloc, Goto
  <2>. QED
    BY <2>1, <2>2
<1>11. ASSUME ReserveAllocFail(t) PROVE HeldBy(u)'
  <2>1. CASE u = t
    BY <1>a, <1>11, <2>1, ConstantTypes, Roles, Regional DEF ThreadTypes, ReserveAllocFail, Goto,
       Forget
  <2>2. CASE u # t
    BY <1>a, <1>11, <2>2, ConstantTypes DEF ThreadTypes, ReserveAllocFail, Goto, Forget
  <2>. QED
    BY <2>1, <2>2
<1>12. ASSUME ClearLock(t) PROVE HeldBy(u)'
  <2>1. CASE u = t
    BY <1>a, <1>12, <2>1, ConstantTypes, Roles, Regional DEF ThreadTypes, ClearLock, Goto
  <2>2. CASE u # t
    BY <1>a, <1>12, <2>2, ConstantTypes DEF ThreadTypes, ClearLock, Goto
  <2>. QED
    BY <2>1, <2>2
<1>13. ASSUME ClearPop(t) PROVE HeldBy(u)'
  <2>1. CASE u = t
    <3>1. Head(ListHeadInUse[Oldest]) \in Objects
      BY <1>a, <1>13, Usable, Regional DEF ClearPop
    <3>. QED
      BY <1>a, <1>13, <2>1, <3>1, ConstantTypes, Roles DEF ThreadTypes, ClearPop, Decref, Goto
  <2>2. CASE u # t
    BY <1>a, <1>13, <2>2, ConstantTypes DEF ThreadTypes, StoreTypes, ClearPop, Goto, Decref, Forget
  <2>. QED
    BY <2>1, <2>2
<1>14. ASSUME ClearDone(t) PROVE HeldBy(u)'
  <2>1. CASE u = t
    BY <1>a, <1>14, <2>1, ConstantTypes, Roles, Regional DEF ThreadTypes, ClearDone, Goto,
       ClearReturn, Forget
  <2>2. CASE u # t
    BY <1>a, <1>14, <2>2, ConstantTypes DEF ThreadTypes, ClearDone, Goto, ClearReturn, Forget
  <2>. QED
    BY <2>1, <2>2
<1>15. ASSUME FillAddress(t) PROVE HeldBy(u)'
  <2>1. CASE u = t
    BY <1>a, <1>15, <2>1, ConstantTypes, Roles, Regional DEF ThreadTypes, FillAddress, Goto
  <2>2. CASE u # t
    BY <1>a, <1>15, <2>2, ConstantTypes DEF ThreadTypes, FillAddress, Goto
  <2>. QED
    BY <2>1, <2>2
<1>16. ASSUME FillCopy(t) PROVE HeldBy(u)'
  <2>1. CASE u = t
    BY <1>a, <1>16, <2>1, ConstantTypes, Roles, Regional DEF ThreadTypes, FillCopy, Goto
  <2>2. CASE u # t
    BY <1>a, <1>16, <2>2, ConstantTypes DEF ThreadTypes, FillCopy, Goto
  <2>. QED
    BY <2>1, <2>2
<1>17. ASSUME FillFetch(t) PROVE HeldBy(u)'
  <2>1. CASE u = t
    BY <1>a, <1>17, <2>1, ConstantTypes, Roles, Regional DEF ThreadTypes, FillFetch, Goto
  <2>2. CASE u # t
    BY <1>a, <1>17, <2>2, ConstantTypes DEF ThreadTypes, FillFetch, Goto
  <2>. QED
    BY <2>1, <2>2
<1>18. ASSUME FillFail(t) PROVE HeldBy(u)'
  <2>1. CASE u = t
    BY <1>a, <1>18, <2>1, ConstantTypes, Roles, Regional DEF ThreadTypes, FillFail, Goto, Decref,
       Forget
  <2>2. CASE u # t
    BY <1>a, <1>18, <2>2, ConstantTypes DEF ThreadTypes, FillFail, Goto, Decref, Forget
  <2>. QED
    BY <2>1, <2>2
<1>19. ASSUME ReserveReturn(t) PROVE HeldBy(u)'
  <2>1. CASE u = t
    BY <1>a, <1>19, <2>1, ConstantTypes, Roles, Regional DEF ThreadTypes, ReserveReturn, Goto,
       Forget
  <2>2. CASE u # t
    BY <1>a, <1>19, <2>2, ConstantTypes DEF ThreadTypes, ReserveReturn, Goto, Forget
  <2>. QED
    BY <2>1, <2>2
<1>20. ASSUME ReadDevice(t) PROVE HeldBy(u)'
  <2>1. CASE u = t
    BY <1>a, <1>20, <2>1, ConstantTypes, Roles, Regional DEF ThreadTypes, ReadDevice, Goto
  <2>2. CASE u # t
    BY <1>a, <1>20, <2>2, ConstantTypes DEF ThreadTypes, ReadDevice, Goto
  <2>. QED
    BY <2>1, <2>2
<1>21. ASSUME ReadNoPut(t) PROVE HeldBy(u)'
  <2>1. CASE u = t
    BY <1>a, <1>21, <2>1, ConstantTypes, Roles, Regional DEF ThreadTypes, ReadNoPut, Goto, Forget
  <2>2. CASE u # t
    BY <1>a, <1>21, <2>2, ConstantTypes DEF ThreadTypes, ReadNoPut, Goto, Forget
  <2>. QED
    BY <2>1, <2>2
<1>22. ASSUME Unlink(t) PROVE HeldBy(u)'
  <2>1. CASE u = t
    BY <1>a, <1>22, <2>1, ConstantTypes, Roles, Regional DEF ThreadTypes, Unlink, Goto
  <2>2. CASE u # t
    BY <1>a, <1>22, <2>2, ConstantTypes DEF ThreadTypes, Unlink, Goto
  <2>. QED
    BY <2>1, <2>2
<1>23. ASSUME WriteDone(t) PROVE HeldBy(u)'
  <2>1. CASE u = t
    BY <1>a, <1>23, <2>1, ConstantTypes, Roles, Regional DEF ThreadTypes, WriteDone, Goto, Forget
  <2>2. CASE u # t
    BY <1>a, <1>23, <2>2, ConstantTypes DEF ThreadTypes, WriteDone, Goto, Forget
  <2>. QED
    BY <2>1, <2>2
<1>24. ASSUME NEW p \in Pages, BeginGet(t, p) PROVE HeldBy(u)'
  <2>1. CASE u = t
    BY <1>a, <1>24, <2>1, ConstantTypes, Roles, Regional DEF ThreadTypes, BeginGet, Goto
  <2>2. CASE u # t
    BY <1>a, <1>24, <2>2, ConstantTypes DEF ThreadTypes, BeginGet, Goto
  <2>. QED
    BY <2>1, <2>2
<1>25. ASSUME NEW p \in Pages, WriteDevice(t, p) PROVE HeldBy(u)'
  <2>1. CASE u = t
    BY <1>a, <1>25, <2>1, ConstantTypes, Roles, Regional DEF ThreadTypes, WriteDevice, Goto
  <2>2. CASE u # t
    BY <1>a, <1>25, <2>2, ConstantTypes DEF ThreadTypes, WriteDevice, Goto
  <2>. QED
    BY <2>1, <2>2
<1>. QED
  BY <1>1, <1>2, <1>3, <1>4, <1>5, <1>6, <1>7, <1>8, <1>9, <1>10, <1>11, <1>12, <1>13, <1>14,
     <1>15, <1>16, <1>17, <1>18, <1>19, <1>20, <1>21, <1>22, <1>23, <1>24, <1>25 DEF Begin, Get,
     Reserve, Fill, Device

LEMMA StepLocking ==
  ASSUME Apart, IInv, NEW t \in Threads, Begin(t) \/ Get(t) \/ Reserve(t) \/ Fill(t) \/ Device(t)
  PROVE  Locking'
<1>. USE DEF Clearing
<1>0. SUFFICES ASSUME NEW u \in Threads PROVE (Lock = u <=> Clearing(u))'
  BY DEF Locking
<1>a. /\ ThreadTypes /\ TypeOK /\ StoreTypes /\ Held /\ HeldBy(u) /\ HeldBy(t)
      /\ (Lock = u <=> Clearing(u)) /\ (Lock = t <=> Clearing(t))
  BY DEF IInv, Held, Locking, TypeOK
<1>1. ASSUME BeginRefresh(t) PROVE (Lock = u <=> Clearing(u))'
  <2>1. CASE u = t
    BY <1>a, <1>1, <2>1, ConstantTypes, Roles, Regional DEF ThreadTypes, BeginRefresh, Goto
  <2>2. CASE u # t
    BY <1>a, <1>1, <2>2, ConstantTypes DEF ThreadTypes, BeginRefresh, Goto
  <2>. QED
    BY <2>1, <2>2
<1>2. ASSUME GetHit(t) PROVE (Lock = u <=> Clearing(u))'
  <2>1. CASE u = t
    BY <1>a, <1>2, <2>1, ConstantTypes, Roles, Regional DEF ThreadTypes, StoreTypes, GetHit, Goto
  <2>2. CASE u # t
    BY <1>a, <1>2, <2>2, ConstantTypes DEF ThreadTypes, StoreTypes, GetHit, Goto
  <2>. QED
    BY <2>1, <2>2
<1>3. ASSUME GetNextRegion(t) PROVE (Lock = u <=> Clearing(u))'
  <2>1. CASE u = t
    BY <1>a, <1>3, <2>1, ConstantTypes, Roles, Regional DEF ThreadTypes, GetNextRegion, Goto
  <2>2. CASE u # t
    BY <1>a, <1>3, <2>2, ConstantTypes DEF ThreadTypes, GetNextRegion, Goto
  <2>. QED
    BY <2>1, <2>2
<1>4. ASSUME GetMiss(t) PROVE (Lock = u <=> Clearing(u))'
  <2>1. CASE u = t
    BY <1>a, <1>4, <2>1, ConstantTypes, Roles, Regional DEF ThreadTypes, GetMiss, Goto
  <2>2. CASE u # t
    BY <1>a, <1>4, <2>2, ConstantTypes DEF ThreadTypes, GetMiss, Goto
  <2>. QED
    BY <2>1, <2>2
<1>5. ASSUME GotRelease(t) PROVE (Lock = u <=> Clearing(u))'
  <2>1. CASE u = t
    BY <1>a, <1>5, <2>1, ConstantTypes, Roles, Regional DEF ThreadTypes, GotRelease, Goto, Decref,
       Forget
  <2>2. CASE u # t
    BY <1>a, <1>5, <2>2, ConstantTypes DEF ThreadTypes, GotRelease, Goto, Decref, Forget
  <2>. QED
    BY <2>1, <2>2
<1>6. ASSUME CallbackRefCount1(t) PROVE (Lock = u <=> Clearing(u))'
  <2>1. CASE u = t
    BY <1>a, <1>6, <2>1, ConstantTypes, Roles, Regional DEF ThreadTypes, CallbackRefCount1, Goto
  <2>2. CASE u # t
    BY <1>a, <1>6, <2>2, ConstantTypes DEF ThreadTypes, CallbackRefCount1, Goto
  <2>. QED
    BY <2>1, <2>2
<1>7. ASSUME ReservePop(t) PROVE (Lock = u <=> Clearing(u))'
  <2>1. CASE u = t
    BY <1>a, <1>7, <2>1, ConstantTypes, Roles, Regional DEF ThreadTypes, StoreTypes, ReservePop,
       Goto
  <2>2. CASE u # t
    BY <1>a, <1>7, <2>2, ConstantTypes DEF ThreadTypes, StoreTypes, ReservePop, Goto
  <2>. QED
    BY <2>1, <2>2
<1>8. ASSUME ReserveEmpty(t) PROVE (Lock = u <=> Clearing(u))'
  <2>1. CASE u = t
    BY <1>a, <1>8, <2>1, ConstantTypes, Roles, Regional DEF ThreadTypes, ReserveEmpty, Goto
  <2>2. CASE u # t
    BY <1>a, <1>8, <2>2, ConstantTypes DEF ThreadTypes, ReserveEmpty, Goto
  <2>. QED
    BY <2>1, <2>2
<1>9. ASSUME ReserveCheck(t) PROVE (Lock = u <=> Clearing(u))'
  <2>1. CASE u = t
    BY <1>a, <1>9, <2>1, ConstantTypes, Roles, Regional DEF ThreadTypes, ReserveCheck, Goto
  <2>2. CASE u # t
    BY <1>a, <1>9, <2>2, ConstantTypes DEF ThreadTypes, ReserveCheck, Goto
  <2>. QED
    BY <2>1, <2>2
<1>10. ASSUME ReserveAlloc(t) PROVE (Lock = u <=> Clearing(u))'
  <2>1. CASE u = t
    BY <1>a, <1>10, <2>1, ConstantTypes, Roles, Regional DEF ThreadTypes, StoreTypes,
       ReserveAlloc, Goto
  <2>2. CASE u # t
    BY <1>a, <1>10, <2>2, ConstantTypes DEF ThreadTypes, StoreTypes, ReserveAlloc, Goto
  <2>. QED
    BY <2>1, <2>2
<1>11. ASSUME ReserveAllocFail(t) PROVE (Lock = u <=> Clearing(u))'
  <2>1. CASE u = t
    BY <1>a, <1>11, <2>1, ConstantTypes, Roles, Regional DEF ThreadTypes, ReserveAllocFail, Goto,
       Forget
  <2>2. CASE u # t
    BY <1>a, <1>11, <2>2, ConstantTypes DEF ThreadTypes, ReserveAllocFail, Goto, Forget
  <2>. QED
    BY <2>1, <2>2
<1>12. ASSUME ClearLock(t) PROVE (Lock = u <=> Clearing(u))'
  <2>1. CASE u = t
    BY <1>a, <1>12, <2>1, ConstantTypes, Roles, Regional DEF ThreadTypes, ClearLock, Goto
  <2>2. CASE u # t
    BY <1>a, <1>12, <2>2, ConstantTypes DEF ThreadTypes, ClearLock, Goto
  <2>. QED
    BY <2>1, <2>2
<1>13. ASSUME ClearPop(t) PROVE (Lock = u <=> Clearing(u))'
  <2>1. CASE u = t
    BY <1>a, <1>13, <2>1, ConstantTypes, Roles, Regional DEF ThreadTypes, StoreTypes, ClearPop,
       Goto, Decref, Forget
  <2>2. CASE u # t
    BY <1>a, <1>13, <2>2, ConstantTypes DEF ThreadTypes, StoreTypes, ClearPop, Goto, Decref, Forget
  <2>. QED
    BY <2>1, <2>2
<1>14. ASSUME ClearDone(t) PROVE (Lock = u <=> Clearing(u))'
  <2>1. CASE u = t
    BY <1>a, <1>14, <2>1, ConstantTypes, Roles, Regional DEF ThreadTypes, ClearDone, Goto,
       ClearReturn, Forget
  <2>2. CASE u # t
    BY <1>a, <1>14, <2>2, ConstantTypes DEF ThreadTypes, ClearDone, Goto, ClearReturn, Forget
  <2>. QED
    BY <2>1, <2>2
<1>15. ASSUME FillAddress(t) PROVE (Lock = u <=> Clearing(u))'
  <2>1. CASE u = t
    BY <1>a, <1>15, <2>1, ConstantTypes, Roles, Regional DEF ThreadTypes, FillAddress, Goto
  <2>2. CASE u # t
    BY <1>a, <1>15, <2>2, ConstantTypes DEF ThreadTypes, FillAddress, Goto
  <2>. QED
    BY <2>1, <2>2
<1>16. ASSUME FillCopy(t) PROVE (Lock = u <=> Clearing(u))'
  <2>1. CASE u = t
    BY <1>a, <1>16, <2>1, ConstantTypes, Roles, Regional DEF ThreadTypes, FillCopy, Goto
  <2>2. CASE u # t
    BY <1>a, <1>16, <2>2, ConstantTypes DEF ThreadTypes, FillCopy, Goto
  <2>. QED
    BY <2>1, <2>2
<1>17. ASSUME FillFetch(t) PROVE (Lock = u <=> Clearing(u))'
  <2>1. CASE u = t
    BY <1>a, <1>17, <2>1, ConstantTypes, Roles, Regional DEF ThreadTypes, FillFetch, Goto
  <2>2. CASE u # t
    BY <1>a, <1>17, <2>2, ConstantTypes DEF ThreadTypes, FillFetch, Goto
  <2>. QED
    BY <2>1, <2>2
<1>18. ASSUME FillFail(t) PROVE (Lock = u <=> Clearing(u))'
  <2>1. CASE u = t
    BY <1>a, <1>18, <2>1, ConstantTypes, Roles, Regional DEF ThreadTypes, FillFail, Goto, Decref,
       Forget
  <2>2. CASE u # t
    BY <1>a, <1>18, <2>2, ConstantTypes DEF ThreadTypes, FillFail, Goto, Decref, Forget
  <2>. QED
    BY <2>1, <2>2
<1>19. ASSUME ReserveReturn(t) PROVE (Lock = u <=> Clearing(u))'
  <2>1. CASE u = t
    BY <1>a, <1>19, <2>1, ConstantTypes, Roles, Regional DEF ThreadTypes, ReserveReturn, Goto,
       Forget
  <2>2. CASE u # t
    BY <1>a, <1>19, <2>2, ConstantTypes DEF ThreadTypes, ReserveReturn, Goto, Forget
  <2>. QED
    BY <2>1, <2>2
<1>20. ASSUME ReadDevice(t) PROVE (Lock = u <=> Clearing(u))'
  <2>1. CASE u = t
    BY <1>a, <1>20, <2>1, ConstantTypes, Roles, Regional DEF ThreadTypes, ReadDevice, Goto
  <2>2. CASE u # t
    BY <1>a, <1>20, <2>2, ConstantTypes DEF ThreadTypes, ReadDevice, Goto
  <2>. QED
    BY <2>1, <2>2
<1>21. ASSUME ReadNoPut(t) PROVE (Lock = u <=> Clearing(u))'
  <2>1. CASE u = t
    BY <1>a, <1>21, <2>1, ConstantTypes, Roles, Regional DEF ThreadTypes, ReadNoPut, Goto, Forget
  <2>2. CASE u # t
    BY <1>a, <1>21, <2>2, ConstantTypes DEF ThreadTypes, ReadNoPut, Goto, Forget
  <2>. QED
    BY <2>1, <2>2
<1>22. ASSUME Unlink(t) PROVE (Lock = u <=> Clearing(u))'
  <2>1. CASE u = t
    BY <1>a, <1>22, <2>1, ConstantTypes, Roles, Regional DEF ThreadTypes, Unlink, Goto
  <2>2. CASE u # t
    BY <1>a, <1>22, <2>2, ConstantTypes DEF ThreadTypes, Unlink, Goto
  <2>. QED
    BY <2>1, <2>2
<1>23. ASSUME WriteDone(t) PROVE (Lock = u <=> Clearing(u))'
  <2>1. CASE u = t
    BY <1>a, <1>23, <2>1, ConstantTypes, Roles, Regional DEF ThreadTypes, WriteDone, Goto, Forget
  <2>2. CASE u # t
    BY <1>a, <1>23, <2>2, ConstantTypes DEF ThreadTypes, WriteDone, Goto, Forget
  <2>. QED
    BY <2>1, <2>2
<1>24. ASSUME NEW p \in Pages, BeginGet(t, p) PROVE (Lock = u <=> Clearing(u))'
  <2>1. CASE u = t
    BY <1>a, <1>24, <2>1, ConstantTypes, Roles, Regional DEF ThreadTypes, BeginGet, Goto
  <2>2. CASE u # t
    BY <1>a, <1>24, <2>2, ConstantTypes DEF ThreadTypes, BeginGet, Goto
  <2>. QED
    BY <2>1, <2>2
<1>25. ASSUME NEW p \in Pages, WriteDevice(t, p) PROVE (Lock = u <=> Clearing(u))'
  <2>1. CASE u = t
    BY <1>a, <1>25, <2>1, ConstantTypes, Roles, Regional DEF ThreadTypes, WriteDevice, Goto
  <2>2. CASE u # t
    BY <1>a, <1>25, <2>2, ConstantTypes DEF ThreadTypes, WriteDevice, Goto
  <2>. QED
    BY <2>1, <2>2
<1>. QED
  BY <1>1, <1>2, <1>3, <1>4, <1>5, <1>6, <1>7, <1>8, <1>9, <1>10, <1>11, <1>12, <1>13, <1>14,
     <1>15, <1>16, <1>17, <1>18, <1>19, <1>20, <1>21, <1>22, <1>23, <1>24, <1>25 DEF Begin, Get,
     Reserve, Fill, Device
LEMMA StepCalm ==
  ASSUME Apart, IInv, NEW t \in Threads, Begin(t) \/ Get(t) \/ Reserve(t) \/ Fill(t) \/ Device(t)
  PROVE  Calm'
<1>0. SUFFICES ASSUME Quiet, NEW u \in Threads PROVE pc'[u] # "clear" /\ ~Clearing(u)'
  BY DEF Calm, Quiet
<1>a. /\ pc[u] # "clear" /\ ~Clearing(u) /\ pc[t] # "clear" /\ ~Clearing(t)
      /\ ThreadTypes /\ TypeOK /\ Refreshers = {}
  BY <1>0 DEF IInv, Calm, Quiet, TypeOK
<1>. USE DEF Clearing, callVars
<1>1. ASSUME BeginRefresh(t) PROVE pc'[u] # "clear" /\ ~Clearing(u)'
  BY <1>a, <1>1 DEF ThreadTypes, BeginRefresh, Goto
<1>2. ASSUME GetHit(t) PROVE pc'[u] # "clear" /\ ~Clearing(u)'
  BY <1>a, <1>2 DEF ThreadTypes, GetHit, Goto
<1>3. ASSUME GetNextRegion(t) PROVE pc'[u] # "clear" /\ ~Clearing(u)'
  BY <1>a, <1>3 DEF ThreadTypes, GetNextRegion, Goto
<1>4. ASSUME GetMiss(t) PROVE pc'[u] # "clear" /\ ~Clearing(u)'
  BY <1>a, <1>4 DEF ThreadTypes, GetMiss, Goto
<1>5. ASSUME GotRelease(t) PROVE pc'[u] # "clear" /\ ~Clearing(u)'
  BY <1>a, <1>5 DEF ThreadTypes, GotRelease, Goto, Decref, Forget
<1>6. ASSUME CallbackRefCount1(t) PROVE pc'[u] # "clear" /\ ~Clearing(u)'
  BY <1>a, <1>6 DEF ThreadTypes, CallbackRefCount1, Goto
<1>7. ASSUME ReservePop(t) PROVE pc'[u] # "clear" /\ ~Clearing(u)'
  BY <1>a, <1>7 DEF ThreadTypes, ReservePop, Goto
<1>8. ASSUME ReserveEmpty(t) PROVE pc'[u] # "clear" /\ ~Clearing(u)'
  BY <1>a, <1>8 DEF ThreadTypes, ReserveEmpty, Goto
<1>9. ASSUME ReserveCheck(t) PROVE pc'[u] # "clear" /\ ~Clearing(u)'
  <2>1. iR \in R /\ ListHeadTotal[iR] \in Seq(Objects) /\ Distinct(ListHeadTotal[iR])
    BY <1>a, Regional, ListMembers DEF IInv, Lists
  <2>2. Len(ListHeadTotal[iR]) < MaxMems
    BY <1>0, <2>1, MembersFew, ConstantTypes DEF Quiet
  <2>. QED
    BY <1>a, <1>9, <2>2 DEF ThreadTypes, ReserveCheck, Goto
<1>10. ASSUME ReserveAlloc(t) PROVE pc'[u] # "clear" /\ ~Clearing(u)'
  BY <1>a, <1>10 DEF ThreadTypes, ReserveAlloc, Goto
<1>11. ASSUME ReserveAllocFail(t) PROVE pc'[u] # "clear" /\ ~Clearing(u)'
  BY <1>a, <1>11 DEF ThreadTypes, ReserveAllocFail, Goto, Forget
<1>12. ASSUME ClearLock(t) PROVE pc'[u] # "clear" /\ ~Clearing(u)'
  BY <1>a, <1>12 DEF ThreadTypes, ClearLock, Goto
<1>13. ASSUME ClearPop(t) PROVE pc'[u] # "clear" /\ ~Clearing(u)'
  BY <1>a, <1>13 DEF ThreadTypes, ClearPop, Goto, Decref, Forget
<1>14. ASSUME ClearDone(t) PROVE pc'[u] # "clear" /\ ~Clearing(u)'
  BY <1>a, <1>14 DEF ThreadTypes, ClearDone, Goto, ClearReturn, Forget
<1>15. ASSUME FillAddress(t) PROVE pc'[u] # "clear" /\ ~Clearing(u)'
  BY <1>a, <1>15 DEF ThreadTypes, FillAddress, Goto
<1>16. ASSUME FillCopy(t) PROVE pc'[u] # "clear" /\ ~Clearing(u)'
  BY <1>a, <1>16 DEF ThreadTypes, FillCopy, Goto
<1>17. ASSUME FillFetch(t) PROVE pc'[u] # "clear" /\ ~Clearing(u)'
  BY <1>a, <1>17 DEF ThreadTypes, FillFetch, Goto
<1>18. ASSUME FillFail(t) PROVE pc'[u] # "clear" /\ ~Clearing(u)'
  BY <1>a, <1>18 DEF ThreadTypes, FillFail, Goto, Decref, Forget
<1>19. ASSUME ReserveReturn(t) PROVE pc'[u] # "clear" /\ ~Clearing(u)'
  BY <1>a, <1>19, ReturnDoes DEF ThreadTypes
<1>20. ASSUME ReadDevice(t) PROVE pc'[u] # "clear" /\ ~Clearing(u)'
  BY <1>a, <1>20 DEF ThreadTypes, ReadDevice, Goto
<1>21. ASSUME ReadNoPut(t) PROVE pc'[u] # "clear" /\ ~Clearing(u)'
  BY <1>a, <1>21 DEF ThreadTypes, ReadNoPut, Goto, Forget
<1>22. ASSUME Unlink(t) PROVE pc'[u] # "clear" /\ ~Clearing(u)'
  BY <1>a, <1>22 DEF ThreadTypes, Unlink, Goto
<1>23. ASSUME WriteDone(t) PROVE pc'[u] # "clear" /\ ~Clearing(u)'
  BY <1>a, <1>23 DEF ThreadTypes, WriteDone, Goto, Forget
<1>24. ASSUME NEW p \in Pages, BeginGet(t, p) PROVE pc'[u] # "clear" /\ ~Clearing(u)'
  BY <1>a, <1>24 DEF ThreadTypes, BeginGet, Goto
<1>25. ASSUME NEW p \in Pages, WriteDevice(t, p) PROVE pc'[u] # "clear" /\ ~Clearing(u)'
  BY <1>a, <1>25 DEF ThreadTypes, WriteDevice, Goto
<1>. QED
  BY <1>1, <1>2, <1>3, <1>4, <1>5, <1>6, <1>7, <1>8, <1>9, <1>10, <1>11, <1>12, <1>13, <1>14,
     <1>15, <1>16, <1>17, <1>18, <1>19, <1>20, <1>21, <1>22, <1>23, <1>24, <1>25 DEF Begin, Get,
     Reserve, Fill, Device
(***************************************************************************)
(* The lists and the counts.                                               *)
(***************************************************************************)
(* One object enters or leaves lists of its region.                        *)
LEMMA OneRegion ==
  ASSUME Lists, NEW r \in R, NEW o,
         \A q \in R \ {r} : /\ ListHeadEmpty'[q] = ListHeadEmpty[q]
                            /\ ListHeadInUse'[q] = ListHeadInUse[q]
                            /\ ListHeadTotal'[q] = ListHeadTotal[q]
                            /\ o \notin Total(q),
         Distinct(ListHeadEmpty'[r]), Distinct(ListHeadInUse'[r]), Distinct(ListHeadTotal'[r]),
         Empty(r)' \ {o} = Empty(r) \ {o}, InUse(r)' \ {o} = InUse(r) \ {o},
         Total(r)' \ {o} = Total(r) \ {o}, o \in Total(r)'
  PROVE  /\ Lists'
         /\ \A q \in R : /\ Empty(q)' \ {o} = Empty(q) \ {o} /\ InUse(q)' \ {o} = InUse(q) \ {o}
                         /\ Total(q)' \ {o} = Total(q) \ {o}
         /\ On(ListHeadEmpty, o)' <=> o \in Empty(r)'
         /\ On(ListHeadInUse, o)' <=> o \in InUse(r)'
         /\ Allocated(o)'
<1>1. ASSUME NEW q \in R, q # r
      PROVE  /\ Empty(q)' = Empty(q) /\ InUse(q)' = InUse(q) /\ Total(q)' = Total(q)
             /\ o \notin Total(q) /\ o \notin Empty(q) /\ o \notin InUse(q)
  <2>1. Empty(q)' = Empty(q) /\ InUse(q)' = InUse(q) /\ Total(q)' = Total(q)
    BY <1>1 DEF Empty, InUse, Total, Members
  <2>. QED
    BY <1>1, <2>1 DEF Lists
<1>2. ASSUME NEW q \in R
      PROVE  /\ Distinct(ListHeadEmpty'[q]) /\ Distinct(ListHeadInUse'[q])
             /\ Distinct(ListHeadTotal'[q])
             /\ Empty(q)' \subseteq Total(q)' /\ InUse(q)' \subseteq Total(q)'
  <2>0. /\ Distinct(ListHeadEmpty[q]) /\ Distinct(ListHeadInUse[q]) /\ Distinct(ListHeadTotal[q])
        /\ Empty(q) \subseteq Total(q) /\ InUse(q) \subseteq Total(q)
    BY DEF Lists
  <2>1. CASE q = r
    BY <2>0, <2>1
  <2>2. CASE q # r
    BY <1>1, <2>0, <2>2
  <2>. QED
    BY <2>1, <2>2
<1>3. ASSUME NEW p \in R, NEW q \in R, p # q PROVE Total(p)' \cap Total(q)' = {}
  <2>1. Total(p) \cap Total(q) = {}
    BY <1>3 DEF Lists
  <2>2. p # r => Total(p)' = Total(p) /\ o \notin Total(p)
    BY <1>1
  <2>3. q # r => Total(q)' = Total(q) /\ o \notin Total(q)
    BY <1>1
  <2>4. Total(p)' \subseteq {o} \cup Total(p) /\ Total(q)' \subseteq {o} \cup Total(q)
    BY <2>2, <2>3
  <2>. QED
    BY <1>3, <2>1, <2>2, <2>3, <2>4
<1>4. Lists'
  BY <1>2, <1>3 DEF Lists, Distinct
<1>5. \A q \in R : /\ Empty(q)' \ {o} = Empty(q) \ {o} /\ InUse(q)' \ {o} = InUse(q) \ {o}
                  /\ Total(q)' \ {o} = Total(q) \ {o}
  BY <1>1
<1>6. /\ On(ListHeadEmpty, o)' <=> o \in Empty(r)'
      /\ On(ListHeadInUse, o)' <=> o \in InUse(r)'
      /\ Allocated(o)'
  <2>1. On(ListHeadEmpty, o)' <=> \E q \in R : o \in Empty(q)'
    BY DEF On, Empty
  <2>2. On(ListHeadInUse, o)' <=> \E q \in R : o \in InUse(q)'
    BY DEF On, InUse
  <2>. QED
    BY <1>1, <2>1, <2>2 DEF Allocated
<1>. QED
  BY <1>4, <1>5, <1>6

LEMMA SameLists ==
  ASSUME Lists, UNCHANGED listVars
  PROVE  Lists'
<1>1. UNCHANGED <<ListHeadEmpty, ListHeadInUse, ListHeadTotal>>
  BY DEF listVars
<1>2. \A r \in R : /\ ListHeadEmpty'[r] = ListHeadEmpty[r]
                  /\ ListHeadInUse'[r] = ListHeadInUse[r]
                  /\ ListHeadTotal'[r] = ListHeadTotal[r]
                  /\ Empty(r)' = Empty(r) /\ InUse(r)' = InUse(r) /\ Total(r)' = Total(r)
  BY <1>1 DEF Empty, InUse, Total, Members
<1>4. ASSUME NEW r \in R
      PROVE  /\ Distinct(ListHeadEmpty'[r]) /\ Distinct(ListHeadInUse'[r])
             /\ Distinct(ListHeadTotal'[r])
             /\ Empty(r)' \subseteq Total(r)' /\ InUse(r)' \subseteq Total(r)'
  BY <1>2 DEF Lists
<1>5. \A r, q \in R : r # q => Total(r)' \cap Total(q)' = {}
  BY <1>2 DEF Lists
<1>. QED
  BY <1>4, <1>5 DEF Lists, Distinct

(* A thread keeps its part in the counts.                                  *)
Alike(u) ==
    /\ ob'[u] = ob[u] /\ (Owning(u)' <=> Owning(u)) /\ (Calling(u)' <=> Calling(u))
    /\ pc'[u] \in {"fill", "data", "put"} <=> pc[u] \in {"fill", "data", "put"}

LEMMA SameCounts ==
  ASSUME Lists, Counts, UNCHANGED <<listVars, count>>, \A u \in Threads : Alike(u)
  PROVE  Lists' /\ Counts'
<1>1. UNCHANGED <<ListHeadEmpty, ListHeadInUse, ListHeadTotal, count>>
  BY DEF listVars
<1>2. Lists'
  BY SameLists
<1>3. ASSUME NEW q \in Objects
      PROVE  /\ Owner(q)' = Owner(q) /\ Caller(q)' = Caller(q) /\ Reserved(q)' = Reserved(q)
             /\ On(ListHeadEmpty, q)' <=> On(ListHeadEmpty, q)
             /\ On(ListHeadInUse, q)' <=> On(ListHeadInUse, q)
             /\ Allocated(q)' <=> Allocated(q)
  <2>1. Owner(q)' = Owner(q)
    BY DEF Alike, Owner
  <2>2. Caller(q)' = {t \in Threads : ob'[t] = q /\ Calling(t)'}
    BY DEF Caller, Calling
  <2>3. Caller(q) = {t \in Threads : ob[t] = q /\ Calling(t)}
    BY DEF Caller, Calling
  <2>4. Caller(q)' = Caller(q)
    BY <2>2, <2>3 DEF Alike
  <2>5. Reserved(q)' = Reserved(q)
    BY DEF Alike, Reserved
  <2>6. /\ On(ListHeadEmpty, q)' <=> On(ListHeadEmpty, q)
        /\ On(ListHeadInUse, q)' <=> On(ListHeadInUse, q)
        /\ Allocated(q)' <=> Allocated(q)
    BY <1>1 DEF On, Allocated, Total, Members
  <2>. QED
    BY <2>1, <2>4, <2>5, <2>6
<1>4. ASSUME NEW q \in Objects PROVE Owned(q)'
  <2>1. Owned(q)
    BY DEF Counts
  <2>. QED
    BY <1>3, <2>1 DEF Owned
<1>5. ASSUME NEW q \in Objects PROVE Counted(q)'
  <2>1. Counted(q)
    BY DEF Counts
  <2>2. /\ Bit(On(ListHeadEmpty, q))' = Bit(On(ListHeadEmpty, q))
        /\ Bit(On(ListHeadInUse, q))' = Bit(On(ListHeadInUse, q))
        /\ Bit(Reserved(q) # {})' = Bit(Reserved(q) # {})
        /\ Cardinality(Caller(q))' = Cardinality(Caller(q))
    BY <1>3 DEF Bit
  <2>3. Allocated(q)' =>
          count'[q] = 1 + Bit(On(ListHeadEmpty, q))' + Bit(On(ListHeadInUse, q))'
                        + Bit(Reserved(q) # {})' + Cardinality(Caller(q))'
    BY <1>1, <1>3, <2>1, <2>2 DEF Counted
  <2>4. Allocated(q)' /\ Caller(q)' = {} =>
          On(ListHeadEmpty, q)' \/ On(ListHeadInUse, q)' \/ Owner(q)' # {}
    BY <1>3, <2>1 DEF Counted
  <2>5. ~Allocated(q)' => count'[q] = 0 /\ \A u \in Threads : ob'[u] # q
    BY <1>1, <1>3, <2>1 DEF Counted, Alike
  <2>. QED
    BY <2>3, <2>4, <2>5 DEF Counted
<1>. QED
  BY <1>2, <1>4, <1>5 DEF Counts

(* Where an allocated object is.                                           *)
LEMMA ObjectOf ==
  ASSUME IInv, NEW o \in Objects, Allocated(o)
  PROVE  /\ count[o] = 1 + Bit(On(ListHeadEmpty, o)) + Bit(On(ListHeadInUse, o))
                         + Bit(Reserved(o) # {}) + Cardinality(Caller(o))
         /\ count[o] \in Nat /\ Cardinality(Caller(o)) \in Nat
         /\ Cardinality(Caller(o)) = 0 <=> Caller(o) = {}
         /\ On(ListHeadInUse, o) => /\ Owner(o) = {} /\ Reserved(o) = {}
                                    /\ ~On(ListHeadEmpty, o)
         /\ On(ListHeadEmpty, o) => /\ Owner(o) = {} /\ Reserved(o) = {} /\ Caller(o) = {}
                                    /\ ~On(ListHeadInUse, o)
         /\ \A t \in Owner(o) : /\ Owner(o) = {t} /\ Caller(o) \subseteq {t}
                                /\ ~On(ListHeadEmpty, o) /\ ~On(ListHeadInUse, o)
         /\ \A t \in Caller(o) : t \notin Owner(o) => Owner(o) = {} /\ Reserved(o) = {}
         /\ \A t \in Owner(o) : Reserved(o) = IF pc[t] = "count1" THEN {} ELSE {t}
<1>1. Owned(o) /\ Counted(o) /\ count[o] \in Nat
  BY DEF IInv, Counts, TypeOK, StoreTypes
<1>2. Reserved(o) \subseteq Owner(o) /\ Owner(o) \subseteq Threads /\ Caller(o) \subseteq Threads
  BY DEF Reserved, Owner, Owning, Caller
<1>3. \A t \in Owner(o) : /\ Owner(o) = {t} /\ Caller(o) \subseteq {t}
                          /\ ~On(ListHeadEmpty, o) /\ ~On(ListHeadInUse, o)
  BY <1>1, <1>2 DEF Owned
<1>4. \A t \in Owner(o) : Reserved(o) = IF pc[t] = "count1" THEN {} ELSE {t}
  BY <1>3 DEF Reserved, Owner, Owning
<1>5. Cardinality(Caller(o)) \in Nat /\ (Cardinality(Caller(o)) = 0 <=> Caller(o) = {})
  BY CallersFinite
<1>. QED
  BY <1>1, <1>2, <1>3, <1>4, <1>5 DEF Owned, Counted

LEMMA Listed ==
  ASSUME IInv, NEW r \in R, NEW o \in Objects
  PROVE  /\ o \in Empty(r) => On(ListHeadEmpty, o) /\ Allocated(o) /\ o \in Total(r)
         /\ o \in InUse(r) => On(ListHeadInUse, o) /\ Allocated(o) /\ o \in Total(r)
         /\ o \in Total(r) => \A q \in R \ {r} : /\ o \notin Total(q)
                                                /\ o \notin Empty(q) /\ o \notin InUse(q)
  BY DEF IInv, Lists, On, Allocated, Empty, InUse, Total

LEMMA HitCounts ==
  ASSUME IInv, NEW t \in Threads, GetHit(t)
  PROVE  Lists' /\ Counts'
<1>1. PICK o \in Objects :
        /\ o \in InUse(LookupAt(t)) /\ LookupAt(t) \in R
        /\ count' = [count EXCEPT ![o] = @ + 1] /\ ob' = [ob EXCEPT ![t] = o]
        /\ pc[t] = "get" /\ pc' = [pc EXCEPT ![t] = IF t \in Writers THEN "unlink" ELSE "got"]
        /\ UNCHANGED listVars
  BY HitDoes
<1>2. ThreadTypes /\ StoreTypes /\ Lists /\ Counts /\ ob[t] = None
  BY <1>1 DEF IInv, TypeOK, Held, HeldBy, Holding
<1>3. /\ ob'[t] = o /\ pc'[t] \in {"unlink", "got"} /\ count'[o] = count[o] + 1
      /\ UNCHANGED <<ListHeadEmpty, ListHeadInUse, ListHeadTotal>>
  BY <1>1, <1>2 DEF ThreadTypes, StoreTypes, listVars
<1>4. OneStep(t, o)
  BY <1>1, <1>2, <1>3 DEF OneStep, ThreadTypes, StoreTypes, Empty, InUse, Total, Members
<1>5. /\ On(ListHeadInUse, o) /\ Allocated(o) /\ ~On(ListHeadEmpty, o)
      /\ Owner(o) = {} /\ Reserved(o) = {} /\ count[o] \in Nat
      /\ count[o] = 2 + Cardinality(Caller(o)) /\ Cardinality(Caller(o)) \in Nat
  BY <1>1, Listed, ObjectOf, CallersFinite DEF Bit
<1>6. t \notin Caller(o)
  BY <1>1 DEF Caller
<1>7. Owner(o)' = {} /\ Caller(o)' = Caller(o) \cup {t} /\ Reserved(o)' = {}
  <2>1. ~Owning(t)' /\ Calling(t)'
    BY <1>3 DEF Owning, Calling
  <2>. QED
    BY <1>3, <1>4, <1>5, <1>6, <2>1, ThreadsOf
<1>8. /\ On(ListHeadInUse, o)' /\ ~On(ListHeadEmpty, o)' /\ Allocated(o)'
      /\ Lists'
  <2>1. Lists'
    BY <1>1, <1>2, SameLists
  <2>. QED
    BY <1>3, <1>5, <2>1 DEF On, Allocated, Total, Members
<1>9. Cardinality(Caller(o)') = Cardinality(Caller(o)) + 1
  BY <1>6, <1>7, CallersFinite
<1>10. Owned(o)'
  BY <1>7, <1>8 DEF Owned
<1>11. Counted(o)'
  <2>1. count'[o] = 3 + Cardinality(Caller(o))
    BY <1>3, <1>5
  <2>. QED
    BY <1>7, <1>8, <1>9, <2>1, <1>5 DEF Counted, Bit
<1>. QED
  BY <1>2, <1>4, <1>8, <1>10, <1>11, OthersCount

(* A call ends: the object is given back, or it waits for the callback.    *)
LEMMA ReleaseCounts ==
  ASSUME IInv, NEW t \in Threads, GotRelease(t)
  PROVE  Lists' /\ Counts'
<1>0. PICK o \in Objects : o = ob[t] /\ Allocated(o)
  <2>1. ob[t] \in Objects /\ Allocated(ob[t])
    BY Used DEF Holding, GotRelease, Decref, Goto
  <2>. QED
    BY <2>1
<1>1. /\ pc[t] = "got" /\ ThreadTypes /\ StoreTypes /\ Lists /\ Counts
      /\ count' = [count EXCEPT ![o] = @ - 1] /\ UNCHANGED listVars
      /\ pc' = [pc EXCEPT ![t] = IF count[o] = 2 THEN "count1"
                                 ELSE IF t \in Writers THEN "get" ELSE "idle"]
      /\ ob' = [ob EXCEPT ![t] = IF count[o] = 2 THEN o ELSE None]
  BY <1>0 DEF IInv, TypeOK, GotRelease, Decref, Goto
<1>3. t \in Caller(o) /\ t \notin Owner(o)
  BY <1>0, <1>1 DEF Caller, Owner, Owning
<1>4. /\ count[o] = 1 + Bit(On(ListHeadInUse, o)) + Cardinality(Caller(o))
      /\ count[o] \in Nat /\ Cardinality(Caller(o)) \in Nat /\ Cardinality(Caller(o)) # 0
      /\ Owner(o) = {} /\ Reserved(o) = {} /\ ~On(ListHeadEmpty, o)
  BY <1>0, <1>3, ObjectOf DEF Bit
<1>5. /\ UNCHANGED <<ListHeadEmpty, ListHeadInUse, ListHeadTotal>> /\ Lists'
      /\ count'[o] = count[o] - 1
  BY <1>1, <1>0, SameLists DEF listVars, StoreTypes
<1>6. OneStep(t, o)
  BY <1>1, <1>0, <1>5 DEF OneStep, ThreadTypes, StoreTypes, Empty, InUse, Total, Members
<1>7. /\ On(ListHeadInUse, o)' <=> On(ListHeadInUse, o)
      /\ ~On(ListHeadEmpty, o)' /\ Allocated(o)'
  BY <1>0, <1>4, <1>5 DEF On, Allocated, Total, Members
<1>8. /\ Caller(o)' = Caller(o) \ {t} /\ Reserved(o)' = {}
      /\ Owner(o)' = IF count[o] = 2 THEN {t} ELSE {}
  <2>1. /\ pc'[t] # "put" /\ pc'[t] # "got" /\ pc'[t] # "unlink"
        /\ pc'[t] \notin {"fill", "data", "put"}
        /\ ob'[t] = IF count[o] = 2 THEN o ELSE None
        /\ count[o] = 2 => pc'[t] = "count1"
    BY <1>1 DEF ThreadTypes
  <2>2. ~Calling(t)' /\ (count[o] = 2 => Owning(t)') /\ None # o
    BY <1>0, <2>1, ConstantTypes DEF Calling, Owning
  <2>. QED
    BY <1>0, <1>4, <1>6, <2>1, <2>2, ThreadsOf
<1>9. Cardinality(Caller(o)') = Cardinality(Caller(o)) - 1
  BY <1>3, <1>8, CallersFinite
<1>10. CASE count[o] = 2
  <2>1. Cardinality(Caller(o)) = 1 /\ ~On(ListHeadInUse, o)
    BY <1>4, <1>10 DEF Bit
  <2>2. Caller(o) = {t}
    BY <1>3, <2>1, CallersFinite
  <2>3. Owned(o)'
    BY <1>7, <1>8, <1>10, <2>1, <2>2 DEF Owned
  <2>4. Counted(o)'
    BY <1>4, <1>5, <1>7, <1>8, <1>9, <1>10, <2>1 DEF Counted, Bit
  <2>. QED
    BY <1>1, <1>0, <1>5, <1>6, <2>3, <2>4, OthersCount
<1>11. CASE count[o] # 2
  <2>1. Owned(o)'
    BY <1>7, <1>8, <1>11 DEF Owned
  <2>2. Caller(o)' = {} => On(ListHeadInUse, o)
    <3>1. Caller(o)' = {} => Cardinality(Caller(o)') = 0
      BY FS_EmptySet
    <3>. QED
      BY <1>4, <1>9, <1>11, <3>1 DEF Bit
  <2>3. Counted(o)'
    <3>1. count'[o] = 1 + Bit(On(ListHeadInUse, o)) + (Cardinality(Caller(o)) - 1)
      BY <1>4, <1>5 DEF Bit
    <3>. QED
      BY <1>4, <1>7, <1>8, <1>9, <2>2, <3>1 DEF Counted, Bit
  <2>. QED
    BY <1>1, <1>0, <1>5, <1>6, <2>1, <2>3, OthersCount
<1>. QED
  BY <1>10, <1>11

(* The callback puts the object on the empty list.                         *)
LEMMA CallbackCounts ==
  ASSUME IInv, NEW t \in Threads, CallbackRefCount1(t)
  PROVE  Lists' /\ Counts'
<1>0. PICK o \in Objects, r \in R : o = ob[t] /\ r = RegionOf(o) /\ Allocated(o) /\ o \in Total(r)
  <2>1. /\ ob[t] \in Objects /\ Allocated(ob[t]) /\ RegionOf(ob[t]) \in R
        /\ ob[t] \in Total(RegionOf(ob[t]))
    BY Used DEF Holding, CallbackRefCount1, Goto
  <2>. QED
    BY <2>1
<1>1. /\ pc[t] = "count1" /\ ThreadTypes /\ StoreTypes /\ Lists /\ Counts /\ HeldBy(t)
      /\ count' = [count EXCEPT ![o] = @ + 1]
      /\ ListHeadEmpty' = [ListHeadEmpty EXCEPT ![r] = <<o>> \o @]
      /\ UNCHANGED <<ListHeadInUse, ListHeadTotal>>
      /\ pc' = [pc EXCEPT ![t] = ret[t]] /\ ob' = [ob EXCEPT ![t] = None]
  BY <1>0 DEF IInv, TypeOK, CallbackRefCount1, Goto, Held
<1>3. t \in Owner(o) /\ t \notin Caller(o)
  BY <1>0, <1>1 DEF Caller, Owner, Owning
<1>4. /\ count[o] = 1 /\ Caller(o) = {} /\ Owner(o) = {t} /\ Reserved(o) = {}
      /\ ~On(ListHeadEmpty, o) /\ ~On(ListHeadInUse, o)
  <2>1. /\ Caller(o) = {} /\ Owner(o) = {t} /\ Reserved(o) = {}
        /\ ~On(ListHeadEmpty, o) /\ ~On(ListHeadInUse, o)
    BY <1>1, <1>0, <1>3, ObjectOf
  <2>. QED
    BY <1>0, <2>1, ObjectOf DEF Bit
<1>5. /\ ListHeadEmpty[r] \in Seq(Objects) /\ Distinct(ListHeadEmpty[r])
      /\ Distinct(ListHeadInUse[r]) /\ Distinct(ListHeadTotal[r])
      /\ Empty(r) \subseteq Total(r) /\ InUse(r) \subseteq Total(r) /\ o \notin Empty(r)
  BY <1>1, <1>0, <1>4 DEF StoreTypes, Lists, On, Empty
<1>6. /\ Empty(r)' = {o} \cup Empty(r) /\ Distinct(ListHeadEmpty'[r])
      /\ InUse(r)' = InUse(r) /\ Total(r)' = Total(r)
      /\ ListHeadInUse'[r] = ListHeadInUse[r] /\ ListHeadTotal'[r] = ListHeadTotal[r]
  <2>1. ListHeadEmpty'[r] = <<o>> \o ListHeadEmpty[r]
    BY <1>1, <1>0 DEF StoreTypes
  <2>. QED
    BY <1>1, <1>0, <1>5, <2>1, MembersPush DEF Empty, InUse, Total
<1>7. \A q \in R \ {r} : /\ ListHeadEmpty'[q] = ListHeadEmpty[q]
                         /\ ListHeadInUse'[q] = ListHeadInUse[q]
                         /\ ListHeadTotal'[q] = ListHeadTotal[q]
  BY <1>1, <1>0 DEF StoreTypes
<1>8. /\ Lists' /\ On(ListHeadEmpty, o)' /\ ~On(ListHeadInUse, o)' /\ Allocated(o)'
      /\ \A q \in R : /\ Empty(q)' \ {o} = Empty(q) \ {o} /\ InUse(q)' \ {o} = InUse(q) \ {o}
                      /\ Total(q)' \ {o} = Total(q) \ {o}
  <2>1. Distinct(ListHeadInUse'[r]) /\ Distinct(ListHeadTotal'[r])
    BY <1>5, <1>6
  <2>2. o \notin InUse(r)
    BY <1>4 DEF On, InUse
  <2>3. \A q \in R \ {r} : /\ ListHeadEmpty'[q] = ListHeadEmpty[q]
                           /\ ListHeadInUse'[q] = ListHeadInUse[q]
                           /\ ListHeadTotal'[q] = ListHeadTotal[q]
                           /\ o \notin Total(q)
    BY <1>0, <1>1, <1>7 DEF Lists
  <2>4. /\ Empty(r)' \ {o} = Empty(r) \ {o} /\ InUse(r)' \ {o} = InUse(r) \ {o}
        /\ Total(r)' \ {o} = Total(r) \ {o} /\ o \in Total(r)' /\ Distinct(ListHeadEmpty'[r])
        /\ o \in Empty(r)' /\ o \notin InUse(r)'
    BY <1>0, <1>6, <2>2
  <2>. QED
    BY <1>1, <2>1, <2>3, <2>4, OneRegion
<1>9. OneStep(t, o) /\ count'[o] = 2
  <2>1. \A q \in Objects \ {o} : count'[q] = count[q]
    BY <1>1 DEF StoreTypes
  <2>2. count'[o] = 2
    BY <1>1, <1>4 DEF StoreTypes
  <2>. QED
    BY <1>0, <1>1, <1>8, <2>1, <2>2 DEF OneStep, ThreadTypes
<1>11. Owner(o)' = {} /\ Caller(o)' = {} /\ Reserved(o)' = {}
  <2>1. ob'[t] # o
    BY <1>1, <1>0, ConstantTypes DEF ThreadTypes
  <2>. QED
    BY <1>0, <1>4, <1>9, <2>1, ThreadsOf
<1>12. Owned(o)' /\ Counted(o)'
  BY <1>8, <1>9, <1>11, FS_EmptySet DEF Owned, Counted, Bit
<1>. QED
  BY <1>1, <1>0, <1>8, <1>9, <1>12, OthersCount

(* A reservation takes the first object of the empty list.                 *)
LEMMA PopCounts ==
  ASSUME IInv, NEW t \in Threads, ReservePop(t)
  PROVE  Lists' /\ Counts'
<1>0. PICK o \in Objects, r \in R : o = Head(ListHeadEmpty[iR]) /\ r = iR /\ o \in Empty(r)
  <2>1. iR \in R /\ Head(ListHeadEmpty[iR]) \in Empty(iR) /\ Empty(iR) \subseteq Objects
    BY Regional, Usable DEF IInv, ReservePop
  <2>. QED
    BY <2>1
<1>1. /\ pc[t] = "reserve" /\ ThreadTypes /\ StoreTypes /\ Lists /\ Counts /\ ob[t] = None
      /\ ListHeadEmpty' = [ListHeadEmpty EXCEPT ![r] = Tail(@)] /\ ListHeadEmpty[r] # <<>>
      /\ UNCHANGED <<ListHeadInUse, ListHeadTotal, count>>
      /\ pc' = [pc EXCEPT ![t] = "fill"] /\ ob' = [ob EXCEPT ![t] = o]
  BY <1>0 DEF IInv, TypeOK, ReservePop, Goto, Held, HeldBy, Holding
<1>2. /\ On(ListHeadEmpty, o) /\ Allocated(o) /\ o \in Total(r) /\ ~On(ListHeadInUse, o)
      /\ Owner(o) = {} /\ Reserved(o) = {} /\ Caller(o) = {} /\ count[o] = 2
      /\ \A q \in R \ {r} : o \notin Total(q)
  <2>1. /\ On(ListHeadEmpty, o) /\ Allocated(o) /\ o \in Total(r)
        /\ \A q \in R \ {r} : o \notin Total(q)
    BY <1>0, Listed
  <2>2. /\ ~On(ListHeadInUse, o)
        /\ Owner(o) = {} /\ Reserved(o) = {} /\ Caller(o) = {} /\ Cardinality(Caller(o)) = 0
    BY <2>1, ObjectOf
  <2>. QED
    BY <2>1, <2>2, ObjectOf DEF Bit
<1>3. /\ ListHeadEmpty[r] \in Seq(Objects) /\ Distinct(ListHeadEmpty[r])
      /\ Distinct(ListHeadInUse[r]) /\ Distinct(ListHeadTotal[r])
  BY <1>1 DEF StoreTypes, Lists
<1>4. /\ Empty(r)' = Empty(r) \ {o} /\ Distinct(ListHeadEmpty'[r])
      /\ InUse(r)' = InUse(r) /\ Total(r)' = Total(r) /\ o \notin InUse(r)
      /\ ListHeadInUse'[r] = ListHeadInUse[r] /\ ListHeadTotal'[r] = ListHeadTotal[r]
  <2>1. ListHeadEmpty'[r] = Tail(ListHeadEmpty[r])
    BY <1>1 DEF StoreTypes
  <2>. QED
    BY <1>0, <1>1, <1>2, <1>3, <2>1, MembersTail DEF Empty, InUse, Total, On
<1>5. /\ Lists' /\ ~On(ListHeadEmpty, o)' /\ ~On(ListHeadInUse, o)' /\ Allocated(o)'
      /\ \A q \in R : /\ Empty(q)' \ {o} = Empty(q) \ {o} /\ InUse(q)' \ {o} = InUse(q) \ {o}
                      /\ Total(q)' \ {o} = Total(q) \ {o}
  <2>1. Distinct(ListHeadInUse'[r]) /\ Distinct(ListHeadTotal'[r])
    BY <1>3, <1>4
  <2>2. \A q \in R \ {r} : /\ ListHeadEmpty'[q] = ListHeadEmpty[q]
                           /\ ListHeadInUse'[q] = ListHeadInUse[q]
                           /\ ListHeadTotal'[q] = ListHeadTotal[q]
                           /\ o \notin Total(q)
    BY <1>1, <1>2 DEF StoreTypes
  <2>3. /\ Empty(r)' \ {o} = Empty(r) \ {o} /\ InUse(r)' \ {o} = InUse(r) \ {o}
        /\ Total(r)' \ {o} = Total(r) \ {o} /\ o \in Total(r)' /\ Distinct(ListHeadEmpty'[r])
        /\ o \notin Empty(r)' /\ o \notin InUse(r)'
    BY <1>2, <1>4
  <2>. QED
    BY <1>1, <2>1, <2>2, <2>3, OneRegion
<1>6. OneStep(t, o) /\ count'[o] = 2 /\ ob'[t] = o /\ pc'[t] = "fill"
  BY <1>1, <1>2, <1>5 DEF OneStep, ThreadTypes
<1>7. Owner(o)' = {t} /\ Caller(o)' = {} /\ Reserved(o)' # {}
  <2>1. Owning(t)' /\ ~Calling(t)'
    BY <1>6 DEF Owning, Calling
  <2>. QED
    BY <1>2, <1>6, <2>1, ThreadsOf
<1>8. Owned(o)' /\ Counted(o)'
  BY <1>5, <1>6, <1>7, FS_EmptySet DEF Owned, Counted, Bit
<1>. QED
  BY <1>1, <1>5, <1>6, <1>8, OthersCount

(* A new object goes to the total list and to the thread.                  *)
LEMMA AllocCounts ==
  ASSUME IInv, NEW t \in Threads, ReserveAlloc(t)
  PROVE  Lists' /\ Counts'
<1>0. PICK r \in R : r = iR
  BY Regional DEF IInv
<1>1. PICK o \in Objects :
        /\ count[o] = 0 /\ count' = [count EXCEPT ![o] = 2]
        /\ ListHeadTotal' = [ListHeadTotal EXCEPT ![r] = <<o>> \o @] /\ ob' = [ob EXCEPT ![t] = o]
  BY <1>0 DEF ReserveAlloc
<1>2. /\ pc[t] = "alloc" /\ ThreadTypes /\ StoreTypes /\ Lists /\ Counts /\ ob[t] = None
      /\ UNCHANGED <<ListHeadEmpty, ListHeadInUse>> /\ pc' = [pc EXCEPT ![t] = "fill"]
  BY DEF IInv, TypeOK, ReserveAlloc, Goto, Held, HeldBy, Holding
<1>3. ~Allocated(o)
  <2>1. SUFFICES ASSUME Allocated(o) PROVE FALSE
    OBVIOUS
  <2>2. /\ Cardinality(Caller(o)) \in Nat
        /\ count[o] = 1 + Bit(On(ListHeadEmpty, o)) + Bit(On(ListHeadInUse, o))
                         + Bit(Reserved(o) # {}) + Cardinality(Caller(o))
    BY <2>1, ObjectOf
  <2>. QED
    BY <1>1, <2>2 DEF Bit
<1>4. /\ \A q \in R : o \notin Total(q) /\ o \notin Empty(q) /\ o \notin InUse(q)
      /\ \A u \in Threads : ob[u] # o
  BY <1>2, <1>3 DEF Allocated, Lists, Counts, Counted
<1>5. Owner(o) = {} /\ Caller(o) = {} /\ Reserved(o) = {}
  BY <1>4 DEF Owner, Caller, Reserved
<1>6. /\ ListHeadTotal[r] \in Seq(Objects) /\ Distinct(ListHeadEmpty[r])
      /\ Distinct(ListHeadInUse[r]) /\ Distinct(ListHeadTotal[r])
  BY <1>2 DEF StoreTypes, Lists
<1>7. /\ Total(r)' = {o} \cup Total(r) /\ Distinct(ListHeadTotal'[r])
      /\ InUse(r)' = InUse(r) /\ Empty(r)' = Empty(r)
      /\ ListHeadInUse'[r] = ListHeadInUse[r] /\ ListHeadEmpty'[r] = ListHeadEmpty[r]
  <2>1. ListHeadTotal'[r] = <<o>> \o ListHeadTotal[r]
    BY <1>1, <1>2 DEF StoreTypes
  <2>. QED
    BY <1>2, <1>4, <1>6, <2>1, MembersPush DEF Empty, InUse, Total
<1>8. /\ Lists' /\ ~On(ListHeadEmpty, o)' /\ ~On(ListHeadInUse, o)' /\ Allocated(o)'
      /\ \A q \in R : /\ Empty(q)' \ {o} = Empty(q) \ {o} /\ InUse(q)' \ {o} = InUse(q) \ {o}
                      /\ Total(q)' \ {o} = Total(q) \ {o}
  <2>1. Distinct(ListHeadInUse'[r]) /\ Distinct(ListHeadEmpty'[r])
    BY <1>6, <1>7
  <2>2. \A q \in R \ {r} : /\ ListHeadEmpty'[q] = ListHeadEmpty[q]
                           /\ ListHeadInUse'[q] = ListHeadInUse[q]
                           /\ ListHeadTotal'[q] = ListHeadTotal[q]
                           /\ o \notin Total(q)
    BY <1>1, <1>2, <1>4 DEF StoreTypes
  <2>3. /\ Empty(r)' \ {o} = Empty(r) \ {o} /\ InUse(r)' \ {o} = InUse(r) \ {o}
        /\ Total(r)' \ {o} = Total(r) \ {o} /\ o \in Total(r)' /\ Distinct(ListHeadTotal'[r])
        /\ o \notin Empty(r)' /\ o \notin InUse(r)'
    BY <1>4, <1>7
  <2>. QED
    BY <1>2, <2>1, <2>2, <2>3, OneRegion
<1>9. OneStep(t, o) /\ count'[o] = 2 /\ ob'[t] = o /\ pc'[t] = "fill"
  BY <1>1, <1>2, <1>8 DEF OneStep, ThreadTypes, StoreTypes
<1>10. Owner(o)' = {t} /\ Caller(o)' = {} /\ Reserved(o)' # {}
  <2>1. Owning(t)' /\ ~Calling(t)'
    BY <1>9 DEF Owning, Calling
  <2>. QED
    BY <1>5, <1>9, <2>1, ThreadsOf
<1>11. Owned(o)' /\ Counted(o)'
  BY <1>8, <1>9, <1>10, FS_EmptySet DEF Owned, Counted, Bit
<1>. QED
  BY <1>2, <1>8, <1>9, <1>11, OthersCount

(* A clear takes the first object of the list in use.                      *)
LEMMA ClearCounts ==
  ASSUME IInv, NEW t \in Threads, ClearPop(t)
  PROVE  Lists' /\ Counts'
<1>0. PICK o \in Objects, r \in R : o = Head(ListHeadInUse[Oldest]) /\ r = Oldest /\ o \in InUse(r)
  <2>1. /\ Oldest \in R /\ Head(ListHeadInUse[Oldest]) \in InUse(Oldest)
        /\ InUse(Oldest) \subseteq Objects
    BY Regional, Usable DEF IInv, ClearPop
  <2>. QED
    BY <2>1
<1>1. /\ pc[t] = "clearing" /\ ThreadTypes /\ StoreTypes /\ Lists /\ Counts /\ ob[t] = None
      /\ ListHeadInUse' = [ListHeadInUse EXCEPT ![r] = Tail(@)] /\ ListHeadInUse[r] # <<>>
      /\ UNCHANGED <<ListHeadEmpty, ListHeadTotal>>
      /\ count' = [count EXCEPT ![o] = @ - 1]
      /\ pc' = [pc EXCEPT ![t] = IF count[o] = 2 THEN "count1" ELSE "clearing"]
      /\ ob' = [ob EXCEPT ![t] = IF count[o] = 2 THEN o ELSE None]
  BY <1>0 DEF IInv, TypeOK, ClearPop, Decref, Goto, Held, HeldBy, Holding
<1>2. /\ On(ListHeadInUse, o) /\ Allocated(o) /\ o \in Total(r) /\ ~On(ListHeadEmpty, o)
      /\ Owner(o) = {} /\ Reserved(o) = {} /\ count[o] = 2 + Cardinality(Caller(o))
      /\ Cardinality(Caller(o)) \in Nat /\ (Cardinality(Caller(o)) = 0 <=> Caller(o) = {})
      /\ \A q \in R \ {r} : o \notin Total(q)
  <2>1. /\ On(ListHeadInUse, o) /\ Allocated(o) /\ o \in Total(r)
        /\ \A q \in R \ {r} : o \notin Total(q)
    BY <1>0, Listed
  <2>2. /\ ~On(ListHeadEmpty, o)
        /\ Owner(o) = {} /\ Reserved(o) = {} /\ Cardinality(Caller(o)) \in Nat
        /\ Cardinality(Caller(o)) = 0 <=> Caller(o) = {}
    BY <2>1, ObjectOf
  <2>. QED
    BY <2>1, <2>2, ObjectOf DEF Bit
<1>3. /\ ListHeadInUse[r] \in Seq(Objects) /\ Distinct(ListHeadEmpty[r])
      /\ Distinct(ListHeadInUse[r]) /\ Distinct(ListHeadTotal[r])
  BY <1>1 DEF StoreTypes, Lists
<1>4. /\ InUse(r)' = InUse(r) \ {o} /\ Distinct(ListHeadInUse'[r])
      /\ Empty(r)' = Empty(r) /\ Total(r)' = Total(r) /\ o \notin Empty(r)
      /\ ListHeadEmpty'[r] = ListHeadEmpty[r] /\ ListHeadTotal'[r] = ListHeadTotal[r]
  <2>1. ListHeadInUse'[r] = Tail(ListHeadInUse[r])
    BY <1>1 DEF StoreTypes
  <2>. QED
    BY <1>0, <1>1, <1>2, <1>3, <2>1, MembersTail DEF Empty, InUse, Total, On
<1>5. /\ Lists' /\ ~On(ListHeadEmpty, o)' /\ ~On(ListHeadInUse, o)' /\ Allocated(o)'
      /\ \A q \in R : /\ Empty(q)' \ {o} = Empty(q) \ {o} /\ InUse(q)' \ {o} = InUse(q) \ {o}
                      /\ Total(q)' \ {o} = Total(q) \ {o}
  <2>1. Distinct(ListHeadEmpty'[r]) /\ Distinct(ListHeadTotal'[r])
    BY <1>3, <1>4
  <2>2. \A q \in R \ {r} : /\ ListHeadEmpty'[q] = ListHeadEmpty[q]
                           /\ ListHeadInUse'[q] = ListHeadInUse[q]
                           /\ ListHeadTotal'[q] = ListHeadTotal[q]
                           /\ o \notin Total(q)
    BY <1>1, <1>2 DEF StoreTypes
  <2>3. /\ Empty(r)' \ {o} = Empty(r) \ {o} /\ InUse(r)' \ {o} = InUse(r) \ {o}
        /\ Total(r)' \ {o} = Total(r) \ {o} /\ o \in Total(r)' /\ Distinct(ListHeadInUse'[r])
        /\ o \notin Empty(r)' /\ o \notin InUse(r)'
    BY <1>2, <1>4
  <2>. QED
    BY <1>1, <2>1, <2>2, <2>3, OneRegion
<1>6. /\ OneStep(t, o) /\ count'[o] = count[o] - 1
      /\ pc'[t] = IF count[o] = 2 THEN "count1" ELSE "clearing"
      /\ ob'[t] = IF count[o] = 2 THEN o ELSE None
  BY <1>1, <1>2, <1>5 DEF OneStep, ThreadTypes, StoreTypes
<1>7. /\ Caller(o)' = Caller(o) /\ Reserved(o)' = {}
      /\ Owner(o)' = IF count[o] = 2 THEN {t} ELSE {}
  <2>1. t \notin Caller(o)
    BY <1>1, ConstantTypes DEF Caller
  <2>2. /\ ~Calling(t)' /\ (count[o] = 2 => Owning(t)') /\ None # o
        /\ pc'[t] \notin {"fill", "data", "put"}
    BY <1>6, ConstantTypes DEF Calling, Owning
  <2>3. Caller(o)' = (Caller(o) \ {t}) \cup {u \in {t} : ob'[t] = o /\ Calling(t)'}
    BY <1>6, ThreadsOf
  <2>4. Caller(o)' = Caller(o)
    BY <2>1, <2>2, <2>3
  <2>5. Reserved(o)' = {} /\ Owner(o)' = IF count[o] = 2 THEN {t} ELSE {}
    BY <1>2, <1>6, <2>2, ThreadsOf
  <2>. QED
    BY <2>4, <2>5
<1>8. Counted(o)'
  <2>1. count'[o] = 1 + Cardinality(Caller(o)') /\ (Caller(o)' = {} <=> count[o] = 2)
    BY <1>2, <1>6, <1>7
  <2>. QED
    BY <1>2, <1>5, <1>7, <2>1 DEF Counted, Bit
<1>9. Owned(o)'
  BY <1>2, <1>5, <1>7 DEF Owned
<1>. QED
  BY <1>1, <1>5, <1>6, <1>8, <1>9, OthersCount

(* A fetch fills its object and becomes its caller.                        *)
LEMMA FetchCounts ==
  ASSUME IInv, NEW t \in Threads, FillFetch(t)
  PROVE  Lists' /\ Counts'
<1>0. PICK o \in Objects : o = ob[t] /\ Allocated(o)
  <2>1. ob[t] \in Objects /\ Allocated(ob[t])
    BY Used DEF Holding, FillFetch, Goto
  <2>. QED
    BY <2>1
<1>1. /\ pc[t] = "data" /\ t \in Fetchers /\ ThreadTypes /\ StoreTypes /\ Lists /\ Counts
      /\ UNCHANGED listVars /\ count' = [count EXCEPT ![o] = @ + 1]
      /\ pc' = [pc EXCEPT ![t] = "put"] /\ UNCHANGED ob
  BY <1>0 DEF IInv, TypeOK, FillFetch, Goto
<1>2. t \in Owner(o) /\ t \notin Caller(o)
  BY <1>0, <1>1 DEF Caller, Owner, Owning
<1>3. /\ count[o] = 2 /\ Caller(o) = {} /\ Owner(o) = {t} /\ Reserved(o) = {t}
      /\ ~On(ListHeadEmpty, o) /\ ~On(ListHeadInUse, o)
  <2>1. /\ Caller(o) = {} /\ Owner(o) = {t} /\ Reserved(o) = {t} /\ Cardinality(Caller(o)) = 0
        /\ ~On(ListHeadEmpty, o) /\ ~On(ListHeadInUse, o)
    BY <1>0, <1>1, <1>2, ObjectOf
  <2>2. count[o] = 1 + Bit(On(ListHeadEmpty, o)) + Bit(On(ListHeadInUse, o))
                     + Bit(Reserved(o) # {}) + Cardinality(Caller(o))
    BY <1>0, ObjectOf
  <2>3. Bit(Reserved(o) # {}) = 1 /\ Bit(On(ListHeadEmpty, o)) = 0 /\ Bit(On(ListHeadInUse, o)) = 0
    BY <2>1 DEF Bit
  <2>. QED
    BY <2>1, <2>2, <2>3
<1>4. /\ UNCHANGED <<ListHeadEmpty, ListHeadInUse, ListHeadTotal>> /\ Lists'
      /\ count'[o] = 3
  BY <1>1, <1>3, SameLists DEF listVars, StoreTypes
<1>5. OneStep(t, o) /\ ob'[t] = o /\ pc'[t] = "put"
  BY <1>0, <1>1, <1>4 DEF OneStep, ThreadTypes, StoreTypes, Empty, InUse, Total, Members
<1>6. ~On(ListHeadInUse, o)' /\ ~On(ListHeadEmpty, o)' /\ Allocated(o)'
  BY <1>0, <1>3, <1>4 DEF On, Allocated, Total, Members
<1>7. Owner(o)' = {t} /\ Caller(o)' = {t} /\ Reserved(o)' # {}
  <2>1. Owning(t)' /\ Calling(t)'
    BY <1>1, <1>5 DEF Owning, Calling
  <2>. QED
    BY <1>3, <1>5, <2>1, ThreadsOf
<1>8. Owned(o)' /\ Counted(o)'
  <2>1. Cardinality(Caller(o)') = 1
    BY <1>7, FS_Singleton
  <2>2. Owned(o)'
    BY <1>6, <1>7 DEF Owned
  <2>3. Counted(o)'
    BY <1>4, <1>6, <1>7, <2>1 DEF Counted, Bit
  <2>. QED
    BY <2>2, <2>3
<1>. QED
  BY <1>1, <1>4, <1>5, <1>8, OthersCount

(* A fetch that failed waits for the callback.                             *)
LEMMA FailCounts ==
  ASSUME IInv, NEW t \in Threads, FillFail(t)
  PROVE  Lists' /\ Counts'
<1>0. PICK o \in Objects : o = ob[t] /\ Allocated(o)
  <2>1. ob[t] \in Objects /\ Allocated(ob[t])
    BY Used DEF Holding, FillFail, Decref, Goto
  <2>. QED
    BY <2>1
<1>1. /\ pc[t] = "data" /\ t \in Fetchers /\ ThreadTypes /\ StoreTypes /\ Lists /\ Counts
      /\ UNCHANGED listVars /\ count' = [count EXCEPT ![o] = @ - 1]
      /\ count[o] = 2 => /\ pc' = [pc EXCEPT ![t] = "count1"]
                         /\ ob' = [ob EXCEPT ![t] = o]
  BY <1>0 DEF IInv, TypeOK, FillFail, Decref, Goto
<1>2. t \in Owner(o) /\ t \notin Caller(o)
  BY <1>0, <1>1 DEF Caller, Owner, Owning
<1>3. /\ count[o] = 2 /\ Caller(o) = {} /\ Owner(o) = {t} /\ Reserved(o) = {t}
      /\ ~On(ListHeadEmpty, o) /\ ~On(ListHeadInUse, o)
  <2>1. /\ Caller(o) = {} /\ Owner(o) = {t} /\ Reserved(o) = {t} /\ Cardinality(Caller(o)) = 0
        /\ ~On(ListHeadEmpty, o) /\ ~On(ListHeadInUse, o)
    BY <1>0, <1>1, <1>2, ObjectOf
  <2>2. count[o] = 1 + Bit(On(ListHeadEmpty, o)) + Bit(On(ListHeadInUse, o))
                     + Bit(Reserved(o) # {}) + Cardinality(Caller(o))
    BY <1>0, ObjectOf
  <2>3. Bit(Reserved(o) # {}) = 1 /\ Bit(On(ListHeadEmpty, o)) = 0 /\ Bit(On(ListHeadInUse, o)) = 0
    BY <2>1 DEF Bit
  <2>. QED
    BY <2>1, <2>2, <2>3
<1>4. /\ UNCHANGED <<ListHeadEmpty, ListHeadInUse, ListHeadTotal>> /\ Lists'
      /\ count'[o] = 1
  BY <1>1, <1>3, SameLists DEF listVars, StoreTypes
<1>5. OneStep(t, o) /\ ob'[t] = o /\ pc'[t] = "count1"
  BY <1>0, <1>1, <1>3, <1>4 DEF OneStep, ThreadTypes, StoreTypes, Empty, InUse, Total, Members
<1>6. ~On(ListHeadInUse, o)' /\ ~On(ListHeadEmpty, o)' /\ Allocated(o)'
  BY <1>0, <1>3, <1>4 DEF On, Allocated, Total, Members
<1>7. Owner(o)' = {t} /\ Caller(o)' = {} /\ Reserved(o)' = {}
  <2>1. Owning(t)' /\ ~Calling(t)'
    BY <1>1, <1>5 DEF Owning, Calling
  <2>. QED
    BY <1>3, <1>5, <2>1, ThreadsOf
<1>8. Owned(o)' /\ Counted(o)'
  BY <1>4, <1>6, <1>7, FS_EmptySet DEF Owned, Counted, Bit
<1>. QED
  BY <1>1, <1>4, <1>5, <1>8, OthersCount

(* The object enters its region.                                           *)
LEMMA ReturnCounts ==
  ASSUME IInv, NEW t \in Threads, ReserveReturn(t)
  PROVE  Lists' /\ Counts'
<1>0. PICK o \in Objects, r \in R : o = ob[t] /\ r = RegionOf(o) /\ Allocated(o) /\ o \in Total(r)
  <2>1. /\ ob[t] \in Objects /\ Allocated(ob[t]) /\ RegionOf(ob[t]) \in R
        /\ ob[t] \in Total(RegionOf(ob[t]))
    BY Used DEF Holding, ReserveReturn
  <2>. QED
    BY <2>1
<1>1. /\ pc[t] = "put" /\ ThreadTypes /\ StoreTypes /\ Lists /\ Counts
      /\ UNCHANGED <<ListHeadEmpty, ListHeadTotal, count>>
      /\ pc' = [pc EXCEPT ![t] = IF t \in Fetchers THEN "got" ELSE "idle"]
      /\ ob' = [ob EXCEPT ![t] = IF t \in Fetchers THEN @ ELSE None]
  BY ReturnDoes DEF IInv, TypeOK
<1>a. ListHeadInUse' = [ListHeadInUse EXCEPT ![r] = <<o>> \o @]
  BY <1>0 DEF ReserveReturn
<1>2. t \in Owner(o) /\ (t \in Caller(o) <=> t \in Fetchers)
  BY <1>0, <1>1 DEF Caller, Owner, Owning
<1>3. /\ Caller(o) = (IF t \in Fetchers THEN {t} ELSE {})
      /\ count[o] = 2 + Cardinality(Caller(o)) /\ Cardinality(Caller(o)) \in Nat
      /\ Owner(o) = {t} /\ Reserved(o) = {t}
      /\ ~On(ListHeadEmpty, o) /\ ~On(ListHeadInUse, o)
  <2>1. /\ Caller(o) \subseteq {t} /\ Owner(o) = {t} /\ Reserved(o) = {t}
        /\ Cardinality(Caller(o)) \in Nat
        /\ ~On(ListHeadEmpty, o) /\ ~On(ListHeadInUse, o)
    BY <1>0, <1>1, <1>2, ObjectOf
  <2>2. count[o] = 2 + Cardinality(Caller(o))
    BY <1>0, <2>1, ObjectOf DEF Bit
  <2>3. Caller(o) = IF t \in Fetchers THEN {t} ELSE {}
    BY <1>2, <2>1
  <2>. QED
    BY <2>1, <2>2, <2>3
<1>4. /\ ListHeadInUse[r] \in Seq(Objects) /\ Distinct(ListHeadEmpty[r])
      /\ Distinct(ListHeadInUse[r]) /\ Distinct(ListHeadTotal[r]) /\ o \notin InUse(r)
      /\ o \notin Empty(r)
  BY <1>1, <1>3 DEF StoreTypes, Lists, On, InUse, Empty
<1>5. /\ InUse(r)' = {o} \cup InUse(r) /\ Distinct(ListHeadInUse'[r])
      /\ Empty(r)' = Empty(r) /\ Total(r)' = Total(r)
      /\ ListHeadEmpty'[r] = ListHeadEmpty[r] /\ ListHeadTotal'[r] = ListHeadTotal[r]
  <2>1. ListHeadInUse'[r] = <<o>> \o ListHeadInUse[r]
    BY <1>1, <1>a DEF StoreTypes
  <2>. QED
    BY <1>1, <1>4, <2>1, MembersPush DEF Empty, InUse, Total
<1>6. /\ Lists' /\ ~On(ListHeadEmpty, o)' /\ On(ListHeadInUse, o)' /\ Allocated(o)'
      /\ \A q \in R : /\ Empty(q)' \ {o} = Empty(q) \ {o} /\ InUse(q)' \ {o} = InUse(q) \ {o}
                      /\ Total(q)' \ {o} = Total(q) \ {o}
  <2>1. Distinct(ListHeadEmpty'[r]) /\ Distinct(ListHeadTotal'[r])
    BY <1>4, <1>5
  <2>2. \A q \in R \ {r} : /\ ListHeadEmpty'[q] = ListHeadEmpty[q]
                           /\ ListHeadInUse'[q] = ListHeadInUse[q]
                           /\ ListHeadTotal'[q] = ListHeadTotal[q]
                           /\ o \notin Total(q)
    BY <1>0, <1>1, <1>a DEF StoreTypes, Lists
  <2>3. /\ Empty(r)' \ {o} = Empty(r) \ {o} /\ InUse(r)' \ {o} = InUse(r) \ {o}
        /\ Total(r)' \ {o} = Total(r) \ {o} /\ o \in Total(r)' /\ Distinct(ListHeadInUse'[r])
        /\ o \notin Empty(r)' /\ o \in InUse(r)'
    BY <1>0, <1>4, <1>5
  <2>. QED
    BY <1>1, <2>1, <2>2, <2>3, OneRegion
<1>7. /\ OneStep(t, o) /\ count'[o] = count[o]
      /\ pc'[t] = (IF t \in Fetchers THEN "got" ELSE "idle")
      /\ ob'[t] = (IF t \in Fetchers THEN o ELSE None)
  BY <1>0, <1>1, <1>6 DEF OneStep, ThreadTypes
<1>8. Owner(o)' = {} /\ Caller(o)' = Caller(o) /\ Reserved(o)' = {}
  <2>1. ~Owning(t)' /\ (Calling(t)' <=> t \in Fetchers) /\ None # o
    BY <1>7, ConstantTypes DEF Owning, Calling
  <2>2. /\ Owner(o)' = (Owner(o) \ {t}) \cup {u \in {t} : ob'[t] = o /\ Owning(t)'}
        /\ Caller(o)' = (Caller(o) \ {t}) \cup {u \in {t} : ob'[t] = o /\ Calling(t)'}
    BY <1>7, ThreadsOf
  <2>3. Owner(o)' = {} /\ Caller(o)' = Caller(o)
    BY <1>3, <1>7, <2>1, <2>2
  <2>4. Reserved(o)' \subseteq Owner(o)'
    BY DEF Reserved, Owner, Owning
  <2>. QED
    BY <2>3, <2>4
<1>9. Owned(o)'
  BY <1>6, <1>8 DEF Owned
<1>10. Counted(o)'
  BY <1>3, <1>6, <1>7, <1>8 DEF Counted, Bit
<1>. QED
  BY <1>1, <1>6, <1>7, <1>9, <1>10, OthersCount

LEMMA StepCounts ==
  ASSUME Apart, IInv, NEW t \in Threads, Begin(t) \/ Get(t) \/ Reserve(t) \/ Fill(t) \/ Device(t)
  PROVE  Lists' /\ Counts'
<1>0. ThreadTypes /\ Lists /\ Counts
  BY DEF IInv, TypeOK
<1>. USE DEF Alike, Owning, Calling
<1>1. ASSUME BeginRefresh(t) PROVE Lists' /\ Counts'
  <2>1. UNCHANGED <<listVars, count>>
    BY <1>1 DEF BeginRefresh
  <2>2. \A u \in Threads : Alike(u)
    BY <1>0, <1>1 DEF ThreadTypes, BeginRefresh, Goto
  <2>. QED
    BY <1>0, <2>1, <2>2, SameCounts
<1>2. ASSUME GetHit(t) PROVE Lists' /\ Counts'
  BY <1>2, HitCounts
<1>3. ASSUME GetNextRegion(t) PROVE Lists' /\ Counts'
  <2>1. UNCHANGED <<listVars, count>>
    BY <1>3 DEF GetNextRegion
  <2>2. \A u \in Threads : Alike(u)
    BY <1>0, <1>3 DEF ThreadTypes, GetNextRegion, Goto
  <2>. QED
    BY <1>0, <2>1, <2>2, SameCounts
<1>4. ASSUME GetMiss(t) PROVE Lists' /\ Counts'
  <2>1. UNCHANGED <<listVars, count>>
    BY <1>4 DEF GetMiss
  <2>2. \A u \in Threads : Alike(u)
    BY <1>0, <1>4 DEF ThreadTypes, GetMiss, Goto
  <2>. QED
    BY <1>0, <2>1, <2>2, SameCounts
<1>5. ASSUME GotRelease(t) PROVE Lists' /\ Counts'
  BY <1>5, ReleaseCounts
<1>6. ASSUME CallbackRefCount1(t) PROVE Lists' /\ Counts'
  BY <1>6, CallbackCounts
<1>7. ASSUME ReservePop(t) PROVE Lists' /\ Counts'
  BY <1>7, PopCounts
<1>8. ASSUME ReserveEmpty(t) PROVE Lists' /\ Counts'
  <2>1. UNCHANGED <<listVars, count>>
    BY <1>8 DEF ReserveEmpty
  <2>2. \A u \in Threads : Alike(u)
    BY <1>0, <1>8 DEF ThreadTypes, ReserveEmpty, Goto
  <2>. QED
    BY <1>0, <2>1, <2>2, SameCounts
<1>9. ASSUME ReserveCheck(t) PROVE Lists' /\ Counts'
  <2>1. UNCHANGED <<listVars, count>>
    BY <1>9 DEF ReserveCheck
  <2>2. \A u \in Threads : Alike(u)
    BY <1>0, <1>9 DEF ThreadTypes, ReserveCheck, Goto
  <2>. QED
    BY <1>0, <2>1, <2>2, SameCounts
<1>10. ASSUME ReserveAlloc(t) PROVE Lists' /\ Counts'
  BY <1>10, AllocCounts
<1>11. ASSUME ReserveAllocFail(t) PROVE Lists' /\ Counts'
  <2>1. UNCHANGED <<listVars, count>>
    BY <1>11 DEF ReserveAllocFail
  <2>2. \A u \in Threads : Alike(u)
    BY <1>0, <1>11 DEF ThreadTypes, ReserveAllocFail, Goto, Forget
  <2>. QED
    BY <1>0, <2>1, <2>2, SameCounts
<1>12. ASSUME ClearLock(t) PROVE Lists' /\ Counts'
  <2>1. UNCHANGED <<listVars, count>>
    BY <1>12 DEF ClearLock
  <2>2. \A u \in Threads : Alike(u)
    BY <1>0, <1>12 DEF ThreadTypes, ClearLock, Goto
  <2>. QED
    BY <1>0, <2>1, <2>2, SameCounts
<1>13. ASSUME ClearPop(t) PROVE Lists' /\ Counts'
  BY <1>13, ClearCounts
<1>14. ASSUME ClearDone(t) PROVE Lists' /\ Counts'
  <2>1. UNCHANGED <<listVars, count>>
    BY <1>14 DEF ClearDone
  <2>2. \A u \in Threads : Alike(u)
    BY <1>0, <1>14 DEF ThreadTypes, ClearDone, Goto, ClearReturn, Forget
  <2>. QED
    BY <1>0, <2>1, <2>2, SameCounts
<1>15. ASSUME FillAddress(t) PROVE Lists' /\ Counts'
  <2>1. UNCHANGED <<listVars, count>>
    BY <1>15 DEF FillAddress
  <2>2. \A u \in Threads : Alike(u)
    BY <1>0, <1>15 DEF ThreadTypes, FillAddress, Goto
  <2>. QED
    BY <1>0, <2>1, <2>2, SameCounts
<1>16. ASSUME FillCopy(t) PROVE Lists' /\ Counts'
  <2>1. UNCHANGED <<listVars, count>>
    BY <1>16 DEF FillCopy
  <2>2. \A u \in Threads : Alike(u)
    BY <1>0, <1>16, Roles DEF ThreadTypes, FillCopy, Goto
  <2>. QED
    BY <1>0, <2>1, <2>2, SameCounts
<1>17. ASSUME FillFetch(t) PROVE Lists' /\ Counts'
  BY <1>17, FetchCounts
<1>18. ASSUME FillFail(t) PROVE Lists' /\ Counts'
  BY <1>18, FailCounts
<1>19. ASSUME ReserveReturn(t) PROVE Lists' /\ Counts'
  BY <1>19, ReturnCounts
<1>20. ASSUME ReadDevice(t) PROVE Lists' /\ Counts'
  <2>1. UNCHANGED <<listVars, count>>
    BY <1>20 DEF ReadDevice
  <2>2. \A u \in Threads : Alike(u)
    BY <1>0, <1>20 DEF ThreadTypes, ReadDevice, Goto
  <2>. QED
    BY <1>0, <2>1, <2>2, SameCounts
<1>21. ASSUME ReadNoPut(t) PROVE Lists' /\ Counts'
  <2>1. UNCHANGED <<listVars, count>>
    BY <1>21 DEF ReadNoPut
  <2>2. \A u \in Threads : Alike(u)
    BY <1>0, <1>21 DEF ThreadTypes, ReadNoPut, Goto, Forget
  <2>. QED
    BY <1>0, <2>1, <2>2, SameCounts
<1>22. ASSUME Unlink(t) PROVE Lists' /\ Counts'
  <2>1. UNCHANGED <<listVars, count>>
    BY <1>22 DEF Unlink
  <2>2. \A u \in Threads : Alike(u)
    BY <1>0, <1>22 DEF ThreadTypes, Unlink, Goto
  <2>. QED
    BY <1>0, <2>1, <2>2, SameCounts
<1>23. ASSUME WriteDone(t) PROVE Lists' /\ Counts'
  <2>1. UNCHANGED <<listVars, count>>
    BY <1>23 DEF WriteDone
  <2>2. \A u \in Threads : Alike(u)
    BY <1>0, <1>23 DEF ThreadTypes, WriteDone, Goto, Forget
  <2>. QED
    BY <1>0, <2>1, <2>2, SameCounts
<1>24. ASSUME NEW p \in Pages, BeginGet(t, p) PROVE Lists' /\ Counts'
  <2>1. UNCHANGED <<listVars, count>>
    BY <1>24 DEF BeginGet
  <2>2. \A u \in Threads : Alike(u)
    BY <1>0, <1>24 DEF ThreadTypes, BeginGet, Goto
  <2>. QED
    BY <1>0, <2>1, <2>2, SameCounts
<1>25. ASSUME NEW p \in Pages, WriteDevice(t, p) PROVE Lists' /\ Counts'
  <2>1. UNCHANGED <<listVars, count>>
    BY <1>25 DEF WriteDevice
  <2>2. \A u \in Threads : Alike(u)
    BY <1>0, <1>25 DEF ThreadTypes, WriteDevice, Goto
  <2>. QED
    BY <1>0, <2>1, <2>2, SameCounts
<1>. QED
  BY <1>1, <1>2, <1>3, <1>4, <1>5, <1>6, <1>7, <1>8, <1>9, <1>10, <1>11, <1>12, <1>13, <1>14,
     <1>15, <1>16, <1>17, <1>18, <1>19, <1>20, <1>21, <1>22, <1>23, <1>24, <1>25 DEF Begin, Get,
     Reserve, Fill, Device
(***************************************************************************)
(* The chains and the contents.                                            *)
(***************************************************************************)
LEMMA SameChains ==
  ASSUME Chained, UNCHANGED <<chainVars, ListHeadInUse, iR, Lock>>
  PROVE  Chained'
<1>1. UNCHANGED <<B, FLink, BLink, ListHeadInUse, iR, Lock>>
  BY DEF chainVars
<1>2. \A r : (Locked(r)' <=> Locked(r)) /\ InUse(r)' = InUse(r)
  BY <1>1 DEF Locked, Oldest, InUse, Members
<1>. QED
  BY <1>1, <1>2 DEF Chained

LEMMA SameBack ==
  ASSUME ChainedBack, UNCHANGED <<BLink, ListHeadInUse>>,
         \A u \in Threads : pc'[u] \in {"unlink", "got"} =>
            pc[u] \in {"unlink", "got"} /\ ob'[u] = ob[u]
  PROVE  ChainedBack'
<1>1. \A r : InUse(r)' = InUse(r)
  BY DEF InUse, Members
<1>2. \A o : On(ListHeadInUse, o)' <=> On(ListHeadInUse, o)
  BY DEF On, Members
<1>3. ASSUME Quiet
      PROVE  /\ \A r \in R : \A o \in InUse(r)' : BLink'[o] \in InUse(r)' \cup {None}
             /\ \A u \in Threads : pc'[u] \in {"unlink", "got"} =>
                  \E r \in R : ob'[u] \in InUse(r)'
  <2>1. \A r \in R : \A o \in InUse(r) : BLink[o] \in InUse(r) \cup {None}
    BY <1>3 DEF ChainedBack
  <2>2. \A u \in Threads : pc[u] \in {"unlink", "got"} => \E r \in R : ob[u] \in InUse(r)
    BY <1>3 DEF ChainedBack, On, InUse
  <2>. QED
    BY <1>1, <2>1, <2>2
<1>. QED
  BY <1>3 DEF ChainedBack, On, InUse, Quiet

LEMMA SameContents ==
  ASSUME Contents, UNCHANGED objectVars, \A r \in R : InUse(r)' \subseteq InUse(r),
         \A u \in Threads : pc'[u] \in {"data", "put", "got", "unlink"} =>
            /\ pc'[u] = pc[u] \/ (pc[u] \in {"put", "unlink"} /\ pc'[u] = "got")
            /\ ob'[u] = ob[u] /\ a'[u] = a[u]
  PROVE  Contents'
  BY DEF Contents, objectVars

(* Nobody else uses the object that a thread owns, nobody at all one that  *)
(* is on the empty list.                                                   *)
Using(u, o) == ob[u] = o /\ pc[u] \in {"fill", "data", "put", "got", "unlink"}

LEMMA Alone ==
  ASSUME IInv, NEW t \in Threads, Owning(t)
  PROVE  /\ ob[t] \in Objects /\ \A r \in R : ob[t] \notin InUse(r)
         /\ \A u \in Threads \ {t} : ~Using(u, ob[t])
<1>1. ob[t] \in Objects /\ Allocated(ob[t])
  BY Used DEF Owning, Holding
<1>2. t \in Owner(ob[t])
  BY DEF Owner
<1>3. Owner(ob[t]) = {t} /\ Caller(ob[t]) \subseteq {t} /\ ~On(ListHeadInUse, ob[t])
  BY <1>1, <1>2, ObjectOf
<1>4. \A u \in Threads : Using(u, ob[t]) => u \in Owner(ob[t]) \cup Caller(ob[t])
  BY DEF Using, Owner, Owning, Caller
<1>. QED
  BY <1>1, <1>3, <1>4 DEF On, InUse

LEMMA Unused ==
  ASSUME IInv, NEW r \in R, NEW o \in Empty(r)
  PROVE  o \in Objects /\ (\A q \in R : o \notin InUse(q)) /\ \A u \in Threads : ~Using(u, o)
<1>1. o \in Objects
  BY ListMembers DEF IInv
<1>2. On(ListHeadEmpty, o) /\ Allocated(o)
  BY <1>1, Listed
<1>3. Owner(o) = {} /\ Caller(o) = {} /\ ~On(ListHeadInUse, o)
  BY <1>1, <1>2, ObjectOf
<1>4. \A u \in Threads : Using(u, o) => u \in Owner(o) \cup Caller(o)
  BY DEF Using, Owner, Owning, Caller
<1>. QED
  BY <1>1, <1>3, <1>4 DEF On, InUse

(* The content of an object changes that nobody else uses.                 *)
LEMMA OneContent ==
  ASSUME Contents, UNCHANGED ListHeadInUse, NEW t \in Threads, NEW o \in Objects,
         \A r \in R : o \notin InUse(r), \A r \in R : InUse(r) \subseteq Objects,
         \A q \in Objects \ {o} : qwA'[q] = qwA[q] /\ pb'[q] = pb[q] /\ iB'[q] = iB[q],
         \A u \in Threads \ {t} : /\ ~Using(u, o) /\ ob'[u] = ob[u] /\ a'[u] = a[u]
                                  /\ pc'[u] = pc[u] /\ ob[u] \in Objects \cup {None},
         \A u \in Threads : ob[u] # None <=> Holding(u),
         pc'[t] \in {"data", "put"} => qwA'[ob'[t]] = a'[t],
         pc'[t] = "put" => pb'[ob'[t]][1] = a'[t],
         pc'[t] \notin {"got", "unlink"}
  PROVE  Contents'
<1>1. \A r \in R : InUse(r)' = InUse(r)
  BY DEF InUse, Members
<1>2. \A r \in R : \A q \in InUse(r)' :
        qwA'[q] \in Pages /\ pb'[q][1] = qwA'[q] /\ iB'[q] = Hash[qwA'[q]]
  BY <1>1 DEF Contents
<1>3. ASSUME NEW u \in Threads
      PROVE  /\ pc'[u] \in {"data", "put"} => qwA'[ob'[u]] = a'[u]
             /\ pc'[u] \in {"put", "got", "unlink"} => pb'[ob'[u]][1] = a'[u]
  <2>1. CASE u = t
    BY <2>1
  <2>2. CASE u # t /\ pc[u] \in {"data", "put", "got", "unlink"}
    <3>1. ob[u] \in Objects \ {o}
      BY <2>2 DEF Using, Holding
    <3>. QED
      BY <2>2, <3>1 DEF Contents
  <2>3. CASE u # t /\ pc[u] \notin {"data", "put", "got", "unlink"}
    BY <2>3
  <2>. QED
    BY <2>1, <2>2, <2>3
<1>. QED
  BY <1>2, <1>3 DEF Contents

Places == Chained /\ ChainedBack /\ Contents

LEMMA HitPlaces ==
  ASSUME IInv, NEW t \in Threads, GetHit(t)
  PROVE  Places'
<1>1. PICK o \in Objects :
        /\ o \in InUse(LookupAt(t)) /\ LookupAt(t) \in R /\ qwA[o] = a[t]
        /\ ob' = [ob EXCEPT ![t] = o]
        /\ pc[t] = "get" /\ pc' = [pc EXCEPT ![t] = IF t \in Writers THEN "unlink" ELSE "got"]
        /\ UNCHANGED <<iR, Lock, listVars, chainVars, objectVars, a>>
  BY HitDoes
<1>2. ThreadTypes /\ Chained /\ ChainedBack /\ Contents
  BY DEF IInv, TypeOK
<1>3. Chained'
  BY <1>1, <1>2, SameChains DEF listVars
<1>4. \A r : InUse(r)' = InUse(r)
  BY <1>1 DEF InUse, Members, listVars
<1>5. ChainedBack'
  <2>1. SUFFICES ASSUME Quiet
                 PROVE  /\ \A r \in R : \A q \in InUse(r)' : BLink'[q] \in InUse(r)' \cup {None}
                        /\ \A u \in Threads : pc'[u] \in {"unlink", "got"} =>
                             \E r \in R : ob'[u] \in InUse(r)'
    BY DEF ChainedBack, On, InUse, Quiet
  <2>2. \A r \in R : \A q \in InUse(r) : BLink[q] \in InUse(r) \cup {None}
    BY <1>2, <2>1 DEF ChainedBack
  <2>3. \A u \in Threads : pc[u] \in {"unlink", "got"} => \E r \in R : ob[u] \in InUse(r)
    BY <1>2, <2>1 DEF ChainedBack, On, InUse
  <2>. QED
    BY <1>1, <1>2, <1>4, <2>2, <2>3 DEF ThreadTypes, chainVars
<1>6. Contents'
  <2>1. pb[o][1] = a[t]
    BY <1>1, <1>2 DEF Contents
  <2>2. UNCHANGED <<qwA, pb, iB, a>>
    BY <1>1 DEF objectVars
  <2>. QED
    BY <1>1, <1>2, <1>4, <2>1, <2>2 DEF Contents, ThreadTypes
<1>. QED
  BY <1>3, <1>5, <1>6 DEF Places

LEMMA PopPlaces ==
  ASSUME IInv, NEW t \in Threads, ReservePop(t)
  PROVE  Places'
<1>0. PICK o \in Objects, r \in R : o = Head(ListHeadEmpty[iR]) /\ r = iR /\ o \in Empty(r)
  <2>1. iR \in R /\ Head(ListHeadEmpty[iR]) \in Empty(iR) /\ Empty(iR) \subseteq Objects
    BY Regional, Usable DEF IInv, ReservePop
  <2>. QED
    BY <2>1
<1>1. /\ pc[t] = "reserve" /\ pc' = [pc EXCEPT ![t] = "fill"] /\ ob' = [ob EXCEPT ![t] = o]
      /\ qwA' = [qwA EXCEPT ![o] = None]
      /\ UNCHANGED <<iR, Lock, ListHeadInUse, chainVars, BLink, pb, iB, a>>
  BY <1>0 DEF ReservePop, Goto, callVars, chainVars
<1>2. /\ ThreadTypes /\ StoreTypes /\ TypeOK /\ Chained /\ ChainedBack /\ Contents
      /\ \A u \in Threads : ob[u] # None <=> Holding(u)
  BY DEF IInv, TypeOK, Held, HeldBy
<1>3. Chained'
  BY <1>1, <1>2, SameChains
<1>4. ChainedBack'
  BY <1>1, <1>2, SameBack DEF ThreadTypes
<1>5. Contents'
  <2>1. (\A q \in R : o \notin InUse(q)) /\ \A u \in Threads : ~Using(u, o)
    BY <1>0, Unused
  <2>2. \A q \in R : InUse(q) \subseteq Objects
    BY <1>2, ListMembers
  <2>3. \A q \in Objects \ {o} : qwA'[q] = qwA[q] /\ pb'[q] = pb[q] /\ iB'[q] = iB[q]
    BY <1>1, <1>2 DEF StoreTypes
  <2>4. \A u \in Threads \ {t} : /\ ~Using(u, o) /\ ob'[u] = ob[u] /\ a'[u] = a[u]
                                 /\ pc'[u] = pc[u] /\ ob[u] \in Objects \cup {None}
    BY <1>1, <1>2, <2>1 DEF ThreadTypes
  <2>5. pc'[t] = "fill"
    BY <1>1, <1>2 DEF ThreadTypes
  <2>. QED
    BY <1>1, <1>2, <2>1, <2>2, <2>3, <2>4, <2>5, OneContent
<1>. QED
  BY <1>3, <1>4, <1>5 DEF Places

LEMMA FillPlaces ==
  ASSUME IInv, NEW t \in Threads, FillAddress(t) \/ FillCopy(t) \/ FillFetch(t)
  PROVE  Places'
<1>0. PICK o \in Objects : o = ob[t] /\ (\A r \in R : o \notin InUse(r))
                           /\ \A u \in Threads \ {t} : ~Using(u, o)
  <2>1. Owning(t)
    BY DEF Owning, FillAddress, FillCopy, FillFetch, Goto
  <2>. QED
    BY <2>1, Alone
<1>1. /\ ThreadTypes /\ StoreTypes /\ TypeOK /\ Chained /\ ChainedBack /\ Contents
      /\ \A u \in Threads : ob[u] # None <=> Holding(u)
  BY DEF IInv, TypeOK, Held, HeldBy
<1>2. /\ UNCHANGED <<iR, Lock, ListHeadInUse, chainVars, BLink, iB, a, ob>>
      /\ \/ /\ pc[t] = "fill" /\ pc' = [pc EXCEPT ![t] = "data"]
            /\ qwA' = [qwA EXCEPT ![o] = a[t]] /\ pb' = pb
         \/ /\ pc[t] = "data" /\ pc' = [pc EXCEPT ![t] = "put"] /\ qwA' = qwA
            /\ \E v \in Nat : pb' = [pb EXCEPT ![o] = <<a[t], v>>]
  <2>1. CASE FillAddress(t)
    BY <1>0, <2>1 DEF FillAddress, Goto, listVars, chainVars, callVars
  <2>2. CASE FillCopy(t)
    BY <1>0, <1>1, <2>2 DEF FillCopy, Goto, listVars, chainVars, callVars, ThreadTypes
  <2>3. CASE FillFetch(t)
    <3>1. mem[a[t]] \in Nat
      <4>1. a[t] \in Pages
        BY <2>3, Roles DEF FillFetch, Goto, IInv, Held, HeldBy
      <4>. QED
        BY <1>1, <4>1 DEF StoreTypes
    <3>. QED
      BY <1>0, <2>3, <3>1 DEF FillFetch, Goto, listVars, chainVars, callVars
  <2>. QED
    BY <2>1, <2>2, <2>3
<1>3. Chained'
  BY <1>1, <1>2, SameChains
<1>4. ChainedBack'
  BY <1>1, <1>2, SameBack DEF ThreadTypes
<1>5. Contents'
  <2>1. \A q \in R : InUse(q) \subseteq Objects
    BY <1>1, ListMembers
  <2>2. \A q \in Objects \ {o} : qwA'[q] = qwA[q] /\ pb'[q] = pb[q] /\ iB'[q] = iB[q]
    BY <1>1, <1>2 DEF StoreTypes
  <2>3. \A u \in Threads \ {t} : /\ ~Using(u, o) /\ ob'[u] = ob[u] /\ a'[u] = a[u]
                                 /\ pc'[u] = pc[u] /\ ob[u] \in Objects \cup {None}
    BY <1>0, <1>1, <1>2 DEF ThreadTypes
  <2>4. /\ pc'[t] \in {"data", "put"} => qwA'[ob'[t]] = a'[t]
        /\ pc'[t] = "put" => pb'[ob'[t]][1] = a'[t]
        /\ pc'[t] \notin {"got", "unlink"}
    <3>1. CASE pc[t] = "fill"
      BY <1>0, <1>1, <1>2, <3>1 DEF ThreadTypes, StoreTypes
    <3>2. CASE pc[t] = "data"
      <4>1. qwA[o] = a[t]
        BY <1>0, <1>1, <3>2 DEF Contents
      <4>2. PICK v \in Nat : pb' = [pb EXCEPT ![o] = <<a[t], v>>]
        BY <1>2, <3>2
      <4>3. pb'[o] = <<a[t], v>>
        BY <1>1, <4>2 DEF StoreTypes
      <4>. QED
        BY <1>0, <1>1, <1>2, <3>2, <4>1, <4>3 DEF ThreadTypes
    <3>. QED
      BY <1>2, <3>1, <3>2
  <2>. QED
    BY <1>0, <1>1, <1>2, <2>1, <2>2, <2>3, <2>4, OneContent
<1>. QED
  BY <1>3, <1>4, <1>5 DEF Places

(* Only the region that is locked loses what it has in use.                *)
LEMMA ClearPlaces ==
  ASSUME IInv, NEW t \in Threads, ClearLock(t) \/ ClearPop(t) \/ ClearDone(t)
  PROVE  Places'
<1>1. /\ ThreadTypes /\ StoreTypes /\ TypeOK /\ Chained /\ ChainedBack /\ Contents /\ Lists
      /\ (Lock = t <=> Clearing(t)) /\ (Quiet => pc[t] # "clear" /\ ~Clearing(t))
  BY DEF IInv, TypeOK, Locking, Calm
<1>2. ~Quiet
  BY <1>1 DEF ClearLock, ClearPop, Decref, ClearDone, ClearReturn, Goto, Clearing
<1>3. ChainedBack'
  BY <1>2 DEF ChainedBack, Quiet
<1>4. CASE ClearLock(t)
  <2>1. /\ Lock = None /\ pc' = [pc EXCEPT ![t] = "clearing"]
        /\ UNCHANGED <<iR, B, FLink, ListHeadInUse, objectVars, ob, a>>
    BY <1>4 DEF ClearLock, Goto, chainVars, listVars, callVars
  <2>2. (\A r : InUse(r)' = InUse(r)) /\ \A r : ~Locked(r)
    BY <2>1 DEF InUse, Members, Locked
  <2>3. Chained'
    BY <1>1, <2>1, <2>2 DEF Chained
  <2>4. Contents'
    BY <1>1, <2>1, <2>2, SameContents DEF ThreadTypes
  <2>. QED
    BY <1>3, <2>3, <2>4 DEF Places
<1>5. CASE ClearPop(t)
  <2>1. /\ pc[t] = "clearing" /\ UNCHANGED <<iR, Lock, B, FLink, objectVars, a>>
        /\ pc' = [pc EXCEPT ![t] = IF count[Head(ListHeadInUse[Oldest])] = 2
                                   THEN "count1" ELSE "clearing"]
        /\ ListHeadInUse' = [ListHeadInUse EXCEPT ![Oldest] = Tail(@)]
        /\ \A u \in Threads \ {t} : ob'[u] = ob[u]
        /\ ListHeadInUse[Oldest] # <<>> /\ Oldest \in R
    BY <1>1, <1>5, Regional DEF ClearPop, Decref, Goto, chainVars, listVars, callVars, ThreadTypes
  <2>2. Lock = t
    BY <1>1, <2>1 DEF Clearing
  <2>3. \A r \in R \ {Oldest} : ListHeadInUse'[r] = ListHeadInUse[r]
    BY <1>1, <2>1 DEF StoreTypes
  <2>4. \A r \in R \ {Oldest} : InUse(r)' = InUse(r)
    BY <2>3 DEF InUse, Members
  <2>5. InUse(Oldest)' \subseteq InUse(Oldest)
    <3>1. PICK q \in R : q = Oldest
      BY <2>1
    <3>2. /\ ListHeadInUse[q] # <<>> /\ ListHeadInUse[q] \in Seq(Objects)
          /\ Distinct(ListHeadInUse[q]) /\ ListHeadInUse'[q] = Tail(ListHeadInUse[q])
      BY <1>1, <2>1, <3>1 DEF StoreTypes, Lists
    <3>3. InUse(q)' \subseteq InUse(q)
      BY <3>2, MembersTail DEF InUse
    <3>4. Oldest' = q
      BY <2>1, <3>1 DEF Oldest
    <3>. QED
      BY <3>1, <3>3, <3>4 DEF InUse
  <2>6. Oldest' = Oldest /\ \A r : Locked(r)' <=> Locked(r)
    BY <2>1 DEF Locked, Oldest
  <2>7. \A r : ~Locked(r) <=> r # Oldest
    BY <2>2, ConstantTypes DEF Locked
  <2>8. Chained'
    BY <1>1, <2>1, <2>4, <2>6, <2>7 DEF Chained
  <2>9. Contents'
    <3>1. \A r \in R : InUse(r)' \subseteq InUse(r)
      BY <2>4, <2>5, <2>6 DEF InUse
    <3>2. \A u \in Threads : pc'[u] \in {"data", "put", "got", "unlink"} =>
            pc'[u] = pc[u] /\ ob'[u] = ob[u] /\ a'[u] = a[u]
      BY <1>1, <2>1 DEF ThreadTypes
    <3>. QED
      BY <1>1, <2>1, <3>1, <3>2, SameContents
  <2>. QED
    BY <1>3, <2>8, <2>9 DEF Places
<1>6. CASE ClearDone(t)
  <2>1. PICK q \in R : q = Oldest
    BY <1>1, Regional
  <2>2. /\ pc[t] = "clearing" /\ UNCHANGED <<FLink, ListHeadInUse, objectVars, ob>>
        /\ B' = [B EXCEPT ![q] = [b \in Buckets |-> None]] /\ Lock' = None
        /\ ListHeadInUse[q] = <<>>
        /\ \A u \in Threads \ {t} : a'[u] = a[u] /\ pc'[u] = pc[u]
        /\ pc'[t] \in {"idle", "reserve"}
    BY <1>1, <1>6, <2>1
    DEF ClearDone, ClearReturn, Forget, Goto, chainVars, listVars, ThreadTypes
  <2>3. Lock = t
    BY <1>1, <2>2 DEF Clearing
  <2>4. \A r : ~Locked(r) <=> r # q
    BY <2>1, <2>3, ConstantTypes DEF Locked
  <2>5. (\A r : InUse(r)' = InUse(r)) /\ InUse(q) = {}
    BY <2>2 DEF InUse, Members
  <2>6. \A r \in R \ {q} : B'[r] = B[r]
    BY <1>1, <2>2 DEF StoreTypes
  <2>7. \A b \in Buckets : B'[q][b] = None
    BY <1>1, <2>2 DEF StoreTypes
  <2>8. Chained'
    <3>1. ASSUME NEW r \in R
          PROVE  /\ \A b \in Buckets : B'[r][b] \in InUse(r)' \cup {None}
                 /\ \A o \in InUse(r)' : FLink'[o] \in InUse(r)' \cup {None}
      <4>1. CASE r = q
        BY <2>5, <2>7, <4>1
      <4>2. CASE r # q
        BY <1>1, <2>2, <2>4, <2>5, <2>6, <4>2 DEF Chained
      <4>. QED
        BY <4>1, <4>2
    <3>. QED
      BY <3>1 DEF Chained
  <2>9. Contents'
    BY <1>1, <2>2, <2>5, SameContents
  <2>. QED
    BY <1>3, <2>8, <2>9 DEF Places
<1>. QED
  BY <1>4, <1>5, <1>6

(* The object that returns becomes the first of its chain.                 *)
LEMMA ReturnPlaces ==
  ASSUME IInv, NEW t \in Threads, ReserveReturn(t)
  PROVE  Places'
<1>0. PICK o \in Objects, r \in R : /\ o = ob[t] /\ r = RegionOf(o) /\ o \in Total(r)
                                    /\ \A q \in R : o \notin InUse(q)
                                    /\ \A u \in Threads \ {t} : ~Using(u, o)
  <2>1. /\ ob[t] \in Objects /\ RegionOf(ob[t]) \in R /\ ob[t] \in Total(RegionOf(ob[t]))
    BY Used DEF Holding, ReserveReturn
  <2>2. Owning(t)
    BY DEF Owning, ReserveReturn
  <2>. QED
    BY <2>1, <2>2, Alone
<1>1. /\ ThreadTypes /\ StoreTypes /\ TypeOK /\ Chained /\ ChainedBack /\ Contents /\ Lists
      /\ (\A u \in Threads : ob[u] # None <=> Holding(u)) /\ HeldBy(t)
  BY DEF IInv, TypeOK, Held, HeldBy
<1>2. /\ pc[t] = "put" /\ UNCHANGED <<iR, Lock, qwA, pb>>
      /\ pc' = [pc EXCEPT ![t] = IF t \in Fetchers THEN "got" ELSE "idle"]
      /\ ob' = [ob EXCEPT ![t] = IF t \in Fetchers THEN @ ELSE None]
      /\ a' = [a EXCEPT ![t] = IF t \in Fetchers THEN @ ELSE None]
  BY <1>1, ReturnDoes
<1>3. qwA[o] = a[t] /\ pb[o][1] = a[t] /\ a[t] \in Pages
  <2>1. qwA[o] = a[t] /\ pb[o][1] = a[t]
    BY <1>0, <1>1, <1>2 DEF Contents
  <2>2. a[t] \in Pages
    BY <1>1, <1>2 DEF HeldBy
  <2>. QED
    BY <2>1, <2>2
<1>4. PICK b \in Buckets : b = Hash[qwA[o]]
  BY <1>3, ConstantTypes
<1>5. PICK first \in InUse(r) \cup {None} : first = B[r][b]
  <2>1. ~Locked(r)
    BY <1>0 DEF ReserveReturn
  <2>. QED
    BY <1>1, <2>1 DEF Chained
<1>6. /\ ListHeadInUse' = [ListHeadInUse EXCEPT ![r] = <<o>> \o @]
      /\ iB' = [iB EXCEPT ![o] = b] /\ B' = [B EXCEPT ![r][b] = o]
      /\ FLink' = [FLink EXCEPT ![o] = first]
      /\ BLink' = [q \in Objects |-> CASE q = o -> None [] q = first -> o [] OTHER -> BLink[q]]
  BY <1>0, <1>4, <1>5 DEF ReserveReturn
<1>7. InUse(r)' = {o} \cup InUse(r)
  <2>1. ListHeadInUse'[r] = <<o>> \o ListHeadInUse[r] /\ ListHeadInUse[r] \in Seq(Objects)
    BY <1>1, <1>6 DEF StoreTypes
  <2>. QED
    BY <2>1, MembersPush DEF InUse
<1>8. \A q \in R \ {r} : InUse(q)' = InUse(q) /\ InUse(q) \cap InUse(r) = {}
  <2>1. \A q \in R \ {r} : ListHeadInUse'[q] = ListHeadInUse[q]
    BY <1>1, <1>6 DEF StoreTypes
  <2>2. \A q \in R \ {r} : InUse(q)' = InUse(q)
    BY <2>1 DEF InUse, Members
  <2>3. \A q \in R \ {r} : InUse(q) \cap InUse(r) = {}
    BY <1>1 DEF Lists
  <2>. QED
    BY <2>2, <2>3
<1>9. \A q \in R : InUse(q) \subseteq Objects
  BY <1>1, ListMembers
<1>10. Chained'
  <2>1. \A q : Locked(q)' <=> Locked(q)
    BY <1>2 DEF Locked, Oldest
  <2>2. ASSUME NEW q \in R, ~Locked(q), NEW c \in Buckets
        PROVE  B'[q][c] \in InUse(q)' \cup {None}
    <3>1. B[q][c] \in InUse(q) \cup {None}
      BY <1>1, <2>2 DEF Chained
    <3>2. B'[q][c] = IF q = r /\ c = b THEN o ELSE B[q][c]
      BY <1>1, <1>6 DEF StoreTypes
    <3>. QED
      BY <1>7, <1>8, <3>1, <3>2
  <2>3. ASSUME NEW q \in R, ~Locked(q), NEW x \in InUse(q)'
        PROVE  FLink'[x] \in InUse(q)' \cup {None}
    <3>1. CASE x = o
      <4>1. q = r
        BY <1>0, <1>7, <1>8, <2>3, <3>1
      <4>. QED
        BY <1>1, <1>6, <1>7, <3>1, <4>1 DEF StoreTypes
    <3>2. CASE x # o
      <4>1. x \in InUse(q) /\ x \in Objects
        BY <1>7, <1>8, <1>9, <2>3, <3>2
      <4>2. FLink'[x] = FLink[x] /\ FLink[x] \in InUse(q) \cup {None}
        BY <1>1, <1>6, <2>3, <3>2, <4>1 DEF StoreTypes, Chained
      <4>. QED
        BY <1>7, <1>8, <4>2
    <3>. QED
      BY <3>1, <3>2
  <2>. QED
    BY <2>1, <2>2, <2>3 DEF Chained
<1>11. ChainedBack'
  <2>1. SUFFICES ASSUME Quiet
                 PROVE  /\ \A q \in R : \A x \in InUse(q)' : BLink'[x] \in InUse(q)' \cup {None}
                        /\ \A u \in Threads : pc'[u] \in {"unlink", "got"} =>
                             \E q \in R : ob'[u] \in InUse(q)'
    BY DEF ChainedBack, On, InUse, Quiet
  <2>2. \A q \in R : \A x \in InUse(q) : BLink[x] \in InUse(q) \cup {None}
    BY <1>1, <2>1 DEF ChainedBack
  <2>3. ASSUME NEW q \in R, NEW x \in InUse(q)'
        PROVE  BLink'[x] \in InUse(q)' \cup {None}
    <3>1. CASE x = o
      BY <1>6, <3>1
    <3>2. CASE x # o
      <4>1. x \in InUse(q) /\ x \in Objects
        BY <1>7, <1>8, <1>9, <2>3, <3>2
      <4>2. CASE x = first
        <5>1. q = r
          BY <1>8, <4>1, <4>2, <1>5, <1>9, ConstantTypes
        <5>. QED
          BY <1>6, <1>7, <3>2, <4>1, <4>2, <5>1
      <4>3. CASE x # first
        <5>1. BLink'[x] = BLink[x]
          BY <1>6, <3>2, <4>1, <4>3
        <5>. QED
          BY <1>7, <1>8, <2>2, <4>1, <5>1
      <4>. QED
        BY <4>2, <4>3
    <3>. QED
      BY <3>1, <3>2
  <2>4. ASSUME NEW u \in Threads, pc'[u] \in {"unlink", "got"}
        PROVE  \E q \in R : ob'[u] \in InUse(q)'
    <3>1. CASE u = t
      BY <1>0, <1>1, <1>2, <1>7, <2>4, <3>1 DEF ThreadTypes
    <3>2. CASE u # t
      <4>1. pc[u] \in {"unlink", "got"} /\ ob'[u] = ob[u]
        BY <1>1, <1>2, <2>4, <3>2 DEF ThreadTypes
      <4>2. PICK q \in R : ob[u] \in InUse(q)
        BY <1>1, <2>1, <4>1 DEF ChainedBack, On, InUse
      <4>3. ob[u] \in InUse(q)'
        BY <1>7, <1>8, <4>2
      <4>. QED
        BY <4>1, <4>3
    <3>. QED
      BY <3>1, <3>2
  <2>. QED
    BY <2>3, <2>4
<1>12. Contents'
  <2>1. ASSUME NEW q \in R, NEW x \in InUse(q)'
        PROVE  qwA'[x] \in Pages /\ pb'[x][1] = qwA'[x] /\ iB'[x] = Hash[qwA'[x]]
    <3>1. CASE x = o
      BY <1>1, <1>2, <1>3, <1>4, <1>6, <3>1 DEF StoreTypes
    <3>2. CASE x # o
      <4>1. x \in InUse(q) /\ x \in Objects
        BY <1>7, <1>8, <1>9, <2>1, <3>2
      <4>. QED
        BY <1>1, <1>2, <1>6, <3>2, <4>1 DEF StoreTypes, Contents
    <3>. QED
      BY <3>1, <3>2
  <2>2. ASSUME NEW u \in Threads
        PROVE  /\ pc'[u] \in {"data", "put"} => qwA'[ob'[u]] = a'[u]
               /\ pc'[u] \in {"put", "got", "unlink"} => pb'[ob'[u]][1] = a'[u]
    <3>1. CASE u = t
      BY <1>0, <1>1, <1>2, <1>3, <3>1 DEF ThreadTypes
    <3>2. CASE u # t
      BY <1>1, <1>2, <3>2 DEF ThreadTypes, Contents
    <3>. QED
      BY <3>1, <3>2
  <2>. QED
    BY <2>1, <2>2 DEF Contents
<1>. QED
  BY <1>10, <1>11, <1>12 DEF Places

(* What is unlinked and its neighbours are in use, as nothing is cleared.  *)
LEMMA UnlinkPlaces ==
  ASSUME Apart, IInv, NEW t \in Threads, Unlink(t)
  PROVE  Places'
<1>1. /\ ThreadTypes /\ StoreTypes /\ TypeOK /\ Chained /\ ChainedBack /\ Contents /\ Lists
      /\ HeldBy(t) /\ Calm /\ Locking
  BY DEF IInv, TypeOK, Held
<1>2. Quiet
  BY <1>1, Roles DEF HeldBy, Unlink, Goto, Apart
<1>3. \A r : ~Locked(r)
  <2>1. Lock \notin Threads
    BY <1>1, <1>2 DEF Calm, Locking
  <2>. QED
    BY <1>1, <2>1 DEF StoreTypes, Locked
<1>4. PICK o \in Objects, r \in R : o = ob[t] /\ o \in InUse(r) /\ r = RegionOf(o)
  <2>1. PICK r \in R : ob[t] \in InUse(r)
    BY <1>1, <1>2 DEF ChainedBack, On, InUse, Unlink, Goto
  <2>2. ob[t] \in Objects /\ ob[t] \in Total(r)
    BY <1>1, <2>1, ListMembers DEF Lists
  <2>3. RegionOf(ob[t]) = r
    BY <1>1, <2>2, RegionIs
  <2>. QED
    BY <2>1, <2>2, <2>3
<1>5. PICK next \in InUse(r) \cup {None}, prev \in InUse(r) \cup {None} :
        next = FLink[o] /\ prev = BLink[o]
  BY <1>1, <1>2, <1>3, <1>4 DEF Chained, ChainedBack
<1>6. PICK b \in Buckets : b = iB[o]
  BY <1>1, <1>4, ConstantTypes DEF Contents
<1>7. /\ pc[t] = "unlink" /\ pc' = [pc EXCEPT ![t] = "got"] /\ UNCHANGED <<ob, a>>
      /\ BLink' = [q \in Objects |-> IF q = next THEN prev ELSE BLink[q]]
      /\ FLink' = [q \in Objects |-> IF q = prev THEN next ELSE FLink[q]]
      /\ B' = IF prev = None THEN [B EXCEPT ![r][b] = next] ELSE B
      /\ UNCHANGED <<iR, Lock, ListHeadInUse, objectVars>>
  BY <1>4, <1>5, <1>6 DEF Unlink, Goto, listVars, callVars
<1>8. /\ \A q : InUse(q)' = InUse(q)
      /\ \A q \in R : InUse(q) \subseteq Objects
      /\ \A q \in R \ {r} : InUse(q) \cap InUse(r) = {}
  <2>1. \A q : InUse(q)' = InUse(q)
    BY <1>7 DEF InUse, Members
  <2>2. \A q \in R : InUse(q) \subseteq Objects
    BY <1>1, ListMembers
  <2>. QED
    BY <1>1, <2>1, <2>2 DEF Lists
<1>9. Chained'
  <2>1. ASSUME NEW q \in R, NEW c \in Buckets PROVE B'[q][c] \in InUse(q) \cup {None}
    <3>1. B[q][c] \in InUse(q) \cup {None}
      BY <1>1, <1>3 DEF Chained
    <3>2. B'[q][c] = B[q][c] \/ (q = r /\ B'[q][c] = next)
      BY <1>1, <1>7 DEF StoreTypes
    <3>. QED
      BY <1>5, <3>1, <3>2
  <2>2. ASSUME NEW q \in R, NEW x \in InUse(q) PROVE FLink'[x] \in InUse(q) \cup {None}
    <3>1. FLink[x] \in InUse(q) \cup {None} /\ x \in Objects
      BY <1>1, <1>3, <1>8 DEF Chained
    <3>2. x = prev => q = r
      BY <1>5, <1>8, <3>1, ConstantTypes
    <3>. QED
      BY <1>5, <1>7, <3>1, <3>2
  <2>. QED
    BY <1>8, <2>1, <2>2 DEF Chained
<1>10. ChainedBack'
  <2>1. ASSUME NEW q \in R, NEW x \in InUse(q) PROVE BLink'[x] \in InUse(q) \cup {None}
    <3>1. BLink[x] \in InUse(q) \cup {None} /\ x \in Objects
      BY <1>1, <1>2, <1>8 DEF ChainedBack
    <3>2. x = next => q = r
      BY <1>5, <1>8, <3>1, ConstantTypes
    <3>. QED
      BY <1>5, <1>7, <3>1, <3>2
  <2>2. ASSUME NEW u \in Threads, pc'[u] \in {"unlink", "got"}
        PROVE  \E q \in R : ob'[u] \in InUse(q)
    <3>1. pc[u] \in {"unlink", "got"} /\ ob'[u] = ob[u]
      BY <1>1, <1>7, <2>2 DEF ThreadTypes
    <3>. QED
      BY <1>1, <1>2, <3>1 DEF ChainedBack, On, InUse
  <2>. QED
    BY <1>8, <2>1, <2>2 DEF ChainedBack, On, InUse
<1>11. Contents'
  <2>1. \A u \in Threads : pc'[u] \in {"data", "put", "got", "unlink"} =>
          /\ pc'[u] = pc[u] \/ (pc[u] \in {"put", "unlink"} /\ pc'[u] = "got")
          /\ ob'[u] = ob[u] /\ a'[u] = a[u]
    BY <1>1, <1>7 DEF ThreadTypes
  <2>. QED
    BY <1>1, <1>7, <1>8, <2>1, SameContents
<1>. QED
  BY <1>9, <1>10, <1>11 DEF Places

(* A step that leaves the objects, the chains and what is in use alone.     *)
LEMMA OtherPlaces ==
  ASSUME IInv,
         UNCHANGED <<iR, Lock, ListHeadInUse, B, FLink, BLink, qwA, pb, iB>>,
         \A u \in Threads : pc'[u] \in {"data", "put", "got", "unlink"} =>
            pc'[u] = pc[u] /\ ob'[u] = ob[u] /\ a'[u] = a[u]
  PROVE  Places'
<1>1. Chained /\ ChainedBack /\ Contents
  BY DEF IInv
<1>2. UNCHANGED <<chainVars, objectVars>> /\ \A r : InUse(r)' = InUse(r)
  BY DEF chainVars, objectVars, InUse, Members
<1>3. Chained'
  BY <1>1, <1>2, SameChains
<1>4. ChainedBack'
  BY <1>1, SameBack
<1>5. Contents'
  BY <1>1, <1>2, SameContents
<1>. QED
  BY <1>3, <1>4, <1>5 DEF Places

LEMMA StepPlaces ==
  ASSUME Apart, IInv, NEW t \in Threads, Begin(t) \/ Get(t) \/ Reserve(t) \/ Fill(t) \/ Device(t)
  PROVE  Places'
<1>0. ThreadTypes /\ HeldBy(t)
  BY DEF IInv, TypeOK, Held
<1>1. ASSUME BeginRefresh(t) PROVE Places'
  <2>1. UNCHANGED <<iR, Lock, ListHeadInUse, B, FLink, BLink, qwA, pb, iB>>
    BY <1>1 DEF BeginRefresh, listVars, chainVars, objectVars
  <2>2. \A u \in Threads : pc'[u] \in {"data", "put", "got", "unlink"} =>
          pc'[u] = pc[u] /\ ob'[u] = ob[u] /\ a'[u] = a[u]
    BY <1>0, <1>1 DEF ThreadTypes, callVars, BeginRefresh, Goto
  <2>. QED
    BY <2>1, <2>2, OtherPlaces
<1>2. ASSUME GetHit(t) PROVE Places'
  BY <1>2, HitPlaces
<1>3. ASSUME GetNextRegion(t) PROVE Places'
  <2>1. UNCHANGED <<iR, Lock, ListHeadInUse, B, FLink, BLink, qwA, pb, iB>>
    BY <1>3 DEF GetNextRegion, listVars, chainVars, objectVars
  <2>2. \A u \in Threads : pc'[u] \in {"data", "put", "got", "unlink"} =>
          pc'[u] = pc[u] /\ ob'[u] = ob[u] /\ a'[u] = a[u]
    BY <1>0, <1>3 DEF ThreadTypes, callVars, GetNextRegion, Goto
  <2>. QED
    BY <2>1, <2>2, OtherPlaces
<1>4. ASSUME GetMiss(t) PROVE Places'
  <2>1. UNCHANGED <<iR, Lock, ListHeadInUse, B, FLink, BLink, qwA, pb, iB>>
    BY <1>4 DEF GetMiss, listVars, chainVars, objectVars
  <2>2. \A u \in Threads : pc'[u] \in {"data", "put", "got", "unlink"} =>
          pc'[u] = pc[u] /\ ob'[u] = ob[u] /\ a'[u] = a[u]
    BY <1>0, <1>4 DEF ThreadTypes, callVars, GetMiss, Goto
  <2>. QED
    BY <2>1, <2>2, OtherPlaces
<1>5. ASSUME GotRelease(t) PROVE Places'
  <2>1. UNCHANGED <<iR, Lock, ListHeadInUse, B, FLink, BLink, qwA, pb, iB>>
    BY <1>5 DEF GotRelease, listVars, chainVars, objectVars
  <2>2. \A u \in Threads : pc'[u] \in {"data", "put", "got", "unlink"} =>
          pc'[u] = pc[u] /\ ob'[u] = ob[u] /\ a'[u] = a[u]
    BY <1>0, <1>5 DEF ThreadTypes, callVars, GotRelease, Goto, Decref, Forget
  <2>. QED
    BY <2>1, <2>2, OtherPlaces
<1>6. ASSUME CallbackRefCount1(t) PROVE Places'
  <2>1. UNCHANGED <<iR, Lock, ListHeadInUse, B, FLink, BLink, qwA, pb, iB>>
    BY <1>6 DEF CallbackRefCount1, listVars, chainVars, objectVars
  <2>2. \A u \in Threads : pc'[u] \in {"data", "put", "got", "unlink"} =>
          pc'[u] = pc[u] /\ ob'[u] = ob[u] /\ a'[u] = a[u]
    BY <1>0, <1>6 DEF ThreadTypes, callVars, CallbackRefCount1, Goto
  <2>. QED
    BY <2>1, <2>2, OtherPlaces
<1>7. ASSUME ReservePop(t) PROVE Places'
  BY <1>7, PopPlaces
<1>8. ASSUME ReserveEmpty(t) PROVE Places'
  <2>1. UNCHANGED <<iR, Lock, ListHeadInUse, B, FLink, BLink, qwA, pb, iB>>
    BY <1>8 DEF ReserveEmpty, listVars, chainVars, objectVars
  <2>2. \A u \in Threads : pc'[u] \in {"data", "put", "got", "unlink"} =>
          pc'[u] = pc[u] /\ ob'[u] = ob[u] /\ a'[u] = a[u]
    BY <1>0, <1>8 DEF ThreadTypes, callVars, ReserveEmpty, Goto
  <2>. QED
    BY <2>1, <2>2, OtherPlaces
<1>9. ASSUME ReserveCheck(t) PROVE Places'
  <2>1. UNCHANGED <<iR, Lock, ListHeadInUse, B, FLink, BLink, qwA, pb, iB>>
    BY <1>9 DEF ReserveCheck, listVars, chainVars, objectVars
  <2>2. \A u \in Threads : pc'[u] \in {"data", "put", "got", "unlink"} =>
          pc'[u] = pc[u] /\ ob'[u] = ob[u] /\ a'[u] = a[u]
    BY <1>0, <1>9 DEF ThreadTypes, callVars, ReserveCheck, Goto
  <2>. QED
    BY <2>1, <2>2, OtherPlaces
<1>10. ASSUME ReserveAlloc(t) PROVE Places'
  <2>1. UNCHANGED <<iR, Lock, ListHeadInUse, B, FLink, BLink, qwA, pb, iB>>
    BY <1>10 DEF ReserveAlloc, listVars, chainVars, objectVars
  <2>2. \A u \in Threads : pc'[u] \in {"data", "put", "got", "unlink"} =>
          pc'[u] = pc[u] /\ ob'[u] = ob[u] /\ a'[u] = a[u]
    BY <1>0, <1>10 DEF ThreadTypes, callVars, ReserveAlloc, Goto
  <2>. QED
    BY <2>1, <2>2, OtherPlaces
<1>11. ASSUME ReserveAllocFail(t) PROVE Places'
  <2>1. UNCHANGED <<iR, Lock, ListHeadInUse, B, FLink, BLink, qwA, pb, iB>>
    BY <1>11 DEF ReserveAllocFail, listVars, chainVars, objectVars
  <2>2. \A u \in Threads : pc'[u] \in {"data", "put", "got", "unlink"} =>
          pc'[u] = pc[u] /\ ob'[u] = ob[u] /\ a'[u] = a[u]
    BY <1>0, <1>11 DEF ThreadTypes, callVars, ReserveAllocFail, Goto, Forget
  <2>. QED
    BY <2>1, <2>2, OtherPlaces
<1>12. ASSUME ClearLock(t) PROVE Places'
  BY <1>12, ClearPlaces
<1>13. ASSUME ClearPop(t) PROVE Places'
  BY <1>13, ClearPlaces
<1>14. ASSUME ClearDone(t) PROVE Places'
  BY <1>14, ClearPlaces
<1>15. ASSUME FillAddress(t) PROVE Places'
  BY <1>15, FillPlaces
<1>16. ASSUME FillCopy(t) PROVE Places'
  BY <1>16, FillPlaces
<1>17. ASSUME FillFetch(t) PROVE Places'
  BY <1>17, FillPlaces
<1>18. ASSUME FillFail(t) PROVE Places'
  <2>1. UNCHANGED <<iR, Lock, ListHeadInUse, B, FLink, BLink, qwA, pb, iB>>
    BY <1>18 DEF FillFail, listVars, chainVars, objectVars
  <2>2. \A u \in Threads : pc'[u] \in {"data", "put", "got", "unlink"} =>
          pc'[u] = pc[u] /\ ob'[u] = ob[u] /\ a'[u] = a[u]
    BY <1>0, <1>18 DEF ThreadTypes, callVars, FillFail, Goto, Decref, Forget
  <2>. QED
    BY <2>1, <2>2, OtherPlaces
<1>19. ASSUME ReserveReturn(t) PROVE Places'
  BY <1>19, ReturnPlaces
<1>20. ASSUME ReadDevice(t) PROVE Places'
  <2>1. UNCHANGED <<iR, Lock, ListHeadInUse, B, FLink, BLink, qwA, pb, iB>>
    BY <1>20 DEF ReadDevice, listVars, chainVars, objectVars
  <2>2. \A u \in Threads : pc'[u] \in {"data", "put", "got", "unlink"} =>
          pc'[u] = pc[u] /\ ob'[u] = ob[u] /\ a'[u] = a[u]
    BY <1>0, <1>20 DEF ThreadTypes, callVars, ReadDevice, Goto
  <2>. QED
    BY <2>1, <2>2, OtherPlaces
<1>21. ASSUME ReadNoPut(t) PROVE Places'
  <2>1. UNCHANGED <<iR, Lock, ListHeadInUse, B, FLink, BLink, qwA, pb, iB>>
    BY <1>21 DEF ReadNoPut, listVars, chainVars, objectVars
  <2>2. \A u \in Threads : pc'[u] \in {"data", "put", "got", "unlink"} =>
          pc'[u] = pc[u] /\ ob'[u] = ob[u] /\ a'[u] = a[u]
    BY <1>0, <1>21 DEF ThreadTypes, callVars, ReadNoPut, Goto, Forget
  <2>. QED
    BY <2>1, <2>2, OtherPlaces
<1>22. ASSUME Unlink(t) PROVE Places'
  BY <1>22, UnlinkPlaces
<1>23. ASSUME WriteDone(t) PROVE Places'
  <2>1. UNCHANGED <<iR, Lock, ListHeadInUse, B, FLink, BLink, qwA, pb, iB>>
    BY <1>23 DEF WriteDone, listVars, chainVars, objectVars
  <2>2. \A u \in Threads : pc'[u] \in {"data", "put", "got", "unlink"} =>
          pc'[u] = pc[u] /\ ob'[u] = ob[u] /\ a'[u] = a[u]
    BY <1>0, <1>23 DEF ThreadTypes, callVars, WriteDone, Goto, Forget
  <2>. QED
    BY <2>1, <2>2, OtherPlaces
<1>24. ASSUME NEW p \in Pages, BeginGet(t, p) PROVE Places'
  <2>1. UNCHANGED <<iR, Lock, ListHeadInUse, B, FLink, BLink, qwA, pb, iB>>
    BY <1>24 DEF BeginGet, listVars, chainVars, objectVars
  <2>2. \A u \in Threads : pc'[u] \in {"data", "put", "got", "unlink"} =>
          pc'[u] = pc[u] /\ ob'[u] = ob[u] /\ a'[u] = a[u]
    BY <1>0, <1>24 DEF ThreadTypes, callVars, BeginGet, Goto
  <2>. QED
    BY <2>1, <2>2, OtherPlaces
<1>25. ASSUME NEW p \in Pages, WriteDevice(t, p) PROVE Places'
  <2>1. UNCHANGED <<iR, Lock, ListHeadInUse, B, FLink, BLink, qwA, pb, iB>>
    BY <1>25 DEF WriteDevice, listVars, chainVars, objectVars
  <2>2. \A u \in Threads : pc'[u] \in {"data", "put", "got", "unlink"} =>
          pc'[u] = pc[u] /\ ob'[u] = ob[u] /\ a'[u] = a[u]
    BY <1>0, <1>25 DEF ThreadTypes, callVars, WriteDevice, Goto
  <2>. QED
    BY <2>1, <2>2, OtherPlaces
<1>. QED
  BY <1>1, <1>2, <1>3, <1>4, <1>5, <1>6, <1>7, <1>8, <1>9, <1>10, <1>11, <1>12, <1>13, <1>14,
     <1>15, <1>16, <1>17, <1>18, <1>19, <1>20, <1>21, <1>22, <1>23, <1>24, <1>25 DEF Begin, Get,
     Reserve, Fill, Device
(***************************************************************************)
(* The invariant, and what follows from it.                                *)
(***************************************************************************)
LEMMA InitInv == Init => IInv
<1>. SUFFICES ASSUME Init PROVE IInv
  OBVIOUS
<1>. USE DEF Init
<1>1. TypeOK
  BY ConstantTypes, Regional DEF TypeOK, StoreTypes, ThreadTypes, Pc
<1>2. Held /\ Locking /\ Calm
  BY ConstantTypes DEF Held, HeldBy, Holding, Locking, Clearing, Calm
<1>3. \A r \in R : Empty(r) = {} /\ InUse(r) = {} /\ Total(r) = {}
  BY DEF Empty, InUse, Total, Members
<1>4. Lists
  <2>1. Distinct(<<>>)
    BY DEF Distinct
  <2>. QED
    BY <1>3, <2>1 DEF Lists
<1>5. Counts
  <2>. SUFFICES ASSUME NEW o \in Objects PROVE Owned(o) /\ Counted(o)
    BY DEF Counts
  <2>1. ~On(ListHeadEmpty, o) /\ ~On(ListHeadInUse, o) /\ ~Allocated(o)
    BY <1>3 DEF On, Allocated, Empty, InUse
  <2>2. \A t \in Threads : ob[t] # o
    BY ConstantTypes
  <2>3. Owner(o) = {} /\ Caller(o) = {}
    BY <2>2 DEF Owner, Caller
  <2>4. count[o] = 0
    OBVIOUS
  <2>. QED
    BY <2>1, <2>2, <2>3, <2>4 DEF Owned, Counted
<1>6. Chained /\ ChainedBack /\ Contents
  BY <1>3 DEF Chained, ChainedBack, Contents
<1>. QED
  BY <1>1, <1>2, <1>4, <1>5, <1>6 DEF IInv

LEMMA StutterInv == IInv /\ UNCHANGED vars => IInv'
<1>. SUFFICES ASSUME IInv, UNCHANGED vars PROVE IInv'
  OBVIOUS
<1>1. /\ UNCHANGED <<iR, Lock, listVars, chainVars, count, objectVars, deviceVars,
                     pc, ob, ret, callVars>>
      /\ UNCHANGED <<ListHeadEmpty, ListHeadInUse, ListHeadTotal, B, FLink, BLink, qwA, pb, iB,
                     mem, written, a, i, iRB, buf, need>>
  BY DEF vars, listVars, chainVars, objectVars, deviceVars, callVars
<1>2. TypeOK'
  BY <1>1 DEF IInv, TypeOK, StoreTypes, ThreadTypes
<1>3. Held' /\ Locking' /\ Calm'
  BY <1>1 DEF IInv, Held, HeldBy, Holding, Locking, Calm, Clearing, Quiet
<1>4. Lists' /\ Counts'
  BY <1>1, SameCounts DEF IInv, Alike, Owning, Calling
<1>5. Places'
  BY <1>1, OtherPlaces
<1>. QED
  BY <1>2, <1>3, <1>4, <1>5 DEF IInv, Places

LEMMA StepInv == Apart /\ IInv /\ [Next]_vars => IInv'
<1>. SUFFICES ASSUME Apart, IInv, [Next]_vars PROVE IInv'
  OBVIOUS
<1>1. CASE UNCHANGED vars
  BY <1>1, StutterInv
<1>2. ASSUME NEW t \in Threads, Begin(t) \/ Get(t) \/ Reserve(t) \/ Fill(t) \/ Device(t)
      PROVE  IInv'
  BY <1>2, StepStoreTypes, StepThreadTypes, StepHeld, StepLocking, StepCalm, StepCounts, StepPlaces
  DEF IInv, TypeOK, Places
<1>. QED
  BY <1>1, <1>2 DEF Next

(* A cache that is written or cleared, not both, keeps its invariant,      *)
(* whatever its threads, pages, regions and objects are.                   *)
THEOREM Inductive == ASSUME Apart PROVE Spec => []IInv
<1>1. Init => IInv
  BY InitInv
<1>2. IInv /\ [Next]_vars => IInv'
  BY StepInv
<1>. QED
  BY <1>1, <1>2, PTL DEF Spec

LEMMA PlacesOf ==
  ASSUME IInv, NEW r \in R, NEW o \in Total(r)
  PROVE  /\ o \in Objects /\ Allocated(o) /\ Owned(o) /\ Counted(o)
         /\ Occurrences(o, ListHeadEmpty[r]) = Bit(On(ListHeadEmpty, o))
         /\ Occurrences(o, ListHeadInUse[r]) = Bit(On(ListHeadInUse, o))
         /\ Cardinality(Reserved(o)) = Bit(Reserved(o) # {})
<1>1. o \in Objects /\ Allocated(o) /\ Owned(o) /\ Counted(o)
  BY ListMembers DEF IInv, Allocated, Counts
<1>2. \A q \in R \ {r} : o \notin Empty(q) /\ o \notin InUse(q)
  BY <1>1, Listed
<1>3. /\ On(ListHeadEmpty, o) <=> o \in Members(ListHeadEmpty[r])
      /\ On(ListHeadInUse, o) <=> o \in Members(ListHeadInUse[r])
  BY <1>2 DEF On, Empty, InUse
<1>4. /\ ListHeadEmpty[r] \in Seq(Objects) /\ Distinct(ListHeadEmpty[r])
      /\ ListHeadInUse[r] \in Seq(Objects) /\ Distinct(ListHeadInUse[r])
  BY ListMembers DEF IInv, Lists
<1>5. /\ Occurrences(o, ListHeadEmpty[r]) = Bit(On(ListHeadEmpty, o))
      /\ Occurrences(o, ListHeadInUse[r]) = Bit(On(ListHeadInUse, o))
  BY <1>3, <1>4, OccurrencesIs DEF Bit
<1>6. Cardinality(Reserved(o)) = Bit(Reserved(o) # {})
  <2>1. CASE Reserved(o) = {}
    BY <2>1, FS_EmptySet DEF Bit
  <2>2. ASSUME NEW t \in Reserved(o) PROVE Cardinality(Reserved(o)) = 1
    <3>1. t \in Owner(o) /\ pc[t] # "count1"
      BY <2>2 DEF Reserved, Owner, Owning
    <3>2. Reserved(o) = {t}
      BY <1>1, <3>1, ObjectOf
    <3>. QED
      BY <3>2, FS_Singleton
  <2>. QED
    BY <2>1, <2>2 DEF Bit
<1>. QED
  BY <1>1, <1>5, <1>6

LEMMA CountsImply == IInv => CountIsReferences
  BY PlacesOf DEF CountIsReferences, Counted, Total

LEMMA OwnersImply == IInv => OneOwner
<1>. SUFFICES ASSUME IInv, NEW r \in R, NEW o \in Total(r)
              PROVE  LET places == Occurrences(o, ListHeadEmpty[r])
                                     + Occurrences(o, ListHeadInUse[r]) + Cardinality(Reserved(o))
                         leaving == Cardinality({t \in Threads : pc[t] = "count1" /\ ob[t] = o})
                         callers == Cardinality(Caller(o))
                     IN places + leaving <= 1 /\ (callers = 0 => places + leaving = 1)
  BY DEF OneOwner, Total
<1>. DEFINE L == {t \in Threads : pc[t] = "count1" /\ ob[t] = o}
<1>1. /\ o \in Objects /\ Allocated(o) /\ Owned(o) /\ Counted(o)
      /\ Occurrences(o, ListHeadEmpty[r]) = Bit(On(ListHeadEmpty, o))
      /\ Occurrences(o, ListHeadInUse[r]) = Bit(On(ListHeadInUse, o))
      /\ Cardinality(Reserved(o)) = Bit(Reserved(o) # {})
  BY PlacesOf
<1>2. Owner(o) = L \cup Reserved(o) /\ L \cap Reserved(o) = {}
  BY DEF Owner, Owning, Reserved
<1>3. Cardinality(Caller(o)) = 0 <=> Caller(o) = {}
  BY CallersFinite
<1>4. Cardinality(Reserved(o)) + Cardinality(L) = Bit(Owner(o) # {})
  <2>1. CASE Owner(o) = {}
    BY <1>2, <2>1, FS_EmptySet DEF Bit
  <2>2. ASSUME NEW t \in Owner(o) PROVE Cardinality(Reserved(o)) + Cardinality(L) = 1
    <3>1. Owner(o) = {t}
      BY <1>1, <2>2, ObjectOf
    <3>2. (Reserved(o) = {t} /\ L = {}) \/ (Reserved(o) = {} /\ L = {t})
      BY <1>2, <3>1
    <3>3. Cardinality({t}) = 1 /\ Cardinality({}) = 0
      BY FS_Singleton, FS_EmptySet
    <3>. QED
      BY <3>2, <3>3
  <2>. QED
    BY <2>1, <2>2 DEF Bit
<1>5. /\ Owner(o) # {} => ~On(ListHeadEmpty, o) /\ ~On(ListHeadInUse, o)
      /\ On(ListHeadEmpty, o) => ~On(ListHeadInUse, o)
      /\ Caller(o) = {} => On(ListHeadEmpty, o) \/ On(ListHeadInUse, o) \/ Owner(o) # {}
  BY <1>1 DEF Owned, Counted
<1>6. /\ Bit(On(ListHeadEmpty, o)) + Bit(On(ListHeadInUse, o)) + Bit(Owner(o) # {}) <= 1
      /\ Caller(o) = {} =>
           Bit(On(ListHeadEmpty, o)) + Bit(On(ListHeadInUse, o)) + Bit(Owner(o) # {}) = 1
  BY <1>5 DEF Bit
<1>7. Cardinality(Reserved(o)) \in Nat /\ Cardinality(L) \in Nat
  BY ConstantTypes, FS_Subset, FS_CardinalityType DEF Reserved
<1>. QED
  BY <1>1, <1>3, <1>4, <1>6, <1>7 DEF Bit

LEMMA ReachImply == IInv => ReachableIsInUse
<1>. SUFFICES ASSUME IInv, NEW r \in R, ~Locked(r), NEW p \in Pages,
                     NEW n \in DOMAIN Chain(r, Hash[p]), Chain(r, Hash[p])[n] # None
              PROVE  Chain(r, Hash[p])[n] \in InUse(r)
  BY DEF ReachableIsInUse, InUse
<1>1. Hash[p] \in Buckets /\ n \in 0..Cardinality(Objects)
  BY ConstantTypes, ChainIs
<1>2. Chain(r, Hash[p])[n] \in InUse(r) \cup {None}
  BY <1>1, ChainWithin DEF IInv, Chained
<1>. QED
  BY <1>2

(* An object of a cache is in one place at a time: on the empty list, on   *)
(* the list in use, with the thread that fills it or with the one that     *)
(* returns it (VmmCacheReserve, VmmCacheReserveReturn, VmmCacheClearPartial*)
(* and VmmCache_CallbackRefCount1 hand it on).                             *)
THEOREM OneOwnerHolds == ASSUME Apart PROVE Spec => []OneOwner
  BY Inductive, OwnersImply, PTL

(* The count of an object is the number of references to it, so that it is *)
(* never freed or recycled under a caller of VmmCacheGet.                  *)
THEOREM CountIsReferencesHolds == ASSUME Apart PROVE Spec => []CountIsReferences
  BY Inductive, CountsImply, PTL

(* What VmmCacheGet can reach in a region is on the list that              *)
(* VmmCacheClearPartial empties, but while it does.                        *)
THEOREM ReachableIsInUseHolds == ASSUME Apart PROVE Spec => []ReachableIsInUse
  BY Inductive, ReachImply, PTL

(* VmmCacheGet returns the page that was asked for, filled.                *)
THEOREM GetsItsPageHolds == ASSUME Apart PROVE Spec => []GetsItsPage
<1>1. IInv => GetsItsPage
  BY DEF IInv, Contents, GetsItsPage, Threads
<1>. QED
  BY <1>1, Inductive, PTL

(***************************************************************************)
(* Writes to a cache that is never cleared, by one writer.                 *)
(***************************************************************************)
Sole == Quiet /\ \A t, u \in Writers : t = u

Before(list, x, y) == \E m, n \in 1..Len(list) : m < n /\ list[m] = x /\ list[n] = y

(* An object in use is linked if what is before it in its bucket leads to  *)
(* it.  An unlinked one keeps its own links, and is in use all the same.   *)
Behind(o) == IF BLink[o] = None THEN B[iR][iB[o]] ELSE FLink[BLink[o]]
Linked(o) == o \in InUse(iR) /\ Behind(o) = o

(* The region that is active at the start has all objects.  Its chains are *)
(* doubly linked, and in the order of the list of what is in use.          *)
Single  == \A r \in R : r # iR => Total(r) = {}
Heads   == \A b \in Buckets : B[iR][b] # None => iB[B[iR][b]] = b /\ BLink[B[iR][b]] = None
Nexts   == \A x \in InUse(iR) : Linked(x) /\ FLink[x] # None =>
              BLink[FLink[x]] = x /\ iB[FLink[x]] = iB[x]
Prevs   == \A x \in InUse(iR) : Linked(x) /\ BLink[x] # None => Linked(BLink[x])
Ordered == \A x \in InUse(iR) : FLink[x] # None => Before(ListHeadInUse[iR], x, FLink[x])

(* The writer unlinks what is linked.                                      *)
Gone == \A t \in Writers :
    /\ pc[t] = "unlink" => Linked(ob[t])
    /\ pc[t] = "got"    => ob[t] \in InUse(iR) /\ ~Linked(ob[t])

Links == Single /\ Heads /\ Nexts /\ Prevs /\ Ordered /\ Gone

(* Whatever a get finds of the page, now or later, reflects write v.       *)
FreshFor(p, v) ==
    /\ \A o \in InUse(iR) : Linked(o) /\ qwA[o] = p => pb[o][2] >= v
    /\ ~Straddled(p, v)

Written == \A p \in Pages : written[p] <= mem[p] /\ \A v \in 0..written[p] : FreshFor(p, v)

(* A write that has left the first region has removed what was old there.  *)
Writing == \A t \in Writers :
    /\ pc[t] # "get"  => i[t] = 0
    /\ pc[t] # "idle" => need[t] \in {0, mem[a[t]]}
    /\ pc[t] = "get" /\ i[t] > 0 =>
         \A p \in Pages : \A v \in 1..need[t] : a[t] = p => FreshFor(p, v)

Reading ==
    /\ \A t \in Readers : pc[t] = "put" => pb[ob[t]][2] = buf[t]
    /\ \A t \in Readers \cup Fetchers :
        /\ pc[t] \notin {"idle", "count1"} => need[t] <= written[a[t]]
        /\ pc[t] = "got" => pb[ob[t]][2] >= need[t]

Fresh == Written /\ Writing /\ Reading
WInv  == Sole => Links /\ Fresh

LEMMA BeforeTwice ==
  ASSUME NEW S, NEW list \in Seq(S), Distinct(list), NEW x, NEW y, NEW z,
         Before(list, x, y), Before(list, y, z)
  PROVE  Before(list, x, z)
<1>1. PICK k, m \in 1..Len(list) : k < m /\ list[k] = x /\ list[m] = y
  BY DEF Before
<1>2. PICK l, n \in 1..Len(list) : l < n /\ list[l] = y /\ list[n] = z
  BY DEF Before
<1>3. l = m
  BY <1>1, <1>2 DEF Distinct
<1>4. k < n
  BY <1>1, <1>2, <1>3
<1>. QED
  BY <1>1, <1>2, <1>4 DEF Before

LEMMA BeforeOther ==
  ASSUME NEW S, NEW list \in Seq(S), Distinct(list), NEW x
  PROVE  ~Before(list, x, x)
<1>1. SUFFICES ASSUME Before(list, x, x) PROVE FALSE
  OBVIOUS
<1>2. PICK m, n \in 1..Len(list) : m < n /\ list[m] = x /\ list[n] = x
  BY <1>1 DEF Before
<1>. QED
  BY <1>2 DEF Distinct

LEMMA BeforePush ==
  ASSUME NEW S, NEW list \in Seq(S), NEW o \in S, NEW x, NEW y
  PROVE  /\ Before(list, x, y) => Before(<<o>> \o list, x, y)
         /\ y \in Members(list) => Before(<<o>> \o list, o, y)
<1>. DEFINE s == <<o>> \o list
<1>1. /\ Len(s) = Len(list) + 1 /\ Len(list) \in Nat /\ s[1] = o
      /\ \A n \in 1..Len(list) : s[n + 1] = list[n]
  OBVIOUS
<1>. HIDE DEF s
<1>2. ASSUME Before(list, x, y) PROVE Before(s, x, y)
  <2>1. PICK m, n \in 1..Len(list) : m < n /\ list[m] = x /\ list[n] = y
    BY <1>2 DEF Before
  <2>2. /\ m + 1 \in 1..Len(s) /\ n + 1 \in 1..Len(s) /\ m + 1 < n + 1
        /\ s[m + 1] = x /\ s[n + 1] = y
    BY <1>1, <2>1
  <2>. QED
    BY <2>2 DEF Before
<1>3. ASSUME y \in Members(list) PROVE Before(s, o, y)
  <2>1. PICK n \in 1..Len(list) : list[n] = y
    BY <1>3 DEF Members
  <2>2. 1 \in 1..Len(s) /\ n + 1 \in 1..Len(s) /\ 1 < n + 1 /\ s[1] = o /\ s[n + 1] = y
    BY <1>1, <2>1
  <2>. QED
    BY <2>2 DEF Before
<1>. QED
  BY <1>2, <1>3 DEF s

(* Nothing is locked, and everything is in the active region.              *)
LEMMA SoleFacts ==
  ASSUME Sole, IInv
  PROVE  /\ Apart /\ TypeOK /\ StoreTypes /\ ThreadTypes /\ iR \in R /\ (\A r : ~Locked(r))
         /\ \A t \in Threads : pc[t] # "clear" /\ ~Clearing(t)
         /\ InUse(iR) \subseteq Objects
         /\ ListHeadInUse[iR] \in Seq(Objects) /\ Distinct(ListHeadInUse[iR])
         /\ \A b \in Buckets : B[iR][b] \in InUse(iR) \cup {None}
         /\ \A o \in InUse(iR) :
              /\ FLink[o] \in InUse(iR) \cup {None} /\ BLink[o] \in InUse(iR) \cup {None}
              /\ iB[o] \in Buckets /\ qwA[o] \in Pages /\ iB[o] = Hash[qwA[o]]
         /\ Single => \A r \in R : \A o \in Objects : o \in Total(r) => RegionOf(o) = r /\ r = iR
<1>1. /\ Quiet /\ Apart /\ TypeOK /\ StoreTypes /\ ThreadTypes /\ iR \in R
      /\ Locking /\ Calm /\ Lists /\ Chained /\ ChainedBack /\ Contents
  BY Regional DEF Sole, Apart, IInv, TypeOK
<1>2. \A t \in Threads : pc[t] # "clear" /\ ~Clearing(t)
  BY <1>1 DEF Calm
<1>3. \A r : ~Locked(r)
  <2>1. Lock \notin Threads
    BY <1>1, <1>2 DEF Locking
  <2>. QED
    BY <1>1, <2>1 DEF StoreTypes, Locked
<1>4. /\ InUse(iR) \subseteq Objects /\ ListHeadInUse[iR] \in Seq(Objects)
      /\ Distinct(ListHeadInUse[iR])
  BY <1>1, ListMembers DEF Lists
<1>5. /\ \A b \in Buckets : B[iR][b] \in InUse(iR) \cup {None}
      /\ \A o \in InUse(iR) : FLink[o] \in InUse(iR) \cup {None}
  BY <1>1, <1>3 DEF Chained
<1>6. \A o \in InUse(iR) : BLink[o] \in InUse(iR) \cup {None}
  BY <1>1 DEF ChainedBack
<1>7. \A o \in InUse(iR) : iB[o] \in Buckets /\ qwA[o] \in Pages /\ iB[o] = Hash[qwA[o]]
  BY <1>1, ConstantTypes DEF Contents
<1>8. Single => \A r \in R : \A o \in Objects : o \in Total(r) => RegionOf(o) = r /\ r = iR
  BY <1>1, RegionIs DEF Single
<1>. QED
  BY <1>1, <1>2, <1>3, <1>4, <1>5, <1>6, <1>7, <1>8

(* The chains stay as they are.                                            *)
LEMMA SameLinks ==
  ASSUME Links, UNCHANGED <<iR, ListHeadInUse, B, FLink, BLink, iB>>,
         \A r \in R : r # iR => ListHeadTotal'[r] = ListHeadTotal[r],
         \A u \in Writers : pc'[u] \in {"unlink", "got"} => pc'[u] = pc[u] /\ ob'[u] = ob[u]
  PROVE  Links' /\ \A o : Linked(o)' <=> Linked(o)
<1>1. InUse(iR)' = InUse(iR) /\ \A r \in R : r # iR => Total(r)' = Total(r)
  BY DEF InUse, Total, Members
<1>2. \A o : Linked(o)' <=> Linked(o)
  BY <1>1 DEF Linked, Behind
<1>3. Single'
  BY <1>1 DEF Links, Single
<1>4. Heads'
  BY DEF Links, Heads
<1>5. Nexts'
  BY <1>1, <1>2 DEF Links, Nexts
<1>6. Prevs'
  BY <1>1, <1>2 DEF Links, Prevs
<1>7. Ordered'
  BY <1>1 DEF Links, Ordered, Before
<1>8. Gone'
  BY <1>1, <1>2 DEF Links, Gone
<1>. QED
  BY <1>2, <1>3, <1>4, <1>5, <1>6, <1>7, <1>8 DEF Links

(* What a walk meets is linked.                                            *)
LEMMA ChainLinked ==
  ASSUME Sole, IInv, Links, NEW b \in Buckets
  PROVE  \A n \in 0..Cardinality(Objects) :
           Chain(iR, b)[n] # None => Linked(Chain(iR, b)[n]) /\ iB[Chain(iR, b)[n]] = b
<1>. DEFINE S == {o \in InUse(iR) : Linked(o) /\ iB[o] = b}
<1>1. B[iR][b] \in S \cup {None}
  BY SoleFacts DEF Links, Heads, Linked, Behind
<1>2. ASSUME NEW o \in S PROVE FLink[o] \in S \cup {None}
  <2>1. CASE FLink[o] # None
    <3>1. FLink[o] \in InUse(iR) /\ BLink[FLink[o]] = o /\ iB[FLink[o]] = b
      BY <1>2, <2>1, SoleFacts DEF Links, Nexts
    <3>2. o # None
      BY <1>2, SoleFacts, ConstantTypes
    <3>. QED
      BY <3>1, <3>2 DEF Linked, Behind
  <2>. QED
    BY <2>1
<1>3. \A n \in 0..Cardinality(Objects) : Chain(iR, b)[n] \in S \cup {None}
  <2>. HIDE DEF S
  <2>. QED
    BY <1>1, <1>2, ChainWithin
<1>. QED
  BY <1>3

LEMMA HitLinked ==
  ASSUME Sole, IInv, Links, NEW r \in R, NEW p \in Pages, NEW o \in Lookup(r, p)
  PROVE  Linked(o) /\ o \in InUse(iR) /\ r = iR /\ qwA[o] = p
<1>1. o \in InUse(r) /\ o \in Objects /\ qwA[o] = p
  BY SoleFacts, Found DEF IInv
<1>2. r = iR
  BY <1>1, SoleFacts DEF Links, Single, IInv, Lists
<1>3. PICK n \in DOMAIN Chain(r, Hash[p]) : Chain(r, Hash[p])[n] = o
  BY DEF Lookup
<1>4. Hash[p] \in Buckets /\ o # None
  BY <1>1, ConstantTypes
<1>5. Linked(o)
  <2>1. n \in 0..Cardinality(Objects)
    BY ChainIs
  <2>. QED
    BY <1>2, <1>3, <1>4, <2>1, ChainLinked
<1>. QED
  BY <1>1, <1>2, <1>5

LEMMA HitLinks ==
  ASSUME Sole, IInv, Links, NEW t \in Threads, GetHit(t)
  PROVE  Links' /\ \A o : Linked(o)' <=> Linked(o)
<1>1. PICK o \in Objects :
        /\ ob' = [ob EXCEPT ![t] = o] /\ o \in Lookup(LookupAt(t), a[t])
        /\ pc' = [pc EXCEPT ![t] = IF t \in Writers THEN "unlink" ELSE "got"]
        /\ UNCHANGED <<iR, listVars, chainVars, objectVars>> /\ LookupAt(t) \in R /\ a[t] \in Pages
  <2>1. LookupAt(t) \in R /\ a[t] \in Pages
    BY HitDoes
  <2>2. PICK o \in Lookup(LookupAt(t), a[t]) : ob' = [ob EXCEPT ![t] = o]
    BY DEF GetHit
  <2>3. o \in Objects
    BY <2>1, <2>2, Found, SoleFacts DEF IInv
  <2>. QED
    BY <2>1, <2>2, <2>3 DEF GetHit, Goto
<1>2. Linked(o) /\ o \in InUse(iR)
  BY <1>1, HitLinked
<1>3. ThreadTypes /\ UNCHANGED <<iR, ListHeadInUse, ListHeadTotal, B, FLink, BLink, iB>>
  BY <1>1, SoleFacts DEF listVars, chainVars, objectVars
<1>4. InUse(iR)' = InUse(iR) /\ \A r \in R : Total(r)' = Total(r)
  BY <1>3 DEF InUse, Total, Members
<1>5. \A q : Linked(q)' <=> Linked(q)
  BY <1>3, <1>4 DEF Linked, Behind
<1>6. Gone'
  <2>. SUFFICES ASSUME NEW u \in Writers
                PROVE  /\ pc'[u] = "unlink" => Linked(ob[u])'
                       /\ pc'[u] = "got" => ob'[u] \in InUse(iR)' /\ ~Linked(ob[u])'
    BY DEF Gone
  <2>1. CASE u = t
    <3>1. pc'[u] = "unlink" /\ ob'[u] = o
      BY <1>1, <1>3, <2>1 DEF ThreadTypes
    <3>2. Linked(ob[u])' <=> Linked(o)
      BY <1>3, <1>4, <3>1 DEF Linked, Behind
    <3>. QED
      BY <1>2, <3>1, <3>2
  <2>2. CASE u # t
    <3>1. u \in Threads /\ pc'[u] = pc[u] /\ ob'[u] = ob[u]
      BY <1>1, <1>3, <2>2 DEF ThreadTypes, Threads
    <3>2. Linked(ob[u])' <=> Linked(ob[u])
      BY <1>3, <1>4, <3>1 DEF Linked, Behind
    <3>. QED
      BY <1>4, <3>1, <3>2 DEF Links, Gone
  <2>. QED
    BY <2>1, <2>2
<1>7. Single' /\ Heads'
  BY <1>3, <1>4 DEF Links, Single, Heads
<1>8. Nexts' /\ Prevs' /\ Ordered'
  <2>1. Nexts'
    BY <1>3, <1>4, <1>5 DEF Links, Nexts
  <2>2. Prevs'
    BY <1>3, <1>4, <1>5 DEF Links, Prevs
  <2>3. Ordered'
    BY <1>3, <1>4 DEF Links, Ordered, Before
  <2>. QED
    BY <2>1, <2>2, <2>3
<1>. QED
  BY <1>5, <1>6, <1>7, <1>8 DEF Links

(* An unlinked object cannot be reached from its neighbours any more.      *)
LEMMA UnlinkLinks ==
  ASSUME Sole, IInv, Links, NEW t \in Threads, Unlink(t)
  PROVE  Links' /\ \A x : Linked(x)' => Linked(x)
<1>1. /\ ThreadTypes /\ StoreTypes /\ iR \in R /\ t \in Writers
      /\ InUse(iR) \subseteq Objects
      /\ ListHeadInUse[iR] \in Seq(Objects) /\ Distinct(ListHeadInUse[iR])
  BY SoleFacts, Roles DEF Unlink, Goto, IInv, Held, HeldBy
<1>2. PICK o \in Objects, r \in R : o = ob[t] /\ r = iR /\ r = RegionOf(o) /\ Linked(o)
  <2>1. pc[t] = "unlink" /\ Linked(ob[t]) /\ ob[t] \in InUse(iR) /\ ob[t] \in Objects
    BY <1>1 DEF Links, Gone, Unlink, Goto, Linked
  <2>2. ob[t] \in Total(iR)
    BY <1>1, <2>1 DEF IInv, Lists
  <2>3. RegionOf(ob[t]) = iR
    BY <1>1, <2>1, <2>2, SoleFacts DEF Links
  <2>. QED
    BY <1>1, <2>1, <2>3
<1>. DEFINE U == InUse(r)
<1>3. PICK next \in U \cup {None}, prev \in U \cup {None} : next = FLink[o] /\ prev = BLink[o]
  BY <1>2, SoleFacts DEF Linked
<1>4. PICK b \in Buckets : b = iB[o]
  BY <1>2, SoleFacts DEF Linked
<1>5. /\ pc' = [pc EXCEPT ![t] = "got"] /\ ob' = ob
      /\ UNCHANGED <<iR, ListHeadInUse, ListHeadTotal, iB>>
      /\ BLink' = [q \in Objects |-> IF q = next THEN prev ELSE BLink[q]]
      /\ FLink' = [q \in Objects |-> IF q = prev THEN next ELSE FLink[q]]
      /\ B' = IF prev = None THEN [B EXCEPT ![r][b] = next] ELSE B
  BY <1>2, <1>3, <1>4 DEF Unlink, Goto, listVars, objectVars
<1>6. InUse(iR)' = U /\ (\A q \in R : Total(q)' = Total(q)) /\ o \in U /\ None \notin U
      /\ InUse(iR) = U /\ U \subseteq Objects
  BY <1>1, <1>2, <1>5, ConstantTypes DEF InUse, Total, Members, Linked
<1>. HIDE DEF U
<1>7. /\ \A x : Linked(x) <=>
           x \in U /\ (IF BLink[x] = None THEN B[r][iB[x]] ELSE FLink[BLink[x]]) = x
      /\ \A x : Linked(x)' <=>
           x \in U /\ (IF BLink'[x] = None THEN B'[r][iB[x]] ELSE FLink'[BLink'[x]]) = x
      /\ \A x \in U : BLink'[x] = IF x = next THEN prev ELSE BLink[x]
      /\ \A x \in U : FLink'[x] = IF x = prev THEN next ELSE FLink[x]
      /\ \A c \in Buckets : B'[r][c] = IF prev = None /\ c = b THEN next ELSE B[r][c]
  <2>1. \A x : Linked(x) <=>
          x \in U /\ (IF BLink[x] = None THEN B[r][iB[x]] ELSE FLink[BLink[x]]) = x
    BY <1>2, <1>6 DEF Linked, Behind
  <2>2. \A x : Linked(x)' <=>
          x \in U /\ (IF BLink'[x] = None THEN B'[r][iB[x]] ELSE FLink'[BLink'[x]]) = x
    BY <1>2, <1>5, <1>6 DEF Linked, Behind
  <2>3. \A x \in U : BLink'[x] = IF x = next THEN prev ELSE BLink[x]
    BY <1>5, <1>6
  <2>4. \A x \in U : FLink'[x] = IF x = prev THEN next ELSE FLink[x]
    BY <1>5, <1>6
  <2>5. \A c \in Buckets : B'[r][c] = IF prev = None /\ c = b THEN next ELSE B[r][c]
    BY <1>1, <1>5 DEF StoreTypes
  <2>. QED
    BY <2>1, <2>2, <2>3, <2>4, <2>5
<1>8. /\ \A x \in U : FLink[x] \in U \cup {None} /\ BLink[x] \in U \cup {None} /\ iB[x] \in Buckets
      /\ \A c \in Buckets : B[r][c] \in U \cup {None}
  BY <1>2, <1>6, SoleFacts
<1>9. /\ \A x \in U : FLink[x] # x
      /\ \A x, y \in U : FLink[x] = y => FLink[y] # x
  <2>1. \A x \in U : FLink[x] # None => Before(ListHeadInUse[iR], x, FLink[x])
    BY <1>6 DEF Links, Ordered
  <2>2. \A x : ~Before(ListHeadInUse[iR], x, x)
    BY <1>1, BeforeOther
  <2>3. \A x, y : Before(ListHeadInUse[iR], x, y) /\ Before(ListHeadInUse[iR], y, x)
                    => Before(ListHeadInUse[iR], x, x)
    BY <1>1, BeforeTwice
  <2>. QED
    BY <1>6, <2>1, <2>2, <2>3
<1>10. /\ \A c \in Buckets : B[r][c] # None => iB[B[r][c]] = c /\ BLink[B[r][c]] = None
       /\ \A x \in U : Linked(x) /\ FLink[x] # None => BLink[FLink[x]] = x /\ iB[FLink[x]] = iB[x]
       /\ \A x \in U : Linked(x) /\ BLink[x] # None => Linked(BLink[x])
  BY <1>2, <1>6 DEF Links, Heads, Nexts, Prevs
<1>11. /\ prev # None => FLink[prev] = o /\ Linked(prev) /\ prev \in U /\ iB[prev] = b
       /\ prev = None => B[r][b] = o
       /\ next # None => BLink[next] = o /\ iB[next] = b /\ next \in U /\ Linked(next)
       /\ next # o /\ prev # o /\ (prev # None => next # prev)
  <2>1. prev # None => FLink[prev] = o /\ Linked(prev) /\ prev \in U
    BY <1>2, <1>3, <1>6, <1>7, <1>10
  <2>2. prev # None => iB[prev] = b
    BY <1>3, <1>4, <1>6, <1>10, <2>1
  <2>3. prev = None => B[r][b] = o
    BY <1>2, <1>3, <1>4, <1>6, <1>7
  <2>4. next # None => BLink[next] = o /\ iB[next] = b /\ next \in U
    BY <1>2, <1>3, <1>4, <1>6, <1>10
  <2>5. next # None => Linked(next)
    BY <1>3, <1>6, <1>7, <2>4
  <2>6. next # o /\ prev # o /\ (prev # None => next # prev)
    BY <1>3, <1>6, <1>9, <2>1
  <2>. QED
    BY <2>1, <2>2, <2>3, <2>4, <2>5, <2>6
<1>12. \A x : Linked(x)' <=> Linked(x) /\ x # o
  <2>. SUFFICES ASSUME NEW x \in U PROVE Linked(x)' <=> Linked(x) /\ x # o
    BY <1>7
  <2>1. CASE x = o
    BY <1>3, <1>4, <1>6, <1>7, <1>11, <2>1
  <2>2. CASE x = next
    BY <1>4, <1>6, <1>7, <1>11, <2>2
  <2>3. CASE x # o /\ x # next
    <3>1. BLink'[x] = BLink[x]
      BY <1>7, <2>3
    <3>2. CASE BLink[x] = None
      BY <1>7, <1>8, <1>11, <2>3, <3>1, <3>2
    <3>3. CASE BLink[x] # None
      BY <1>7, <1>8, <1>11, <2>3, <3>1, <3>3
    <3>. QED
      BY <3>2, <3>3
  <2>. QED
    BY <2>1, <2>2, <2>3
<1>13. Heads'
  <2>. SUFFICES ASSUME NEW c \in Buckets, B'[r][c] # None
                PROVE  iB[B'[r][c]] = c /\ BLink'[B'[r][c]] = None
    BY <1>2, <1>5 DEF Heads
  <2>1. CASE prev = None /\ c = b
    BY <1>7, <1>11, <2>1
  <2>2. CASE ~(prev = None /\ c = b)
    <3>1. B'[r][c] = B[r][c] /\ B[r][c] \in U /\ B[r][c] # next
      BY <1>6, <1>7, <1>8, <1>10, <1>11, <2>2
    <3>. QED
      BY <1>7, <1>10, <3>1
  <2>. QED
    BY <2>1, <2>2
<1>14. Nexts'
  <2>. SUFFICES ASSUME NEW x \in U, Linked(x), x # o, FLink'[x] # None
                PROVE  BLink'[FLink'[x]] = x /\ iB[FLink'[x]] = iB[x]
    BY <1>5, <1>6, <1>12 DEF Nexts
  <2>1. CASE x = prev
    BY <1>6, <1>7, <1>11, <2>1
  <2>2. CASE x # prev
    <3>1. FLink'[x] = FLink[x] /\ FLink[x] \in U /\ BLink[FLink[x]] = x /\ iB[FLink[x]] = iB[x]
      BY <1>7, <1>8, <1>10, <2>2
    <3>2. FLink[x] # next
      BY <1>11, <3>1
    <3>. QED
      BY <1>7, <3>1, <3>2
  <2>. QED
    BY <2>1, <2>2
<1>15. Prevs'
  <2>. SUFFICES ASSUME NEW x \in U, Linked(x), x # o, BLink'[x] # None
                PROVE  Linked(BLink'[x]) /\ BLink'[x] # o
    BY <1>6, <1>12 DEF Prevs
  <2>1. CASE x = next
    BY <1>7, <1>11, <2>1
  <2>2. CASE x # next
    <3>1. BLink'[x] = BLink[x] /\ Linked(BLink[x]) /\ FLink[BLink[x]] = x
      BY <1>7, <1>10, <2>2
    <3>. QED
      BY <1>3, <2>2, <3>1
  <2>. QED
    BY <2>1, <2>2
<1>16. Ordered'
  <2>1. \A x \in U : FLink[x] # None => Before(ListHeadInUse[r], x, FLink[x])
    BY <1>2, <1>6 DEF Links, Ordered
  <2>2. \A x, y, z : Before(ListHeadInUse[r], x, y) /\ Before(ListHeadInUse[r], y, z)
                       => Before(ListHeadInUse[r], x, z)
    BY <1>1, <1>2, BeforeTwice
  <2>3. ASSUME NEW x \in U, FLink'[x] # None PROVE Before(ListHeadInUse[r], x, FLink'[x])
    <3>1. CASE x = prev
      <4>1. Before(ListHeadInUse[r], prev, o) /\ Before(ListHeadInUse[r], o, next)
        BY <1>3, <1>6, <1>7, <1>11, <2>1, <2>3, <3>1
      <4>. QED
        BY <1>7, <2>2, <3>1, <4>1
    <3>2. CASE x # prev
      BY <1>7, <2>1, <2>3, <3>2
    <3>. QED
      BY <3>1, <3>2
  <2>4. \A x, y : Before(ListHeadInUse[iR], x, y)' <=> Before(ListHeadInUse[r], x, y)
    <3>1. ListHeadInUse'[iR'] = ListHeadInUse[r]
      BY <1>2, <1>5
    <3>. QED
      BY <3>1 DEF Before
  <2>5. \A x \in InUse(iR)' : FLink'[x] # None => Before(ListHeadInUse[iR], x, FLink[x])'
    BY <1>6, <2>3, <2>4
  <2>. QED
    BY <2>5 DEF Ordered
<1>17. Gone'
  <2>. SUFFICES ASSUME NEW u \in Writers
                PROVE  /\ pc'[u] = "unlink" => Linked(ob[u])'
                       /\ pc'[u] = "got" => ob'[u] \in U /\ ~Linked(ob[u])'
    BY <1>6 DEF Gone
  <2>1. u = t
    BY <1>1 DEF Sole
  <2>2. pc'[u] = "got" /\ ob'[u] = o
    BY <1>1, <1>2, <1>5, <2>1 DEF ThreadTypes
  <2>3. Linked(ob[u])' <=> Linked(o)'
    BY <1>2, <1>7, <2>1, <1>5, <2>2
  <2>. QED
    BY <1>6, <1>12, <2>2, <2>3
<1>18. Single'
  BY <1>5, <1>6 DEF Links, Single
<1>. QED
  BY <1>12, <1>13, <1>14, <1>15, <1>16, <1>17, <1>18 DEF Links

(* The object that returns is linked, before all others.                   *)
LEMMA ReturnLinks ==
  ASSUME Sole, IInv, Links, NEW t \in Threads, ReserveReturn(t)
  PROVE  Links' /\ \A x : Linked(x)' => Linked(x) \/ x = ob[t]
<1>1. /\ ThreadTypes /\ StoreTypes /\ iR \in R /\ t \notin Writers
      /\ InUse(iR) \subseteq Objects
      /\ ListHeadInUse[iR] \in Seq(Objects) /\ Distinct(ListHeadInUse[iR])
  BY SoleFacts, Roles DEF ReserveReturn, IInv, Held, HeldBy
<1>2. PICK o \in Objects, r \in R : o = ob[t] /\ r = iR /\ r = RegionOf(o) /\ o \notin InUse(r)
                                    /\ qwA[o] \in Pages
  <2>1. Holding(t) /\ Owning(t)
    BY DEF Holding, Owning, ReserveReturn
  <2>2. ob[t] \in Objects /\ RegionOf(ob[t]) \in R /\ ob[t] \in Total(RegionOf(ob[t]))
    BY <2>1, Used
  <2>3. RegionOf(ob[t]) = iR
    BY <2>2, SoleFacts DEF Links
  <2>4. ob[t] \notin InUse(iR)
    BY <1>1, <2>1, Alone
  <2>5. qwA[ob[t]] \in Pages
    BY <1>1, Roles DEF IInv, Held, HeldBy, Contents, ReserveReturn
  <2>. QED
    BY <1>1, <2>2, <2>3, <2>4, <2>5
<1>. DEFINE U == InUse(r)
<1>3. PICK b \in Buckets : b = Hash[qwA[o]]
  BY <1>2, ConstantTypes
<1>4. PICK first \in U \cup {None} : first = B[r][b]
  BY <1>2, SoleFacts
<1>5. /\ pc' = [pc EXCEPT ![t] = IF t \in Fetchers THEN "got" ELSE "idle"]
      /\ ob' = [ob EXCEPT ![t] = IF t \in Fetchers THEN @ ELSE None]
      /\ UNCHANGED <<iR, ListHeadTotal>>
      /\ ListHeadInUse' = [ListHeadInUse EXCEPT ![r] = <<o>> \o @]
      /\ iB' = [iB EXCEPT ![o] = b] /\ B' = [B EXCEPT ![r][b] = o]
      /\ FLink' = [FLink EXCEPT ![o] = first]
      /\ BLink' = [q \in Objects |-> CASE q = o -> None [] q = first -> o [] OTHER -> BLink[q]]
  <2>1. /\ pc' = [pc EXCEPT ![t] = IF t \in Fetchers THEN "got" ELSE "idle"]
        /\ ob' = [ob EXCEPT ![t] = IF t \in Fetchers THEN @ ELSE None]
        /\ UNCHANGED <<iR, ListHeadTotal>>
    BY SoleFacts, ReturnDoes
  <2>. QED
    BY <1>2, <1>3, <1>4, <2>1 DEF ReserveReturn
<1>6. /\ InUse(iR)' = {o} \cup U /\ (\A q \in R : Total(q)' = Total(q)) /\ o \notin U
      /\ None \notin U /\ InUse(iR) = U /\ U \subseteq Objects /\ o # None
  <2>1. InUse(iR)' = {o} \cup U
    <3>1. ListHeadInUse'[iR'] = <<o>> \o ListHeadInUse[r] /\ ListHeadInUse[r] \in Seq(Objects)
      BY <1>1, <1>2, <1>5 DEF StoreTypes
    <3>. QED
      BY <3>1, MembersPush DEF InUse
  <2>2. \A q \in R : Total(q)' = Total(q)
    BY <1>5 DEF Total, Members
  <2>. QED
    BY <1>1, <1>2, <2>1, <2>2, ConstantTypes
<1>. HIDE DEF U
<1>7. /\ \A x : Linked(x) <=>
           x \in U /\ (IF BLink[x] = None THEN B[r][iB[x]] ELSE FLink[BLink[x]]) = x
      /\ \A x : Linked(x)' <=>
           /\ x \in {o} \cup U
           /\ (IF BLink'[x] = None THEN B'[r][iB'[x]] ELSE FLink'[BLink'[x]]) = x
      /\ \A x \in U : BLink'[x] = IF x = first THEN o ELSE BLink[x]
      /\ \A x \in U : FLink'[x] = FLink[x] /\ iB'[x] = iB[x]
      /\ BLink'[o] = None /\ FLink'[o] = first /\ iB'[o] = b
      /\ \A c \in Buckets : B'[r][c] = IF c = b THEN o ELSE B[r][c]
  <2>1. \A x : Linked(x) <=>
          x \in U /\ (IF BLink[x] = None THEN B[r][iB[x]] ELSE FLink[BLink[x]]) = x
    BY <1>2, <1>6 DEF Linked, Behind
  <2>2. \A x : Linked(x)' <=>
          /\ x \in {o} \cup U
          /\ (IF BLink'[x] = None THEN B'[r][iB'[x]] ELSE FLink'[BLink'[x]]) = x
    <3>1. r = iR' /\ InUse(iR)' = {o} \cup U
      BY <1>2, <1>5, <1>6
    <3>. QED
      BY <3>1 DEF Linked, Behind
  <2>3. \A x \in U : BLink'[x] = IF x = first THEN o ELSE BLink[x]
    BY <1>5, <1>6
  <2>4. \A x \in U : FLink'[x] = FLink[x] /\ iB'[x] = iB[x]
    BY <1>1, <1>5, <1>6 DEF StoreTypes
  <2>5. BLink'[o] = None /\ FLink'[o] = first /\ iB'[o] = b
    <3>1. BLink'[o] = None
      BY <1>5, <1>6
    <3>2. FLink'[o] = first /\ iB'[o] = b
      BY <1>1, <1>5 DEF StoreTypes
    <3>. QED
      BY <3>1, <3>2
  <2>6. \A c \in Buckets : B'[r][c] = IF c = b THEN o ELSE B[r][c]
    BY <1>1, <1>5 DEF StoreTypes
  <2>. QED
    BY <2>1, <2>2, <2>3, <2>4, <2>5, <2>6
<1>8. /\ \A x \in U : FLink[x] \in U \cup {None} /\ BLink[x] \in U \cup {None} /\ iB[x] \in Buckets
      /\ \A c \in Buckets : B[r][c] \in U \cup {None}
  BY <1>2, <1>6, SoleFacts
<1>9. /\ \A c \in Buckets : B[r][c] # None => iB[B[r][c]] = c /\ BLink[B[r][c]] = None
      /\ \A x \in U : Linked(x) /\ FLink[x] # None => BLink[FLink[x]] = x /\ iB[FLink[x]] = iB[x]
      /\ \A x \in U : Linked(x) /\ BLink[x] # None => Linked(BLink[x])
  BY <1>2, <1>6 DEF Links, Heads, Nexts, Prevs
<1>10. first # None => first \in U /\ iB[first] = b /\ BLink[first] = None /\ Linked(first)
  BY <1>4, <1>7, <1>9
<1>11. \A x : Linked(x)' <=> Linked(x) \/ x = o
  <2>1. Linked(o)'
    BY <1>6, <1>7
  <2>2. ASSUME NEW x \in U PROVE Linked(x)' <=> Linked(x)
    <3>1. CASE x = first
      BY <1>6, <1>7, <1>10, <2>2, <3>1
    <3>2. CASE x # first /\ BLink[x] = None
      BY <1>4, <1>6, <1>7, <1>8, <2>2, <3>2
    <3>3. CASE x # first /\ BLink[x] # None
      BY <1>6, <1>7, <1>8, <2>2, <3>3
    <3>. QED
      BY <3>1, <3>2, <3>3
  <2>. QED
    BY <1>7, <2>1, <2>2
<1>12. Heads'
  <2>. SUFFICES ASSUME NEW c \in Buckets, B'[r][c] # None
                PROVE  iB'[B'[r][c]] = c /\ BLink'[B'[r][c]] = None
    BY <1>2, <1>5 DEF Heads
  <2>1. CASE c = b
    BY <1>7, <2>1
  <2>2. CASE c # b
    <3>1. B'[r][c] = B[r][c] /\ B[r][c] \in U /\ B[r][c] # first
      BY <1>7, <1>8, <1>9, <1>10, <2>2
    <3>. QED
      BY <1>7, <1>9, <3>1
  <2>. QED
    BY <2>1, <2>2
<1>13. Nexts'
  <2>. SUFFICES ASSUME NEW x \in {o} \cup U, Linked(x)', FLink'[x] # None
                PROVE  BLink'[FLink'[x]] = x /\ iB'[FLink'[x]] = iB'[x]
    BY <1>6 DEF Nexts
  <2>1. CASE x = o
    BY <1>7, <1>10, <2>1
  <2>2. CASE x # o
    <3>1. /\ x \in U /\ FLink'[x] = FLink[x] /\ FLink[x] \in U /\ BLink[FLink[x]] = x
          /\ iB[FLink[x]] = iB[x] /\ iB'[x] = iB[x]
      BY <1>7, <1>8, <1>9, <1>11, <2>2
    <3>2. FLink[x] # first
      BY <1>6, <1>10, <3>1
    <3>. QED
      BY <1>7, <3>1, <3>2
  <2>. QED
    BY <2>1, <2>2
<1>14. Prevs'
  <2>. SUFFICES ASSUME NEW x \in {o} \cup U, Linked(x)', BLink'[x] # None
                PROVE  Linked(BLink'[x]) \/ BLink'[x] = o
    <3>1. \A y \in InUse(iR)' : Linked(y)' /\ BLink'[y] # None => Linked(BLink[y])'
      BY <1>6, <1>11
    <3>. QED
      BY <3>1 DEF Prevs
  <2>1. CASE x = o
    BY <1>7, <2>1
  <2>2. CASE x = first
    BY <1>7, <1>10, <2>2
  <2>3. CASE x # o /\ x # first
    BY <1>7, <1>9, <1>11, <2>3
  <2>. QED
    BY <2>1, <2>2, <2>3
<1>15. Ordered'
  <2>1. /\ ListHeadInUse[r] \in Seq(Objects) /\ Members(ListHeadInUse[r]) = U
        /\ ListHeadInUse'[iR'] = <<o>> \o ListHeadInUse[r]
    BY <1>1, <1>2, <1>5 DEF InUse, StoreTypes, U
  <2>2. \A x \in U : FLink[x] # None => Before(ListHeadInUse[r], x, FLink[x])
    BY <1>2, <1>6 DEF Links, Ordered
  <2>3. /\ \A x, y : Before(ListHeadInUse[r], x, y) => Before(<<o>> \o ListHeadInUse[r], x, y)
        /\ \A y \in U : Before(<<o>> \o ListHeadInUse[r], o, y)
    BY <2>1, BeforePush
  <2>4. ASSUME NEW x \in {o} \cup U, FLink'[x] # None
        PROVE  Before(<<o>> \o ListHeadInUse[r], x, FLink'[x])
    BY <1>7, <1>10, <2>2, <2>3, <2>4
  <2>5. \A x, y : Before(ListHeadInUse[iR], x, y)' <=> Before(<<o>> \o ListHeadInUse[r], x, y)
    BY <2>1 DEF Before
  <2>6. \A x \in InUse(iR)' : FLink'[x] # None => Before(ListHeadInUse[iR], x, FLink[x])'
    BY <1>6, <2>4, <2>5
  <2>. QED
    BY <2>6 DEF Ordered
<1>16. Gone'
  <2>. SUFFICES ASSUME NEW u \in Writers
                PROVE  /\ pc'[u] = "unlink" => Linked(ob[u])'
                       /\ pc'[u] = "got" => ob'[u] \in {o} \cup U /\ ~Linked(ob[u])'
    BY <1>6 DEF Gone
  <2>1. u # t /\ u \in Threads /\ pc'[u] = pc[u] /\ ob'[u] = ob[u]
    BY <1>1, <1>5 DEF ThreadTypes, Threads
  <2>2. /\ pc[u] = "unlink" => Linked(ob[u])
        /\ pc[u] = "got" => ob[u] \in U /\ ~Linked(ob[u])
    BY <1>6 DEF Links, Gone
  <2>3. Linked(ob[u])' <=> Linked(ob[u]) \/ ob[u] = o
    BY <1>7, <1>11, <2>1
  <2>. QED
    BY <1>6, <2>1, <2>2, <2>3
<1>17. Single'
  BY <1>5, <1>6 DEF Links, Single
<1>. QED
  BY <1>2, <1>11, <1>12, <1>13, <1>14, <1>15, <1>16, <1>17 DEF Links

(* A step changes the state of its thread only.                            *)
LEMMA OneThread ==
  ASSUME ThreadTypes, NEW t \in Threads, Begin(t) \/ Get(t) \/ Reserve(t) \/ Fill(t) \/ Device(t),
         NEW u \in Threads \ {t}
  PROVE  /\ pc'[u] = pc[u] /\ a'[u] = a[u] /\ ob'[u] = ob[u] /\ i'[u] = i[u]
         /\ buf'[u] = buf[u] /\ need'[u] = need[u]
<1>. DEFINE Same == /\ pc'[u] = pc[u] /\ a'[u] = a[u] /\ ob'[u] = ob[u] /\ i'[u] = i[u]
                    /\ buf'[u] = buf[u] /\ need'[u] = need[u]
<1>1. ASSUME BeginRefresh(t) PROVE Same
  BY <1>1 DEF ThreadTypes, callVars, BeginRefresh, Goto
<1>2. ASSUME GetHit(t) PROVE Same
  BY <1>2 DEF ThreadTypes, callVars, GetHit, Goto
<1>3. ASSUME GetNextRegion(t) PROVE Same
  BY <1>3 DEF ThreadTypes, callVars, GetNextRegion, Goto
<1>4. ASSUME GetMiss(t) PROVE Same
  BY <1>4 DEF ThreadTypes, callVars, GetMiss, Goto
<1>5. ASSUME GotRelease(t) PROVE Same
  BY <1>5 DEF ThreadTypes, callVars, GotRelease, Goto, Decref, Forget
<1>6. ASSUME CallbackRefCount1(t) PROVE Same
  BY <1>6 DEF ThreadTypes, callVars, CallbackRefCount1, Goto
<1>7. ASSUME ReservePop(t) PROVE Same
  BY <1>7 DEF ThreadTypes, callVars, ReservePop, Goto
<1>8. ASSUME ReserveEmpty(t) PROVE Same
  BY <1>8 DEF ThreadTypes, callVars, ReserveEmpty, Goto
<1>9. ASSUME ReserveCheck(t) PROVE Same
  BY <1>9 DEF ThreadTypes, callVars, ReserveCheck, Goto
<1>10. ASSUME ReserveAlloc(t) PROVE Same
  BY <1>10 DEF ThreadTypes, callVars, ReserveAlloc, Goto
<1>11. ASSUME ReserveAllocFail(t) PROVE Same
  BY <1>11 DEF ThreadTypes, callVars, ReserveAllocFail, Goto, Forget
<1>12. ASSUME ClearLock(t) PROVE Same
  BY <1>12 DEF ThreadTypes, callVars, ClearLock, Goto
<1>13. ASSUME ClearPop(t) PROVE Same
  BY <1>13 DEF ThreadTypes, callVars, ClearPop, Goto, Decref, Forget
<1>14. ASSUME ClearDone(t) PROVE Same
  BY <1>14 DEF ThreadTypes, callVars, ClearDone, Goto, ClearReturn, Forget
<1>15. ASSUME FillAddress(t) PROVE Same
  BY <1>15 DEF ThreadTypes, callVars, FillAddress, Goto
<1>16. ASSUME FillCopy(t) PROVE Same
  BY <1>16 DEF ThreadTypes, callVars, FillCopy, Goto
<1>17. ASSUME FillFetch(t) PROVE Same
  BY <1>17 DEF ThreadTypes, callVars, FillFetch, Goto
<1>18. ASSUME FillFail(t) PROVE Same
  BY <1>18 DEF ThreadTypes, callVars, FillFail, Goto, Decref, Forget
<1>19. ASSUME ReserveReturn(t) PROVE Same
  BY <1>19 DEF ThreadTypes, callVars, ReserveReturn, Goto, Forget
<1>20. ASSUME ReadDevice(t) PROVE Same
  BY <1>20 DEF ThreadTypes, callVars, ReadDevice, Goto
<1>21. ASSUME ReadNoPut(t) PROVE Same
  BY <1>21 DEF ThreadTypes, callVars, ReadNoPut, Goto, Forget
<1>22. ASSUME Unlink(t) PROVE Same
  BY <1>22 DEF ThreadTypes, callVars, Unlink, Goto
<1>23. ASSUME WriteDone(t) PROVE Same
  BY <1>23 DEF ThreadTypes, callVars, WriteDone, Goto, Forget
<1>24. ASSUME NEW p \in Pages, BeginGet(t, p) PROVE Same
  BY <1>24 DEF ThreadTypes, callVars, BeginGet, Goto
<1>25. ASSUME NEW p \in Pages, WriteDevice(t, p) PROVE Same
  BY <1>25 DEF ThreadTypes, callVars, WriteDevice, Goto
<1>. QED
  BY <1>1, <1>2, <1>3, <1>4, <1>5, <1>6, <1>7, <1>8, <1>9, <1>10, <1>11, <1>12, <1>13, <1>14,
     <1>15, <1>16, <1>17, <1>18, <1>19, <1>20, <1>21, <1>22, <1>23, <1>24, <1>25 DEF Begin, Get,
     Reserve, Fill, Device

(* What is in use, or another thread uses, keeps its page and its content.  *)
LEMMA UsedKeeps ==
  ASSUME IInv, NEW t \in Threads, Begin(t) \/ Get(t) \/ Reserve(t) \/ Fill(t) \/ Device(t),
         NEW o \in Objects,
         (\E r \in R : o \in InUse(r)) \/ \E u \in Threads \ {t} : Using(u, o)
  PROVE  qwA'[o] = qwA[o] /\ pb'[o] = pb[o]
<1>. DEFINE Same == qwA'[o] = qwA[o] /\ pb'[o] = pb[o]
<1>0. StoreTypes /\ (Owning(t) => o # ob[t]) /\ \A r \in R : o \notin Empty(r)
  BY Alone, Unused DEF IInv, TypeOK
<1>1. ASSUME BeginRefresh(t) PROVE Same
  BY <1>1 DEF objectVars, BeginRefresh
<1>2. ASSUME GetHit(t) PROVE Same
  BY <1>2 DEF objectVars, GetHit
<1>3. ASSUME GetNextRegion(t) PROVE Same
  BY <1>3 DEF objectVars, GetNextRegion
<1>4. ASSUME GetMiss(t) PROVE Same
  BY <1>4 DEF objectVars, GetMiss
<1>5. ASSUME GotRelease(t) PROVE Same
  BY <1>5 DEF objectVars, GotRelease
<1>6. ASSUME CallbackRefCount1(t) PROVE Same
  BY <1>6 DEF objectVars, CallbackRefCount1
<1>7. ASSUME ReservePop(t) PROVE Same
  <2>1. iR \in R /\ Head(ListHeadEmpty[iR]) \in Empty(iR)
    BY <1>7, Regional, Usable DEF IInv, ReservePop
  <2>. QED
    BY <1>0, <1>7, <2>1 DEF StoreTypes, ReservePop
<1>8. ASSUME ReserveEmpty(t) PROVE Same
  BY <1>8 DEF objectVars, ReserveEmpty
<1>9. ASSUME ReserveCheck(t) PROVE Same
  BY <1>9 DEF objectVars, ReserveCheck
<1>10. ASSUME ReserveAlloc(t) PROVE Same
  BY <1>10 DEF objectVars, ReserveAlloc
<1>11. ASSUME ReserveAllocFail(t) PROVE Same
  BY <1>11 DEF objectVars, ReserveAllocFail
<1>12. ASSUME ClearLock(t) PROVE Same
  BY <1>12 DEF objectVars, ClearLock
<1>13. ASSUME ClearPop(t) PROVE Same
  BY <1>13 DEF objectVars, ClearPop
<1>14. ASSUME ClearDone(t) PROVE Same
  BY <1>14 DEF objectVars, ClearDone
<1>15. ASSUME FillAddress(t) PROVE Same
  BY <1>0, <1>15 DEF Owning, StoreTypes, objectVars, FillAddress, Goto
<1>16. ASSUME FillCopy(t) PROVE Same
  BY <1>0, <1>16 DEF Owning, StoreTypes, objectVars, FillCopy, Goto
<1>17. ASSUME FillFetch(t) PROVE Same
  BY <1>0, <1>17 DEF Owning, StoreTypes, objectVars, FillFetch, Goto
<1>18. ASSUME FillFail(t) PROVE Same
  BY <1>18 DEF objectVars, FillFail
<1>19. ASSUME ReserveReturn(t) PROVE Same
  BY <1>19 DEF objectVars, ReserveReturn
<1>20. ASSUME ReadDevice(t) PROVE Same
  BY <1>20 DEF objectVars, ReadDevice
<1>21. ASSUME ReadNoPut(t) PROVE Same
  BY <1>21 DEF objectVars, ReadNoPut
<1>22. ASSUME Unlink(t) PROVE Same
  BY <1>22 DEF objectVars, Unlink
<1>23. ASSUME WriteDone(t) PROVE Same
  BY <1>23 DEF objectVars, WriteDone
<1>24. ASSUME NEW p \in Pages, BeginGet(t, p) PROVE Same
  BY <1>24 DEF objectVars, BeginGet
<1>25. ASSUME NEW p \in Pages, WriteDevice(t, p) PROVE Same
  BY <1>25 DEF objectVars, WriteDevice
<1>. QED
  BY <1>1, <1>2, <1>3, <1>4, <1>5, <1>6, <1>7, <1>8, <1>9, <1>10, <1>11, <1>12, <1>13, <1>14,
     <1>15, <1>16, <1>17, <1>18, <1>19, <1>20, <1>21, <1>22, <1>23, <1>24, <1>25 DEF Begin, Get,
     Reserve, Fill, Device

LEMMA StepLinks ==
  ASSUME Sole, IInv, Links, NEW t \in Threads,
         Begin(t) \/ Get(t) \/ Reserve(t) \/ Fill(t) \/ Device(t)
  PROVE  Links' /\ \A x : Linked(x)' => Linked(x) \/ (x = ob[t] /\ ReserveReturn(t))
<1>. DEFINE Goal == Links' /\ \A x : Linked(x)' => Linked(x) \/ (x = ob[t] /\ ReserveReturn(t))
<1>0. ThreadTypes /\ StoreTypes /\ iR \in R /\ pc[t] # "clear" /\ ~Clearing(t)
  BY SoleFacts
<1>1. ASSUME BeginRefresh(t) PROVE Goal
  <2>1. UNCHANGED <<iR, ListHeadInUse, B, FLink, BLink, iB>>
    BY <1>1 DEF BeginRefresh, listVars, chainVars, objectVars
  <2>2. \A r \in R : r # iR => ListHeadTotal'[r] = ListHeadTotal[r]
    BY <1>0, <1>1 DEF BeginRefresh, listVars, StoreTypes
  <2>3. \A u \in Writers : pc'[u] \in {"unlink", "got"} => pc'[u] = pc[u] /\ ob'[u] = ob[u]
    BY <1>0, <1>1 DEF ThreadTypes, Threads, callVars, BeginRefresh, Goto
  <2>. QED
    BY <2>1, <2>2, <2>3, SameLinks
<1>2. ASSUME GetHit(t) PROVE Goal
  BY <1>2, HitLinks
<1>3. ASSUME GetNextRegion(t) PROVE Goal
  <2>1. UNCHANGED <<iR, ListHeadInUse, B, FLink, BLink, iB>>
    BY <1>3 DEF GetNextRegion, listVars, chainVars, objectVars
  <2>2. \A r \in R : r # iR => ListHeadTotal'[r] = ListHeadTotal[r]
    BY <1>0, <1>3 DEF GetNextRegion, listVars, StoreTypes
  <2>3. \A u \in Writers : pc'[u] \in {"unlink", "got"} => pc'[u] = pc[u] /\ ob'[u] = ob[u]
    BY <1>0, <1>3 DEF ThreadTypes, Threads, callVars, GetNextRegion, Goto
  <2>. QED
    BY <2>1, <2>2, <2>3, SameLinks
<1>4. ASSUME GetMiss(t) PROVE Goal
  <2>1. UNCHANGED <<iR, ListHeadInUse, B, FLink, BLink, iB>>
    BY <1>4 DEF GetMiss, listVars, chainVars, objectVars
  <2>2. \A r \in R : r # iR => ListHeadTotal'[r] = ListHeadTotal[r]
    BY <1>0, <1>4 DEF GetMiss, listVars, StoreTypes
  <2>3. \A u \in Writers : pc'[u] \in {"unlink", "got"} => pc'[u] = pc[u] /\ ob'[u] = ob[u]
    BY <1>0, <1>4 DEF ThreadTypes, Threads, callVars, GetMiss, Goto
  <2>. QED
    BY <2>1, <2>2, <2>3, SameLinks
<1>5. ASSUME GotRelease(t) PROVE Goal
  <2>1. UNCHANGED <<iR, ListHeadInUse, B, FLink, BLink, iB>>
    BY <1>5 DEF GotRelease, listVars, chainVars, objectVars
  <2>2. \A r \in R : r # iR => ListHeadTotal'[r] = ListHeadTotal[r]
    BY <1>0, <1>5 DEF GotRelease, listVars, StoreTypes
  <2>3. \A u \in Writers : pc'[u] \in {"unlink", "got"} => pc'[u] = pc[u] /\ ob'[u] = ob[u]
    BY <1>0, <1>5 DEF ThreadTypes, Threads, callVars, GotRelease, Goto, Decref, Forget
  <2>. QED
    BY <2>1, <2>2, <2>3, SameLinks
<1>6. ASSUME CallbackRefCount1(t) PROVE Goal
  <2>1. UNCHANGED <<iR, ListHeadInUse, B, FLink, BLink, iB>>
    BY <1>6 DEF CallbackRefCount1, listVars, chainVars, objectVars
  <2>2. \A r \in R : r # iR => ListHeadTotal'[r] = ListHeadTotal[r]
    BY <1>0, <1>6 DEF CallbackRefCount1, listVars, StoreTypes
  <2>3. \A u \in Writers : pc'[u] \in {"unlink", "got"} => pc'[u] = pc[u] /\ ob'[u] = ob[u]
    BY <1>0, <1>6 DEF ThreadTypes, Threads, callVars, CallbackRefCount1, Goto
  <2>. QED
    BY <2>1, <2>2, <2>3, SameLinks
<1>7. ASSUME ReservePop(t) PROVE Goal
  <2>1. UNCHANGED <<iR, ListHeadInUse, B, FLink, BLink, iB>>
    BY <1>7 DEF ReservePop, listVars, chainVars, objectVars
  <2>2. \A r \in R : r # iR => ListHeadTotal'[r] = ListHeadTotal[r]
    BY <1>0, <1>7 DEF ReservePop, listVars, StoreTypes
  <2>3. \A u \in Writers : pc'[u] \in {"unlink", "got"} => pc'[u] = pc[u] /\ ob'[u] = ob[u]
    BY <1>0, <1>7 DEF ThreadTypes, Threads, callVars, ReservePop, Goto
  <2>. QED
    BY <2>1, <2>2, <2>3, SameLinks
<1>8. ASSUME ReserveEmpty(t) PROVE Goal
  <2>1. UNCHANGED <<iR, ListHeadInUse, B, FLink, BLink, iB>>
    BY <1>8 DEF ReserveEmpty, listVars, chainVars, objectVars
  <2>2. \A r \in R : r # iR => ListHeadTotal'[r] = ListHeadTotal[r]
    BY <1>0, <1>8 DEF ReserveEmpty, listVars, StoreTypes
  <2>3. \A u \in Writers : pc'[u] \in {"unlink", "got"} => pc'[u] = pc[u] /\ ob'[u] = ob[u]
    BY <1>0, <1>8 DEF ThreadTypes, Threads, callVars, ReserveEmpty, Goto
  <2>. QED
    BY <2>1, <2>2, <2>3, SameLinks
<1>9. ASSUME ReserveCheck(t) PROVE Goal
  <2>1. UNCHANGED <<iR, ListHeadInUse, B, FLink, BLink, iB>>
    BY <1>9 DEF ReserveCheck, listVars, chainVars, objectVars
  <2>2. \A r \in R : r # iR => ListHeadTotal'[r] = ListHeadTotal[r]
    BY <1>0, <1>9 DEF ReserveCheck, listVars, StoreTypes
  <2>3. \A u \in Writers : pc'[u] \in {"unlink", "got"} => pc'[u] = pc[u] /\ ob'[u] = ob[u]
    BY <1>0, <1>9 DEF ThreadTypes, Threads, callVars, ReserveCheck, Goto
  <2>. QED
    BY <2>1, <2>2, <2>3, SameLinks
<1>10. ASSUME ReserveAlloc(t) PROVE Goal
  <2>1. UNCHANGED <<iR, ListHeadInUse, B, FLink, BLink, iB>>
    BY <1>10 DEF ReserveAlloc, listVars, chainVars, objectVars
  <2>2. \A r \in R : r # iR => ListHeadTotal'[r] = ListHeadTotal[r]
    BY <1>0, <1>10 DEF ReserveAlloc, listVars, StoreTypes
  <2>3. \A u \in Writers : pc'[u] \in {"unlink", "got"} => pc'[u] = pc[u] /\ ob'[u] = ob[u]
    BY <1>0, <1>10 DEF ThreadTypes, Threads, callVars, ReserveAlloc, Goto
  <2>. QED
    BY <2>1, <2>2, <2>3, SameLinks
<1>11. ASSUME ReserveAllocFail(t) PROVE Goal
  <2>1. UNCHANGED <<iR, ListHeadInUse, B, FLink, BLink, iB>>
    BY <1>11 DEF ReserveAllocFail, listVars, chainVars, objectVars
  <2>2. \A r \in R : r # iR => ListHeadTotal'[r] = ListHeadTotal[r]
    BY <1>0, <1>11 DEF ReserveAllocFail, listVars, StoreTypes
  <2>3. \A u \in Writers : pc'[u] \in {"unlink", "got"} => pc'[u] = pc[u] /\ ob'[u] = ob[u]
    BY <1>0, <1>11 DEF ThreadTypes, Threads, callVars, ReserveAllocFail, Goto, Forget
  <2>. QED
    BY <2>1, <2>2, <2>3, SameLinks
<1>12. ASSUME ClearLock(t) PROVE Goal
  BY <1>0, <1>12 DEF ClearLock, Goto, Clearing
<1>13. ASSUME ClearPop(t) PROVE Goal
  BY <1>0, <1>13 DEF ClearPop, Goto, Decref, Forget, Clearing
<1>14. ASSUME ClearDone(t) PROVE Goal
  BY <1>0, <1>14 DEF ClearDone, Goto, ClearReturn, Forget, Clearing
<1>15. ASSUME FillAddress(t) PROVE Goal
  <2>1. UNCHANGED <<iR, ListHeadInUse, B, FLink, BLink, iB>>
    BY <1>15 DEF FillAddress, listVars, chainVars, objectVars
  <2>2. \A r \in R : r # iR => ListHeadTotal'[r] = ListHeadTotal[r]
    BY <1>0, <1>15 DEF FillAddress, listVars, StoreTypes
  <2>3. \A u \in Writers : pc'[u] \in {"unlink", "got"} => pc'[u] = pc[u] /\ ob'[u] = ob[u]
    BY <1>0, <1>15 DEF ThreadTypes, Threads, callVars, FillAddress, Goto
  <2>. QED
    BY <2>1, <2>2, <2>3, SameLinks
<1>16. ASSUME FillCopy(t) PROVE Goal
  <2>1. UNCHANGED <<iR, ListHeadInUse, B, FLink, BLink, iB>>
    BY <1>16 DEF FillCopy, listVars, chainVars, objectVars
  <2>2. \A r \in R : r # iR => ListHeadTotal'[r] = ListHeadTotal[r]
    BY <1>0, <1>16 DEF FillCopy, listVars, StoreTypes
  <2>3. \A u \in Writers : pc'[u] \in {"unlink", "got"} => pc'[u] = pc[u] /\ ob'[u] = ob[u]
    BY <1>0, <1>16 DEF ThreadTypes, Threads, callVars, FillCopy, Goto
  <2>. QED
    BY <2>1, <2>2, <2>3, SameLinks
<1>17. ASSUME FillFetch(t) PROVE Goal
  <2>1. UNCHANGED <<iR, ListHeadInUse, B, FLink, BLink, iB>>
    BY <1>17 DEF FillFetch, listVars, chainVars, objectVars
  <2>2. \A r \in R : r # iR => ListHeadTotal'[r] = ListHeadTotal[r]
    BY <1>0, <1>17 DEF FillFetch, listVars, StoreTypes
  <2>3. \A u \in Writers : pc'[u] \in {"unlink", "got"} => pc'[u] = pc[u] /\ ob'[u] = ob[u]
    BY <1>0, <1>17 DEF ThreadTypes, Threads, callVars, FillFetch, Goto
  <2>. QED
    BY <2>1, <2>2, <2>3, SameLinks
<1>18. ASSUME FillFail(t) PROVE Goal
  <2>1. UNCHANGED <<iR, ListHeadInUse, B, FLink, BLink, iB>>
    BY <1>18 DEF FillFail, listVars, chainVars, objectVars
  <2>2. \A r \in R : r # iR => ListHeadTotal'[r] = ListHeadTotal[r]
    BY <1>0, <1>18 DEF FillFail, listVars, StoreTypes
  <2>3. \A u \in Writers : pc'[u] \in {"unlink", "got"} => pc'[u] = pc[u] /\ ob'[u] = ob[u]
    BY <1>0, <1>18 DEF ThreadTypes, Threads, callVars, FillFail, Goto, Decref, Forget
  <2>. QED
    BY <2>1, <2>2, <2>3, SameLinks
<1>19. ASSUME ReserveReturn(t) PROVE Goal
  BY <1>19, ReturnLinks
<1>20. ASSUME ReadDevice(t) PROVE Goal
  <2>1. UNCHANGED <<iR, ListHeadInUse, B, FLink, BLink, iB>>
    BY <1>20 DEF ReadDevice, listVars, chainVars, objectVars
  <2>2. \A r \in R : r # iR => ListHeadTotal'[r] = ListHeadTotal[r]
    BY <1>0, <1>20 DEF ReadDevice, listVars, StoreTypes
  <2>3. \A u \in Writers : pc'[u] \in {"unlink", "got"} => pc'[u] = pc[u] /\ ob'[u] = ob[u]
    BY <1>0, <1>20 DEF ThreadTypes, Threads, callVars, ReadDevice, Goto
  <2>. QED
    BY <2>1, <2>2, <2>3, SameLinks
<1>21. ASSUME ReadNoPut(t) PROVE Goal
  <2>1. UNCHANGED <<iR, ListHeadInUse, B, FLink, BLink, iB>>
    BY <1>21 DEF ReadNoPut, listVars, chainVars, objectVars
  <2>2. \A r \in R : r # iR => ListHeadTotal'[r] = ListHeadTotal[r]
    BY <1>0, <1>21 DEF ReadNoPut, listVars, StoreTypes
  <2>3. \A u \in Writers : pc'[u] \in {"unlink", "got"} => pc'[u] = pc[u] /\ ob'[u] = ob[u]
    BY <1>0, <1>21 DEF ThreadTypes, Threads, callVars, ReadNoPut, Goto, Forget
  <2>. QED
    BY <2>1, <2>2, <2>3, SameLinks
<1>22. ASSUME Unlink(t) PROVE Goal
  BY <1>22, UnlinkLinks
<1>23. ASSUME WriteDone(t) PROVE Goal
  <2>1. UNCHANGED <<iR, ListHeadInUse, B, FLink, BLink, iB>>
    BY <1>23 DEF WriteDone, listVars, chainVars, objectVars
  <2>2. \A r \in R : r # iR => ListHeadTotal'[r] = ListHeadTotal[r]
    BY <1>0, <1>23 DEF WriteDone, listVars, StoreTypes
  <2>3. \A u \in Writers : pc'[u] \in {"unlink", "got"} => pc'[u] = pc[u] /\ ob'[u] = ob[u]
    BY <1>0, <1>23 DEF ThreadTypes, Threads, callVars, WriteDone, Goto, Forget
  <2>. QED
    BY <2>1, <2>2, <2>3, SameLinks
<1>24. ASSUME NEW p \in Pages, BeginGet(t, p) PROVE Goal
  <2>1. UNCHANGED <<iR, ListHeadInUse, B, FLink, BLink, iB>>
    BY <1>24 DEF BeginGet, listVars, chainVars, objectVars
  <2>2. \A r \in R : r # iR => ListHeadTotal'[r] = ListHeadTotal[r]
    BY <1>0, <1>24 DEF BeginGet, listVars, StoreTypes
  <2>3. \A u \in Writers : pc'[u] \in {"unlink", "got"} => pc'[u] = pc[u] /\ ob'[u] = ob[u]
    BY <1>0, <1>24 DEF ThreadTypes, Threads, callVars, BeginGet, Goto
  <2>. QED
    BY <2>1, <2>2, <2>3, SameLinks
<1>25. ASSUME NEW p \in Pages, WriteDevice(t, p) PROVE Goal
  <2>1. UNCHANGED <<iR, ListHeadInUse, B, FLink, BLink, iB>>
    BY <1>25 DEF WriteDevice, listVars, chainVars, objectVars
  <2>2. \A r \in R : r # iR => ListHeadTotal'[r] = ListHeadTotal[r]
    BY <1>0, <1>25 DEF WriteDevice, listVars, StoreTypes
  <2>3. \A u \in Writers : pc'[u] \in {"unlink", "got"} => pc'[u] = pc[u] /\ ob'[u] = ob[u]
    BY <1>0, <1>25 DEF ThreadTypes, Threads, callVars, WriteDevice, Goto
  <2>. QED
    BY <2>1, <2>2, <2>3, SameLinks
<1>. QED
  BY <1>1, <1>2, <1>3, <1>4, <1>5, <1>6, <1>7, <1>8, <1>9, <1>10, <1>11, <1>12, <1>13, <1>14,
     <1>15, <1>16, <1>17, <1>18, <1>19, <1>20, <1>21, <1>22, <1>23, <1>24, <1>25 DEF Begin, Get,
     Reserve, Fill, Device
(* A lookup that finds nothing has seen all that is linked: the first in   *)
(* the list that it did not see would follow one that it saw.              *)
LEMMA MissLinked ==
  ASSUME Sole, IInv, Links, NEW p \in Pages, Lookup(iR, p) = {}, WalkEnds(iR, p),
         NEW o, Linked(o)
  PROVE  qwA[o] # p
<1>. SUFFICES ASSUME qwA[o] = p PROVE FALSE
  OBVIOUS
<1>. DEFINE K == Cardinality(Objects)
<1>1. PICK r \in R, b \in Buckets : r = iR /\ b = Hash[p] /\ iB[o] = b /\ o \in InUse(r)
  BY SoleFacts DEF Linked
<1>. DEFINE at == Chain(r, b)
            list == ListHeadInUse[r]
<1>2. /\ K \in Nat /\ DOMAIN at = 0..K /\ at[K] = None /\ at[0] = B[r][b]
      /\ \A n \in 1..K : at[n] = IF at[n - 1] = None THEN None ELSE FLink[at[n - 1]]
  BY <1>1, ConstantTypes, ChainIs DEF WalkEnds
<1>3. ASSUME NEW n \in 0..K, at[n] # None PROVE qwA[at[n]] # p
  <2>. SUFFICES ASSUME qwA[at[n]] = p PROVE FALSE
    OBVIOUS
  <2>. DEFINE hits == {m \in DOMAIN at : at[m] # None /\ qwA[at[m]] = p}
  <2>1. n \in hits /\ hits \subseteq Nat
    BY <1>2, <1>3
  <2>2. PICK m \in hits : \A k \in hits : m <= k
    <3>. HIDE DEF hits
    <3>. QED
      BY <2>1, NatMin
  <2>3. at[m] \in Lookup(iR, p)
    BY <1>1, <2>2 DEF Lookup
  <2>. QED
    BY <2>3
<1>4. /\ list \in Seq(Objects) /\ Distinct(list) /\ InUse(r) \subseteq Objects
      /\ None \notin InUse(r)
  BY <1>1, SoleFacts, ConstantTypes
<1>. DEFINE Away == {m \in 1..Len(list) : /\ Linked(list[m]) /\ iB[list[m]] = b
                                         /\ \A n \in 0..K : at[n] # list[m]}
<1>5. Away = {}
  <2>. SUFFICES ASSUME Away # {} PROVE FALSE
    OBVIOUS
  <2>1. PICK m \in Away : \A k \in Away : m <= k
    <3>1. Away \subseteq Nat
      OBVIOUS
    <3>. HIDE DEF Away
    <3>. QED
      BY <3>1, NatMin
  <2>2. PICK y \in InUse(r) : y = list[m] /\ Linked(y) /\ iB[y] = b /\ \A n \in 0..K : at[n] # y
    BY <1>1, <2>1 DEF Linked
  <2>3. BLink[y] # None
    <3>. SUFFICES ASSUME BLink[y] = None PROVE FALSE
      OBVIOUS
    <3>1. B[r][b] = y
      BY <1>1, <2>2 DEF Linked, Behind
    <3>. QED
      BY <1>2, <2>2, <3>1
  <2>4. PICK q \in InUse(r) : q = BLink[y] /\ Linked(q) /\ FLink[q] = y /\ iB[q] = b
    <3>1. BLink[y] \in InUse(r) /\ Linked(BLink[y]) /\ FLink[BLink[y]] = y
      BY <1>1, <2>2, <2>3, SoleFacts DEF Links, Prevs, Linked, Behind
    <3>2. iB[BLink[y]] = b
      BY <1>1, <1>4, <2>2, <3>1 DEF Links, Nexts
    <3>. QED
      BY <3>1, <3>2
  <2>5. Before(list, q, y)
    BY <1>1, <1>4, <2>2, <2>4 DEF Links, Ordered
  <2>6. PICK k \in 1..Len(list) : k < m /\ list[k] = q
    <3>1. PICK k, l \in 1..Len(list) : k < l /\ list[k] = q /\ list[l] = y
      BY <2>5 DEF Before
    <3>2. l = m
      BY <1>4, <2>1, <2>2, <3>1 DEF Distinct
    <3>. QED
      BY <3>1, <3>2
  <2>7. k \notin Away
    BY <2>1, <2>6
  <2>8. PICK n \in 0..K : at[n] = q
    BY <2>4, <2>6, <2>7
  <2>9. n + 1 \in 0..K /\ n + 1 \in 1..K
    BY <1>2, <1>4, <2>4, <2>8
  <2>10. at[n + 1] = y
    <3>1. at[n + 1] = IF at[n + 1 - 1] = None THEN None ELSE FLink[at[n + 1 - 1]]
      BY <1>2, <2>9
    <3>2. n + 1 - 1 = n
      BY <2>8
    <3>. QED
      BY <1>4, <2>4, <2>8, <3>1, <3>2
  <2>. QED
    BY <2>2, <2>9, <2>10
<1>6. PICK m \in 1..Len(list) : list[m] = o
  BY <1>1 DEF InUse, Members
<1>7. PICK n \in 0..K : at[n] = o
  BY <1>1, <1>5, <1>6
<1>. QED
  BY <1>1, <1>3, <1>4, <1>7
(***************************************************************************)
(* What the thread of a step reads, writes and carries.                    *)
(***************************************************************************)
Carry == {"reserve", "check", "alloc", "clear", "clearing", "fill", "data", "put"}

(* Memory changes by a write, and a write completes by its thread.           *)
LEMMA OwnMemory ==
  ASSUME Sole, IInv, NEW t \in Threads,
         Begin(t) \/ Get(t) \/ Reserve(t) \/ Fill(t) \/ Device(t)
  PROVE  /\ \/ mem' = mem
            \/ t \in Writers /\ \E p \in Pages : mem' = [mem EXCEPT ![p] = @ + 1]
         /\ \/ written' = written
            \/ /\ t \in Writers /\ pc[t] = "get" /\ Missing(t) /\ a[t] \in Pages
               /\ need[t] # 0 /\ ~Straddled(a[t], need[t]) /\ mem' = mem
               /\ written' = [written EXCEPT ![a[t]] = need[t]]
<1>. DEFINE Goal == /\ \/ mem' = mem
                       \/ t \in Writers /\ \E p \in Pages : mem' = [mem EXCEPT ![p] = @ + 1]
                    /\ \/ written' = written
                       \/ /\ t \in Writers /\ pc[t] = "get" /\ Missing(t) /\ a[t] \in Pages
                          /\ need[t] # 0 /\ ~Straddled(a[t], need[t]) /\ mem' = mem
                          /\ written' = [written EXCEPT ![a[t]] = need[t]]
<1>0. ThreadTypes /\ StoreTypes /\ HeldBy(t) /\ pc[t] # "clear" /\ ~Clearing(t)
  BY SoleFacts DEF IInv, Held
<1>1. ASSUME BeginRefresh(t) PROVE Goal
  BY <1>0, <1>1, Roles DEF ThreadTypes, callVars, deviceVars, HeldBy, Clearing, BeginRefresh, Goto
<1>2. ASSUME GetHit(t) PROVE Goal
  BY <1>0, <1>2, Roles DEF ThreadTypes, callVars, deviceVars, HeldBy, Clearing, GetHit, Goto
<1>3. ASSUME GetNextRegion(t) PROVE Goal
  BY <1>0, <1>3, Roles DEF ThreadTypes, callVars, deviceVars, HeldBy, Clearing, GetNextRegion, Goto
<1>4. ASSUME GetMiss(t) PROVE Goal
  BY <1>0, <1>4, Roles DEF ThreadTypes, callVars, deviceVars, HeldBy, Clearing, GetMiss, Goto
<1>5. ASSUME GotRelease(t) PROVE Goal
  BY <1>0, <1>5, Roles DEF ThreadTypes, callVars, deviceVars, HeldBy, Clearing, GotRelease, Goto,
     Decref, Forget
<1>6. ASSUME CallbackRefCount1(t) PROVE Goal
  BY <1>0, <1>6, Roles DEF ThreadTypes, callVars, deviceVars, HeldBy, Clearing, CallbackRefCount1,
     Goto
<1>7. ASSUME ReservePop(t) PROVE Goal
  BY <1>0, <1>7, Roles DEF ThreadTypes, callVars, deviceVars, HeldBy, Clearing, ReservePop, Goto
<1>8. ASSUME ReserveEmpty(t) PROVE Goal
  BY <1>0, <1>8, Roles DEF ThreadTypes, callVars, deviceVars, HeldBy, Clearing, ReserveEmpty, Goto
<1>9. ASSUME ReserveCheck(t) PROVE Goal
  BY <1>0, <1>9, Roles DEF ThreadTypes, callVars, deviceVars, HeldBy, Clearing, ReserveCheck, Goto
<1>10. ASSUME ReserveAlloc(t) PROVE Goal
  BY <1>0, <1>10, Roles DEF ThreadTypes, callVars, deviceVars, HeldBy, Clearing, ReserveAlloc, Goto
<1>11. ASSUME ReserveAllocFail(t) PROVE Goal
  BY <1>0, <1>11, Roles DEF ThreadTypes, callVars, deviceVars, HeldBy, Clearing, ReserveAllocFail,
     Goto, Forget
<1>12. ASSUME ClearLock(t) PROVE Goal
  BY <1>0, <1>12, Roles DEF ThreadTypes, callVars, deviceVars, HeldBy, Clearing, ClearLock, Goto
<1>13. ASSUME ClearPop(t) PROVE Goal
  BY <1>0, <1>13, Roles DEF ThreadTypes, callVars, deviceVars, HeldBy, Clearing, ClearPop, Goto,
     Decref, Forget
<1>14. ASSUME ClearDone(t) PROVE Goal
  BY <1>0, <1>14, Roles DEF ThreadTypes, callVars, deviceVars, HeldBy, Clearing, ClearDone, Goto,
     ClearReturn, Forget
<1>15. ASSUME FillAddress(t) PROVE Goal
  BY <1>0, <1>15, Roles DEF ThreadTypes, callVars, deviceVars, HeldBy, Clearing, FillAddress, Goto
<1>16. ASSUME FillCopy(t) PROVE Goal
  BY <1>0, <1>16, Roles DEF ThreadTypes, callVars, deviceVars, HeldBy, Clearing, FillCopy, Goto
<1>17. ASSUME FillFetch(t) PROVE Goal
  BY <1>0, <1>17, Roles DEF ThreadTypes, callVars, deviceVars, HeldBy, Clearing, FillFetch, Goto
<1>18. ASSUME FillFail(t) PROVE Goal
  BY <1>0, <1>18, Roles DEF ThreadTypes, callVars, deviceVars, HeldBy, Clearing, FillFail, Goto,
     Decref, Forget
<1>19. ASSUME ReserveReturn(t) PROVE Goal
  BY <1>0, <1>19, Roles DEF ThreadTypes, callVars, deviceVars, HeldBy, Clearing, ReserveReturn,
     Goto, Forget
<1>20. ASSUME ReadDevice(t) PROVE Goal
  BY <1>0, <1>20, Roles DEF ThreadTypes, callVars, deviceVars, HeldBy, Clearing, ReadDevice, Goto
<1>21. ASSUME ReadNoPut(t) PROVE Goal
  BY <1>0, <1>21, Roles DEF ThreadTypes, callVars, deviceVars, HeldBy, Clearing, ReadNoPut, Goto,
     Forget
<1>22. ASSUME Unlink(t) PROVE Goal
  BY <1>0, <1>22, Roles DEF ThreadTypes, callVars, deviceVars, HeldBy, Clearing, Unlink, Goto
<1>23. ASSUME WriteDone(t) PROVE Goal
  BY <1>0, <1>23, Roles DEF ThreadTypes, callVars, deviceVars, HeldBy, Clearing, WriteDone, Goto,
     Forget
<1>24. ASSUME NEW p \in Pages, BeginGet(t, p) PROVE Goal
  BY <1>0, <1>24, Roles DEF ThreadTypes, callVars, deviceVars, HeldBy, Clearing, BeginGet, Goto
<1>25. ASSUME NEW p \in Pages, WriteDevice(t, p) PROVE Goal
  BY <1>0, <1>25, Roles DEF ThreadTypes, callVars, deviceVars, HeldBy, Clearing, WriteDevice, Goto
<1>. QED
  BY <1>1, <1>2, <1>3, <1>4, <1>5, <1>6, <1>7, <1>8, <1>9, <1>10, <1>11, <1>12, <1>13, <1>14,
     <1>15, <1>16, <1>17, <1>18, <1>19, <1>20, <1>21, <1>22, <1>23, <1>24, <1>25 DEF Begin, Get,
     Reserve, Fill, Device

(* What a read carries is what it read from the device.                     *)
LEMMA OwnCarry ==
  ASSUME Sole, IInv, NEW t \in Threads,
         Begin(t) \/ Get(t) \/ Reserve(t) \/ Fill(t) \/ Device(t)
  PROVE  /\ t \in Readers /\ pc'[t] \in Carry =>
              /\ a'[t] = a[t]
              /\ \/ pc[t] \in Carry /\ buf'[t] = buf[t]
                 \/ pc[t] = "read" /\ buf'[t] = mem[a[t]]
         /\ t \in Readers /\ pc'[t] = "put" => FillCopy(t)
         /\ t \in Fetchers /\ pc'[t] = "put" => FillFetch(t)
<1>. DEFINE Goal == /\ t \in Readers /\ pc'[t] \in Carry =>
                         /\ a'[t] = a[t]
                         /\ \/ pc[t] \in Carry /\ buf'[t] = buf[t]
                            \/ pc[t] = "read" /\ buf'[t] = mem[a[t]]
                    /\ t \in Readers /\ pc'[t] = "put" => FillCopy(t)
                    /\ t \in Fetchers /\ pc'[t] = "put" => FillFetch(t)
<1>0. ThreadTypes /\ StoreTypes /\ HeldBy(t) /\ pc[t] # "clear" /\ ~Clearing(t)
  BY SoleFacts DEF IInv, Held
<1>1. ASSUME BeginRefresh(t) PROVE Goal
  BY <1>0, <1>1, Roles DEF ThreadTypes, callVars, deviceVars, HeldBy, Clearing, Carry,
     BeginRefresh, Goto
<1>2. ASSUME GetHit(t) PROVE Goal
  BY <1>0, <1>2, Roles DEF ThreadTypes, callVars, deviceVars, HeldBy, Clearing, Carry, GetHit, Goto
<1>3. ASSUME GetNextRegion(t) PROVE Goal
  BY <1>0, <1>3, Roles DEF ThreadTypes, callVars, deviceVars, HeldBy, Clearing, Carry,
     GetNextRegion, Goto
<1>4. ASSUME GetMiss(t) PROVE Goal
  BY <1>0, <1>4, Roles DEF ThreadTypes, callVars, deviceVars, HeldBy, Clearing, Carry, GetMiss, Goto
<1>5. ASSUME GotRelease(t) PROVE Goal
  BY <1>0, <1>5, Roles DEF ThreadTypes, callVars, deviceVars, HeldBy, Clearing, Carry, GotRelease,
     Goto, Decref, Forget
<1>6. ASSUME CallbackRefCount1(t) PROVE Goal
  BY <1>0, <1>6, Roles DEF ThreadTypes, callVars, deviceVars, HeldBy, Clearing, Carry,
     CallbackRefCount1, Goto
<1>7. ASSUME ReservePop(t) PROVE Goal
  BY <1>0, <1>7, Roles DEF ThreadTypes, callVars, deviceVars, HeldBy, Clearing, Carry, ReservePop,
     Goto
<1>8. ASSUME ReserveEmpty(t) PROVE Goal
  BY <1>0, <1>8, Roles DEF ThreadTypes, callVars, deviceVars, HeldBy, Clearing, Carry,
     ReserveEmpty, Goto
<1>9. ASSUME ReserveCheck(t) PROVE Goal
  BY <1>0, <1>9, Roles DEF ThreadTypes, callVars, deviceVars, HeldBy, Clearing, Carry,
     ReserveCheck, Goto
<1>10. ASSUME ReserveAlloc(t) PROVE Goal
  BY <1>0, <1>10, Roles DEF ThreadTypes, callVars, deviceVars, HeldBy, Clearing, Carry,
     ReserveAlloc, Goto
<1>11. ASSUME ReserveAllocFail(t) PROVE Goal
  BY <1>0, <1>11, Roles DEF ThreadTypes, callVars, deviceVars, HeldBy, Clearing, Carry,
     ReserveAllocFail, Goto, Forget
<1>12. ASSUME ClearLock(t) PROVE Goal
  BY <1>0, <1>12, Roles DEF ThreadTypes, callVars, deviceVars, HeldBy, Clearing, Carry, ClearLock,
     Goto
<1>13. ASSUME ClearPop(t) PROVE Goal
  BY <1>0, <1>13, Roles DEF ThreadTypes, callVars, deviceVars, HeldBy, Clearing, Carry, ClearPop,
     Goto, Decref, Forget
<1>14. ASSUME ClearDone(t) PROVE Goal
  BY <1>0, <1>14, Roles DEF ThreadTypes, callVars, deviceVars, HeldBy, Clearing, Carry, ClearDone,
     Goto, ClearReturn, Forget
<1>15. ASSUME FillAddress(t) PROVE Goal
  BY <1>0, <1>15, Roles DEF ThreadTypes, callVars, deviceVars, HeldBy, Clearing, Carry,
     FillAddress, Goto
<1>16. ASSUME FillCopy(t) PROVE Goal
  BY <1>0, <1>16, Roles DEF ThreadTypes, callVars, deviceVars, HeldBy, Clearing, Carry, FillCopy,
     Goto
<1>17. ASSUME FillFetch(t) PROVE Goal
  BY <1>0, <1>17, Roles DEF ThreadTypes, callVars, deviceVars, HeldBy, Clearing, Carry, FillFetch,
     Goto
<1>18. ASSUME FillFail(t) PROVE Goal
  BY <1>0, <1>18, Roles DEF ThreadTypes, callVars, deviceVars, HeldBy, Clearing, Carry, FillFail,
     Goto, Decref, Forget
<1>19. ASSUME ReserveReturn(t) PROVE Goal
  BY <1>0, <1>19, Roles DEF ThreadTypes, callVars, deviceVars, HeldBy, Clearing, Carry,
     ReserveReturn, Goto, Forget
<1>20. ASSUME ReadDevice(t) PROVE Goal
  BY <1>0, <1>20, Roles DEF ThreadTypes, callVars, deviceVars, HeldBy, Clearing, Carry,
     ReadDevice, Goto
<1>21. ASSUME ReadNoPut(t) PROVE Goal
  BY <1>0, <1>21, Roles DEF ThreadTypes, callVars, deviceVars, HeldBy, Clearing, Carry, ReadNoPut,
     Goto, Forget
<1>22. ASSUME Unlink(t) PROVE Goal
  BY <1>0, <1>22, Roles DEF ThreadTypes, callVars, deviceVars, HeldBy, Clearing, Carry, Unlink, Goto
<1>23. ASSUME WriteDone(t) PROVE Goal
  BY <1>0, <1>23, Roles DEF ThreadTypes, callVars, deviceVars, HeldBy, Clearing, Carry, WriteDone,
     Goto, Forget
<1>24. ASSUME NEW p \in Pages, BeginGet(t, p) PROVE Goal
  BY <1>0, <1>24, Roles DEF ThreadTypes, callVars, deviceVars, HeldBy, Clearing, Carry, BeginGet,
     Goto
<1>25. ASSUME NEW p \in Pages, WriteDevice(t, p) PROVE Goal
  BY <1>0, <1>25, Roles DEF ThreadTypes, callVars, deviceVars, HeldBy, Clearing, Carry,
     WriteDevice, Goto
<1>. QED
  BY <1>1, <1>2, <1>3, <1>4, <1>5, <1>6, <1>7, <1>8, <1>9, <1>10, <1>11, <1>12, <1>13, <1>14,
     <1>15, <1>16, <1>17, <1>18, <1>19, <1>20, <1>21, <1>22, <1>23, <1>24, <1>25 DEF Begin, Get,
     Reserve, Fill, Device

(* A writer keeps its page, and looks from the first region on.             *)
LEMMA OwnWrite ==
  ASSUME Sole, IInv, NEW t \in Threads,
         Begin(t) \/ Get(t) \/ Reserve(t) \/ Fill(t) \/ Device(t),
         t \in Writers /\ pc[t] # "get" => i[t] = 0
  PROVE  t \in Writers =>
           /\ pc'[t] # "get" => i'[t] = 0
           /\ pc'[t] # "idle" =>
                \/ /\ need'[t] \in {0, need[t]} /\ mem' = mem
                   /\ pc[t] # "idle" /\ a'[t] = a[t]
                \/ \E p \in Pages : WriteDevice(t, p)
           /\ pc'[t] = "get" /\ i'[t] > 0 => GetNextRegion(t)
<1>. DEFINE Goal == t \in Writers =>
                      /\ pc'[t] # "get" => i'[t] = 0
                      /\ pc'[t] # "idle" =>
                           \/ /\ need'[t] \in {0, need[t]} /\ mem' = mem
                              /\ pc[t] # "idle" /\ a'[t] = a[t]
                           \/ \E p \in Pages : WriteDevice(t, p)
                      /\ pc'[t] = "get" /\ i'[t] > 0 => GetNextRegion(t)
<1>0. ThreadTypes /\ StoreTypes /\ HeldBy(t) /\ pc[t] # "clear" /\ ~Clearing(t)
  BY SoleFacts DEF IInv, Held
<1>1. ASSUME BeginRefresh(t) PROVE Goal
  BY <1>0, <1>1, Roles DEF ThreadTypes, callVars, deviceVars, HeldBy, Clearing, BeginRefresh, Goto
<1>2. ASSUME GetHit(t) PROVE Goal
  BY <1>0, <1>2, Roles DEF ThreadTypes, callVars, deviceVars, HeldBy, Clearing, GetHit, Goto
<1>3. ASSUME GetNextRegion(t) PROVE Goal
  BY <1>0, <1>3, Roles DEF ThreadTypes, callVars, deviceVars, HeldBy, Clearing, GetNextRegion, Goto
<1>4. ASSUME GetMiss(t) PROVE Goal
  BY <1>0, <1>4, Roles DEF ThreadTypes, callVars, deviceVars, HeldBy, Clearing, GetMiss, Goto
<1>5. ASSUME GotRelease(t) PROVE Goal
  BY <1>0, <1>5, Roles DEF ThreadTypes, callVars, deviceVars, HeldBy, Clearing, GotRelease, Goto,
     Decref, Forget
<1>6. ASSUME CallbackRefCount1(t) PROVE Goal
  BY <1>0, <1>6, Roles DEF ThreadTypes, callVars, deviceVars, HeldBy, Clearing, CallbackRefCount1,
     Goto
<1>7. ASSUME ReservePop(t) PROVE Goal
  BY <1>0, <1>7, Roles DEF ThreadTypes, callVars, deviceVars, HeldBy, Clearing, ReservePop, Goto
<1>8. ASSUME ReserveEmpty(t) PROVE Goal
  BY <1>0, <1>8, Roles DEF ThreadTypes, callVars, deviceVars, HeldBy, Clearing, ReserveEmpty, Goto
<1>9. ASSUME ReserveCheck(t) PROVE Goal
  BY <1>0, <1>9, Roles DEF ThreadTypes, callVars, deviceVars, HeldBy, Clearing, ReserveCheck, Goto
<1>10. ASSUME ReserveAlloc(t) PROVE Goal
  BY <1>0, <1>10, Roles DEF ThreadTypes, callVars, deviceVars, HeldBy, Clearing, ReserveAlloc, Goto
<1>11. ASSUME ReserveAllocFail(t) PROVE Goal
  BY <1>0, <1>11, Roles DEF ThreadTypes, callVars, deviceVars, HeldBy, Clearing, ReserveAllocFail,
     Goto, Forget
<1>12. ASSUME ClearLock(t) PROVE Goal
  BY <1>0, <1>12, Roles DEF ThreadTypes, callVars, deviceVars, HeldBy, Clearing, ClearLock, Goto
<1>13. ASSUME ClearPop(t) PROVE Goal
  BY <1>0, <1>13, Roles DEF ThreadTypes, callVars, deviceVars, HeldBy, Clearing, ClearPop, Goto,
     Decref, Forget
<1>14. ASSUME ClearDone(t) PROVE Goal
  BY <1>0, <1>14, Roles DEF ThreadTypes, callVars, deviceVars, HeldBy, Clearing, ClearDone, Goto,
     ClearReturn, Forget
<1>15. ASSUME FillAddress(t) PROVE Goal
  BY <1>0, <1>15, Roles DEF ThreadTypes, callVars, deviceVars, HeldBy, Clearing, FillAddress, Goto
<1>16. ASSUME FillCopy(t) PROVE Goal
  BY <1>0, <1>16, Roles DEF ThreadTypes, callVars, deviceVars, HeldBy, Clearing, FillCopy, Goto
<1>17. ASSUME FillFetch(t) PROVE Goal
  BY <1>0, <1>17, Roles DEF ThreadTypes, callVars, deviceVars, HeldBy, Clearing, FillFetch, Goto
<1>18. ASSUME FillFail(t) PROVE Goal
  BY <1>0, <1>18, Roles DEF ThreadTypes, callVars, deviceVars, HeldBy, Clearing, FillFail, Goto,
     Decref, Forget
<1>19. ASSUME ReserveReturn(t) PROVE Goal
  BY <1>0, <1>19, Roles DEF ThreadTypes, callVars, deviceVars, HeldBy, Clearing, ReserveReturn,
     Goto, Forget
<1>20. ASSUME ReadDevice(t) PROVE Goal
  BY <1>0, <1>20, Roles DEF ThreadTypes, callVars, deviceVars, HeldBy, Clearing, ReadDevice, Goto
<1>21. ASSUME ReadNoPut(t) PROVE Goal
  BY <1>0, <1>21, Roles DEF ThreadTypes, callVars, deviceVars, HeldBy, Clearing, ReadNoPut, Goto,
     Forget
<1>22. ASSUME Unlink(t) PROVE Goal
  BY <1>0, <1>22, Roles DEF ThreadTypes, callVars, deviceVars, HeldBy, Clearing, Unlink, Goto
<1>23. ASSUME WriteDone(t) PROVE Goal
  BY <1>0, <1>23, Roles DEF ThreadTypes, callVars, deviceVars, HeldBy, Clearing, WriteDone, Goto,
     Forget
<1>24. ASSUME NEW p \in Pages, BeginGet(t, p) PROVE Goal
  BY <1>0, <1>24, Roles DEF ThreadTypes, callVars, deviceVars, HeldBy, Clearing, BeginGet, Goto
<1>25. ASSUME NEW p \in Pages, WriteDevice(t, p) PROVE Goal
  <2>1. pc[t] = "idle" /\ pc'[t] = "get" /\ i'[t] = i[t]
    BY <1>0, <1>25 DEF ThreadTypes, WriteDevice, Goto
  <2>2. \E q \in Pages : WriteDevice(t, q)
    BY <1>25
  <2>. QED
    BY <2>1, <2>2
<1>. QED
  BY <1>1, <1>2, <1>3, <1>4, <1>5, <1>6, <1>7, <1>8, <1>9, <1>10, <1>11, <1>12, <1>13, <1>14,
     <1>15, <1>16, <1>17, <1>18, <1>19, <1>20, <1>21, <1>22, <1>23, <1>24, <1>25 DEF Begin, Get,
     Reserve, Fill, Device

(* A read keeps its page, and gets an object by a hit or by its own put.     *)
LEMMA OwnRead ==
  ASSUME Sole, IInv, NEW t \in Threads,
         Begin(t) \/ Get(t) \/ Reserve(t) \/ Fill(t) \/ Device(t)
  PROVE  t \in Readers \cup Fetchers =>
           /\ pc'[t] \notin {"idle", "count1"} =>
                \/ /\ a'[t] = a[t] /\ need'[t] = need[t]
                   /\ pc[t] \notin {"idle", "count1"}
                \/ \E p \in Pages : BeginGet(t, p)
           /\ pc'[t] = "got" => GetHit(t) \/ (t \in Fetchers /\ ReserveReturn(t))
<1>. DEFINE Goal == t \in Readers \cup Fetchers =>
                      /\ pc'[t] \notin {"idle", "count1"} =>
                           \/ /\ a'[t] = a[t] /\ need'[t] = need[t]
                              /\ pc[t] \notin {"idle", "count1"}
                           \/ \E p \in Pages : BeginGet(t, p)
                      /\ pc'[t] = "got" => GetHit(t) \/ (t \in Fetchers /\ ReserveReturn(t))
<1>0. ThreadTypes /\ StoreTypes /\ HeldBy(t) /\ pc[t] # "clear" /\ ~Clearing(t)
  BY SoleFacts DEF IInv, Held
<1>1. ASSUME BeginRefresh(t) PROVE Goal
  BY <1>0, <1>1, Roles DEF ThreadTypes, callVars, deviceVars, HeldBy, Clearing, BeginRefresh, Goto
<1>2. ASSUME GetHit(t) PROVE Goal
  BY <1>0, <1>2, Roles DEF ThreadTypes, callVars, deviceVars, HeldBy, Clearing, GetHit, Goto
<1>3. ASSUME GetNextRegion(t) PROVE Goal
  BY <1>0, <1>3, Roles DEF ThreadTypes, callVars, deviceVars, HeldBy, Clearing, GetNextRegion, Goto
<1>4. ASSUME GetMiss(t) PROVE Goal
  BY <1>0, <1>4, Roles DEF ThreadTypes, callVars, deviceVars, HeldBy, Clearing, GetMiss, Goto
<1>5. ASSUME GotRelease(t) PROVE Goal
  BY <1>0, <1>5, Roles DEF ThreadTypes, callVars, deviceVars, HeldBy, Clearing, GotRelease, Goto,
     Decref, Forget
<1>6. ASSUME CallbackRefCount1(t) PROVE Goal
  BY <1>0, <1>6, Roles DEF ThreadTypes, callVars, deviceVars, HeldBy, Clearing, CallbackRefCount1,
     Goto
<1>7. ASSUME ReservePop(t) PROVE Goal
  BY <1>0, <1>7, Roles DEF ThreadTypes, callVars, deviceVars, HeldBy, Clearing, ReservePop, Goto
<1>8. ASSUME ReserveEmpty(t) PROVE Goal
  BY <1>0, <1>8, Roles DEF ThreadTypes, callVars, deviceVars, HeldBy, Clearing, ReserveEmpty, Goto
<1>9. ASSUME ReserveCheck(t) PROVE Goal
  BY <1>0, <1>9, Roles DEF ThreadTypes, callVars, deviceVars, HeldBy, Clearing, ReserveCheck, Goto
<1>10. ASSUME ReserveAlloc(t) PROVE Goal
  BY <1>0, <1>10, Roles DEF ThreadTypes, callVars, deviceVars, HeldBy, Clearing, ReserveAlloc, Goto
<1>11. ASSUME ReserveAllocFail(t) PROVE Goal
  BY <1>0, <1>11, Roles DEF ThreadTypes, callVars, deviceVars, HeldBy, Clearing, ReserveAllocFail,
     Goto, Forget
<1>12. ASSUME ClearLock(t) PROVE Goal
  BY <1>0, <1>12, Roles DEF ThreadTypes, callVars, deviceVars, HeldBy, Clearing, ClearLock, Goto
<1>13. ASSUME ClearPop(t) PROVE Goal
  BY <1>0, <1>13, Roles DEF ThreadTypes, callVars, deviceVars, HeldBy, Clearing, ClearPop, Goto,
     Decref, Forget
<1>14. ASSUME ClearDone(t) PROVE Goal
  BY <1>0, <1>14, Roles DEF ThreadTypes, callVars, deviceVars, HeldBy, Clearing, ClearDone, Goto,
     ClearReturn, Forget
<1>15. ASSUME FillAddress(t) PROVE Goal
  BY <1>0, <1>15, Roles DEF ThreadTypes, callVars, deviceVars, HeldBy, Clearing, FillAddress, Goto
<1>16. ASSUME FillCopy(t) PROVE Goal
  BY <1>0, <1>16, Roles DEF ThreadTypes, callVars, deviceVars, HeldBy, Clearing, FillCopy, Goto
<1>17. ASSUME FillFetch(t) PROVE Goal
  BY <1>0, <1>17, Roles DEF ThreadTypes, callVars, deviceVars, HeldBy, Clearing, FillFetch, Goto
<1>18. ASSUME FillFail(t) PROVE Goal
  BY <1>0, <1>18, Roles DEF ThreadTypes, callVars, deviceVars, HeldBy, Clearing, FillFail, Goto,
     Decref, Forget
<1>19. ASSUME ReserveReturn(t) PROVE Goal
  BY <1>0, <1>19, Roles DEF ThreadTypes, callVars, deviceVars, HeldBy, Clearing, ReserveReturn,
     Goto, Forget
<1>20. ASSUME ReadDevice(t) PROVE Goal
  BY <1>0, <1>20, Roles DEF ThreadTypes, callVars, deviceVars, HeldBy, Clearing, ReadDevice, Goto
<1>21. ASSUME ReadNoPut(t) PROVE Goal
  BY <1>0, <1>21, Roles DEF ThreadTypes, callVars, deviceVars, HeldBy, Clearing, ReadNoPut, Goto,
     Forget
<1>22. ASSUME Unlink(t) PROVE Goal
  BY <1>0, <1>22, Roles DEF ThreadTypes, callVars, deviceVars, HeldBy, Clearing, Unlink, Goto
<1>23. ASSUME WriteDone(t) PROVE Goal
  BY <1>0, <1>23, Roles DEF ThreadTypes, callVars, deviceVars, HeldBy, Clearing, WriteDone, Goto,
     Forget
<1>24. ASSUME NEW p \in Pages, BeginGet(t, p) PROVE Goal
  BY <1>0, <1>24, Roles DEF ThreadTypes, callVars, deviceVars, HeldBy, Clearing, BeginGet, Goto
<1>25. ASSUME NEW p \in Pages, WriteDevice(t, p) PROVE Goal
  BY <1>0, <1>25, Roles DEF ThreadTypes, callVars, deviceVars, HeldBy, Clearing, WriteDevice, Goto
<1>. QED
  BY <1>1, <1>2, <1>3, <1>4, <1>5, <1>6, <1>7, <1>8, <1>9, <1>10, <1>11, <1>12, <1>13, <1>14,
     <1>15, <1>16, <1>17, <1>18, <1>19, <1>20, <1>21, <1>22, <1>23, <1>24, <1>25 DEF Begin, Get,
     Reserve, Fill, Device
(***************************************************************************)
(* A write that is complete stays visible.                                 *)
(***************************************************************************)
LEMMA FreshLess ==
  ASSUME Sole, IInv, NEW p \in Pages, NEW w \in Nat, NEW v \in 0..w, FreshFor(p, w)
  PROVE  FreshFor(p, v)
<1>1. \A o \in Objects : pb[o][2] \in Nat
  BY DEF IInv, TypeOK, StoreTypes
<1>2. \A u \in Threads : buf[u] \in Nat
  BY DEF IInv, TypeOK, ThreadTypes
<1>3. ASSUME NEW o \in InUse(iR), Linked(o), qwA[o] = p PROVE pb[o][2] >= v
  <2>1. pb[o][2] >= w /\ o \in Objects
    BY <1>3, SoleFacts DEF FreshFor
  <2>. QED
    BY <1>1, <2>1
<1>4. ASSUME NEW u \in Fetchers, pc[u] = "put" PROVE pb[ob[u]][2] \in Nat
  <2>1. u \in Threads /\ ob[u] \in Objects
    BY <1>4, Used DEF Threads, Holding
  <2>. QED
    BY <1>1, <2>1
<1>5. ~Straddled(p, v)
  <2>1. ~Straddled(p, w)
    BY DEF FreshFor
  <2>2. \A u \in Threads :
          /\ (u \in Readers /\ buf[u] < v => buf[u] < w)
          /\ (u \in Fetchers /\ pc[u] = "put" /\ pb[ob[u]][2] < v => pb[ob[u]][2] < w)
    BY <1>2, <1>4
  <2>. QED
    BY <2>1, <2>2 DEF Straddled
<1>. QED
  BY <1>3, <1>5 DEF FreshFor

(* What is returned to the cache was read after the write, and so was what *)
(* others still carry.                                                     *)
LEMMA FreshKept ==
  ASSUME Sole, IInv, Links, Reading, NEW t \in Threads,
         Begin(t) \/ Get(t) \/ Reserve(t) \/ Fill(t) \/ Device(t),
         NEW p \in Pages, NEW v \in Nat, v <= mem[p], FreshFor(p, v)
  PROVE  FreshFor(p, v)'
<1>1. /\ TypeOK /\ ThreadTypes /\ StoreTypes /\ Held /\ Contents /\ InUse(iR) \subseteq Objects
      /\ iR \in R
  BY SoleFacts DEF IInv
<1>2. /\ \A o \in InUse(iR) : Linked(o) /\ qwA[o] = p => pb[o][2] >= v
      /\ ~Straddled(p, v)
  BY DEF FreshFor
<1>3. ASSUME NEW o, Linked(o)', qwA'[o] = p PROVE pb'[o][2] >= v
  <2>1. Linked(o) \/ (o = ob[t] /\ ReserveReturn(t))
    BY <1>3, StepLinks
  <2>2. CASE Linked(o)
    <3>1. o \in InUse(iR) /\ o \in Objects
      BY <1>1, <2>2 DEF Linked
    <3>2. qwA'[o] = qwA[o] /\ pb'[o] = pb[o]
      BY <1>1, <3>1, UsedKeeps
    <3>. QED
      BY <1>2, <1>3, <2>2, <3>1, <3>2
  <2>3. CASE o = ob[t] /\ ReserveReturn(t)
    <3>1. pc[t] = "put" /\ qwA' = qwA /\ pb' = pb
      BY <1>1, <2>3, ReturnDoes
    <3>2. qwA[o] = a[t] /\ a[t] = p
      BY <1>1, <1>3, <2>3, <3>1 DEF Contents
    <3>3. ob[t] \in Objects /\ pb[o][2] \in Nat /\ buf[t] \in Nat
      BY <1>1, <2>3, <3>1, Used DEF Holding, StoreTypes, ThreadTypes
    <3>4. t \in Readers \/ t \in Fetchers
      BY <1>1, <3>1, Roles DEF Held, HeldBy
    <3>5. CASE t \in Readers
      <4>1. ~(buf[t] < v)
        BY <1>2, <3>1, <3>2, <3>5 DEF Straddled
      <4>2. pb[o][2] = buf[t]
        BY <2>3, <3>1, <3>5 DEF Reading
      <4>. QED
        BY <3>1, <3>3, <4>1, <4>2
    <3>6. CASE t \in Fetchers
      <4>1. ~(pb[o][2] < v)
        BY <1>2, <2>3, <3>1, <3>2, <3>6 DEF Straddled
      <4>. QED
        BY <3>1, <3>3, <4>1
    <3>. QED
      BY <3>4, <3>5, <3>6
  <2>. QED
    BY <2>1, <2>2, <2>3
<1>4. ASSUME NEW u \in Readers, a'[u] = p, pc'[u] \in Carry PROVE ~(buf'[u] < v)
  <2>0. u \in Threads
    BY DEF Threads
  <2>1. CASE u # t
    <3>1. pc'[u] = pc[u] /\ a'[u] = a[u] /\ buf'[u] = buf[u]
      BY <1>1, <2>0, <2>1, OneThread
    <3>. QED
      BY <1>2, <1>4, <2>0, <3>1 DEF Straddled, Carry
  <2>2. CASE u = t
    <3>1. a'[t] = a[t] /\ ((pc[t] \in Carry /\ buf'[t] = buf[t])
                           \/ (pc[t] = "read" /\ buf'[t] = mem[a[t]]))
      BY <1>4, <2>2, OwnCarry
    <3>2. CASE pc[t] \in Carry /\ buf'[t] = buf[t]
      BY <1>2, <1>4, <2>2, <3>1, <3>2 DEF Straddled, Carry
    <3>3. CASE buf'[t] = mem[a[t]]
      <4>1. mem[p] \in Nat
        BY <1>1 DEF StoreTypes
      <4>. QED
        BY <1>4, <2>2, <3>1, <3>3, <4>1
    <3>. QED
      BY <3>1, <3>2, <3>3
  <2>. QED
    BY <2>1, <2>2
<1>5. ASSUME NEW u \in Fetchers, a'[u] = p, pc'[u] = "put" PROVE ~(pb'[ob'[u]][2] < v)
  <2>0. u \in Threads
    BY DEF Threads
  <2>1. CASE u # t
    <3>1. pc'[u] = pc[u] /\ a'[u] = a[u] /\ ob'[u] = ob[u]
      BY <1>1, <2>0, <2>1, OneThread
    <3>2. ob[u] \in Objects /\ Using(u, ob[u])
      BY <1>5, <2>0, <3>1, Used DEF Holding, Using
    <3>3. pb'[ob[u]] = pb[ob[u]]
      BY <2>0, <2>1, <3>2, UsedKeeps
    <3>. QED
      BY <1>2, <1>5, <2>0, <3>1, <3>3 DEF Straddled
  <2>2. CASE u = t
    <3>1. FillFetch(t)
      BY <1>5, <2>2, OwnCarry
    <3>2. ob[t] \in Objects
      BY <3>1, Used DEF Holding, FillFetch, Goto
    <3>3. /\ ob' = ob /\ a' = a /\ pb' = [pb EXCEPT ![ob[t]] = <<a[t], mem[a[t]]>>]
      BY <3>1 DEF FillFetch, callVars
    <3>4. pb'[ob'[t]] = <<p, mem[p]>> /\ mem[p] \in Nat
      BY <1>1, <1>5, <2>2, <3>2, <3>3 DEF StoreTypes
    <3>. QED
      BY <2>2, <3>4
  <2>. QED
    BY <2>1, <2>2
<1>6. ~Straddled(p, v)'
  BY <1>4, <1>5 DEF Straddled, Carry
<1>7. \A o \in InUse(iR)' : Linked(o)' /\ qwA'[o] = p => pb'[o][2] >= v
  BY <1>3
<1>. QED
  BY <1>6, <1>7 DEF FreshFor

(* A writer that finds nothing more in a region, and was not straddled.    *)
LEMMA MissFresh ==
  ASSUME Sole, IInv, Links, Written, Writing, NEW t \in Writers, NEW p \in Pages,
         pc[t] = "get", a[t] = p, Missing(t), ~Straddled(p, need[t]), NEW v \in 0..need[t]
  PROVE  FreshFor(p, v) /\ v <= mem[p]
<1>1. t \in Threads /\ need[t] \in Nat /\ i[t] \in Nat /\ mem[p] \in Nat /\ written[p] \in Nat
  BY DEF Threads, IInv, TypeOK, ThreadTypes, StoreTypes
<1>2. need[t] \in {0, mem[p]}
  BY DEF Writing
<1>3. v <= mem[p]
  BY <1>1, <1>2
<1>4. CASE v = 0
  <2>1. 0 \in 0..written[p]
    BY <1>1
  <2>. QED
    BY <1>3, <1>4, <2>1 DEF Written
<1>5. CASE v # 0 /\ i[t] > 0
  <2>1. v \in 1..need[t]
    BY <1>1, <1>5
  <2>. QED
    BY <1>3, <1>5, <2>1 DEF Writing
<1>6. CASE i[t] = 0
  <2>1. LookupAt(t) = iR
    <3>1. FirstRegion(t) = iR /\ iR \in R /\ Regions \in Nat \ {0}
      BY <1>6, SoleFacts, ConstantTypes DEF FirstRegion
    <3>2. (iR + 0) % Regions = iR
      BY <3>1 DEF R
    <3>. QED
      BY <1>6, <3>1, <3>2 DEF LookupAt
  <2>2. Lookup(iR, p) = {} /\ WalkEnds(iR, p)
    BY <2>1 DEF Missing
  <2>3. \A o : Linked(o) => qwA[o] # p
    BY <2>2, MissLinked
  <2>4. FreshFor(p, need[t])
    BY <2>3 DEF FreshFor
  <2>. QED
    BY <1>1, <1>3, <2>4, FreshLess
<1>. QED
  BY <1>1, <1>4, <1>5, <1>6

LEMMA WrittenStep ==
  ASSUME Sole, IInv, Links, Fresh, NEW t \in Threads,
         Begin(t) \/ Get(t) \/ Reserve(t) \/ Fill(t) \/ Device(t)
  PROVE  Written' /\ \A p \in Pages : written[p] <= written'[p] /\ mem[p] <= mem'[p]
<1>1. /\ StoreTypes /\ ThreadTypes /\ Written /\ Writing /\ Reading
      /\ \A p \in Pages : mem[p] \in Nat /\ written[p] \in Nat
  BY SoleFacts DEF Fresh, StoreTypes
<1>2. \A p \in Pages : mem[p] <= mem'[p] /\ mem'[p] \in Nat
  <2>1. CASE mem' = mem
    BY <1>1, <2>1
  <2>2. CASE \E q \in Pages : mem' = [mem EXCEPT ![q] = @ + 1]
    BY <1>1, <2>2 DEF StoreTypes
  <2>. QED
    BY <2>1, <2>2, OwnMemory
<1>3. ASSUME NEW p \in Pages
      PROVE  /\ written'[p] \in Nat /\ written[p] <= written'[p] /\ written'[p] <= mem[p]
             /\ \A v \in 0..written'[p] : FreshFor(p, v)
  <2>1. written[p] <= mem[p] /\ \A v \in 0..written[p] : FreshFor(p, v)
    BY <1>1 DEF Written
  <2>2. CASE written'[p] = written[p]
    BY <1>1, <2>1, <2>2
  <2>3. CASE written'[p] # written[p]
    <3>1. /\ t \in Writers /\ pc[t] = "get" /\ Missing(t) /\ need[t] # 0 /\ a[t] \in Pages
          /\ ~Straddled(a[t], need[t]) /\ mem' = mem
          /\ written' = [written EXCEPT ![a[t]] = need[t]]
      BY <2>3, OwnMemory
    <3>2. a[t] = p /\ written'[p] = need[t]
      BY <1>1, <2>3, <3>1 DEF StoreTypes
    <3>3. need[t] = mem[p]
      BY <1>1, <3>1, <3>2 DEF Writing
    <3>4. \A v \in 0..need[t] : FreshFor(p, v)
      BY <1>1, <3>1, <3>2, MissFresh
    <3>. QED
      BY <1>1, <2>1, <3>2, <3>3, <3>4
  <2>. QED
    BY <2>2, <2>3
<1>4. ASSUME NEW p \in Pages, NEW v \in 0..written'[p] PROVE FreshFor(p, v)'
  <2>1. v \in Nat /\ v <= mem[p] /\ FreshFor(p, v)
    BY <1>1, <1>3, <1>4
  <2>. QED
    BY <1>1, <2>1, FreshKept
<1>5. \A p \in Pages : written'[p] <= mem'[p]
  BY <1>1, <1>2, <1>3
<1>. QED
  BY <1>2, <1>3, <1>4, <1>5 DEF Written

LEMMA WritingStep ==
  ASSUME Sole, IInv, Links, Fresh, NEW t \in Threads,
         Begin(t) \/ Get(t) \/ Reserve(t) \/ Fill(t) \/ Device(t)
  PROVE  Writing'
<1>1. /\ StoreTypes /\ ThreadTypes /\ Written /\ Writing /\ Reading
      /\ \A p \in Pages : mem[p] \in Nat /\ written[p] \in Nat
  BY SoleFacts DEF Fresh, StoreTypes
<1>. SUFFICES ASSUME NEW w \in Writers
              PROVE  /\ pc'[w] # "get"  => i'[w] = 0
                     /\ pc'[w] # "idle" => need'[w] \in {0, mem'[a'[w]]}
                     /\ pc'[w] = "get" /\ i'[w] > 0 =>
                          \A p \in Pages : \A v \in 1..need'[w] : a'[w] = p => FreshFor(p, v)'
  BY DEF Writing
<1>2. /\ w \in Threads
      /\ pc[w] # "get"  => i[w] = 0
      /\ pc[w] # "idle" => need[w] \in {0, mem[a[w]]}
      /\ pc[w] = "get" /\ i[w] > 0 =>
           \A p \in Pages : \A v \in 1..need[w] : a[w] = p => FreshFor(p, v)
      /\ need[w] \in Nat
  BY <1>1 DEF Writing, Threads, ThreadTypes
<1>3. CASE w # t
  <2>1. /\ pc'[w] = pc[w] /\ a'[w] = a[w] /\ i'[w] = i[w] /\ need'[w] = need[w]
    BY <1>1, <1>2, <1>3, OneThread
  <2>2. mem' = mem
    BY <1>3, OwnMemory DEF Sole
  <2>3. ASSUME pc[w] = "get", i[w] > 0, NEW p \in Pages, NEW v \in 1..need[w], a[w] = p
        PROVE  FreshFor(p, v)'
    <3>1. v \in Nat /\ v <= mem[p] /\ FreshFor(p, v)
      BY <1>1, <1>2, <2>3
    <3>. QED
      BY <1>1, <3>1, FreshKept
  <2>. QED
    BY <1>2, <2>1, <2>2, <2>3
<1>4. CASE w = t
  <2>1. /\ pc'[w] # "get" => i'[w] = 0
        /\ pc'[w] # "idle" =>
             \/ /\ need'[w] \in {0, need[w]} /\ mem' = mem
                /\ pc[w] # "idle" /\ a'[w] = a[w]
             \/ \E p \in Pages : WriteDevice(w, p)
        /\ pc'[w] = "get" /\ i'[w] > 0 => GetNextRegion(w)
    BY <1>2, <1>4, OwnWrite
  <2>2. ASSUME NEW p \in Pages, WriteDevice(w, p) PROVE need'[w] = mem'[a'[w]]
    BY <1>1, <1>2, <2>2 DEF WriteDevice, StoreTypes, ThreadTypes
  <2>3. pc'[w] # "idle" => need'[w] \in {0, mem'[a'[w]]}
    BY <1>2, <2>1, <2>2
  <2>4. ASSUME GetNextRegion(w), NEW p \in Pages, NEW v \in 1..need'[w], a'[w] = p
        PROVE  FreshFor(p, v)'
    <3>1. /\ pc[w] = "get" /\ Missing(w) /\ a[w] = p
          /\ need' = IF w \in Writers /\ Straddled(a[w], need[w])
                     THEN [need EXCEPT ![w] = 0] ELSE need
      BY <2>4 DEF GetNextRegion, Goto
    <3>2. ~Straddled(p, need[w]) /\ need' = need
      <4>1. CASE Straddled(p, need[w])
        BY <1>1, <1>2, <2>4, <3>1, <4>1 DEF ThreadTypes
      <4>. QED
        BY <3>1, <4>1
    <3>3. v \in 0..need[w] /\ v \in Nat
      BY <1>2, <2>4, <3>2
    <3>4. FreshFor(p, v) /\ v <= mem[p]
      BY <1>1, <3>1, <3>2, <3>3, MissFresh
    <3>. QED
      BY <1>1, <3>3, <3>4, FreshKept
  <2>. QED
    BY <2>1, <2>3, <2>4
<1>. QED
  BY <1>3, <1>4

(* A get returns what is linked, or what its own thread has put.           *)
LEMMA ReadingStep ==
  ASSUME Sole, IInv, Links, Fresh, NEW t \in Threads,
         Begin(t) \/ Get(t) \/ Reserve(t) \/ Fill(t) \/ Device(t)
  PROVE  Reading'
<1>1. /\ TypeOK /\ StoreTypes /\ ThreadTypes /\ Written /\ Writing /\ Reading /\ Held /\ Contents
      /\ \A p \in Pages : mem[p] \in Nat /\ written[p] \in Nat
      /\ \A u \in Threads : need[u] \in Nat /\ buf[u] \in Nat
      /\ \A o \in Objects : pb[o][2] \in Nat
      /\ \A p \in Pages : written[p] <= written'[p] /\ written'[p] \in Nat
  <2>1. StoreTypes'
    BY SoleFacts, StepStoreTypes
  <2>. QED
    BY <2>1, SoleFacts, WrittenStep DEF Fresh, StoreTypes, ThreadTypes, IInv
<1>2. ASSUME NEW u \in Readers, pc'[u] = "put" PROVE pb'[ob'[u]][2] = buf'[u]
  <2>0. u \in Threads
    BY DEF Threads
  <2>1. CASE u # t
    <3>1. pc'[u] = pc[u] /\ buf'[u] = buf[u] /\ ob'[u] = ob[u]
      BY <1>1, <2>0, <2>1, OneThread
    <3>2. ob[u] \in Objects /\ Using(u, ob[u])
      BY <1>2, <2>0, <3>1, Used DEF Holding, Using
    <3>3. pb'[ob[u]] = pb[ob[u]]
      BY <2>0, <2>1, <3>2, UsedKeeps
    <3>. QED
      BY <1>1, <1>2, <3>1, <3>3 DEF Reading
  <2>2. CASE u = t
    <3>1. FillCopy(t)
      BY <1>2, <2>2, OwnCarry
    <3>2. ob[t] \in Objects
      BY <3>1, Used DEF Holding, FillCopy, Goto
    <3>3. ob' = ob /\ buf' = buf /\ pb' = [pb EXCEPT ![ob[t]] = <<a[t], buf[t]>>]
      BY <3>1 DEF FillCopy, callVars
    <3>4. pb'[ob'[t]] = <<a[t], buf[t]>>
      BY <1>1, <3>2, <3>3 DEF StoreTypes
    <3>. QED
      BY <2>2, <3>3, <3>4
  <2>. QED
    BY <2>1, <2>2
<1>3. ASSUME NEW u \in Readers \cup Fetchers
      PROVE  /\ pc'[u] \notin {"idle", "count1"} => need'[u] <= written'[a'[u]]
             /\ pc'[u] = "got" => pb'[ob'[u]][2] >= need'[u]
  <2>0. /\ u \in Threads /\ u \notin Refreshers
        /\ pc[u] \notin {"idle", "count1"} => need[u] <= written[a[u]] /\ a[u] \in Pages
        /\ pc[u] = "got" => pb[ob[u]][2] >= need[u]
    BY <1>1, Roles DEF Threads, Reading, Held, HeldBy
  <2>1. CASE u # t
    <3>1. pc'[u] = pc[u] /\ a'[u] = a[u] /\ ob'[u] = ob[u] /\ need'[u] = need[u]
      BY <1>1, <2>0, <2>1, OneThread
    <3>2. pc[u] \notin {"idle", "count1"} => need[u] <= written'[a[u]]
      BY <1>1, <2>0
    <3>3. ASSUME pc[u] = "got" PROVE pb'[ob[u]] = pb[ob[u]]
      <4>1. ob[u] \in Objects /\ Using(u, ob[u])
        BY <2>0, <3>3, Used DEF Holding, Using
      <4>. QED
        BY <2>0, <2>1, <4>1, UsedKeeps
    <3>. QED
      BY <2>0, <3>1, <3>2, <3>3
  <2>2. CASE u = t
    <3>1. ASSUME pc'[t] \notin {"idle", "count1"}
          PROVE  need'[t] <= written'[a'[t]]
      <4>1. CASE /\ a'[t] = a[t] /\ need'[t] = need[t] /\ pc[t] \notin {"idle", "count1"}
        BY <1>1, <2>0, <2>2, <4>1
      <4>2. ASSUME NEW p \in Pages, BeginGet(t, p) PROVE need'[t] <= written'[a'[t]]
        BY <1>1, <4>2 DEF BeginGet, ThreadTypes, deviceVars
      <4>. QED
        BY <2>2, <3>1, <4>1, <4>2, OwnRead
    <3>2. ASSUME GetHit(t) PROVE pb'[ob'[t]][2] >= need'[t]
      <4>1. PICK o \in Objects :
              /\ ob' = [ob EXCEPT ![t] = o] /\ o \in Lookup(LookupAt(t), a[t])
              /\ UNCHANGED <<pb, need>> /\ LookupAt(t) \in R /\ a[t] \in Pages /\ pc[t] = "get"
        <5>1. LookupAt(t) \in R /\ a[t] \in Pages /\ pc[t] = "get"
          BY <3>2, HitDoes
        <5>2. PICK o \in Lookup(LookupAt(t), a[t]) : ob' = [ob EXCEPT ![t] = o]
          BY <3>2 DEF GetHit
        <5>3. o \in Objects
          BY <5>1, <5>2, Found, SoleFacts DEF IInv
        <5>. QED
          BY <3>2, <5>1, <5>2, <5>3 DEF GetHit, objectVars
      <4>2. Linked(o) /\ o \in InUse(iR) /\ qwA[o] = a[t]
        BY <4>1, HitLinked
      <4>3. written[a[t]] \in 0..written[a[t]]
        BY <1>1, <4>1
      <4>4. FreshFor(a[t], written[a[t]])
        BY <1>1, <4>1, <4>3 DEF Written
      <4>5. pb[o][2] >= written[a[t]]
        BY <4>2, <4>4 DEF FreshFor
      <4>6. ob'[t] = o /\ pb'[o][2] = pb[o][2] /\ need'[t] = need[t]
        BY <1>1, <4>1 DEF ThreadTypes
      <4>. QED
        BY <1>1, <2>0, <2>2, <4>1, <4>5, <4>6
    <3>3. ASSUME t \in Fetchers, ReserveReturn(t) PROVE pb'[ob'[t]][2] >= need'[t]
      <4>1. pc[t] = "put" /\ ob' = ob /\ need' = need /\ pb' = pb
        BY <3>3 DEF ReserveReturn, callVars
      <4>2. a[t] \in Pages /\ ob[t] \in Objects
        BY <2>0, <2>2, <4>1, Used DEF Holding
      <4>3. written[a[t]] \in 0..written[a[t]]
        BY <1>1, <4>2
      <4>4. FreshFor(a[t], written[a[t]])
        BY <1>1, <4>2, <4>3 DEF Written
      <4>5. ~(pb[ob[t]][2] < written[a[t]])
        BY <3>3, <4>1, <4>4 DEF FreshFor, Straddled
      <4>. QED
        BY <1>1, <2>0, <2>2, <4>1, <4>2, <4>5
    <3>. QED
      BY <2>2, <3>1, <3>2, <3>3, OwnRead
  <2>. QED
    BY <2>1, <2>2
<1>. QED
  BY <1>2, <1>3 DEF Reading

(***************************************************************************)
(* The writes, put together.                                               *)
(***************************************************************************)
LEMMA InitWrites == ASSUME Init, Sole PROVE Links /\ Fresh
<1>. USE DEF Init
<1>1. \A r \in R : InUse(r) = {} /\ Total(r) = {}
  BY DEF InUse, Total, Members
<1>2. InUse(iR) = {} /\ iR \in R
  BY <1>1, Regional
<1>3. Links
  BY <1>1, <1>2, ConstantTypes
  DEF Links, Single, Heads, Nexts, Prevs, Ordered, Gone, Linked, Threads
<1>4. \A t \in Threads : pc[t] = "idle" /\ a[t] = None /\ i[t] = 0 /\ need[t] = 0
  OBVIOUS
<1>5. ASSUME NEW p \in Pages PROVE FreshFor(p, 0)
  BY <1>2, <1>4, ConstantTypes DEF FreshFor, Straddled, Linked
<1>6. Written
  <2>1. 0 <= 0 /\ \A v \in 0..0 : v = 0
    OBVIOUS
  <2>2. \A p \in Pages : written[p] = 0 /\ mem[p] = 0
    OBVIOUS
  <2>. QED
    BY <1>5, <2>1, <2>2 DEF Written
<1>7. Writing /\ Reading
  BY <1>4 DEF Writing, Reading, Threads
<1>. QED
  BY <1>3, <1>6, <1>7 DEF Fresh

LEMMA StutterWrites ==
  ASSUME Links, Fresh, UNCHANGED vars
  PROVE  Links' /\ Fresh'
<1>1. UNCHANGED <<iR, Lock, ListHeadInUse, ListHeadTotal, B, FLink, BLink, qwA, pb, iB,
                  mem, written, pc, ob, a, i, buf, need>>
  BY DEF vars, listVars, chainVars, objectVars, deviceVars, callVars
<1>2. Links' /\ \A o : Linked(o)' <=> Linked(o)
  BY <1>1, SameLinks
<1>3. InUse(iR)' = InUse(iR)
  BY <1>1 DEF InUse, Members
<1>4. ASSUME NEW p, NEW v PROVE FreshFor(p, v)' <=> FreshFor(p, v)
  <2>1. Straddled(p, v)' <=> Straddled(p, v)
    BY <1>1 DEF Straddled
  <2>. QED
    BY <1>1, <1>2, <1>3, <2>1 DEF FreshFor
<1>5. Written'
  BY <1>1, <1>4 DEF Fresh, Written
<1>6. Writing'
  BY <1>1, <1>4 DEF Fresh, Writing
<1>7. Reading'
  BY <1>1 DEF Fresh, Reading
<1>. QED
  BY <1>2, <1>5, <1>6, <1>7 DEF Fresh

LEMMA StepWrites ==
  ASSUME Sole, IInv, Links, Fresh, [Next]_vars
  PROVE  Links' /\ Fresh'
<1>1. CASE UNCHANGED vars
  BY <1>1, StutterWrites
<1>2. ASSUME NEW t \in Threads, Begin(t) \/ Get(t) \/ Reserve(t) \/ Fill(t) \/ Device(t)
      PROVE  Links' /\ Fresh'
  BY <1>2, StepLinks, WrittenStep, WritingStep, ReadingStep DEF Fresh
<1>. QED
  BY <1>1, <1>2 DEF Next

(* What a cache with one writer and no evictions keeps: its chains are     *)
(* doubly linked in the order of the list, and no page that can be found   *)
(* is older than the writes to it that are complete.                       *)
THEOREM Writes == ASSUME Sole PROVE Spec => [](IInv /\ Links /\ Fresh)
<1>1. Init => IInv /\ Links /\ Fresh
  BY InitInv, InitWrites
<1>2. (IInv /\ Links /\ Fresh) /\ [Next]_vars => (IInv /\ Links /\ Fresh)'
  <2>1. Apart
    BY DEF Sole, Apart
  <2>. QED
    BY <2>1, StepInv, StepWrites
<1>. QED
  BY <1>1, <1>2, PTL DEF Spec

LEMMA GoneImply == ASSUME Sole, IInv, Links PROVE InvalidatedIsGone
<1>. SUFFICES ASSUME NEW t \in Writers, pc[t] = "got",
                     NEW n \in DOMAIN Chain(RegionOf(ob[t]), iB[ob[t]]),
                     Chain(RegionOf(ob[t]), iB[ob[t]])[n] = ob[t]
              PROVE  FALSE
  BY DEF InvalidatedIsGone
<1>1. ob[t] \in InUse(iR) /\ ~Linked(ob[t])
  BY DEF Links, Gone
<1>2. ob[t] \in Objects /\ iB[ob[t]] \in Buckets /\ ob[t] # None
  BY <1>1, SoleFacts, ConstantTypes
<1>3. RegionOf(ob[t]) = iR
  <2>1. iR \in R /\ ob[t] \in Total(iR)
    BY <1>1, SoleFacts DEF IInv, Lists
  <2>. QED
    BY <1>2, <2>1, SoleFacts DEF Links
<1>4. n \in 0..Cardinality(Objects)
  <2>1. DOMAIN Chain(RegionOf(ob[t]), iB[ob[t]]) = 0..Cardinality(Objects)
    BY ChainIs
  <2>. QED
    BY <2>1
<1>. QED
  BY <1>1, <1>2, <1>3, <1>4, ChainLinked

(* What VmmCacheInvalidate has unlinked can be found no more.              *)
THEOREM InvalidatedIsGoneHolds == ASSUME Sole PROVE Spec => []InvalidatedIsGone
<1>1. IInv /\ Links /\ Fresh => InvalidatedIsGone
  BY GoneImply
<1>. QED
  BY <1>1, Writes, PTL

(* A get that begins after a write to its page is complete returns a       *)
(* content that reflects it (VmmWriteScatterPhysical, VmmCacheInvalidate,  *)
(* VmmCacheGet), unless a read straddled the write.                        *)
THEOREM FreshAfterWriteHolds == ASSUME Sole PROVE Spec => []FreshAfterWrite
<1>1. IInv /\ Links /\ Fresh => FreshAfterWrite
  BY DEF Fresh, Reading, FreshAfterWrite
<1>. QED
  BY <1>1, Writes, PTL
=====
