---------------------------- MODULE VmmProc_proofs ----------------------------
(***************************************************************************)
(* Proofs about the process table: what the visible table holds, who       *)
(* references tables and processes, and what an iteration returns.         *)
(***************************************************************************)
EXTENDS VmmProc, FiniteSetTheorems, FunctionTheorems, WellFoundedInduction, TLAPS

Bit(b) == IF b THEN 1 ELSE 0

TypeOK ==
    /\ n \in Tables /\ cur \in Tables /\ map \in [Tables -> Seq(Procs)]
    /\ newproc \in [Tables -> Tables \cup {None}]
    /\ count \in [Tables -> [c : Nat, cActive : Nat]]
    /\ exited \in [Procs -> BOOLEAN] /\ pers \in [Procs -> Procs \cup {None}]
    /\ tref \in [Tables -> Int] /\ pref \in [Procs -> Int] /\ leaked \in [Tables -> Nat]
    /\ list \in Seq(Pids \X BOOLEAN) \cup {None} /\ total \in BOOLEAN
    /\ sys \in Procs \cup {None} /\ whole \in SUBSET Pids
    /\ pc \in [Readers -> {"idle", "find", "drop"}] /\ tbl \in [Readers -> Tables \cup {None}]
    /\ proc \in [Readers -> Procs \cup {None}] /\ left \in [Readers -> SUBSET Pids]

(* Tables hang off one another in the order of their numbers.  The last    *)
(* one is visible, or the one before it while the last is being filled.    *)
Chain ==
    /\ newproc = [t \in Tables |-> IF t < n THEN t + 1 ELSE None]
    /\ cur <= n /\ n <= cur + 1
    /\ list = None => cur = n
    /\ list = <<>> => cur < n
    /\ list # None /\ cur = n => n < MaxTable

(* A map has a PID once; its table is no older than its processes.         *)
Keyed(m)  == \A k, l \in 1..Len(m) : m[k][1] = m[l][1] => k = l
Sorted(m) == \A k, l \in 1..Len(m) : k < l => m[k][1] < m[l][1]
Tally(S, x) == [c |-> Cardinality(S), cActive |-> Cardinality({p \in S : ~x[p]})]

Maps ==
    /\ \A t \in Tables : /\ Keyed(map[t]) /\ count[t] = Tally(ToSet(map[t]), exited)
                         /\ \A p \in ToSet(map[t]) : p[2] <= t
                         /\ t <= cur => Sorted(map[t])
                         /\ t > n => map[t] = <<>>

(* What the table in preparation has, and what it is yet to be given.      *)
Coming == IF list = None THEN {} ELSE {e[1] : e \in ToSet(list)}
Whole ==
    /\ list = None => PidsOf(cur) = whole
    /\ list # None => whole = PidsOf(cur + 1) \cup Coming /\ System \in whole
    /\ cur > 0 => System \in PidsOf(cur)

Holders(t) == {r \in Readers : tbl[r] = t}
Alive(p)   == {t \in 0..n : tref[t] > 0 /\ p \in ToSet(map[t])}
Users(p)   == {r \in Readers : proc[r] = p}
Counts ==
    /\ \A t \in Tables :
        tref[t] = Bit(cur = t) + leaked[t] + Bit(t \in 1..n /\ tref[t - 1] > 0)
                  + Cardinality(Holders(t))
    /\ \A t \in Tables : t > n => leaked[t] = 0
    /\ \A p \in Procs : pref[p] = Bit(sys = p) + Cardinality(Alive(p)) + Cardinality(Users(p))

(* A process that follows another of its PID has the persistent            *)
(* information of that one.                                                *)
Inherited ==
    cur < n => \A p \in ToSet(map[cur]), q \in ToSet(map[n]) : p[1] = q[1] => pers[q] = pers[p]

Reading ==
    \A r \in Readers :
        /\ tbl[r] = None <=> pc[r] = "idle"
        /\ tbl[r] # None => tbl[r] <= cur
        /\ \A x \in left[r] : x > Pid(proc[r])
        /\ pc[r] = "find" => left[r] \subseteq Visible(r, tbl[r])
        /\ pc[r] # "find" /\ proc[r] = None => left[r] = {}

IInv == TypeOK /\ Chain /\ Maps /\ Whole /\ Counts /\ Inherited /\ Reading

(***************************************************************************)
(* Constants, sequences and sets.                                          *)
(***************************************************************************)
LEMMA ConstantTypes ==
  /\ Pids \subseteq Nat \ {0} /\ System \in Pids /\ FakePids \subseteq Pids
  /\ MaxTable \in Nat \ {0} /\ Tables = 0..MaxTable /\ Procs = Pids \X Tables
  /\ None \notin Nat /\ None \notin Tables /\ None \notin Procs
  /\ None \notin Seq(Pids \X BOOLEAN) /\ IsFiniteSet(Readers)
  /\ \A l \in Lists : l \in Seq(Pids \X BOOLEAN) /\ l # <<>> /\ l[1] = <<System, FALSE>>
<1>1. ASSUME NEW l \in Lists
      PROVE  /\ l \in Seq(Pids \X BOOLEAN) /\ l # <<>> /\ l[1] = <<System, FALSE>>
             /\ \A e \in ToSet(l) : e[1] \in Nat \ {0}
  <2>1. l \in Seq((Nat \ {0}) \X BOOLEAN) /\ l # <<>> /\ Head(l) = <<System, FALSE>>
    BY <1>1, ListsAssumption DEF ListsAssumption
  <2>2. Len(l) \in Nat /\ DOMAIN l = 1..Len(l) /\ l[1] = <<System, FALSE>>
    <3>1. Head(l) = l[1] /\ Len(l) \in Nat /\ DOMAIN l = 1..Len(l)
      BY <2>1
    <3>. QED
      BY <2>1, <3>1
  <2>3. ASSUME NEW k \in 1..Len(l) PROVE l[k] \in Pids \X BOOLEAN /\ l[k][1] \in Nat \ {0}
    <3>1. l[k] \in (Nat \ {0}) \X BOOLEAN
      BY <2>1, <2>3
    <3>2. l[k] \in ToSet(l)
      BY <2>2, <2>3 DEF ToSet
    <3>3. l[k][1] \in UNION {{e[1] : e \in ToSet(q)} : q \in Lists}
      BY <1>1, <3>2
    <3>. QED
      BY <3>1, <3>3 DEF Pids
  <2>4. l \in Seq(Pids \X BOOLEAN)
    BY <2>1, <2>2, <2>3
  <2>. QED
    BY <2>1, <2>2, <2>3, <2>4 DEF ToSet
<1>2. Pids \subseteq Nat \ {0} /\ System \in Pids /\ FakePids \subseteq Pids
  <2>1. System \in Nat \ {0} /\ FakePids \subseteq Nat \ {0}
    BY PidsAssumption DEF PidsAssumption
  <2>. DEFINE U == UNION {{e[1] : e \in ToSet(l)} : l \in Lists}
  <2>2. ASSUME NEW x \in U PROVE x \in Nat \ {0}
    <3>1. PICK l \in Lists : x \in {e[1] : e \in ToSet(l)}
      BY <2>2
    <3>. QED
      BY <1>1, <3>1
  <2>3. Pids = {System} \cup FakePids \cup U
    BY DEF Pids
  <2>. HIDE DEF U
  <2>. QED
    BY <2>1, <2>2, <2>3
<1>3. MaxTable \in Nat \ {0} /\ Tables \subseteq Nat /\ IsFiniteSet(Readers)
  BY BoundAssumption DEF BoundAssumption, Tables
<1>4. None \notin Nat /\ None \notin Procs /\ None \notin Seq(Pids \X BOOLEAN)
  BY NoneAssumption DEF NoneAssumption
<1>. QED
  BY <1>1, <1>2, <1>3, <1>4 DEF Tables, Procs

LEMMA ProcIs ==
  \A p \in Procs : /\ p[1] \in Pids /\ p[1] \in Nat /\ p[1] > 0 /\ p # None
                    /\ p[2] \in Tables /\ p[2] \in Nat /\ p = <<p[1], p[2]>>
<1>. SUFFICES ASSUME NEW p \in Pids \X Tables
              PROVE  /\ p[1] \in Pids /\ p[1] \in Nat /\ p[1] > 0 /\ p # None
                     /\ p[2] \in Tables /\ p[2] \in Nat /\ p = <<p[1], p[2]>>
  BY ConstantTypes
<1>1. p[1] \in Pids /\ p[2] \in Tables /\ p = <<p[1], p[2]>>
  OBVIOUS
<1>2. p # None
  BY ConstantTypes
<1>3. Pids \subseteq Nat \ {0} /\ Tables \subseteq Nat
  BY ConstantTypes
<1>4. p[1] \in Nat /\ p[1] # 0 /\ p[2] \in Nat
  BY <1>1, <1>3
<1>. QED
  BY <1>1, <1>2, <1>4

LEMMA Interval ==
  ASSUME NEW k \in Nat
  PROVE  IsFiniteSet(1..k) /\ Cardinality(1..k) = k
<1>1. IsFiniteSet(1..k) /\ Cardinality(1..k) = IF 1 > k THEN 0 ELSE k - 1 + 1
  BY FS_Interval
<1>. QED
  BY <1>1

LEMMA Elements ==
  ASSUME NEW S, NEW m \in Seq(S)
  PROVE  /\ Len(m) \in Nat /\ ToSet(m) = {m[k] : k \in 1..Len(m)} /\ ToSet(m) \subseteq S
         /\ DOMAIN m = 1..Len(m)
  BY DEF ToSet

LEMMA NatMin ==
  ASSUME NEW S \in SUBSET Nat, S # {}
  PROVE  /\ Min(S) \in S /\ \A k \in S : Min(S) <= k
<1>1. PICK k \in S : \A l \in S : k <= l
  <2>1. PICK x \in S : \A y \in S : <<y, x>> \notin OpToRel(<, Nat)
    BY NatLessThanWellFounded, WFMin
  <2>2. \A y \in S : ~(y < x)
    BY <2>1 DEF OpToRel
  <2>. QED
    BY <2>2
<1>. QED
  BY <1>1 DEF Min

LEMMA FindIs ==
  ASSUME NEW m \in Seq(Procs), NEW pid
  PROVE  /\ Find(m, pid) \in 0..Len(m)
         /\ Find(m, pid) = 0 <=> \A p \in ToSet(m) : p[1] # pid
         /\ Find(m, pid) # 0 => m[Find(m, pid)][1] = pid
<1>. DEFINE I == {k \in 1..Len(m) : m[k][1] = pid}
<1>1. Find(m, pid) = IF I # {} THEN Min(I) ELSE 0
  BY DEF Find, SelectInSeq
<1>2. I # {} => Min(I) \in I
  <2>1. I \in SUBSET Nat
    OBVIOUS
  <2>. HIDE DEF I
  <2>. QED
    BY <2>1, NatMin
<1>3. I = {} <=> \A p \in ToSet(m) : p[1] # pid
  BY Elements
<1>. QED
  BY <1>1, <1>2, <1>3, Elements

LEMMA ByKeyIs ==
  ASSUME NEW m \in Seq(Procs), NEW pid
  PROVE  /\ ByKey(m, pid) # None => ByKey(m, pid) \in ToSet(m) /\ ByKey(m, pid)[1] = pid
         /\ ByKey(m, pid) = None <=> \A p \in ToSet(m) : p[1] # pid
         /\ Keyed(m) => \A p \in ToSet(m) : p[1] = pid => ByKey(m, pid) = p
<1>1. CASE Find(m, pid) = 0
  BY <1>1, FindIs DEF ByKey
<1>2. CASE Find(m, pid) # 0
  <2>. DEFINE k == Find(m, pid)
  <2>1. k \in 1..Len(m) /\ m[k][1] = pid /\ ByKey(m, pid) = m[k]
    BY <1>2, FindIs, Elements DEF ByKey
  <2>. HIDE DEF k
  <2>2. m[k] \in ToSet(m) /\ m[k] # None
    BY <2>1, Elements, ConstantTypes
  <2>3. ASSUME Keyed(m), NEW p \in ToSet(m), p[1] = pid PROVE p = m[k]
    <3>1. PICK l \in 1..Len(m) : p = m[l]
      BY Elements
    <3>. QED
      BY <2>1, <2>3, <3>1 DEF Keyed
  <2>. QED
    BY <2>1, <2>2, <2>3
<1>. QED
  BY <1>1, <1>2

LEMMA AppendIs ==
  ASSUME NEW m \in Seq(Procs), NEW p \in Procs
  PROVE  /\ Append(m, p) \in Seq(Procs) /\ ToSet(Append(m, p)) = ToSet(m) \cup {p}
         /\ Keyed(m) /\ (\A q \in ToSet(m) : q[1] # p[1]) => Keyed(Append(m, p))
<1>. DEFINE s == Append(m, p)
<1>1. /\ s \in Seq(Procs) /\ Len(m) \in Nat /\ Len(s) = Len(m) + 1 /\ s[Len(m) + 1] = p
      /\ \A k \in 1..Len(m) : s[k] = m[k]
  OBVIOUS
<1>. HIDE DEF s
<1>2. ToSet(s) = ToSet(m) \cup {p}
  BY <1>1, Elements
<1>3. ASSUME Keyed(m), \A q \in ToSet(m) : q[1] # p[1] PROVE Keyed(s)
  <2>1. \A k \in 1..Len(m) : m[k][1] # p[1]
    BY <1>3, Elements
  <2>. QED
    BY <1>1, <1>3, <2>1 DEF Keyed
<1>. QED
  BY <1>1, <1>2, <1>3 DEF s

LEMMA Onto ==
  ASSUME NEW S, IsFiniteSet(S), NEW T, NEW f \in [S -> T],
         \A x, y \in S : f[x] = f[y] => x = y, \A z \in T : \E x \in S : f[x] = z
  PROVE  IsFiniteSet(T) /\ Cardinality(T) = Cardinality(S)
<1>1. f \in Bijection(S, T)
  BY DEF Bijection, Injection, Surjection, IsInjective
<1>. QED
  BY <1>1, FS_Bijection DEF ExistsBijection

LEMMA KeysCardinality ==
  ASSUME NEW m \in Seq(Procs), Keyed(m)
  PROVE  /\ IsFiniteSet(ToSet(m)) /\ Cardinality(ToSet(m)) = Len(m)
         /\ Cardinality({p[1] : p \in ToSet(m)}) = Len(m)
         /\ Cardinality({k \in DOMAIN m : ~exited[m[k]]}) =
              Cardinality({p \in ToSet(m) : ~exited[p]})
<1>. DEFINE K == 1..Len(m)
<1>1. /\ Len(m) \in Nat /\ ToSet(m) = {m[k] : k \in K} /\ DOMAIN m = K
      /\ IsFiniteSet(K) /\ Cardinality(K) = Len(m)
  BY Elements, Interval
<1>2. \A k, l \in K : m[k][1] = m[l][1] => k = l
  BY DEF Keyed
<1>3. IsFiniteSet(ToSet(m)) /\ Cardinality(ToSet(m)) = Len(m)
  <2>. DEFINE f == [k \in K |-> m[k]]
  <2>1. f \in [K -> ToSet(m)] /\ \A x, y \in K : f[x] = f[y] => x = y
    BY <1>1, <1>2
  <2>2. \A z \in ToSet(m) : \E x \in K : f[x] = z
    BY <1>1
  <2>. HIDE DEF f
  <2>. QED
    BY <1>1, <2>1, <2>2, Onto
<1>4. Cardinality({p[1] : p \in ToSet(m)}) = Len(m)
  <2>. DEFINE f == [k \in K |-> m[k][1]]
              T == {p[1] : p \in ToSet(m)}
  <2>1. f \in [K -> T] /\ \A x, y \in K : f[x] = f[y] => x = y
    BY <1>1, <1>2
  <2>2. \A z \in T : \E x \in K : f[x] = z
    BY <1>1
  <2>. HIDE DEF f, T
  <2>3. Cardinality(T) = Len(m)
    BY <1>1, <2>1, <2>2, Onto
  <2>. QED
    BY <2>3 DEF T
<1>5. Cardinality({k \in DOMAIN m : ~exited[m[k]]}) = Cardinality({p \in ToSet(m) : ~exited[p]})
  <2>. DEFINE S == {k \in K : ~exited[m[k]]}
              T == {p \in ToSet(m) : ~exited[p]}
              f == [k \in S |-> m[k]]
  <2>1. f \in [S -> T] /\ \A x, y \in S : f[x] = f[y] => x = y
    BY <1>1, <1>2
  <2>2. \A z \in T : \E x \in S : f[x] = z
    BY <1>1
  <2>3. IsFiniteSet(S)
    BY <1>1, FS_Subset
  <2>. HIDE DEF f, S, T
  <2>4. Cardinality(T) = Cardinality(S)
    BY <2>1, <2>2, <2>3, Onto
  <2>. QED
    BY <1>1, <2>4 DEF S, T
<1>. QED
  BY <1>3, <1>4, <1>5

(* The rank of an entry is the number of keys up to its own; putting each  *)
(* entry at its rank sorts a map.                                          *)
LEMMA Ranked ==
  ASSUME NEW m \in Seq(Procs), Keyed(m)
  PROVE  \E f \in [1..Len(m) -> 1..Len(m)] :
           \A k, l \in 1..Len(m) : k < l => m[f[k]][1] < m[f[l]][1]
<1>. DEFINE K == 1..Len(m)
            Below(k) == {l \in K : m[l][1] <= m[k][1]}
            rank == [k \in K |-> Cardinality(Below(k))]
<1>1. /\ Len(m) \in Nat /\ IsFiniteSet(K) /\ Cardinality(K) = Len(m)
      /\ \A k \in K : m[k][1] \in Nat
      /\ \A k, l \in K : m[k][1] = m[l][1] => k = l
  <2>1. \A k \in K : m[k] \in Procs
    BY Elements
  <2>2. Len(m) \in Nat /\ IsFiniteSet(K) /\ Cardinality(K) = Len(m)
    BY Elements, Interval
  <2>. QED
    BY <2>1, <2>2, ProcIs DEF Keyed
<1>2. \A k \in K : /\ IsFiniteSet(Below(k)) /\ Cardinality(Below(k)) \in 1..Len(m)
                   /\ rank[k] = Cardinality(Below(k))
  <2>. SUFFICES ASSUME NEW k \in K
                PROVE  IsFiniteSet(Below(k)) /\ Cardinality(Below(k)) \in 1..Len(m)
    OBVIOUS
  <2>1. Below(k) \in SUBSET K /\ k \in Below(k)
    BY <1>1
  <2>2. IsFiniteSet(Below(k)) /\ Cardinality(Below(k)) <= Len(m)
    BY <1>1, <2>1, FS_Subset
  <2>3. Cardinality(Below(k)) \in Nat /\ Cardinality(Below(k)) # 0
    BY <2>1, <2>2, FS_CardinalityType, FS_EmptySet
  <2>. QED
    BY <1>1, <2>2, <2>3
<1>. HIDE DEF rank
<1>3. ASSUME NEW k \in K, NEW l \in K, m[k][1] < m[l][1] PROVE rank[k] < rank[l]
  <2>1. Below(k) \in SUBSET Below(l) /\ l \in Below(l) /\ l \notin Below(k)
    BY <1>1, <1>3
  <2>2. /\ Cardinality(Below(k)) <= Cardinality(Below(l))
        /\ Cardinality(Below(k)) # Cardinality(Below(l))
    BY <1>2, <2>1, FS_Subset
  <2>. HIDE DEF Below
  <2>3. /\ rank[k] = Cardinality(Below(k)) /\ Cardinality(Below(k)) \in Nat
        /\ rank[l] = Cardinality(Below(l)) /\ Cardinality(Below(l)) \in Nat
    BY <1>1, <1>2
  <2>. QED
    BY <2>2, <2>3
<1>0. \A k \in K : rank[k] \in K
  BY <1>2
<1>. HIDE DEF Below
<1>4. \A k, l \in K : rank[k] = rank[l] => k = l
  <2>. SUFFICES ASSUME NEW k \in K, NEW l \in K, k # l PROVE rank[k] # rank[l]
    OBVIOUS
  <2>1. m[k][1] < m[l][1] \/ m[l][1] < m[k][1]
    BY <1>1
  <2>. QED
    BY <1>0, <1>1, <1>3, <2>1
<1>5. \A k \in K : \E l \in K : rank[l] = k
  <2>1. rank \in Injection(K, K)
    <3>1. rank \in [K -> K]
      BY <1>0 DEF rank
    <3>. QED
      BY <1>4, <3>1 DEF Injection, IsInjective
  <2>2. rank \in Surjection(K, K)
    BY <1>1, <2>1, FS_Injection
  <2>. QED
    BY <2>2 DEF Surjection
<1>6. PICK f \in [K -> K] : \A k \in K : rank[f[k]] = k
  <2>. DEFINE f == [k \in K |-> CHOOSE l \in K : rank[l] = k]
  <2>1. f \in [K -> K] /\ \A k \in K : rank[f[k]] = k
    BY <1>5
  <2>. QED
    BY <2>1
<1>7. ASSUME NEW k \in K, NEW l \in K, k < l PROVE m[f[k]][1] < m[f[l]][1]
  <2>1. f[k] \in K /\ f[l] \in K /\ rank[f[k]] = k /\ rank[f[l]] = l
    BY <1>6
  <2>2. ~(m[f[l]][1] < m[f[k]][1])
    BY <1>1, <1>3, <1>7, <2>1
  <2>3. m[f[l]][1] # m[f[k]][1]
    BY <1>1, <1>7, <2>1
  <2>. QED
    BY <1>1, <2>1, <2>2, <2>3
<1>. QED
  BY <1>6, <1>7

LEMMA SortedIs ==
  ASSUME NEW m \in Seq(Procs), Keyed(m)
  PROVE  /\ SortedByKey(m) \in Seq(Procs) /\ ToSet(SortedByKey(m)) = ToSet(m)
         /\ Sorted(SortedByKey(m)) /\ Keyed(SortedByKey(m))
<1>. DEFINE K == 1..Len(m)
            Rising(s) == \A k, l \in K : k < l => s[k][1] < s[l][1]
<1>1. /\ Len(m) \in Nat /\ ToSet(m) = {m[k] : k \in K} /\ ToSet(m) \subseteq Procs
      /\ IsFiniteSet(K) /\ Cardinality(K) = Len(m)
      /\ IsFiniteSet(ToSet(m)) /\ Cardinality(ToSet(m)) = Len(m)
  BY Elements, Interval, KeysCardinality
<1>2. PICK f \in [K -> K] : \A k, l \in K : k < l => m[f[k]][1] < m[f[l]][1]
  BY Ranked
<1>3. [k \in K |-> m[f[k]]] \in [K -> ToSet(m)] /\ Rising([k \in K |-> m[f[k]]])
  BY <1>1, <1>2
<1>4. SortedByKey(m) = CHOOSE s \in [K -> ToSet(m)] : Rising(s)
  BY DEF SortedByKey
<1>. DEFINE s == SortedByKey(m)
<1>5. s \in [K -> ToSet(m)] /\ Rising(s)
  <2>. HIDE DEF Rising
  <2>. QED
    BY <1>3, <1>4
<1>. HIDE DEF s
<1>6. s \in Seq(Procs) /\ Len(s) = Len(m)
  <2>1. s \in [1..Len(m) -> Procs]
    BY <1>1, <1>5
  <2>. QED
    BY <1>1, <2>1
<1>7. \A k, l \in K : s[k][1] = s[l][1] => k = l
  <2>. SUFFICES ASSUME NEW k \in K, NEW l \in K, s[k][1] = s[l][1], k < l PROVE FALSE
    BY <1>1
  <2>1. s[k] \in Procs /\ s[l] \in Procs /\ s[k][1] < s[l][1]
    BY <1>1, <1>5
  <2>. QED
    BY <2>1, ProcIs
<1>8. ToSet(s) = ToSet(m)
  <2>1. s \in Injection(K, ToSet(m))
    BY <1>5, <1>7 DEF Injection, IsInjective
  <2>2. s \in Surjection(K, ToSet(m))
    BY <1>1, <2>1, FS_Injection
  <2>3. \A p \in ToSet(m) : \E k \in K : s[k] = p
    BY <2>2 DEF Surjection
  <2>4. ToSet(s) = {s[k] : k \in K}
    BY <1>6, Elements
  <2>. QED
    BY <1>5, <2>3, <2>4
<1>9. Sorted(s) /\ Keyed(s)
  BY <1>5, <1>6, <1>7 DEF Sorted, Keyed
<1>. QED
  BY <1>6, <1>8, <1>9 DEF s

LEMMA OneReader ==
  ASSUME NEW F \in SUBSET Readers, NEW G \in SUBSET Readers, NEW r \in Readers,
         \A q \in Readers \ {r} : q \in F <=> q \in G
  PROVE  /\ Cardinality(F) \in Nat
         /\ Cardinality(G) = Cardinality(F) - Bit(r \in F) + Bit(r \in G)
<1>1. IsFiniteSet(F) /\ IsFiniteSet(F \ {r}) /\ Cardinality(F) \in Nat
  BY ConstantTypes, FS_Subset, FS_CardinalityType
<1>2. Cardinality(F \ {r}) = Cardinality(F) - Bit(r \in F)
  BY <1>1, FS_RemoveElement DEF Bit
<1>3. Cardinality((F \ {r}) \cup {r}) = Cardinality(F \ {r}) + 1
  BY <1>1, FS_AddElement
<1>4. G = IF r \in G THEN (F \ {r}) \cup {r} ELSE F \ {r}
  OBVIOUS
<1>. QED
  BY <1>1, <1>2, <1>3, <1>4 DEF Bit

LEMMA OneHolder ==
  ASSUME NEW r \in Readers, \A q \in Readers \ {r} : tbl'[q] = tbl[q], NEW t
  PROVE  Cardinality(Holders(t)') = Cardinality(Holders(t)) - Bit(tbl[r] = t) + Bit(tbl'[r] = t)
<1>. DEFINE F == Holders(t)
            G == {q \in Readers : tbl'[q] = t}
<1>1. /\ F \in SUBSET Readers /\ G \in SUBSET Readers
      /\ \A q \in Readers \ {r} : q \in F <=> q \in G
      /\ (r \in F <=> tbl[r] = t) /\ (r \in G <=> tbl'[r] = t) /\ Holders(t)' = G
  BY DEF Holders
<1>. HIDE DEF F, G
<1>2. Cardinality(G) = Cardinality(F) - Bit(r \in F) + Bit(r \in G)
  BY <1>1, OneReader
<1>. QED
  BY <1>1, <1>2 DEF F, Bit

LEMMA OneUser ==
  ASSUME NEW r \in Readers, \A q \in Readers \ {r} : proc'[q] = proc[q], NEW p
  PROVE  Cardinality(Users(p)') = Cardinality(Users(p)) - Bit(proc[r] = p) + Bit(proc'[r] = p)
<1>. DEFINE F == Users(p)
            G == {q \in Readers : proc'[q] = p}
<1>1. /\ F \in SUBSET Readers /\ G \in SUBSET Readers
      /\ \A q \in Readers \ {r} : q \in F <=> q \in G
      /\ (r \in F <=> proc[r] = p) /\ (r \in G <=> proc'[r] = p) /\ Users(p)' = G
  BY DEF Users
<1>. HIDE DEF F, G
<1>2. Cardinality(G) = Cardinality(F) - Bit(r \in F) + Bit(r \in G)
  BY <1>1, OneReader
<1>. QED
  BY <1>1, <1>2 DEF F, Bit

LEMMA BitIs == \A b \in BOOLEAN : Bit(b) \in {0, 1} /\ (Bit(b) = 1 <=> b) /\ (Bit(b) = 0 <=> ~b)
  BY DEF Bit

(* Where the table in preparation is.                                      *)
LEMMA NewIs ==
  ASSUME TypeOK, Chain
  PROVE  /\ cur \in Nat /\ n \in Nat /\ New = cur + 1
         /\ Alloc <=> cur = n
         /\ ~Alloc => New = n /\ newproc[cur] = n
         /\ Alloc => New = n + 1
         /\ (list # None \/ New <= MaxTable) => New \in Tables
<1>1. /\ n \in 0..MaxTable /\ cur \in 0..MaxTable /\ MaxTable \in Nat /\ Tables = 0..MaxTable
      /\ newproc[cur] = IF cur < n THEN cur + 1 ELSE None
      /\ cur <= n /\ n <= cur + 1 /\ (list # None /\ cur = n => n < MaxTable)
  BY ConstantTypes DEF TypeOK, Chain
<1>2. cur < n => cur + 1 = n /\ cur + 1 # None /\ newproc[cur] = n
  <2>1. \A k \in Nat : k # None
    BY ConstantTypes
  <2>. QED
    BY <1>1, <2>1
<1>3. ~(cur < n) => cur = n /\ newproc[cur] = None
  BY <1>1
<1>4. (Alloc <=> cur = n) /\ New = cur + 1
  <2>1. CASE cur < n
    BY <1>1, <1>2, <2>1 DEF Alloc, New
  <2>2. CASE ~(cur < n)
    BY <1>1, <1>3, <2>2 DEF Alloc, New
  <2>. QED
    BY <2>1, <2>2
<1>. QED
  BY <1>1, <1>2, <1>3, <1>4

(***************************************************************************)
(* VmmProcessCreateEntry.                                                  *)
(***************************************************************************)
Dup(m, e) == \E q \in ToSet(m) : q[1] = e[1]

Entered(m, c, e, p) ==
  /\ p[1] = e[1] /\ p[2] <= New
  /\ map' = [map EXCEPT ![New] = IF Dup(m, e) THEN m ELSE Append(m, p)]
  /\ exited' \in [Procs -> BOOLEAN] /\ pers' \in [Procs -> Procs \cup {None}]
  /\ \A q \in Procs : q \in ToSet(m) \/ (\E t \in Tables : q \in ToSet(map[t])) =>
        exited'[q] = exited[q] /\ pers'[q] = pers[q]
  /\ count' = [count EXCEPT ![New] =
       IF Dup(m, e) THEN c
       ELSE [c |-> c.c + 1, cActive |-> c.cActive + IF exited'[p] THEN 0 ELSE 1]]
  /\ pref' = [q \in Procs |-> pref[q] + Bit(Alloc /\ q \in ToSet(m)) + Bit(~Dup(m, e) /\ q = p)]
  /\ ~Dup(m, e) => \A q \in ToSet(map[cur]) : q[1] = e[1] => pers'[p] = pers[q]

LEMMA EntryDoes ==
  ASSUME IInv, New \in Tables, NEW m \in Seq(Procs), Keyed(m), NEW c,
         \A q \in ToSet(m) : q[2] <= New, Alloc \/ m = map[New],
         NEW e \in Pids \X BOOLEAN, NEW all, CreateEntry(m, c, e, all)
  PROVE  \E p \in Procs : Entered(m, c, e, p)
<1>. DEFINE old == IF all THEN None ELSE ByKey(map[cur], e[1])
            p   == IF old = None THEN <<e[1], New>> ELSE old
            dup == Dup(m, e)
<1>1. /\ TypeOK /\ Chain /\ map[cur] \in Seq(Procs) /\ Keyed(map[cur]) /\ cur \in Tables
      /\ \A t \in Tables : map[t] \in Seq(Procs) /\ \A q \in ToSet(map[t]) : q[2] <= t
      /\ \A t \in Tables : t > n => map[t] = <<>>
  BY DEF IInv, TypeOK, Maps
<1>2. /\ e[1] \in Pids /\ e[2] \in BOOLEAN /\ New \in Nat /\ cur \in Nat /\ New = cur + 1
      /\ Tables \subseteq Nat
  BY <1>1, NewIs, ConstantTypes
<1>3. old # None => old \in ToSet(map[cur]) /\ old[1] = e[1]
  BY <1>1, ByKeyIs
<1>4. p \in Procs /\ p[1] = e[1] /\ p[2] <= New
  <2>1. CASE old = None
    BY <1>2, <2>1, ConstantTypes
  <2>2. CASE old # None
    <3>1. p = old /\ old \in Procs /\ old[2] <= cur
      BY <1>1, <1>3, <2>2, Elements
    <3>. QED
      BY <1>2, <1>3, <3>1, ProcIs
  <2>. QED
    BY <2>1, <2>2
<1>5. /\ dup <=> \E q \in ToSet(m) : q[1] = e[1]
      /\ Find(m, e[1]) # 0 <=> dup
  BY FindIs DEF Dup
<1>6. ASSUME old = None, NEW q \in Procs,
             q \in ToSet(m) \/ \E t \in Tables : q \in ToSet(map[t])
      PROVE  ~dup => q # p
  <2>1. SUFFICES ASSUME ~dup, q = p PROVE FALSE
    OBVIOUS
  <2>2. q \notin ToSet(m) /\ q[2] = New
    BY <1>4, <1>5, <1>6, <2>1
  <2>3. PICK t \in Tables : q \in ToSet(map[t])
    BY <1>6, <2>2
  <2>4. New <= t
    BY <1>1, <2>2, <2>3
  <2>5. t <= n
    <3>1. ToSet(<<>>) = {}
      BY DEF ToSet
    <3>2. t \in Nat /\ n \in Nat
      BY <1>1, <1>2, NewIs
    <3>. QED
      BY <1>1, <2>3, <3>1, <3>2
  <2>6. ~Alloc /\ New = n
    <3>1. t \in Nat /\ n \in Nat /\ (Alloc => New = n + 1) /\ (~Alloc => New = n)
      BY <1>1, <1>2, NewIs
    <3>. QED
      BY <1>2, <2>4, <2>5, <3>1
  <2>7. t = New
    BY <1>2, <2>4, <2>5, <2>6
  <2>. QED
    BY <2>2, <2>3, <2>6, <2>7
<1>7. /\ exited' = IF dup \/ old # None THEN exited ELSE [exited EXCEPT ![p] = e[2]]
      /\ pers' = IF dup \/ old # None THEN pers ELSE [pers EXCEPT ![p] = Persistent(p)]
      /\ map' = [map EXCEPT ![New] = IF dup THEN m ELSE Append(m, p)]
      /\ count' = [count EXCEPT ![New] = IF dup THEN c ELSE Counted(c, p, e)]
      /\ pref' = [q \in Procs |-> pref[q] + ((IF Alloc /\ q \in ToSet(m) THEN 1 ELSE 0)
                                              + (IF ~dup /\ q = p THEN 1 ELSE 0))]
  BY <1>5 DEF CreateEntry
<1>8. ASSUME NEW q \in ToSet(map[cur]), q[1] = e[1]
      PROVE  ByKey(map[cur], e[1]) = q
  BY <1>1, <1>8, ByKeyIs
<1>9. Persistent(p) \in Procs \cup {None}
  <2>1. ByKey(map[cur], p[1]) # None => ByKey(map[cur], p[1]) \in Procs
    BY <1>1, ByKeyIs, Elements
  <2>2. pers \in [Procs -> Procs \cup {None}]
    BY <1>1 DEF TypeOK
  <2>. HIDE DEF p
  <2>. QED
    BY <1>4, <2>1, <2>2 DEF Persistent
<1>10. ASSUME ~dup, NEW q \in ToSet(map[cur]), q[1] = e[1] PROVE pers'[p] = pers[q]
  <2>1. CASE old # None
    BY <1>7, <1>8, <1>10, <2>1
  <2>2. CASE old = None
    <3>1. pers' = [pers EXCEPT ![p] = Persistent(p)] /\ p \in DOMAIN pers
      BY <1>1, <1>4, <1>7, <1>10, <2>2 DEF TypeOK
    <3>2. Persistent(p) = pers[q]
      <4>1. ByKey(map[cur], p[1]) = q /\ q # None
        <5>1. q \in Procs
          BY <1>1, Elements
        <5>. QED
          BY <1>4, <1>8, <1>10, <5>1, ConstantTypes
      <4>. QED
        BY <4>1 DEF Persistent
    <3>. HIDE DEF p
    <3>. QED
      BY <3>1, <3>2
  <2>. QED
    BY <2>1, <2>2
<1>11. /\ exited' \in [Procs -> BOOLEAN] /\ pers' \in [Procs -> Procs \cup {None}]
       /\ \A q \in Procs : q \in ToSet(m) \/ (\E t \in Tables : q \in ToSet(map[t])) =>
            exited'[q] = exited[q] /\ pers'[q] = pers[q]
  <2>1. exited \in [Procs -> BOOLEAN] /\ pers \in [Procs -> Procs \cup {None}]
    BY <1>1 DEF TypeOK
  <2>. HIDE DEF p, old, dup
  <2>. QED
    BY <1>2, <1>4, <1>6, <1>7, <1>9, <2>1
<1>12. \A q \in Procs : pref'[q] = pref[q] + Bit(Alloc /\ q \in ToSet(m)) + Bit(~dup /\ q = p)
  <2>1. \A q \in Procs : pref[q] \in Int
    BY <1>1 DEF TypeOK
  <2>. HIDE DEF p, old, dup
  <2>. QED
    BY <1>7, <2>1 DEF Bit
<1>13. pref' = [q \in Procs |-> pref[q] + Bit(Alloc /\ q \in ToSet(m)) + Bit(~dup /\ q = p)]
  <2>. HIDE DEF p, old, dup
  <2>. QED
    BY <1>7, <1>12
<1>14. count' = [count EXCEPT ![New] = IF dup THEN c
                   ELSE [c |-> c.c + 1, cActive |-> c.cActive + IF exited'[p] THEN 0 ELSE 1]]
  BY <1>7 DEF Counted
<1>. HIDE DEF p, old
<1>15. map' = [map EXCEPT ![New] = IF dup THEN m ELSE Append(m, p)]
  BY <1>7
<1>16. Entered(m, c, e, p)
  BY <1>4, <1>10, <1>11, <1>13, <1>14, <1>15 DEF Entered
<1>. QED
  BY <1>4, <1>16

(* What an entry does to the tables, whoever makes it.                     *)
LEMMA EntryMaps ==
  ASSUME IInv, New \in Tables, cur' = cur, NEW m \in Seq(Procs), Keyed(m), NEW c,
         c = Tally(ToSet(m), exited), \A q \in ToSet(m) : q[2] <= New,
         NEW e, NEW p \in Procs, Entered(m, c, e, p), n' = New
  PROVE  /\ Maps' /\ map' \in [Tables -> Seq(Procs)]
         /\ count' \in [Tables -> [c : Nat, cActive : Nat]]
         /\ ToSet(map'[New]) = ToSet(m) \cup (IF Dup(m, e) THEN {} ELSE {p})
         /\ \A t \in Tables \ {New} : map'[t] = map[t]
<1>1. /\ TypeOK /\ Chain /\ Maps /\ map \in [Tables -> Seq(Procs)]
      /\ count \in [Tables -> [c : Nat, cActive : Nat]]
      /\ p[1] = e[1] /\ p[2] <= New /\ (Dup(m, e) <=> \E q \in ToSet(m) : q[1] = e[1])
      /\ map' = [map EXCEPT ![New] = IF Dup(m, e) THEN m ELSE Append(m, p)]
      /\ \A q \in Procs : q \in ToSet(m) \/ (\E t \in Tables : q \in ToSet(map[t])) =>
           exited'[q] = exited[q]
      /\ exited' \in [Procs -> BOOLEAN]
      /\ count' = [count EXCEPT ![New] = IF Dup(m, e) THEN c
                     ELSE [c |-> c.c + 1, cActive |-> c.cActive + IF exited'[p] THEN 0 ELSE 1]]
  BY DEF IInv, TypeOK, Entered, Dup
<1>2. /\ map'[New] = (IF Dup(m, e) THEN m ELSE Append(m, p))
      /\ \A t \in Tables \ {New} : map'[t] = map[t]
  BY <1>1
<1>3. /\ map'[New] \in Seq(Procs) /\ Keyed(map'[New])
      /\ ToSet(map'[New]) = ToSet(m) \cup (IF Dup(m, e) THEN {} ELSE {p})
  BY <1>1, <1>2, AppendIs
<1>4. map' \in [Tables -> Seq(Procs)]
  BY <1>1, <1>2, <1>3
<1>5. ASSUME NEW S \in SUBSET Procs, \A q \in S : exited'[q] = exited[q]
      PROVE  Tally(S, exited') = Tally(S, exited)
  <2>1. {q \in S : ~exited'[q]} = {q \in S : ~exited[q]}
    BY <1>5
  <2>. QED
    BY <2>1 DEF Tally
<1>6. /\ IsFiniteSet(ToSet(m)) /\ ToSet(m) \subseteq Procs
      /\ Cardinality(ToSet(m)) \in Nat /\ Cardinality({q \in ToSet(m) : ~exited[q]}) \in Nat
  <2>1. IsFiniteSet(ToSet(m)) /\ ToSet(m) \subseteq Procs
    BY Elements, KeysCardinality
  <2>2. IsFiniteSet({q \in ToSet(m) : ~exited[q]})
    BY <2>1, FS_Subset
  <2>. QED
    BY <2>1, <2>2, FS_CardinalityType
<1>7. Tally(ToSet(m), exited') = Tally(ToSet(m), exited) /\ c = Tally(ToSet(m), exited)
  BY <1>1, <1>5, <1>6
<1>8. /\ c \in [c : Nat, cActive : Nat]
      /\ count'[New] = Tally(ToSet(map'[New]), exited') /\ count'[New] \in [c : Nat, cActive : Nat]
  <2>0. c \in [c : Nat, cActive : Nat]
    BY <1>6, <1>7 DEF Tally
  <2>1. CASE Dup(m, e)
    <3>1. count'[New] = c /\ ToSet(map'[New]) = ToSet(m)
      BY <1>1, <1>3, <2>1
    <3>. QED
      BY <1>7, <2>0, <3>1
  <2>2. CASE ~Dup(m, e)
    <3>. DEFINE S == ToSet(m)
                A == {q \in S : ~exited'[q]}
                A2 == {q \in S \cup {p} : ~exited'[q]}
    <3>1. IsFiniteSet(S) /\ IsFiniteSet(A) /\ p \notin S
      BY <1>1, <1>6, <2>2, FS_Subset
    <3>2. Cardinality(S \cup {p}) = Cardinality(S) + 1
      BY <3>1, FS_AddElement
    <3>3. A2 = IF exited'[p] THEN A ELSE A \cup {p}
      OBVIOUS
    <3>4. Cardinality(A \cup {p}) = Cardinality(A) + 1
      BY <3>1, FS_AddElement
    <3>5. c = [c |-> Cardinality(S), cActive |-> Cardinality(A)]
      BY <1>7 DEF Tally
    <3>6. Cardinality(S) \in Nat /\ Cardinality(A) \in Nat
      BY <3>1, FS_CardinalityType
    <3>7. Tally(ToSet(map'[New]), exited') =
            [c |-> Cardinality(S \cup {p}), cActive |-> Cardinality(A2)]
      BY <1>3, <2>2 DEF Tally
    <3>8. count'[New] = [c |-> c.c + 1, cActive |-> c.cActive + IF exited'[p] THEN 0 ELSE 1]
      BY <1>1, <2>2
    <3>9. Cardinality(A2) = Cardinality(A) + IF exited'[p] THEN 0 ELSE 1
      <4>. HIDE DEF A, A2
      <4>. QED
        BY <3>3, <3>4, <3>6
    <3>. HIDE DEF S, A, A2
    <3>. QED
      BY <2>0, <3>2, <3>5, <3>6, <3>7, <3>8, <3>9
  <2>. QED
    BY <2>0, <2>1, <2>2
<1>9. count' \in [Tables -> [c : Nat, cActive : Nat]]
  BY <1>1, <1>8
<1>10. /\ New = cur + 1 /\ cur \in Nat /\ n \in Nat /\ (\A t \in Tables : t \in Nat)
       /\ n <= cur + 1
  <2>1. \A t \in Tables : t \in Nat
    BY ConstantTypes
  <2>. QED
    BY <1>1, <2>1, NewIs DEF Chain
<1>11. ASSUME NEW t \in Tables
       PROVE  /\ Keyed(map'[t]) /\ count'[t] = Tally(ToSet(map'[t]), exited')
              /\ \A q \in ToSet(map'[t]) : q[2] <= t
              /\ t <= cur => Sorted(map'[t])
              /\ t > New => map'[t] = <<>>
  <2>1. CASE t = New
    <3>1. \A q \in ToSet(map'[t]) : q[2] <= t
      BY <1>1, <1>3, <2>1
    <3>2. ~(t <= cur) /\ ~(t > New)
      BY <1>10, <2>1
    <3>. QED
      BY <1>3, <1>8, <2>1, <3>1, <3>2
  <2>2. CASE t # New
    <3>1. map'[t] = map[t] /\ count'[t] = count[t]
      BY <1>1, <1>2, <2>2
    <3>2. /\ Keyed(map[t]) /\ count[t] = Tally(ToSet(map[t]), exited)
          /\ \A q \in ToSet(map[t]) : q[2] <= t
          /\ t <= cur => Sorted(map[t])
          /\ t > n => map[t] = <<>>
      BY <1>1 DEF Maps
    <3>3. ToSet(map[t]) \subseteq Procs
      BY <1>1, Elements
    <3>5. count'[t] = Tally(ToSet(map'[t]), exited')
      <4>1. \A q \in ToSet(map[t]) : exited'[q] = exited[q]
        BY <1>1, <3>3
      <4>2. {q \in ToSet(map'[t]) : ~exited'[q]} = {q \in ToSet(map[t]) : ~exited[q]}
        BY <3>1, <4>1
      <4>. QED
        BY <3>1, <3>2, <4>2 DEF Tally
    <3>6. t > New => t > n
      BY <1>10
    <3>. QED
      BY <3>1, <3>2, <3>5, <3>6
  <2>. QED
    BY <2>1, <2>2
<1>12. Maps'
  BY <1>11 DEF Maps
<1>. QED
  BY <1>2, <1>3, <1>4, <1>9, <1>12

(***************************************************************************)
(* Counts.                                                                 *)
(***************************************************************************)
Link(t) == t \in 1..n /\ tref[t - 1] > 0

LEMMA CountTypes ==
  /\ \A t : IsFiniteSet(Holders(t)) /\ Cardinality(Holders(t)) \in Nat
  /\ \A p : IsFiniteSet(Users(p)) /\ Cardinality(Users(p)) \in Nat
  /\ n \in Nat => \A p : IsFiniteSet(Alive(p)) /\ Cardinality(Alive(p)) \in Nat
<1>1. \A t : IsFiniteSet(Holders(t)) /\ IsFiniteSet(Users(t))
  BY ConstantTypes, FS_Subset DEF Holders, Users
<1>2. ASSUME n \in Nat, NEW p PROVE IsFiniteSet(Alive(p))
  <2>1. IsFiniteSet(0..n)
    BY <1>2, FS_Interval
  <2>. QED
    BY <2>1, FS_Subset DEF Alive
<1>. QED
  BY <1>1, <1>2, FS_CardinalityType

LEMMA Basics ==
  ASSUME TypeOK, Chain
  PROVE  /\ cur \in Tables /\ n \in Tables /\ cur \in Nat /\ n \in Nat /\ cur <= n /\ n <= cur + 1
         /\ \A t \in Tables : /\ t \in Nat /\ t <= MaxTable /\ map[t] \in Seq(Procs)
                              /\ leaked[t] \in Nat /\ tref[t] \in Int
         /\ MaxTable \in Nat /\ 0..n \subseteq Tables /\ 0..cur \subseteq Tables
         /\ \A t \in Tables : t <= n <=> t \in 0..n
         /\ \A t \in Tables : t - 1 \in 0..n => t - 1 \in Tables
<1>1. /\ cur \in Tables /\ n \in Tables /\ cur <= n /\ n <= cur + 1
      /\ \A t \in Tables : map[t] \in Seq(Procs) /\ leaked[t] \in Nat /\ tref[t] \in Int
  BY DEF TypeOK, Chain
<1>2. Tables = 0..MaxTable /\ MaxTable \in Nat
  BY ConstantTypes
<1>3. /\ cur \in Nat /\ n \in Nat /\ \A t \in Tables : t \in Nat /\ t <= MaxTable
  BY <1>1, <1>2
<1>4. /\ 0..n \subseteq Tables /\ 0..cur \subseteq Tables
      /\ \A t \in Tables : t <= n <=> t \in 0..n
  BY <1>1, <1>2, <1>3
<1>. QED
  BY <1>1, <1>2, <1>3, <1>4

LEMMA TableCounts ==
  ASSUME TypeOK, Chain, Counts, Reading
  PROVE  /\ \A t \in Tables :
              /\ tref[t] = Bit(cur = t) + leaked[t] + Bit(Link(t)) + Cardinality(Holders(t))
              /\ Bit(cur = t) \in {0, 1} /\ leaked[t] \in Nat /\ Bit(Link(t)) \in {0, 1}
              /\ Cardinality(Holders(t)) \in Nat /\ tref[t] \in Nat
              /\ Link(t) => tref[t] > 0
              /\ t > n => tref[t] = 0 /\ leaked[t] = 0 /\ Holders(t) = {}
         /\ tref[cur] > 0 /\ (cur < n => tref[n] > 0 /\ Link(n))
<1>1. /\ cur \in Tables /\ n \in Tables /\ cur \in Nat /\ n \in Nat /\ cur <= n /\ n <= cur + 1
      /\ \A t \in Tables : leaked[t] \in Nat /\ t \in Nat
  BY Basics
<1>2. ASSUME NEW t \in Tables
      PROVE  /\ tref[t] = Bit(cur = t) + leaked[t] + Bit(Link(t)) + Cardinality(Holders(t))
             /\ Bit(cur = t) \in {0, 1} /\ leaked[t] \in Nat /\ Bit(Link(t)) \in {0, 1}
             /\ Cardinality(Holders(t)) \in Nat
             /\ Link(t) => Bit(Link(t)) = 1
             /\ cur = t => Bit(cur = t) = 1
  BY <1>1, CountTypes DEF Counts, Link, Bit
<1>3. ASSUME NEW t \in Tables
      PROVE  /\ tref[t] \in Nat /\ (Link(t) => tref[t] > 0)
             /\ cur = t => tref[t] > 0
  BY <1>2
<1>4. ASSUME NEW t \in Tables, t > n
      PROVE  tref[t] = 0 /\ leaked[t] = 0 /\ Holders(t) = {}
  <2>1. Holders(t) = {}
    <3>1. \A r \in Readers : tbl[r] # None => tbl[r] <= cur
      BY DEF Reading
    <3>2. t # None
      BY ConstantTypes
    <3>. QED
      BY <1>1, <1>4, <3>1, <3>2 DEF Holders
  <2>2. ~Link(t) /\ cur # t /\ leaked[t] = 0
    BY <1>1, <1>4 DEF Link, Counts
  <2>3. Cardinality(Holders(t)) = 0 /\ Bit(Link(t)) = 0 /\ Bit(cur = t) = 0
    BY <2>1, <2>2, FS_EmptySet DEF Bit
  <2>4. tref[t] = Bit(cur = t) + leaked[t] + Bit(Link(t)) + Cardinality(Holders(t))
    BY <1>2
  <2>5. tref[t] = 0
    BY <2>2, <2>3, <2>4
  <2>. QED
    BY <2>1, <2>2, <2>5
<1>5. tref[cur] > 0
  BY <1>1, <1>3
<1>6. cur < n => Link(n)
  <2>1. cur < n => n - 1 = cur /\ n \in 1..n
    BY <1>1
  <2>. QED
    BY <1>5, <2>1 DEF Link
<1>. QED
  BY <1>1, <1>2, <1>3, <1>4, <1>5, <1>6

(* Counts, one table and one process at a time.                            *)
TableCount(t) ==
    /\ tref[t] = Bit(cur = t) + leaked[t] + Bit(Link(t)) + Cardinality(Holders(t))
    /\ t > n => leaked[t] = 0
ProcCount(p) == pref[p] = Bit(sys = p) + Cardinality(Alive(p)) + Cardinality(Users(p))

LEMMA EntryCounts ==
  ASSUME IInv, New \in Tables, cur' = cur, NEW m \in Seq(Procs), Alloc \/ m = map[New],
         NEW c, NEW e, NEW p \in Procs, Entered(m, c, e, p), n' = New,
         ToSet(map'[New]) = ToSet(m) \cup (IF Dup(m, e) THEN {} ELSE {p}),
         \A t \in Tables \ {New} : map'[t] = map[t],
         UNCHANGED <<sys, tbl, proc>>,
         NEW k \in {0, 1}, Alloc \/ k = 0,
         \A t \in Tables : leaked'[t] = leaked[t] + IF t \in {New, cur} THEN k ELSE 0,
         \A t \in Tables : tref'[t] = tref[t] + (IF t \in {New, cur} THEN k ELSE 0)
                                              + IF Alloc /\ t = New THEN 1 ELSE 0
  PROVE  Counts'
<1>1. /\ TypeOK /\ Chain /\ Counts /\ Reading /\ cur \in Tables /\ n \in Tables
      /\ \A t \in Tables : t \in Nat /\ tref[t] \in Nat /\ leaked[t] \in Nat
      /\ cur \in Nat /\ n \in Nat /\ New = cur + 1 /\ n <= New
      /\ (Alloc <=> cur = n) /\ (~Alloc => New = n) /\ (Alloc => New = n + 1)
      /\ tref[cur] > 0 /\ (cur < n => tref[n] > 0)
      /\ \A t \in Tables : t > n => tref[t] = 0 /\ leaked[t] = 0 /\ Holders(t) = {}
      /\ \A q \in Procs : pref[q] \in Int
  <2>1. TypeOK /\ Chain /\ Counts /\ Reading
    BY DEF IInv
  <2>2. \A q \in Procs : pref[q] \in Int
    BY <2>1 DEF TypeOK
  <2>3. \A t \in Tables : /\ tref[t] \in Nat /\ leaked[t] \in Nat
                          /\ t > n => tref[t] = 0 /\ leaked[t] = 0 /\ Holders(t) = {}
    BY <2>1, TableCounts
  <2>4. tref[cur] > 0 /\ (cur < n => tref[n] > 0)
    BY <2>1, TableCounts
  <2>5. /\ cur \in Nat /\ n \in Nat /\ New = cur + 1 /\ n <= New
        /\ (Alloc <=> cur = n) /\ (~Alloc => New = n) /\ (Alloc => New = n + 1)
    BY <2>1, NewIs
  <2>6. cur \in Tables /\ n \in Tables /\ (\A t \in Tables : t \in Nat) /\ n <= cur + 1
    BY <2>1, Basics
  <2>. QED
    BY <2>1, <2>2, <2>3, <2>4, <2>5, <2>6
<1>2. tref'[New] > 0
  <2>1. tref'[New] = tref[New] + k + IF Alloc THEN 1 ELSE 0
    OBVIOUS
  <2>2. tref[New] \in Nat /\ (~Alloc => tref[New] > 0)
    BY <1>1
  <2>. QED
    BY <2>1, <2>2
<1>3. \A t \in Tables \ {New} : tref'[t] > 0 <=> tref[t] > 0
  BY <1>1
<1>4. ASSUME NEW t \in Tables PROVE TableCount(t)'
  <2>1. Holders(t)' = Holders(t) /\ Bit(cur = t)' = Bit(cur = t)
    BY DEF Holders
  <2>2. t # New => (Link(t)' <=> Link(t))
    <3>1. ASSUME t # New PROVE t \in 1..n' <=> t \in 1..n
      BY <1>1, <3>1
    <3>2. ASSUME t # New, t \in 1..n PROVE t - 1 \in Tables \ {New}
      BY <1>1, <3>2, ConstantTypes
    <3>. QED
      BY <1>3, <3>1, <3>2 DEF Link
  <2>3. t = New => Link(t)'
    <3>1. New \in 1..n' /\ New - 1 = cur /\ cur # New
      BY <1>1
    <3>2. tref'[cur] > 0
      BY <1>1, <1>3, <3>1
    <3>. QED
      BY <3>1, <3>2 DEF Link
  <2>4. CASE t # New
    <3>1. Bit(Link(t))' = Bit(Link(t))
      BY <2>2, <2>4 DEF Bit
    <3>. DEFINE d == IF t = cur THEN k ELSE 0
    <3>3. d \in {0, 1} /\ leaked'[t] = leaked[t] + d /\ tref'[t] = tref[t] + d
      <4>1. tref[t] \in Nat /\ leaked[t] \in Nat
        BY <1>1
      <4>2. t \in {New, cur} <=> t = cur
        BY <2>4
      <4>. QED
        BY <2>4, <4>1, <4>2
    <3>4. tref[t] = Bit(cur = t) + leaked[t] + Bit(Link(t)) + Cardinality(Holders(t))
      BY <1>1, TableCounts
    <3>5. /\ Bit(cur = t) \in {0, 1} /\ leaked[t] \in Nat /\ Bit(Link(t)) \in {0, 1}
          /\ Cardinality(Holders(t)) \in Nat
      BY <1>1, TableCounts
    <3>6. t > n' => leaked'[t] = 0
      <4>1. n' = cur + 1 /\ n <= cur + 1 /\ cur \in Nat /\ n \in Nat /\ t \in Nat
        BY <1>1
      <4>2. t > n' => t > n /\ t # cur
        BY <4>1
      <4>. QED
        BY <1>1, <3>3, <4>2
    <3>. HIDE DEF d
    <3>7. tref'[t] = Bit(cur = t) + leaked'[t] + Bit(Link(t)) + Cardinality(Holders(t))
      BY <3>3, <3>4, <3>5
    <3>. QED
      BY <2>1, <3>1, <3>6, <3>7 DEF TableCount
  <2>5. CASE t = New
    <3>1. Bit(Link(t))' = 1 /\ Bit(cur = t) = 0 /\ ~(t > n')
      BY <1>1, <2>3, <2>5 DEF Bit
    <3>2. tref[t] = leaked[t] + Bit(Link(t)) + Cardinality(Holders(t))
      BY <1>1, <2>5, <3>1, TableCounts
    <3>3. Bit(Link(t)) = IF Alloc THEN 0 ELSE 1
      <4>1. Alloc => ~Link(t)
        BY <1>1, <2>5 DEF Link
      <4>2. ~Alloc => Link(t)
        BY <1>1, <2>5, TableCounts
      <4>. QED
        BY <4>1, <4>2 DEF Bit
    <3>4. Cardinality(Holders(t)) \in Nat /\ leaked[t] \in Nat
      BY <1>1, CountTypes
    <3>5. leaked'[t] = leaked[t] + k /\ tref'[t] = tref[t] + k + IF Alloc THEN 1 ELSE 0
      BY <1>1, <2>5
    <3>6. tref'[t] = leaked'[t] + 1 + Cardinality(Holders(t))
      BY <3>2, <3>3, <3>4, <3>5
    <3>7. tref'[t] = Bit(cur = t) + leaked'[t] + Bit(Link(t))' + Cardinality(Holders(t))
      BY <3>1, <3>4, <3>5, <3>6
    <3>. QED
      BY <2>1, <3>1, <3>7 DEF TableCount
  <2>. QED
    BY <2>4, <2>5
<1>5. ASSUME NEW q \in Procs PROVE ProcCount(q)'
  <2>. DEFINE Added == (Alloc /\ q \in ToSet(m)) \/ (~Dup(m, e) /\ q = p)
  <2>1. pref'[q] = pref[q] + Bit(Alloc /\ q \in ToSet(m)) + Bit(~Dup(m, e) /\ q = p)
    BY DEF Entered
  <2>2. ~((Alloc /\ q \in ToSet(m)) /\ (~Dup(m, e) /\ q = p))
    BY DEF Entered, Dup
  <2>3. pref'[q] = pref[q] + Bit(Added)
    BY <1>1, <2>1, <2>2 DEF Bit
  <2>4. Added => New \notin Alive(q)
    <3>1. Alloc => New \notin 0..n
      BY <1>1
    <3>2. ~Alloc /\ ~Dup(m, e) => p \notin ToSet(map[New])
      BY DEF Entered, Dup
    <3>. QED
      BY <3>1, <3>2 DEF Alive
  <2>5. Alive(q)' = Alive(q) \cup (IF Added THEN {New} ELSE {})
    <3>1. ASSUME NEW t \in Tables \ {New} PROVE t \in Alive(q)' <=> t \in Alive(q)
      <4>1. t \in 0..n' <=> t \in 0..n
        BY <1>1
      <4>. QED
        BY <1>3, <4>1 DEF Alive
    <3>2. New \in Alive(q)' <=> New \in Alive(q) \/ Added
      <4>1. New \in Alive(q)' <=> q \in ToSet(m) \/ (~Dup(m, e) /\ q = p)
        <5>1. New \in 0..n'
          BY <1>1
        <5>. QED
          BY <1>2, <5>1 DEF Alive
      <4>2. ~Alloc => (New \in Alive(q) <=> q \in ToSet(m))
        <5>1. ~Alloc => New \in 0..n /\ tref[New] > 0 /\ m = map[New]
          BY <1>1
        <5>. QED
          BY <5>1 DEF Alive
      <4>3. Alloc => New \notin Alive(q)
        BY <1>1 DEF Alive
      <4>. QED
        BY <4>1, <4>2, <4>3
    <3>3. Alive(q) \subseteq Tables /\ Alive(q)' \subseteq Tables
      <4>1. 0..n \subseteq Tables /\ 0..n' \subseteq Tables
        BY <1>1, ConstantTypes
      <4>. QED
        BY <4>1 DEF Alive
    <3>. HIDE DEF Added
    <3>. QED
      BY <3>1, <3>2, <3>3
  <2>. HIDE DEF Added
  <2>6. Cardinality(Alive(q)') = Cardinality(Alive(q)) + Bit(Added)
    <3>1. IsFiniteSet(Alive(q)) /\ Cardinality(Alive(q)) \in Nat
      BY <1>1, CountTypes
    <3>2. Added => Cardinality(Alive(q) \cup {New}) = Cardinality(Alive(q)) + 1
      BY <2>4, <3>1, FS_AddElement
    <3>3. CASE Added
      BY <2>5, <3>2, <3>3 DEF Bit
    <3>4. CASE ~Added
      BY <2>5, <3>1, <3>4 DEF Bit
    <3>. QED
      BY <3>3, <3>4
  <2>7. Users(q)' = Users(q) /\ Bit(sys = q)' = Bit(sys = q)
    BY DEF Users
  <2>8. /\ pref[q] = Bit(sys = q) + Cardinality(Alive(q)) + Cardinality(Users(q))
        /\ Bit(sys = q) \in {0, 1} /\ Bit(Added) \in {0, 1}
        /\ Cardinality(Alive(q)) \in Nat /\ Cardinality(Users(q)) \in Nat
    BY <1>1, CountTypes DEF IInv, Counts, Bit
  <2>. QED
    BY <2>3, <2>6, <2>7, <2>8 DEF ProcCount
<1>. QED
  BY <1>4, <1>5 DEF Counts, TableCount, ProcCount, Link

(* The tables that die with t are t and its successors, each of which had  *)
(* one reference.                                                          *)
LEMMA FreedIs ==
  ASSUME TypeOK, Chain, Counts, Reading, NEW t \in 0..n, tref[t] > 0
  PROVE  LET F == Freed(t) IN
         /\ F \subseteq Tables /\ F \subseteq 0..n /\ IsFiniteSet(F)
         /\ \A u \in F : u \in Nat /\ t <= u /\ u <= n /\ tref[u] = 1 /\ (u # t => u - 1 \in F)
         /\ t \notin F => tref[t] > 1
         /\ \A u \in 1..n : u - 1 \in F => newproc[u - 1] = u /\ (u \notin F => tref[u] > 1)
<1>. DEFINE F == Freed(t)
<1>1. /\ n \in Nat /\ t \in Nat /\ t <= n /\ 0..n \subseteq Tables
      /\ \A u \in 0..n : u \in Tables /\ tref[u] \in Nat
  <2>1. n \in Nat /\ 0..n \subseteq Tables
    BY Basics
  <2>. QED
    BY <2>1, TableCounts
<1>2. \A u \in 1..n : newproc[u - 1] = u
  <2>. SUFFICES ASSUME NEW u \in 1..n PROVE newproc[u - 1] = u
    OBVIOUS
  <2>1. u - 1 \in Tables /\ u - 1 < n /\ u - 1 + 1 = u
    BY <1>1
  <2>. QED
    BY <2>1 DEF Chain
<1>3. F = {u \in t..n : tref[t] = 1 /\ \A v \in (t + 1)..u : tref[v] = 1}
  BY <1>1, <1>2 DEF Freed
<1>4. F \subseteq 0..n /\ IsFiniteSet(F)
  <2>1. F \subseteq 0..n
    BY <1>1, <1>3
  <2>2. IsFiniteSet(0..n)
    BY <1>1, FS_Interval
  <2>. HIDE DEF F
  <2>. QED
    BY <2>1, <2>2, FS_Subset
<1>. HIDE DEF F
<1>5. ASSUME NEW u \in F
      PROVE  u \in Nat /\ t <= u /\ u <= n /\ tref[u] = 1 /\ (u # t => u - 1 \in F)
  BY <1>1, <1>3
<1>6. t \notin F => tref[t] > 1
  <2>1. t \in t..n /\ (t + 1)..t = {} /\ tref[t] \in Nat
    BY <1>1
  <2>2. t \notin F => tref[t] # 1
    BY <1>3, <2>1
  <2>. QED
    BY <2>1, <2>2
<1>7. ASSUME NEW u \in 1..n, u - 1 \in F, u \notin F PROVE tref[u] > 1
  <2>1. u \in t..n /\ u \in Tables /\ \A v \in (t + 1)..u : v = u \/ v \in (t + 1)..(u - 1)
    BY <1>1, <1>5, <1>7
  <2>2. tref[t] = 1 /\ \A v \in (t + 1)..(u - 1) : tref[v] = 1
    BY <1>3, <1>7
  <2>3. tref[u] # 1
    BY <1>3, <1>7, <2>1, <2>2
  <2>4. tref[u - 1] = 1
    BY <1>5, <1>7
  <2>5. tref[u] > 0 /\ tref[u] \in Nat
    BY <1>1, <2>1, <2>4, TableCounts DEF Link
  <2>. QED
    BY <2>3, <2>5
<1>. QED
  BY <1>1, <1>2, <1>4, <1>5, <1>6, <1>7 DEF F

LEMMA DropCounts ==
  ASSUME IInv, NEW r \in Readers, tbl[r] # None, DropTable(tbl[r]),
         tbl' = [tbl EXCEPT ![r] = None], UNCHANGED <<tableVars, cur, leaked, sys, proc>>
  PROVE  Counts' /\ tref' \in [Tables -> Int] /\ pref' \in [Procs -> Int]
<1>. DEFINE t == tbl[r]
            F == Freed(t)
            Next1(u) == u \in 1..n /\ u - 1 \in F
<1>1. TypeOK /\ Chain /\ Counts /\ Reading
  BY DEF IInv
<1>2. /\ n \in Nat /\ cur \in Nat /\ t \in Tables /\ t \in 0..n /\ t # None
      /\ \A u \in Tables : u \in Nat /\ (u <= n <=> u \in 0..n)
  <2>1. t \in Tables /\ t <= cur
    BY <1>1 DEF TypeOK, Reading
  <2>. HIDE DEF t
  <2>2. /\ n \in Nat /\ cur \in Nat /\ cur <= n
        /\ \A u \in Tables : u \in Nat /\ (u <= n <=> u \in 0..n)
    BY <1>1, Basics
  <2>3. t # None
    BY <2>1, ConstantTypes
  <2>. QED
    BY <2>1, <2>2, <2>3
<1>3. \A u \in Tables :
        /\ tref[u] = Bit(cur = u) + leaked[u] + Bit(Link(u)) + Cardinality(Holders(u))
        /\ Bit(cur = u) \in {0, 1} /\ leaked[u] \in Nat /\ Bit(Link(u)) \in {0, 1}
        /\ Cardinality(Holders(u)) \in Nat /\ tref[u] \in Nat
        /\ u > n => leaked[u] = 0
  BY <1>1, TableCounts
<1>4. \A u \in Tables : Cardinality(Holders(u)') = Cardinality(Holders(u)) - Bit(u = t)
  <2>. SUFFICES ASSUME NEW u \in Tables
                PROVE  Cardinality(Holders(u)') = Cardinality(Holders(u)) - Bit(u = t)
    OBVIOUS
  <2>1. tbl'[r] = None /\ \A q \in Readers \ {r} : tbl'[q] = tbl[q]
    BY <1>1 DEF TypeOK
  <2>2. Cardinality(Holders(u)') = Cardinality(Holders(u)) - Bit(tbl[r] = u) + Bit(tbl'[r] = u)
    BY <2>1, OneHolder
  <2>3. tbl'[r] # u /\ Cardinality(Holders(u)) \in Nat
    BY <1>3, <2>1, ConstantTypes
  <2>4. Bit(tbl'[r] = u) = 0 /\ Bit(tbl[r] = u) = Bit(u = t) /\ Bit(u = t) \in {0, 1}
    BY <2>3 DEF Bit
  <2>. HIDE DEF t
  <2>. QED
    BY <2>2, <2>3, <2>4
<1>5. tref[t] > 0
  <2>1. IsFiniteSet(Holders(t)) /\ r \in Holders(t)
    BY CountTypes DEF Holders
  <2>. HIDE DEF t
  <2>2. Cardinality(Holders(t)) \in Nat /\ Cardinality(Holders(t)) # 0
    BY <2>1, FS_CardinalityType, FS_EmptySet
  <2>. QED
    BY <1>2, <1>3, <2>2
<1>6. /\ F \subseteq Tables /\ F \subseteq 0..n /\ IsFiniteSet(F)
      /\ \A u \in F : u \in Nat /\ t <= u /\ u <= n /\ tref[u] = 1 /\ (u # t => u - 1 \in F)
      /\ t \notin F => tref[t] > 1
      /\ \A u \in 1..n : u - 1 \in F => newproc[u - 1] = u /\ (u \notin F => tref[u] > 1)
  <2>. HIDE DEF t
  <2>. QED
    BY <1>1, <1>2, <1>5, FreedIs
<1>7. /\ tref' = [u \in Tables |->
                    IF u \in F THEN 0
                    ELSE IF u = t \/ (u - 1 \in F /\ newproc[u - 1] = u) THEN tref[u] - 1
                    ELSE tref[u]]
      /\ pref' = [p \in Procs |-> pref[p] - Cardinality({u \in F : p \in ToSet(map[u])})]
  BY DEF DropTable
<1>. HIDE DEF F, t
<1>8. \A u \in Tables : u - 1 \in F /\ newproc[u - 1] = u <=> Next1(u)
  <2>. SUFFICES ASSUME NEW u \in Tables, u - 1 \in F, newproc[u - 1] = u PROVE u \in 1..n
    BY <1>6
  <2>1. u - 1 \in Nat /\ u - 1 \in Tables /\ u \in Nat /\ u # None
    BY <1>2, <1>6, ConstantTypes
  <2>2. newproc[u - 1] = IF u - 1 < n THEN u - 1 + 1 ELSE None
    BY <1>1, <2>1 DEF Chain
  <2>3. u - 1 < n
    BY <2>1, <2>2
  <2>. QED
    BY <1>2, <2>1, <2>3
<1>9. \A u \in Tables : ~(u = t /\ Next1(u))
  BY <1>2, <1>6
<1>10. \A u \in Tables : tref'[u] = tref[u] - Bit(u = t) - Bit(Next1(u))
  <2>. SUFFICES ASSUME NEW u \in Tables
                PROVE  tref'[u] = tref[u] - Bit(u = t) - Bit(Next1(u))
    OBVIOUS
  <2>0. u \in Nat /\ tref[u] \in Nat
    BY <1>2, <1>3
  <2>1. CASE u \in F
    <3>1. tref'[u] = 0 /\ tref[u] = 1 /\ u <= n /\ t <= u /\ (u # t => u - 1 \in F)
      BY <1>6, <1>7, <2>1
    <3>2. u # t => u \in 1..n
      BY <1>2, <2>0, <3>1
    <3>3. u = t <=> ~Next1(u)
      BY <1>9, <3>1, <3>2
    <3>. HIDE DEF Next1
    <3>. QED
      BY <3>1, <3>3 DEF Bit
  <2>2. CASE u \notin F
    <3>1. tref'[u] = IF u = t \/ Next1(u) THEN tref[u] - 1 ELSE tref[u]
      BY <1>7, <1>8, <2>2
    <3>2. ~(u = t /\ Next1(u))
      BY <1>9
    <3>. HIDE DEF Next1
    <3>. QED
      BY <2>0, <3>1, <3>2 DEF Bit
  <2>. QED
    BY <2>1, <2>2
<1>11. \A u \in Tables : tref'[u] > 0 <=> tref[u] > 0 /\ u \notin F
  <2>. SUFFICES ASSUME NEW u \in Tables PROVE tref'[u] > 0 <=> tref[u] > 0 /\ u \notin F
    OBVIOUS
  <2>0. u \in Nat /\ tref[u] \in Nat
    BY <1>2, <1>3
  <2>1. CASE u \in F
    BY <1>7, <2>1
  <2>2. CASE u \notin F /\ (u = t \/ Next1(u))
    <3>1. tref[u] > 1 /\ tref'[u] = tref[u] - 1
      BY <1>6, <1>7, <1>8, <2>2
    <3>. QED
      BY <2>0, <2>2, <3>1
  <2>3. CASE u \notin F /\ ~(u = t \/ Next1(u))
    BY <1>7, <1>8, <2>3
  <2>. QED
    BY <2>1, <2>2, <2>3
<1>12. ASSUME NEW u \in Tables PROVE TableCount(u)'
  <2>1. Bit(Link(u))' = Bit(Link(u)) - Bit(Next1(u))
    <3>1. ASSUME u \in 1..n
          PROVE  u - 1 \in Tables /\ (tref'[u - 1] > 0 <=> tref[u - 1] > 0 /\ u - 1 \notin F)
      <4>1. u - 1 \in 0..n
        BY <1>2, <3>1
      <4>2. u - 1 \in Tables
        BY <1>1, <4>1, Basics
      <4>. QED
        BY <1>11, <4>2
    <3>2. Link(u)' <=> Link(u) /\ ~Next1(u)
      <4>1. n' = n
        BY DEF tableVars
      <4>. QED
        BY <3>1, <4>1 DEF Link
    <3>3. Next1(u) => Link(u)
      <4>1. Next1(u) => tref[u - 1] = 1
        BY <1>6
      <4>. QED
        BY <4>1 DEF Link
    <3>. HIDE DEF Next1
    <3>. QED
      BY <3>2, <3>3 DEF Bit
  <2>2. /\ Bit(u = t) \in {0, 1} /\ Bit(Next1(u)) \in {0, 1}
        /\ tref'[u] = tref[u] - Bit(u = t) - Bit(Next1(u))
        /\ Cardinality(Holders(u)') = Cardinality(Holders(u)) - Bit(u = t)
    <3>1. Bit(u = t) \in {0, 1} /\ Bit(Next1(u)) \in {0, 1}
      BY DEF Bit
    <3>. HIDE DEF Next1
    <3>. QED
      BY <1>4, <1>10, <3>1
  <2>3. /\ tref[u] = Bit(cur = u) + leaked[u] + Bit(Link(u)) + Cardinality(Holders(u))
        /\ Bit(cur = u) \in {0, 1} /\ leaked[u] \in Nat /\ Bit(Link(u)) \in {0, 1}
        /\ Cardinality(Holders(u)) \in Nat
        /\ u > n => leaked[u] = 0
    BY <1>3
  <2>. HIDE DEF Next1
  <2>4. tref'[u] = Bit(cur = u) + leaked[u] + Bit(Link(u))' + Cardinality(Holders(u)')
    BY <2>1, <2>2, <2>3
  <2>. QED
    BY <2>3, <2>4 DEF TableCount, tableVars
<1>13. ASSUME NEW p \in Procs PROVE ProcCount(p)'
  <2>. DEFINE A == Alive(p)
              D == {u \in F : p \in ToSet(map[u])}
  <2>1. D = A \cap F
    <3>1. \A u \in F : tref[u] > 0 /\ u \in 0..n
      BY <1>6
    <3>. QED
      BY <3>1 DEF Alive
  <2>2. Alive(p)' = A \ F
    <3>1. 0..n \subseteq Tables
      BY <1>1, Basics
    <3>2. \A u \in 0..n : tref'[u] > 0 <=> tref[u] > 0 /\ u \notin F
      BY <1>11, <3>1
    <3>. QED
      BY <3>2 DEF Alive, tableVars
  <2>3. IsFiniteSet(A) /\ Cardinality(A) \in Nat
    BY <1>2, CountTypes
  <2>4. pref'[p] = pref[p] - Cardinality(D)
    BY <1>7
  <2>5. Users(p)' = Users(p) /\ Bit(sys = p)' = Bit(sys = p)
    BY DEF Users
  <2>6. /\ pref[p] = Bit(sys = p) + Cardinality(A) + Cardinality(Users(p))
        /\ Bit(sys = p) \in {0, 1} /\ Cardinality(Users(p)) \in Nat
    BY <1>1, CountTypes DEF Counts, Bit
  <2>7. Cardinality(A \ F) = Cardinality(A) - Cardinality(A \cap F) /\ Cardinality(A \cap F) \in Nat
    <3>1. IsFiniteSet(A \cap F)
      BY <2>3, FS_Subset
    <3>. HIDE DEF A
    <3>. QED
      BY <2>3, <3>1, FS_Difference, FS_CardinalityType
  <2>. HIDE DEF A, D
  <2>8. pref'[p] = Bit(sys = p) + Cardinality(A \ F) + Cardinality(Users(p))
    BY <2>1, <2>3, <2>4, <2>6, <2>7
  <2>. QED
    BY <2>2, <2>5, <2>8 DEF ProcCount
<1>14. tref' \in [Tables -> Int] /\ pref' \in [Procs -> Int]
  <2>1. \A u \in Tables : tref[u] \in Int
    BY <1>3
  <2>2. \A p \in Procs : pref[p] - Cardinality({u \in F : p \in ToSet(map[u])}) \in Int
    <3>. SUFFICES ASSUME NEW p \in Procs
                  PROVE  pref[p] - Cardinality({u \in F : p \in ToSet(map[u])}) \in Int
      OBVIOUS
    <3>1. IsFiniteSet({u \in F : p \in ToSet(map[u])}) /\ pref[p] \in Int
      BY <1>1, <1>6, FS_Subset DEF TypeOK
    <3>2. Cardinality({u \in F : p \in ToSet(map[u])}) \in Nat
      BY <3>1, FS_CardinalityType
    <3>. QED
      BY <3>1, <3>2
  <2>. QED
    BY <1>7, <2>1, <2>2
<1>. QED
  BY <1>12, <1>13, <1>14 DEF Counts, TableCount, ProcCount, Link

LEMMA AddRefIs ==
  ASSUME NEW f \in [Procs -> Int], NEW x \in Procs \cup {None}, NEW k \in Int
  PROVE  /\ AddRef(f, x, k) \in [Procs -> Int]
         /\ \A p \in Procs : AddRef(f, x, k)[p] = f[p] + IF x = p THEN k ELSE 0
<1>1. None \notin Procs
  BY ConstantTypes
<1>. QED
  BY <1>1 DEF AddRef

(* A reader exchanges the process it holds.                                *)
LEMMA SwitchCounts ==
  ASSUME IInv, NEW r \in Readers, NEW p \in Procs \cup {None},
         pref' = AddRef(AddRef(pref, proc[r], -1), p, 1), proc' = [proc EXCEPT ![r] = p],
         UNCHANGED <<tableVars, cur, tref, leaked, tbl, sys>>
  PROVE  Counts' /\ pref' \in [Procs -> Int] /\ proc' \in [Readers -> Procs \cup {None}]
<1>1. /\ TypeOK /\ Chain /\ Counts /\ proc \in [Readers -> Procs \cup {None}]
      /\ pref \in [Procs -> Int] /\ n \in Nat
  <2>1. TypeOK /\ Chain /\ Counts
    BY DEF IInv
  <2>. QED
    BY <2>1, Basics DEF TypeOK
<1>2. \A t \in Tables : TableCount(t)'
  BY <1>1 DEF Counts, TableCount, Link, Holders, tableVars
<1>3. /\ pref' \in [Procs -> Int]
      /\ \A q \in Procs : pref'[q] = pref[q] - Bit(proc[r] = q) + Bit(p = q)
  <2>. DEFINE f == AddRef(pref, proc[r], -1)
  <2>0. proc[r] \in Procs \cup {None} /\ -1 \in Int /\ 1 \in Int
    BY <1>1
  <2>1. f \in [Procs -> Int]
    BY <1>1, <2>0, AddRefIs
  <2>2. \A q \in Procs : f[q] = pref[q] + IF proc[r] = q THEN -1 ELSE 0
    BY <1>1, <2>0, AddRefIs
  <2>3. pref' = AddRef(f, p, 1)
    OBVIOUS
  <2>. HIDE DEF f
  <2>4. AddRef(f, p, 1) \in [Procs -> Int]
    BY <2>0, <2>1, AddRefIs
  <2>5. \A q \in Procs : AddRef(f, p, 1)[q] = f[q] + IF p = q THEN 1 ELSE 0
    BY <2>0, <2>1, AddRefIs
  <2>6. ASSUME NEW q \in Procs PROVE pref'[q] = pref[q] - Bit(proc[r] = q) + Bit(p = q)
    <3>1. pref[q] \in Int
      BY <1>1
    <3>. QED
      BY <2>2, <2>3, <2>5, <3>1 DEF Bit
  <2>. QED
    BY <2>3, <2>4, <2>6
<1>4. ASSUME NEW q \in Procs PROVE ProcCount(q)'
  <2>1. Cardinality(Users(q)') = Cardinality(Users(q)) - Bit(proc[r] = q) + Bit(p = q)
    <3>1. proc'[r] = p /\ \A x \in Readers \ {r} : proc'[x] = proc[x]
      BY <1>1
    <3>. QED
      BY <3>1, OneUser
  <2>2. Alive(q)' = Alive(q) /\ Bit(sys = q)' = Bit(sys = q)
    BY DEF Alive, tableVars
  <2>3. /\ pref[q] = Bit(sys = q) + Cardinality(Alive(q)) + Cardinality(Users(q))
        /\ Bit(sys = q) \in {0, 1} /\ Cardinality(Alive(q)) \in Nat
        /\ Cardinality(Users(q)) \in Nat /\ Bit(proc[r] = q) \in {0, 1} /\ Bit(p = q) \in {0, 1}
    BY <1>1, CountTypes DEF Counts, Bit
  <2>4. pref'[q] = pref[q] - Bit(proc[r] = q) + Bit(p = q)
    BY <1>3
  <2>5. pref'[q] = Bit(sys = q) + Cardinality(Alive(q)) + Cardinality(Users(q)')
    BY <2>1, <2>3, <2>4
  <2>. QED
    BY <2>2, <2>5 DEF ProcCount
<1>. QED
  BY <1>1, <1>2, <1>3, <1>4 DEF Counts, TableCount, ProcCount, Link

(* The refresh exchanges the system process it holds.                      *)
LEMMA SystemCounts ==
  ASSUME IInv, sys' \in Procs \cup {None}, NEW x \in Procs, NEW k \in {-1, 1},
         pref' = AddRef(pref, x, k),
         \A p \in Procs : Bit(sys' = p) = Bit(sys = p) + IF x = p THEN k ELSE 0,
         UNCHANGED <<tableVars, cur, tref, leaked, tbl, proc>>
  PROVE  Counts' /\ pref' \in [Procs -> Int]
<1>1. TypeOK /\ Chain /\ Counts /\ pref \in [Procs -> Int] /\ n \in Nat
  <2>1. TypeOK /\ Chain /\ Counts
    BY DEF IInv
  <2>. QED
    BY <2>1, Basics DEF TypeOK
<1>2. \A t \in Tables : TableCount(t)'
  BY <1>1 DEF Counts, TableCount, Link, Holders, tableVars
<1>3. pref' \in [Procs -> Int] /\ \A q \in Procs : pref'[q] = pref[q] + IF x = q THEN k ELSE 0
  <2>1. k \in Int /\ x \in Procs \cup {None}
    OBVIOUS
  <2>2. AddRef(pref, x, k) \in [Procs -> Int]
    BY <1>1, <2>1, AddRefIs
  <2>3. \A q \in Procs : AddRef(pref, x, k)[q] = pref[q] + IF x = q THEN k ELSE 0
    BY <1>1, <2>1, AddRefIs
  <2>. QED
    BY <2>2, <2>3
<1>4. ASSUME NEW q \in Procs PROVE ProcCount(q)'
  <2>1. Users(q)' = Users(q) /\ Alive(q)' = Alive(q)
    BY DEF Alive, Users, tableVars
  <2>2. /\ pref[q] = Bit(sys = q) + Cardinality(Alive(q)) + Cardinality(Users(q))
        /\ Bit(sys = q) \in {0, 1} /\ Cardinality(Alive(q)) \in Nat
        /\ Cardinality(Users(q)) \in Nat
    BY <1>1, CountTypes DEF Counts, Bit
  <2>3. pref'[q] = Bit(sys' = q) + Cardinality(Alive(q)) + Cardinality(Users(q))
    BY <1>3, <2>2
  <2>. QED
    BY <2>1, <2>3 DEF ProcCount
<1>. QED
  BY <1>2, <1>3, <1>4 DEF Counts, TableCount, ProcCount, Link

(* A reader takes a reference to the visible table.                        *)
LEMMA TakeCounts ==
  ASSUME IInv, NEW r \in Readers, tbl[r] = None, tref' = [tref EXCEPT ![cur] = @ + 1],
         tbl' = [tbl EXCEPT ![r] = cur], UNCHANGED <<tableVars, cur, leaked, pref, sys, proc>>
  PROVE  Counts' /\ tref' \in [Tables -> Int] /\ tbl' \in [Readers -> Tables \cup {None}]
<1>1. TypeOK /\ Chain /\ Counts /\ Reading /\ tref \in [Tables -> Int] /\ cur \in Tables
  BY DEF IInv, TypeOK
<1>2. /\ tref' \in [Tables -> Int] /\ tbl' \in [Readers -> Tables \cup {None}]
      /\ tbl'[r] = cur /\ \A q \in Readers \ {r} : tbl'[q] = tbl[q]
  BY <1>1 DEF TypeOK
<1>3. \A t \in Tables : tref'[t] > 0 <=> tref[t] > 0
  <2>1. tref[cur] > 0 /\ \A t \in Tables : tref[t] \in Nat
    BY <1>1, TableCounts
  <2>. QED
    BY <1>1, <2>1
<1>4. ASSUME NEW t \in Tables PROVE TableCount(t)'
  <2>1. Cardinality(Holders(t)') = Cardinality(Holders(t)) + Bit(cur = t)
    <3>1. Cardinality(Holders(t)') = Cardinality(Holders(t)) - Bit(tbl[r] = t) + Bit(cur = t)
      BY <1>2, OneHolder
    <3>2. Bit(tbl[r] = t) = 0 /\ Cardinality(Holders(t)) \in Nat /\ Bit(cur = t) \in {0, 1}
      BY CountTypes, ConstantTypes DEF Bit
    <3>. QED
      BY <3>1, <3>2
  <2>2. Bit(Link(t))' = Bit(Link(t))
    <3>1. t \in 1..n => t - 1 \in Tables
      <4>1. n \in Nat /\ 0..n \subseteq Tables
        BY <1>1, Basics
      <4>2. t \in 1..n => t - 1 \in 0..n
        BY <4>1
      <4>. QED
        BY <4>1, <4>2
    <3>2. n' = n
      BY DEF tableVars
    <3>. QED
      BY <1>3, <3>1, <3>2 DEF Link
  <2>3. /\ tref[t] = Bit(cur = t) + leaked[t] + Bit(Link(t)) + Cardinality(Holders(t))
        /\ Bit(cur = t) \in {0, 1} /\ leaked[t] \in Nat /\ Bit(Link(t)) \in {0, 1}
        /\ Cardinality(Holders(t)) \in Nat /\ (t > n => leaked[t] = 0)
    BY <1>1, TableCounts
  <2>4. tref'[t] = tref[t] + Bit(cur = t)
    BY <1>1, <2>3 DEF Bit
  <2>5. tref'[t] = Bit(cur = t) + leaked[t] + Bit(Link(t))' + Cardinality(Holders(t)')
    BY <2>1, <2>2, <2>3, <2>4
  <2>. QED
    BY <2>3, <2>5 DEF TableCount, tableVars
<1>5. ASSUME NEW p \in Procs PROVE ProcCount(p)'
  <2>1. Users(p)' = Users(p)
    BY DEF Users
  <2>2. Alive(p)' = Alive(p)
    <3>1. 0..n \subseteq Tables /\ n' = n /\ map' = map
      BY <1>1, Basics DEF tableVars
    <3>. QED
      BY <1>3, <3>1 DEF Alive
  <2>. QED
    BY <1>1, <2>1, <2>2 DEF ProcCount, Counts
<1>. QED
  BY <1>2, <1>4, <1>5 DEF Counts, TableCount, ProcCount, Link

(***************************************************************************)
(* VmmProcessCreateFinish.                                                 *)
(***************************************************************************)
LEMMA FinishDoes ==
  ASSUME IInv, CreateFinish
  PROVE  /\ n = cur + 1 /\ newproc[cur] = n /\ cur' = n /\ n' = n /\ n \in Tables /\ cur \in Tables
         /\ n # cur /\ cur \in Nat /\ n \in Nat
         /\ map' \in [Tables -> Seq(Procs)] /\ \A t \in Tables : ToSet(map'[t]) = ToSet(map[t])
         /\ \A t \in Tables \ {n} : map'[t] = map[t]
         /\ Sorted(map'[n]) /\ Keyed(map'[n])
<1>1. TypeOK /\ Chain /\ Maps
  BY DEF IInv
<1>2. n \in Tables /\ cur \in Tables /\ cur \in Nat /\ n \in Nat /\ cur < n /\ n <= cur + 1
  <2>1. cur < n
    BY <1>1 DEF CreateFinish, Chain
  <2>. QED
    BY <1>1, <2>1, Basics
<1>3. n = cur + 1 /\ newproc[cur] = n /\ n # cur
  <2>1. newproc[cur] = cur + 1
    BY <1>1, <1>2 DEF Chain
  <2>. QED
    BY <1>2, <2>1
<1>4. map \in [Tables -> Seq(Procs)] /\ Keyed(map[n])
  BY <1>1, <1>2 DEF TypeOK, Maps
<1>5. map' = [map EXCEPT ![n] = SortedByKey(map[n])] /\ cur' = n /\ n' = n
  BY <1>3 DEF CreateFinish
<1>6. /\ SortedByKey(map[n]) \in Seq(Procs) /\ ToSet(SortedByKey(map[n])) = ToSet(map[n])
      /\ Sorted(SortedByKey(map[n])) /\ Keyed(SortedByKey(map[n]))
  <2>1. map[n] \in Seq(Procs)
    BY <1>2, <1>4
  <2>. QED
    BY <1>4, <2>1, SortedIs
<1>. QED
  BY <1>2, <1>3, <1>4, <1>5, <1>6

LEMMA FinishCounts ==
  ASSUME IInv, CreateFinish
  PROVE  Counts' /\ tref' \in [Tables -> Int] /\ pref' \in [Procs -> Int]
<1>. DEFINE F == IF tref[cur] = 1 THEN {cur} ELSE {}
            c == Cardinality(F)
<1>1. TypeOK /\ Chain /\ Counts /\ Reading /\ tref \in [Tables -> Int] /\ pref \in [Procs -> Int]
  BY DEF IInv, TypeOK
<1>2. /\ n = cur + 1 /\ newproc[cur] = n /\ cur' = n /\ n' = n /\ n \in Tables /\ cur \in Tables
      /\ n # cur /\ cur \in Nat /\ n \in Nat /\ cur < n
      /\ \A t \in Tables : ToSet(map'[t]) = ToSet(map[t])
      /\ \A t \in Tables : t \in Nat
  <2>1. /\ n = cur + 1 /\ newproc[cur] = n /\ cur' = n /\ n' = n /\ n \in Tables /\ cur \in Tables
        /\ n # cur /\ cur \in Nat /\ n \in Nat
        /\ \A t \in Tables : ToSet(map'[t]) = ToSet(map[t])
    BY FinishDoes
  <2>2. cur < n /\ \A t \in Tables : t \in Nat
    BY <1>1, <2>1, Basics
  <2>. QED
    BY <2>1, <2>2
<1>3. IsFiniteSet(F) /\ c = Bit(tref[cur] = 1) /\ c \in {0, 1} /\ F \subseteq {cur}
  BY FS_EmptySet, FS_Singleton DEF Bit
<1>4. /\ tref' = [tref EXCEPT ![cur] = @ - 1, ![n] = @ + 1 - c]
      /\ pref' = [p \in Procs |-> pref[p] - Cardinality({u \in F : p \in ToSet(map[u])})]
      /\ leaked' = leaked /\ sys' = sys /\ tbl' = tbl /\ proc' = proc
  BY <1>2 DEF CreateFinish, readerVars
<1>5. /\ tref'[cur] = tref[cur] - 1 /\ tref'[n] = tref[n] + 1 - c
      /\ \A t \in Tables \ {cur, n} : tref'[t] = tref[t]
  BY <1>1, <1>2, <1>4
<1>6. tref[cur] \in Nat /\ tref[cur] > 0 /\ tref[n] \in Nat /\ tref[n] > 0 /\ Link(n)
  BY <1>1, <1>2, TableCounts
<1>7. \A t \in Tables : t - 1 \in Tables \/ t \notin 1..n
  <2>1. 0..n \subseteq Tables
    BY <1>1, Basics
  <2>2. \A t \in Tables : t \in 1..n => t - 1 \in 0..n
    BY <1>2
  <2>. QED
    BY <2>1, <2>2
<1>. HIDE DEF c
<1>8. ASSUME NEW t \in Tables PROVE TableCount(t)'
  <2>1. Holders(t)' = Holders(t)
    BY <1>4 DEF Holders
  <2>2. /\ tref[t] = Bit(cur = t) + leaked[t] + Bit(Link(t)) + Cardinality(Holders(t))
        /\ Bit(cur = t) \in {0, 1} /\ leaked[t] \in Nat /\ Bit(Link(t)) \in {0, 1}
        /\ Cardinality(Holders(t)) \in Nat /\ (t > n => leaked[t] = 0)
    BY <1>1, TableCounts
  <2>3. CASE t # n
    <3>1. Link(t)' <=> Link(t)
      <4>1. t \in 1..n => t - 1 # cur /\ t - 1 # n
        BY <1>2, <2>3
      <4>. QED
        BY <1>2, <1>5, <1>7, <4>1 DEF Link
    <3>2. Bit(Link(t))' = Bit(Link(t)) /\ Bit(cur' = t) = 0
      BY <1>2, <2>3, <3>1 DEF Bit
    <3>3. tref'[t] = tref[t] - Bit(cur = t)
      <4>1. CASE t = cur
        BY <1>5, <4>1 DEF Bit
      <4>2. CASE t # cur
        BY <1>5, <2>3, <2>2, <4>2 DEF Bit
      <4>. QED
        BY <4>1, <4>2
    <3>4. tref'[t] = Bit(cur' = t) + leaked[t] + Bit(Link(t))' + Cardinality(Holders(t))
      BY <2>2, <3>2, <3>3
    <3>. QED
      BY <1>2, <1>4, <2>1, <2>2, <3>4 DEF TableCount
  <2>4. CASE t = n
    <3>1. Link(t)' <=> tref[cur] # 1
      <4>1. t \in 1..n' /\ t - 1 = cur
        BY <1>2, <2>4
      <4>2. tref'[t - 1] > 0 <=> tref[cur] # 1
        BY <1>5, <1>6, <4>1
      <4>. QED
        BY <4>1, <4>2 DEF Link
    <3>2. /\ Bit(Link(t))' = 1 - c /\ Bit(Link(t)) = 1 /\ Bit(cur' = t) = 1 /\ Bit(cur = t) = 0
      BY <1>2, <1>3, <1>6, <2>4, <3>1 DEF Bit
    <3>3. tref'[t] = tref[t] + 1 - c
      BY <1>5, <2>4
    <3>4. tref'[t] = Bit(cur' = t) + leaked[t] + Bit(Link(t))' + Cardinality(Holders(t))
      BY <1>3, <2>2, <3>2, <3>3
    <3>. QED
      BY <1>2, <1>4, <2>1, <2>2, <3>4 DEF TableCount
  <2>. QED
    BY <2>3, <2>4
<1>9. ASSUME NEW p \in Procs PROVE ProcCount(p)'
  <2>. DEFINE A == Alive(p)
              D == {u \in F : p \in ToSet(map[u])}
  <2>1. D = A \cap F
    <3>1. \A u \in F : tref[u] > 0 /\ u \in 0..n
      BY <1>2, <1>3, <1>6
    <3>. QED
      BY <3>1 DEF Alive
  <2>2. Alive(p)' = A \ F
    <3>1. 0..n \subseteq Tables
      BY <1>1, Basics
    <3>2. \A u \in 0..n : tref'[u] > 0 <=> tref[u] > 0 /\ u \notin F
      <4>. SUFFICES ASSUME NEW u \in 0..n PROVE tref'[u] > 0 <=> tref[u] > 0 /\ u \notin F
        OBVIOUS
      <4>1. CASE u = cur
        BY <1>5, <1>6, <4>1
      <4>2. CASE u = n
        BY <1>2, <1>3, <1>5, <1>6, <4>2
      <4>3. CASE u \notin {cur, n}
        BY <1>3, <1>5, <3>1, <4>3
      <4>. QED
        BY <4>1, <4>2, <4>3
    <3>3. \A u \in 0..n : p \in ToSet(map'[u]) <=> p \in ToSet(map[u])
      BY <1>2, <3>1
    <3>. HIDE DEF F
    <3>. QED
      BY <1>2, <3>2, <3>3 DEF Alive
  <2>3. IsFiniteSet(A) /\ Cardinality(A) \in Nat
    BY <1>2, CountTypes
  <2>4. pref'[p] = pref[p] - Cardinality(D)
    BY <1>4
  <2>5. Users(p)' = Users(p) /\ Bit(sys' = p) = Bit(sys = p)
    BY <1>4 DEF Users
  <2>6. /\ pref[p] = Bit(sys = p) + Cardinality(A) + Cardinality(Users(p))
        /\ Bit(sys = p) \in {0, 1} /\ Cardinality(Users(p)) \in Nat
    BY <1>1, CountTypes DEF Counts, Bit
  <2>7. Cardinality(A \ F) = Cardinality(A) - Cardinality(A \cap F) /\ Cardinality(A \cap F) \in Nat
    <3>1. IsFiniteSet(A \cap F)
      BY <2>3, FS_Subset
    <3>. HIDE DEF A, F
    <3>. QED
      BY <2>3, <3>1, FS_Difference, FS_CardinalityType
  <2>. HIDE DEF A, D, F
  <2>8. pref'[p] = Bit(sys = p) + Cardinality(A \ F) + Cardinality(Users(p))
    BY <2>1, <2>3, <2>4, <2>6, <2>7
  <2>. QED
    BY <2>2, <2>5, <2>8 DEF ProcCount
<1>10. tref' \in [Tables -> Int] /\ pref' \in [Procs -> Int]
  <2>1. \A u \in Tables : tref'[u] \in Int
    <3>. SUFFICES ASSUME NEW u \in Tables PROVE tref'[u] \in Int
      OBVIOUS
    <3>1. tref[u] \in Int
      BY <1>1
    <3>. QED
      BY <1>3, <1>5, <1>6, <3>1
  <2>2. \A p \in Procs : pref[p] - Cardinality({u \in F : p \in ToSet(map[u])}) \in Int
    <3>. SUFFICES ASSUME NEW p \in Procs
                  PROVE  pref[p] - Cardinality({u \in F : p \in ToSet(map[u])}) \in Int
      OBVIOUS
    <3>. HIDE DEF F
    <3>1. IsFiniteSet({u \in F : p \in ToSet(map[u])}) /\ pref[p] \in Int
      BY <1>1, <1>3, FS_Subset
    <3>2. Cardinality({u \in F : p \in ToSet(map[u])}) \in Nat
      BY <3>1, FS_CardinalityType
    <3>. QED
      BY <3>1, <3>2
  <2>3. tref' \in [Tables -> Int]
    BY <1>1, <1>4, <2>1
  <2>. QED
    BY <1>4, <2>2, <2>3
<1>. QED
  BY <1>8, <1>9, <1>10 DEF Counts, TableCount, ProcCount, Link

(***************************************************************************)
(* One step at a time.                                                     *)
(***************************************************************************)
(* What readers see does not change while nothing happens to the tables.   *)
LEMMA ReadingKept ==
  ASSUME TypeOK, Chain, Reading, cur <= cur', UNCHANGED readerVars, cur' \in Nat,
         \A t \in Tables : t <= cur => /\ ToSet(map'[t]) = ToSet(map[t])
                                       /\ \A p \in ToSet(map[t]) : exited'[p] = exited[p]
  PROVE  Reading'
<1>1. ASSUME NEW r \in Readers, tbl[r] # None PROVE Visible(r, tbl[r])' = Visible(r, tbl[r])
  <2>1. tbl[r] \in Tables /\ tbl[r] <= cur /\ tbl' = tbl
    BY <1>1 DEF TypeOK, Reading, readerVars
  <2>. DEFINE t == tbl[r]
              M(x) == {q[1] : q \in {p \in ToSet(map[t]) : ~x[p] \/ r \in Showing}}
  <2>2. ToSet(map'[t]) = ToSet(map[t]) /\ \A p \in ToSet(map[t]) : exited'[p] = exited[p]
    BY <2>1
  <2>3. Visible(r, tbl[r]) = {q[1] : q \in {p \in ToSet(map[t]) : ~exited[p] \/ r \in Showing}}
    BY DEF Visible, Shown
  <2>4. Visible(r, tbl[r])' = {q[1] : q \in {p \in ToSet(map'[t]) : ~exited'[p] \/ r \in Showing}}
    BY <2>1 DEF Visible, Shown
  <2>. HIDE DEF t
  <2>5. {p \in ToSet(map'[t]) : ~exited'[p] \/ r \in Showing} =
          {p \in ToSet(map[t]) : ~exited[p] \/ r \in Showing}
    BY <2>2
  <2>. QED
    BY <2>3, <2>4, <2>5
<1>2. \A r \in Readers : tbl[r] # None => tbl[r] <= cur'
  <2>. SUFFICES ASSUME NEW r \in Readers, tbl[r] # None PROVE tbl[r] <= cur'
    OBVIOUS
  <2>1. tbl[r] \in Tables /\ tbl[r] <= cur
    BY DEF TypeOK, Reading
  <2>2. tbl[r] \in Nat /\ cur \in Nat
    BY <2>1, Basics
  <2>. QED
    BY <2>1, <2>2
<1>3. pc' = pc /\ tbl' = tbl /\ proc' = proc /\ left' = left
  BY DEF readerVars
<1>4. \A r \in Readers : pc[r] = "find" => left[r] \subseteq Visible(r, tbl[r])'
  <2>1. \A r \in Readers : pc[r] = "find" => tbl[r] # None /\ left[r] \subseteq Visible(r, tbl[r])
    BY DEF Reading
  <2>. QED
    BY <1>1, <2>1
<1>5. ASSUME NEW r \in Readers
      PROVE  /\ tbl'[r] = None <=> pc'[r] = "idle"
             /\ tbl'[r] # None => tbl'[r] <= cur'
             /\ \A x \in left'[r] : x > Pid(proc'[r])
             /\ pc'[r] = "find" => left'[r] \subseteq Visible(r, tbl[r])'
             /\ pc'[r] # "find" /\ proc'[r] = None => left'[r] = {}
  BY <1>2, <1>3, <1>4 DEF Reading
<1>. QED
  BY <1>5 DEF Reading, Pid

LEMMA EntryStep ==
  ASSUME IInv, New \in Tables, NEW m \in Seq(Procs), Keyed(m), NEW c, c = Tally(ToSet(m), exited),
         \A q \in ToSet(m) : q[2] <= New, Alloc \/ m = map[New],
         \A a \in ToSet(map[cur]), b \in ToSet(m) : a[1] = b[1] => pers[b] = pers[a],
         \A b \in ToSet(m) : \E t \in Tables : b \in ToSet(map[t]),
         NEW e \in Pids \X BOOLEAN, NEW all, CreateEntry(m, c, e, all),
         UNCHANGED <<cur, sys, readerVars>>, list' \in Seq(Pids \X BOOLEAN), total' \in BOOLEAN,
         whole' \in SUBSET Pids,
         leaked' \in [Tables -> Nat], tref' \in [Tables -> Int],
         NEW k \in {0, 1}, Alloc \/ k = 0,
         \A t \in Tables : leaked'[t] = leaked[t] + IF t \in {New, cur} THEN k ELSE 0,
         \A t \in Tables : tref'[t] = tref[t] + (IF t \in {New, cur} THEN k ELSE 0)
                                              + IF Alloc /\ t = New THEN 1 ELSE 0
  PROVE  /\ TypeOK' /\ Chain' /\ Maps' /\ Counts' /\ Inherited' /\ Reading'
         /\ PidsOf(cur + 1)' = {q[1] : q \in ToSet(m)} \cup {e[1]}
         /\ \A t \in Tables : t <= cur => PidsOf(t)' = PidsOf(t)
<1>0. cur' = cur /\ UNCHANGED readerVars /\ UNCHANGED <<sys, tbl, proc>>
  BY DEF readerVars
<1>1. /\ TypeOK /\ Chain /\ Maps /\ Counts /\ Reading /\ Inherited
  BY DEF IInv
<1>2. /\ cur \in Tables /\ n \in Tables /\ cur \in Nat /\ n \in Nat /\ New = cur + 1
      /\ (Alloc <=> cur = n) /\ (~Alloc => New = n) /\ (Alloc => New = n + 1)
      /\ \A t \in Tables : t \in Nat
  BY <1>1, NewIs, Basics
<1>3. PICK p \in Procs : Entered(m, c, e, p)
  BY EntryDoes
<1>4. n' = New /\ newproc' = [newproc EXCEPT ![cur] = New]
  BY <1>2 DEF CreateEntry
<1>5. /\ Maps' /\ map' \in [Tables -> Seq(Procs)]
      /\ count' \in [Tables -> [c : Nat, cActive : Nat]]
      /\ ToSet(map'[New]) = ToSet(m) \cup (IF Dup(m, e) THEN {} ELSE {p})
      /\ \A t \in Tables \ {New} : map'[t] = map[t]
  BY <1>0, <1>3, <1>4, EntryMaps
<1>6. Counts'
  BY <1>0, <1>3, <1>4, <1>5, EntryCounts
<1>7. Chain'
  <2>1. newproc' = [t \in Tables |-> IF t < n' THEN t + 1 ELSE None]
    <3>1. newproc = [t \in Tables |-> IF t < n THEN t + 1 ELSE None]
      BY <1>1 DEF Chain
    <3>2. \A t \in Tables : newproc'[t] = IF t < n' THEN t + 1 ELSE None
      <4>. SUFFICES ASSUME NEW t \in Tables PROVE newproc'[t] = IF t < n' THEN t + 1 ELSE None
        OBVIOUS
      <4>1. CASE t = cur
        <5>1. newproc'[t] = New /\ t < n' /\ t + 1 = New
          <6>1. newproc'[cur] = New
            BY <1>2, <1>4, <3>1
          <6>. QED
            BY <1>2, <1>4, <4>1, <6>1
        <5>. QED
          BY <5>1
      <4>2. CASE t # cur
        <5>1. n <= cur + 1 /\ cur <= n
          BY <1>1 DEF Chain
        <5>2. t < n' <=> t < n
          BY <1>2, <1>4, <4>2, <5>1
        <5>. QED
          BY <1>4, <3>1, <4>2, <5>2
      <4>. QED
        BY <4>1, <4>2
    <3>. QED
      BY <1>4, <3>1, <3>2
  <2>2. list' # None
    BY ConstantTypes
  <2>3. cur' < n' /\ n' <= cur' + 1 /\ cur' <= n' /\ cur' # n'
    BY <1>0, <1>2, <1>4
  <2>. QED
    BY <2>1, <2>2, <2>3 DEF Chain
<1>8. /\ exited' \in [Procs -> BOOLEAN] /\ pers' \in [Procs -> Procs \cup {None}]
      /\ \A q \in Procs : (\E t \in Tables : q \in ToSet(map[t])) =>
            exited'[q] = exited[q] /\ pers'[q] = pers[q]
      /\ ~Dup(m, e) => \A q \in ToSet(map[cur]) : q[1] = e[1] => pers'[p] = pers[q]
      /\ p[1] = e[1] /\ (Dup(m, e) <=> \E q \in ToSet(m) : q[1] = e[1])
  BY <1>3 DEF Entered, Dup
<1>9. \A t \in Tables : ToSet(map[t]) \subseteq Procs
  BY <1>1, Elements DEF TypeOK
<1>10. ASSUME NEW t \in Tables, t <= cur
       PROVE  /\ map'[t] = map[t]
              /\ \A q \in ToSet(map[t]) : exited'[q] = exited[q] /\ pers'[q] = pers[q]
  <2>1. t # New
    BY <1>2, <1>10
  <2>. QED
    BY <1>5, <1>8, <1>9, <2>1
<1>11. Reading'
  <2>1. cur <= cur' /\ cur' \in Nat
    BY <1>0, <1>2
  <2>2. \A t \in Tables : t <= cur => /\ ToSet(map'[t]) = ToSet(map[t])
                                       /\ \A q \in ToSet(map[t]) : exited'[q] = exited[q]
    BY <1>10
  <2>. QED
    BY <1>0, <1>1, <2>1, <2>2, ReadingKept
<1>12. Inherited'
  <2>. SUFFICES ASSUME NEW a \in ToSet(map'[cur]), NEW b \in ToSet(map'[New]), a[1] = b[1]
                PROVE  pers'[b] = pers'[a]
    BY <1>4 DEF Inherited
  <2>1. a \in ToSet(map[cur]) /\ pers'[a] = pers[a]
    <3>1. cur <= cur
      BY <1>2
    <3>. QED
      BY <1>2, <1>10, <3>1
  <2>2. CASE b \in ToSet(m)
    <3>1. b \in Procs /\ pers[b] = pers[a]
      BY <2>1, <2>2, Elements
    <3>2. pers'[b] = pers[b]
      BY <1>8, <2>2, <3>1
    <3>. QED
      BY <2>1, <3>1, <3>2
  <2>3. CASE b \notin ToSet(m)
    <3>1. b = p /\ ~Dup(m, e)
      BY <1>5, <2>3
    <3>. QED
      BY <1>8, <2>1, <3>1
  <2>. QED
    BY <2>2, <2>3
<1>13. PidsOf(cur + 1)' = {q[1] : q \in ToSet(m)} \cup {e[1]}
  <2>1. PidsOf(cur + 1)' = {q[1] : q \in ToSet(map'[New])}
    BY <1>2 DEF PidsOf
  <2>2. CASE Dup(m, e)
    BY <1>5, <1>8, <2>1, <2>2
  <2>3. CASE ~Dup(m, e)
    BY <1>5, <1>8, <2>1, <2>3
  <2>. QED
    BY <2>2, <2>3
<1>14. ASSUME NEW t \in Tables, t <= cur PROVE PidsOf(t)' = PidsOf(t)
  BY <1>10, <1>14 DEF PidsOf
<1>15. TypeOK'
  <2>1. newproc' \in [Tables -> Tables \cup {None}]
    BY <1>1, <1>4 DEF TypeOK
  <2>2. pref' \in [Procs -> Int]
    <3>1. pref' = [q \in Procs |->
                     pref[q] + Bit(Alloc /\ q \in ToSet(m)) + Bit(~Dup(m, e) /\ q = p)]
      BY <1>3 DEF Entered
    <3>2. \A q \in Procs : pref[q] + Bit(Alloc /\ q \in ToSet(m)) + Bit(~Dup(m, e) /\ q = p) \in Int
      <4>. SUFFICES ASSUME NEW q \in Procs
                    PROVE  pref[q] + Bit(Alloc /\ q \in ToSet(m)) + Bit(~Dup(m, e) /\ q = p) \in Int
        OBVIOUS
      <4>1. pref[q] \in Int
        BY <1>1 DEF TypeOK
      <4>2. Bit(Alloc /\ q \in ToSet(m)) \in {0, 1} /\ Bit(~Dup(m, e) /\ q = p) \in {0, 1}
        BY DEF Bit
      <4>. QED
        BY <4>1, <4>2
    <3>. QED
      BY <3>1, <3>2
  <2>. QED
    BY <1>1, <1>2, <1>4, <1>5, <1>8, <2>1, <2>2 DEF TypeOK, readerVars
<1>. QED
  BY <1>5, <1>6, <1>7, <1>11, <1>12, <1>13, <1>14, <1>15

LEMMA TablesKept ==
  ASSUME Maps, Inherited, UNCHANGED <<tableVars, cur>>
  PROVE  Maps' /\ Inherited' /\ \A t : PidsOf(t)' = PidsOf(t)
<1>1. /\ n' = n /\ map' = map /\ newproc' = newproc /\ count' = count /\ exited' = exited
      /\ pers' = pers /\ cur' = cur
  BY DEF tableVars
<1>2. Maps' /\ Inherited'
  BY <1>1 DEF Maps, Inherited
<1>3. \A t : PidsOf(t)' = PidsOf(t)
  BY <1>1 DEF PidsOf
<1>. QED
  BY <1>2, <1>3

LEMMA ListKept ==
  ASSUME Chain, Whole, UNCHANGED <<tableVars, cur, list, whole>>
  PROVE  Chain' /\ Whole'
<1>1. n' = n /\ map' = map /\ newproc' = newproc /\ cur' = cur /\ list' = list /\ whole' = whole
  BY DEF tableVars
<1>. QED
  BY <1>1 DEF Chain, Whole, PidsOf, Coming

LEMMA ReadersStay ==
  ASSUME TypeOK, Chain, Reading, UNCHANGED <<tableVars, cur, readerVars>>
  PROVE  Reading'
<1>1. map' = map /\ exited' = exited /\ cur' = cur /\ UNCHANGED readerVars
  BY DEF tableVars
<1>2. cur <= cur' /\ cur' \in Nat
  BY <1>1, Basics
<1>3. \A t \in Tables : t <= cur => /\ ToSet(map'[t]) = ToSet(map[t])
                                    /\ \A p \in ToSet(map[t]) : exited'[p] = exited[p]
  BY <1>1
<1>. QED
  BY <1>1, <1>2, <1>3, ReadingKept

(* The tables are not yet begun.                                           *)
LEMMA NewEmpty ==
  ASSUME TypeOK, Chain, Maps, cur = n, n < MaxTable
  PROVE  /\ cur + 1 \in Tables /\ map[cur + 1] = <<>> /\ PidsOf(cur + 1) = {}
<1>1. cur + 1 \in Tables /\ cur + 1 > n
  BY Basics, ConstantTypes
<1>2. map[cur + 1] = <<>>
  BY <1>1 DEF Maps
<1>3. ToSet(<<>>) = {}
  BY DEF ToSet
<1>. QED
  BY <1>1, <1>2, <1>3 DEF PidsOf

LEMMA OneElement ==
  ASSUME NEW x
  PROVE  <<x>> # <<>> /\ ToSet(<<x>>) = {x}
<1>. DEFINE m == <<x>>
<1>1. m \in Seq({x}) /\ Len(m) = 1 /\ m[1] = x
  OBVIOUS
<1>. HIDE DEF m
<1>2. ToSet(m) = {m[k] : k \in 1..1}
  BY <1>1, Elements
<1>3. m # <<>>
  <2>1. Len(<<>>) = 0
    OBVIOUS
  <2>. QED
    BY <1>1, <2>1
<1>. QED
  BY <1>1, <1>2, <1>3 DEF m

LEMMA BootStep ==
  ASSUME IInv, Boot
  PROVE  IInv'
<1>1. TypeOK /\ Chain /\ Maps /\ Whole /\ Counts /\ Inherited /\ Reading
  BY DEF IInv
<1>. DEFINE one == <<System, FALSE>>
<1>2. /\ list = None /\ list' = <<one>> /\ total' = TRUE /\ whole' = {System} /\ cur = n
      /\ UNCHANGED <<tableVars, cur, tref, pref, leaked, sys, readerVars>>
  BY <1>1 DEF Boot, Free, Chain
<1>3. cur = 0 /\ cur \in Tables /\ cur \in Nat
  <2>1. cur \in Nat /\ map[cur] \in Seq(Procs) /\ cur \in Tables
    BY <1>1, Basics
  <2>2. \A p \in ToSet(map[cur]) : p[1] # System
    BY <2>1, ByKeyIs DEF Boot, Someone
  <2>3. ~(cur > 0)
    BY <1>1, <2>2 DEF Whole, PidsOf
  <2>. QED
    BY <2>1, <2>3
<1>4. /\ n < MaxTable /\ <<one>> \in Seq(Pids \X BOOLEAN) /\ <<one>> # None /\ <<one>> # <<>>
      /\ ToSet(<<one>>) = {one} /\ System \in Pids
  <2>1. System \in Pids /\ MaxTable \in Nat \ {0}
    BY ConstantTypes
  <2>2. one \in Pids \X BOOLEAN
    BY <2>1
  <2>3. <<one>> \in Seq(Pids \X BOOLEAN)
    BY <2>2
  <2>4. <<one>> # None
    BY <2>3, ConstantTypes
  <2>5. <<one>> # <<>> /\ ToSet(<<one>>) = {one}
    BY OneElement
  <2>6. n < MaxTable
    BY <1>2, <1>3, <2>1
  <2>. HIDE DEF one
  <2>. QED
    BY <2>1, <2>3, <2>4, <2>5, <2>6
<1>. HIDE DEF one
<1>5. TypeOK'
  BY <1>1, <1>2, <1>4 DEF TypeOK, tableVars, readerVars
<1>6. Chain'
  <2>1. newproc' = newproc /\ n' = n /\ cur' = cur /\ cur <= n /\ n <= cur + 1
        /\ newproc = [t \in Tables |-> IF t < n THEN t + 1 ELSE None]
    BY <1>1, <1>2 DEF Chain, tableVars
  <2>2. list' # None /\ list' # <<>> /\ n' < MaxTable
    BY <1>2, <1>4, <2>1
  <2>. QED
    BY <2>1, <2>2 DEF Chain
<1>7. Maps' /\ Inherited' /\ Reading' /\ \A t : PidsOf(t)' = PidsOf(t)
  BY <1>1, <1>2, TablesKept, ReadersStay
<1>8. Whole'
  <2>1. PidsOf(cur + 1) = {} /\ cur' = cur
    BY <1>1, <1>2, <1>4, NewEmpty
  <2>2. Coming' = {System}
    <3>1. Coming' = {e[1] : e \in {one}}
      BY <1>2, <1>4 DEF Coming
    <3>. QED
      BY <3>1 DEF one
  <2>3. PidsOf(cur + 1)' = {}
    BY <1>7, <2>1
  <2>. QED
    BY <1>2, <1>3, <1>4, <2>1, <2>2, <2>3 DEF Whole
<1>9. Counts'
  BY <1>1, <1>2 DEF Counts, Holders, Alive, Users, Link, tableVars, readerVars
<1>. QED
  BY <1>5, <1>6, <1>7, <1>8, <1>9 DEF IInv

LEMMA RefreshStep ==
  ASSUME IInv, RefreshProcesses
  PROVE  IInv'
<1>1. TypeOK /\ Chain /\ Maps /\ Whole /\ Counts /\ Inherited /\ Reading
  BY DEF IInv
<1>2. /\ list = None /\ sys = None /\ list' \in Lists /\ total' \in BOOLEAN
      /\ whole' = {e[1] : e \in ToSet(list')} /\ cur = n /\ n < MaxTable
      /\ sys' = ByKey(map[cur], System) /\ pref' = AddRef(pref, sys', 1) /\ sys' # None
      /\ UNCHANGED <<tableVars, cur, tref, leaked, readerVars>>
  BY <1>1 DEF RefreshProcesses, Free, Chain, Someone
<1>3. /\ list' \in Seq(Pids \X BOOLEAN) /\ list' # <<>> /\ list' # None
      /\ list'[1] = <<System, FALSE>>
  BY <1>2, ConstantTypes
<1>4. whole' \in SUBSET Pids /\ System \in whole'
  <2>1. ToSet(list') = {list'[k] : k \in 1..Len(list')} /\ ToSet(list') \subseteq Pids \X BOOLEAN
    BY <1>3, Elements
  <2>2. 1 \in 1..Len(list')
    BY <1>3
  <2>3. <<System, FALSE>> \in ToSet(list')
    BY <1>3, <2>1, <2>2
  <2>4. \A e \in ToSet(list') : e[1] \in Pids
    BY <2>1
  <2>5. <<System, FALSE>>[1] = System
    OBVIOUS
  <2>6. whole' = {e[1] : e \in ToSet(list')}
    BY <1>2
  <2>. QED
    BY <2>3, <2>4, <2>5, <2>6
<1>5. sys' \in Procs
  <2>1. map[cur] \in Seq(Procs)
    BY <1>1, Basics
  <2>2. sys' \in ToSet(map[cur])
    BY <1>2, <2>1, ByKeyIs
  <2>. QED
    BY <2>1, <2>2, Elements
<1>6. Counts' /\ pref' \in [Procs -> Int]
  <2>1. \A p \in Procs : Bit(sys' = p) = Bit(sys = p) + IF sys' = p THEN 1 ELSE 0
    <3>1. \A p \in Procs : p # None
      BY ConstantTypes
    <3>. QED
      BY <1>2, <3>1 DEF Bit
  <2>2. UNCHANGED <<tableVars, cur, tref, leaked, tbl, proc>> /\ sys' \in Procs \cup {None}
    BY <1>2, <1>5 DEF readerVars
  <2>3. 1 \in {-1, 1}
    OBVIOUS
  <2>. QED
    BY <1>2, <1>5, <2>1, <2>2, <2>3, SystemCounts
<1>7. TypeOK'
  BY <1>1, <1>2, <1>3, <1>4, <1>5, <1>6 DEF TypeOK, tableVars, readerVars
<1>8. Chain'
  BY <1>1, <1>2, <1>3 DEF Chain, tableVars
<1>9. Maps' /\ Inherited' /\ Reading' /\ \A t : PidsOf(t)' = PidsOf(t)
  BY <1>1, <1>2, TablesKept, ReadersStay
<1>10. Whole'
  <2>1. PidsOf(cur + 1) = {} /\ cur' = cur
    BY <1>1, <1>2, NewEmpty
  <2>2. Coming' = whole'
    BY <1>2, <1>3 DEF Coming
  <2>. QED
    BY <1>1, <1>3, <1>4, <1>9, <2>1, <2>2 DEF Whole
<1>. QED
  BY <1>6, <1>7, <1>8, <1>9, <1>10 DEF IInv

LEMMA DropSystemStep ==
  ASSUME IInv, DropSystem
  PROVE  IInv'
<1>1. TypeOK /\ Chain /\ Maps /\ Whole /\ Counts /\ Inherited /\ Reading
  BY DEF IInv
<1>2. /\ sys # None /\ sys' = None /\ pref' = AddRef(pref, sys, -1)
      /\ UNCHANGED <<tableVars, cur, tref, leaked, list, total, whole, readerVars>>
  BY DEF DropSystem
<1>3. sys \in Procs /\ \A p \in Procs : p # None
  BY <1>1, <1>2, ConstantTypes DEF TypeOK
<1>4. Counts' /\ pref' \in [Procs -> Int]
  <2>1. \A p \in Procs : Bit(sys' = p) = Bit(sys = p) + IF sys = p THEN -1 ELSE 0
    BY <1>2, <1>3 DEF Bit
  <2>2. UNCHANGED <<tableVars, cur, tref, leaked, tbl, proc>> /\ sys' \in Procs \cup {None}
    BY <1>2 DEF readerVars
  <2>3. -1 \in {-1, 1}
    OBVIOUS
  <2>. QED
    BY <1>2, <1>3, <2>1, <2>2, <2>3, SystemCounts
<1>5. TypeOK'
  BY <1>1, <1>2, <1>4 DEF TypeOK, tableVars, readerVars
<1>6. Maps' /\ Inherited' /\ Reading' /\ Chain' /\ Whole'
  BY <1>1, <1>2, TablesKept, ReadersStay, ListKept
<1>. QED
  BY <1>4, <1>5, <1>6 DEF IInv

LEMMA FinishStep ==
  ASSUME IInv, CreateFinish
  PROVE  IInv'
<1>1. TypeOK /\ Chain /\ Maps /\ Whole /\ Counts /\ Inherited /\ Reading
  BY DEF IInv
<1>2. /\ n = cur + 1 /\ newproc[cur] = n /\ cur' = n /\ n' = n /\ n \in Tables /\ cur \in Tables
      /\ n # cur /\ cur \in Nat /\ n \in Nat
      /\ map' \in [Tables -> Seq(Procs)] /\ \A t \in Tables : ToSet(map'[t]) = ToSet(map[t])
      /\ \A t \in Tables \ {n} : map'[t] = map[t]
      /\ Sorted(map'[n]) /\ Keyed(map'[n])
  BY FinishDoes
<1>3. /\ list = <<>> /\ list' = None
      /\ UNCHANGED <<n, newproc, count, exited, pers, leaked, total, sys, whole, readerVars>>
  BY DEF CreateFinish
<1>4. Counts' /\ tref' \in [Tables -> Int] /\ pref' \in [Procs -> Int]
  BY FinishCounts
<1>5. TypeOK'
  BY <1>1, <1>2, <1>3, <1>4 DEF TypeOK, readerVars
<1>6. Chain'
  BY <1>1, <1>2, <1>3 DEF Chain
<1>7. Maps'
  <2>. SUFFICES ASSUME NEW t \in Tables
                PROVE  /\ Keyed(map'[t]) /\ count'[t] = Tally(ToSet(map'[t]), exited')
                       /\ \A p \in ToSet(map'[t]) : p[2] <= t
                       /\ t <= cur' => Sorted(map'[t])
                       /\ t > n' => map'[t] = <<>>
    BY DEF Maps
  <2>1. /\ Keyed(map[t]) /\ count[t] = Tally(ToSet(map[t]), exited)
        /\ \A p \in ToSet(map[t]) : p[2] <= t
        /\ t <= cur => Sorted(map[t])
        /\ t > n => map[t] = <<>>
    BY <1>1 DEF Maps
  <2>2. count' = count /\ exited' = exited /\ ToSet(map'[t]) = ToSet(map[t]) /\ t \in Nat
    BY <1>1, <1>2, <1>3, Basics
  <2>3. CASE t = n
    BY <1>2, <2>1, <2>2, <2>3
  <2>4. CASE t # n
    <3>1. map'[t] = map[t] /\ (t <= n => t <= cur)
      BY <1>2, <2>2, <2>4
    <3>. QED
      BY <1>2, <2>1, <2>2, <3>1
  <2>. QED
    BY <2>3, <2>4
<1>8. \A t \in Tables : PidsOf(t)' = PidsOf(t)
  BY <1>2 DEF PidsOf
<1>9. Whole'
  <2>1. Coming = {}
    <3>1. ToSet(<<>>) = {}
      BY DEF ToSet
    <3>2. <<>> # None
      <4>1. <<>> \in Seq(Pids \X BOOLEAN)
        OBVIOUS
      <4>. QED
        BY <4>1, ConstantTypes
    <3>. QED
      BY <1>3, <3>1, <3>2 DEF Coming
  <2>2. list # None
    <3>1. <<>> \in Seq(Pids \X BOOLEAN)
      OBVIOUS
    <3>. QED
      BY <1>3, <3>1, ConstantTypes
  <2>3. whole = PidsOf(n) /\ System \in whole
    BY <1>1, <1>2, <2>1, <2>2 DEF Whole
  <2>4. PidsOf(n)' = PidsOf(n)
    BY <1>2, <1>8
  <2>5. (PidsOf(cur))' = PidsOf(n)' /\ whole' = whole
    BY <1>2, <1>3 DEF PidsOf
  <2>. QED
    BY <1>3, <2>3, <2>4, <2>5 DEF Whole
<1>10. Inherited'
  BY <1>2 DEF Inherited
<1>11. Reading'
  <2>1. cur <= cur' /\ cur' \in Nat /\ UNCHANGED readerVars
    BY <1>2, <1>3
  <2>2. \A t \in Tables : t <= cur => /\ ToSet(map'[t]) = ToSet(map[t])
                                      /\ \A p \in ToSet(map[t]) : exited'[p] = exited[p]
    BY <1>2, <1>3
  <2>. QED
    BY <1>1, <2>1, <2>2, ReadingKept
<1>. QED
  BY <1>4, <1>5, <1>6, <1>7, <1>9, <1>10, <1>11 DEF IInv

LEMMA EnumStep ==
  ASSUME IInv, Enum_Post
  PROVE  IInv'
<1>. DEFINE m == map[New]
            e == Head(list)
<1>1. TypeOK /\ Chain /\ Maps /\ Whole /\ Counts /\ Inherited /\ Reading
  BY DEF IInv
<1>2. /\ list \notin {None, <<>>} /\ list' = Tail(list) /\ CreateEntry(m, count[New], e, total)
      /\ tref' = IF Alloc THEN [tref EXCEPT ![New] = 1] ELSE tref
      /\ UNCHANGED <<cur, leaked, total, sys, whole, readerVars>>
  BY DEF Enum_Post
<1>3. /\ New \in Tables /\ New = cur + 1 /\ cur \in Nat /\ n \in Nat /\ cur \in Tables
      /\ (Alloc <=> cur = n) /\ (~Alloc => New = n) /\ (Alloc => New = n + 1)
  <2>1. cur \in Tables
    BY <1>1, Basics
  <2>. QED
    BY <1>1, <1>2, <2>1, NewIs
<1>4. /\ list \in Seq(Pids \X BOOLEAN) /\ list' \in Seq(Pids \X BOOLEAN) /\ list' # None
      /\ e \in Pids \X BOOLEAN /\ ToSet(list) = {e} \cup ToSet(list')
  <2>1. list \in Seq(Pids \X BOOLEAN) /\ list # <<>>
    BY <1>1, <1>2 DEF TypeOK
  <2>2. /\ list' \in Seq(Pids \X BOOLEAN) /\ e \in Pids \X BOOLEAN /\ Len(list') = Len(list) - 1
        /\ Len(list) \in Nat /\ Len(list) > 0 /\ e = list[1]
        /\ \A k \in 1..Len(list') : list'[k] = list[k + 1]
    BY <1>2, <2>1
  <2>3. list' # None
    BY <2>2, ConstantTypes
  <2>. HIDE DEF e
  <2>4. /\ ToSet(list) = {list[k] : k \in 1..Len(list)}
        /\ ToSet(list') = {list'[k] : k \in 1..Len(list')}
    BY <2>1, <2>2, Elements
  <2>5. \A x \in ToSet(list) : x = e \/ x \in ToSet(list')
    <3>. SUFFICES ASSUME NEW k \in 1..Len(list), k # 1 PROVE list[k] \in ToSet(list')
      BY <2>2, <2>4
    <3>1. k - 1 \in 1..Len(list') /\ k - 1 + 1 = k
      BY <2>2
    <3>2. list'[k - 1] = list[k]
      BY <2>2, <3>1
    <3>. QED
      BY <2>4, <3>1, <3>2
  <2>6. ToSet(list') \subseteq ToSet(list)
    <3>. SUFFICES ASSUME NEW k \in 1..Len(list') PROVE list'[k] \in ToSet(list)
      BY <2>4
    <3>1. k + 1 \in 1..Len(list)
      BY <2>2
    <3>. QED
      BY <2>2, <2>4, <3>1
  <2>7. e \in ToSet(list)
    <3>1. 1 \in 1..Len(list)
      BY <2>2
    <3>. QED
      BY <2>2, <2>4, <3>1
  <2>. QED
    BY <2>1, <2>2, <2>3, <2>5, <2>6, <2>7
<1>5. /\ m \in Seq(Procs) /\ Keyed(m) /\ count[New] = Tally(ToSet(m), exited)
      /\ \A q \in ToSet(m) : q[2] <= New
      /\ \A b \in ToSet(m) : \E t \in Tables : b \in ToSet(map[t])
  BY <1>1, <1>3 DEF TypeOK, Maps
<1>6. \A a \in ToSet(map[cur]), b \in ToSet(m) : a[1] = b[1] => pers[b] = pers[a]
  <2>1. CASE Alloc
    <3>1. New > n
      BY <1>3, <2>1
    <3>2. m = <<>>
      BY <1>1, <1>3, <3>1 DEF Maps
    <3>3. ToSet(<<>>) = {}
      BY DEF ToSet
    <3>. QED
      BY <3>2, <3>3
  <2>2. CASE ~Alloc
    <3>1. cur < n /\ New = n
      BY <1>3, <2>2
    <3>. QED
      BY <1>1, <3>1 DEF Inherited
  <2>. QED
    BY <2>1, <2>2
<1>7. /\ \A t \in Tables : leaked'[t] = leaked[t] + IF t \in {New, cur} THEN 0 ELSE 0
      /\ \A t \in Tables : tref'[t] = tref[t] + (IF t \in {New, cur} THEN 0 ELSE 0)
                                              + IF Alloc /\ t = New THEN 1 ELSE 0
      /\ leaked' \in [Tables -> Nat] /\ tref' \in [Tables -> Int]
  <2>1. leaked' = leaked /\ leaked \in [Tables -> Nat] /\ tref \in [Tables -> Int]
    BY <1>1, <1>2 DEF TypeOK
  <2>2. Alloc => tref[New] = 0
    <3>1. Alloc => New > n
      BY <1>3
    <3>. QED
      BY <1>1, <1>3, <3>1, TableCounts
  <2>3. CASE Alloc
    BY <1>2, <1>3, <2>1, <2>2, <2>3
  <2>4. CASE ~Alloc
    BY <1>2, <2>1, <2>4
  <2>. QED
    BY <2>3, <2>4
<1>. HIDE DEF e
<1>8. /\ TypeOK' /\ Chain' /\ Maps' /\ Counts' /\ Inherited' /\ Reading'
      /\ PidsOf(cur + 1)' = {q[1] : q \in ToSet(m)} \cup {e[1]}
      /\ \A t \in Tables : t <= cur => PidsOf(t)' = PidsOf(t)
  <2>1. UNCHANGED <<cur, sys, readerVars>> /\ total' \in BOOLEAN /\ total \in BOOLEAN
    BY <1>1, <1>2 DEF TypeOK
  <2>2. whole' \in SUBSET Pids
    BY <1>1, <1>2 DEF TypeOK
  <2>4. Alloc \/ m = map[New]
    OBVIOUS
  <2>. DEFINE c == count[New]
  <2>5. CreateEntry(m, c, e, total) /\ c = Tally(ToSet(m), exited)
    BY <1>2, <1>5
  <2>. DEFINE k == 0
  <2>6. /\ \A t \in Tables : leaked'[t] = leaked[t] + IF t \in {New, cur} THEN k ELSE 0
        /\ \A t \in Tables : tref'[t] = tref[t] + (IF t \in {New, cur} THEN k ELSE 0)
                                                + IF Alloc /\ t = New THEN 1 ELSE 0
        /\ k \in {0, 1} /\ (Alloc \/ k = 0)
        /\ leaked' \in [Tables -> Nat] /\ tref' \in [Tables -> Int]
    BY <1>7
  <2>. HIDE DEF m, c, k
  <2>. QED
    BY <1>3, <1>4, <1>5, <1>6, <2>1, <2>2, <2>4, <2>5, <2>6, EntryStep
<1>9. Whole'
  <2>1. whole = PidsOf(cur + 1) \cup Coming /\ System \in whole
    BY <1>1, <1>2 DEF Whole
  <2>2. Coming = {e[1]} \cup Coming'
    BY <1>2, <1>4 DEF Coming
  <2>3. PidsOf(cur + 1) = {q[1] : q \in ToSet(m)}
    BY <1>3 DEF PidsOf
  <2>4. cur' = cur /\ whole' = whole
    BY <1>2
  <2>5. PidsOf(cur)' = PidsOf(cur)
    <3>1. cur <= cur
      BY <1>3
    <3>. QED
      BY <1>2, <1>3, <1>8, <3>1
  <2>6. cur' > 0 => System \in PidsOf(cur)'
    BY <1>1, <2>4, <2>5 DEF Whole
  <2>7. whole' = PidsOf(cur + 1)' \cup Coming' /\ System \in whole'
    BY <1>8, <2>1, <2>2, <2>3, <2>4
  <2>. QED
    BY <1>4, <2>4, <2>6, <2>7 DEF Whole
<1>. QED
  BY <1>8, <1>9 DEF IInv

LEMMA FakeStep ==
  ASSUME IInv, CreateTerminatedFakeEntry
  PROVE  IInv'
<1>. DEFINE m == map[cur]
            c == count[cur]
<1>1. TypeOK /\ Chain /\ Maps /\ Whole /\ Counts /\ Inherited /\ Reading
  BY DEF IInv
<1>2. PICK pid \in FakePids : /\ CreateEntry(m, c, <<pid, TRUE>>, FALSE)
                              /\ whole' = PidsOf(cur) \cup {pid}
  BY DEF CreateTerminatedFakeEntry, Copied
<1>. DEFINE e == <<pid, TRUE>>
<1>3. /\ list = None /\ Someone /\ n < MaxTable /\ list' = <<>>
      /\ tref' = [tref EXCEPT ![New] = 2, ![cur] = @ + 1]
      /\ leaked' = [leaked EXCEPT ![New] = @ + 1, ![cur] = @ + 1]
      /\ UNCHANGED <<cur, total, sys, readerVars>> /\ cur = n
  BY <1>1 DEF CreateTerminatedFakeEntry, Free, Chain
<1>4. /\ cur \in Nat /\ n \in Nat /\ cur \in Tables /\ New = cur + 1 /\ New \in Tables /\ Alloc
      /\ New > n /\ New # cur
  <2>1. cur \in Nat /\ n \in Nat /\ cur \in Tables /\ New = cur + 1 /\ Alloc
    BY <1>1, <1>3, NewIs, Basics
  <2>2. New <= MaxTable
    BY <1>1, <1>3, <2>1, Basics
  <2>. QED
    BY <1>1, <1>3, <2>1, <2>2, NewIs
<1>5. /\ m \in Seq(Procs) /\ Keyed(m) /\ c = Tally(ToSet(m), exited)
      /\ \A q \in ToSet(m) : q[2] <= New
      /\ \A b \in ToSet(m) : \E t \in Tables : b \in ToSet(map[t])
      /\ ToSet(m) \subseteq Procs
  <2>1. /\ m \in Seq(Procs) /\ Keyed(m) /\ c = Tally(ToSet(m), exited)
        /\ \A q \in ToSet(m) : q[2] <= cur
    BY <1>1, <1>4 DEF TypeOK, Maps
  <2>2. ToSet(m) \subseteq Procs
    BY <2>1, Elements
  <2>3. \A q \in ToSet(m) : q[2] <= New
    <3>. SUFFICES ASSUME NEW q \in ToSet(m) PROVE q[2] <= New
      OBVIOUS
    <3>1. q[2] \in Nat /\ q[2] <= cur
      BY <2>1, <2>2, ProcIs
    <3>. QED
      BY <1>4, <3>1
  <2>. QED
    BY <1>4, <2>1, <2>2, <2>3
<1>6. \A a \in ToSet(m), b \in ToSet(m) : a[1] = b[1] => pers[b] = pers[a]
  <2>. SUFFICES ASSUME NEW a \in ToSet(m), NEW b \in ToSet(m), a[1] = b[1] PROVE a = b
    OBVIOUS
  <2>1. ByKey(m, a[1]) = a /\ ByKey(m, a[1]) = b
    BY <1>5, ByKeyIs
  <2>. QED
    BY <2>1
<1>7. /\ \A t \in Tables : leaked'[t] = leaked[t] + IF t \in {New, cur} THEN 1 ELSE 0
      /\ \A t \in Tables : tref'[t] = tref[t] + (IF t \in {New, cur} THEN 1 ELSE 0)
                                              + IF Alloc /\ t = New THEN 1 ELSE 0
      /\ leaked' \in [Tables -> Nat] /\ tref' \in [Tables -> Int]
  <2>1. leaked \in [Tables -> Nat] /\ tref \in [Tables -> Int]
    BY <1>1 DEF TypeOK
  <2>2. tref[New] = 0
    BY <1>1, <1>4, TableCounts
  <2>3. /\ leaked' \in [Tables -> Nat]
        /\ \A t \in Tables : leaked'[t] = leaked[t] + IF t \in {New, cur} THEN 1 ELSE 0
    BY <1>3, <1>4, <2>1
  <2>4. tref' \in [Tables -> Int]
    BY <1>3, <1>4, <2>1
  <2>5. ASSUME NEW t \in Tables
        PROVE  tref'[t] = tref[t] + (IF t \in {New, cur} THEN 1 ELSE 0)
                                  + IF Alloc /\ t = New THEN 1 ELSE 0
    <3>1. tref[t] \in Int
      BY <2>1
    <3>2. CASE t = New
      BY <1>3, <1>4, <2>1, <2>2, <3>2
    <3>3. CASE t = cur
      BY <1>3, <1>4, <2>1, <3>1, <3>3
    <3>4. CASE t \notin {New, cur}
      BY <1>3, <1>4, <2>1, <3>1, <3>4
    <3>. QED
      BY <3>2, <3>3, <3>4
  <2>. QED
    BY <2>3, <2>4, <2>5
<1>8. e \in Pids \X BOOLEAN /\ e[1] = pid /\ pid \in Pids
  BY ConstantTypes
<1>9. list' \in Seq(Pids \X BOOLEAN) /\ list' # None /\ ToSet(list') = {}
  <2>1. <<>> \in Seq(Pids \X BOOLEAN) /\ ToSet(<<>>) = {}
    BY DEF ToSet
  <2>2. <<>> # None
    BY <2>1, ConstantTypes
  <2>. QED
    BY <1>3, <2>1, <2>2
<1>10. PidsOf(cur) \subseteq Pids /\ System \in PidsOf(cur)
  <2>1. \A p \in ToSet(m) : p[1] \in Pids
    BY <1>5, ProcIs
  <2>2. ByKey(m, System) \in ToSet(m) /\ ByKey(m, System)[1] = System
    BY <1>3, <1>5, ByKeyIs DEF Someone
  <2>. QED
    BY <2>1, <2>2 DEF PidsOf
<1>11. whole' \in SUBSET Pids
  BY <1>2, <1>8, <1>10
<1>12. /\ TypeOK' /\ Chain' /\ Maps' /\ Counts' /\ Inherited' /\ Reading'
       /\ PidsOf(cur + 1)' = {q[1] : q \in ToSet(m)} \cup {e[1]}
       /\ \A t \in Tables : t <= cur => PidsOf(t)' = PidsOf(t)
  <2>1. UNCHANGED <<cur, sys, readerVars>> /\ total' \in BOOLEAN /\ FALSE \in BOOLEAN
    BY <1>1, <1>3 DEF TypeOK
  <2>2. 1 \in {0, 1}
    OBVIOUS
  <2>3. Alloc \/ m = map[New]
    BY <1>4
  <2>4. CreateEntry(m, c, e, FALSE)
    BY <1>2
  <2>5. \A a \in ToSet(map[cur]), b \in ToSet(m) : a[1] = b[1] => pers[b] = pers[a]
    BY <1>6
  <2>. HIDE DEF m, c, e
  <2>. QED
    BY <1>4, <1>5, <1>7, <1>8, <1>9, <1>11, <2>1, <2>2, <2>3, <2>4, <2>5, EntryStep
<1>13. Whole'
  <2>1. PidsOf(cur) = {q[1] : q \in ToSet(m)}
    BY DEF PidsOf
  <2>2. Coming' = {}
    BY <1>9 DEF Coming
  <2>3. cur' = cur /\ PidsOf(cur)' = PidsOf(cur)
    <3>1. cur <= cur
      BY <1>4
    <3>. QED
      BY <1>3, <1>4, <1>12, <3>1
  <2>4. whole' = PidsOf(cur + 1)' \cup Coming' /\ System \in whole'
    BY <1>2, <1>8, <1>10, <1>12, <2>1, <2>2
  <2>5. cur' > 0 => System \in PidsOf(cur)'
    BY <1>10, <2>3
  <2>. QED
    BY <1>9, <2>3, <2>4, <2>5 DEF Whole
<1>. QED
  BY <1>12, <1>13 DEF IInv

(***************************************************************************)
(* Readers.                                                                *)
(***************************************************************************)
(* ObMap_GetNextByKeySorted: what follows is what has a larger key.        *)
LEMMA StartIs ==
  ASSUME NEW m \in Seq(Procs), Sorted(m), NEW pid \in Nat
  PROVE  /\ StartAt(m, pid) \in Nat /\ StartAt(m, pid) >= 1
         /\ \A k \in 1..Len(m) : k >= StartAt(m, pid) <=> m[k][1] > pid
<1>1. /\ Len(m) \in Nat
      /\ \A k \in 1..Len(m) : m[k] \in Procs /\ m[k][1] \in Nat /\ m[k][1] > 0 /\ m[k] \in ToSet(m)
  <2>1. Len(m) \in Nat /\ \A k \in 1..Len(m) : m[k] \in Procs /\ m[k] \in ToSet(m)
    BY Elements
  <2>. QED
    BY <2>1, ProcIs
<1>2. \A k, l \in 1..Len(m) : /\ k < l => m[k][1] < m[l][1]
                              /\ k >= l => m[k][1] >= m[l][1]
                              /\ m[k][1] = m[l][1] => k = l
  <2>1. \A k, l \in 1..Len(m) : k < l => m[k][1] < m[l][1]
    BY DEF Sorted
  <2>. QED
    BY <1>1, <2>1
<1>. DEFINE f == Find(m, pid)
            I == {k \in 1..Len(m) : m[k][1] >= pid}
            i == SelectInSeq(m, LAMBDA p : p[1] >= pid)
<1>3. /\ f \in 0..Len(m) /\ (f = 0 <=> \A p \in ToSet(m) : p[1] # pid)
      /\ (f # 0 => m[f][1] = pid)
  BY FindIs
<1>4. i = IF I # {} THEN Min(I) ELSE 0
  BY DEF SelectInSeq
<1>5. I # {} => i \in I /\ \A k \in I : i <= k
  <2>1. I \in SUBSET Nat
    OBVIOUS
  <2>. HIDE DEF I, i
  <2>. QED
    BY <1>4, <2>1, NatMin
<1>6. StartAt(m, pid) =
        IF pid = 0 THEN 1 ELSE IF f # 0 THEN f + 1 ELSE IF i = 0 THEN Len(m) + 1 ELSE i
  BY DEF StartAt
<1>. HIDE DEF f, i
<1>7. CASE pid = 0
  BY <1>1, <1>6, <1>7
<1>8. CASE pid # 0 /\ f # 0
  <2>1. f \in 1..Len(m) /\ StartAt(m, pid) = f + 1 /\ m[f][1] = pid
    BY <1>3, <1>6, <1>8
  <2>2. ASSUME NEW k \in 1..Len(m) PROVE k >= f + 1 <=> m[k][1] > pid
    BY <1>1, <1>2, <2>1
  <2>. QED
    BY <1>1, <2>1, <2>2
<1>9. CASE pid # 0 /\ f = 0 /\ I = {}
  <2>1. StartAt(m, pid) = Len(m) + 1
    BY <1>4, <1>6, <1>9
  <2>2. \A k \in 1..Len(m) : ~(m[k][1] >= pid)
    BY <1>9
  <2>. QED
    BY <1>1, <2>1, <2>2
<1>10. CASE pid # 0 /\ f = 0 /\ I # {}
  <2>1. i \in 1..Len(m) /\ m[i][1] >= pid /\ \A k \in I : i <= k
    BY <1>5, <1>10
  <2>2. StartAt(m, pid) = i
    BY <1>6, <1>10, <2>1
  <2>3. ASSUME NEW k \in 1..Len(m) PROVE k >= i <=> m[k][1] > pid
    <3>1. m[k][1] # pid /\ m[k][1] \in Nat /\ m[i][1] \in Nat
      BY <1>1, <1>3, <1>10, <2>1
    <3>2. ASSUME k >= i PROVE m[k][1] > pid
      BY <1>2, <2>1, <3>1, <3>2
    <3>3. ASSUME m[k][1] > pid PROVE k >= i
      <4>1. k \in I
        BY <3>1, <3>3
      <4>. QED
        BY <2>1, <4>1
    <3>. QED
      BY <3>2, <3>3
  <2>. QED
    BY <2>1, <2>2, <2>3
<1>. QED
  BY <1>7, <1>8, <1>9, <1>10

LEMMA FollowingIs ==
  ASSUME NEW m \in Seq(Procs), Sorted(m), NEW p \in Procs \cup {None}, NEW r
  PROVE  LET f == Following(r, m, p) IN
         /\ f \in Procs \cup {None}
         /\ f # None => /\ f \in ToSet(m) /\ f[1] > Pid(p)
                        /\ \A q \in ToSet(m) : Shown(q, r) /\ q[1] > Pid(p) => q[1] >= f[1]
         /\ f = None => \A q \in ToSet(m) : ~(Shown(q, r) /\ q[1] > Pid(p))
<1>. DEFINE f == Following(r, m, p)
            a == StartAt(m, Pid(p))
            s == {k \in a..Len(m) : Shown(m[k], r)}
<1>1. Pid(p) \in Nat
  BY ProcIs DEF Pid
<1>2. a \in Nat /\ a >= 1 /\ \A k \in 1..Len(m) : k >= a <=> m[k][1] > Pid(p)
  BY <1>1, StartIs
<1>3. /\ Len(m) \in Nat /\ ToSet(m) = {m[k] : k \in 1..Len(m)} /\ ToSet(m) \subseteq Procs
      /\ \A k \in 1..Len(m) : m[k] \in Procs /\ m[k] # None /\ m[k][1] \in Nat
  <2>1. Len(m) \in Nat /\ ToSet(m) = {m[k] : k \in 1..Len(m)} /\ ToSet(m) \subseteq Procs
    BY Elements
  <2>. QED
    BY <2>1, ProcIs
<1>4. f = IF s = {} THEN None ELSE m[Min(s)]
  BY DEF Following
<1>. HIDE DEF a, f
<1>5. s = {k \in 1..Len(m) : m[k][1] > Pid(p) /\ Shown(m[k], r)}
  <2>1. a..Len(m) = {k \in 1..Len(m) : k >= a}
    BY <1>2, <1>3
  <2>. QED
    BY <1>2, <2>1
<1>6. CASE s = {}
  <2>1. f = None
    BY <1>4, <1>6
  <2>2. \A k \in 1..Len(m) : ~(m[k][1] > Pid(p) /\ Shown(m[k], r))
    BY <1>5, <1>6
  <2>3. \A q \in ToSet(m) : ~(Shown(q, r) /\ q[1] > Pid(p))
    BY <1>3, <2>2
  <2>. QED
    BY <2>1, <2>3 DEF f
<1>7. CASE s # {}
  <2>1. Min(s) \in s /\ \A k \in s : Min(s) <= k
    <3>1. s \in SUBSET Nat
      BY <1>5
    <3>. HIDE DEF s
    <3>. QED
      BY <1>7, <3>1, NatMin
  <2>2. PICK k \in 1..Len(m) : k = Min(s) /\ m[k][1] > Pid(p) /\ Shown(m[k], r)
    BY <1>5, <2>1
  <2>3. f = m[k] /\ f \in Procs /\ f # None /\ f \in ToSet(m) /\ f[1] > Pid(p)
    BY <1>3, <1>4, <1>7, <2>2
  <2>4. ASSUME NEW q \in ToSet(m), Shown(q, r), q[1] > Pid(p) PROVE q[1] >= f[1]
    <3>1. PICK l \in 1..Len(m) : q = m[l]
      BY <1>3
    <3>2. l \in s
      BY <1>5, <2>4, <3>1
    <3>3. k <= l
      BY <2>1, <2>2, <3>2
    <3>4. k < l => m[k][1] < m[l][1]
      BY DEF Sorted
    <3>. QED
      BY <1>3, <2>3, <3>1, <3>3, <3>4
  <2>. QED
    BY <2>3, <2>4 DEF f
<1>. QED
  BY <1>6, <1>7

ReaderOK(r) ==
  /\ tbl[r] = None <=> pc[r] = "idle"
  /\ tbl[r] # None => tbl[r] <= cur
  /\ \A x \in left[r] : x > Pid(proc[r])
  /\ pc[r] = "find" => left[r] \subseteq Visible(r, tbl[r])
  /\ pc[r] # "find" /\ proc[r] = None => left[r] = {}

(* A reader is the only one that moves.                                    *)
LEMMA OtherReaders ==
  ASSUME IInv, NEW r \in Readers, UNCHANGED <<tableVars, cur>>,
         \A q \in Readers \ {r} : /\ pc'[q] = pc[q] /\ tbl'[q] = tbl[q]
                                  /\ proc'[q] = proc[q] /\ left'[q] = left[q],
         ReaderOK(r)'
  PROVE  Reading'
<1>1. map' = map /\ exited' = exited /\ cur' = cur
  BY DEF tableVars
<1>2. ASSUME NEW q \in Readers \ {r} PROVE ReaderOK(q)'
  <2>1. ReaderOK(q)
    BY DEF IInv, Reading, ReaderOK
  <2>2. pc'[q] = pc[q] /\ tbl'[q] = tbl[q] /\ proc'[q] = proc[q] /\ left'[q] = left[q]
    OBVIOUS
  <2>3. Visible(q, tbl[q])' = Visible(q, tbl[q])
    BY <1>1, <2>2 DEF Visible, Shown
  <2>. QED
    BY <1>1, <2>1, <2>2, <2>3 DEF ReaderOK, Pid
<1>3. \A q \in Readers : ReaderOK(q)'
  BY <1>2
<1>. QED
  BY <1>3 DEF Reading, ReaderOK

LEMMA VisibleIs ==
  ASSUME IInv, NEW t \in Tables, NEW r
  PROVE  /\ Visible(r, t) \subseteq Pids /\ \A x \in Visible(r, t) : x \in Nat /\ x > 0
         /\ \A x \in Visible(r, t) : \E q \in ToSet(map[t]) : q[1] = x /\ Shown(q, r)
<1>1. ToSet(map[t]) \subseteq Procs
  BY Elements DEF IInv, TypeOK
<1>. QED
  BY <1>1, ProcIs DEF Visible

LEMMA GetTableStep ==
  ASSUME IInv, NEW r \in Readers, GetTable(r)
  PROVE  IInv'
<1>1. TypeOK /\ Chain /\ Maps /\ Whole /\ Counts /\ Inherited /\ Reading /\ ReaderOK(r)
  BY DEF IInv, Reading, ReaderOK
<1>. DEFINE L == IF proc[r] = None THEN Visible(r, cur) ELSE left[r] \cap Visible(r, cur)
<1>2. /\ pc[r] = "idle" /\ pc' = [pc EXCEPT ![r] = "find"]
      /\ tref' = [tref EXCEPT ![cur] = @ + 1] /\ tbl' = [tbl EXCEPT ![r] = cur]
      /\ left' = [left EXCEPT ![r] = L]
      /\ UNCHANGED <<tableVars, cur, pref, leaked, masterVars, whole, proc>>
  BY DEF GetTable, Goto
<1>3. Counts' /\ tref' \in [Tables -> Int] /\ tbl' \in [Readers -> Tables \cup {None}]
  <2>1. tbl[r] = None
    BY <1>1, <1>2 DEF ReaderOK
  <2>2. UNCHANGED <<tableVars, cur, leaked, pref, sys, proc>>
    BY <1>2 DEF masterVars
  <2>. QED
    BY <1>2, <2>1, <2>2, TakeCounts
<1>4. cur \in Tables /\ cur \in Nat /\ cur # None
  BY <1>1, Basics, ConstantTypes
<1>5. /\ L \subseteq Visible(r, cur) /\ Visible(r, cur) \subseteq Pids
      /\ \A x \in L : x > Pid(proc[r])
  <2>1. Visible(r, cur) \subseteq Pids /\ \A x \in Visible(r, cur) : x \in Nat /\ x > 0
    BY <1>4, VisibleIs
  <2>2. \A x \in left[r] : x > Pid(proc[r])
    BY <1>1 DEF ReaderOK
  <2>. QED
    BY <2>1, <2>2 DEF Pid
<1>. HIDE DEF L
<1>6. TypeOK'
  BY <1>1, <1>2, <1>3, <1>5 DEF TypeOK, tableVars, masterVars
<1>7. ReaderOK(r)'
  <2>1. /\ pc'[r] = "find" /\ tbl'[r] = cur /\ left'[r] = L /\ proc' = proc /\ cur' = cur
        /\ map' = map /\ exited' = exited
    BY <1>1, <1>2 DEF TypeOK, tableVars
  <2>2. Visible(r, tbl[r])' = Visible(r, cur)
    BY <2>1 DEF Visible, Shown
  <2>. QED
    BY <1>4, <1>5, <2>1, <2>2 DEF ReaderOK, Pid
<1>8. Reading'
  <2>1. \A q \in Readers \ {r} : /\ pc'[q] = pc[q] /\ tbl'[q] = tbl[q]
                                 /\ proc'[q] = proc[q] /\ left'[q] = left[q]
    BY <1>1, <1>2 DEF TypeOK
  <2>2. UNCHANGED <<tableVars, cur>>
    BY <1>2
  <2>. QED
    BY <1>7, <2>1, <2>2, OtherReaders
<1>9. Maps' /\ Inherited' /\ Chain' /\ Whole'
  <2>1. UNCHANGED <<tableVars, cur>> /\ UNCHANGED <<tableVars, cur, list, whole>>
    BY <1>2 DEF masterVars
  <2>. QED
    BY <1>1, <2>1, TablesKept, ListKept
<1>. QED
  BY <1>3, <1>6, <1>8, <1>9 DEF IInv

(* A reader that holds a table exchanges its process for p, and has but L  *)
(* to return.                                                              *)
LEMMA SwitchStep ==
  ASSUME IInv, NEW r \in Readers, NEW p \in Procs \cup {None}, NEW L \in SUBSET Pids,
         pref' = AddRef(AddRef(pref, proc[r], -1), p, 1), proc' = [proc EXCEPT ![r] = p],
         left' = [left EXCEPT ![r] = L], NEW x \in {"idle", "drop"}, pc' = [pc EXCEPT ![r] = x],
         tbl[r] = None <=> x = "idle",
         UNCHANGED <<tableVars, cur, tref, leaked, masterVars, whole, tbl>>,
         \A y \in L : y > Pid(p), p = None => L = {}
  PROVE  IInv'
<1>1. TypeOK /\ Chain /\ Maps /\ Whole /\ Counts /\ Inherited /\ Reading /\ ReaderOK(r)
  BY DEF IInv, Reading, ReaderOK
<1>2. Counts' /\ pref' \in [Procs -> Int] /\ proc' \in [Readers -> Procs \cup {None}]
  <2>1. UNCHANGED <<tableVars, cur, tref, leaked, tbl, sys>>
    BY DEF masterVars
  <2>. QED
    BY <2>1, SwitchCounts
<1>3. TypeOK'
  <2>1. pc' \in [Readers -> {"idle", "find", "drop"}] /\ left' \in [Readers -> SUBSET Pids]
    BY <1>1 DEF TypeOK
  <2>. QED
    BY <1>1, <1>2, <2>1 DEF TypeOK, tableVars, masterVars
<1>4. ReaderOK(r)'
  <2>1. /\ pc'[r] = x /\ x # "find" /\ tbl' = tbl /\ left'[r] = L /\ proc'[r] = p /\ cur' = cur
    BY <1>1 DEF TypeOK
  <2>2. tbl[r] # None => tbl[r] <= cur
    BY <1>1 DEF ReaderOK
  <2>. QED
    BY <2>1, <2>2 DEF ReaderOK, Pid
<1>5. Reading'
  <2>1. \A q \in Readers \ {r} : /\ pc'[q] = pc[q] /\ tbl'[q] = tbl[q]
                                 /\ proc'[q] = proc[q] /\ left'[q] = left[q]
    BY <1>1 DEF TypeOK
  <2>2. UNCHANGED <<tableVars, cur>>
    OBVIOUS
  <2>. QED
    BY <1>4, <2>1, <2>2, OtherReaders
<1>6. Maps' /\ Inherited' /\ Chain' /\ Whole'
  <2>1. UNCHANGED <<tableVars, cur>> /\ UNCHANGED <<tableVars, cur, list, whole>>
    BY DEF masterVars
  <2>. QED
    BY <1>1, <2>1, TablesKept, ListKept
<1>. QED
  BY <1>2, <1>3, <1>5, <1>6 DEF IInv

(* The table that a reader looks into is sorted: it was made visible.      *)
LEMMA LooksInto ==
  ASSUME IInv, NEW r \in Readers, pc[r] = "find"
  PROVE  /\ tbl[r] \in Tables /\ tbl[r] # None /\ map[tbl[r]] \in Seq(Procs)
         /\ Sorted(map[tbl[r]]) /\ Keyed(map[tbl[r]])
         /\ proc[r] \in Procs \cup {None}
         /\ \A x \in left[r] : x > Pid(proc[r]) /\ x \in Pids
         /\ \A x \in left[r] : \E q \in ToSet(map[tbl[r]]) : q[1] = x /\ Shown(q, r)
<1>1. TypeOK /\ Maps /\ ReaderOK(r)
  BY DEF IInv, Reading, ReaderOK
<1>2. tbl[r] \in Tables /\ tbl[r] # None /\ tbl[r] <= cur
  BY <1>1 DEF TypeOK, ReaderOK
<1>3. map[tbl[r]] \in Seq(Procs) /\ Sorted(map[tbl[r]]) /\ Keyed(map[tbl[r]])
  BY <1>1, <1>2 DEF TypeOK, Maps
<1>4. left[r] \subseteq Visible(r, tbl[r]) /\ \A x \in left[r] : x > Pid(proc[r])
  BY <1>1 DEF ReaderOK
<1>5. /\ Visible(r, tbl[r]) \subseteq Pids
      /\ \A x \in Visible(r, tbl[r]) : \E q \in ToSet(map[tbl[r]]) : q[1] = x /\ Shown(q, r)
  BY <1>2, VisibleIs
<1>6. proc[r] \in Procs \cup {None}
  BY <1>1 DEF TypeOK
<1>. QED
  BY <1>2, <1>3, <1>4, <1>5, <1>6

LEMMA GetNextStep ==
  ASSUME IInv, NEW r \in Readers, GetNext(r)
  PROVE  IInv'
<1>. DEFINE m == map[tbl[r]]
            p == Following(r, m, proc[r])
            L == left[r] \ {Pid(p)}
<1>1. /\ pc[r] = "find" /\ pc' = [pc EXCEPT ![r] = "drop"]
      /\ pref' = AddRef(AddRef(pref, proc[r], -1), p, 1)
      /\ proc' = [proc EXCEPT ![r] = p] /\ left' = [left EXCEPT ![r] = L]
      /\ UNCHANGED <<tableVars, cur, tref, leaked, masterVars, whole, tbl>>
  BY DEF GetNext, Goto
<1>2. /\ tbl[r] # None /\ m \in Seq(Procs) /\ Sorted(m) /\ proc[r] \in Procs \cup {None}
      /\ \A x \in left[r] : x > Pid(proc[r]) /\ x \in Pids
      /\ \A x \in left[r] : \E q \in ToSet(m) : q[1] = x /\ Shown(q, r)
  BY <1>1, LooksInto
<1>. HIDE DEF m
<1>3. /\ p \in Procs \cup {None}
      /\ p # None => /\ p \in ToSet(m) /\ p[1] > Pid(proc[r])
                     /\ \A q \in ToSet(m) : Shown(q, r) /\ q[1] > Pid(proc[r]) => q[1] >= p[1]
      /\ p = None => \A q \in ToSet(m) : ~(Shown(q, r) /\ q[1] > Pid(proc[r]))
  BY <1>2, FollowingIs
<1>. HIDE DEF p
<1>4. p = None => L = {}
  BY <1>2, <1>3
<1>5. \A y \in L : y > Pid(p)
  <2>. SUFFICES ASSUME NEW y \in L PROVE y > Pid(p)
    OBVIOUS
  <2>1. p # None /\ Pid(p) = p[1] /\ p \in Procs /\ y # p[1]
    BY <1>3, <1>4 DEF Pid
  <2>2. y >= p[1]
    BY <1>2, <1>3, <2>1
  <2>3. y \in Nat /\ p[1] \in Nat
    BY <1>2, <2>1, ProcIs, ConstantTypes
  <2>. QED
    BY <2>1, <2>2, <2>3
<1>6. L \in SUBSET Pids
  BY <1>2
<1>. HIDE DEF L
<1>7. tbl[r] = None <=> "drop" = "idle"
  BY <1>2
<1>. QED
  BY <1>1, <1>3, <1>4, <1>5, <1>6, <1>7, SwitchStep

LEMMA GetStep ==
  ASSUME IInv, NEW r \in Readers, Get(r)
  PROVE  IInv'
<1>. DEFINE m == map[tbl[r]]
<1>1. PICK pid \in GetPids :
        /\ pref' = AddRef(pref, ByKey(m, pid), 1) /\ proc' = [proc EXCEPT ![r] = ByKey(m, pid)]
        /\ left' = [left EXCEPT ![r] = IF ByKey(m, pid) = None THEN {} ELSE {x \in @ : x > pid}]
  BY DEF Get
<1>. DEFINE p == ByKey(m, pid)
            L == IF p = None THEN {} ELSE {x \in left[r] : x > pid}
<1>2. /\ pc[r] = "find" /\ pc' = [pc EXCEPT ![r] = "drop"] /\ proc[r] = None
      /\ UNCHANGED <<tableVars, cur, tref, leaked, masterVars, whole, tbl>>
  BY DEF Get, Goto
<1>3. tbl[r] # None /\ m \in Seq(Procs) /\ \A x \in left[r] : x \in Pids
  BY <1>2, LooksInto
<1>4. pref' = AddRef(AddRef(pref, proc[r], -1), p, 1)
  BY <1>1, <1>2 DEF AddRef
<1>5. proc' = [proc EXCEPT ![r] = p] /\ left' = [left EXCEPT ![r] = L]
  BY <1>1
<1>. HIDE DEF m
<1>6. p \in Procs \cup {None} /\ (p # None => p[1] = pid)
  <2>1. p # None => p \in ToSet(m) /\ p[1] = pid
    BY <1>3, ByKeyIs
  <2>2. ToSet(m) \subseteq Procs
    BY <1>3, Elements
  <2>. QED
    BY <2>1, <2>2
<1>. HIDE DEF p
<1>7. L \in SUBSET Pids /\ (p = None => L = {}) /\ \A y \in L : y > Pid(p)
  BY <1>3, <1>6 DEF Pid
<1>. HIDE DEF L
<1>8. tbl[r] = None <=> "drop" = "idle"
  BY <1>3
<1>. QED
  BY <1>2, <1>4, <1>5, <1>6, <1>7, <1>8, SwitchStep

LEMMA ReleaseStep ==
  ASSUME IInv, NEW r \in Readers, Release(r)
  PROVE  IInv'
<1>1. /\ pc[r] = "idle" /\ pref' = AddRef(pref, proc[r], -1)
      /\ proc' = [proc EXCEPT ![r] = None] /\ left' = [left EXCEPT ![r] = {}]
      /\ UNCHANGED <<tableVars, cur, tref, leaked, masterVars, whole, pc, tbl>>
  BY DEF Release
<1>2. TypeOK /\ ReaderOK(r)
  BY DEF IInv, Reading, ReaderOK
<1>3. pc' = [pc EXCEPT ![r] = "idle"]
  BY <1>1, <1>2 DEF TypeOK
<1>. DEFINE p == None
            L == {}
<1>4. /\ pref' = AddRef(AddRef(pref, proc[r], -1), p, 1) /\ proc' = [proc EXCEPT ![r] = p]
      /\ left' = [left EXCEPT ![r] = L] /\ p \in Procs \cup {None} /\ L \in SUBSET Pids
      /\ (\A y \in L : y > Pid(p)) /\ (p = None => L = {})
  BY <1>1 DEF AddRef
<1>5. tbl[r] = None <=> "idle" = "idle"
  BY <1>1, <1>2 DEF ReaderOK
<1>6. UNCHANGED <<tableVars, cur, tref, leaked, masterVars, whole, tbl>>
  BY <1>1
<1>. HIDE DEF p, L
<1>. QED
  BY <1>3, <1>4, <1>5, <1>6, SwitchStep

LEMMA DropStep ==
  ASSUME IInv, NEW r \in Readers, Drop(r)
  PROVE  IInv'
<1>1. TypeOK /\ Chain /\ Maps /\ Whole /\ Counts /\ Inherited /\ Reading /\ ReaderOK(r)
  BY DEF IInv, Reading, ReaderOK
<1>2. /\ pc[r] = "drop" /\ pc' = [pc EXCEPT ![r] = "idle"]
      /\ DropTable(tbl[r]) /\ tbl' = [tbl EXCEPT ![r] = None]
      /\ UNCHANGED <<tableVars, cur, leaked, masterVars, whole, proc, left>>
  BY DEF Drop, Goto
<1>3. Counts' /\ tref' \in [Tables -> Int] /\ pref' \in [Procs -> Int]
  <2>1. tbl[r] # None
    BY <1>1, <1>2 DEF ReaderOK
  <2>2. UNCHANGED <<tableVars, cur, leaked, sys, proc>>
    BY <1>2 DEF masterVars
  <2>. QED
    BY <1>2, <2>1, <2>2, DropCounts
<1>4. TypeOK'
  BY <1>1, <1>2, <1>3 DEF TypeOK, tableVars, masterVars
<1>5. ReaderOK(r)'
  <2>1. pc'[r] = "idle" /\ tbl'[r] = None /\ left' = left /\ proc' = proc
    BY <1>1, <1>2 DEF TypeOK
  <2>. QED
    BY <1>1, <1>2, <2>1 DEF ReaderOK, Pid
<1>6. Reading'
  <2>1. \A q \in Readers \ {r} : /\ pc'[q] = pc[q] /\ tbl'[q] = tbl[q]
                                 /\ proc'[q] = proc[q] /\ left'[q] = left[q]
    BY <1>1, <1>2 DEF TypeOK
  <2>2. UNCHANGED <<tableVars, cur>>
    BY <1>2
  <2>. QED
    BY <1>5, <2>1, <2>2, OtherReaders
<1>7. Maps' /\ Inherited' /\ Chain' /\ Whole'
  <2>1. UNCHANGED <<tableVars, cur>> /\ UNCHANGED <<tableVars, cur, list, whole>>
    BY <1>2 DEF masterVars
  <2>. QED
    BY <1>1, <2>1, TablesKept, ListKept
<1>. QED
  BY <1>3, <1>4, <1>6, <1>7 DEF IInv

(***************************************************************************)
(* The invariant.                                                          *)
(***************************************************************************)
LEMMA InitInv == Init => IInv
<1>. SUFFICES ASSUME Init PROVE IInv
  OBVIOUS
<1>1. /\ Pids \subseteq Nat \ {0} /\ MaxTable \in Nat \ {0} /\ Tables = 0..MaxTable
      /\ Procs = Pids \X Tables /\ None \notin Procs /\ None \notin Tables
  BY ConstantTypes
<1>2. /\ n = 0 /\ cur = 0 /\ map = [t \in Tables |-> <<>>] /\ newproc = [t \in Tables |-> None]
      /\ count = [t \in Tables |-> [c |-> 0, cActive |-> 0]]
      /\ exited = [p \in Procs |-> FALSE] /\ pers = [p \in Procs |-> None]
      /\ tref = [t \in Tables |-> IF t = 0 THEN 1 ELSE 0] /\ pref = [p \in Procs |-> 0]
      /\ leaked = [t \in Tables |-> 0] /\ list = None /\ total = FALSE /\ sys = None /\ whole = {}
      /\ pc = [r \in Readers |-> "idle"] /\ tbl = [r \in Readers |-> None]
      /\ proc = [r \in Readers |-> None] /\ left = [r \in Readers |-> {}]
  BY DEF Init
<1>3. 0 \in Tables /\ <<>> \in Seq(Procs) /\ ToSet(<<>>) = {} /\ Len(<<>>) = 0
  <2>1. 0 \in 0..MaxTable
    BY <1>1
  <2>. QED
    BY <1>1, <2>1 DEF ToSet
<1>4. TypeOK
  BY <1>2, <1>3 DEF TypeOK
<1>5. Chain
  <2>1. \A t \in Tables : ~(t < 0)
    BY <1>1
  <2>2. None # <<>>
    <3>1. <<>> \in Seq(Pids \X BOOLEAN)
      OBVIOUS
    <3>. QED
      BY <3>1, ConstantTypes
  <2>. QED
    BY <1>2, <2>1, <2>2 DEF Chain
<1>6. Maps
  <2>1. Tally({}, exited) = [c |-> 0, cActive |-> 0]
    <3>1. {p \in {} : ~exited[p]} = {}
      OBVIOUS
    <3>. QED
      BY <3>1, FS_EmptySet DEF Tally
  <2>2. Keyed(<<>>) /\ Sorted(<<>>)
    BY <1>3 DEF Keyed, Sorted
  <2>. QED
    BY <1>2, <1>3, <2>1, <2>2 DEF Maps
<1>7. Whole
  BY <1>2, <1>3 DEF Whole, PidsOf
<1>8. Counts
  <2>1. \A t \in Tables : Holders(t) = {} /\ ~(t \in 1..n /\ tref[t - 1] > 0)
    BY <1>1, <1>2 DEF Holders
  <2>2. \A p \in Procs : Users(p) = {} /\ Alive(p) = {} /\ sys # p
    <3>1. 0..n \subseteq Tables
      BY <1>2, <1>3
    <3>. QED
      BY <1>1, <1>2, <1>3, <3>1 DEF Users, Alive
  <2>3. Cardinality({}) = 0
    BY FS_EmptySet
  <2>4. \A t \in Tables :
          tref[t] = Bit(cur = t) + leaked[t] + Bit(t \in 1..n /\ tref[t - 1] > 0)
                    + Cardinality(Holders(t))
    <3>. SUFFICES ASSUME NEW t \in Tables
                  PROVE  tref[t] = Bit(cur = t) + leaked[t] + Bit(t \in 1..n /\ tref[t - 1] > 0)
                                   + Cardinality(Holders(t))
      OBVIOUS
    <3>1. Bit(t \in 1..n /\ tref[t - 1] > 0) = 0 /\ Cardinality(Holders(t)) = 0 /\ leaked[t] = 0
      BY <1>2, <2>1, <2>3 DEF Bit
    <3>2. tref[t] = Bit(cur = t)
      BY <1>2 DEF Bit
    <3>3. Bit(cur = t) \in {0, 1}
      BY DEF Bit
    <3>. QED
      BY <3>1, <3>2, <3>3
  <2>5. \A p \in Procs : pref[p] = Bit(sys = p) + Cardinality(Alive(p)) + Cardinality(Users(p))
    <3>. SUFFICES ASSUME NEW p \in Procs
                  PROVE  pref[p] = Bit(sys = p) + Cardinality(Alive(p)) + Cardinality(Users(p))
      OBVIOUS
    <3>1. pref[p] = 0 /\ Bit(sys = p) = 0
      BY <1>2, <2>2 DEF Bit
    <3>2. Cardinality(Alive(p)) = 0 /\ Cardinality(Users(p)) = 0
      BY <2>2, <2>3
    <3>. QED
      BY <3>1, <3>2
  <2>. QED
    BY <1>2, <2>4, <2>5 DEF Counts
<1>9. Inherited
  BY <1>2 DEF Inherited
<1>10. Reading
  BY <1>2 DEF Reading
<1>. QED
  BY <1>4, <1>5, <1>6, <1>7, <1>8, <1>9, <1>10 DEF IInv

LEMMA StepInv == IInv /\ [Next]_vars => IInv'
<1>. SUFFICES ASSUME IInv, [Next]_vars PROVE IInv'
  OBVIOUS
<1>1. CASE Boot
  BY <1>1, BootStep
<1>2. CASE RefreshProcesses
  BY <1>2, RefreshStep
<1>3. CASE Enum_Post
  BY <1>3, EnumStep
<1>4. CASE CreateTerminatedFakeEntry
  BY <1>4, FakeStep
<1>5. CASE CreateFinish
  BY <1>5, FinishStep
<1>6. CASE DropSystem
  BY <1>6, DropSystemStep
<1>7. ASSUME NEW r \in Readers, GetTable(r) PROVE IInv'
  BY <1>7, GetTableStep
<1>8. ASSUME NEW r \in Readers, GetNext(r) PROVE IInv'
  BY <1>8, GetNextStep
<1>9. ASSUME NEW r \in Readers, Get(r) PROVE IInv'
  BY <1>9, GetStep
<1>10. ASSUME NEW r \in Readers, Drop(r) PROVE IInv'
  BY <1>10, DropStep
<1>11. ASSUME NEW r \in Readers, Release(r) PROVE IInv'
  BY <1>11, ReleaseStep
<1>12. CASE UNCHANGED vars
  <2>1. TypeOK /\ Chain /\ Maps /\ Whole /\ Counts /\ Inherited /\ Reading
    BY DEF IInv
  <2>2. UNCHANGED <<tableVars, cur, tref, pref, leaked, masterVars, whole, readerVars>>
    BY <1>12 DEF vars
  <2>3. TypeOK'
    BY <2>1, <2>2 DEF TypeOK, tableVars, masterVars, readerVars
  <2>4. Counts'
    BY <2>1, <2>2 DEF Counts, Holders, Alive, Users, tableVars, masterVars, readerVars
  <2>5. Maps' /\ Inherited' /\ Reading' /\ Chain' /\ Whole'
    <3>1. UNCHANGED <<tableVars, cur>> /\ UNCHANGED <<tableVars, cur, list, whole>>
          /\ UNCHANGED <<tableVars, cur, readerVars>>
      BY <2>2 DEF masterVars
    <3>. QED
      BY <2>1, <3>1, TablesKept, ListKept, ReadersStay
  <2>. QED
    BY <2>3, <2>4, <2>5 DEF IInv
<1>. QED
  BY <1>1, <1>2, <1>3, <1>4, <1>5, <1>6, <1>7, <1>8, <1>9, <1>10, <1>11, <1>12 DEF Next

(* The tables form a chain whose last one is visible or being filled, a    *)
(* map names a PID once, every reference is counted, and what a reader has *)
(* yet to return is still in the table it looks into.                      *)
THEOREM Inductive == Spec => []IInv
<1>1. Init => IInv
  BY InitInv
<1>2. IInv /\ [Next]_vars => IInv'
  BY StepInv
<1>. QED
  BY <1>1, <1>2, PTL DEF Spec

LEMMA WholeImply == IInv => WholeTable
<1>. SUFFICES ASSUME IInv, list = None
              PROVE  /\ PidsOf(cur) = whole /\ Len(map[cur]) = Cardinality(whole)
                     /\ newproc[cur] = None /\ count[cur].c = Len(map[cur])
                     /\ count[cur].cActive =
                          Cardinality({i \in DOMAIN map[cur] : ~exited[map[cur][i]]})
  BY DEF WholeTable
<1>1. TypeOK /\ Chain /\ Maps /\ Whole
  BY DEF IInv
<1>2. cur \in Tables /\ cur \in Nat /\ cur = n /\ map[cur] \in Seq(Procs)
  BY <1>1, Basics DEF Chain
<1>3. Keyed(map[cur]) /\ count[cur] = Tally(ToSet(map[cur]), exited)
  BY <1>1, <1>2 DEF Maps
<1>4. /\ Cardinality(ToSet(map[cur])) = Len(map[cur])
      /\ Cardinality({p[1] : p \in ToSet(map[cur])}) = Len(map[cur])
      /\ Cardinality({k \in DOMAIN map[cur] : ~exited[map[cur][k]]}) =
           Cardinality({p \in ToSet(map[cur]) : ~exited[p]})
  BY <1>2, <1>3, KeysCardinality
<1>5. PidsOf(cur) = whole /\ PidsOf(cur) = {p[1] : p \in ToSet(map[cur])}
  BY <1>1 DEF Whole, PidsOf
<1>6. newproc[cur] = None
  BY <1>1, <1>2 DEF Chain
<1>7. /\ count[cur].c = Cardinality(ToSet(map[cur]))
      /\ count[cur].cActive = Cardinality({p \in ToSet(map[cur]) : ~exited[p]})
  BY <1>3 DEF Tally
<1>. QED
  BY <1>4, <1>5, <1>6, <1>7

(* A table becomes visible as a whole (VmmProcessCreateEntry,              *)
(* VmmProcessCreateFinish): it has the PIDs of the enumeration, each once, *)
(* and the counts that VmmProcessListPIDs trusts are right.                *)
THEOREM WholeTableHolds == Spec => []WholeTable
  BY Inductive, WholeImply, PTL

LEMMA CountsImply == IInv => CountsExact
<1>. SUFFICES ASSUME IInv PROVE CountsExact
  OBVIOUS
<1>1. TypeOK /\ Chain /\ Counts /\ Reading
  BY DEF IInv
<1>2. n \in Nat /\ 0..n \subseteq Tables
  BY <1>1, Basics
<1>3. ASSUME NEW t \in 0..n
      PROVE  tref[t] = (IF cur = t THEN 1 ELSE 0) + leaked[t]
                       + Cardinality({u \in 0..n : newproc[u] = t /\ tref[u] > 0})
                       + Cardinality({r \in Readers : tbl[r] = t})
  <2>. DEFINE U == {u \in 0..n : newproc[u] = t /\ tref[u] > 0}
  <2>1. \A u \in 0..n : newproc[u] = t <=> u = t - 1 /\ t \in 1..n
    <3>. SUFFICES ASSUME NEW u \in 0..n PROVE newproc[u] = t <=> u = t - 1 /\ t \in 1..n
      OBVIOUS
    <3>1. newproc[u] = (IF u < n THEN u + 1 ELSE None) /\ t # None
      <4>1. u \in Tables /\ t \in Tables
        BY <1>2
      <4>. QED
        BY <1>1, <4>1, ConstantTypes DEF Chain
    <3>. QED
      BY <1>2, <3>1
  <2>2. CASE Link(t)
    <3>1. t - 1 \in 0..n /\ tref[t - 1] > 0 /\ t \in 1..n
      BY <1>2, <2>2 DEF Link
    <3>2. U = {t - 1}
      BY <2>1, <3>1
    <3>. HIDE DEF U
    <3>3. Cardinality(U) = 1 /\ Bit(Link(t)) = 1
      BY <2>2, <3>2, FS_Singleton DEF Bit
    <3>4. tref[t] = Bit(cur = t) + leaked[t] + Bit(Link(t)) + Cardinality(Holders(t))
      BY <1>1, <1>2, TableCounts
    <3>. QED
      BY <3>3, <3>4 DEF U, Bit, Holders
  <2>3. CASE ~Link(t)
    <3>1. U = {}
      BY <2>1, <2>3 DEF Link
    <3>. HIDE DEF U
    <3>2. Cardinality(U) = 0 /\ Bit(Link(t)) = 0
      BY <2>3, <3>1, FS_EmptySet DEF Bit
    <3>3. tref[t] = Bit(cur = t) + leaked[t] + Bit(Link(t)) + Cardinality(Holders(t))
      BY <1>1, <1>2, TableCounts
    <3>. QED
      BY <3>2, <3>3 DEF U, Bit, Holders
  <2>. QED
    BY <2>2, <2>3
<1>4. ASSUME NEW p \in Procs
      PROVE  pref[p] = (IF sys = p THEN 1 ELSE 0)
                       + Cardinality({t \in 0..n : tref[t] > 0 /\ p \in ToSet(map[t])})
                       + Cardinality({r \in Readers : proc[r] = p})
  BY <1>1 DEF Counts, Alive, Users, Bit
<1>. QED
  BY <1>3, <1>4 DEF CountsExact

(* Every reference to a table or to a process object is counted, with the  *)
(* cascade in which a table that dies drops the next one                   *)
(* (VmmProcessTable_CloseObCallback): nothing in use is freed, and nothing *)
(* leaks but what VmmProcessCreateTerminatedFakeEntry does not give back.  *)
THEOREM CountsExactHolds == Spec => []CountsExact
  BY Inductive, CountsImply, PTL

(* VmmProcessGetNext misses no process that was in every table it went     *)
(* through.                                                                *)
THEOREM IterationCompleteHolds == Spec => []IterationComplete
<1>1. IInv => IterationComplete
  BY DEF IInv, Reading, IterationComplete
<1>. QED
  BY <1>1, Inductive, PTL

LEMMA Ascends ==
  IInv /\ [Next]_vars =>
    [\A r \in Readers :
       pc[r] = "find" /\ pc'[r] = "drop" /\ proc[r] # None /\ proc'[r] # None =>
         Pid(proc'[r]) > Pid(proc[r])]_vars
<1>. SUFFICES ASSUME IInv, Next, NEW r \in Readers, pc[r] = "find", pc'[r] = "drop",
                     proc[r] # None, proc'[r] # None
              PROVE  Pid(proc'[r]) > Pid(proc[r])
  OBVIOUS
<1>1. TypeOK
  BY DEF IInv
<1>2. ASSUME NEW q \in Readers, Goto(q, "find", "drop") PROVE q = r
  BY <1>1, <1>2 DEF TypeOK, Goto
<1>3. PICK q \in Readers : GetNext(q) \/ Get(q)
  <2>1. ASSUME UNCHANGED readerVars PROVE FALSE
    BY <2>1 DEF readerVars
  <2>2. ASSUME NEW q \in Readers, GetTable(q) PROVE FALSE
    BY <1>1, <2>2 DEF GetTable, Goto, TypeOK
  <2>3. ASSUME NEW q \in Readers, Drop(q) PROVE FALSE
    BY <1>1, <2>3 DEF Drop, Goto, TypeOK
  <2>4. ASSUME NEW q \in Readers, Release(q) PROVE FALSE
    BY <1>1, <2>4 DEF Release, TypeOK
  <2>5. Boot \/ RefreshProcesses \/ Enum_Post \/ CreateTerminatedFakeEntry
        \/ CreateFinish \/ DropSystem => UNCHANGED readerVars
    BY DEF Boot, RefreshProcesses, Enum_Post, CreateTerminatedFakeEntry, CreateFinish, DropSystem
  <2>. QED
    BY <2>1, <2>2, <2>3, <2>4, <2>5 DEF Next
<1>4. q = r
  BY <1>2, <1>3 DEF GetNext, Get
<1>5. GetNext(r)
  BY <1>3, <1>4 DEF Get
<1>. DEFINE m == map[tbl[r]]
            p == Following(r, m, proc[r])
<1>6. proc'[r] = p
  BY <1>1, <1>5 DEF GetNext, TypeOK
<1>7. m \in Seq(Procs) /\ Sorted(m) /\ proc[r] \in Procs \cup {None}
  BY LooksInto
<1>. HIDE DEF m
<1>8. p # None => p[1] > Pid(proc[r])
  BY <1>7, FollowingIs
<1>. QED
  BY <1>6, <1>8 DEF Pid

(* No call of VmmProcessGetNext goes back, so that an iteration ends.      *)
THEOREM IterationAscendsHolds == Spec => IterationAscends
<1>1. IInv /\ [Next]_vars =>
        [\A r \in Readers :
           pc[r] = "find" /\ pc'[r] = "drop" /\ proc[r] # None /\ proc'[r] # None =>
             Pid(proc'[r]) > Pid(proc[r])]_vars
  BY Ascends
<1>. QED
  BY <1>1, Inductive, PTL DEF Spec, IterationAscends

LEMMA Keeps ==
  IInv /\ [Next]_vars =>
    [cur' # cur =>
       \A p \in ToSet(map[cur]), q \in ToSet(map'[cur']) : p[1] = q[1] => pers'[q] = pers[p]]_vars
<1>. SUFFICES ASSUME IInv, Next, cur' # cur,
                     NEW p \in ToSet(map[cur]), NEW q \in ToSet(map'[cur']), p[1] = q[1]
              PROVE  pers'[q] = pers[p]
  OBVIOUS
<1>1. CreateFinish
  BY DEF Next, Boot, RefreshProcesses, Enum_Post, CreateTerminatedFakeEntry, DropSystem,
         GetTable, GetNext, Get, Drop, Release
<1>2. cur' = n /\ ToSet(map'[n]) = ToSet(map[n]) /\ cur < n
  <2>1. n = cur + 1 /\ cur' = n /\ n \in Tables /\ cur \in Nat /\ ToSet(map'[n]) = ToSet(map[n])
    BY <1>1, FinishDoes
  <2>. QED
    BY <2>1
<1>3. pers' = pers
  BY <1>1 DEF CreateFinish
<1>4. Inherited
  BY DEF IInv
<1>. QED
  BY <1>2, <1>3, <1>4 DEF Inherited

(* What is to remain between refreshes does (VmmProcessStatic_Initialize): *)
(* a PID keeps its persistent information, also when its object is new.    *)
THEOREM PersistentKeptHolds == Spec => PersistentKept
<1>1. IInv /\ [Next]_vars =>
        [cur' # cur =>
           \A p \in ToSet(map[cur]), q \in ToSet(map'[cur']) :
             p[1] = q[1] => pers'[q] = pers[p]]_vars
  BY Keeps
<1>. QED
  BY <1>1, Inductive, PTL DEF Spec, PersistentKept
=====
