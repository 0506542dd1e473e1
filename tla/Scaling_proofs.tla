--------------------------- MODULE Scaling_proofs ---------------------------
(***************************************************************************)
(* Theorems about Scaling and the scheduler under it, for any cluster, any *)
(* number of replicas, calls and GPUs: what is placed fits and is spread,  *)
(* what is refused could not be placed, and what a scaling commit leaves.  *)
(***************************************************************************)
EXTENDS Scaling, FiniteSetTheorems, TLAPS

(***************************************************************************)
(* Orders on finite sets.                                                  *)
(***************************************************************************)

\* A set of numbers has a least one.
LEMMA LeastOf ==
    ASSUME NEW S \in SUBSET Nat, S # {}
    PROVE  \E p \in S : \A q \in S : p <= q
<1>1. PICK p \in S : \A q \in S : ~(<<q, p>> \in OpToRel(<, Nat))
  BY NatLessThanWellFounded, WFMin
<1>2. \A q \in S : ~(q < p)
  BY <1>1 DEF OpToRel
<1> QED BY <1>2

\* The least number of a set is one of it.
LEMMA LeastIn ==
    ASSUME NEW S \in SUBSET Nat, S # {}
    PROVE  Least(S) \in S /\ \A q \in S : Least(S) <= q
  BY LeastOf DEF Least

\* R is a strict total order of S, and what comes before x in it.
Orders(R, S) ==
    /\ \A x \in S : <<x, x>> \notin R
    /\ \A x, y \in S : x # y => <<x, y>> \in R \/ <<y, x>> \in R
    /\ \A x, y, z \in S : <<x, y>> \in R /\ <<y, z>> \in R => <<x, z>> \in R
Before(R, S, x) == {y \in S : <<y, x>> \in R}

\* An order of a finite set numbers it from 0: the ranks are distinct and none is left out.
LEMMA Ranked ==
    ASSUME NEW S, IsFiniteSet(S), NEW R, Orders(R, S)
    PROVE  /\ Cardinality(S) \in Nat
           /\ \A x \in S : Cardinality(Before(R, S, x)) \in 0 .. Cardinality(S) - 1
           /\ \A x, y \in S :
                <<x, y>> \in R => Cardinality(Before(R, S, x)) < Cardinality(Before(R, S, y))
           /\ \A x, y \in S :
                Cardinality(Before(R, S, x)) = Cardinality(Before(R, S, y)) => x = y
           /\ \A r \in 0 .. Cardinality(S) - 1 :
                \E x \in S : Cardinality(Before(R, S, x)) = r
<1> DEFINE rank(x) == Cardinality(Before(R, S, x))
           n == Cardinality(S)
<1>1. n \in Nat
  BY FS_CardinalityType
<1>2. ASSUME NEW x \in S
      PROVE  IsFiniteSet(Before(R, S, x)) /\ rank(x) \in 0 .. n - 1
  <2>1. Before(R, S, x) \in SUBSET (S \ {x})
    BY DEF Before, Orders
  <2>2. IsFiniteSet(S \ {x}) /\ Cardinality(S \ {x}) = n - 1
    BY FS_RemoveElement
  <2>3. IsFiniteSet(Before(R, S, x)) /\ rank(x) <= n - 1
    BY <2>1, <2>2, FS_Subset
  <2>4. rank(x) \in Nat
    BY <2>3, FS_CardinalityType
  <2> QED BY <1>1, <2>3, <2>4
<1>3. ASSUME NEW x \in S, NEW y \in S, <<x, y>> \in R
      PROVE  rank(x) < rank(y)
  <2>1. Before(R, S, x) \in SUBSET Before(R, S, y) /\ x \in Before(R, S, y) /\ x \notin Before(R, S, x)
    BY <1>3 DEF Before, Orders
  <2>2. rank(x) <= rank(y) /\ rank(x) # rank(y)
    BY <1>2, <2>1, FS_Subset
  <2> QED BY <1>2, <2>2
<1>4. ASSUME NEW x \in S, NEW y \in S, rank(x) = rank(y)
      PROVE  x = y
  <2>1. ~(rank(x) < rank(y)) /\ ~(rank(y) < rank(x))
    BY <1>2, <1>4
  <2> QED BY <1>3, <2>1 DEF Orders
<1>5. ASSUME NEW r \in 0 .. n - 1
      PROVE  \E x \in S : rank(x) = r
  <2> DEFINE f == [x \in S |-> rank(x)]
  <2>1. f \in Injection(S, 0 .. n - 1)
    <3>1. f \in [S -> 0 .. n - 1]
      BY <1>2
    <3>2. IsInjective(f)
      BY <1>4 DEF IsInjective
    <3> QED BY <3>1, <3>2 DEF Injection
  <2>2. IsFiniteSet(0 .. n - 1) /\ Cardinality(0 .. n - 1) = n
    BY <1>1, FS_Interval
  <2>3. f \in Surjection(S, 0 .. n - 1)
    BY <2>1, <2>2, FS_Injection
  <2> QED BY <2>3 DEF Surjection
<1> QED BY <1>1, <1>2, <1>3, <1>4, <1>5

\* A finite, ordered set that is not empty has a first element.
LEMMA Foremost ==
    ASSUME NEW S, IsFiniteSet(S), S # {}, NEW R, Orders(R, S)
    PROVE  \E x \in S : \A y \in S \ {x} : <<x, y>> \in R
<1>1. Cardinality(S) \in Nat /\ Cardinality(S) # 0
  BY FS_CardinalityType, FS_EmptySet
<1>2. PICK x \in S : Cardinality(Before(R, S, x)) = 0
  BY <1>1, Ranked
<1>3. IsFiniteSet(Before(R, S, x))
  BY FS_Subset DEF Before
<1>4. Before(R, S, x) = {}
  BY <1>2, <1>3, FS_EmptySet
<1> QED BY <1>4 DEF Before, Orders

\* The first k elements of an order are k elements.
LEMMA FirstFew ==
    ASSUME NEW S, IsFiniteSet(S), NEW R, Orders(R, S), NEW k \in 0 .. Cardinality(S)
    PROVE  Cardinality({x \in S : Cardinality(Before(R, S, x)) < k}) = k
<1> DEFINE rank(x) == Cardinality(Before(R, S, x))
           T == {x \in S : rank(x) < k}
           f == [x \in T |-> rank(x)]
<1> HIDE DEF rank
<1>0. /\ Cardinality(S) \in Nat /\ k \in Nat
      /\ \A x \in S : rank(x) \in Nat
      /\ \A x, y \in S : rank(x) = rank(y) => x = y
      /\ \A r \in 0 .. Cardinality(S) - 1 : \E x \in S : rank(x) = r
  BY Ranked DEF rank
<1>1. f \in Bijection(T, 0 .. k - 1)
  <2>1. f \in [T -> 0 .. k - 1]
    BY <1>0
  <2>2. IsInjective(f)
    BY <1>0 DEF IsInjective
  <2>3. \A r \in 0 .. k - 1 : \E x \in T : f[x] = r
    BY <1>0
  <2> QED BY <2>1, <2>2, <2>3 DEF Bijection, Injection, Surjection
<1>2. IsFiniteSet(T)
  BY FS_Subset
<1>3. Cardinality(0 .. k - 1) = Cardinality(T)
  BY <1>1, <1>2, FS_Bijection DEF ExistsBijection
<1> QED BY <1>0, <1>3, FS_Interval DEF rank

(***************************************************************************)
(* The scheduler's choices.                                                *)
(***************************************************************************)

\* What the scheduler works on.
SnapType ==
    [up : SUBSET Hosts, free : [Slots -> Int], ports : [Hosts -> SUBSET Nat],
     rv : [Hosts -> SUBSET Nat]]

\* A pair has two parts.
LEMMA PairReads ==
    ASSUME NEW A, NEW B, NEW s \in A \X B
    PROVE  s = <<s[1], s[2]>> /\ s[1] \in A /\ s[2] \in B
  OBVIOUS

\* A GPU has a host and an index.
LEMMA GpuIsPair ==
    ASSUME NEW s \in Slots
    PROVE  s = <<s[1], s[2]>> /\ s[1] \in Hosts /\ s[1] \in Nat /\ s[2] \in Nat
<1>1. s \in Hosts \X Nat
  BY SchedulerAssumption
<1>2. s = <<s[1], s[2]>> /\ s[1] \in Hosts /\ s[2] \in Nat
  BY <1>1, PairReads, Zenon
<1> QED BY <1>2, SchedulerAssumption

\* The smallest free memory wins, ties go to the first visited: there is always a winner.
LEMMA BestFitIn ==
    ASSUME NEW S \in SUBSET Slots, S # {}, NEW free \in [Slots -> Int]
    PROVE  BestFit(S, free) \in S
<1> DEFINE less(s, t) == free[s] < free[t] \/ (free[s] = free[t] /\ Visited(s, t))
           R == {st \in S \X S : less(st[1], st[2])}
<1>1. \A s \in S : free[s] \in Int /\ s[1] \in Nat /\ s[2] \in Nat /\ s = <<s[1], s[2]>>
  BY GpuIsPair
<1>2. Orders(R, S)
  <2>1. \A x \in S : <<x, x>> \notin R
    BY <1>1 DEF Visited
  <2>2. \A x, y \in S : x # y => <<x, y>> \in R \/ <<y, x>> \in R
    BY <1>1 DEF Visited
  <2>3. \A x, y, z \in S : less(x, y) /\ less(y, z) => less(x, z)
    BY <1>1 DEF Visited
  <2>4. \A x, y \in S : <<x, y>> \in R <=> less(x, y)
    OBVIOUS
  <2> HIDE DEF R, less
  <2> QED BY <2>1, <2>2, <2>3, <2>4 DEF Orders
<1>3. IsFiniteSet(S)
  BY SchedulerAssumption, FS_Subset
<1> HIDE DEF R
<1>4. PICK x \in S : \A y \in S \ {x} : <<x, y>> \in R
  BY <1>2, <1>3, Foremost
<1>5. \A y \in S \ {x} : less(x, y)
  BY <1>4 DEF R
<1> QED BY <1>5 DEF BestFit

\* The largest free memory of a host wins: there is always a winner.
LEMMA RoomiestIn ==
    ASSUME NEW c \in SnapType, NEW h \in Hosts, OnHost(c, h) # {}
    PROVE  RoomiestGpu(c, h) \in OnHost(c, h)
<1> DEFINE S == OnHost(c, h)
           more(s, t) == c.free[s] > c.free[t] \/ (c.free[s] = c.free[t] /\ Visited(s, t))
           R == {st \in S \X S : more(st[1], st[2])}
<1>0. S \in SUBSET Slots /\ c.free \in [Slots -> Int]
  BY SchedulerAssumption DEF OnHost, Fitting, Usable, SnapType
<1>1. \A s \in S : c.free[s] \in Int /\ s[1] \in Nat /\ s[2] \in Nat /\ s = <<s[1], s[2]>>
  BY <1>0, GpuIsPair
<1> HIDE DEF S
<1>2. Orders(R, S)
  <2>1. \A x \in S : <<x, x>> \notin R
    BY <1>1 DEF Visited
  <2>2. \A x, y \in S : x # y => <<x, y>> \in R \/ <<y, x>> \in R
    BY <1>1 DEF Visited
  <2>3. \A x, y, z \in S : more(x, y) /\ more(y, z) => more(x, z)
    BY <1>1 DEF Visited
  <2>4. \A x, y \in S : <<x, y>> \in R <=> more(x, y)
    OBVIOUS
  <2> HIDE DEF R, more
  <2> QED BY <2>1, <2>2, <2>3, <2>4 DEF Orders
<1>3. IsFiniteSet(S)
  BY <1>0, SchedulerAssumption, FS_Subset
<1> HIDE DEF R
<1>4. PICK x \in S : \A y \in S \ {x} : <<x, y>> \in R
  BY <1>2, <1>3, Foremost DEF S
<1>5. \A y \in S \ {x} : more(x, y)
  BY <1>4 DEF R
<1> QED BY <1>5 DEF RoomiestGpu, S

\* Hosts with a fitting GPU are ordered by their largest one.
LEMMA AheadOrders ==
    ASSUME NEW c \in SnapType, NEW S \in SUBSET Hosts, \A h \in S : OnHost(c, h) # {}
    PROVE  /\ IsFiniteSet(S)
           /\ Orders({gh \in S \X S : Ahead(c, gh[1], gh[2])}, S)
<1> DEFINE R == {gh \in S \X S : Ahead(c, gh[1], gh[2])}
           room(h) == c.free[RoomiestGpu(c, h)]
<1>1. \A h \in S : h \in Nat /\ room(h) \in Int
  BY RoomiestIn, SchedulerAssumption DEF OnHost, Fitting, Usable, SnapType
<1>2. \A g, h \in S : <<g, h>> \in R <=> room(g) > room(h) \/ (room(g) = room(h) /\ g < h)
  BY DEF Ahead
<1> HIDE DEF R, room
<1>3. Orders(R, S)
  BY <1>1, <1>2 DEF Orders
<1>4. IsFiniteSet(S)
  BY SchedulerAssumption, FS_Subset
<1> QED BY <1>3, <1>4 DEF R

\* There is a head when a host with an address has a fitting GPU.
LEMMA HeadIn ==
    ASSUME NEW c \in SnapType, NEW fitting \in SUBSET Hosts,
           \A h \in fitting : OnHost(c, h) # {}, fitting \cap Addressed # {}
    PROVE  GroupHead(c, fitting) \in fitting \cap Addressed
<1> DEFINE heads == fitting \cap Addressed
           R == {gh \in heads \X heads : Ahead(c, gh[1], gh[2])}
<1>1. IsFiniteSet(heads) /\ Orders(R, heads)
  BY AheadOrders
<1>2. \E h \in heads : \A g \in heads \ {h} : <<h, g>> \in R
  BY <1>1, Foremost
<1>3. \E h \in heads : \A g \in heads \ {h} : Ahead(c, h, g)
  BY <1>2
<1> QED BY <1>3 DEF GroupHead

\* The ranks of a group number its hosts: every rank has one host, the head is rank 0.
LEMMA RanksNumber ==
    ASSUME NEW c \in SnapType, NEW fitting \in SUBSET Hosts,
           \A h \in fitting : OnHost(c, h) # {}, NEW head \in fitting
    PROVE  /\ Cardinality(fitting) \in Nat
           /\ \A h \in fitting : GroupRank(c, fitting, head, h) \in Nat
           /\ \A h \in fitting : GroupRank(c, fitting, head, h) = 0 => h = head
           /\ \A r \in 0 .. Cardinality(fitting) - 1 :
                \E h \in fitting : GroupRank(c, fitting, head, h) = r
<1> DEFINE A == {gh \in fitting \X fitting : Ahead(c, gh[1], gh[2])}
           R == {gh \in fitting \X fitting :
                   gh[2] # head /\ (gh[1] = head \/ Ahead(c, gh[1], gh[2]))}
<1>1. IsFiniteSet(fitting) /\ Orders(A, fitting)
  BY AheadOrders
<1>2. Orders(R, fitting)
  <2>1. \A x, y \in fitting : <<x, y>> \in A <=> Ahead(c, x, y)
    OBVIOUS
  <2>2. \A x, y \in fitting : <<x, y>> \in R <=> y # head /\ (x = head \/ <<x, y>> \in A)
    BY <2>1
  <2> HIDE DEF A, R
  <2> QED BY <1>1, <2>2 DEF Orders
<1>3. ASSUME NEW h \in fitting
      PROVE  GroupRank(c, fitting, head, h) = Cardinality(Before(R, fitting, h))
  <2> DEFINE others == {g \in fitting \ {head, h} : Ahead(c, g, h)}
  <2>1. CASE h = head
    <3>1. Before(R, fitting, h) = {}
      BY <2>1 DEF Before
    <3> QED BY <2>1, <3>1, FS_EmptySet DEF GroupRank
  <2>2. CASE h # head
    <3>0. ~Ahead(c, h, h)
      BY <1>1 DEF Orders
    <3>1. Before(R, fitting, h) = others \cup {head} /\ head \notin others
      BY <2>2, <3>0 DEF Before
    <3>2. IsFiniteSet(others)
      BY <1>1, FS_Subset
    <3> HIDE DEF others
    <3>3. Cardinality(others \cup {head}) = Cardinality(others) + 1 /\ Cardinality(others) \in Nat
      BY <3>1, <3>2, FS_AddElement, FS_CardinalityType
    <3>4. GroupRank(c, fitting, head, h) = 1 + Cardinality(others)
      BY <2>2 DEF GroupRank, others
    <3>5. Cardinality(Before(R, fitting, h)) = Cardinality(others) + 1
      BY <3>1, <3>3
    <3> QED BY <3>3, <3>4, <3>5
  <2> QED BY <2>1, <2>2
<1>4. GroupRank(c, fitting, head, head) = 0
  BY DEF GroupRank
<1> HIDE DEF R
<1> DEFINE rank(h) == Cardinality(Before(R, fitting, h))
<1>5. /\ Cardinality(fitting) \in Nat
      /\ \A h \in fitting : rank(h) \in 0 .. Cardinality(fitting) - 1
      /\ \A g, h \in fitting : rank(g) = rank(h) => g = h
      /\ \A r \in 0 .. Cardinality(fitting) - 1 : \E h \in fitting : rank(h) = r
  BY <1>1, <1>2, Ranked
<1> HIDE DEF rank
<1>6. \A h \in fitting : GroupRank(c, fitting, head, h) = rank(h)
  BY <1>3 DEF rank
<1> QED BY <1>4, <1>5, <1>6

(***************************************************************************)
(* allocate_replicas: the loop and what it keeps.                          *)
(***************************************************************************)

\* A trace of a loop: the states after each of its rounds.
Traces(F, start, count, f) == f[0] = start /\ \A n \in 1 .. count : f[n] = F[f[n - 1]]

\* A loop of count rounds from start has a trace.
LEMMA TraceExists ==
    ASSUME NEW T, NEW F \in [T -> T], NEW start \in T, NEW count \in Nat
    PROVE  \E f \in [0 .. count -> T] : Traces(F, start, count, f)
<1> DEFINE Good(k, f) == f[0] = start /\ \A n \in 1 .. k : f[n] = F[f[n - 1]]
           Bad == {k \in 0 .. count : ~\E f \in [0 .. k -> T] : Good(k, f)}
<1>1. Bad = {}
  <2>1. SUFFICES ASSUME Bad # {} PROVE FALSE
    OBVIOUS
  <2> HIDE DEF Good
  <2>0. Bad \in SUBSET Nat
    OBVIOUS
  <2>2. PICK k \in Bad : \A j \in Bad : k <= j
    <3> HIDE DEF Bad
    <3> QED BY <2>0, <2>1, LeastOf
  <2>5. k \in 0 .. count /\ ~\E f \in [0 .. k -> T] : Good(k, f)
    OBVIOUS
  <2>3. CASE k = 0
    <3>1. [n \in 0 .. 0 |-> start] \in [0 .. 0 -> T] /\ Good(0, [n \in 0 .. 0 |-> start])
      BY DEF Good
    <3> QED BY <2>3, <2>5, <3>1
  <2>4. CASE k # 0
    <3>1. k - 1 \in 0 .. count /\ k - 1 \notin Bad
      <4> HIDE DEF Bad
      <4>1. k \in 0 .. count
        BY <2>5
      <4> QED BY <2>2, <2>4, <4>1
    <3>2. PICK f \in [0 .. k - 1 -> T] : Good(k - 1, f)
      BY <3>1
    <3> DEFINE g == [n \in 0 .. k |-> IF n = k THEN F[f[k - 1]] ELSE f[n]]
    <3> HIDE DEF Bad
    <3>3. g \in [0 .. k -> T]
      BY <2>4, <2>5, <3>2
    <3>4. Good(k, g)
      <4>1. g[0] = start
        BY <2>4, <2>5, <3>2 DEF Good
      <4>2. ASSUME NEW n \in 1 .. k PROVE g[n] = F[g[n - 1]]
        BY <2>5, <3>2 DEF Good
      <4> QED BY <4>1, <4>2 DEF Good
    <3> QED BY <2>5, <3>3, <3>4
  <2> QED BY <2>3, <2>4
<1> QED BY <1>1 DEF Traces

LoopType ==
    [ok : BOOLEAN, free : [Slots -> Int], used : SUBSET Slots, ports : SUBSET InstancePorts,
     placed : Seq(PlacementType)]
Start(c, used) ==
    [ok |-> TRUE, free |-> c.free, used |-> used, ports |-> {}, placed |-> << >>]

\* The GPU and the free ports that a round looks at.
PoolOf(c, st) == Pool(Fitting(c, st.free), st.used)
PickOf(c, st) == BestFit(PoolOf(c, st), st.free)
PortsOf(c, st) == FreePorts(c, PickOf(c, st)[1], st.ports)

\* The pool holds GPUs that fit.
LEMMA PoolFits ==
    ASSUME NEW c \in SnapType, NEW st \in LoopType
    PROVE  /\ PoolOf(c, st) \subseteq Fitting(c, st.free)
           /\ Fitting(c, st.free) \subseteq Slots
           /\ PoolOf(c, st) = {} <=> Fitting(c, st.free) = {}
           /\ PoolOf(c, st) # {} => PickOf(c, st) \in PoolOf(c, st)
<1>1. Fitting(c, st.free) \subseteq Slots
  BY SchedulerAssumption DEF Fitting, Usable
<1>2. /\ PoolOf(c, st) \subseteq Fitting(c, st.free)
      /\ PoolOf(c, st) = {} <=> Fitting(c, st.free) = {}
  BY DEF PoolOf, Pool
<1>3. st.free \in [Slots -> Int]
  BY DEF LoopType
<1> QED BY <1>1, <1>2, <1>3, BestFitIn DEF PickOf

\* A round that succeeds, field by field; one that does not.
LEMMA RoundDoes ==
    ASSUME NEW c \in SnapType, NEW st \in LoopType
    PROVE  /\ PlaceReplica(c, st) \in LoopType
           /\ (st.ok /\ PoolOf(c, st) # {} /\ PortsOf(c, st) # {}) =>
                /\ PlaceReplica(c, st).ok
                /\ PlaceReplica(c, st).free =
                     [st.free EXCEPT ![PickOf(c, st)] = st.free[PickOf(c, st)] - Need]
                /\ PlaceReplica(c, st).used = st.used \cup {PickOf(c, st)}
                /\ PlaceReplica(c, st).ports = st.ports \cup {Least(PortsOf(c, st))}
                /\ PlaceReplica(c, st).placed =
                     Append(st.placed, Placement({PickOf(c, st)}, Least(PortsOf(c, st)), 0, 0))
           /\ ~(st.ok /\ PoolOf(c, st) # {} /\ PortsOf(c, st) # {}) => ~PlaceReplica(c, st).ok
<1> DEFINE s == PickOf(c, st)
           p == Least(PortsOf(c, st))
           out == PlaceReplica(c, st)
           good == st.ok /\ PoolOf(c, st) # {} /\ PortsOf(c, st) # {}
<1>1. CASE good
  <2>1. out = [st EXCEPT !.free[s] = @ - Need, !.used = @ \cup {s}, !.ports = @ \cup {p},
                         !.placed = Append(@, Placement({s}, p, 0, 0))]
    BY <1>1 DEF PlaceReplica, PoolOf, PickOf, PortsOf
  <2>2. s \in Slots
    BY <1>1, PoolFits
  <2>3. PortsOf(c, st) \subseteq InstancePorts
    BY DEF PortsOf, FreePorts
  <2>4. p \in InstancePorts
    BY <1>1, <2>3, LeastIn, SchedulerAssumption
  <2>5. Placement({s}, p, 0, 0) \in PlacementType
    BY <2>2, <2>4 DEF Placement, PlacementType
  <2> HIDE DEF s, p
  <2>6. /\ out.ok = st.ok /\ out.free = [st.free EXCEPT ![s] = st.free[s] - Need]
        /\ out.used = st.used \cup {s} /\ out.ports = st.ports \cup {p}
        /\ out.placed = Append(st.placed, Placement({s}, p, 0, 0))
        /\ out = [ok |-> out.ok, free |-> out.free, used |-> out.used, ports |-> out.ports,
                  placed |-> out.placed]
    BY <2>1 DEF LoopType
  <2>7. /\ out.ok \in BOOLEAN /\ out.free \in [Slots -> Int] /\ out.used \in SUBSET Slots
        /\ out.ports \in SUBSET InstancePorts /\ out.placed \in Seq(PlacementType)
    BY <1>1, <2>2, <2>4, <2>5, <2>6, SchedulerAssumption DEF LoopType
  <2>8. out \in LoopType
    BY <2>6, <2>7 DEF LoopType
  <2> QED BY <1>1, <2>6, <2>8 DEF s, p
<1>2. CASE ~good
  <2>1. out = [st EXCEPT !.ok = FALSE]
    BY <1>2 DEF PlaceReplica, PoolOf, PickOf, PortsOf
  <2> QED BY <1>2, <2>1 DEF LoopType
<1> QED BY <1>1, <1>2

Rounds(c, used, count, f) ==
    /\ f \in [0 .. count -> LoopType]
    /\ f[0] = Start(c, used)
    /\ \A n \in 1 .. count : f[n] = PlaceReplica(c, f[n - 1])

\* What allocate_replicas returns is the last state of its loop.
LEMMA AllocateRuns ==
    ASSUME NEW c \in SnapType, NEW used \in SUBSET Slots, NEW count \in Nat
    PROVE  \E f : /\ Rounds(c, used, count, f)
                  /\ allocate_replicas(c, count, used) =
                       IF f[count].ok THEN Granted(f[count].placed) ELSE Refused
<1> DEFINE start == Start(c, used)
           F == [st \in LoopType |-> PlaceReplica(c, st)]
           Is(f) == f = [n \in 0 .. count |-> IF n = 0 THEN start ELSE PlaceReplica(c, f[n - 1])]
           place == CHOOSE f : Is(f)
<1>1. F \in [LoopType -> LoopType]
  BY RoundDoes
<1>2. start \in LoopType
  BY DEF Start, LoopType, SnapType
<1>3. PICK f \in [0 .. count -> LoopType] : Traces(F, start, count, f)
  <2> HIDE DEF F, start
  <2> QED BY <1>1, <1>2, TraceExists
<1>4. Is(f)
  <2>1. ASSUME NEW n \in 0 .. count, n # 0 PROVE f[n - 1] \in LoopType
    BY <2>1
  <2>2. \A n \in 0 .. count : n # 0 => F[f[n - 1]] = PlaceReplica(c, f[n - 1])
    BY <2>1
  <2> HIDE DEF F, start
  <2> QED BY <1>3, <2>2 DEF Traces
<1>5. Is(place)
  <2> HIDE DEF Is
  <2> QED BY <1>4
<1> HIDE DEF place, start
<1>6. \A n \in 0 .. count : place[n] = f[n]
  <2> DEFINE Bad == {n \in 0 .. count : place[n] # f[n]}
  <2>1. SUFFICES ASSUME Bad # {} PROVE FALSE
    OBVIOUS
  <2>0. Bad \in SUBSET Nat
    OBVIOUS
  <2>2. PICK n \in Bad : \A j \in Bad : n <= j
    <3> HIDE DEF Bad
    <3> QED BY <2>0, <2>1, LeastOf
  <2>3. n # 0 /\ n - 1 \in 0 .. count /\ place[n - 1] = f[n - 1]
    <3>1. place[0] = start /\ f[0] = start
      BY <1>4, <1>5
    <3>2. n \in 0 .. count /\ n # 0 /\ n - 1 \in 0 .. count
      BY <3>1
    <3>3. n - 1 \notin Bad
      <4> HIDE DEF Bad
      <4> QED BY <2>2, <3>2
    <3> QED BY <3>2, <3>3
  <2>4. place[n] = PlaceReplica(c, place[n - 1]) /\ f[n] = PlaceReplica(c, f[n - 1])
    BY <1>4, <1>5, <2>2, <2>3
  <2> QED BY <2>2, <2>3, <2>4
<1>7. place[count] = f[count]
  BY <1>6
<1>8. allocate_replicas(c, count, used) =
        IF place[count].ok THEN Granted(place[count].placed) ELSE Refused
  BY DEF allocate_replicas, Start, place, start
<1>9. Rounds(c, used, count, f)
  BY <1>4 DEF Rounds, start
<1> QED BY <1>7, <1>8, <1>9

\* The GPUs of some placements, how many of the placements have one, and their hosts.
Gpus(placed) == UNION {placed[k].slots : k \in DOMAIN placed}
Count(placed, s) == Cardinality({k \in DOMAIN placed : s \in placed[k].slots})
HostsIn(G) == {s[1] : s \in G}
Fit(c) == Fitting(c, c.free)
Fresh(c, used) == HostsIn(Fit(c)) \ HostsIn(used)

\* What the loop keeps: the GPUs fit, the ports are free and distinct, the free memory is
\* what is left of the first reading ...
Keeps(c, used, n, st) ==
    /\ Len(st.placed) = n
    /\ \A k \in 1 .. n : \E s \in Fit(c) :
         /\ st.placed[k].slots = {s} /\ st.placed[k].rank = 0
         /\ st.placed[k].port \in FreePorts(c, s[1], {})
    /\ \A j, k \in 1 .. n : j # k => st.placed[j].port # st.placed[k].port
    /\ st.ports = {st.placed[k].port : k \in 1 .. n}
    /\ \A s \in Slots : st.free[s] = c.free[s] - Need * Count(st.placed, s)
    /\ \A s \in Gpus(st.placed) : st.free[s] >= 0
    /\ st.used = used \cup Gpus(st.placed)

\* ... and the replicas are as far apart as they can be.
KeepsApart(c, used, n, st) ==
    /\ Cardinality(HostsIn(Gpus(st.placed)) \cap Fresh(c, used))
         = Smaller(n, Cardinality(Fresh(c, used)))
    /\ Cardinality(Gpus(st.placed) \ used) = Smaller(n, Cardinality(Fit(c) \ used))

\* One more placement.
LEMMA AppendReads ==
    ASSUME NEW q \in Seq(PlacementType), NEW p \in PlacementType
    PROVE  /\ Append(q, p) \in Seq(PlacementType) /\ Len(Append(q, p)) = Len(q) + 1
           /\ Len(q) \in Nat /\ DOMAIN q = 1 .. Len(q)
           /\ DOMAIN Append(q, p) = 1 .. Len(q) + 1
           /\ \A k \in 1 .. Len(q) : Append(q, p)[k] = q[k]
           /\ Append(q, p)[Len(q) + 1] = p
           /\ Gpus(Append(q, p)) = Gpus(q) \cup p.slots
           /\ \A s : /\ Count(q, s) \in Nat
                     /\ s \notin Gpus(q) => Count(q, s) = 0
                     /\ Count(Append(q, p), s) = Count(q, s) + (IF s \in p.slots THEN 1 ELSE 0)
<1> DEFINE n == Len(q)
           a == Append(q, p)
<1>1. /\ a \in Seq(PlacementType) /\ Len(a) = n + 1
      /\ n \in Nat /\ DOMAIN q = 1 .. n /\ DOMAIN a = 1 .. n + 1
      /\ \A k \in 1 .. n : a[k] = q[k]
      /\ a[n + 1] = p
  OBVIOUS
<1> HIDE DEF a, n
<1>2. Gpus(a) = Gpus(q) \cup p.slots
  BY <1>1 DEF Gpus
<1>3. ASSUME NEW s
      PROVE  /\ Count(q, s) \in Nat
             /\ s \notin Gpus(q) => Count(q, s) = 0
             /\ Count(a, s) = Count(q, s) + (IF s \in p.slots THEN 1 ELSE 0)
  <2> DEFINE K == {k \in 1 .. n : s \in q[k].slots}
             L == {k \in 1 .. n + 1 : s \in a[k].slots}
  <2>1. Count(q, s) = Cardinality(K) /\ Count(a, s) = Cardinality(L)
    BY <1>1 DEF Count
  <2>2. IsFiniteSet(K) /\ Cardinality(K) \in Nat
    <3>1. K \in SUBSET (1 .. n) /\ IsFiniteSet(1 .. n)
      BY <1>1, FS_Interval
    <3> HIDE DEF K
    <3> QED BY <3>1, FS_Subset, FS_CardinalityType
  <2>3. s \notin Gpus(q) => K = {}
    BY <1>1 DEF Gpus
  <2>4. L = (IF s \in p.slots THEN K \cup {n + 1} ELSE K) /\ n + 1 \notin K
    BY <1>1
  <2> HIDE DEF K, L
  <2>5. Cardinality(L) = Cardinality(K) + (IF s \in p.slots THEN 1 ELSE 0)
    <3>1. Cardinality(K \cup {n + 1}) = Cardinality(K) + 1
      BY <2>2, <2>4, FS_AddElement
    <3> QED BY <2>2, <2>4, <3>1
  <2> QED BY <2>1, <2>2, <2>3, <2>5, FS_EmptySet
<1> QED BY <1>1, <1>2, <1>3 DEF a, n

\* Nothing is placed yet.
LEMMA EmptyReads ==
    /\ << >> \in Seq(PlacementType) /\ Len(<< >>) = 0 /\ DOMAIN << >> = {}
    /\ Gpus(<< >>) = {} /\ \A s : Count(<< >>, s) = 0
<1>1. << >> \in Seq(PlacementType) /\ Len(<< >>) = 0 /\ DOMAIN << >> = {}
  OBVIOUS
<1>2. Gpus(<< >>) = {}
  BY <1>1 DEF Gpus
<1>3. \A s : {k \in DOMAIN << >> : s \in << >>[k].slots} = {}
  BY <1>1
<1> QED BY <1>1, <1>2, <1>3, FS_EmptySet DEF Count

\* A round keeps the bookkeeping.
LEMMA RoundKeeps ==
    ASSUME NEW c \in SnapType, NEW used \in SUBSET Slots, NEW st \in LoopType, NEW n \in Nat,
           Keeps(c, used, n, st), st.ok, PoolOf(c, st) # {}, PortsOf(c, st) # {}
    PROVE  Keeps(c, used, n + 1, PlaceReplica(c, st))
<1> DEFINE s0 == PickOf(c, st)
           p0 == Least(PortsOf(c, st))
           new == Placement({s0}, p0, 0, 0)
           out == PlaceReplica(c, st)
<1>1. /\ out \in LoopType
      /\ out.free = [st.free EXCEPT ![s0] = st.free[s0] - Need]
      /\ out.used = st.used \cup {s0} /\ out.ports = st.ports \cup {p0}
      /\ out.placed = Append(st.placed, new)
  BY RoundDoes
<1>2. s0 \in Fitting(c, st.free) /\ s0 \in Slots
  BY PoolFits
<1>3. p0 \in InstancePorts /\ p0 \notin c.ports[s0[1]] /\ p0 \notin st.ports
  <2>1. PortsOf(c, st) \subseteq InstancePorts /\ InstancePorts \subseteq Nat
    BY SchedulerAssumption DEF PortsOf, FreePorts
  <2>2. p0 \in PortsOf(c, st)
    BY <2>1, LeastIn
  <2> QED BY <2>2 DEF PortsOf, FreePorts
<1> HIDE DEF s0, p0, out
<1>4. /\ new \in PlacementType /\ new.slots = {s0} /\ new.rank = 0 /\ new.port = p0
  BY <1>2, <1>3 DEF Placement, PlacementType
<1> HIDE DEF new
<1>5. /\ st.placed \in Seq(PlacementType) /\ st.free \in [Slots -> Int] /\ c.free \in [Slots -> Int]
      /\ out.placed \in Seq(PlacementType) /\ Len(st.placed) = n
      /\ Need \in Nat
  BY <1>1, SchedulerAssumption DEF LoopType, SnapType, Keeps
<1>6. /\ Len(out.placed) = n + 1
      /\ \A k \in 1 .. n : out.placed[k] = st.placed[k]
      /\ out.placed[n + 1] = new
      /\ Gpus(out.placed) = Gpus(st.placed) \cup {s0}
      /\ \A s : /\ Count(st.placed, s) \in Nat
                /\ Count(out.placed, s) = Count(st.placed, s) + (IF s = s0 THEN 1 ELSE 0)
  <2>1. /\ Len(out.placed) = n + 1
        /\ \A k \in 1 .. n : out.placed[k] = st.placed[k]
        /\ out.placed[n + 1] = new
    BY <1>1, <1>4, <1>5, AppendReads
  <2>2. Gpus(out.placed) = Gpus(st.placed) \cup {s0}
    BY <1>1, <1>4, <1>5, AppendReads
  <2>3. ASSUME NEW s
        PROVE  /\ Count(st.placed, s) \in Nat
               /\ Count(out.placed, s) = Count(st.placed, s) + (IF s = s0 THEN 1 ELSE 0)
    <3>1. /\ Count(st.placed, s) \in Nat
          /\ Count(Append(st.placed, new), s)
               = Count(st.placed, s) + (IF s \in new.slots THEN 1 ELSE 0)
      <4> DEFINE q == st.placed
      <4>1. q \in Seq(PlacementType) /\ new \in PlacementType
        BY <1>4, <1>5
      <4> HIDE DEF q
      <4>2. /\ Count(q, s) \in Nat
            /\ Count(Append(q, new), s) = Count(q, s) + (IF s \in new.slots THEN 1 ELSE 0)
        BY <4>1, AppendReads
      <4> QED BY <4>2 DEF q
    <3>2. s \in new.slots <=> s = s0
      BY <1>4
    <3> QED BY <1>1, <3>1, <3>2
  <2> QED BY <2>1, <2>2, <2>3
<1>7. s0 \in Fit(c) /\ st.free[s0] >= Need
  <2>1. st.free[s0] >= Need /\ s0 \in Usable(c)
    BY <1>2 DEF Fitting
  <2>2. st.free[s0] = c.free[s0] - Need * Count(st.placed, s0)
    BY <1>2 DEF Keeps
  <2>3. Need * Count(st.placed, s0) \in Nat
    BY <1>5, <1>6
  <2>4. c.free[s0] >= Need
    BY <1>2, <1>5, <2>1, <2>2, <2>3
  <2> QED BY <2>1, <2>4 DEF Fit, Fitting
<1>8. ASSUME NEW k \in 1 .. n + 1
      PROVE  \E s \in Fit(c) : /\ out.placed[k].slots = {s} /\ out.placed[k].rank = 0
                               /\ out.placed[k].port \in FreePorts(c, s[1], {})
  <2>1. CASE k \in 1 .. n
    BY <1>6, <2>1 DEF Keeps
  <2>2. CASE k = n + 1
    BY <1>3, <1>4, <1>6, <1>7, <2>2 DEF FreePorts
  <2> QED BY <2>1, <2>2
<1>9. ASSUME NEW j \in 1 .. n + 1, NEW k \in 1 .. n + 1, j # k
      PROVE  out.placed[j].port # out.placed[k].port
  <2>1. \A i \in 1 .. n : out.placed[i].port \in st.ports
    BY <1>6 DEF Keeps
  <2>2. out.placed[n + 1].port = p0
    BY <1>4, <1>6
  <2>3. CASE j \in 1 .. n /\ k \in 1 .. n
    BY <1>6, <1>9, <2>3 DEF Keeps
  <2>4. CASE j = n + 1 /\ k \in 1 .. n
    BY <1>3, <2>1, <2>2, <2>4
  <2>5. CASE j \in 1 .. n /\ k = n + 1
    BY <1>3, <2>1, <2>2, <2>5
  <2> QED BY <1>9, <2>3, <2>4, <2>5
<1>10. out.ports = {out.placed[k].port : k \in 1 .. n + 1}
  <2>1. st.ports = {out.placed[k].port : k \in 1 .. n}
    BY <1>6 DEF Keeps
  <2>2. out.ports = st.ports \cup {out.placed[n + 1].port}
    BY <1>1, <1>4, <1>6
  <2> QED BY <2>1, <2>2
<1>11. ASSUME NEW s \in Slots
       PROVE  out.free[s] = c.free[s] - Need * Count(out.placed, s)
  <2>1. st.free[s] = c.free[s] - Need * Count(st.placed, s)
    BY DEF Keeps
  <2>2. CASE s = s0
    <3>1. out.free[s] = st.free[s] - Need
      BY <1>1, <1>2, <1>5, <2>2
    <3>2. Count(out.placed, s) = Count(st.placed, s) + 1 /\ Count(st.placed, s) \in Nat
      BY <1>6, <2>2
    <3>3. Need * Count(out.placed, s) = Need * Count(st.placed, s) + Need
      BY <1>5, <3>2
    <3>4. Need * Count(st.placed, s) \in Int /\ c.free[s] \in Int
      BY <1>5, <3>2
    <3> QED BY <1>5, <2>1, <3>1, <3>3, <3>4
  <2>3. CASE s # s0
    BY <1>1, <1>2, <1>5, <1>6, <2>1, <2>3
  <2> QED BY <2>2, <2>3
<1>12. ASSUME NEW s \in Gpus(out.placed)
       PROVE  out.free[s] >= 0
  <2>1. CASE s = s0
    BY <1>1, <1>2, <1>5, <1>7, <2>1
  <2>2. CASE s # s0
    <3>1. s \in Gpus(st.placed) /\ st.free[s] >= 0
      BY <1>6, <2>2 DEF Keeps
    <3> QED BY <1>1, <1>2, <1>5, <2>2, <3>1
  <2> QED BY <2>1, <2>2
<1>13. out.used = used \cup Gpus(out.placed)
  BY <1>1, <1>6 DEF Keeps
<1> QED BY <1>6, <1>8, <1>9, <1>10, <1>11, <1>12, <1>13 DEF Keeps, out

\* Counting up to a limit.
LEMMA OneMore ==
    ASSUME NEW F, IsFiniteSet(F), NEW A \in SUBSET F, NEW n \in Nat,
           Cardinality(A) = Smaller(n, Cardinality(F))
    PROVE  /\ \A x \in F \ A : Cardinality(A \cup {x}) = Smaller(n + 1, Cardinality(F))
           /\ A = F => Cardinality(F) = Smaller(n + 1, Cardinality(F))
<1>1. IsFiniteSet(A) /\ Cardinality(A) \in Nat /\ Cardinality(F) \in Nat
  BY FS_Subset, FS_CardinalityType
<1>2. ASSUME NEW x \in F \ A
      PROVE  Cardinality(A \cup {x}) = Smaller(n + 1, Cardinality(F))
  <2>1. Cardinality(A \cup {x}) = Cardinality(A) + 1
    BY <1>1, FS_AddElement
  <2>2. Cardinality(A \cup {x}) <= Cardinality(F)
    <3>1. A \cup {x} \in SUBSET F
      OBVIOUS
    <3> QED BY <3>1, FS_Subset
  <2> QED BY <1>1, <2>1, <2>2 DEF Smaller
<1>3. A = F => Cardinality(F) = Smaller(n + 1, Cardinality(F))
  BY <1>1 DEF Smaller
<1> QED BY <1>2, <1>3

\* A round keeps the replicas apart.
LEMMA RoundKeepsApart ==
    ASSUME NEW c \in SnapType, NEW used \in SUBSET Slots, NEW st \in LoopType, NEW n \in Nat,
           Keeps(c, used, n, st), KeepsApart(c, used, n, st), st.ok,
           PoolOf(c, st) # {}, PortsOf(c, st) # {}
    PROVE  KeepsApart(c, used, n + 1, PlaceReplica(c, st))
<1> DEFINE s0 == PickOf(c, st)
           old == Gpus(st.placed)
           new == Gpus(PlaceReplica(c, st).placed)
           fit == Fitting(c, st.free)
           freshHost == {s \in fit : \A u \in st.used : u[1] # s[1]}
<1>1. new = old \cup {s0} /\ s0 \in Fit(c) /\ s0 \in PoolOf(c, st) /\ s0 \in fit
  <2>1. s0 \in PoolOf(c, st) /\ s0 \in fit /\ s0 \in Slots
    BY PoolFits
  <2>2. Keeps(c, used, n + 1, PlaceReplica(c, st)) /\ PlaceReplica(c, st) \in LoopType
    BY RoundKeeps, RoundDoes
  <2>3. PlaceReplica(c, st).used = st.used \cup {s0}
    BY RoundDoes
  <2> DEFINE p == Placement({s0}, Least(PortsOf(c, st)), 0, 0)
             q == PlaceReplica(c, st).placed
  <2>4. q = Append(st.placed, p) /\ p.slots = {s0}
    BY RoundDoes DEF Placement
  <2>5. /\ DOMAIN q = 1 .. n + 1 /\ DOMAIN st.placed = 1 .. n /\ n + 1 \in 1 .. n + 1
        /\ \A k \in 1 .. n : q[k] = st.placed[k]
        /\ q[n + 1] = p
    BY <2>2, <2>4 DEF Keeps, LoopType
  <2> HIDE DEF p, q, s0
  <2>6. Gpus(q) = old \cup {s0}
    BY <2>4, <2>5 DEF Gpus
  <2>7. PICK s \in Fit(c) : q[n + 1].slots = {s}
    BY <2>2 DEF Keeps, q
  <2>8. s0 \in Fit(c)
    <3>1. {s} = {s0}
      BY <2>4, <2>5, <2>7
    <3> QED BY <3>1
  <2> QED BY <2>1, <2>6, <2>8 DEF q
<1>2. /\ Fit(c) \subseteq Slots /\ IsFiniteSet(Fit(c)) /\ old \subseteq Fit(c)
      /\ fit \subseteq Fit(c)
      /\ \A s \in Fit(c) \ old : s \in fit
  <2>0. /\ Fit(c) \subseteq Slots /\ IsFiniteSet(Slots) /\ Need \in Nat
        /\ c.free \in [Slots -> Int] /\ st.placed \in Seq(PlacementType) /\ Len(st.placed) = n
    BY SchedulerAssumption DEF Fit, Fitting, Usable, SnapType, LoopType, Keeps
  <2>1. IsFiniteSet(Fit(c))
    BY <2>0, FS_Subset
  <2>2. old \subseteq Fit(c)
    <3>1. DOMAIN st.placed = 1 .. n
      BY <2>0
    <3>2. \A k \in 1 .. n : \E s \in Fit(c) : st.placed[k].slots = {s}
      BY DEF Keeps
    <3> QED BY <3>1, <3>2 DEF Gpus
  <2>3. \A s \in Slots : /\ st.free[s] = c.free[s] - Need * Count(st.placed, s)
                         /\ Count(st.placed, s) \in Nat
                         /\ s \notin old => Count(st.placed, s) = 0
    <3>1. [slots |-> {}, port |-> 0, rank |-> 0, rv |-> 0] \in PlacementType
      BY DEF PlacementType
    <3> QED BY <2>0, <3>1, AppendReads DEF Keeps
  <2>4. \A s \in Slots : st.free[s] <= c.free[s] /\ (s \notin old => st.free[s] = c.free[s])
    <3> SUFFICES ASSUME NEW s \in Slots
                 PROVE  st.free[s] <= c.free[s] /\ (s \notin old => st.free[s] = c.free[s])
      OBVIOUS
    <3>1. Need * Count(st.placed, s) \in Nat /\ c.free[s] \in Int
      BY <2>0, <2>3
    <3>2. s \notin old => Need * Count(st.placed, s) = 0
      BY <2>0, <2>3
    <3> QED BY <2>3, <3>1, <3>2
  <2>5. fit \subseteq Fit(c) /\ \A s \in Fit(c) \ old : s \in fit
    <3>1. \A s \in Slots : st.free[s] \in Int /\ c.free[s] \in Int
      BY <2>0 DEF LoopType
    <3>2. Usable(c) \subseteq Slots
      BY SchedulerAssumption DEF Usable
    <3> QED BY <2>0, <2>4, <3>1, <3>2 DEF Fit, Fitting
  <2> QED BY <2>0, <2>1, <2>2, <2>5
<1>3. st.used = used \cup old
  BY DEF Keeps
<1>4. PoolOf(c, st) = IF freshHost # {} THEN freshHost
                      ELSE IF fit \ st.used # {} THEN fit \ st.used ELSE fit
  BY DEF PoolOf, Pool
<1> DEFINE H == Fresh(c, used)
           G == Fit(c) \ used
           A == HostsIn(old) \cap H
           B == old \ used
<1>5. /\ IsFiniteSet(H) /\ IsFiniteSet(G) /\ A \in SUBSET H /\ B \in SUBSET G
      /\ Cardinality(A) = Smaller(n, Cardinality(H)) /\ Cardinality(B) = Smaller(n, Cardinality(G))
  <2>1. HostsIn(Fit(c)) \subseteq Hosts
    BY <1>2, GpuIsPair DEF HostsIn
  <2>2. H \in SUBSET Hosts /\ IsFiniteSet(Hosts)
    BY <2>1, SchedulerAssumption DEF Fresh
  <2>3. IsFiniteSet(H)
    BY <2>2, FS_Subset
  <2>4. IsFiniteSet(G)
    BY <1>2, FS_Subset
  <2> QED BY <1>2, <2>3, <2>4 DEF KeepsApart
<1>6. HostsIn(new) \cap H = A \cup ({s0[1]} \cap H) /\ new \ used = B \cup ({s0} \ used)
  BY <1>1 DEF HostsIn
<1> HIDE DEF s0, old, new, fit, freshHost, H, G, A, B
<1> DEFINE Goal == /\ Cardinality(HostsIn(new) \cap H) = Smaller(n + 1, Cardinality(H))
                   /\ Cardinality(new \ used) = Smaller(n + 1, Cardinality(G))
<1> SUFFICES Goal
  BY DEF KeepsApart, new, H, G
<1>7. CASE freshHost # {}
  <2>1. s0 \in freshHost
    BY <1>1, <1>4, <1>7
  <2>2. \A u \in used \cup old : u[1] # s0[1]
    BY <1>3, <2>1 DEF freshHost
  <2>3. s0[1] \in H \ A
    BY <1>1, <2>2 DEF H, A, Fresh, HostsIn
  <2>4. s0 \in G \ B /\ s0 \notin used
    BY <1>1, <2>2 DEF G, B
  <2>5. HostsIn(new) \cap H = A \cup {s0[1]} /\ new \ used = B \cup {s0}
    BY <1>6, <2>3, <2>4
  <2> QED BY <1>5, <2>3, <2>4, <2>5, OneMore
<1>8. CASE freshHost = {}
  <2>1. A = H
    <3>1. ASSUME NEW h \in H, h \notin HostsIn(old) PROVE FALSE
      <4>1. PICK s \in Fit(c) : h = s[1]
        BY <3>1 DEF H, Fresh, HostsIn
      <4>2. s \in fit
        BY <1>2, <3>1, <4>1 DEF HostsIn
      <4>3. \A u \in used \cup old : u[1] # s[1]
        BY <3>1, <4>1 DEF H, Fresh, HostsIn
      <4> QED BY <1>3, <1>8, <4>2, <4>3 DEF freshHost
    <3> QED BY <3>1 DEF A
  <2>2. HostsIn(new) \cap H = H
    BY <1>6, <2>1
  <2>3. Cardinality(HostsIn(new) \cap H) = Smaller(n + 1, Cardinality(H))
    BY <1>5, <2>1, <2>2, OneMore
  <2>4. CASE fit \ st.used # {}
    <3>1. s0 \in fit \ st.used
      BY <1>1, <1>4, <1>8, <2>4
    <3>2. s0 \in G \ B /\ s0 \notin used
      BY <1>1, <1>3, <3>1 DEF G, B
    <3>3. new \ used = B \cup {s0}
      BY <1>6, <3>2
    <3>4. Cardinality(new \ used) = Smaller(n + 1, Cardinality(G))
      BY <1>5, <3>2, <3>3, OneMore
    <3> QED BY <2>3, <3>4
  <2>5. CASE fit \ st.used = {}
    <3>1. B = G
      BY <1>2, <1>3, <2>5 DEF B, G
    <3>2. s0 \in used \cup old
      BY <1>1, <1>3, <2>5
    <3>3. new \ used = G
      BY <1>2, <1>6, <3>1, <3>2 DEF G
    <3>4. Cardinality(new \ used) = Smaller(n + 1, Cardinality(G))
      BY <1>5, <3>1, <3>3, OneMore
    <3> QED BY <2>3, <3>4
  <2> QED BY <2>4, <2>5
<1> QED BY <1>7, <1>8

\* The loop stopped in state st: no GPU has room, or the host of the best one no port.
Stuck(c, st) == PoolOf(c, st) = {} \/ PortsOf(c, st) = {}

\* A round succeeds unless it is stuck or one before was.
LEMMA RoundVerdict ==
    ASSUME NEW c \in SnapType, NEW st \in LoopType
    PROVE  PlaceReplica(c, st).ok <=> st.ok /\ ~Stuck(c, st)
  BY RoundDoes DEF Stuck

\* After every round, what is kept is kept; or a round before got stuck.
LEMMA RoundsKeep ==
    ASSUME NEW c \in SnapType, NEW used \in SUBSET Slots, NEW count \in Nat, NEW f,
           Rounds(c, used, count, f), NEW n \in 0 .. count
    PROVE  IF f[n].ok THEN Keeps(c, used, n, f[n]) /\ KeepsApart(c, used, n, f[n])
           ELSE \E k \in 0 .. n - 1 : Keeps(c, used, k, f[k]) /\ Stuck(c, f[k])
<1> DEFINE P(m) == IF f[m].ok THEN Keeps(c, used, m, f[m]) /\ KeepsApart(c, used, m, f[m])
                   ELSE \E k \in 0 .. m - 1 : Keeps(c, used, k, f[k]) /\ Stuck(c, f[k])
           Bad == {m \in 0 .. count : ~P(m)}
<1>1. P(0)
  <2>1. f[0] = Start(c, used)
    BY DEF Rounds
  <2>2. /\ f[0].ok /\ f[0].free = c.free /\ f[0].used = used /\ f[0].ports = {}
        /\ f[0].placed = << >>
    BY <2>1 DEF Start
  <2>3. \A s \in Slots : c.free[s] \in Int
    BY DEF SnapType
  <2>4. \A s \in Slots : c.free[s] = c.free[s] - Need * Count(f[0].placed, s)
    BY <2>2, <2>3, EmptyReads, SchedulerAssumption
  <2>5. Keeps(c, used, 0, f[0])
    BY <2>2, <2>4, EmptyReads DEF Keeps
  <2>6. KeepsApart(c, used, 0, f[0])
    <3>1. Gpus(f[0].placed) = {}
      BY <2>2, EmptyReads
    <3>2. HostsIn(Gpus(f[0].placed)) \cap Fresh(c, used) = {} /\ Gpus(f[0].placed) \ used = {}
      BY <3>1 DEF HostsIn
    <3>3. IsFiniteSet(Fit(c) \ used) /\ IsFiniteSet(Fresh(c, used))
      <4>1. Fit(c) \in SUBSET Slots
        BY SchedulerAssumption DEF Fit, Fitting, Usable
      <4>2. Fit(c) \ used \in SUBSET Slots /\ Fresh(c, used) \in SUBSET Hosts
        BY <4>1, GpuIsPair DEF Fresh, HostsIn
      <4> QED BY <4>2, SchedulerAssumption, FS_Subset
    <3>4. Cardinality(Fit(c) \ used) \in Nat /\ Cardinality(Fresh(c, used)) \in Nat
      BY <3>3, FS_CardinalityType
    <3> QED BY <3>2, <3>4, FS_EmptySet DEF KeepsApart, Smaller
  <2> QED BY <2>2, <2>5, <2>6
<1>2. ASSUME NEW m \in 1 .. count, P(m - 1)
      PROVE  P(m)
  <2>1. m - 1 \in Nat /\ m - 1 \in 0 .. m - 1 /\ m - 1 \in 0 .. count /\ (m - 1) + 1 = m
    OBVIOUS
  <2>2. f[m - 1] \in LoopType /\ f[m] = PlaceReplica(c, f[m - 1])
    BY <2>1 DEF Rounds
  <2>3. CASE ~f[m - 1].ok
    <3>1. PICK k \in 0 .. (m - 1) - 1 : Keeps(c, used, k, f[k]) /\ Stuck(c, f[k])
      BY <1>2, <2>3
    <3>2. ~f[m].ok
      BY <2>2, <2>3, RoundVerdict
    <3>3. k \in 0 .. m - 1
      BY <3>1
    <3> QED BY <3>1, <3>2, <3>3
  <2>4. CASE f[m - 1].ok /\ Stuck(c, f[m - 1])
    <3>1. ~f[m].ok
      BY <2>2, <2>4, RoundVerdict
    <3> QED BY <1>2, <2>1, <2>4, <3>1
  <2>5. CASE f[m - 1].ok /\ ~Stuck(c, f[m - 1])
    <3>1. f[m].ok
      BY <2>2, <2>5, RoundVerdict
    <3>2. Keeps(c, used, m, f[m])
      BY <1>2, <2>1, <2>2, <2>5, RoundKeeps DEF Stuck
    <3>3. KeepsApart(c, used, m, f[m])
      BY <1>2, <2>1, <2>2, <2>5, RoundKeepsApart DEF Stuck
    <3> QED BY <3>1, <3>2, <3>3
  <2> QED BY <2>3, <2>4, <2>5
<1> HIDE DEF P
<1>3. Bad = {}
  <2>1. SUFFICES ASSUME Bad # {} PROVE FALSE
    OBVIOUS
  <2>2. Bad \in SUBSET Nat
    OBVIOUS
  <2>3. PICK m \in Bad : \A j \in Bad : m <= j
    <3> HIDE DEF Bad
    <3> QED BY <2>1, <2>2, LeastOf
  <2>4. m \in 0 .. count /\ ~P(m) /\ m # 0
    BY <1>1
  <2>5. m \in 1 .. count /\ m - 1 \in 0 .. count /\ m - 1 \notin Bad
    <3> HIDE DEF Bad
    <3> QED BY <2>3, <2>4
  <2>6. P(m - 1)
    BY <2>5
  <2> QED BY <1>2, <2>4, <2>5, <2>6
<1>4. P(n)
  BY <1>3
<1> QED BY <1>4 DEF P

\* The numbers up to n are n numbers.
LEMMA UpTo ==
    ASSUME NEW n \in Nat
    PROVE  IsFiniteSet(1 .. n) /\ Cardinality(1 .. n) = n
<1>1. Cardinality(1 .. n) = IF 1 > n THEN 0 ELSE n - 1 + 1
  BY FS_Interval
<1> QED BY <1>1, FS_Interval

\* A set embeds into another that has at least as many elements.
LEMMA Embeds ==
    ASSUME NEW A, NEW B, IsFiniteSet(A), IsFiniteSet(B), Cardinality(A) <= Cardinality(B)
    PROVE  \E g \in [A -> B] : \A x, y \in A : g[x] = g[y] => x = y
<1> DEFINE p == Cardinality(A)
           q == Cardinality(B)
<1>1. p \in Nat /\ q \in Nat
  BY FS_CardinalityType
<1>2. PICK a : a \in Bijection(1 .. p, A)
  BY FS_CardinalityType DEF ExistsBijection
<1>3. PICK b : b \in Bijection(1 .. q, B)
  BY FS_CardinalityType DEF ExistsBijection
<1> HIDE DEF p, q
<1> DEFINE idx(x) == CHOOSE i \in 1 .. p : a[i] = x
           g == [x \in A |-> b[idx(x)]]
<1>4. \A x \in A : idx(x) \in 1 .. p /\ a[idx(x)] = x
  <2>1. \A x \in A : \E i \in 1 .. p : a[i] = x
    BY <1>2 DEF Bijection, Surjection
  <2> QED BY <2>1
<1> HIDE DEF idx
<1>5. b \in [1 .. q -> B] /\ \A i, j \in 1 .. q : b[i] = b[j] => i = j
  BY <1>3 DEF Bijection, Injection, IsInjective
<1>6. \A x \in A : idx(x) \in 1 .. q
  BY <1>1, <1>4 DEF p, q
<1>7. g \in [A -> B]
  BY <1>5, <1>6
<1>8. \A x, y \in A : g[x] = g[y] => x = y
  BY <1>4, <1>5, <1>6
<1> QED BY <1>7, <1>8

\* Whole replicas in the memory of a GPU.
LEMMA WholeReplicas ==
    ASSUME NEW a \in Nat, NEW b \in Nat, Need * a < Need * b + Need
    PROVE  a <= b
<1>1. Need \in Nat /\ Need > 0
  BY SchedulerAssumption
<1>2. SUFFICES ASSUME a >= b + 1 PROVE FALSE
  OBVIOUS
<1>3. PICK d \in Nat : a = b + 1 + d
  <2>1. a - (b + 1) \in Nat /\ a = b + 1 + (a - (b + 1))
    BY <1>2
  <2> QED BY <2>1
<1>4. Need * a = Need * b + Need + Need * d
  BY <1>1, <1>3
<1>5. Need * d \in Nat /\ Need * b \in Nat
  BY <1>1
<1> QED BY <1>1, <1>4, <1>5

\* Every way to put count replicas on GPUs that fit over-commits one; a host has too few
\* free ports for count replicas.
Overfull(c, f) == \E s \in Fit(c) : Need * Cardinality({k \in DOMAIN f : f[k] = s}) > c.free[s]
Tight(c, n) == \E h \in c.up : Cardinality(FreePorts(c, h, {})) < n

\* A loop that is stuck had no choice.
LEMMA StuckJustified ==
    ASSUME NEW c \in SnapType, NEW used \in SUBSET Slots, NEW count \in Nat, NEW k \in 0 .. count - 1,
           NEW st \in LoopType, Keeps(c, used, k, st), Stuck(c, st)
    PROVE  (\A f \in [1 .. count -> Fit(c)] : Overfull(c, f)) \/ Tight(c, count)
<1>0. /\ k \in Nat /\ k < count /\ Len(st.placed) = k /\ DOMAIN st.placed = 1 .. k
      /\ Fit(c) \subseteq Slots /\ c.free \in [Slots -> Int] /\ st.free \in [Slots -> Int]
      /\ Need \in Nat
  BY SchedulerAssumption DEF Keeps, LoopType, Fit, Fitting, Usable, SnapType
<1>1. CASE PoolOf(c, st) = {}
  <2>1. Fitting(c, st.free) = {}
    BY <1>1, PoolFits
  <2>2. SUFFICES ASSUME NEW f \in [1 .. count -> Fit(c)], ~Overfull(c, f) PROVE FALSE
    OBVIOUS
  <2> DEFINE A(s) == {i \in 1 .. count : f[i] = s}
             B(s) == {j \in 1 .. k : s \in st.placed[j].slots}
  <2>3. ASSUME NEW s \in Fit(c)
        PROVE  /\ IsFiniteSet(A(s)) /\ IsFiniteSet(B(s))
               /\ Cardinality(A(s)) <= Cardinality(B(s))
    <3>1. A(s) \in SUBSET (1 .. count) /\ B(s) \in SUBSET (1 .. k)
      OBVIOUS
    <3>2. IsFiniteSet(1 .. count) /\ IsFiniteSet(1 .. k)
      BY <1>0, FS_Interval
    <3>3. DOMAIN f = 1 .. count /\ Count(st.placed, s) = Cardinality(B(s))
      BY <1>0 DEF Count
    <3>4. ~(Need * Cardinality(A(s)) > c.free[s])
      BY <2>2, <3>3 DEF Overfull
    <3> HIDE DEF A, B
    <3>5. IsFiniteSet(A(s)) /\ IsFiniteSet(B(s))
      BY <3>1, <3>2, FS_Subset
    <3>6. Cardinality(A(s)) \in Nat /\ Cardinality(B(s)) \in Nat
      BY <3>5, FS_CardinalityType
    <3>7. s \in Slots /\ st.free[s] = c.free[s] - Need * Cardinality(B(s))
      BY <1>0, <3>3 DEF Keeps
    <3>8. st.free[s] < Need
      BY <1>0, <2>1, <3>7 DEF Fit, Fitting
    <3>9. Need * Cardinality(A(s)) \in Nat /\ Need * Cardinality(B(s)) \in Nat
      BY <1>0, <3>6
    <3>10. Need * Cardinality(A(s)) < Need * Cardinality(B(s)) + Need
      BY <1>0, <3>4, <3>7, <3>8, <3>9
    <3> QED BY <3>5, <3>6, <3>10, WholeReplicas
  <2> DEFINE inj(s) == CHOOSE g \in [A(s) -> B(s)] : \A x, y \in A(s) : g[x] = g[y] => x = y
  <2>4. ASSUME NEW s \in Fit(c)
        PROVE  inj(s) \in [A(s) -> B(s)] /\ \A x, y \in A(s) : inj(s)[x] = inj(s)[y] => x = y
    <3> HIDE DEF A, B
    <3>1. \E g \in [A(s) -> B(s)] : \A x, y \in A(s) : g[x] = g[y] => x = y
      BY <2>3, Embeds
    <3> QED BY <3>1
  <2> HIDE DEF inj
  <2> DEFINE e == [i \in 1 .. count |-> inj(f[i])[i]]
  <2>5. ASSUME NEW i \in 1 .. count
        PROVE  f[i] \in Fit(c) /\ i \in A(f[i]) /\ e[i] \in B(f[i]) /\ e[i] \in 1 .. k
    <3>1. f[i] \in Fit(c) /\ i \in A(f[i])
      OBVIOUS
    <3>2. e[i] \in B(f[i])
      <4> HIDE DEF A, B
      <4> QED BY <2>4, <3>1
    <3> QED BY <3>1, <3>2
  <2>6. ASSUME NEW i \in 1 .. count, NEW j \in 1 .. count, e[i] = e[j]
        PROVE  i = j
    <3>1. f[i] \in st.placed[e[i]].slots /\ f[j] \in st.placed[e[i]].slots /\ e[i] \in 1 .. k
      BY <2>5, <2>6
    <3>2. PICK s \in Fit(c) : st.placed[e[i]].slots = {s}
      BY <3>1 DEF Keeps
    <3>3. f[i] = f[j]
      BY <3>1, <3>2
    <3>4. i \in A(f[i]) /\ j \in A(f[i]) /\ inj(f[i])[i] = inj(f[i])[j]
      BY <2>5, <2>6, <3>3
    <3> HIDE DEF A, B
    <3> QED BY <2>4, <2>5, <3>4
  <2>7. e \in Injection(1 .. count, 1 .. k)
    <3>1. e \in [1 .. count -> 1 .. k]
      BY <2>5
    <3> HIDE DEF e
    <3> QED BY <2>6, <3>1 DEF Injection, IsInjective
  <2>8. Cardinality(1 .. count) <= Cardinality(1 .. k)
    BY <1>0, <2>7, FS_Interval, FS_Injection
  <2>9. Cardinality(1 .. count) = count /\ Cardinality(1 .. k) = k
    BY <1>0, UpTo
  <2> QED BY <1>0, <2>8, <2>9
<1>2. CASE PoolOf(c, st) # {} /\ PortsOf(c, st) = {}
  <2> DEFINE h == PickOf(c, st)[1]
             F == FreePorts(c, h, {})
  <2>1. h \in c.up
    BY <1>2, PoolFits DEF Fitting, Usable
  <2>2. F \in SUBSET st.ports
    BY <1>2 DEF PortsOf, FreePorts
  <2> DEFINE g == [j \in 1 .. k |-> st.placed[j].port]
  <2>3. st.ports = {st.placed[j].port : j \in 1 .. k}
    BY DEF Keeps
  <2>4. g \in Surjection(1 .. k, st.ports)
    BY <2>3 DEF Surjection
  <2> HIDE DEF g
  <2>5. IsFiniteSet(st.ports) /\ Cardinality(st.ports) <= Cardinality(1 .. k) /\ Cardinality(1 .. k) = k
    BY <1>0, <2>4, FS_Interval, FS_Surjection
  <2> HIDE DEF F
  <2>6. IsFiniteSet(F) /\ Cardinality(F) <= Cardinality(st.ports)
    BY <2>2, <2>5, FS_Subset
  <2>7. Cardinality(F) \in Nat /\ Cardinality(st.ports) \in Nat
    BY <2>5, <2>6, FS_CardinalityType
  <2>8. Cardinality(F) < count
    BY <1>0, <2>5, <2>6, <2>7
  <2> QED BY <2>1, <2>8 DEF Tight, F
<1> QED BY <1>1, <1>2 DEF Stuck

\* What allocate_replicas returns: count placements, or nothing and for a reason.
LEMMA ReplicasSound ==
    ASSUME NEW c \in SnapType, NEW used \in SUBSET Slots, NEW count \in Nat, NEW out,
           out = allocate_replicas(c, count, used)
    PROVE  \/ /\ out.ok = TRUE
              /\ \E st \in LoopType : /\ out.placed = st.placed
                                      /\ Keeps(c, used, count, st) /\ KeepsApart(c, used, count, st)
           \/ /\ out.ok = FALSE /\ out.placed = << >>
              /\ (\A f \in [1 .. count -> Fit(c)] : Overfull(c, f)) \/ Tight(c, count)
<1>1. PICK f : /\ Rounds(c, used, count, f)
               /\ out = IF f[count].ok THEN Granted(f[count].placed) ELSE Refused
  BY AllocateRuns
<1>2. \A n \in 0 .. count : f[n] \in LoopType
  BY <1>1 DEF Rounds
<1>3. CASE f[count].ok
  <2>1. out.ok = TRUE /\ out.placed = f[count].placed
    BY <1>1, <1>3 DEF Granted
  <2>2. Keeps(c, used, count, f[count]) /\ KeepsApart(c, used, count, f[count])
    BY <1>1, <1>3, RoundsKeep
  <2> QED BY <1>2, <2>1, <2>2
<1>4. CASE ~f[count].ok
  <2>1. out.ok = FALSE /\ out.placed = << >>
    BY <1>1, <1>4 DEF Refused
  <2>2. PICK k \in 0 .. count - 1 : Keeps(c, used, k, f[k]) /\ Stuck(c, f[k])
    BY <1>1, <1>4, RoundsKeep
  <2>3. (\A g \in [1 .. count -> Fit(c)] : Overfull(c, g)) \/ Tight(c, count)
    BY <1>2, <2>2, StuckJustified
  <2> QED BY <2>1, <2>3
<1> QED BY <1>3, <1>4

(***************************************************************************)
(* allocate_parallel_replicas: one group.                                  *)
(***************************************************************************)
Able(c, exclude) == {h \in c.up \ exclude : OnHost(c, h) # {}}

\* A group of n ranks, one per host: the head is rank 0, has a port, and an address.
Grouped(c, n, exclude, placed) ==
    /\ placed \in Seq(PlacementType) /\ Len(placed) = n
    /\ \A k \in 1 .. n :
         /\ placed[k].rank = k - 1
         /\ \E s \in Fit(c) : placed[k].slots = {s} /\ s[1] \notin exclude
         /\ (k = 1) <=> (placed[k].port # 0)
    /\ HostOf(placed[1]) \subseteq Addressed
    /\ \A h \in HostOf(placed[1]) : placed[1].port \notin c.ports[h]
    /\ \A j, k \in 1 .. n : j # k => HostOf(placed[j]) \cap HostOf(placed[k]) = {}

\* Why a group cannot be placed.
NoGroup(c, n, exclude) ==
    \/ Able(c, exclude) \cap Addressed = {} \/ Cardinality(Able(c, exclude)) < n
    \/ \E h \in c.up : FreePorts(c, h, {}) = {} \/ FreeRendezvous(c, h) = {}

LEMMA GroupSound ==
    ASSUME NEW c \in SnapType, NEW n \in Nat, n # 0, NEW exclude \in SUBSET Hosts, NEW out,
           out = allocate_parallel_replicas(c, n, exclude)
    PROVE  \/ out.ok = TRUE /\ Grouped(c, n, exclude, out.placed)
           \/ out.ok = FALSE /\ out.placed = << >> /\ NoGroup(c, n, exclude)
<1> DEFINE fitting == Able(c, exclude)
           head == GroupHead(c, fitting)
           hostOf(r) == CHOOSE h \in fitting : GroupRank(c, fitting, head, h) = r
           no == \/ fitting \cap Addressed = {} \/ Cardinality(fitting) < n
                 \/ FreePorts(c, head, {}) = {} \/ FreeRendezvous(c, head) = {}
           port(k) == IF k = 1 THEN Least(FreePorts(c, head, {})) ELSE 0
           rv == Least(FreeRendezvous(c, head))
           ranks == [k \in 1 .. n |-> Placement({RoomiestGpu(c, hostOf(k - 1))}, port(k), k - 1, rv)]
<1>1. out = IF no THEN Refused ELSE Granted(ranks)
  BY DEF allocate_parallel_replicas, Able
<1>2. /\ c.up \in SUBSET Hosts /\ fitting \in SUBSET Hosts /\ fitting \subseteq c.up \ exclude
      /\ \A h \in fitting : OnHost(c, h) # {}
  BY DEF SnapType, Able
<1>3. fitting \cap Addressed # {} => head \in fitting \cap Addressed
  BY <1>2, HeadIn
<1> HIDE DEF fitting, head
<1>4. CASE no
  <2>1. out.ok = FALSE /\ out.placed = << >>
    BY <1>1, <1>4 DEF Refused
  <2>2. NoGroup(c, n, exclude)
    BY <1>2, <1>3, <1>4 DEF NoGroup, fitting
  <2> QED BY <2>1, <2>2
<1>5. CASE ~no
  <2>0. out.ok = TRUE /\ out.placed = ranks
    <3> HIDE DEF ranks, no
    <3> QED BY <1>1, <1>5 DEF Granted
  <2>1. head \in fitting /\ head \in Addressed /\ head \in Hosts
    BY <1>2, <1>3, <1>5
  <2>2. Cardinality(fitting) \in Nat /\ Cardinality(fitting) >= n
    BY <1>2, <1>5, <2>1, RanksNumber
  <2>3. ASSUME NEW r \in 0 .. n - 1
        PROVE  hostOf(r) \in fitting /\ GroupRank(c, fitting, head, hostOf(r)) = r
    <3>1. r \in 0 .. Cardinality(fitting) - 1
      BY <2>2
    <3>2. \E h \in fitting : GroupRank(c, fitting, head, h) = r
      BY <1>2, <2>1, <3>1, RanksNumber
    <3> QED BY <3>2
  <2>4. 0 \in 0 .. n - 1 /\ hostOf(0) = head
    <3>1. 0 \in 0 .. n - 1
      OBVIOUS
    <3>2. \A h \in fitting : GroupRank(c, fitting, head, h) = 0 => h = head
      BY <1>2, <2>1, RanksNumber
    <3> QED BY <2>3, <3>1, <3>2
  <2> HIDE DEF hostOf
  <2>5. \A p, q \in 0 .. n - 1 : p # q => hostOf(p) # hostOf(q)
    BY <2>3
  <2>6. Least(FreePorts(c, head, {})) \in FreePorts(c, head, {})
    <3>1. FreePorts(c, head, {}) \in SUBSET Nat
      BY SchedulerAssumption DEF FreePorts
    <3> QED BY <1>5, <3>1, LeastIn
  <2>7. rv \in RendezvousPorts
    <3>1. FreeRendezvous(c, head) \in SUBSET Nat
      BY SchedulerAssumption DEF FreeRendezvous
    <3>2. rv \in FreeRendezvous(c, head)
      BY <1>5, <3>1, LeastIn
    <3> QED BY <3>2 DEF FreeRendezvous
  <2>8. /\ port(1) \in InstancePorts /\ port(1) # 0 /\ port(1) \notin c.ports[head]
        /\ \A k \in 1 .. n : k # 1 => port(k) = 0
    BY <2>6, SchedulerAssumption DEF FreePorts
  <2> HIDE DEF port, rv
  <2>9. ASSUME NEW k \in 1 .. n
        PROVE  /\ RoomiestGpu(c, hostOf(k - 1)) \in Fit(c)
               /\ RoomiestGpu(c, hostOf(k - 1))[1] = hostOf(k - 1)
               /\ RoomiestGpu(c, hostOf(k - 1)) \in Slots
    <3>1. k - 1 \in 0 .. n - 1
      OBVIOUS
    <3>2. hostOf(k - 1) \in Hosts /\ OnHost(c, hostOf(k - 1)) # {}
      BY <1>2, <2>3, <3>1
    <3>3. RoomiestGpu(c, hostOf(k - 1)) \in OnHost(c, hostOf(k - 1))
      BY <3>2, RoomiestIn
    <3> QED BY <3>3, SchedulerAssumption DEF OnHost, Fit, Fitting, Usable
  <2>10. ASSUME NEW k \in 1 .. n
         PROVE  /\ ranks[k] \in PlacementType /\ ranks[k].rank = k - 1 /\ ranks[k].port = port(k)
                /\ ranks[k].slots = {RoomiestGpu(c, hostOf(k - 1))}
                /\ HostOf(ranks[k]) = {hostOf(k - 1)}
    <3>1. ranks[k] = Placement({RoomiestGpu(c, hostOf(k - 1))}, port(k), k - 1, rv)
      OBVIOUS
    <3>2. port(k) \in InstancePorts \cup {0}
      BY <2>8
    <3>3. k - 1 \in Nat
      OBVIOUS
    <3> HIDE DEF ranks
    <3>4. ranks[k] \in PlacementType
      BY <2>7, <2>9, <3>1, <3>2, <3>3 DEF Placement, PlacementType
    <3>5. /\ ranks[k].rank = k - 1 /\ ranks[k].port = port(k)
          /\ ranks[k].slots = {RoomiestGpu(c, hostOf(k - 1))}
      BY <3>1 DEF Placement
    <3>6. HostOf(ranks[k]) = {hostOf(k - 1)}
      BY <2>9, <3>5 DEF HostOf
    <3> QED BY <3>4, <3>5, <3>6
  <2>11. ranks \in Seq(PlacementType) /\ Len(ranks) = n
    <3>1. ranks \in [1 .. n -> PlacementType]
      BY <2>10
    <3> HIDE DEF ranks
    <3> QED BY <3>1
  <2> HIDE DEF ranks
  <2>12. ASSUME NEW k \in 1 .. n
         PROVE  /\ ranks[k].rank = k - 1
                /\ \E s \in Fit(c) : ranks[k].slots = {s} /\ s[1] \notin exclude
                /\ (k = 1) <=> (ranks[k].port # 0)
    <3>1. k - 1 \in 0 .. n - 1
      OBVIOUS
    <3>2. hostOf(k - 1) \notin exclude
      BY <1>2, <2>3, <3>1
    <3> QED BY <2>8, <2>9, <2>10, <3>2
  <2>13. /\ HostOf(ranks[1]) \subseteq Addressed
         /\ \A h \in HostOf(ranks[1]) : ranks[1].port \notin c.ports[h]
    <3>1. 1 \in 1 .. n /\ 1 - 1 = 0
      OBVIOUS
    <3>2. HostOf(ranks[1]) = {head} /\ ranks[1].port = port(1)
      BY <2>4, <2>10, <3>1
    <3> QED BY <2>1, <2>8, <3>2
  <2>14. ASSUME NEW j \in 1 .. n, NEW k \in 1 .. n, j # k
         PROVE  HostOf(ranks[j]) \cap HostOf(ranks[k]) = {}
    <3>1. j - 1 \in 0 .. n - 1 /\ k - 1 \in 0 .. n - 1 /\ j - 1 # k - 1
      BY <2>14
    <3>2. hostOf(j - 1) # hostOf(k - 1)
      BY <2>5, <3>1
    <3> QED BY <2>10, <3>2
  <2>15. Grouped(c, n, exclude, ranks)
    BY <2>11, <2>12, <2>13, <2>14 DEF Grouped
  <2> QED BY <2>0, <2>15
<1> QED BY <1>4, <1>5

(***************************************************************************)
(* The rows: what the scheduler reads of them, and new rows.               *)
(***************************************************************************)
RowsType == [Ids -> InstType]

\* Ids are numbers, finitely many.
LEMMA IdsFinite == /\ Ids \subseteq Nat \ {0} /\ IsFiniteSet(Ids) /\ Cardinality(Ids) = MaxInst
                   /\ MaxInst \in Nat
<1>1. MaxInst \in Nat
  BY ScalingAssumption
<1> QED BY <1>1, UpTo DEF Ids

\* The hosts of a row, and of all rows.
LEMMA HostsTyped ==
    ASSUME NEW m \in RowsType
    PROVE  /\ \A i \in Ids : m[i].slots \subseteq Slots /\ HostOf(m[i]) \subseteq Hosts
           /\ HostsOf(m) \subseteq Hosts
<1>1. \A i \in Ids : m[i] \in InstType /\ m[i].slots \subseteq Slots
  BY DEF RowsType, InstType
<1>2. \A i \in Ids : HostOf(m[i]) \subseteq Hosts
  BY <1>1, GpuIsPair DEF HostOf
<1> QED BY <1>1, <1>2 DEF HostsOf, Rows

\* A reading of the rows is a snapshot; a host no row is on is all free.
LEMMA SnapshotReads ==
    ASSUME NEW m \in RowsType, NEW up \in SUBSET Hosts
    PROVE  /\ Snapshot(m, up) \in SnapType /\ Snapshot(m, up).up = up
           /\ \A h \in Hosts \ HostsOf(m) : Snapshot(m, up).ports[h] = {}
           /\ \A s \in Slots : s[1] \notin HostsOf(m) => Snapshot(m, up).free[s] = Capacity[s]
<1> DEFINE uses(s) == {i \in Rows(m) : m[i].state \in LIVE /\ s \in m[i].slots}
           free == [s \in Slots |-> Capacity[s] - Need * Cardinality(uses(s))]
           ports == [h \in Hosts |-> {m[i].port : i \in ReservedOn(m, h)} \ {0}]
           rv == [h \in Hosts |-> {m[i].rv : i \in ReservedOn(m, h)} \ {0}]
<1>1. /\ Snapshot(m, up).up = up /\ Snapshot(m, up).free = free
      /\ Snapshot(m, up).ports = ports /\ Snapshot(m, up).rv = rv
      /\ Snapshot(m, up) = [up |-> up, free |-> free, ports |-> ports, rv |-> rv]
  BY DEF Snapshot
<1>2. \A i \in Ids : m[i].port \in Nat /\ m[i].rv \in Nat
  <2>1. \A i \in Ids : m[i].port \in InstancePorts \cup {0} /\ m[i].rv \in RendezvousPorts \cup {0}
    BY DEF RowsType, InstType
  <2>2. InstancePorts \cup {0} \subseteq Nat /\ RendezvousPorts \cup {0} \subseteq Nat
    BY SchedulerAssumption
  <2> QED BY <2>1, <2>2, Zenon
<1>3. ports \in [Hosts -> SUBSET Nat] /\ rv \in [Hosts -> SUBSET Nat]
  <2>1. \A h \in Hosts : ReservedOn(m, h) \subseteq Ids
    BY DEF ReservedOn
  <2> QED BY <1>2, <2>1
<1>4. ASSUME NEW s \in Slots
      PROVE  IsFiniteSet(uses(s)) /\ Cardinality(uses(s)) \in Nat
  <2>1. uses(s) \in SUBSET Ids
    BY DEF Rows
  <2> HIDE DEF uses
  <2> QED BY <2>1, IdsFinite, FS_Subset, FS_CardinalityType
<1>5. Capacity \in [Slots -> Nat] /\ Need \in Nat
  BY ScalingAssumption, SchedulerAssumption
<1>6. \A s \in Slots : free[s] = Capacity[s] - Need * Cardinality(uses(s)) /\ free[s] \in Int
  <2> HIDE DEF uses
  <2> QED BY <1>4, <1>5
<1>7. free \in [Slots -> Int]
  BY <1>6
<1>8. ASSUME NEW s \in Slots, s[1] \notin HostsOf(m)
      PROVE  free[s] = Capacity[s]
  <2>1. uses(s) = {}
    BY <1>8 DEF HostsOf, HostOf
  <2>2. Cardinality(uses(s)) = 0
    BY <2>1, FS_EmptySet
  <2> HIDE DEF uses, free
  <2> QED BY <1>5, <1>6, <2>2
<1>9. ASSUME NEW h \in Hosts \ HostsOf(m)
      PROVE  ports[h] = {}
  <2>1. ReservedOn(m, h) = {}
    BY <1>9 DEF ReservedOn, Reserves, HostsOf, Rows
  <2> QED BY <2>1
<1> HIDE DEF free, ports, rv
<1>10. Snapshot(m, up) \in SnapType
  BY <1>1, <1>3, <1>7 DEF SnapType
<1> QED BY <1>1, <1>8, <1>9, <1>10

\* The first row that was never used.
LEMMA FirstTyped ==
    ASSUME NEW m \in RowsType
    PROVE  /\ IsFiniteSet(Unborn(m)) /\ Cardinality(Unborn(m)) \in 0 .. MaxInst
           /\ First(m) \in Nat \ {0} /\ First(m) <= MaxInst + 1
<1>1. Unborn(m) \in SUBSET Ids
  BY DEF Unborn
<1>2. IsFiniteSet(Unborn(m)) /\ Cardinality(Unborn(m)) <= MaxInst
  BY <1>1, IdsFinite, FS_Subset
<1>3. Cardinality(Unborn(m)) \in Nat
  BY <1>2, FS_CardinalityType
<1> QED BY <1>2, <1>3, IdsFinite DEF First

\* New rows are rows, on the hosts of their placements.
LEMMA InsertedTyped ==
    ASSUME NEW m \in RowsType, NEW q \in Seq(PlacementType), \A k \in DOMAIN q : q[k].rank <= k - 1
    PROVE  /\ WithRows(m, q) \in RowsType
           /\ HostsOf(WithRows(m, q)) \subseteq HostsOf(m) \cup UNION {HostOf(q[k]) : k \in DOMAIN q}
<1>1. DOMAIN q = 1 .. Len(q) /\ Len(q) \in Nat /\ \A k \in DOMAIN q : q[k] \in PlacementType
  OBVIOUS
<1> DEFINE a == First(m)
           new(i) == LET p == q[i - a + 1]
                     IN  [life |-> "live", desired |-> "running", state |-> "pending",
                          slots |-> p.slots, port |-> p.port, unit |-> i - p.rank,
                          rank |-> p.rank, rv |-> p.rv]
           out == Inserted(m, q)
<1>2. a \in Nat \ {0} /\ a <= MaxInst + 1 /\ MaxInst \in Nat
  BY FirstTyped, IdsFinite
<1>3. out = [i \in Ids |-> IF i \in a .. a + Len(q) - 1 THEN new(i) ELSE m[i]]
  BY DEF Inserted
<1> HIDE DEF a, out
<1>4. ASSUME NEW i \in Ids, i \in a .. a + Len(q) - 1
      PROVE  new(i) \in InstType /\ i - a + 1 \in DOMAIN q /\ new(i).slots = q[i - a + 1].slots
  <2>1. i \in Nat /\ i <= MaxInst /\ i - a + 1 \in 1 .. Len(q)
    BY <1>1, <1>2, <1>4 DEF Ids
  <2> DEFINE p == q[i - a + 1]
  <2>2. p \in PlacementType /\ p.rank <= i - a
    <3>1. i - a + 1 \in DOMAIN q /\ (i - a + 1) - 1 = i - a
      BY <1>1, <1>2, <2>1
    <3>2. p \in PlacementType
      BY <1>1, <2>1
    <3> QED BY <3>1, <3>2
  <2>3. p.rank \in Nat /\ i - p.rank \in Ids
    <3>1. p.rank \in Nat
      BY <2>2 DEF PlacementType
    <3> HIDE DEF p
    <3>2. i - p.rank \in 1 .. MaxInst
      BY <1>2, <2>1, <2>2, <3>1
    <3> QED BY <3>1, <3>2 DEF Ids
  <2> HIDE DEF p
  <2>4. new(i) = [life |-> "live", desired |-> "running", state |-> "pending", slots |-> p.slots,
                  port |-> p.port, unit |-> i - p.rank, rank |-> p.rank, rv |-> p.rv]
    BY DEF p
  <2> HIDE DEF new
  <2>5. new(i) \in InstType
    BY <2>2, <2>3, <2>4 DEF InstType, PlacementType, LIVE
  <2> QED BY <1>1, <2>1, <2>4, <2>5 DEF p
<1> HIDE DEF new
<1>5. \A i \in Ids : m[i] \in InstType
  BY DEF RowsType
<1>6. out \in RowsType
  BY <1>3, <1>4, <1>5 DEF RowsType
<1>7. ASSUME NEW i \in Rows(out)
      PROVE  HostOf(out[i]) \subseteq HostsOf(m) \cup UNION {HostOf(q[k]) : k \in DOMAIN q}
  <2>1. i \in Ids
    BY DEF Rows
  <2>2. CASE i \in a .. a + Len(q) - 1
    <3>1. out[i].slots = q[i - a + 1].slots /\ i - a + 1 \in DOMAIN q
      BY <1>3, <1>4, <2>1, <2>2
    <3>2. HostOf(out[i]) = HostOf(q[i - a + 1])
      BY <3>1 DEF HostOf
    <3> QED BY <3>1, <3>2
  <2>3. CASE ~(i \in a .. a + Len(q) - 1)
    <3>1. out[i] = m[i] /\ i \in Rows(m)
      BY <1>3, <2>1, <2>3 DEF Rows
    <3> QED BY <3>1 DEF HostsOf
  <2> QED BY <2>2, <2>3
<1>8. HostsOf(out) \subseteq HostsOf(m) \cup UNION {HostOf(q[k]) : k \in DOMAIN q}
  BY <1>7 DEF HostsOf
<1> QED BY <1>6, <1>8 DEF WithRows, out

(***************************************************************************)
(* The groups of a scale-out, one after the other.                         *)
(***************************************************************************)
GroupsType ==
    [ok : BOOLEAN, rows : RowsType, occupied : SUBSET Hosts, placed : Seq(PlacementType)]

\* Placements come in blocks of the ranks 0 to nodes - 1, each with one head.
Blocks(nodes, q) ==
    \A k \in DOMAIN q :
      /\ q[k].rank \in 0 .. nodes - 1 /\ q[k].rank <= k - 1
      /\ \A r \in 0 .. nodes - 1 :
           k - q[k].rank + r \in DOMAIN q /\ q[k - q[k].rank + r].rank = r
Heads(q) == {k \in DOMAIN q : q[k].rank = 0}

\* Every rank on a host of its own, which no row was on; the head has a port, and an address.
Separate(m, c, q) ==
    /\ \A k \in DOMAIN q :
         /\ \E s \in Fit(c) : q[k].slots = {s} /\ s[1] \notin HostsOf(m)
         /\ (q[k].rank = 0) <=> (q[k].port # 0)
         /\ q[k].rank = 0 => HostOf(q[k]) \subseteq Addressed
    /\ \A j, k \in DOMAIN q : j # k => HostOf(q[j]) \cap HostOf(q[k]) = {}

\* What the loop over groups keeps.
KeepsGroups(m, up, nodes, st) ==
    /\ HostsOf(m) \subseteq st.occupied /\ HostsOf(st.rows) \subseteq st.occupied
    /\ \A k \in DOMAIN st.placed : HostOf(st.placed[k]) \subseteq st.occupied
    /\ Separate(m, Snapshot(m, up), st.placed)
    /\ Blocks(nodes, st.placed)

\* Two runs of placements, one after the other.
LEMMA ConcatReads ==
    ASSUME NEW q \in Seq(PlacementType), NEW g \in Seq(PlacementType)
    PROVE  /\ q \o g \in Seq(PlacementType) /\ Len(q \o g) = Len(q) + Len(g)
           /\ Len(q) \in Nat /\ Len(g) \in Nat
           /\ DOMAIN q = 1 .. Len(q) /\ DOMAIN g = 1 .. Len(g)
           /\ DOMAIN (q \o g) = 1 .. Len(q) + Len(g)
           /\ \A k \in 1 .. Len(q) : (q \o g)[k] = q[k]
           /\ \A k \in 1 .. Len(g) : (q \o g)[Len(q) + k] = g[k]
  OBVIOUS

\* A group more: the blocks stay blocks, with one head more.
LEMMA BlockAdded ==
    ASSUME NEW q \in Seq(PlacementType), NEW g \in Seq(PlacementType), NEW nodes \in Nat \ {0},
           Blocks(nodes, q), Len(g) = nodes, \A k \in 1 .. nodes : g[k].rank = k - 1
    PROVE  Blocks(nodes, q \o g) /\ Heads(q \o g) = Heads(q) \cup {Len(q) + 1}
<1> DEFINE n == Len(q)
           w == q \o g
<1>1. /\ n \in Nat /\ DOMAIN q = 1 .. n /\ DOMAIN w = 1 .. n + nodes
      /\ \A k \in 1 .. n : w[k] = q[k]
      /\ \A k \in 1 .. nodes : w[n + k] = g[k]
  BY ConcatReads
<1> HIDE DEF n, w
<1>2. \A k \in 1 .. nodes : w[n + k].rank = k - 1
  BY <1>1
<1>3. ASSUME NEW k \in 1 .. n + nodes, k > n
      PROVE  w[k].rank = k - n - 1
  <2>1. k - n \in 1 .. nodes /\ n + (k - n) = k
    BY <1>1, <1>3
  <2> QED BY <1>1, <1>2, <2>1
<1>4. ASSUME NEW k \in DOMAIN w
      PROVE  /\ w[k].rank \in 0 .. nodes - 1 /\ w[k].rank <= k - 1
             /\ \A r \in 0 .. nodes - 1 :
                  k - w[k].rank + r \in DOMAIN w /\ w[k - w[k].rank + r].rank = r
  <2>1. CASE k <= n
    <3>1. k \in DOMAIN q /\ w[k] = q[k]
      BY <1>1, <2>1
    <3>2. /\ q[k].rank \in 0 .. nodes - 1 /\ q[k].rank <= k - 1
          /\ \A r \in 0 .. nodes - 1 :
                  k - q[k].rank + r \in DOMAIN q /\ q[k - q[k].rank + r].rank = r
      BY <3>1 DEF Blocks
    <3>3. 1 .. n \subseteq 1 .. n + nodes
      BY <1>1
    <3>4. ASSUME NEW r \in 0 .. nodes - 1
          PROVE  k - w[k].rank + r \in DOMAIN w /\ w[k - w[k].rank + r].rank = r
      <4>1. k - q[k].rank + r \in DOMAIN q /\ q[k - q[k].rank + r].rank = r
        BY <3>2
      <4> DEFINE j == k - q[k].rank + r
      <4> HIDE DEF j
      <4>2. j \in 1 .. n /\ q[j].rank = r
        BY <1>1, <4>1 DEF j
      <4>3. j \in DOMAIN w /\ w[j].rank = r
        BY <1>1, <3>3, <4>2
      <4> QED BY <3>1, <4>3 DEF j
    <3> QED BY <3>1, <3>2, <3>4
  <2>2. CASE k > n
    <3>1. k \in 1 .. n + nodes /\ w[k].rank = k - n - 1
      BY <1>1, <1>3, <2>2
    <3>2. ASSUME NEW r \in 0 .. nodes - 1
          PROVE  k - w[k].rank + r \in DOMAIN w /\ w[k - w[k].rank + r].rank = r
      <4>1. k - w[k].rank + r = n + (r + 1) /\ r + 1 \in 1 .. nodes
        BY <1>1, <3>1
      <4>2. n + (r + 1) \in DOMAIN w
        BY <1>1, <4>1
      <4>3. w[n + (r + 1)].rank = (r + 1) - 1
        BY <1>2, <4>1
      <4> QED BY <4>1, <4>2, <4>3
    <3> QED BY <1>1, <2>2, <3>1, <3>2
  <2>3. k <= n \/ k > n
    <3>1. k \in Nat /\ n \in Nat
      BY <1>1
    <3> QED BY <3>1
  <2> QED BY <2>1, <2>2, <2>3
<1>5. ASSUME NEW k \in DOMAIN w
      PROVE  w[k].rank = 0 <=> k \in Heads(q) \cup {n + 1}
  <2>1. CASE k <= n
    <3>1. k \in DOMAIN q /\ w[k] = q[k] /\ k # n + 1
      BY <1>1, <2>1
    <3> QED BY <3>1 DEF Heads
  <2>2. CASE k > n
    <3>1. w[k].rank = k - n - 1 /\ k \notin DOMAIN q /\ k \in Nat
      BY <1>1, <1>3, <2>2
    <3> QED BY <1>1, <3>1 DEF Heads
  <2> QED BY <1>1, <2>1, <2>2
<1>6. Heads(w) = Heads(q) \cup {n + 1}
  <2>1. Heads(q) \subseteq DOMAIN w /\ n + 1 \in DOMAIN w
    BY <1>1 DEF Heads
  <2> QED BY <1>5, <2>1 DEF Heads
<1> QED BY <1>4, <1>6 DEF Blocks, n, w

\* One more group.
LEMMA AddGroupKeeps ==
    ASSUME NEW m \in RowsType, NEW up \in SUBSET Hosts, NEW nodes \in Nat \ {0},
           NEW st \in GroupsType, KeepsGroups(m, up, nodes, st)
    PROVE  /\ AddGroup(up, nodes, st) \in GroupsType
           /\ KeepsGroups(m, up, nodes, AddGroup(up, nodes, st))
           /\ \/ /\ st.ok = TRUE /\ AddGroup(up, nodes, st).ok = TRUE
                 /\ Heads(AddGroup(up, nodes, st).placed) = Heads(st.placed) \cup {Len(st.placed) + 1}
              \/ /\ AddGroup(up, nodes, st).ok = FALSE
                 /\ st.ok = TRUE => NoGroup(Snapshot(st.rows, up), nodes, st.occupied)
<1> DEFINE c == Snapshot(st.rows, up)
           c0 == Snapshot(m, up)
           g == allocate_parallel_replicas(c, nodes, st.occupied)
           out == AddGroup(up, nodes, st)
           hosts == UNION {HostOf(g.placed[k]) : k \in DOMAIN g.placed}
<1>1. /\ st.ok \in BOOLEAN /\ st.rows \in RowsType /\ st.occupied \in SUBSET Hosts
      /\ st.placed \in Seq(PlacementType)
      /\ st = [ok |-> st.ok, rows |-> st.rows, occupied |-> st.occupied, placed |-> st.placed]
  BY DEF GroupsType
<1>2. c \in SnapType /\ c0 \in SnapType
  BY <1>1, SnapshotReads
<1>3. \/ g.ok = TRUE /\ Grouped(c, nodes, st.occupied, g.placed)
      \/ g.ok = FALSE /\ g.placed = << >> /\ NoGroup(c, nodes, st.occupied)
  <2> HIDE DEF c
  <2> QED BY <1>1, <1>2, GroupSound
<1>4. out = IF ~st.ok \/ ~g.ok THEN [st EXCEPT !.ok = FALSE]
            ELSE [st EXCEPT !.rows = WithRows(@, g.placed), !.occupied = @ \cup hosts,
                            !.placed = @ \o g.placed]
  BY DEF AddGroup
<1> HIDE DEF out, g, hosts, c, c0
<1>5. CASE st.ok = FALSE \/ g.ok = FALSE
  <2>1. out = [st EXCEPT !.ok = FALSE]
    BY <1>4, <1>5
  <2>2. /\ out.ok = FALSE /\ out.rows = st.rows /\ out.occupied = st.occupied
        /\ out.placed = st.placed
        /\ out \in GroupsType
    BY <1>1, <2>1 DEF GroupsType
  <2>3. KeepsGroups(m, up, nodes, out)
    BY <2>2 DEF KeepsGroups
  <2>4. st.ok = TRUE => NoGroup(c, nodes, st.occupied)
    BY <1>3, <1>5
  <2> QED BY <2>2, <2>3, <2>4 DEF out, c
<1>6. CASE st.ok = TRUE /\ g.ok = TRUE
  <2>1. out = [st EXCEPT !.rows = WithRows(@, g.placed), !.occupied = @ \cup hosts,
                         !.placed = @ \o g.placed]
    BY <1>4, <1>6
  <2>2. /\ out.ok = TRUE /\ out.rows = WithRows(st.rows, g.placed)
        /\ out.occupied = st.occupied \cup hosts /\ out.placed = st.placed \o g.placed
        /\ out = [ok |-> out.ok, rows |-> out.rows, occupied |-> out.occupied,
                  placed |-> out.placed]
    BY <1>1, <1>6, <2>1
  <2>3. Grouped(c, nodes, st.occupied, g.placed)
    BY <1>3, <1>6
  <2>4. /\ g.placed \in Seq(PlacementType) /\ Len(g.placed) = nodes
        /\ DOMAIN g.placed = 1 .. nodes
        /\ \A k \in 1 .. nodes : g.placed[k].rank = k - 1
    BY <2>3 DEF Grouped
  <2>5. \A k \in DOMAIN g.placed : g.placed[k].rank <= k - 1
    BY <2>4
  <2>6. out.rows \in RowsType /\ HostsOf(out.rows) \subseteq HostsOf(st.rows) \cup hosts
    <3>1. /\ WithRows(st.rows, g.placed) \in RowsType
          /\ HostsOf(WithRows(st.rows, g.placed)) \subseteq HostsOf(st.rows) \cup
               UNION {HostOf(g.placed[k]) : k \in DOMAIN g.placed}
      BY <1>1, <2>4, <2>5, InsertedTyped
    <3> QED BY <2>2, <3>1 DEF hosts
  <2>7. hosts \subseteq Hosts
    <3>0. \A k \in DOMAIN g.placed : g.placed[k] \in PlacementType
      BY <2>4
    <3>1. \A k \in DOMAIN g.placed : g.placed[k].slots \subseteq Slots
      BY <3>0 DEF PlacementType
    <3> QED BY <3>1, GpuIsPair DEF hosts, HostOf
  <2>8. out.placed \in Seq(PlacementType)
    BY <1>1, <2>2, <2>4, ConcatReads
  <2>9. out \in GroupsType
    BY <1>1, <2>2, <2>6, <2>7, <2>8 DEF GroupsType
  <2>10. Blocks(nodes, out.placed) /\ Heads(out.placed) = Heads(st.placed) \cup {Len(st.placed) + 1}
    <3>1. Blocks(nodes, st.placed)
      BY DEF KeepsGroups
    <3>2. /\ Blocks(nodes, st.placed \o g.placed)
          /\ Heads(st.placed \o g.placed) = Heads(st.placed) \cup {Len(st.placed) + 1}
      BY <1>1, <2>4, <3>1, BlockAdded
    <3> QED BY <2>2, <3>2
  <2> DEFINE n == Len(st.placed)
             w == out.placed
  <2>11. /\ n \in Nat /\ DOMAIN st.placed = 1 .. n /\ DOMAIN w = 1 .. n + nodes
         /\ \A k \in 1 .. n : w[k] = st.placed[k]
         /\ \A k \in 1 .. nodes : w[n + k] = g.placed[k]
    <3> DEFINE q == st.placed
               v == g.placed
    <3>1. q \in Seq(PlacementType) /\ v \in Seq(PlacementType) /\ Len(v) = nodes
      BY <1>1, <2>4
    <3> HIDE DEF q, v
    <3>2. /\ Len(q) \in Nat /\ DOMAIN q = 1 .. Len(q) /\ DOMAIN (q \o v) = 1 .. Len(q) + nodes
          /\ \A k \in 1 .. Len(q) : (q \o v)[k] = q[k]
          /\ \A k \in 1 .. nodes : (q \o v)[Len(q) + k] = v[k]
      BY <3>1, ConcatReads
    <3> QED BY <2>2, <3>2 DEF q, v
  <2>12. ASSUME NEW k \in 1 .. nodes
         PROVE  /\ \E s \in Fit(c0) : g.placed[k].slots = {s} /\ s[1] \notin HostsOf(m)
                /\ (g.placed[k].rank = 0) <=> (g.placed[k].port # 0)
                /\ g.placed[k].rank = 0 => HostOf(g.placed[k]) \subseteq Addressed
                /\ HostOf(g.placed[k]) \cap st.occupied = {}
                /\ HostOf(g.placed[k]) \subseteq hosts
    <3>1. PICK s \in Fit(c) : g.placed[k].slots = {s} /\ s[1] \notin st.occupied
      BY <2>3 DEF Grouped
    <3>2. s \in Slots /\ s \in Usable(c) /\ c.free[s] >= Need
      BY SchedulerAssumption DEF Fit, Fitting, Usable
    <3>3. s[1] \notin HostsOf(m) /\ s[1] \notin HostsOf(st.rows)
      BY <3>1 DEF KeepsGroups
    <3>4. c.free[s] = Capacity[s] /\ c0.free[s] = Capacity[s] /\ c.up = c0.up
      BY <1>1, <3>2, <3>3, SnapshotReads DEF c, c0
    <3>5. s \in Fit(c0)
      BY <3>2, <3>4 DEF Fit, Fitting, Usable
    <3>6. HostOf(g.placed[k]) = {s[1]}
      BY <3>1 DEF HostOf
    <3>7. (k = 1) <=> (g.placed[k].port # 0)
      BY <2>3 DEF Grouped
    <3>8. g.placed[k].rank = 0 <=> k = 1
      BY <2>4
    <3>9. HostOf(g.placed[1]) \subseteq Addressed
      BY <2>3 DEF Grouped
    <3>10. HostOf(g.placed[k]) \subseteq hosts
      BY <2>4 DEF hosts
    <3> QED BY <3>1, <3>3, <3>5, <3>6, <3>7, <3>8, <3>9, <3>10
  <2>13. Separate(m, c0, st.placed)
    BY DEF KeepsGroups, c0
  <2>14. ASSUME NEW k \in 1 .. n + nodes, k > n
         PROVE  k - n \in 1 .. nodes /\ w[k] = g.placed[k - n]
    <3>1. k - n \in 1 .. nodes /\ n + (k - n) = k
      BY <2>11, <2>14
    <3> QED BY <2>11, <3>1
  <2> HIDE DEF n, w
  <2>15. ASSUME NEW k \in DOMAIN w
         PROVE  /\ \E s \in Fit(c0) : w[k].slots = {s} /\ s[1] \notin HostsOf(m)
                /\ (w[k].rank = 0) <=> (w[k].port # 0)
                /\ w[k].rank = 0 => HostOf(w[k]) \subseteq Addressed
                /\ HostOf(w[k]) \subseteq st.occupied \cup hosts
    <3>1. CASE k <= n
      <4>1. k \in DOMAIN st.placed /\ w[k] = st.placed[k]
        BY <2>11, <3>1
      <4>2. HostOf(st.placed[k]) \subseteq st.occupied
        BY <4>1 DEF KeepsGroups
      <4> QED BY <2>13, <4>1, <4>2 DEF Separate
    <3>2. CASE k > n
      <4>1. k - n \in 1 .. nodes /\ w[k] = g.placed[k - n]
        BY <2>11, <2>14, <3>2
      <4> QED BY <2>12, <4>1
    <3> QED BY <2>11, <3>1, <3>2
  <2>16. ASSUME NEW j \in DOMAIN w, NEW k \in DOMAIN w, j < k
         PROVE  HostOf(w[j]) \cap HostOf(w[k]) = {}
    <3>1. CASE k <= n
      <4>1. j \in DOMAIN st.placed /\ k \in DOMAIN st.placed /\ j # k
            /\ w[j] = st.placed[j] /\ w[k] = st.placed[k]
        BY <2>11, <2>16, <3>1
      <4> QED BY <2>13, <4>1 DEF Separate
    <3>2. CASE j <= n /\ k > n
      <4>1. j \in DOMAIN st.placed /\ w[j] = st.placed[j]
        BY <2>11, <3>2
      <4>2. HostOf(w[j]) \subseteq st.occupied
        BY <4>1 DEF KeepsGroups
      <4>3. k - n \in 1 .. nodes /\ w[k] = g.placed[k - n]
        BY <2>11, <2>14, <3>2
      <4>4. HostOf(w[k]) \cap st.occupied = {}
        BY <2>12, <4>3
      <4> QED BY <4>2, <4>4
    <3>3. CASE j > n /\ k > n
      <4>1. /\ k - n \in 1 .. nodes /\ w[k] = g.placed[k - n]
            /\ j - n \in 1 .. nodes /\ w[j] = g.placed[j - n]
        BY <2>11, <2>14, <3>3
      <4>2. j - n # k - n
        BY <2>11, <2>16
      <4> QED BY <2>3, <4>1, <4>2 DEF Grouped
    <3> QED BY <2>11, <2>16, <3>1, <3>2, <3>3
  <2>17. Separate(m, c0, w)
    <3>1. \A j, k \in DOMAIN w : j # k => j < k \/ k < j
      BY <2>11
    <3> QED BY <2>15, <2>16, <3>1 DEF Separate
  <2>18. KeepsGroups(m, up, nodes, out)
    <3>1. HostsOf(m) \subseteq out.occupied /\ HostsOf(out.rows) \subseteq out.occupied
      BY <2>2, <2>6 DEF KeepsGroups
    <3>2. \A k \in DOMAIN out.placed : HostOf(out.placed[k]) \subseteq out.occupied
      BY <2>2, <2>15 DEF w
    <3> QED BY <2>10, <2>17, <3>1, <3>2 DEF KeepsGroups, w, c0
  <2> QED BY <1>6, <2>2, <2>9, <2>10, <2>18 DEF out
<1> QED BY <1>1, <1>3, <1>5, <1>6

\* The groups of a scale-out: n of them, or those that could be placed until one could not.
GroupsRight(m, up, n, nodes, out) ==
    /\ out.ok \in BOOLEAN /\ out.placed \in Seq(PlacementType)
    /\ Separate(m, Snapshot(m, up), out.placed) /\ Blocks(nodes, out.placed)
    /\ out.ok = TRUE => Cardinality(Heads(out.placed)) = n
    /\ (n = 1 /\ out.ok = FALSE) => NoGroup(Snapshot(m, up), nodes, HostsOf(m))

LEMMA GroupsSound ==
    ASSUME NEW m \in RowsType, NEW up \in SUBSET Hosts, NEW nodes \in Nat \ {0}, NEW n \in Nat
    PROVE  GroupsRight(m, up, n, nodes, NewGroups(m, up, n, nodes))
<1> DEFINE out == NewGroups(m, up, n, nodes)
<1> DEFINE T == {st \in GroupsType : KeepsGroups(m, up, nodes, st)}
           F == [st \in T |-> AddGroup(up, nodes, st)]
           start == [ok |-> TRUE, rows |-> m, occupied |-> HostsOf(m), placed |-> << >>]
           Is(f) == f = [k \in 0 .. n |-> IF k = 0 THEN start ELSE AddGroup(up, nodes, f[k - 1])]
           group == CHOOSE f : Is(f)
<1>1. F \in [T -> T]
  BY AddGroupKeeps
<1>2. start \in T
  <2>1. start \in GroupsType
    BY HostsTyped, EmptyReads DEF GroupsType
  <2>2. start.rows = m /\ start.occupied = HostsOf(m) /\ start.placed = << >>
    OBVIOUS
  <2> HIDE DEF start
  <2>3. KeepsGroups(m, up, nodes, start)
    BY <2>2, EmptyReads DEF KeepsGroups, Separate, Blocks
  <2> QED BY <2>1, <2>3
<1>3. PICK f \in [0 .. n -> T] : Traces(F, start, n, f)
  <2> HIDE DEF F, start, T
  <2> QED BY <1>1, <1>2, TraceExists
<1>4. Is(f)
  <2>1. ASSUME NEW k \in 0 .. n, k # 0 PROVE f[k - 1] \in T
    BY <2>1
  <2>2. \A k \in 0 .. n : k # 0 => F[f[k - 1]] = AddGroup(up, nodes, f[k - 1])
    BY <2>1
  <2> HIDE DEF F, start
  <2> QED BY <1>3, <2>2 DEF Traces
<1>5. Is(group)
  <2> HIDE DEF Is
  <2> QED BY <1>4
<1> HIDE DEF group, start
<1>6. \A k \in 0 .. n : group[k] = f[k]
  <2> DEFINE Bad == {k \in 0 .. n : group[k] # f[k]}
  <2>1. SUFFICES ASSUME Bad # {} PROVE FALSE
    OBVIOUS
  <2>2. Bad \in SUBSET Nat
    OBVIOUS
  <2>3. PICK k \in Bad : \A j \in Bad : k <= j
    <3> HIDE DEF Bad
    <3> QED BY <2>1, <2>2, LeastOf
  <2>4. group[0] = start /\ f[0] = start
    BY <1>4, <1>5
  <2>5. k \in 0 .. n /\ k # 0 /\ k - 1 \in 0 .. n
    BY <2>4
  <2>6. k - 1 \notin Bad
    <3> HIDE DEF Bad
    <3> QED BY <2>3, <2>5
  <2>7. group[k] = AddGroup(up, nodes, group[k - 1]) /\ f[k] = AddGroup(up, nodes, f[k - 1])
    BY <1>4, <1>5, <2>5
  <2> QED BY <2>3, <2>5, <2>6, <2>7
<1> HIDE DEF out
<1>7. out = f[n]
  <2>1. out = group[n]
    BY DEF out, NewGroups, group, start
  <2> QED BY <1>6, <2>1
<1>8. \A k \in 0 .. n : f[k] \in GroupsType /\ KeepsGroups(m, up, nodes, f[k])
  BY <1>3
<1>9. /\ f[0] = start /\ start.ok = TRUE /\ start.rows = m /\ start.occupied = HostsOf(m)
      /\ start.placed = << >>
      /\ \A k \in 1 .. n : f[k] = AddGroup(up, nodes, f[k - 1])
  <2>1. start.ok = TRUE /\ start.rows = m /\ start.occupied = HostsOf(m) /\ start.placed = << >>
    BY DEF start
  <2>2. f[0] = start
    BY <1>4
  <2>3. \A k \in 1 .. n : f[k] = AddGroup(up, nodes, f[k - 1])
    BY <1>4
  <2> QED BY <2>1, <2>2, <2>3
<1> HIDE DEF Is, T, F
<1>10. ASSUME NEW k \in 0 .. n, f[k].ok = TRUE
       PROVE  Cardinality(Heads(f[k].placed)) = k
  <2> DEFINE Bad == {j \in 0 .. n : f[j].ok = TRUE /\ Cardinality(Heads(f[j].placed)) # j}
  <2>1. SUFFICES ASSUME Bad # {} PROVE FALSE
    BY <1>10
  <2>2. Bad \in SUBSET Nat
    OBVIOUS
  <2>3. PICK j \in Bad : \A i \in Bad : j <= i
    <3> HIDE DEF Bad
    <3> QED BY <2>1, <2>2, LeastOf
  <2>4. j \in 0 .. n /\ f[j].ok = TRUE /\ Cardinality(Heads(f[j].placed)) # j
    OBVIOUS
  <2>5. j # 0
    <3>1. Heads(f[0].placed) = {}
      BY <1>9, EmptyReads DEF Heads
    <3> QED BY <2>4, <3>1, FS_EmptySet
  <2>6. j \in 1 .. n /\ j - 1 \in 0 .. n /\ j - 1 \notin Bad
    <3> HIDE DEF Bad
    <3> QED BY <2>3, <2>4, <2>5
  <2> DEFINE q == f[j - 1].placed
  <2>7. f[j] = AddGroup(up, nodes, f[j - 1])
    BY <1>9, <2>6
  <2>8. /\ f[j - 1].ok = TRUE
        /\ Heads(f[j].placed) = Heads(q) \cup {Len(q) + 1}
    BY <1>8, <2>4, <2>6, <2>7, AddGroupKeeps
  <2>9. Cardinality(Heads(q)) = j - 1
    BY <2>6, <2>8
  <2>10. q \in Seq(PlacementType)
    BY <1>8, <2>6 DEF GroupsType
  <2> HIDE DEF q
  <2>11. Len(q) \in Nat /\ DOMAIN q = 1 .. Len(q) /\ Heads(q) \in SUBSET (1 .. Len(q))
    BY <2>10 DEF Heads
  <2>12. IsFiniteSet(Heads(q)) /\ Len(q) + 1 \notin Heads(q)
    BY <2>11, UpTo, FS_Subset
  <2>13. Cardinality(Heads(q) \cup {Len(q) + 1}) = Cardinality(Heads(q)) + 1
    BY <2>12, FS_AddElement
  <2> QED BY <2>4, <2>6, <2>8, <2>9, <2>13
<1>11. ASSUME n = 1, f[n].ok = FALSE
       PROVE  NoGroup(Snapshot(m, up), nodes, HostsOf(m))
  <2>1. 1 \in 1 .. n /\ 0 \in 0 .. n /\ 1 - 1 = 0
    BY <1>11
  <2>2. f[1] = AddGroup(up, nodes, f[0]) /\ f[1].ok = FALSE
    BY <1>9, <1>11, <2>1
  <2>3. f[0].ok = TRUE /\ f[0].rows = m /\ f[0].occupied = HostsOf(m)
    BY <1>9
  <2>4. f[0] \in GroupsType /\ KeepsGroups(m, up, nodes, f[0])
    BY <1>8, <2>1
  <2>5. NoGroup(Snapshot(f[0].rows, up), nodes, f[0].occupied)
    BY <2>2, <2>3, <2>4, AddGroupKeeps
  <2> QED BY <2>3, <2>5
<1>12. n \in 0 .. n
  OBVIOUS
<1>13. /\ out.ok \in BOOLEAN /\ out.placed \in Seq(PlacementType)
       /\ Separate(m, Snapshot(m, up), out.placed) /\ Blocks(nodes, out.placed)
  BY <1>7, <1>8, <1>12 DEF GroupsType, KeepsGroups
<1>14. GroupsRight(m, up, n, nodes, out)
  BY <1>7, <1>10, <1>11, <1>12, <1>13 DEF GroupsRight
<1> QED BY <1>14 DEF out

(***************************************************************************)
(* Units, and what stopping some of them leaves.                           *)
(***************************************************************************)
Quiet(m, U) == [i \in Ids |->
    IF i \in MembersOf(m, U) THEN [m[i] EXCEPT !.desired = "stopped"] ELSE m[i]]

\* Stopping units changes what is desired of their rows, and nothing else.
LEMMA QuietReads ==
    ASSUME NEW m \in RowsType, NEW U
    PROVE  /\ Quiet(m, U) \in RowsType
           /\ \A i \in Ids :
                /\ Quiet(m, U)[i].life = m[i].life /\ Quiet(m, U)[i].state = m[i].state
                /\ Quiet(m, U)[i].slots = m[i].slots /\ Quiet(m, U)[i].unit = m[i].unit
                /\ HostOf(Quiet(m, U)[i]) = HostOf(m[i])
                /\ Quiet(m, U)[i].desired =
                     IF m[i].life = "live" /\ m[i].unit \in U THEN "stopped" ELSE m[i].desired
           /\ Rows(Quiet(m, U)) = Rows(m) /\ Unborn(Quiet(m, U)) = Unborn(m)
           /\ Units(Quiet(m, U)) = Units(m)
           /\ \A u : Members(Quiet(m, U), u) = Members(m, u)
           /\ Wanted(Quiet(m, U)) = Wanted(m) \ U
<1> DEFINE q == Quiet(m, U)
<1>1. ASSUME NEW i \in Ids
      PROVE  /\ q[i] \in InstType
             /\ q[i].life = m[i].life /\ q[i].state = m[i].state
             /\ q[i].slots = m[i].slots /\ q[i].unit = m[i].unit
             /\ q[i].desired = IF i \in MembersOf(m, U) THEN "stopped" ELSE m[i].desired
  <2>1. m[i] \in InstType
    BY DEF RowsType
  <2>2. q[i] = IF i \in MembersOf(m, U) THEN [m[i] EXCEPT !.desired = "stopped"] ELSE m[i]
    BY DEF Quiet
  <2> HIDE DEF q
  <2> QED BY <2>1, <2>2 DEF InstType
<1>2. q \in RowsType
  <2>1. q = [i \in Ids |-> q[i]]
    BY DEF Quiet
  <2> HIDE DEF q
  <2> QED BY <1>1, <2>1 DEF RowsType
<1>3. \A i \in Ids : i \in MembersOf(m, U) <=> m[i].life = "live" /\ m[i].unit \in U
  BY DEF MembersOf, Members, Rows
<1> HIDE DEF q
<1>4. \A i \in Ids : HostOf(q[i]) = HostOf(m[i])
  BY <1>1 DEF HostOf
<1>5. Rows(q) = Rows(m) /\ Unborn(q) = Unborn(m)
  BY <1>1 DEF Rows, Unborn
<1>6. Units(q) = Units(m) /\ \A u : Members(q, u) = Members(m, u)
  <2>1. \A i \in Rows(m) : q[i].unit = m[i].unit
    BY <1>1 DEF Rows
  <2> QED BY <1>5, <2>1 DEF Units, Members
<1>7. Wanted(q) = Wanted(m) \ U
  <2>1. ASSUME NEW u \in Units(m)
        PROVE  (\E i \in Members(q, u) : q[i].desired = "running")
                 <=> (\E i \in Members(m, u) : m[i].desired = "running") /\ u \notin U
    <3>1. \A i \in Members(m, u) : i \in Ids /\ m[i].life = "live" /\ m[i].unit = u
      BY DEF Members, Rows
    <3>2. \A i \in Members(m, u) : q[i].desired = IF u \in U THEN "stopped" ELSE m[i].desired
      BY <1>1, <1>3, <3>1
    <3> QED BY <1>6, <3>2
  <2> QED BY <1>6, <2>1 DEF Wanted
<1> QED BY <1>1, <1>2, <1>3, <1>4, <1>5, <1>6, <1>7 DEF q

\* Both ways in which the model stops units are this one.
LEMMA StopsAreQuiet ==
    ASSUME NEW m \in RowsType
    PROVE  /\ Flushed(m) = Quiet(m, Broken(m))
           /\ \A U : Stopped(m, m, MembersOf(m, U)) = Quiet(m, U)
<1>1. ASSUME NEW i \in Ids, m[i].desired # "running"
      PROVE  [m[i] EXCEPT !.desired = "stopped"] = m[i]
  <2>1. m[i] \in InstType
    BY DEF RowsType
  <2> QED BY <1>1, <2>1 DEF InstType
<1> QED BY <1>1 DEF Flushed, Stopped, Quiet

\* Wanted units serve, are on their way, are broken, or none of it; never two of these.
LEMMA UnitsSplit ==
    ASSUME NEW m \in RowsType
    PROVE  /\ Units(m) \subseteq Ids \cup {0}
           /\ IsFiniteSet(Wanted(m)) /\ Wanted(m) \subseteq Units(m)
           /\ Wanted(m) = Counting(m) \cup Broken(m) \cup Limbo(m)
           /\ Serving(m) \cap Pending(m) = {} /\ Counting(m) \cap Broken(m) = {}
           /\ Counting(m) \cap Limbo(m) = {} /\ Broken(m) \cap Limbo(m) = {}
<1>1. Units(m) \subseteq Ids \cup {0}
  <2>1. \A i \in Ids : m[i].unit \in Ids \cup {0}
    BY DEF RowsType, InstType
  <2> QED BY <2>1 DEF Units, Rows
<1>2. IsFiniteSet(Wanted(m)) /\ Wanted(m) \subseteq Units(m)
  <2>1. IsFiniteSet(Ids \cup {0})
    BY IdsFinite, FS_AddElement
  <2>2. Wanted(m) \subseteq Units(m)
    BY DEF Wanted
  <2> QED BY <1>1, <2>1, <2>2, FS_Subset
<1>3. ASSUME NEW u \in Wanted(m) PROVE \E i \in Members(m, u) : TRUE
  BY DEF Wanted
<1>4. Serving(m) \cap Pending(m) = {}
  BY DEF Pending
<1>5. Serving(m) \cap Broken(m) = {}
  BY DEF Serving, Broken
<1>6. Pending(m) \cap Broken(m) = {}
  BY DEF Pending, Broken, LIVE
<1>7. Serving(m) \subseteq Wanted(m) /\ Pending(m) \subseteq Wanted(m) /\ Broken(m) \subseteq Wanted(m)
  BY DEF Serving, Pending, Broken
<1> QED BY <1>1, <1>2, <1>4, <1>5, <1>6, <1>7 DEF Counting, Limbo

\* The flush before the scheduler's queries moves no host and no GPU in use.
LEMMA FlushedReads ==
    ASSUME NEW m \in RowsType
    PROVE  /\ Flushed(m) \in RowsType /\ HostsOf(Flushed(m)) = HostsOf(m)
           /\ UsedSlots(m) \subseteq Slots /\ UsedSlots(Flushed(m)) = UsedSlots(m)
<1> DEFINE q == Quiet(m, Broken(m))
<1>1. Flushed(m) = q
  BY StopsAreQuiet
<1>2. /\ q \in RowsType /\ Rows(q) = Rows(m)
      /\ \A i \in Ids : q[i].slots = m[i].slots /\ HostOf(q[i]) = HostOf(m[i]) /\ q[i].state = m[i].state
      /\ \A u : Members(q, u) = Members(m, u)
      /\ Wanted(q) = Wanted(m) \ Broken(m)
  BY QuietReads
<1> HIDE DEF q
<1>3. HostsOf(q) = HostsOf(m)
  <2>1. \A i \in Rows(m) : HostOf(q[i]) = HostOf(m[i])
    BY <1>2 DEF Rows
  <2> QED BY <1>2, <2>1 DEF HostsOf
<1>4. \A u : \A i \in Members(m, u) : i \in Ids
  BY DEF Members, Rows
<1>5. Serving(q) = Serving(m)
  <2>1. Serving(m) \cap Broken(m) = {}
    BY UnitsSplit DEF Counting
  <2>2. Serving(q) = {u \in Wanted(m) \ Broken(m) : \A i \in Members(m, u) : m[i].state = "running"}
    BY <1>2, <1>4 DEF Serving
  <2> QED BY <2>1, <2>2 DEF Serving
<1>6. Pending(q) = Pending(m)
  <2>1. Pending(m) \cap Broken(m) = {}
    BY UnitsSplit DEF Counting
  <2>2. Pending(q) = {u \in (Wanted(m) \ Broken(m)) \ Serving(m) :
                        \A i \in Members(m, u) : m[i].state \in LIVE}
    BY <1>2, <1>4, <1>5 DEF Pending
  <2> QED BY <2>1, <2>2 DEF Pending
<1>7. MembersOf(q, Counting(q)) = MembersOf(m, Counting(m))
  BY <1>2, <1>5, <1>6 DEF MembersOf, Counting
<1>8. UsedSlots(q) = UsedSlots(m)
  <2>1. MembersOf(m, Counting(m)) \subseteq Ids
    BY <1>4 DEF MembersOf
  <2> QED BY <1>2, <1>7, <2>1 DEF UsedSlots
<1>9. UsedSlots(m) \subseteq Slots
  BY <1>4, HostsTyped DEF UsedSlots, MembersOf
<1> QED BY <1>1, <1>2, <1>3, <1>8, <1>9

(***************************************************************************)
(* The decision.                                                           *)
(***************************************************************************)

\* New replicas are blocks of one.
LEMMA SinglesAreBlocks ==
    ASSUME NEW c \in SnapType, NEW used \in SUBSET Slots, NEW n \in Nat, NEW st \in LoopType,
           Keeps(c, used, n, st)
    PROVE  Blocks(1, st.placed) /\ Cardinality(Heads(st.placed)) = n
<1>1. st.placed \in Seq(PlacementType) /\ Len(st.placed) = n
  BY DEF LoopType, Keeps
<1>2. DOMAIN st.placed = 1 .. n
  BY <1>1
<1>3. \A k \in 1 .. n : st.placed[k].rank = 0
  BY DEF Keeps
<1>4. Heads(st.placed) = 1 .. n
  BY <1>2, <1>3 DEF Heads
<1>5. ASSUME NEW k \in 1 .. n, NEW r \in 0 .. 1 - 1
      PROVE  r = 0 /\ k - st.placed[k].rank + r = k
  BY <1>3
<1>6. Blocks(1, st.placed)
  BY <1>2, <1>3, <1>5 DEF Blocks
<1> QED BY <1>4, <1>6, UpTo

\* Nothing is placed: no blocks, no heads.
LEMMA NothingPlaced ==
    ASSUME NEW nodes
    PROVE  Blocks(nodes, << >>) /\ Heads(<< >>) = {}
BY EmptyReads DEF Blocks, Heads

\* What a decision places, and when it places nothing or not enough.
Justified(m, c, nodes, plan) ==
    IF nodes = 1
    THEN \/ /\ plan.ok = TRUE
            /\ \E st \in LoopType : /\ plan.placed = st.placed
                                    /\ Keeps(c, UsedSlots(m), plan.short, st)
                                    /\ KeepsApart(c, UsedSlots(m), plan.short, st)
         \/ /\ plan.ok = FALSE /\ plan.placed = << >>
            /\ (\A f \in [1 .. plan.short -> Fit(c)] : Overfull(c, f)) \/ Tight(c, plan.short)
    ELSE /\ Separate(m, c, plan.placed)
         /\ (plan.short = 1 /\ plan.ok = FALSE) => NoGroup(c, nodes, HostsOf(m))

\* What a decision is made of.
Decided(m, up, n, nodes, plan) ==
    /\ plan \in PlanType /\ plan.count = n /\ plan.short = n - Cardinality(Counting(m))
    /\ plan.stops = MembersOf(m, Broken(m) \cup Surplus(m, n))
    /\ Cardinality(Counting(m)) \in Nat
    /\ Blocks(nodes, plan.placed)
    /\ IF plan.short <= 0 THEN plan.ok = TRUE /\ plan.placed = << >>
       ELSE /\ Justified(m, Snapshot(Flushed(m), up), nodes, plan)
            /\ plan.ok = TRUE => Cardinality(Heads(plan.placed)) = plan.short

\* Every decision is made of that.
LEMMA DecideSound ==
    ASSUME NEW m \in RowsType, NEW up \in SUBSET Hosts, NEW n \in Nat, NEW nodes \in Nat \ {0}
    PROVE  Decided(m, up, n, nodes, Decide(m, up, n, nodes))
<1> SUFFICES ASSUME NEW plan, plan = Decide(m, up, n, nodes) PROVE Decided(m, up, n, nodes, plan)
  OBVIOUS
<1> DEFINE short == n - Cardinality(Counting(m))
           c == Snapshot(Flushed(m), up)
           new == IF short <= 0 THEN Granted(<< >>)
                  ELSE IF nodes > 1 THEN NewGroups(Flushed(m), up, short, nodes)
                  ELSE NewReplicas(Flushed(m), up, short)
           stops == MembersOf(m, Broken(m) \cup Surplus(m, n))
<1>1. plan = [ok |-> new.ok, count |-> n, short |-> short, placed |-> new.placed, stops |-> stops]
  BY DEF Decide
<1>2. Cardinality(Counting(m)) \in Nat /\ short \in Int
  <2>1. IsFiniteSet(Counting(m))
    BY UnitsSplit, FS_Subset
  <2> QED BY <2>1, FS_CardinalityType
<1>3. stops \in SUBSET Ids
  BY DEF MembersOf, Members, Rows
<1>4. /\ Flushed(m) \in RowsType /\ HostsOf(Flushed(m)) = HostsOf(m)
      /\ UsedSlots(m) \in SUBSET Slots /\ UsedSlots(Flushed(m)) = UsedSlots(m)
  BY FlushedReads
<1>5. c \in SnapType
  BY <1>4, SnapshotReads
<1> HIDE DEF c, stops
<1>6. CASE short <= 0
  <2>1. new.ok = TRUE /\ new.placed = << >>
    BY <1>6 DEF Granted
  <2> HIDE DEF new, short
  <2>2. /\ plan.ok = TRUE /\ plan.placed = << >> /\ plan.count = n /\ plan.short = short
        /\ plan.stops = stops
    BY <1>1, <2>1
  <2>3. plan \in PlanType
    <3>1. new.ok \in BOOLEAN /\ new.placed \in Seq(PlacementType)
      BY <2>1, EmptyReads
    <3> QED BY <1>1, <1>2, <1>3, <3>1 DEF PlanType
  <2> QED BY <1>2, <1>6, <2>2, <2>3, NothingPlaced DEF Decided, short, stops
<1>7. CASE short > 0 /\ nodes = 1
  <2>1. short \in Nat /\ new = allocate_replicas(c, short, UsedSlots(m))
    BY <1>2, <1>4, <1>7 DEF NewReplicas, c
  <2> HIDE DEF new, short
  <2>2. /\ plan.ok = new.ok /\ plan.placed = new.placed /\ plan.count = n /\ plan.short = short
        /\ plan.stops = stops
    BY <1>1
  <2>3. \/ /\ new.ok = TRUE
           /\ \E st \in LoopType : /\ new.placed = st.placed
                                   /\ Keeps(c, UsedSlots(m), short, st)
                                   /\ KeepsApart(c, UsedSlots(m), short, st)
        \/ /\ new.ok = FALSE /\ new.placed = << >>
           /\ (\A f \in [1 .. short -> Fit(c)] : Overfull(c, f)) \/ Tight(c, short)
    BY <1>4, <1>5, <2>1, ReplicasSound
  <2>4. Justified(m, c, nodes, plan)
    BY <1>7, <2>2, <2>3 DEF Justified
  <2>5. /\ new.ok \in BOOLEAN /\ new.placed \in Seq(PlacementType) /\ Blocks(nodes, new.placed)
        /\ new.ok = TRUE => Cardinality(Heads(new.placed)) = short
    <3>1. CASE new.ok = TRUE
      <4>1. PICK st \in LoopType : new.placed = st.placed /\ Keeps(c, UsedSlots(m), short, st)
        BY <2>3, <3>1
      <4>2. Blocks(1, st.placed) /\ Cardinality(Heads(st.placed)) = short
        BY <1>4, <1>5, <2>1, <4>1, SinglesAreBlocks
      <4>3. st.placed \in Seq(PlacementType)
        BY DEF LoopType
      <4> QED BY <1>7, <3>1, <4>1, <4>2, <4>3
    <3>2. CASE new.ok = FALSE
      BY <2>3, <3>2, EmptyReads, NothingPlaced
    <3> QED BY <2>3, <3>1, <3>2
  <2>6. plan \in PlanType
    BY <1>1, <1>2, <1>3, <2>5 DEF PlanType
  <2> QED BY <1>2, <1>7, <2>2, <2>4, <2>5, <2>6 DEF Decided, short, stops, c
<1>8. CASE short > 0 /\ nodes # 1
  <2>1. short \in Nat /\ nodes > 1 /\ new = NewGroups(Flushed(m), up, short, nodes)
    BY <1>2, <1>8
  <2> HIDE DEF new, short
  <2>2. /\ plan.ok = new.ok /\ plan.placed = new.placed /\ plan.count = n /\ plan.short = short
        /\ plan.stops = stops
    BY <1>1
  <2>3. /\ new.ok \in BOOLEAN /\ new.placed \in Seq(PlacementType)
        /\ Separate(Flushed(m), c, new.placed) /\ Blocks(nodes, new.placed)
        /\ new.ok = TRUE => Cardinality(Heads(new.placed)) = short
        /\ (short = 1 /\ new.ok = FALSE) => NoGroup(c, nodes, HostsOf(Flushed(m)))
    <3>1. GroupsRight(Flushed(m), up, short, nodes, new)
      BY <1>4, <2>1, GroupsSound
    <3> QED BY <3>1 DEF GroupsRight, c
  <2>4. Separate(m, c, new.placed)
    BY <1>4, <2>3 DEF Separate
  <2>5. Justified(m, c, nodes, plan)
    BY <1>4, <1>8, <2>2, <2>3, <2>4 DEF Justified
  <2>6. plan \in PlanType
    BY <1>1, <1>2, <1>3, <2>3 DEF PlanType
  <2> QED BY <1>2, <1>8, <2>2, <2>3, <2>5, <2>6 DEF Decided, short, stops, c
<1>9. short <= 0 \/ (short > 0 /\ nodes = 1) \/ (short > 0 /\ nodes # 1)
  BY <1>2
<1> QED BY <1>6, <1>7, <1>8, <1>9

(***************************************************************************)
(* What a decision places is right, and what it refuses too.               *)
(***************************************************************************)

\* Every GPU has room for all replicas put on it; no port is given twice or in use.
Fits(c, new) ==
    /\ \A s \in Gpus(new) : s \in Usable(c) /\ Need * Count(new, s) <= c.free[s]
    /\ \A j, k \in DOMAIN new :
         new[j].port # 0 =>
           /\ \A h \in HostOf(new[j]) : new[j].port \notin c.ports[h]
           /\ (j # k /\ HostOf(new[j]) = HostOf(new[k])) => new[j].port # new[k].port

\* Replicas fit.
LEMMA ReplicasFit ==
    ASSUME NEW c \in SnapType, NEW used \in SUBSET Slots, NEW n \in Nat, NEW st \in LoopType,
           Keeps(c, used, n, st)
    PROVE  Fits(c, st.placed)
<1> DEFINE new == st.placed
<1>1. new \in Seq(PlacementType) /\ Len(new) = n /\ DOMAIN new = 1 .. n
  <2>1. new \in Seq(PlacementType) /\ Len(new) = n
    BY DEF LoopType, Keeps
  <2> QED BY <2>1
<1>2. /\ \A k \in 1 .. n : \E s \in Fit(c) :
           new[k].slots = {s} /\ new[k].port \in FreePorts(c, s[1], {})
      /\ \A j, k \in 1 .. n : j # k => new[j].port # new[k].port
      /\ \A s \in Slots : st.free[s] = c.free[s] - Need * Count(new, s)
      /\ \A s \in Gpus(new) : st.free[s] >= 0
  BY DEF Keeps
<1>3. st.free \in [Slots -> Int] /\ c.free \in [Slots -> Int]
  BY DEF LoopType, SnapType
<1> HIDE DEF new
<1>4. ASSUME NEW s \in Gpus(new) PROVE s \in Usable(c) /\ Need * Count(new, s) <= c.free[s]
  <2>1. PICK k \in 1 .. n : s \in new[k].slots
    BY <1>1 DEF Gpus
  <2>2. s \in Fit(c)
    BY <1>2, <2>1
  <2>3. s \in Usable(c) /\ s \in Slots
    BY <2>2, SchedulerAssumption DEF Fit, Fitting, Usable
  <2>4. Count(new, s) \in Nat
    <3>1. Count(new, s) = Cardinality({i \in 1 .. n : s \in new[i].slots})
      BY <1>1 DEF Count
    <3>2. IsFiniteSet({i \in 1 .. n : s \in new[i].slots})
      BY UpTo, FS_Subset
    <3> QED BY <3>1, <3>2, FS_CardinalityType
  <2>5. Need * Count(new, s) \in Int
    BY <2>4, SchedulerAssumption
  <2>6. st.free[s] = c.free[s] - Need * Count(new, s) /\ st.free[s] >= 0
    BY <1>2, <2>3
  <2>7. c.free[s] \in Int
    BY <1>3, <2>3
  <2> QED BY <2>3, <2>5, <2>6, <2>7
<1>5. ASSUME NEW j \in DOMAIN new PROVE \A h \in HostOf(new[j]) : new[j].port \notin c.ports[h]
  <2>1. PICK s \in Fit(c) : new[j].slots = {s} /\ new[j].port \in FreePorts(c, s[1], {})
    BY <1>1, <1>2
  <2>2. HostOf(new[j]) = {s[1]}
    BY <2>1 DEF HostOf
  <2> QED BY <2>1, <2>2 DEF FreePorts
<1>6. Fits(c, new)
  BY <1>1, <1>2, <1>4, <1>5 DEF Fits
<1> QED BY <1>6 DEF new

\* Groups fit.
LEMMA GroupsFit ==
    ASSUME NEW m \in RowsType, NEW up \in SUBSET Hosts, NEW new \in Seq(PlacementType),
           NEW c, c = Snapshot(Flushed(m), up), Separate(m, c, new)
    PROVE  Fits(c, new)
<1>1. /\ c \in SnapType /\ Flushed(m) \in RowsType /\ HostsOf(Flushed(m)) = HostsOf(m)
      /\ \A h \in Hosts \ HostsOf(m) : c.ports[h] = {}
  BY FlushedReads, SnapshotReads
<1>2. /\ \A k \in DOMAIN new : \E s \in Fit(c) : new[k].slots = {s} /\ s[1] \notin HostsOf(m)
      /\ \A j, k \in DOMAIN new : j # k => HostOf(new[j]) \cap HostOf(new[k]) = {}
  BY DEF Separate
<1>3. ASSUME NEW s \in Gpus(new) PROVE s \in Usable(c) /\ Need * Count(new, s) <= c.free[s]
  <2>1. PICK k \in DOMAIN new : s \in new[k].slots
    BY DEF Gpus
  <2>2. s \in Fit(c)
    BY <1>2, <2>1
  <2>3. s \in Usable(c) /\ c.free[s] >= Need
    BY <2>2 DEF Fit, Fitting
  <2>4. {i \in DOMAIN new : s \in new[i].slots} = {k}
    <3>1. ASSUME NEW i \in DOMAIN new, s \in new[i].slots PROVE i = k
      <4>1. s[1] \in HostOf(new[i]) /\ s[1] \in HostOf(new[k])
        BY <2>1, <3>1 DEF HostOf
      <4> QED BY <1>2, <4>1
    <3> QED BY <2>1, <3>1
  <2>5. Count(new, s) = 1
    BY <2>4, FS_Singleton DEF Count
  <2>6. Need * 1 = Need
    BY SchedulerAssumption
  <2> QED BY <2>3, <2>5, <2>6
<1>4. ASSUME NEW j \in DOMAIN new
      PROVE  HostOf(new[j]) # {} /\ \A h \in HostOf(new[j]) : new[j].port \notin c.ports[h]
  <2>1. PICK s \in Fit(c) : new[j].slots = {s} /\ s[1] \notin HostsOf(m)
    BY <1>2
  <2>2. HostOf(new[j]) = {s[1]}
    BY <2>1 DEF HostOf
  <2>3. s[1] \in Hosts
    <3>1. s \in Slots
      BY SchedulerAssumption DEF Fit, Fitting, Usable
    <3> QED BY <3>1, GpuIsPair
  <2> QED BY <1>1, <2>1, <2>2, <2>3
<1> QED BY <1>2, <1>3, <1>4 DEF Fits

\* Why a group cannot be placed, in terms of the hosts with a fitting GPU.
LEMMA NoGroupReads ==
    ASSUME NEW c \in SnapType, NEW n, NEW exclude, NoGroup(c, n, exclude)
    PROVE  \/ Cardinality(HostsIn(Fit(c)) \ exclude) < n
           \/ (HostsIn(Fit(c)) \ exclude) \cap Addressed = {}
           \/ Tight(c, 1) \/ \E h \in c.up : FreeRendezvous(c, h) = {}
<1>1. Able(c, exclude) = HostsIn(Fit(c)) \ exclude
  <2>1. \A s \in Fit(c) : s[1] \in c.up
    BY DEF Fit, Fitting, Usable
  <2>2. \A h : OnHost(c, h) # {} <=> \E s \in Fit(c) : s[1] = h
    BY DEF OnHost, Fit
  <2>3. \A h : h \in HostsIn(Fit(c)) <=> \E s \in Fit(c) : s[1] = h
    BY DEF HostsIn
  <2> QED BY <2>1, <2>2, <2>3 DEF Able
<1>2. ASSUME NEW h \in c.up, FreePorts(c, h, {}) = {} PROVE Tight(c, 1)
  <2>1. Cardinality(FreePorts(c, h, {})) = 0
    BY <1>2, FS_EmptySet
  <2>2. Cardinality(FreePorts(c, h, {})) < 1
    BY <2>1
  <2> QED BY <2>2 DEF Tight
<1> QED BY <1>1, <1>2 DEF NoGroup

\* What a call asks for is a count.
LEMMA TargetTyped ==
    ASSUME ScalingTypeOK, NEW c \in Calls
    PROVE  TargetOf(call[c]) \in Nat
<1>1. /\ call[c].lo \in Counts /\ call[c].hi \in Counts /\ call[c].arg \in Nat
  BY DEF ScalingTypeOK
<1>2. Counts \subseteq Nat
  BY ScalingAssumption DEF Counts
<1> QED BY <1>1, <1>2 DEF TargetOf, Clamp

\* Under the lock: the decision of the call that holds it.
LEMMA UnderLock ==
    ASSUME ScInv, txn # NoTxn
    PROVE  /\ txn.seen \in RowsType /\ txn.up \in SUBSET Hosts /\ dep.nodes \in Nat \ {0}
           /\ \E n \in Nat : txn.plan = Decide(txn.seen, txn.up, n, dep.nodes)
<1>1. ScalingTypeOK /\ LockHeld
  BY DEF ScInv
<1>2. PICK c \in Calls : txn.plan = Decide(txn.seen, txn.up, TargetOf(call[c]), dep.nodes)
  BY <1>1 DEF LockHeld
<1>3. txn.seen \in RowsType /\ txn.up \in SUBSET Hosts /\ dep.nodes \in Nat \ {0}
  BY <1>1 DEF ScalingTypeOK, RowsType
<1> QED BY <1>1, <1>2, <1>3, TargetTyped

\* The decision that is held is right in every respect.
LEMMA PlanSound ==
    ASSUME ScInv
    PROVE  PlacementSound
<1> SUFFICES ASSUME txn # NoTxn PROVE PlacementSound
  BY DEF PlacementSound, PlacementFits, PlacementSpreads, OneRankPerHost, RefusalJustified, Placing
<1> DEFINE m == txn.seen
           plan == txn.plan
           new == txn.plan.placed
           c == Seen
<1>1. PICK n \in Nat : plan = Decide(m, txn.up, n, dep.nodes)
  BY UnderLock
<1>2. m \in RowsType /\ txn.up \in SUBSET Hosts /\ dep.nodes \in Nat \ {0}
  BY UnderLock
<1>3. /\ plan \in PlanType
      /\ IF plan.short <= 0 THEN plan.ok = TRUE /\ plan.placed = << >>
         ELSE Justified(m, Snapshot(Flushed(m), txn.up), dep.nodes, plan)
  <2>1. Decided(m, txn.up, n, dep.nodes, plan)
    BY <1>1, <1>2, DecideSound
  <2> QED BY <2>1 DEF Decided
<1>4. c = Snapshot(Flushed(m), txn.up)
  BY DEF Seen
<1>5. /\ plan.ok \in BOOLEAN /\ plan.short \in Int /\ new \in Seq(PlacementType)
  BY <1>3 DEF PlanType
<1>6. c \in SnapType /\ c.up = txn.up
  BY <1>2, <1>4, FlushedReads, SnapshotReads
<1>7. UsedSlots(m) \in SUBSET Slots
  BY <1>2, FlushedReads
<1>8. UNION {p.slots : p \in Placed} = Gpus(new)
  BY DEF Placed, Gpus
<1>9. Fit(c) = {s \in Usable(c) : c.free[s] >= Need}
  BY DEF Fit, Fitting
<1>10. (new # << >> \/ plan.ok = FALSE) => plan.short > 0 /\ Justified(m, c, dep.nodes, plan)
  BY <1>3, <1>4, <1>5
<1> HIDE DEF c
<1>11. ASSUME new # << >>, dep.nodes = 1
       PROVE  \E st \in LoopType : /\ new = st.placed /\ plan.ok = TRUE
                                   /\ Keeps(c, UsedSlots(m), plan.short, st)
                                   /\ KeepsApart(c, UsedSlots(m), plan.short, st)
  BY <1>10, <1>11 DEF Justified
<1>12. ASSUME new # << >>, dep.nodes # 1 PROVE Separate(m, c, new)
  BY <1>10, <1>12 DEF Justified
<1>13. PlacementFits
  <2>1. SUFFICES ASSUME new # << >> PROVE Fits(c, new)
    BY <1>8 DEF PlacementFits, Placing, Fits, Count, c
  <2>2. CASE dep.nodes = 1
    <3>1. PICK st \in LoopType : new = st.placed /\ Keeps(c, UsedSlots(m), plan.short, st)
      BY <1>11, <2>1, <2>2
    <3>2. plan.short \in Nat
      BY <1>5, <1>10, <2>1
    <3>3. Fits(c, st.placed)
      BY <1>6, <1>7, <3>1, <3>2, ReplicasFit
    <3> QED BY <3>1, <3>3
  <2>3. CASE dep.nodes # 1
    BY <1>2, <1>4, <1>5, <1>12, <2>1, <2>3, GroupsFit
  <2> QED BY <2>2, <2>3
<1>14. PlacementSpreads
  <2> DEFINE used == UsedSlots(m)
  <2>1. SUFFICES ASSUME new # << >>, dep.nodes = 1
                 PROVE  /\ Cardinality(HostsIn(Gpus(new)) \cap Fresh(c, used))
                             = Smaller(plan.short, Cardinality(Fresh(c, used)))
                        /\ Cardinality(Gpus(new) \ used)
                             = Smaller(plan.short, Cardinality(Fit(c) \ used))
    BY <1>8, <1>9 DEF PlacementSpreads, Placing, Fresh, HostsIn, c
  <2> QED BY <1>11, <2>1 DEF KeepsApart
<1>15. OneRankPerHost
  <2>1. SUFFICES ASSUME new # << >>, dep.nodes > 1, NEW k \in DOMAIN new
                 PROVE  /\ \A j \in DOMAIN new \ {k} : HostOf(new[j]) \cap HostOf(new[k]) = {}
                        /\ HostOf(new[k]) \cap HostsOf(m) = {}
                        /\ (new[k].rank = 0) <=> (new[k].port # 0)
                        /\ new[k].rank = 0 => HostOf(new[k]) \subseteq Addressed
    BY DEF OneRankPerHost, Placing
  <2>2. Separate(m, c, new)
    BY <1>12, <2>1
  <2>3. HostOf(new[k]) \cap HostsOf(m) = {}
    <3>1. PICK s : new[k].slots = {s} /\ s[1] \notin HostsOf(m)
      BY <2>2 DEF Separate
    <3>2. HostOf(new[k]) = {s[1]}
      BY <3>1 DEF HostOf
    <3> QED BY <3>1, <3>2
  <2> QED BY <2>2, <2>3 DEF Separate
<1>16. RefusalJustified
  <2>1. SUFFICES ASSUME plan.ok = FALSE
                 PROVE  IF dep.nodes = 1
                        THEN (\A f \in [1 .. plan.short -> Fit(c)] : Overfull(c, f)) \/ Tight(c, plan.short)
                        ELSE plan.short = 1 =>
                               \/ Cardinality(HostsIn(Fit(c)) \ HostsOf(m)) < dep.nodes
                               \/ (HostsIn(Fit(c)) \ HostsOf(m)) \cap Addressed = {}
                               \/ Tight(c, 1) \/ \E h \in c.up : FreeRendezvous(c, h) = {}
    BY <1>5, <1>6, <1>9 DEF RefusalJustified, Overfull, Tight, HostsIn, c
  <2>2. CASE dep.nodes = 1
    BY <1>10, <2>1, <2>2 DEF Justified
  <2>3. CASE dep.nodes # 1
    <3>1. plan.short = 1 => NoGroup(c, dep.nodes, HostsOf(m))
      BY <1>10, <2>1, <2>3 DEF Justified
    <3> QED BY <1>6, <2>3, <3>1, NoGroupReads
  <2> QED BY <2>2, <2>3
<1> QED BY <1>13, <1>14, <1>15, <1>16 DEF PlacementSound

(***************************************************************************)
(* Rows stay in order.                                                     *)
(***************************************************************************)

\* From m to n no row appears or changes its unit; rows may go.
Alike(m, n) == \A i \in Ids :
    /\ n[i].life = "unborn" <=> m[i].life = "unborn"
    /\ n[i].life = "live" => m[i].life = "live" /\ n[i].unit = m[i].unit

LEMMA OrderKept ==
    ASSUME NEW m \in RowsType, NEW n \in RowsType, RowsInOrder(m), Alike(m, n)
    PROVE  Unborn(n) = Unborn(m) /\ RowsInOrder(n)
<1>1. Unborn(n) = Unborn(m)
  BY DEF Alike, Unborn
<1>2. First(n) = First(m)
  BY <1>1 DEF First
<1>3. \A i \in Rows(n) : n[i].unit \in 1 .. i
  BY DEF Alike, RowsInOrder, Rows
<1> QED BY <1>1, <1>2, <1>3 DEF RowsInOrder

\* The k-th of l rows, counted from a.
LEMMA Shifted ==
    ASSUME NEW a \in Nat \ {0}, NEW l \in Nat, NEW k \in 1 .. l, MaxInst \in Nat, a + l - 1 <= MaxInst
    PROVE  \E i \in Ids : i = a + k - 1 /\ i \in a .. a + l - 1 /\ i - a + 1 = k
<1>1. a + k - 1 \in Ids
  BY DEF Ids
<1>2. a + k - 1 \in a .. a + l - 1 /\ (a + k - 1) - a + 1 = k
  OBVIOUS
<1> QED BY <1>1, <1>2

LEMMA ShiftedBack ==
    ASSUME NEW a \in Nat \ {0}, NEW l \in Nat, NEW i \in a .. a + l - 1
    PROVE  \E k \in 1 .. l : i = a + k - 1
<1>1. i - a + 1 \in 1 .. l /\ i = a + (i - a + 1) - 1
  OBVIOUS
<1> QED BY <1>1

\* New rows come after all others, and begin as wanted rows on their way.
NewRow(i, p) ==
    [life |-> "live", desired |-> "running", state |-> "pending", slots |-> p.slots,
     port |-> p.port, unit |-> i - p.rank, rank |-> p.rank, rv |-> p.rv]

LEMMA InsertedReads ==
    ASSUME NEW m \in RowsType, RowsInOrder(m), NEW q \in Seq(PlacementType),
           \A k \in DOMAIN q : q[k].rank <= k - 1, Len(q) <= Cardinality(Unborn(m))
    PROVE  /\ Inserted(m, q) = WithRows(m, q) /\ WithRows(m, q) \in RowsType
           /\ First(m) \in Nat \ {0} /\ First(m) + Len(q) - 1 <= MaxInst
           /\ \A i \in Ids : m[i].life # "unborn" <=> i < First(m)
           /\ \A i \in Ids : i \notin First(m) .. First(m) + Len(q) - 1 => WithRows(m, q)[i] = m[i]
           /\ \A k \in DOMAIN q :
                /\ First(m) + k - 1 \in Ids
                /\ WithRows(m, q)[First(m) + k - 1] = NewRow(First(m) + k - 1, q[k])
           /\ RowsInOrder(WithRows(m, q))
<1> DEFINE a == First(m)
           n == Inserted(m, q)
<1>1. /\ a \in Nat \ {0} /\ a <= MaxInst + 1 /\ MaxInst \in Nat
      /\ a = MaxInst - Cardinality(Unborn(m)) + 1 /\ Cardinality(Unborn(m)) \in Nat
  BY FirstTyped, IdsFinite DEF First
<1>2. DOMAIN q = 1 .. Len(q) /\ Len(q) \in Nat /\ \A k \in DOMAIN q : q[k] \in PlacementType
  OBVIOUS
<1>3. n = [i \in Ids |-> IF i \in a .. a + Len(q) - 1 THEN NewRow(i, q[i - a + 1]) ELSE m[i]]
  BY DEF Inserted, NewRow
<1>4. a + Len(q) - 1 <= MaxInst
  BY <1>1, <1>2
<1>5. Unborn(m) = a .. MaxInst
  BY DEF RowsInOrder
<1> HIDE DEF a, n
<1>6. n = WithRows(m, q)
  <2>1. CASE q = << >>
    <3>1. Len(q) = 0
      BY <2>1, EmptyReads
    <3>2. a .. a + Len(q) - 1 = {}
      BY <1>1, <3>1
    <3>3. n = [i \in Ids |-> m[i]]
      BY <1>3, <3>2
    <3>4. m = [i \in Ids |-> m[i]]
      BY DEF RowsType
    <3> QED BY <2>1, <3>3, <3>4 DEF WithRows
  <2>2. CASE q # << >>
    BY <2>2 DEF WithRows, n
  <2> QED BY <2>1, <2>2
<1>7. n \in RowsType
  BY <1>6, InsertedTyped
<1>8. \A i \in Ids : m[i].life # "unborn" <=> i < a
  <2>1. \A i \in Ids : i \in Nat /\ 1 <= i /\ i <= MaxInst
    BY <1>1 DEF Ids
  <2>2. \A i \in Ids : m[i].life = "unborn" <=> i \in a .. MaxInst
    BY <1>5 DEF Unborn
  <2> QED BY <1>1, <2>1, <2>2
<1>9. \A i \in Ids : i \notin a .. a + Len(q) - 1 => n[i] = m[i]
  BY <1>3
<1>10. ASSUME NEW k \in DOMAIN q
       PROVE  a + k - 1 \in Ids /\ n[a + k - 1] = NewRow(a + k - 1, q[k])
  <2>1. k \in 1 .. Len(q)
    BY <1>2
  <2>2. PICK i \in Ids : i = a + k - 1 /\ i \in a .. a + Len(q) - 1 /\ i - a + 1 = k
    BY <1>1, <1>2, <1>4, <2>1, Shifted
  <2>3. n[i] = NewRow(i, q[i - a + 1])
    BY <1>3, <2>2
  <2> QED BY <2>2, <2>3
<1>11. ASSUME NEW i \in Ids, i \in a .. a + Len(q) - 1
       PROVE  \E k \in DOMAIN q : i = a + k - 1
  <2>1. PICK k \in 1 .. Len(q) : i = a + k - 1
    BY <1>1, <1>2, <1>11, ShiftedBack
  <2> QED BY <1>2, <2>1
<1>12. ASSUME NEW i \in Ids, i \in a .. a + Len(q) - 1
       PROVE  n[i].life = "live" /\ n[i].unit \in 1 .. i
  <2>1. PICK k \in DOMAIN q : i = a + k - 1
    BY <1>11, <1>12
  <2>2. n[i] = NewRow(i, q[k])
    BY <1>10, <2>1
  <2>3. n[i].life = "live" /\ n[i].unit = i - q[k].rank
    BY <2>2 DEF NewRow
  <2>4. q[k].rank \in Nat /\ q[k].rank <= k - 1 /\ k \in Nat
    BY <1>2 DEF PlacementType
  <2>5. i \in Nat /\ q[k].rank < i
    <3> DEFINE r == q[k].rank
    <3>1. r \in Nat /\ r <= k - 1 /\ k \in Nat /\ a \in Nat /\ a >= 1
      BY <1>1, <2>4
    <3> HIDE DEF r
    <3> QED BY <2>1, <3>1 DEF r
  <2>6. i - q[k].rank \in 1 .. i
    BY <2>4, <2>5
  <2> QED BY <2>3, <2>6
<1>13. Unborn(n) = a + Len(q) .. MaxInst
  <2>1. \A i \in Ids : i \in Nat /\ 1 <= i /\ i <= MaxInst
    BY <1>1 DEF Ids
  <2>2. \A i \in Ids : n[i].life = "unborn" <=> m[i].life = "unborn" /\ i \notin a .. a + Len(q) - 1
    BY <1>9, <1>12
  <2>3. \A i \in Ids : n[i].life = "unborn" <=> i \in a + Len(q) .. MaxInst
    BY <1>1, <1>2, <1>8, <2>1, <2>2
  <2>4. a + Len(q) .. MaxInst \subseteq Ids
    BY <1>1, <1>2 DEF Ids
  <2> QED BY <2>3, <2>4 DEF Unborn
<1>14. First(n) = a + Len(q)
  <2>1. Cardinality(a + Len(q) .. MaxInst) = MaxInst - (a + Len(q)) + 1
    <3> DEFINE b == a + Len(q)
    <3>1. b \in Int /\ MaxInst \in Int /\ b - 1 <= MaxInst
      BY <1>1, <1>2, <1>4
    <3> HIDE DEF b
    <3>2. Cardinality(b .. MaxInst) = IF b > MaxInst THEN 0 ELSE MaxInst - b + 1
      BY <3>1, FS_Interval
    <3>3. Cardinality(b .. MaxInst) = MaxInst - b + 1
      BY <3>1, <3>2
    <3> QED BY <3>3 DEF b
  <2> QED BY <1>1, <1>2, <1>13, <2>1 DEF First
<1>15. \A i \in Rows(n) : n[i].unit \in 1 .. i
  <2>1. ASSUME NEW i \in Rows(n), i \notin a .. a + Len(q) - 1 PROVE n[i].unit \in 1 .. i
    <3>1. i \in Ids /\ n[i] = m[i] /\ i \in Rows(m)
      BY <1>9, <2>1 DEF Rows
    <3> QED BY <3>1 DEF RowsInOrder
  <2>2. \A i \in Rows(n) : i \in Ids
    BY DEF Rows
  <2> QED BY <1>12, <2>1, <2>2
<1>16. RowsInOrder(n)
  BY <1>13, <1>14, <1>15 DEF RowsInOrder
<1>17. /\ Inserted(m, q) = WithRows(m, q) /\ WithRows(m, q) = n
  BY <1>6 DEF n
<1>18. ASSUME NEW k \in DOMAIN q
       PROVE  /\ First(m) + k - 1 \in Ids
              /\ WithRows(m, q)[First(m) + k - 1] = NewRow(First(m) + k - 1, q[k])
  BY <1>10, <1>17 DEF a
<1>19. /\ First(m) \in Nat \ {0} /\ First(m) + Len(q) - 1 <= MaxInst
       /\ \A i \in Ids : m[i].life # "unborn" <=> i < First(m)
  BY <1>1, <1>4, <1>8 DEF a
<1>20. \A i \in Ids : i \notin First(m) .. First(m) + Len(q) - 1 => WithRows(m, q)[i] = m[i]
  BY <1>9, <1>17 DEF a
<1>21. WithRows(m, q) \in RowsType /\ RowsInOrder(WithRows(m, q))
  BY <1>7, <1>16, <1>17
<1> QED BY <1>17, <1>18, <1>19, <1>20, <1>21

(***************************************************************************)
(* The invariant is inductive: one lemma per action.                       *)
(***************************************************************************)

\* Rows that were never used or are gone, and rows with one field changed, are rows.
LEMMA RowFields ==
    /\ NoInst("unborn") \in InstType /\ NoInst("gone") \in InstType
    /\ NoInst("unborn").life = "unborn" /\ NoInst("gone").life = "gone"
    /\ \A r \in InstType, d \in {"running", "stopped"} :
         /\ [r EXCEPT !.desired = d] \in InstType
         /\ [r EXCEPT !.desired = d].life = r.life /\ [r EXCEPT !.desired = d].unit = r.unit
    /\ \A r \in InstType, s \in LIVE \cup {"stopped", "error"} :
         /\ [r EXCEPT !.state = s] \in InstType
         /\ [r EXCEPT !.state = s].life = r.life /\ [r EXCEPT !.state = s].unit = r.unit
BY DEF NoInst, InstType, LIVE

\* One is a count.
LEMMA CountsTyped == Counts \subseteq Nat \ {0} /\ 1 \in Counts
BY ScalingAssumption DEF Counts

\* Nothing that is idle breaks a type.
LEMMA IdleTyped ==
    /\ NoDep \in [there : BOOLEAN, nodes : Nat \ {0}, min : Counts, max : Counts]
    /\ NoDep.min <= NoDep.max
    /\ NoCall \in [op : {"none", "scale", "range", "tick", "remove"}, min : Counts, max : Counts,
                   arg : Nat, lo : Counts, hi : Counts, from : Nat]
    /\ NoTxn \in [by : SUBSET Calls, seen : [Ids -> InstType], up : SUBSET Hosts, plan : PlanType]
<1>1. NoDep \in [there : BOOLEAN, nodes : Nat \ {0}, min : Counts, max : Counts] /\ NoDep.min <= NoDep.max
  BY CountsTyped DEF NoDep
<1>2. NoCall \in [op : {"none", "scale", "range", "tick", "remove"}, min : Counts, max : Counts,
                  arg : Nat, lo : Counts, hi : Counts, from : Nat]
  BY CountsTyped DEF NoCall
<1>3. NoPlan \in PlanType
  BY EmptyReads DEF NoPlan, PlanType
<1>4. NoTxn \in [by : SUBSET Calls, seen : [Ids -> InstType], up : SUBSET Hosts, plan : PlanType]
  BY <1>3, RowFields DEF NoTxn
<1> QED BY <1>1, <1>2, <1>4

\* The types, part by part.
DepTyped == dep \in [there : BOOLEAN, nodes : Nat \ {0}, min : Counts, max : Counts] /\ dep.min <= dep.max
CallTyped ==
    call \in [Calls -> [op : {"none", "scale", "range", "tick", "remove"}, min : Counts, max : Counts,
                        arg : Nat, lo : Counts, hi : Counts, from : Nat]]
TxnTyped == txn \in [by : SUBSET Calls, seen : [Ids -> InstType], up : SUBSET Hosts, plan : PlanType]
RestTyped == cooling \in BOOLEAN /\ made \in 0 .. MaxCalls

LEMMA TypeParts ==
    ScalingTypeOK <=> DepTyped /\ inst \in RowsType /\ CallTyped /\ TxnTyped /\ RestTyped
BY DEF ScalingTypeOK, DepTyped, RowsType, CallTyped, TxnTyped, RestTyped

\* The lock is still held, or still free.
LEMMA LockKept ==
    ASSUME LockHeld, Unborn(inst') = Unborn(inst), txn' = txn, dep' = dep,
           \A c \in Calls : txn.by = {c} => call'[c] = call[c]
    PROVE  LockHeld'
<1>1. CASE txn = NoTxn
  BY <1>1 DEF LockHeld
<1>2. ASSUME NEW c \in Calls,
             txn.by = {c} /\ call[c].op \in {"scale", "range", "tick"} /\ dep.there,
             txn.plan = Decide(txn.seen, txn.up, TargetOf(call[c]), dep.nodes),
             Room(txn.seen, txn.plan.placed), Unborn(inst) = Unborn(txn.seen)
      PROVE  LockHeld'
  <2>1. call'[c] = call[c]
    BY <1>2
  <2>2. TargetOf(call'[c]) = TargetOf(call[c])
    BY <2>1
  <2>3. /\ txn'.by = {c} /\ call'[c].op \in {"scale", "range", "tick"} /\ dep'.there
        /\ txn'.plan = Decide(txn'.seen, txn'.up, TargetOf(call'[c]), dep'.nodes)
        /\ Room(txn'.seen, txn'.plan.placed)
        /\ Unborn(inst') = Unborn(txn'.seen)
    BY <1>2, <2>1, <2>2
  <2> QED BY <2>3 DEF LockHeld
<1> QED BY <1>1, <1>2 DEF LockHeld

\* At the start nothing is there.
LEMMA ScalingInitInv == ScalingInit => ScInv
<1> SUFFICES ASSUME ScalingInit PROVE ScInv
  OBVIOUS
<1> USE DEF ScalingInit
<1>1. inst \in RowsType /\ \A i \in Ids : inst[i].life = "unborn"
  BY RowFields DEF RowsType
<1>2. ScalingTypeOK
  <2>1. DepTyped /\ CallTyped /\ TxnTyped
    BY IdleTyped DEF DepTyped, CallTyped, TxnTyped
  <2>2. RestTyped
    <3>1. cooling \in BOOLEAN
      BY Zenon
    <3>2. made \in 0 .. MaxCalls
      BY ScalingAssumption
    <3> QED BY <3>1, <3>2 DEF RestTyped
  <2> QED BY <1>1, <2>1, <2>2, TypeParts
<1>3. RowsInOrder(inst)
  <2>1. Unborn(inst) = Ids /\ Rows(inst) = {}
    BY <1>1 DEF Unborn, Rows
  <2>2. First(inst) = 1
    BY <2>1, IdsFinite DEF First
  <2> QED BY <2>1, <2>2 DEF RowsInOrder, Ids
<1>4. CallsFit
  BY DEF CallsFit, NoCall
<1>5. LockHeld
  BY DEF LockHeld
<1> QED BY <1>2, <1>3, <1>4, <1>5 DEF ScInv

\* A step that only changes rows, none of them new.
LEMMA RowsChange ==
    ASSUME ScInv, inst' \in RowsType, Alike(inst, inst'), UNCHANGED <<dep, call, txn>>, RestTyped'
    PROVE  ScInv'
<1>1. ScalingTypeOK /\ RowsInOrder(inst) /\ CallsFit /\ LockHeld
  BY DEF ScInv
<1>2. inst \in RowsType
  BY <1>1, TypeParts
<1>3. Unborn(inst') = Unborn(inst) /\ RowsInOrder(inst')
  BY <1>1, <1>2, OrderKept
<1>4. (DepTyped /\ CallTyped /\ TxnTyped)'
  BY <1>1, TypeParts DEF DepTyped, CallTyped, TxnTyped
<1>5. ScalingTypeOK'
  BY <1>4 DEF ScalingTypeOK, DepTyped, RowsType, CallTyped, TxnTyped, RestTyped
<1>6. CallsFit'
  BY <1>1 DEF CallsFit
<1>7. LockHeld'
  BY <1>1, <1>3, LockKept
<1> QED BY <1>3, <1>5, <1>6, <1>7 DEF ScInv

\* Room for the rows means that their numbers are left.
LEMMA RoomFits ==
    ASSUME NEW m \in RowsType, NEW q \in Seq(PlacementType), Room(m, q)
    PROVE  Len(q) <= Cardinality(Unborn(m))
<1>1. Cardinality(Unborn(m)) \in Nat
  BY FirstTyped
<1>2. CASE q = << >>
  BY <1>1, <1>2, EmptyReads
<1>3. CASE q # << >>
  BY <1>3 DEF Room
<1> QED BY <1>2, <1>3

\* A first allocation: typed placements, a head before its ranks.
Allocated(out) ==
    out.ok => out.placed \in Seq(PlacementType) /\ \A k \in DOMAIN out.placed : out.placed[k].rank <= k - 1

\* A head comes before its ranks, also in blocks.
LEMMA BlocksRank ==
    ASSUME NEW nodes, NEW q, Blocks(nodes, q)
    PROVE  \A k \in DOMAIN q : q[k].rank <= k - 1
BY DEF Blocks

\* What a new deployment needs of the above: the placements come from the loop.
LEMMA ReplicasPlaced ==
    ASSUME NEW c \in SnapType, NEW used \in SUBSET Slots, NEW count \in Nat, NEW out,
           out = allocate_replicas(c, count, used)
    PROVE  \/ /\ out.ok = TRUE
              /\ \E st \in LoopType : out.placed = st.placed /\ Keeps(c, used, count, st)
           \/ out.ok = FALSE
BY ReplicasSound

\* All three ways to allocate for a new deployment do it.
LEMMA AllAllocate ==
    ASSUME NEW c \in SnapType
    PROVE  /\ \A n \in Nat : Allocated(allocate_replicas(c, n, {}))
           /\ \A n \in Nat \ {0} : Allocated(allocate_parallel_replicas(c, n, {}))
           /\ \A h, xs : Allocated(allocate_manual(c, h, xs))
<1>1. ASSUME NEW n \in Nat PROVE Allocated(allocate_replicas(c, n, {}))
  <2> DEFINE out == allocate_replicas(c, n, {})
  <2>1. {} \in SUBSET Slots /\ out = allocate_replicas(c, n, {})
    OBVIOUS
  <2> HIDE DEF out
  <2>2. \/ /\ out.ok = TRUE
           /\ \E st \in LoopType : out.placed = st.placed /\ Keeps(c, {}, n, st)
        \/ out.ok = FALSE
    <3> DEFINE used == {}
    <3>1. used \in SUBSET Slots /\ out = allocate_replicas(c, n, used)
      BY <2>1
    <3> HIDE DEF used
    <3>2. \/ /\ out.ok = TRUE
             /\ \E st \in LoopType : out.placed = st.placed /\ Keeps(c, used, n, st)
          \/ out.ok = FALSE
      BY <3>1, ReplicasPlaced
    <3> QED BY <3>2 DEF used
  <2>3. CASE out.ok = TRUE
    <3>1. PICK st \in LoopType : out.placed = st.placed /\ Keeps(c, {}, n, st)
      BY <2>2, <2>3
    <3>2. Blocks(1, st.placed)
      BY <2>1, <3>1, SinglesAreBlocks
    <3>3. st.placed \in Seq(PlacementType)
      BY DEF LoopType
    <3> QED BY <3>1, <3>2, <3>3, BlocksRank DEF Allocated, out
  <2>4. CASE out.ok = FALSE
    BY <2>4 DEF Allocated, out
  <2> QED BY <2>2, <2>3, <2>4
<1>2. ASSUME NEW n \in Nat \ {0} PROVE Allocated(allocate_parallel_replicas(c, n, {}))
  <2> DEFINE out == allocate_parallel_replicas(c, n, {})
  <2>1. {} \in SUBSET Hosts /\ n \in Nat /\ n # 0
    OBVIOUS
  <2>2. (out.ok = TRUE /\ Grouped(c, n, {}, out.placed)) \/ out.ok = FALSE
    BY <2>1, GroupSound
  <2> HIDE DEF out
  <2>3. CASE out.ok = TRUE
    <3>1. /\ out.placed \in Seq(PlacementType) /\ Len(out.placed) = n
          /\ \A k \in 1 .. n : out.placed[k].rank = k - 1
      BY <2>2, <2>3 DEF Grouped
    <3>2. \A k \in DOMAIN out.placed : out.placed[k].rank <= k - 1
      BY <3>1
    <3> QED BY <3>1, <3>2 DEF Allocated, out
  <2>4. CASE out.ok = FALSE
    BY <2>4 DEF Allocated, out
  <2> QED BY <2>2, <2>3, <2>4
<1>3. ASSUME NEW h, NEW xs PROVE Allocated(allocate_manual(c, h, xs))
  <2> DEFINE wanted == {<<h, x>> : x \in xs}
             ports == FreePorts(c, h, {})
             p == Placement(wanted, Least(ports), 0, 0)
             fine == h \in c.up /\ wanted \subseteq Fitting(c, c.free) /\ ports # {}
  <2>1. allocate_manual(c, h, xs) = IF fine THEN Granted(<< p >>) ELSE Refused
    BY DEF allocate_manual
  <2>2. CASE fine
    <3>1. ports \in SUBSET InstancePorts
      BY DEF FreePorts
    <3>2. Least(ports) \in InstancePorts
      BY <2>2, <3>1, LeastIn, SchedulerAssumption
    <3>3. wanted \subseteq Slots
      BY <2>2, SchedulerAssumption DEF Fitting, Usable
    <3> HIDE DEF wanted, ports
    <3>4. p \in PlacementType /\ p.rank = 0
      BY <3>2, <3>3 DEF Placement, PlacementType
    <3> HIDE DEF p
    <3>5. << p >> \in Seq(PlacementType) /\ DOMAIN << p >> = {1} /\ << p >>[1] = p
      BY <3>4
    <3>6. \A k \in DOMAIN << p >> : << p >>[k].rank <= k - 1
      BY <3>4, <3>5
    <3>7. allocate_manual(c, h, xs).placed = << p >>
      BY <2>1, <2>2 DEF Granted
    <3> QED BY <3>5, <3>6, <3>7 DEF Allocated
  <2>3. CASE ~fine
    <3>1. allocate_manual(c, h, xs).ok = FALSE
      BY <2>1, <2>3 DEF Refused
    <3> QED BY <3>1 DEF Allocated
  <2> QED BY <2>2, <2>3
<1> QED BY <1>1, <1>2, <1>3

\* POST /model-instances.
LEMMA CreateKeeps ==
    ASSUME ScInv, NEW alloc, Allocated(alloc), NEW nodes \in Nat \ {0}, NEW n \in Counts,
           Create(alloc, nodes, n)
    PROVE  ScInv'
<1>1. ScalingTypeOK /\ RowsInOrder(inst) /\ CallsFit /\ LockHeld
  BY DEF ScInv
<1>2. inst \in RowsType /\ CallTyped /\ TxnTyped /\ RestTyped
  BY <1>1, TypeParts
<1>3. /\ alloc.placed \in Seq(PlacementType) /\ Room(inst, alloc.placed)
      /\ \A k \in DOMAIN alloc.placed : alloc.placed[k].rank <= k - 1
  BY DEF Create, Allocated
<1>4. Len(alloc.placed) <= Cardinality(Unborn(inst))
  BY <1>2, <1>3, RoomFits
<1>5. inst' \in RowsType /\ RowsInOrder(inst')
  <2>1. inst' = Inserted(inst, alloc.placed)
    BY DEF Create
  <2> QED BY <1>1, <1>2, <1>3, <1>4, <2>1, InsertedReads
<1>6. DepTyped'
  BY CountsTyped DEF Create, DepTyped
<1>7. txn = NoTxn
  BY <1>1 DEF LockHeld, Create
<1>8. LockHeld' /\ CallsFit'
  BY <1>1, <1>7 DEF LockHeld, CallsFit, Create
<1>9. (CallTyped /\ TxnTyped /\ RestTyped)'
  BY <1>2 DEF Create, CallTyped, TxnTyped, RestTyped
<1>10. ScalingTypeOK'
  BY <1>5, <1>6, <1>9 DEF ScalingTypeOK, DepTyped, RowsType, CallTyped, TxnTyped, RestTyped
<1> QED BY <1>5, <1>8, <1>10 DEF ScInv

LEMMA DeployKeeps ==
    ASSUME ScInv, NEW up \in UpSets, Deploy(up)
    PROVE  ScInv'
<1>1. inst \in RowsType /\ up \in SUBSET Hosts
  BY ScalingAssumption, TypeParts DEF ScInv
<1>2. Snapshot(inst, up) \in SnapType
  BY <1>1, SnapshotReads
<1>3. ASSUME NEW n \in Counts, DeployReplicas(n, up) PROVE ScInv'
  <2>1. Allocated(allocate_replicas(Snapshot(inst, up), n, {}))
    BY <1>2, AllAllocate, CountsTyped
  <2> QED BY <1>3, <2>1, CreateKeeps DEF DeployReplicas
<1>4. ASSUME NEW n \in GroupSizes, DeployGroup(n, up) PROVE ScInv'
  <2>1. n \in Nat \ {0} /\ 1 \in Counts
    BY ScalingAssumption, CountsTyped
  <2>2. Allocated(allocate_parallel_replicas(Snapshot(inst, up), n, {}))
    BY <1>2, <2>1, AllAllocate
  <2> QED BY <1>4, <2>1, <2>2, CreateKeeps DEF DeployGroup
<1>5. ASSUME NEW h, NEW xs, DeployManual(h, xs, up) PROVE ScInv'
  <2>1. 1 \in Nat \ {0} /\ 1 \in Counts
    BY CountsTyped
  <2>2. Allocated(allocate_manual(Snapshot(inst, up), h, xs))
    BY <1>2, AllAllocate
  <2> QED BY <1>5, <2>1, <2>2, CreateKeeps DEF DeployManual
<1> QED BY <1>3, <1>4, <1>5 DEF Deploy

\* A call begins: it carries what fits its kind.
LEMMA BeginKeeps ==
    ASSUME ScInv, NEW c \in Calls, NEW op \in {"scale", "range", "tick", "remove"},
           NEW arg \in Nat, NEW lo \in Counts, NEW hi \in Counts, NEW from \in Nat, lo <= hi,
           op = "tick" => lo = dep.min /\ hi = dep.max /\ arg - from \in {-1, 1},
           op = "remove" => arg \in Ids,
           Begin(c, op, arg, lo, hi, from)
    PROVE  ScInv'
<1> DEFINE new == [op |-> op, min |-> dep.min, max |-> dep.max, arg |-> arg, lo |-> lo, hi |-> hi,
                   from |-> from]
<1>1. ScalingTypeOK /\ RowsInOrder(inst) /\ CallsFit /\ LockHeld
  BY DEF ScInv
<1>2. DepTyped /\ inst \in RowsType /\ CallTyped /\ TxnTyped /\ RestTyped
  BY <1>1, TypeParts
<1>3. /\ call' = [call EXCEPT ![c] = new] /\ call[c] = NoCall /\ made < MaxCalls /\ made' = made + 1
      /\ UNCHANGED <<dep, inst, txn, cooling>>
  BY DEF Begin
<1>4. new \in [op : {"none", "scale", "range", "tick", "remove"}, min : Counts, max : Counts,
               arg : Nat, lo : Counts, hi : Counts, from : Nat]
  BY <1>2 DEF DepTyped
<1>5. /\ new.op = op /\ new.lo = lo /\ new.hi = hi /\ new.min = dep.min /\ new.max = dep.max
      /\ new.arg = arg /\ new.from = from
  OBVIOUS
<1> HIDE DEF new
<1>6. CallTyped'
  BY <1>2, <1>3, <1>4 DEF CallTyped
<1>7. call'[c] = new /\ \A d \in Calls : d # c => call'[d] = call[d]
  BY <1>2, <1>3 DEF CallTyped
<1>8. CallsFit'
  BY <1>1, <1>5, <1>7 DEF CallsFit
<1>9. LockHeld'
  <2>1. \A d \in Calls : txn.by = {d} => call'[d] = call[d]
    <3>1. ASSUME txn.by = {c} PROVE FALSE
      <4>1. txn # NoTxn
        BY <3>1 DEF NoTxn
      <4>2. PICK d \in Calls : txn.by = {d} /\ call[d].op \in {"scale", "range", "tick"}
        BY <1>1, <4>1 DEF LockHeld
      <4>3. d = c
        BY <3>1, <4>2
      <4> QED BY <1>3, <4>2, <4>3 DEF NoCall
    <3> QED BY <1>7, <3>1
  <2> QED BY <1>1, <1>3, <2>1, LockKept
<1>10. (DepTyped /\ TxnTyped)'
  BY <1>2, <1>3 DEF DepTyped, TxnTyped
<1>11. RestTyped'
  <2>1. made' \in 0 .. MaxCalls
    BY <1>2, <1>3, ScalingAssumption DEF RestTyped
  <2> QED BY <1>2, <1>3, <2>1 DEF RestTyped
<1>12. ScalingTypeOK'
  BY <1>2, <1>3, <1>6, <1>10, <1>11
  DEF ScalingTypeOK, DepTyped, RowsType, CallTyped, TxnTyped, RestTyped
<1>13. RowsInOrder(inst')
  BY <1>1, <1>3
<1> QED BY <1>8, <1>9, <1>12, <1>13 DEF ScInv

\* The policy moves one replica up or down, or none.
LEMMA OneStep ==
    ASSUME NEW current \in Nat, NEW lo \in Nat, NEW hi \in Nat, NEW sig
    PROVE  LET d == desired_replicas(current, lo, hi, sig)
           IN  d \in Nat /\ (d # current => d - current \in {-1, 1})
<1>1. Busy(sig) => ~Slack(sig, lo)
  BY DEF Busy, Slack
<1>2. CASE Busy(sig) /\ current < hi
  <2>1. desired_replicas(current, lo, hi, sig) = current + 1
    BY <1>1, <1>2 DEF desired_replicas
  <2> QED BY <2>1
<1>3. CASE Slack(sig, lo) /\ current > lo
  <2>1. desired_replicas(current, lo, hi, sig) = current - 1
    BY <1>1, <1>3 DEF desired_replicas
  <2> QED BY <1>3, <2>1
<1>4. CASE ~(Busy(sig) /\ current < hi) /\ ~(Slack(sig, lo) /\ current > lo)
  <2>1. desired_replicas(current, lo, hi, sig) = current
    BY <1>4 DEF desired_replicas
  <2> QED BY <2>1
<1> QED BY <1>2, <1>3, <1>4

LEMMA BeginCallKeeps ==
    ASSUME ScInv, NEW c \in Calls, BeginCall(c)
    PROVE  ScInv'
<1>1. DepTyped /\ inst \in RowsType
  BY TypeParts DEF ScInv
<1>2. Cardinality(Units(inst)) \in Nat /\ Cardinality(Wanted(inst)) \in Nat
  <2>1. IsFiniteSet(Ids \cup {0})
    BY IdsFinite, FS_AddElement
  <2>2. IsFiniteSet(Units(inst)) /\ IsFiniteSet(Wanted(inst))
    BY <1>1, <2>1, UnitsSplit, FS_Subset
  <2> QED BY <2>2, FS_CardinalityType
<1>3. /\ dep.min \in Counts /\ dep.max \in Counts /\ dep.min <= dep.max
      /\ dep.min \in Nat /\ dep.max \in Nat
  BY <1>1, CountsTyped DEF DepTyped
<1>4. ASSUME NEW n \in Counts, BeginScale(c, n) PROVE ScInv'
  <2>1. n \in Nat /\ n <= n /\ 0 \in Nat
    BY CountsTyped
  <2>2. Begin(c, "scale", n, n, n, 0)
    BY <1>4 DEF BeginScale
  <2> QED BY <2>1, <2>2, BeginKeeps
<1>5. ASSUME NEW lo \in Counts, NEW hi \in Counts, lo <= hi, BeginRange(c, lo, hi) PROVE ScInv'
  <2> DEFINE arg == Clamp(lo, hi, Cardinality(Units(inst)))
  <2>1. arg \in Nat /\ 0 \in Nat
    BY <1>2, CountsTyped DEF Clamp
  <2>2. Begin(c, "range", arg, lo, hi, 0)
    BY <1>5 DEF BeginRange
  <2> HIDE DEF arg
  <2> QED BY <1>5, <2>1, <2>2, BeginKeeps
<1>6. ASSUME NEW obs \in Histograms, NEW q \in Levels, BeginTick(c, obs, q) PROVE ScInv'
  <2> DEFINE units == Cardinality(Wanted(inst))
             serving == Cardinality({i \in Rows(inst) : inst[i].state = "running"})
             sig == read_signal(obs, q, serving)
             target == desired_replicas(units, dep.min, dep.max, sig)
  <2>1. target # units /\ Begin(c, "tick", target, dep.min, dep.max, units)
    BY <1>6 DEF BeginTick
  <2> HIDE DEF sig, units
  <2>2. target \in Nat /\ units \in Nat /\ target - units \in {-1, 1}
    <3>1. units \in Nat
      BY <1>2 DEF units
    <3> QED BY <1>3, <2>1, <3>1, OneStep
  <2> HIDE DEF target
  <2> QED BY <1>3, <2>1, <2>2, BeginKeeps
<1>7. ASSUME NEW i \in Ids, BeginRemove(c, i) PROVE ScInv'
  <2> DEFINE from == IF Cardinality(Rows(inst)) <= 1 THEN 1 ELSE 2
  <2>1. Begin(c, "remove", i, 1, 1, from)
    BY <1>7 DEF BeginRemove
  <2>2. from \in Nat /\ i \in Nat /\ 1 \in Counts /\ 1 <= 1
    BY CountsTyped, IdsFinite
  <2> HIDE DEF from
  <2> QED BY <2>1, <2>2, BeginKeeps
<1> QED BY <1>4, <1>5, <1>6, <1>7 DEF BeginCall

\* The lock is taken and the decision made.
LEMMA LockKeeps ==
    ASSUME ScInv, NEW c \in Calls, Lock(c)
    PROVE  ScInv'
<1>1. ScalingTypeOK /\ RowsInOrder(inst) /\ CallsFit /\ LockHeld
  BY DEF ScInv
<1>2. DepTyped /\ inst \in RowsType /\ CallTyped /\ TxnTyped /\ RestTyped
  BY <1>1, TypeParts
<1>3. PICK up \in UpSets : LockAndDecide(c, up)
  BY DEF Lock
<1>4. up \in SUBSET Hosts /\ dep.nodes \in Nat \ {0}
  BY <1>2, ScalingAssumption DEF DepTyped
<1> DEFINE n == TargetOf(call[c])
           plan == Decide(inst, up, n, dep.nodes)
<1>5. n \in Nat
  BY <1>1, TargetTyped
<1>6. plan \in PlanType
  <2>1. Decided(inst, up, n, dep.nodes, plan)
    BY <1>2, <1>4, <1>5, DecideSound
  <2> QED BY <2>1 DEF Decided
<1>7. /\ txn' = [by |-> {c}, seen |-> inst, up |-> up, plan |-> plan] /\ Room(inst, txn'.plan.placed)
      /\ call[c].op \in {"scale", "range", "tick"} /\ dep.there
      /\ UNCHANGED <<dep, inst, call, cooling, made>>
  BY <1>3 DEF LockAndDecide
<1> HIDE DEF plan
<1>8. txn'.by = {c} /\ txn'.seen = inst /\ txn'.up = up /\ txn'.plan = plan
  BY <1>7
<1>9. TxnTyped'
  BY <1>2, <1>4, <1>6, <1>7 DEF TxnTyped, RowsType
<1>10. (DepTyped /\ CallTyped /\ RestTyped)' /\ inst' \in RowsType
  BY <1>2, <1>7 DEF DepTyped, CallTyped, RestTyped
<1>11. ScalingTypeOK'
  BY <1>9, <1>10 DEF ScalingTypeOK, DepTyped, RowsType, CallTyped, TxnTyped, RestTyped
<1>12. LockHeld'
  <2>1. txn'.plan = Decide(txn'.seen, txn'.up, TargetOf(call'[c]), dep'.nodes)
    BY <1>7, <1>8 DEF plan
  <2>2. /\ call'[c].op \in {"scale", "range", "tick"} /\ dep'.there /\ Room(txn'.seen, txn'.plan.placed)
        /\ Unborn(inst') = Unborn(txn'.seen)
    BY <1>7, <1>8
  <2> QED BY <1>8, <2>1, <2>2 DEF LockHeld
<1>13. CallsFit' /\ RowsInOrder(inst')
  BY <1>1, <1>7 DEF CallsFit
<1> QED BY <1>11, <1>12, <1>13 DEF ScInv

\* A call that ends leaves the others as they are.
LEMMA CallEnds ==
    ASSUME CallTyped, CallsFit, NEW c \in Calls, call' = [call EXCEPT ![c] = NoCall]
    PROVE  CallTyped' /\ CallsFit' /\ \A d \in Calls : d # c => call'[d] = call[d]
<1>1. CallTyped'
  BY IdleTyped DEF CallTyped
<1>2. call'[c] = NoCall /\ \A d \in Calls : d # c => call'[d] = call[d]
  BY DEF CallTyped
<1>3. NoCall.lo <= NoCall.hi /\ NoCall.op = "none"
  BY DEF NoCall
<1>4. CallsFit'
  BY <1>2, <1>3 DEF CallsFit
<1> QED BY <1>1, <1>2, <1>4

\* The rows that the commit writes.
LEMMA RowsAfterTyped ==
    ASSUME ScInv, txn # NoTxn
    PROVE  LET n == RowsAfter(inst, txn.seen, txn.plan) IN n \in RowsType /\ RowsInOrder(n)
<1> DEFINE m == Stopped(inst, txn.seen, txn.plan.stops)
           q == txn.plan.placed
<1>1. ScalingTypeOK /\ RowsInOrder(inst) /\ LockHeld
  BY DEF ScInv
<1>2. inst \in RowsType
  BY <1>1, TypeParts
<1>3. PICK n \in Nat : txn.plan = Decide(txn.seen, txn.up, n, dep.nodes)
  BY UnderLock
<1>4. txn.seen \in RowsType /\ txn.up \in SUBSET Hosts /\ dep.nodes \in Nat \ {0}
  BY UnderLock
<1>5. q \in Seq(PlacementType) /\ \A k \in DOMAIN q : q[k].rank <= k - 1
  <2>1. Decided(txn.seen, txn.up, n, dep.nodes, txn.plan)
    BY <1>3, <1>4, DecideSound
  <2>2. txn.plan \in PlanType /\ Blocks(dep.nodes, q)
    BY <2>1 DEF Decided
  <2> QED BY <2>2, BlocksRank DEF PlanType
<1>6. Room(txn.seen, q) /\ Unborn(inst) = Unborn(txn.seen)
  BY <1>1 DEF LockHeld
<1>7. Len(q) <= Cardinality(Unborn(inst))
  BY <1>4, <1>5, <1>6, RoomFits
<1> HIDE DEF q
<1>8. \A i \in Ids : m[i] \in InstType /\ m[i].life = inst[i].life /\ m[i].unit = inst[i].unit
  <2>1. \A i \in Ids : inst[i] \in InstType
    BY <1>2 DEF RowsType
  <2>2. \A i \in Ids : m[i] = inst[i] \/ m[i] = [inst[i] EXCEPT !.desired = "stopped"]
    BY DEF Stopped
  <2> HIDE DEF m
  <2>3. ASSUME NEW i \in Ids
        PROVE  m[i] \in InstType /\ m[i].life = inst[i].life /\ m[i].unit = inst[i].unit
    <3>1. CASE m[i] = inst[i]
      BY <2>1, <3>1
    <3>2. CASE m[i] = [inst[i] EXCEPT !.desired = "stopped"]
      <4> DEFINE r == inst[i]
      <4>1. r \in InstType /\ "stopped" \in {"running", "stopped"}
        BY <2>1
      <4> HIDE DEF r
      <4>2. /\ [r EXCEPT !.desired = "stopped"] \in InstType
            /\ [r EXCEPT !.desired = "stopped"].life = r.life
            /\ [r EXCEPT !.desired = "stopped"].unit = r.unit
        BY <4>1, RowFields
      <4> QED BY <3>2, <4>2 DEF r
    <3> QED BY <2>2, <3>1, <3>2
  <2> QED BY <2>3
<1>9. m \in RowsType
  <2>1. m = [i \in Ids |-> m[i]]
    BY DEF Stopped
  <2> HIDE DEF m
  <2> QED BY <1>8, <2>1 DEF RowsType
<1> HIDE DEF m
<1>10. Unborn(m) = Unborn(inst) /\ RowsInOrder(m)
  BY <1>1, <1>2, <1>8, <1>9, OrderKept DEF Alike
<1>11. WithRows(m, q) \in RowsType /\ RowsInOrder(WithRows(m, q))
  BY <1>5, <1>7, <1>9, <1>10, InsertedReads
<1> QED BY <1>11 DEF RowsAfter, m, q

\* The calls that end.
LEMMA EndCallKeeps ==
    ASSUME ScInv, NEW c \in Calls, EndCall(c)
    PROVE  ScInv'
<1>1. ScalingTypeOK /\ RowsInOrder(inst) /\ CallsFit /\ LockHeld
  BY DEF ScInv
<1>2. DepTyped /\ inst \in RowsType /\ CallTyped /\ TxnTyped /\ RestTyped
  BY <1>1, TypeParts
<1>3. call' = [call EXCEPT ![c] = NoCall]
  BY DEF EndCall, CommitScale, FailScale, LeakTick, LostDeployment, CommitRemove
<1>4. CallTyped' /\ CallsFit' /\ \A d \in Calls : d # c => call'[d] = call[d]
  BY <1>1, <1>2, <1>3, CallEnds
<1>5. ASSUME inst' \in RowsType, RowsInOrder(inst'), DepTyped', txn' = NoTxn, RestTyped'
      PROVE  ScInv'
  <2>1. TxnTyped' /\ LockHeld'
    BY <1>5, IdleTyped DEF TxnTyped, LockHeld
  <2>2. ScalingTypeOK'
    BY <1>4, <1>5, <2>1 DEF ScalingTypeOK, DepTyped, RowsType, CallTyped, TxnTyped, RestTyped
  <2> QED BY <1>4, <1>5, <2>1, <2>2 DEF ScInv
<1>6. ASSUME txn.by = {c} PROVE txn # NoTxn
  BY <1>6 DEF NoTxn
<1>7. CASE CommitScale(c)
  <2> USE <1>7 DEF CommitScale
  <2>1. inst' \in RowsType /\ RowsInOrder(inst')
    BY <1>6, RowsAfterTyped
  <2>2. DepTyped'
    <3> DEFINE q == call[c]
    <3>1. q.lo \in Counts /\ q.hi \in Counts
      BY <1>2 DEF CallTyped
    <3>2. dep' = WindowAfter(q) /\ dep'.min <= dep'.max
      BY DEF Storable
    <3> HIDE DEF q
    <3>3. CASE q.op = "tick"
      BY <1>2, <3>2, <3>3 DEF WindowAfter, DepTyped
    <3>4. CASE q.op # "tick"
      <4>1. dep' = [dep EXCEPT !.min = Sent(dep.min, q.min, q.lo), !.max = Sent(dep.max, q.max, q.hi)]
        BY <3>2, <3>4 DEF WindowAfter
      <4>2. Sent(dep.min, q.min, q.lo) \in Counts /\ Sent(dep.max, q.max, q.hi) \in Counts
        BY <1>2, <3>1 DEF Sent, DepTyped
      <4> QED BY <1>2, <3>2, <4>1, <4>2 DEF DepTyped
    <3> QED BY <3>3, <3>4
  <2>3. RestTyped'
    BY <1>2, Zenon DEF RestTyped
  <2> QED BY <1>5, <2>1, <2>2, <2>3
<1>8. CASE FailScale(c)
  <2> USE <1>8 DEF FailScale
  <2>1. inst' \in RowsType /\ RowsInOrder(inst') /\ txn' = NoTxn
    BY <1>1, <1>2
  <2>2. (DepTyped /\ RestTyped)'
    BY <1>2 DEF DepTyped, RestTyped
  <2> QED BY <1>5, <2>1, <2>2
<1>9. CASE LeakTick(c)
  <2> USE <1>9 DEF LeakTick
  <2>1. inst' \in RowsType /\ RowsInOrder(inst') /\ txn' = NoTxn
    BY <1>6, RowsAfterTyped
  <2>2. (DepTyped /\ RestTyped)'
    BY <1>2 DEF DepTyped, RestTyped
  <2> QED BY <1>5, <2>1, <2>2
<1>10. CASE LostDeployment(c)
  <2> USE <1>10 DEF LostDeployment
  <2>1. inst' \in RowsType /\ RowsInOrder(inst') /\ txn' = NoTxn
    BY <1>1, <1>2
  <2>2. (DepTyped /\ RestTyped)'
    BY <1>2 DEF DepTyped, RestTyped
  <2> QED BY <1>5, <2>1, <2>2
<1>11. CASE CommitRemove(c)
  <2>1. call[c].op = "remove" /\ UNCHANGED <<txn, cooling, made>>
    BY <1>11 DEF CommitRemove
  <2>2. call[c].arg \in Ids
    BY <1>1, <2>1 DEF CallsFit
  <2>3. RestTyped' /\ TxnTyped'
    BY <1>2, <2>1 DEF RestTyped, TxnTyped
  <2>4. \A i \in Ids : inst[i] \in InstType
    BY <1>2 DEF RowsType
  <2>5. CASE call[c].from = 1 /\ txn = NoTxn /\ dep' = NoDep /\ inst' = AllGone
    <3>1. inst' \in RowsType /\ Alike(inst, inst')
      BY <2>4, <2>5, RowFields DEF AllGone, RowsType, Alike
    <3>2. RowsInOrder(inst')
      BY <1>1, <1>2, <3>1, OrderKept
    <3>3. DepTyped' /\ txn' = NoTxn
      BY <2>1, <2>5, IdleTyped DEF DepTyped
    <3> QED BY <1>5, <2>3, <3>1, <3>2, <3>3
  <2>6. CASE /\ call[c].from > 1 /\ dep' = dep
             /\ inst' = IF inst[call[c].arg].life = "live" THEN Gone(call[c].arg) ELSE inst
    <3>1. inst' \in RowsType /\ Alike(inst, inst')
      <4>1. CASE inst[call[c].arg].life = "live"
        BY <1>2, <2>2, <2>4, <2>6, <4>1, RowFields DEF Gone, RowsType, Alike
      <4>2. CASE inst[call[c].arg].life # "live"
        BY <1>2, <2>6, <4>2 DEF Alike
      <4> QED BY <4>1, <4>2
    <3>2. RowsInOrder(inst') /\ Unborn(inst') = Unborn(inst)
      BY <1>1, <1>2, <3>1, OrderKept
    <3>3. DepTyped'
      BY <1>2, <2>6 DEF DepTyped
    <3>4. LockHeld'
      <4>1. \A d \in Calls : txn.by = {d} => call'[d] = call[d]
        <5>1. ASSUME txn.by = {c} PROVE FALSE
          <6>1. PICK d \in Calls : txn.by = {d} /\ call[d].op \in {"scale", "range", "tick"}
            BY <1>1, <1>6, <5>1 DEF LockHeld
          <6>2. d = c
            BY <5>1, <6>1
          <6> QED BY <2>1, <6>1, <6>2
        <5> QED BY <1>4, <5>1
      <4> QED BY <1>1, <2>1, <2>6, <3>2, <4>1, LockKept
    <3>5. ScalingTypeOK'
      BY <1>4, <2>3, <3>1, <3>3 DEF ScalingTypeOK, DepTyped, RowsType, CallTyped, TxnTyped, RestTyped
    <3> QED BY <1>4, <3>2, <3>4, <3>5 DEF ScInv
  <2> QED BY <1>11, <2>5, <2>6 DEF CommitRemove
<1> QED BY <1>7, <1>8, <1>9, <1>10, <1>11 DEF EndCall

\* What else changes the rows.
LEMMA OthersKeep ==
    ASSUME ScInv,
           DeleteDeployment \/ CooldownEnds \/ \E i \in Ids : StopInstance(i) \/ RestartInstance(i) \/ Report(i)
    PROVE  ScInv'
<1>1. ScalingTypeOK /\ RowsInOrder(inst) /\ CallsFit /\ LockHeld
  BY DEF ScInv
<1>2. DepTyped /\ inst \in RowsType /\ CallTyped /\ TxnTyped /\ RestTyped
  BY <1>1, TypeParts
<1>3. \A i \in Ids : inst[i] \in InstType
  BY <1>2 DEF RowsType
<1>4. ASSUME made < MaxCalls, made' = made + 1, UNCHANGED cooling PROVE RestTyped'
  <2>1. made' \in 0 .. MaxCalls
    BY <1>2, <1>4, ScalingAssumption DEF RestTyped
  <2> QED BY <1>2, <1>4, <2>1 DEF RestTyped
<1>5. CASE DeleteDeployment
  <2> USE <1>5 DEF DeleteDeployment
  <2>1. inst' \in RowsType /\ Alike(inst, inst')
    BY <1>3, RowFields DEF AllGone, RowsType, Alike
  <2>2. RowsInOrder(inst')
    BY <1>1, <1>2, <2>1, OrderKept
  <2>3. DepTyped'
    BY IdleTyped DEF DepTyped
  <2>4. (CallTyped /\ TxnTyped)' /\ CallsFit' /\ LockHeld'
    BY <1>1, <1>2 DEF CallTyped, TxnTyped, CallsFit, LockHeld
  <2>5. RestTyped'
    BY <1>4
  <2>6. ScalingTypeOK'
    BY <2>1, <2>3, <2>4, <2>5 DEF ScalingTypeOK, DepTyped, RowsType, CallTyped, TxnTyped, RestTyped
  <2> QED BY <2>2, <2>4, <2>6 DEF ScInv
<1>6. CASE CooldownEnds
  <2> USE <1>6 DEF CooldownEnds
  <2>1. inst' \in RowsType /\ Alike(inst, inst')
    BY <1>2 DEF Alike
  <2>2. RestTyped'
    BY <1>2, Zenon DEF RestTyped
  <2> QED BY <2>1, <2>2, RowsChange
<1>7. ASSUME NEW i \in Ids, NEW d \in {"running", "stopped"}, inst' = [inst EXCEPT ![i].desired = d]
      PROVE  inst' \in RowsType /\ Alike(inst, inst')
  <2> DEFINE r == [inst[i] EXCEPT !.desired = d]
  <2>1. inst' = [inst EXCEPT ![i] = r]
    BY <1>7
  <2>2. r \in InstType /\ r.life = inst[i].life /\ r.unit = inst[i].unit
    BY <1>3, RowFields
  <2> HIDE DEF r
  <2> QED BY <1>2, <2>1, <2>2 DEF RowsType, Alike
<1>8. ASSUME NEW i \in Ids, StopInstance(i) PROVE ScInv'
  <2>1. inst' \in RowsType /\ Alike(inst, inst')
    BY <1>7, <1>8 DEF StopInstance
  <2>2. RestTyped'
    BY <1>4, <1>8 DEF StopInstance
  <2> QED BY <1>8, <2>1, <2>2, RowsChange DEF StopInstance
<1>9. ASSUME NEW i \in Ids, RestartInstance(i) PROVE ScInv'
  <2>1. inst' \in RowsType /\ Alike(inst, inst')
    BY <1>7, <1>9 DEF RestartInstance
  <2>2. RestTyped'
    BY <1>4, <1>9 DEF RestartInstance
  <2> QED BY <1>9, <2>1, <2>2, RowsChange DEF RestartInstance
<1>10. ASSUME NEW i \in Ids, Report(i) PROVE ScInv'
  <2>1. PICK s \in NextStates(inst[i]) : inst' = [inst EXCEPT ![i].state = s]
    BY <1>10 DEF Report
  <2>2. s \in LIVE \cup {"stopped", "error"}
    BY <1>3 DEF NextStates, LIVE, InstType
  <2>3. inst' = [inst EXCEPT ![i] = [inst[i] EXCEPT !.state = s]]
    BY <2>1
  <2>4. inst' \in RowsType /\ Alike(inst, inst')
    BY <1>2, <1>3, <2>2, <2>3, RowFields DEF RowsType, Alike
  <2>5. RestTyped'
    BY <1>2, <1>10 DEF Report, RestTyped
  <2> QED BY <1>10, <2>4, <2>5, RowsChange DEF Report
<1> QED BY <1>5, <1>6, <1>8, <1>9, <1>10

\* The invariant of scaling: rows come in order, calls carry what fits their kind, and
\* the decision of the call that holds the row lock is the one its reading calls for.
THEOREM ScalingInvariant == ScalingSpec => []ScInv
<1>1. ScInv /\ [ScalingNext]_scVars => ScInv'
  <2> SUFFICES ASSUME ScInv, [ScalingNext]_scVars PROVE ScInv'
    OBVIOUS
  <2>1. ASSUME NEW up \in UpSets, Deploy(up) PROVE ScInv'
    BY <2>1, DeployKeeps
  <2>2. ASSUME NEW c \in Calls, BeginCall(c) PROVE ScInv'
    BY <2>2, BeginCallKeeps
  <2>3. ASSUME NEW c \in Calls, Lock(c) PROVE ScInv'
    BY <2>3, LockKeeps
  <2>4. ASSUME NEW c \in Calls, EndCall(c) PROVE ScInv'
    BY <2>4, EndCallKeeps
  <2>5. CASE DeleteDeployment \/ CooldownEnds
    BY <2>5, OthersKeep
  <2>6. ASSUME NEW i \in Ids, StopInstance(i) \/ RestartInstance(i) \/ Report(i) PROVE ScInv'
    BY <2>6, OthersKeep
  <2>7. CASE UNCHANGED scVars
    BY <2>7 DEF scVars, ScInv, ScalingTypeOK, CallsFit, LockHeld
  <2> QED BY <2>1, <2>2, <2>3, <2>4, <2>5, <2>6, <2>7 DEF ScalingNext
<1> QED BY <1>1, ScalingInitInv, PTL DEF ScalingSpec

\* Types: the deployment row, the instance rows, the calls and the plan under the lock.
THEOREM ScalingTyping == ScalingSpec => []ScalingTypeOK
<1>1. ScInv => ScalingTypeOK
  BY DEF ScInv
<1> QED BY <1>1, ScalingInvariant, PTL

\* For every cluster, every count and every model: what apply_scale places while it holds
\* the lock fits the free memory and the free ports, replicas spread over hosts and GPUs as
\* far as possible, ranks of a group never share a host, and a refusal has a reason.
THEOREM PlacementAlwaysSound == ScalingSpec => []PlacementSound
<1>1. ScInv => PlacementSound
  BY PlanSound
<1> QED BY <1>1, ScalingInvariant, PTL

(***************************************************************************)
(* What a commit leaves.                                                   *)
(***************************************************************************)

\* In blocks every placement belongs to one head, at a distance of its rank.
LEMMA BlockOf ==
    ASSUME NEW nodes \in Nat \ {0}, NEW q \in Seq(PlacementType), Blocks(nodes, q)
    PROVE  /\ \A k \in DOMAIN q : /\ q[k].rank \in 0 .. nodes - 1 /\ k \in Nat
                                  /\ k - q[k].rank \in Heads(q)
           /\ \A h \in Heads(q), r \in 0 .. nodes - 1 : h + r \in DOMAIN q /\ q[h + r].rank = r
           /\ \A h \in Heads(q) : h \in DOMAIN q /\ h \in Nat /\ h >= 1
<1>1. DOMAIN q = 1 .. Len(q) /\ Len(q) \in Nat
  OBVIOUS
<1>2. ASSUME NEW k \in DOMAIN q
      PROVE  q[k].rank \in 0 .. nodes - 1 /\ k \in Nat /\ k - q[k].rank \in Heads(q)
  <2>1. k \in Nat /\ q[k].rank \in 0 .. nodes - 1
    BY <1>1 DEF Blocks
  <2>2. 0 \in 0 .. nodes - 1
    OBVIOUS
  <2>3. k - q[k].rank + 0 \in DOMAIN q /\ q[k - q[k].rank + 0].rank = 0
    BY <2>2 DEF Blocks
  <2>4. k - q[k].rank + 0 = k - q[k].rank
    BY <2>1
  <2> QED BY <2>1, <2>3, <2>4 DEF Heads
<1>3. ASSUME NEW h \in Heads(q), NEW r \in 0 .. nodes - 1
      PROVE  h + r \in DOMAIN q /\ q[h + r].rank = r
  <2>1. h \in DOMAIN q /\ q[h].rank = 0 /\ h \in Nat
    BY <1>1 DEF Heads
  <2>2. h - q[h].rank + r \in DOMAIN q /\ q[h - q[h].rank + r].rank = r
    BY <2>1 DEF Blocks
  <2>3. h - q[h].rank + r = h + r
    BY <2>1
  <2> QED BY <2>2, <2>3
<1>4. \A h \in Heads(q) : h \in DOMAIN q /\ h \in Nat /\ h >= 1
  BY <1>1 DEF Heads
<1> QED BY <1>2, <1>3, <1>4

\* The units named by new rows.
NewUnits(m, q) == {First(m) + k - 1 : k \in Heads(q)}

\* Rows with placements q added: the old rows and units are what they were, the new units
\* are the heads', each with all its ranks.
LEMMA AddedReads ==
    ASSUME NEW m \in RowsType, RowsInOrder(m), NEW nodes \in Nat \ {0}, NEW q \in Seq(PlacementType),
           Blocks(nodes, q), Len(q) <= Cardinality(Unborn(m)), NEW n, n = WithRows(m, q)
    PROVE  /\ First(m) \in Nat \ {0}
           /\ \A i \in Rows(m) : n[i] = m[i] /\ i < First(m)
           /\ \A u \in Units(m) : u < First(m) /\ Members(n, u) = Members(m, u)
           /\ Units(n) = Units(m) \cup NewUnits(m, q)
           /\ \A u \in NewUnits(m, q) :
                /\ u \in Nat /\ u >= First(m)
                /\ Members(n, u) = {u + r : r \in 0 .. nodes - 1}
                /\ \A i \in Members(n, u) : n[i].desired = "running" /\ n[i].state = "pending"
<1> DEFINE a == First(m)
<1>1. \A k \in DOMAIN q : q[k].rank <= k - 1
  BY BlocksRank
<1>2. /\ a \in Nat \ {0}
      /\ \A i \in Ids : m[i].life # "unborn" <=> i < a
      /\ \A i \in Ids : i \notin a .. a + Len(q) - 1 => n[i] = m[i]
      /\ \A k \in DOMAIN q : a + k - 1 \in Ids /\ n[a + k - 1] = NewRow(a + k - 1, q[k])
  BY <1>1, InsertedReads
<1>3. DOMAIN q = 1 .. Len(q) /\ Len(q) \in Nat
  OBVIOUS
<1>4. Ids \subseteq Nat
  BY IdsFinite
<1> HIDE DEF a
<1>5. \A i \in Ids : (i < a \/ \E k \in DOMAIN q : i = a + k - 1) \/ (n[i] = m[i] /\ m[i].life = "unborn")
  <2>1. SUFFICES ASSUME NEW i \in Ids, ~(i < a)
                 PROVE  (\E k \in DOMAIN q : i = a + k - 1) \/ (n[i] = m[i] /\ m[i].life = "unborn")
    OBVIOUS
  <2>2. m[i].life = "unborn"
    BY <1>2, <2>1
  <2>3. CASE i \in a .. a + Len(q) - 1
    <3>1. PICK k \in 1 .. Len(q) : i = a + k - 1
      BY <1>2, <1>3, <2>3, ShiftedBack
    <3> QED BY <1>3, <3>1
  <2>4. CASE i \notin a .. a + Len(q) - 1
    BY <1>2, <2>2, <2>4
  <2> QED BY <2>3, <2>4
<1>6. \A i \in Ids : i < a => n[i] = m[i]
  <2>1. \A i \in Ids : i < a => i \notin a .. a + Len(q) - 1
    BY <1>2, <1>3, <1>4
  <2> QED BY <1>2, <2>1
<1>7. \A i \in Rows(m) : n[i] = m[i] /\ i < a /\ i \in Ids
  BY <1>2, <1>6 DEF Rows
<1>8. \A u \in Units(m) : u \in Nat /\ u < a
  <2>1. \A i \in Rows(m) : m[i].unit \in 1 .. i
    BY DEF RowsInOrder
  <2>2. ASSUME NEW i \in Rows(m) PROVE m[i].unit \in Nat /\ m[i].unit < a
    <3>1. i \in Nat /\ i < a /\ a \in Nat
      BY <1>2, <1>4, <1>7
    <3>2. m[i].unit \in 1 .. i
      BY <2>1
    <3> QED BY <3>1, <3>2
  <2> QED BY <2>2 DEF Units
<1>9. ASSUME NEW k \in DOMAIN q
      PROVE  /\ a + k - 1 \in Ids /\ a + k - 1 >= a
             /\ n[a + k - 1].life = "live" /\ n[a + k - 1].desired = "running" /\ n[a + k - 1].state = "pending"
             /\ n[a + k - 1].unit = a + (k - q[k].rank) - 1 /\ a + (k - q[k].rank) - 1 >= a
  <2>1. k \in Nat /\ k >= 1 /\ q[k].rank \in Nat /\ k - q[k].rank \in Heads(q)
    BY <1>3, BlockOf
  <2>2. k - q[k].rank >= 1
    BY <2>1, BlockOf
  <2>3. PICK i \in Ids : i = a + k - 1 /\ n[i] = NewRow(i, q[k])
    BY <1>2
  <2>4. n[i].life = "live" /\ n[i].desired = "running" /\ n[i].state = "pending" /\ n[i].unit = i - q[k].rank
    BY <2>3 DEF NewRow
  <2>5. i - q[k].rank = a + (k - q[k].rank) - 1 /\ a + (k - q[k].rank) - 1 >= a /\ i >= a
    BY <1>2, <2>1, <2>2, <2>3
  <2>6. n[i].unit = a + (k - q[k].rank) - 1
    BY <2>4, <2>5
  <2> QED BY <2>3, <2>4, <2>5, <2>6
<1>10. \A i : i \in Rows(n) <=> i \in Rows(m) \/ \E k \in DOMAIN q : i = a + k - 1
  <2>1. ASSUME NEW i \in Rows(n) PROVE i \in Rows(m) \/ \E k \in DOMAIN q : i = a + k - 1
    BY <1>5, <1>6 DEF Rows
  <2>2. ASSUME NEW i \in Rows(m) PROVE i \in Rows(n)
    BY <1>7 DEF Rows
  <2>3. ASSUME NEW k \in DOMAIN q PROVE a + k - 1 \in Rows(n)
    BY <1>9 DEF Rows
  <2> QED BY <2>1, <2>2, <2>3
<1>11. ASSUME NEW u \in Units(m) PROVE Members(n, u) = Members(m, u)
  <2>1. \A k \in DOMAIN q : n[a + k - 1].unit # u
    <3>1. ASSUME NEW k \in DOMAIN q PROVE n[a + k - 1].unit # u
      <4>1. k - q[k].rank \in Nat
        BY BlockOf
      <4> QED BY <1>2, <1>8, <1>9, <4>1
    <3> QED BY <3>1
  <2>2. \A i : i \in Rows(n) /\ n[i].unit = u <=> i \in Rows(m) /\ m[i].unit = u
    BY <1>7, <1>10, <2>1
  <2> QED BY <2>2 DEF Members
<1>12. NewUnits(m, q) = {a + k - 1 : k \in Heads(q)}
  BY DEF NewUnits, a
<1>13. Units(n) = Units(m) \cup NewUnits(m, q)
  <2>1. ASSUME NEW i \in Rows(n) PROVE n[i].unit \in Units(m) \cup NewUnits(m, q)
    <3>1. CASE i \in Rows(m)
      BY <1>7, <3>1 DEF Units
    <3>2. ASSUME NEW k \in DOMAIN q, i = a + k - 1 PROVE n[i].unit \in NewUnits(m, q)
      <4>1. k - q[k].rank \in Heads(q) /\ n[i].unit = a + (k - q[k].rank) - 1
        BY <1>9, <3>2, BlockOf
      <4> QED BY <1>12, <4>1
    <3> QED BY <1>10, <3>1, <3>2
  <2>2. ASSUME NEW i \in Rows(m) PROVE m[i].unit \in Units(n)
    BY <1>7, <1>10 DEF Units
  <2>3. ASSUME NEW h \in Heads(q) PROVE a + h - 1 \in Units(n)
    <3>1. h \in DOMAIN q /\ q[h].rank = 0 /\ h \in Nat
      BY BlockOf DEF Heads
    <3>2. n[a + h - 1].unit = a + (h - q[h].rank) - 1 /\ h - q[h].rank = h
      BY <1>9, <3>1
    <3>3. a + h - 1 \in Rows(n) /\ n[a + h - 1].unit = a + h - 1
      BY <1>10, <3>1, <3>2
    <3> QED BY <3>3 DEF Units
  <2>4. Units(n) \subseteq Units(m) \cup NewUnits(m, q)
    BY <2>1 DEF Units
  <2>5. Units(m) \subseteq Units(n)
    BY <2>2 DEF Units
  <2> QED BY <1>12, <2>3, <2>4, <2>5
<1>14. ASSUME NEW u \in NewUnits(m, q)
       PROVE  /\ u \in Nat /\ u >= a
              /\ Members(n, u) = {u + r : r \in 0 .. nodes - 1}
              /\ \A i \in Members(n, u) : n[i].desired = "running" /\ n[i].state = "pending"
  <2>1. PICK h \in Heads(q) : u = a + h - 1
    BY <1>12
  <2>2. h \in DOMAIN q /\ h \in Nat /\ h >= 1
    BY BlockOf
  <2>3. u \in Nat /\ u >= a
    BY <1>2, <2>1, <2>2
  <2>4. ASSUME NEW i \in Members(n, u) PROVE (\E r \in 0 .. nodes - 1 : i = u + r) /\ n[i].desired = "running" /\ n[i].state = "pending"
    <3>1. i \in Rows(n) /\ n[i].unit = u
      BY DEF Members
    <3>2. i \notin Rows(m)
      <4>1. ASSUME i \in Rows(m) PROVE u \in Units(m)
        BY <1>7, <3>1, <4>1 DEF Units
      <4> QED BY <1>2, <1>8, <2>3, <4>1
    <3>3. PICK k \in DOMAIN q : i = a + k - 1
      BY <1>10, <3>1, <3>2
    <3>4. n[i].unit = a + (k - q[k].rank) - 1 /\ n[i].desired = "running" /\ n[i].state = "pending"
      BY <1>9, <3>3
    <3>5. q[k].rank \in 0 .. nodes - 1 /\ k \in Nat
      BY BlockOf
    <3>6. k - q[k].rank = h
      <4> DEFINE t == k - q[k].rank
      <4>1. t \in Int /\ a + t - 1 = a + h - 1
        BY <2>1, <3>1, <3>4, <3>5
      <4>2. a \in Nat /\ h \in Nat
        BY <1>2, <2>2
      <4> HIDE DEF t
      <4>3. t = h
        BY <4>1, <4>2
      <4> QED BY <4>3 DEF t
    <3>7. PICK r \in 0 .. nodes - 1 : r = q[k].rank
      BY <3>5
    <3>8. k = h + r
      BY <2>2, <3>5, <3>6, <3>7
    <3>9. i = u + r
      BY <1>2, <2>1, <2>2, <3>3, <3>8
    <3> QED BY <3>4, <3>9
  <2>5. ASSUME NEW r \in 0 .. nodes - 1 PROVE u + r \in Members(n, u)
    <3>1. h + r \in DOMAIN q /\ q[h + r].rank = r
      BY BlockOf
    <3>2. n[a + (h + r) - 1].unit = a + ((h + r) - q[h + r].rank) - 1
      BY <1>9, <3>1
    <3>3. a + (h + r) - 1 = u + r /\ a + ((h + r) - r) - 1 = u
      BY <1>2, <2>1, <2>2
    <3>4. u + r \in Rows(n) /\ n[u + r].unit = u
      BY <1>10, <3>1, <3>2, <3>3
    <3> QED BY <3>4 DEF Members
  <2> QED BY <2>3, <2>4, <2>5
<1> QED BY <1>2, <1>7, <1>8, <1>11, <1>13, <1>14 DEF a

\* A decision carried out on the rows it was made for: some units are stopped, whole, and
\* new ones come, whole; every other unit is what it was.
Outcome(m, U, new, nodes, n) ==
    /\ Units(n) = Units(m) \cup new /\ Units(m) \cap new = {}
    /\ Wanted(n) = (Wanted(m) \ U) \cup new
    /\ \A u \in Units(m) :
         /\ Members(n, u) = Members(m, u)
         /\ \A i \in Members(m, u) :
              n[i].state = m[i].state /\ n[i].desired = IF u \in U THEN "stopped" ELSE m[i].desired
    /\ \A u \in new :
         /\ u \in Nat /\ Members(n, u) = {u + r : r \in 0 .. nodes - 1}
         /\ \A i \in Members(n, u) : n[i].desired = "running" /\ n[i].state = "pending"

LEMMA CarriedOut ==
    ASSUME NEW m \in RowsType, RowsInOrder(m), NEW nodes \in Nat \ {0}, NEW plan \in PlanType,
           Blocks(nodes, plan.placed), Room(m, plan.placed), NEW U, plan.stops = MembersOf(m, U)
    PROVE  Outcome(m, U, NewUnits(m, plan.placed), nodes, RowsAfter(m, m, plan))
<1> DEFINE q == plan.placed
           w == Quiet(m, U)
           n == WithRows(w, q)
           new == NewUnits(m, q)
<1>1. RowsAfter(m, m, plan) = n
  BY StopsAreQuiet DEF RowsAfter
<1>2. q \in Seq(PlacementType) /\ Blocks(nodes, q) /\ Len(q) <= Cardinality(Unborn(m))
  BY RoomFits DEF PlanType
<1>3. /\ w \in RowsType /\ Rows(w) = Rows(m) /\ Unborn(w) = Unborn(m) /\ Units(w) = Units(m)
      /\ \A u : Members(w, u) = Members(m, u)
      /\ Wanted(w) = Wanted(m) \ U
      /\ \A i \in Ids : w[i].life = m[i].life /\ w[i].unit = m[i].unit /\ w[i].state = m[i].state
      /\ \A i \in Ids : w[i].desired =
            IF m[i].life = "live" /\ m[i].unit \in U THEN "stopped" ELSE m[i].desired
  BY QuietReads
<1> HIDE DEF w, q
<1>4. RowsInOrder(w)
  BY <1>3, OrderKept DEF Alike
<1>5. First(w) = First(m) /\ NewUnits(w, q) = new
  BY <1>3 DEF First, NewUnits
<1>6. /\ First(m) \in Nat \ {0}
      /\ \A i \in Rows(m) : n[i] = w[i]
      /\ \A u \in Units(m) : u < First(m) /\ Members(n, u) = Members(m, u)
      /\ Units(n) = Units(m) \cup new
      /\ \A u \in new :
           /\ u \in Nat /\ u >= First(m)
           /\ Members(n, u) = {u + r : r \in 0 .. nodes - 1}
           /\ \A i \in Members(n, u) : n[i].desired = "running" /\ n[i].state = "pending"
  <2>1. Len(q) <= Cardinality(Unborn(w))
    BY <1>2, <1>3
  <2> QED BY <1>2, <1>3, <1>4, <1>5, <2>1, AddedReads
<1> HIDE DEF n, new
<1>7. Units(m) \cap new = {}
  <2>1. \A u \in Units(m) : u \in Nat
    <3>1. \A i \in Rows(m) : i \in Nat /\ m[i].unit \in 1 .. i
      BY IdsFinite DEF RowsInOrder, Rows
    <3> QED BY <3>1 DEF Units
  <2>2. SUFFICES ASSUME NEW u \in Units(m), u \in new PROVE FALSE
    OBVIOUS
  <2>3. u \in Nat /\ u < First(m) /\ u >= First(m) /\ First(m) \in Nat
    BY <1>6, <2>1, <2>2
  <2> QED BY <2>3
<1>8. ASSUME NEW u \in Units(m), NEW i \in Members(m, u)
      PROVE  /\ n[i].desired = (IF u \in U THEN "stopped" ELSE m[i].desired)
             /\ n[i].state = m[i].state /\ n[i] = w[i]
  <2>1. i \in Ids /\ i \in Rows(m) /\ m[i].life = "live" /\ m[i].unit = u
    BY DEF Members, Rows
  <2> QED BY <1>3, <1>6, <2>1
<1>9. Wanted(n) = (Wanted(m) \ U) \cup new
  <2>1. ASSUME NEW u \in Units(m) PROVE u \in Wanted(n) <=> u \in Wanted(w)
    <3>1. Members(n, u) = Members(m, u) /\ Members(w, u) = Members(m, u)
      BY <1>3, <1>6
    <3>2. \A i \in Members(m, u) : n[i] = w[i]
      BY <1>8
    <3>3. u \in Units(n) /\ u \in Units(w)
      BY <1>3, <1>6
    <3> QED BY <3>1, <3>2, <3>3 DEF Wanted
  <2>2. ASSUME NEW u \in new PROVE u \in Wanted(n)
    <3>1. u + 0 \in Members(n, u)
      <4>1. 0 \in 0 .. nodes - 1
        OBVIOUS
      <4> QED BY <1>6, <4>1
    <3>2. u \in Units(n) /\ n[u + 0].desired = "running"
      BY <1>6, <3>1
    <3> QED BY <3>1, <3>2 DEF Wanted
  <2>3. Wanted(n) \subseteq Units(m) \cup new /\ Wanted(w) \subseteq Units(m)
    BY <1>3, <1>6 DEF Wanted
  <2> QED BY <1>3, <2>1, <2>2, <2>3
<1>10. Outcome(m, U, new, nodes, n)
  BY <1>6, <1>7, <1>8, <1>9 DEF Outcome
<1> QED BY <1>1, <1>10 DEF new, q

\* The order of a scale-in, and how many it takes.
LEMMA StopOrder ==
    ASSUME NEW m \in RowsType
    PROVE  LET S == Counting(m)
           IN  /\ IsFiniteSet(S)
               /\ Orders({uv \in S \X S : StopsFirst(m, uv[1], uv[2])}, S)
               /\ \A u \in S : Before({uv \in S \X S : StopsFirst(m, uv[1], uv[2])}, S, u)
                                 = {v \in S : StopsFirst(m, v, u)}
<1> DEFINE S == Counting(m)
           R == {uv \in S \X S : StopsFirst(m, uv[1], uv[2])}
<1>1. IsFiniteSet(S) /\ S \subseteq Units(m)
  BY UnitsSplit, FS_Subset
<1>2. S \subseteq Nat
  <2>1. Units(m) \subseteq Ids \cup {0}
    BY UnitsSplit
  <2>2. Ids \cup {0} \subseteq Nat
    BY IdsFinite
  <2> QED BY <1>1, <2>1, <2>2
<1>3. \A u, v : <<u, v>> \in R <=> u \in S /\ v \in S /\ StopsFirst(m, u, v)
  OBVIOUS
<1> HIDE DEF S, R
<1>4. Orders(R, S)
  <2>1. \A u \in S : <<u, u>> \notin R
    BY <1>2, <1>3 DEF StopsFirst
  <2>2. \A u, v \in S : u # v => <<u, v>> \in R \/ <<v, u>> \in R
    BY <1>2, <1>3 DEF StopsFirst
  <2>3. \A u, v, x \in S : <<u, v>> \in R /\ <<v, x>> \in R => <<u, x>> \in R
    BY <1>2, <1>3 DEF StopsFirst
  <2> QED BY <2>1, <2>2, <2>3 DEF Orders
<1>5. \A u \in S : Before(R, S, u) = {v \in S : StopsFirst(m, v, u)}
  BY <1>3 DEF Before
<1> QED BY <1>1, <1>4, <1>5 DEF S, R

LEMMA SurplusCount ==
    ASSUME NEW m \in RowsType, NEW n \in Nat
    PROVE  LET have == Cardinality(Counting(m))
           IN  /\ have \in Nat /\ Surplus(m, n) \subseteq Counting(m)
               /\ IF n >= have THEN Surplus(m, n) = {}
                  ELSE Cardinality(Counting(m) \ Surplus(m, n)) = n
<1> DEFINE S == Counting(m)
           R == {uv \in S \X S : StopsFirst(m, uv[1], uv[2])}
           have == Cardinality(S)
<1>1. /\ IsFiniteSet(S) /\ Orders(R, S)
      /\ \A u \in S : Before(R, S, u) = {v \in S : StopsFirst(m, v, u)}
  BY StopOrder
<1>2. have \in Nat
  BY <1>1, FS_CardinalityType
<1>3. Surplus(m, n) = {u \in S : Cardinality({v \in S : StopsFirst(m, v, u)}) < have - n}
  BY DEF Surplus, Counting
<1> HIDE DEF S, R
<1>4. Surplus(m, n) = {u \in S : Cardinality(Before(R, S, u)) < have - n}
  BY <1>1, <1>3
<1>5. CASE n >= have
  <2>1. \A u \in S : Cardinality(Before(R, S, u)) \in Nat
    BY <1>1, <1>2, Ranked
  <2> QED BY <1>2, <1>4, <1>5, <2>1 DEF S
<1>6. CASE ~(n >= have)
  <2> DEFINE k == have - n
  <2>1. k \in 0 .. have
    BY <1>2, <1>6
  <2> HIDE DEF k, have
  <2>2. Cardinality({u \in S : Cardinality(Before(R, S, u)) < k}) = k
    BY <1>1, <2>1, FirstFew DEF have
  <2>3. Cardinality(Surplus(m, n)) = k /\ Surplus(m, n) \subseteq S
    BY <1>4, <2>2 DEF k
  <2>4. Cardinality(S \ Surplus(m, n)) = Cardinality(S) - Cardinality(Surplus(m, n))
    <3>1. S \cap Surplus(m, n) = Surplus(m, n)
      BY <2>3
    <3>2. Cardinality(S \ Surplus(m, n)) = Cardinality(S) - Cardinality(S \cap Surplus(m, n))
      BY <1>1, FS_Difference
    <3> QED BY <3>1, <3>2
  <2>5. Cardinality(S \ Surplus(m, n)) = n
    BY <1>2, <2>3, <2>4 DEF k, have
  <2> QED BY <1>2, <1>6, <2>3, <2>5 DEF S, have
<1> QED BY <1>5, <1>6

\* A shifted set has as many elements.
LEMMA ShiftCounts ==
    ASSUME NEW H \in SUBSET Nat, IsFiniteSet(H), NEW a \in Nat
    PROVE  LET T == {a + k - 1 : k \in H}
           IN  IsFiniteSet(T) /\ Cardinality(T) = Cardinality(H)
<1> DEFINE T == {a + k - 1 : k \in H}
           f == [k \in H |-> a + k - 1]
<1>1. f \in [H -> T]
  OBVIOUS
<1>2. \A j, k \in H : f[j] = f[k] => j = k
  OBVIOUS
<1>3. \A t \in T : \E k \in H : f[k] = t
  OBVIOUS
<1> HIDE DEF f, T
<1>4. f \in Bijection(H, T)
  BY <1>1, <1>2, <1>3 DEF Bijection, Injection, Surjection, IsInjective
<1>5. ExistsBijection(H, T)
  BY <1>4 DEF ExistsBijection
<1> QED BY <1>5, FS_Bijection DEF T

\* How many units are new.
LEMMA NewUnitsCount ==
    ASSUME NEW m \in RowsType, NEW q \in Seq(PlacementType)
    PROVE  /\ IsFiniteSet(NewUnits(m, q)) /\ Cardinality(NewUnits(m, q)) = Cardinality(Heads(q))
           /\ q = << >> => NewUnits(m, q) = {}
<1>1. First(m) \in Nat
  BY FirstTyped
<1>2. Heads(q) \in SUBSET Nat /\ IsFiniteSet(Heads(q))
  <2>1. Len(q) \in Nat /\ Heads(q) \in SUBSET (1 .. Len(q))
    BY DEF Heads
  <2> QED BY <2>1, UpTo, FS_Subset
<1>3. q = << >> => NewUnits(m, q) = {}
  BY NothingPlaced DEF NewUnits
<1> QED BY <1>1, <1>2, <1>3, ShiftCounts DEF NewUnits

\* The wanted units after a decision is carried out: the count, and what is in limbo.
LEMMA WantedCount ==
    ASSUME NEW m \in RowsType, NEW up, NEW n \in Nat, NEW nodes, NEW plan,
           Decided(m, up, n, nodes, plan), plan.ok = TRUE,
           Units(m) \cap NewUnits(m, plan.placed) = {}
    PROVE  Cardinality((Wanted(m) \ (Broken(m) \cup Surplus(m, n))) \cup NewUnits(m, plan.placed))
             = n + Cardinality(Limbo(m))
<1> SUFFICES ASSUME NEW W,
                    W = (Wanted(m) \ (Broken(m) \cup Surplus(m, n))) \cup NewUnits(m, plan.placed)
             PROVE  Cardinality(W) = n + Cardinality(Limbo(m))
  OBVIOUS
<1> DEFINE q == plan.placed
           new == NewUnits(m, q)
           have == Cardinality(Counting(m))
           kept == Counting(m) \ Surplus(m, n)
           limbo == Limbo(m)
<1>1. /\ have \in Nat /\ Surplus(m, n) \subseteq Counting(m)
      /\ IF n >= have THEN Surplus(m, n) = {} ELSE Cardinality(kept) = n
  BY SurplusCount
<1>2. /\ plan \in PlanType /\ plan.short = n - have
      /\ IF plan.short <= 0 THEN q = << >> ELSE Cardinality(Heads(q)) = plan.short
  BY DEF Decided
<1>3. q \in Seq(PlacementType)
  BY <1>2 DEF PlanType
<1>4. IsFiniteSet(new) /\ Cardinality(new) = Cardinality(Heads(q)) /\ (q = << >> => new = {})
  BY <1>3, NewUnitsCount
<1>5. W = (kept \cup limbo) \cup new /\ kept \cap limbo = {} /\ (kept \cup limbo) \cap new = {}
  <2>1. /\ Wanted(m) = Counting(m) \cup Broken(m) \cup limbo /\ Wanted(m) \subseteq Units(m)
        /\ Counting(m) \cap Broken(m) = {} /\ Counting(m) \cap limbo = {} /\ Broken(m) \cap limbo = {}
    <3>1. Wanted(m) = Counting(m) \cup Broken(m) \cup Limbo(m) /\ Wanted(m) \subseteq Units(m)
      BY UnitsSplit
    <3>2. /\ Counting(m) \cap Broken(m) = {} /\ Counting(m) \cap Limbo(m) = {}
          /\ Broken(m) \cap Limbo(m) = {}
      BY UnitsSplit
    <3> QED BY <3>1, <3>2
  <2> HIDE DEF limbo
  <2>2. Wanted(m) \ (Broken(m) \cup Surplus(m, n)) = kept \cup limbo
    BY <1>1, <2>1
  <2> QED BY <2>1, <2>2
<1>6. IsFiniteSet(kept) /\ IsFiniteSet(limbo) /\ IsFiniteSet(Counting(m))
  BY UnitsSplit, FS_Subset
<1> HIDE DEF new, kept, limbo
<1>7. /\ IsFiniteSet(kept \cup limbo)
      /\ Cardinality(kept \cup limbo) = Cardinality(kept) + Cardinality(limbo)
  <2>1. Cardinality(kept \cap limbo) = 0
    BY <1>5, FS_EmptySet
  <2>2. /\ IsFiniteSet(kept \cup limbo)
        /\ Cardinality(kept \cup limbo) = Cardinality(kept) + Cardinality(limbo) - Cardinality(kept \cap limbo)
    BY <1>6, FS_Union
  <2>3. Cardinality(kept) \in Nat /\ Cardinality(limbo) \in Nat
    BY <1>6, FS_CardinalityType
  <2> QED BY <2>1, <2>2, <2>3
<1>8. Cardinality(W) = Cardinality(kept) + Cardinality(limbo) + Cardinality(new)
  <2> DEFINE K == kept \cup limbo
  <2>1. IsFiniteSet(K) /\ K \cap new = {} /\ W = K \cup new
    BY <1>5, <1>7
  <2> HIDE DEF K
  <2>2. Cardinality(K \cap new) = 0
    BY <2>1, FS_EmptySet
  <2>3. Cardinality(K \cup new) = Cardinality(K) + Cardinality(new) - Cardinality(K \cap new)
    BY <1>4, <2>1, FS_Union
  <2>4. Cardinality(K) \in Nat /\ Cardinality(new) \in Nat
    BY <1>4, <2>1, FS_CardinalityType
  <2>5. Cardinality(W) = Cardinality(K) + Cardinality(new)
    <3>1. Cardinality(K \cup new) = Cardinality(K) + Cardinality(new)
      BY <2>2, <2>3, <2>4
    <3>2. W = K \cup new
      BY <2>1
    <3> QED BY <3>1, <3>2, Zenon
  <2> QED BY <1>7, <2>5 DEF K
<1>9. Cardinality(limbo) \in Nat
  BY <1>6, FS_CardinalityType
<1>10. Cardinality(kept) + Cardinality(new) = n
  <2>1. CASE plan.short <= 0
    <3>1. Cardinality(new) = 0
      BY <1>2, <1>4, <2>1, FS_EmptySet
    <3>2. n <= have
      BY <1>1, <1>2, <2>1
    <3>3. Cardinality(kept) = n
      <4>1. CASE n >= have
        <5>1. kept = Counting(m)
          BY <1>1, <4>1 DEF kept
        <5> QED BY <1>1, <3>2, <4>1, <5>1
      <4>2. CASE ~(n >= have)
        BY <1>1, <4>2
      <4> QED BY <4>1, <4>2
    <3> QED BY <3>1, <3>3
  <2>2. CASE ~(plan.short <= 0)
    <3>1. n >= have /\ Cardinality(new) = n - have
      BY <1>1, <1>2, <1>4, <2>2
    <3>2. kept = Counting(m)
      BY <1>1, <3>1 DEF kept
    <3> QED BY <1>1, <3>1, <3>2
  <2> QED BY <2>1, <2>2
<1>11. Cardinality(kept) \in Nat /\ Cardinality(new) \in Nat
  BY <1>4, <1>6, FS_CardinalityType
<1>12. Cardinality(W) = n + Cardinality(limbo)
  BY <1>8, <1>9, <1>10, <1>11
<1> QED BY <1>12 DEF limbo

\* A commit, or the leak of a refused tick, on rows that nobody touched since the lock.
LEMMA Applied ==
    ASSUME ScInv, NEW c \in Calls, txn.by = {c}, inst = txn.seen
    PROVE  LET n == TargetOf(call[c])
           IN  /\ inst \in RowsType /\ dep.nodes \in Nat \ {0} /\ n \in Nat /\ txn.plan.count = n
               /\ Decided(inst, txn.up, n, dep.nodes, txn.plan)
               /\ Outcome(inst, Broken(inst) \cup Surplus(inst, n), NewUnits(inst, txn.plan.placed),
                          dep.nodes, RowsAfter(inst, txn.seen, txn.plan))
<1> DEFINE n == TargetOf(call[c])
<1>1. ScalingTypeOK /\ RowsInOrder(inst) /\ LockHeld
  BY DEF ScInv
<1>2. txn # NoTxn
  BY DEF NoTxn
<1>3. txn.up \in SUBSET Hosts /\ dep.nodes \in Nat \ {0} /\ inst \in RowsType
  BY <1>2, UnderLock
<1>4. txn.plan = Decide(inst, txn.up, n, dep.nodes) /\ Room(inst, txn.plan.placed)
  <2>1. PICK d \in Calls : /\ txn.by = {d} /\ Room(txn.seen, txn.plan.placed)
                           /\ txn.plan = Decide(txn.seen, txn.up, TargetOf(call[d]), dep.nodes)
    BY <1>1, <1>2 DEF LockHeld
  <2>2. d = c
    BY <2>1
  <2> QED BY <2>1, <2>2
<1>5. n \in Nat
  BY <1>1, TargetTyped
<1> HIDE DEF n
<1>6. Decided(inst, txn.up, n, dep.nodes, txn.plan)
  BY <1>3, <1>4, <1>5, DecideSound
<1>7. /\ txn.plan \in PlanType /\ txn.plan.count = n /\ Blocks(dep.nodes, txn.plan.placed)
      /\ txn.plan.stops = MembersOf(inst, Broken(inst) \cup Surplus(inst, n))
  BY <1>6 DEF Decided
<1>8. Outcome(inst, Broken(inst) \cup Surplus(inst, n), NewUnits(inst, txn.plan.placed),
              dep.nodes, RowsAfter(inst, inst, txn.plan))
  BY <1>1, <1>3, <1>4, <1>7, CarriedOut
<1> QED BY <1>3, <1>5, <1>6, <1>7, <1>8 DEF n

\* Units that are neither stopped nor new serve, are on their way, are broken or in limbo
\* as before; new units are on their way.
LEMMA OutcomeCounts ==
    ASSUME NEW m \in RowsType, NEW n \in RowsType, NEW U, NEW new, NEW nodes \in Nat \ {0},
           Outcome(m, U, new, nodes, n), Broken(m) \subseteq U, U \cap Limbo(m) = {}
    PROVE  Broken(n) = {} /\ Limbo(n) = Limbo(m)
<1>1. /\ Units(n) = Units(m) \cup new /\ Units(m) \cap new = {}
      /\ Wanted(n) = (Wanted(m) \ U) \cup new /\ Wanted(m) \subseteq Units(m)
  BY DEF Outcome, Wanted
<1>2. ASSUME NEW u \in Wanted(m) \ U
      PROVE  /\ u \in Wanted(n) /\ u \notin Broken(n)
             /\ u \in Serving(n) <=> u \in Serving(m)
             /\ u \in Pending(n) <=> u \in Pending(m)
  <2>1. Members(n, u) = Members(m, u) /\ \A i \in Members(m, u) : n[i].state = m[i].state
    BY <1>1 DEF Outcome
  <2>2. u \in Wanted(n)
    BY <1>1
  <2>3. u \in Serving(n) <=> u \in Serving(m)
    BY <2>1, <2>2 DEF Serving
  <2>4. u \in Pending(n) <=> u \in Pending(m)
    BY <2>1, <2>2, <2>3 DEF Pending
  <2>5. u \notin Broken(n)
    <3>1. u \notin Broken(m)
      OBVIOUS
    <3> QED BY <2>1, <3>1 DEF Broken
  <2> QED BY <2>2, <2>3, <2>4, <2>5
<1>3. ASSUME NEW u \in new PROVE u \notin Broken(n) /\ u \in Serving(n) \cup Pending(n)
  <2>1. \A i \in Members(n, u) : n[i].state = "pending"
    BY DEF Outcome
  <2>2. u \in Wanted(n)
    BY <1>1
  <2>3. u \notin Broken(n)
    BY <2>1 DEF Broken
  <2>4. u \in Serving(n) \cup Pending(n)
    BY <2>1, <2>2 DEF Pending, LIVE
  <2> QED BY <2>3, <2>4
<1>4. Broken(n) = {}
  <2>1. Broken(n) \subseteq Wanted(n)
    BY DEF Broken
  <2> QED BY <1>1, <1>2, <1>3, <2>1
<1>5. Limbo(n) = Limbo(m)
  <2>1. Limbo(n) = Wanted(n) \ (Serving(n) \cup Pending(n))
    BY <1>4 DEF Limbo
  <2>2. Limbo(m) = (Wanted(m) \ U) \ (Serving(m) \cup Pending(m))
    <3>1. Limbo(m) = Wanted(m) \ (Serving(m) \cup Pending(m) \cup Broken(m))
      BY DEF Limbo
    <3> QED BY <3>1
  <2>3. \A u : u \in Limbo(n) <=> u \in Limbo(m)
    BY <1>1, <1>2, <1>3, <2>1, <2>2
  <2> QED BY <2>3
<1> QED BY <1>4, <1>5

\* Over rows without a broken unit, in which the right number counts, nothing is decided.
LEMMA NothingToDecide ==
    ASSUME NEW m \in RowsType, NEW up, NEW n \in Nat, NEW nodes,
           Broken(m) = {}, Cardinality(Counting(m)) = n
    PROVE  Settled(m, up, n, nodes)
<1> DEFINE plan == Decide(m, up, n, nodes)
<1>1. n - Cardinality(Counting(m)) <= 0 /\ n >= Cardinality(Counting(m))
  OBVIOUS
<1>2. plan.ok = TRUE /\ plan.placed = << >>
  BY <1>1 DEF Decide, Granted
<1>3. plan.stops = {}
  <2>1. Surplus(m, n) = {}
    <3>1. IF n >= Cardinality(Counting(m)) THEN Surplus(m, n) = {}
          ELSE Cardinality(Counting(m) \ Surplus(m, n)) = n
      BY SurplusCount
    <3> QED BY <1>1, <3>1
  <2>2. plan.stops = MembersOf(m, Broken(m) \cup Surplus(m, n))
    BY DEF Decide
  <2> QED BY <2>1, <2>2 DEF MembersOf
<1> QED BY <1>2, <1>3 DEF Settled

\* The lock is held by a call that scales.
LEMMA HolderScales ==
    ASSUME ScInv, NEW c \in Calls, txn.by = {c}
    PROVE  call[c].op \in {"scale", "range", "tick"}
<1>1. txn # NoTxn
  BY DEF NoTxn
<1>2. PICK d \in Calls : txn.by = {d} /\ call[d].op \in {"scale", "range", "tick"}
  BY <1>1 DEF ScInv, LockHeld
<1>3. d = c
  BY <1>2
<1> QED BY <1>2, <1>3

\* A commit that nobody disturbed leaves exactly the wanted number of units.
LEMMA CommitReaches ==
    ASSUME ScInv, NEW c \in Calls, Undisturbed(c)
    PROVE  /\ Cardinality(Wanted(inst')) = TargetOf(call[c]) + Cardinality(Limbo(inst))
           /\ txn.plan.count = TargetOf(call[c])
<1> DEFINE n == TargetOf(call[c])
           W == Wanted(inst')
<1>1. txn.by = {c} /\ inst = txn.seen /\ CommitScale(c)
  BY DEF Undisturbed
<1>2. inst' = RowsAfter(inst, txn.seen, txn.plan) /\ txn.plan.ok
  BY <1>1 DEF CommitScale
<1>3. /\ inst \in RowsType /\ n \in Nat /\ txn.plan.count = n
      /\ Decided(inst, txn.up, n, dep.nodes, txn.plan)
      /\ Outcome(inst, Broken(inst) \cup Surplus(inst, n), NewUnits(inst, txn.plan.placed),
                 dep.nodes, RowsAfter(inst, txn.seen, txn.plan))
  BY <1>1, Applied
<1>4. txn.plan.ok = TRUE
  <2>1. txn.plan.ok \in BOOLEAN
    BY <1>3 DEF Decided, PlanType
  <2> QED BY <1>2, <2>1
<1> HIDE DEF n
<1>5. /\ W = (Wanted(inst) \ (Broken(inst) \cup Surplus(inst, n))) \cup NewUnits(inst, txn.plan.placed)
      /\ Units(inst) \cap NewUnits(inst, txn.plan.placed) = {}
  BY <1>2, <1>3 DEF Outcome
<1> HIDE DEF W
<1>6. Cardinality(W) = n + Cardinality(Limbo(inst))
  BY <1>3, <1>4, <1>5, WantedCount
<1> QED BY <1>3, <1>6 DEF n, W

\* And leaves nothing for a second request for the same count: what is wanted is what counts
\* and what is in limbo, so the right number counts.
LEMMA CommitSettles ==
    ASSUME ScInv, NEW c \in Calls, Undisturbed(c), NEW up
    PROVE  Settled(inst', up, txn.plan.count, dep.nodes)
<1> DEFINE n == TargetOf(call[c])
           U == Broken(inst) \cup Surplus(inst, n)
           new == NewUnits(inst, txn.plan.placed)
<1>1. txn.by = {c} /\ inst = txn.seen /\ inst' = RowsAfter(inst, txn.seen, txn.plan)
  BY DEF Undisturbed, CommitScale
<1>2. /\ inst \in RowsType /\ dep.nodes \in Nat \ {0} /\ n \in Nat /\ txn.plan.count = n
      /\ Outcome(inst, U, new, dep.nodes, inst')
  BY <1>1, Applied
<1>3. inst' \in RowsType
  <2>1. txn # NoTxn
    BY <1>1 DEF NoTxn
  <2> QED BY <1>1, <2>1, RowsAfterTyped
<1>4. Surplus(inst, n) \subseteq Counting(inst)
  BY <1>2, SurplusCount
<1>5. Broken(inst) \subseteq U /\ U \cap Limbo(inst) = {}
  <2>1. Counting(inst) \cap Limbo(inst) = {} /\ Broken(inst) \cap Limbo(inst) = {}
    BY <1>2, UnitsSplit
  <2> QED BY <1>4, <2>1
<1>6. Cardinality(Wanted(inst')) = n + Cardinality(Limbo(inst))
  BY CommitReaches
<1> HIDE DEF n, U, new
<1>7. Broken(inst') = {} /\ Limbo(inst') = Limbo(inst)
  BY <1>2, <1>3, <1>5, OutcomeCounts
<1> DEFINE W == Wanted(inst')
           C == Counting(inst')
           L == Limbo(inst)
<1>8. IsFiniteSet(W) /\ W = C \cup L /\ C \cap L = {}
  <2>1. /\ IsFiniteSet(Wanted(inst'))
        /\ Wanted(inst') = Counting(inst') \cup Broken(inst') \cup Limbo(inst')
        /\ Counting(inst') \cap Limbo(inst') = {}
    BY <1>3, UnitsSplit
  <2> QED BY <1>7, <2>1
<1>9. Cardinality(W) = n + Cardinality(L)
  BY <1>6
<1> HIDE DEF W, C, L
<1>10. Cardinality(C) = n
  <2>1. IsFiniteSet(C) /\ IsFiniteSet(L)
    BY <1>8, FS_Subset
  <2>2. Cardinality(C \cap L) = 0
    BY <1>8, FS_EmptySet
  <2>3. Cardinality(C \cup L) = Cardinality(C) + Cardinality(L) - Cardinality(C \cap L)
    BY <2>1, FS_Union
  <2>4. Cardinality(C) \in Nat /\ Cardinality(L) \in Nat
    BY <2>1, FS_CardinalityType
  <2>5. Cardinality(C) + Cardinality(L) = n + Cardinality(L)
    BY <1>8, <1>9, <2>2, <2>3, <2>4
  <2> QED BY <1>2, <2>4, <2>5
<1>11. Settled(inst', up, n, dep.nodes)
  BY <1>2, <1>3, <1>7, <1>10, NothingToDecide DEF C
<1> QED BY <1>2, <1>11

\* "Scale `deployment` to `replicas` live replicas": a commit on the rows as read leaves
\* exactly that many units wanted, and those in limbo; the same request again finds nothing
\* to do.
THEOREM ScaleAlwaysReaches == ScalingSpec => ScaleReaches
<1>1. ScInv => \A c \in Calls : Undisturbed(c) =>
                 /\ Cardinality(Wanted(inst')) = txn.plan.count + Cardinality(Limbo(inst))
                 /\ \A up \in SUBSET Hosts : Settled(inst', up, txn.plan.count, dep.nodes)
  BY CommitReaches, CommitSettles
<1> QED BY <1>1, ScalingInvariant, PTL DEF ScaleReaches

\* A scale-in stops units that do not serve before units that do, and older before newer.
THEOREM ServingAlwaysLast == ScalingSpec => ServingStopsLast
<1>1. ASSUME ScInv, NEW c \in Calls, Undisturbed(c), NEW u \in Serving(inst) \ Wanted(inst')
      PROVE  /\ Pending(inst) \cap Wanted(inst') = {}
             /\ \A v \in Serving(inst) \cap Wanted(inst') : u < v
  <2> DEFINE n == TargetOf(call[c])
             S == Counting(inst)
             R == {uv \in S \X S : StopsFirst(inst, uv[1], uv[2])}
  <2>1. txn.by = {c} /\ inst = txn.seen /\ CommitScale(c)
    BY <1>1 DEF Undisturbed
  <2>2. inst' = RowsAfter(inst, txn.seen, txn.plan)
    BY <2>1 DEF CommitScale
  <2>3. /\ inst \in RowsType /\ n \in Nat
        /\ Outcome(inst, Broken(inst) \cup Surplus(inst, n), NewUnits(inst, txn.plan.placed),
                   dep.nodes, RowsAfter(inst, txn.seen, txn.plan))
    BY <1>1, <2>1, Applied
  <2>4. /\ Wanted(inst') = (Wanted(inst) \ (Broken(inst) \cup Surplus(inst, n)))
                              \cup NewUnits(inst, txn.plan.placed)
        /\ Units(inst) \cap NewUnits(inst, txn.plan.placed) = {}
    BY <2>2, <2>3 DEF Outcome
  <2>5. /\ Wanted(inst) \subseteq Units(inst) /\ S \cap Broken(inst) = {} /\ S \subseteq Wanted(inst)
    BY <2>3, UnitsSplit
  <2>6. IsFiniteSet(S) /\ Orders(R, S) /\ \A x \in S : Before(R, S, x) = {v \in S : StopsFirst(inst, v, x)}
    BY <2>3, StopOrder
  <2>7. Surplus(inst, n) = {x \in S : Cardinality(Before(R, S, x)) < Cardinality(S) - n}
    <3>1. Surplus(inst, n) = {x \in S : Cardinality({v \in S : StopsFirst(inst, v, x)}) < Cardinality(S) - n}
      BY DEF Surplus, Counting
    <3> HIDE DEF S, R
    <3> QED BY <2>6, <3>1
  <2>8. Serving(inst) \subseteq S /\ Pending(inst) \subseteq S /\ Serving(inst) \cap Pending(inst) = {}
    BY DEF Counting, Pending
  <2>9. S \subseteq Nat
    <3>1. Units(inst) \subseteq Ids \cup {0}
      BY <2>3, UnitsSplit
    <3>2. Ids \cup {0} \subseteq Nat
      BY IdsFinite
    <3> QED BY <2>5, <3>1, <3>2
  <2> HIDE DEF S, n
  <2>10. u \in Surplus(inst, n)
    BY <2>4, <2>5, <2>8
  <2>11. ASSUME NEW v \in S, v \notin Surplus(inst, n) PROVE ~StopsFirst(inst, v, u)
    <3>1. SUFFICES ASSUME StopsFirst(inst, v, u) PROVE FALSE
      OBVIOUS
    <3>2. u \in S
      BY <2>8
    <3>3. <<v, u>> \in R
      BY <3>1, <3>2
    <3> HIDE DEF R
    <3>4. Before(R, S, v) \subseteq Before(R, S, u)
      BY <2>6, <3>2, <3>3 DEF Orders, Before
    <3>5. IsFiniteSet(Before(R, S, u))
      BY <2>6, FS_Subset DEF Before
    <3>6. Cardinality(Before(R, S, v)) <= Cardinality(Before(R, S, u))
      BY <3>4, <3>5, FS_Subset
    <3>7. Cardinality(Before(R, S, u)) < Cardinality(S) - n
      BY <2>7, <2>10
    <3>8. ~(Cardinality(Before(R, S, v)) < Cardinality(S) - n)
      BY <2>7, <2>11
    <3>9. Cardinality(Before(R, S, v)) \in Nat /\ Cardinality(Before(R, S, u)) \in Nat /\ Cardinality(S) \in Nat
      <4>1. IsFiniteSet(Before(R, S, v))
        BY <3>4, <3>5, FS_Subset
      <4> QED BY <2>6, <3>5, <4>1, FS_CardinalityType
    <3>10. n \in Nat
      BY <2>3
    <3> QED BY <3>6, <3>7, <3>8, <3>9, <3>10
  <2>12. \A v \in S : v \in Wanted(inst') => v \notin Surplus(inst, n)
    BY <2>4, <2>5
  <2>13. ASSUME NEW v \in Pending(inst) \cap Wanted(inst') PROVE FALSE
    <3>1. v \in S /\ v \notin Serving(inst) /\ u \in Serving(inst)
      BY <2>8
    <3>2. StopsFirst(inst, v, u)
      BY <3>1 DEF StopsFirst
    <3> QED BY <2>11, <2>12, <3>1, <3>2
  <2>14. ASSUME NEW v \in Serving(inst) \cap Wanted(inst') PROVE u < v
    <3>1. v \in S /\ u \in S /\ v \in Nat /\ u \in Nat
      BY <2>8, <2>9
    <3>2. ~(v < u)
      BY <2>11, <2>12, <3>1 DEF StopsFirst
    <3>3. v # u
      OBVIOUS
    <3> QED BY <3>1, <3>2, <3>3
  <2> QED BY <2>13, <2>14
<1>2. ScInv => \A c \in Calls : Undisturbed(c) =>
                 \A u \in Serving(inst) \ Wanted(inst') :
                   /\ Pending(inst) \cap Wanted(inst') = {}
                   /\ \A v \in Serving(inst) \cap Wanted(inst') : u < v
  BY <1>1
<1> QED BY <1>2, ScalingInvariant, PTL DEF ServingStopsLast

\* Scaling never splits a group, and a new group has all its ranks, even when the scheduler
\* refuses a tick halfway and what it placed is committed.
THEOREM GroupsAlwaysWhole == ScalingSpec => GroupsStayWhole
<1>1. ASSUME ScInv, NEW c \in Calls,
             Undisturbed(c) \/ (txn.by = {c} /\ inst = txn.seen /\ LeakTick(c)),
             NEW u \in Units(inst')
      PROVE  LET whole(m) == \A i, j \in Members(m, u) : m[i].desired = m[j].desired
             IN  IF u \in Units(inst) THEN whole(inst) => whole(inst')
                 ELSE Cardinality(Members(inst', u)) = dep.nodes /\ whole(inst')
  <2> DEFINE n == TargetOf(call[c])
             U == Broken(inst) \cup Surplus(inst, n)
             new == NewUnits(inst, txn.plan.placed)
  <2>1. txn.by = {c} /\ inst = txn.seen /\ inst' = RowsAfter(inst, txn.seen, txn.plan)
    BY <1>1 DEF Undisturbed, CommitScale, LeakTick
  <2>2. dep.nodes \in Nat \ {0} /\ Outcome(inst, U, new, dep.nodes, inst')
    BY <1>1, <2>1, Applied
  <2> HIDE DEF U, new
  <2>3. CASE u \in Units(inst)
    <3>1. /\ Members(inst', u) = Members(inst, u)
          /\ \A i \in Members(inst, u) : inst'[i].desired = IF u \in U THEN "stopped" ELSE inst[i].desired
      BY <2>2, <2>3 DEF Outcome
    <3> QED BY <2>3, <3>1
  <2>4. CASE u \notin Units(inst)
    <3>1. u \in new
      BY <2>2, <2>4 DEF Outcome
    <3>2. /\ u \in Nat /\ Members(inst', u) = {u + r : r \in 0 .. dep.nodes - 1}
          /\ \A i \in Members(inst', u) : inst'[i].desired = "running"
      BY <2>2, <3>1 DEF Outcome
    <3> DEFINE H == 0 .. dep.nodes - 1
    <3>3. H \in SUBSET Nat /\ IsFiniteSet(H) /\ Cardinality(H) = dep.nodes
      <4>1. 0 \in Int /\ dep.nodes - 1 \in Int /\ dep.nodes - 1 >= 0
        BY <2>2
      <4>2. IsFiniteSet(H) /\ Cardinality(H) = IF 0 > dep.nodes - 1 THEN 0 ELSE (dep.nodes - 1) - 0 + 1
        BY <4>1, FS_Interval
      <4>3. H \in SUBSET Nat
        OBVIOUS
      <4> QED BY <2>2, <4>1, <4>2, <4>3
    <3>4. {u + r : r \in H} = {(u + 1) + r - 1 : r \in H}
      <4>1. \A r \in H : u + r = (u + 1) + r - 1
        BY <3>2
      <4> HIDE DEF H
      <4> QED BY <4>1
    <3> HIDE DEF H
    <3>5. u + 1 \in Nat
      BY <3>2
    <3>6. Cardinality({(u + 1) + r - 1 : r \in H}) = Cardinality(H)
      BY <3>3, <3>5, ShiftCounts
    <3>7. Cardinality(Members(inst', u)) = dep.nodes
      BY <3>2, <3>3, <3>4, <3>6 DEF H
    <3> QED BY <2>4, <3>2, <3>7
  <2> QED BY <2>3, <2>4
<1>2. ScInv => \A c \in Calls :
                 (Undisturbed(c) \/ (txn.by = {c} /\ inst = txn.seen /\ LeakTick(c))) =>
                 \A u \in Units(inst') :
                   LET whole(m) == \A i, j \in Members(m, u) : m[i].desired = m[j].desired
                   IN  IF u \in Units(inst) THEN whole(inst) => whole(inst')
                       ELSE Cardinality(Members(inst', u)) = dep.nodes /\ whole(inst')
  BY <1>1
<1> QED BY <1>2, ScalingInvariant, PTL DEF GroupsStayWhole

\* Where a clamp ends up.
LEMMA ClampReads ==
    ASSUME NEW lo \in Nat, NEW hi \in Nat, lo <= hi, NEW n \in Nat
    PROVE  /\ Clamp(lo, hi, n) \in lo .. hi
           /\ \A b \in lo .. hi : n - b \in {-1, 1} => Clamp(lo, hi, n) - b \in {-1, 0, 1}
<1>1. Clamp(lo, hi, n) \in lo .. hi
  BY DEF Clamp
<1>2. ASSUME NEW b \in lo .. hi, n - b \in {-1, 1} PROVE Clamp(lo, hi, n) - b \in {-1, 0, 1}
  BY <1>2 DEF Clamp
<1> QED BY <1>1, <1>2

\* A tick or a range request leaves the count in the window it was decided in, and a tick
\* moves one replica at most from a count inside that window.
THEOREM CountAlwaysInWindow == ScalingSpec => CountInWindow
<1>1. ASSUME ScInv, NEW c \in Calls, Undisturbed(c), call[c].op # "scale", Limbo(inst) = {}
      PROVE  LET before == Cardinality(Wanted(inst))
                 after == Cardinality(Wanted(inst'))
             IN  /\ (call[c].min = dep.min /\ call[c].max = dep.max) => after \in dep'.min .. dep'.max
                 /\ (/\ call[c].op = "tick" /\ before = call[c].from
                     /\ before \in call[c].min .. call[c].max) => after - before \in {-1, 0, 1}
  <2> DEFINE q == call[c]
             before == Cardinality(Wanted(inst))
             after == Cardinality(Wanted(inst'))
  <2>1. txn.by = {c} /\ CommitScale(c)
    BY <1>1 DEF Undisturbed
  <2>2. q.op = "range" \/ q.op = "tick"
    BY <1>1, <2>1, HolderScales
  <2>3. DepTyped /\ CallTyped /\ CallsFit
    BY <1>1, TypeParts DEF ScInv
  <2>4. /\ q.lo \in Nat /\ q.hi \in Nat /\ q.lo <= q.hi /\ q.arg \in Nat /\ q.from \in Nat
        /\ q.op = "tick" => q.lo = q.min /\ q.hi = q.max /\ q.arg - q.from \in {-1, 1}
    BY <2>3, CountsTyped DEF CallTyped, CallsFit
  <2>5. dep' = WindowAfter(q)
    BY <2>1 DEF CommitScale
  <2>6. after = Clamp(q.lo, q.hi, q.arg)
    <3>1. after = TargetOf(q) + Cardinality(Limbo(inst))
      BY <1>1, CommitReaches
    <3>2. Cardinality(Limbo(inst)) = 0
      BY <1>1, FS_EmptySet
    <3>3. TargetOf(q) = Clamp(q.lo, q.hi, q.arg)
      BY <2>2 DEF TargetOf
    <3>4. Clamp(q.lo, q.hi, q.arg) \in Nat
      BY <2>4 DEF Clamp
    <3> QED BY <3>1, <3>2, <3>3, <3>4
  <2> HIDE DEF before, after, q
  <2>7. after \in q.lo .. q.hi
    BY <2>4, <2>6, ClampReads
  <2>8. ASSUME q.min = dep.min, q.max = dep.max PROVE after \in dep'.min .. dep'.max
    <3>1. CASE q.op = "tick"
      <4>1. dep' = dep
        BY <2>5, <3>1 DEF WindowAfter
      <4> QED BY <2>4, <2>7, <2>8, <3>1, <4>1
    <3>2. CASE q.op = "range"
      <4>1. dep' = [dep EXCEPT !.min = Sent(dep.min, q.min, q.lo), !.max = Sent(dep.max, q.max, q.hi)]
        BY <2>5, <3>2 DEF WindowAfter
      <4>2. dep'.min = Sent(dep.min, q.min, q.lo) /\ dep'.max = Sent(dep.max, q.max, q.hi)
        BY <2>3, <4>1 DEF DepTyped
      <4>3. dep'.min = q.lo /\ dep'.max = q.hi
        BY <2>8, <4>2 DEF Sent
      <4> QED BY <2>7, <4>3
    <3> QED BY <2>2, <3>1, <3>2
  <2>9. ASSUME q.op = "tick", before = q.from, before \in q.min .. q.max
        PROVE  after - before \in {-1, 0, 1}
    <3>1. q.lo = q.min /\ q.hi = q.max /\ q.arg - q.from \in {-1, 1}
      BY <2>4, <2>9
    <3>2. before \in q.lo .. q.hi /\ q.arg - before \in {-1, 1}
      BY <2>9, <3>1
    <3> QED BY <2>4, <2>6, <3>2, ClampReads
  <2> QED BY <2>8, <2>9 DEF before, after, q
<1>2. ScInv => \A c \in Calls :
                 (Undisturbed(c) /\ call[c].op # "scale" /\ Limbo(inst) = {}) =>
                 LET before == Cardinality(Wanted(inst))
                     after == Cardinality(Wanted(inst'))
                 IN  /\ (call[c].min = dep.min /\ call[c].max = dep.max) => after \in dep'.min .. dep'.max
                     /\ (/\ call[c].op = "tick" /\ before = call[c].from
                         /\ before \in call[c].min .. call[c].max) => after - before \in {-1, 0, 1}
  BY <1>1
<1> QED BY <1>2, ScalingInvariant, PTL DEF CountInWindow
=============================================================================
