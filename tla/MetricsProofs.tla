---------------------------- MODULE MetricsProofs ----------------------------
(***************************************************************************)
(* Two results on what is recorded. Sampler: for any number of VUs and     *)
(* requests, any latencies and any layout of the buckets, and however the  *)
(* atomic operations of record and Sample interleave, the histograms are   *)
(* exact when nobody is recording, and the points of the series add up to  *)
(* what was recorded. Workload: for any number of VUs, shards, operations  *)
(* and iterations, and wherever the test ends in between, the report       *)
(* counts what the history of the operations has.                          *)
(***************************************************************************)
EXTENDS Sampler, Workload, FiniteSetTheorems, NaturalsInduction, SequenceTheorems, TLAPS

-----------------------------------------------------------------------------
(* The inductive invariant, by concern *)

Places   == {"idle", "n", "sum", "minload", "mincas", "maxload", "maxcas", "gone"}
MinYet   == {"n", "sum", "minload", "mincas"}   \* has still to lower min
MaxYet   == MinYet \cup {"maxload", "maxcas"}   \* has still to raise max
Reading  == {"read", "readlast"}

TypeOK ==
    /\ hist \in [Kinds -> [counts : [Buckets -> Nat], n : Nat, sum : Nat, min : Nat, max : Nat]]
    /\ vu \in [Sharers -> Places]
    /\ req \in [Sharers -> [kind : Kinds, lat : Latencies \cup {0}]]
    /\ seen \in [Sharers -> Nat]
    /\ recordings \in [Kinds -> [Latencies -> Nat]]
    /\ spc \in {"wait", "done"} \cup Reading
    /\ pos \in 1..(NumLoads + 1)
    /\ cur \in [Buckets -> Nat] /\ curFailed \in Nat
    /\ prev \in [Buckets -> Nat] /\ prevFailed \in Nat
    /\ points \in Seq([requests : Nat, failed : Nat])

\* What a VU in the middle of record has counted and not yet added to n, to sum.
OwedN(kind)   == [v \in Sharers |-> IF vu[v] = "n" /\ Kind(v) = kind THEN 1 ELSE 0]
OwedSum(kind) == [v \in Sharers |-> IF vu[v] \in {"n", "sum"} /\ Kind(v) = kind THEN Lat(v) ELSE 0]

\* The requests of one bucket, and the time they took.
InBucket(kind, b) == [lat \in {l \in Latencies : BucketOf(l) = b} |-> recordings[kind][lat]]
Spent(kind)       == [lat \in Latencies |-> lat * recordings[kind][lat]]

\* n and sum lag behind the counts by what the VUs in record owe them.
NInv      == \A kind \in Kinds : hist[kind].n + SumFunction(OwedN(kind)) = Recorded(kind)
SumInv    == \A kind \in Kinds : hist[kind].sum + SumFunction(OwedSum(kind)) = SumFunction(Spent(kind))
CountsInv == \A kind \in Kinds :
                /\ \A b \in Buckets : hist[kind].counts[b] = SumFunction(InBucket(kind, b))
                /\ SumFunction(hist[kind].counts) = Recorded(kind)

\* The request a VU is recording is in recordings.
LogInv == \A v \in Sharers : vu[v] \in MaxYet => Lat(v) \in Latencies /\ recordings[Kind(v)][Lat(v)] > 0

\* No recorded latency is below min, unless the VU that recorded it is still on its
\* way to min; and min is one of them.
MinInv ==
    /\ \A kind \in Kinds :
         /\ hist[kind].min = Infinity \/ hist[kind].min \in LatsOf(kind)
         /\ \A lat \in LatsOf(kind) :
              hist[kind].min <= lat \/ \E v \in Sharers : vu[v] \in MinYet /\ req[v] = [kind |-> kind, lat |-> lat]
    /\ \A v \in Sharers : vu[v] = "mincas" => Lat(v) < seen[v]
MaxInv ==
    /\ \A kind \in Kinds :
         /\ hist[kind].max = 0 \/ hist[kind].max \in LatsOf(kind)
         /\ \A lat \in LatsOf(kind) :
              lat <= hist[kind].max \/ \E v \in Sharers : vu[v] \in MaxYet /\ req[v] = [kind |-> kind, lat |-> lat]
    /\ \A v \in Sharers : vu[v] = "maxcas" => seen[v] < Lat(v)

RecordInv == NInv /\ SumInv /\ CountsInv /\ LogInv /\ MinInv /\ MaxInv

\* What a bucket counts by now in both histograms.
Both(b) == hist["ok"].counts[b] + hist["failed"].counts[b]

\* Sample has loaded bucket b of ok, and of failed.
OkLoaded(b)     == pos > b + 1
FailedLoaded(b) == pos > numBuckets + b + 1

\* A sample never shows less than the one before nor more than there is, though VUs
\* record between its loads.
ReadInv ==
    /\ \A b \in Buckets : prev[b] <= Both(b)
    /\ prevFailed <= hist["failed"].n
    /\ spc \in Reading =>
         /\ \A b \in Buckets :
              /\ ~OkLoaded(b) => cur[b] = 0
              /\ OkLoaded(b) /\ ~FailedLoaded(b) =>
                    cur[b] <= hist["ok"].counts[b] /\ prev[b] <= cur[b] + hist["failed"].counts[b]
              /\ FailedLoaded(b) => prev[b] <= cur[b] /\ cur[b] <= Both(b)
         /\ pos <= NumLoads => curFailed = 0
         /\ pos > NumLoads => prevFailed <= curFailed /\ curFailed <= hist["failed"].n

\* The last sample is taken when nothing changes any more.
LastInv ==
    /\ spc \in {"readlast", "done"} => AllGone
    /\ spc = "readlast" => \A b \in Buckets :
         /\ OkLoaded(b) /\ ~FailedLoaded(b) => cur[b] = hist["ok"].counts[b]
         /\ FailedLoaded(b) => cur[b] = Both(b)
    /\ spc = "done" => \A b \in Buckets : prev[b] = Both(b)

\* The points add up to the last sample.
SeriesInv ==
    /\ PointSum(RequestsOf) = SumFunction(prev)
    /\ PointSum(Failed) = prevFailed
    /\ \A k \in DOMAIN points : points[k].failed <= points[k].requests

SamplerInv == TypeOK /\ RecordInv /\ ReadInv /\ LastInv /\ SeriesInv
-----------------------------------------------------------------------------
(* Sums over finite sets *)

\* A set of natural numbers has a least one.
LEMMA LeastNatural ==
    ASSUME NEW S \in SUBSET Nat, S # {}
    PROVE  \E m \in S : \A n \in S : m <= n
<1> DEFINE Less == {ss \in Nat \X Nat : ss[1] < ss[2]}
<1>1. IsWellFoundedOn(Less, Nat)
  BY NatLessThanWellFounded, Zenon DEF OpToRel
<1>2. PICK m \in S : \A n \in S : ~(<<n, m>> \in Less)
  <2> HIDE DEF Less
  <2> QED BY <1>1, WFMin, Zenon
<1>3. \A n \in S : ~(n < m)
  BY <1>2
<1>4. QED
  BY <1>3

\* Induction over the subsets of a finite set: a family to which a set belongs
\* when its proper subsets do has them all.
LEMMA FiniteDescent ==
    ASSUME NEW S, IsFiniteSet(S), NEW P,
           \A T \in SUBSET S : (\A U \in SUBSET T : U # T => U \in P) => T \in P
    PROVE  \A T \in SUBSET S : T \in P
<1> DEFINE Bad == {Cardinality(T) : T \in {U \in SUBSET S : U \notin P}}
<1>1. SUFFICES ASSUME NEW B \in SUBSET S, B \notin P PROVE FALSE
  OBVIOUS
<1>2. \A T \in SUBSET S : IsFiniteSet(T) /\ Cardinality(T) \in Nat
  BY FS_Subset, FS_CardinalityType
<1>3. Bad \in SUBSET Nat /\ Bad # {}
  BY <1>1, <1>2
<1>4. PICK m \in Bad : \A n \in Bad : m <= n
  <2> HIDE DEF Bad
  <2> QED BY <1>3, LeastNatural
<1>5. PICK T \in SUBSET S : T \notin P /\ Cardinality(T) = m
  BY <1>4
<1>6. PICK U \in SUBSET T : U # T /\ U \notin P
  BY <1>5
<1>7. Cardinality(U) <= Cardinality(T) /\ Cardinality(U) # Cardinality(T)
  BY <1>2, <1>6, FS_Subset
<1>8. Cardinality(U) \in Bad
  BY <1>6
<1>9. Cardinality(T) <= Cardinality(U)
  <2> HIDE DEF Bad
  <2> QED BY <1>4, <1>5, <1>8
<1>10. Cardinality(T) \in Nat /\ Cardinality(U) \in Nat
  BY <1>2, <1>6
<1>11. QED
  BY <1>7, <1>9, <1>10

\* The same, one element at a time.
LEMMA FiniteInduction ==
    ASSUME NEW S, IsFiniteSet(S), NEW P, {} \in P,
           \A T \in SUBSET S : \A x \in S \ T : T \in P => T \cup {x} \in P
    PROVE  S \in P
<1>1. ASSUME NEW T \in SUBSET S, \A U \in SUBSET T : U # T => U \in P PROVE T \in P
  <2>1. CASE T = {}
    BY <2>1
  <2>2. CASE T # {}
    <3>1. PICK x \in T : TRUE
      BY <2>2
    <3> DEFINE U == T \ {x}
    <3>2. U \in SUBSET T /\ U # T /\ U \in SUBSET S /\ x \in S \ U /\ U \cup {x} = T
      BY <3>1
    <3> HIDE DEF U
    <3>3. QED
      BY <1>1, <3>2
  <2>3. QED
    BY <2>1, <2>2
<1>2. QED
  BY <1>1, FiniteDescent

\* The element SumFunction takes first, and the function it is the solution of.
Pick(s) == CHOOSE x \in s : TRUE
IsIter(g, f, S) == g = [s \in SUBSET S |-> IF s = {} THEN 0 ELSE f[Pick(s)] + g[s \ {Pick(s)}]]
Iter(f, S) == CHOOSE g : IsIter(g, f, S)

LEMMA SumIs ==
    ASSUME NEW f, NEW S, DOMAIN f = S
    PROVE  SumFunction(f) = Iter(f, S)[S]
  BY Zenon DEF SumFunction, SumFunctionOnSet, FoldFunctionOnSet, MapThenFoldSet, IsIter, Pick, Iter

LEMMA Picked ==
    ASSUME NEW s, s # {}
    PROVE  Pick(s) \in s
  BY DEF Pick

\* The solution exists, since taking elements away comes to an end.
LEMMA IterExists ==
    ASSUME NEW S, IsFiniteSet(S), NEW f \in [S -> Int]
    PROVE  \E g \in [SUBSET S -> Int] : IsIter(g, f, S)
<1> DEFINE Lev(k) == {s \in SUBSET S : Cardinality(s) <= k}
           Body(g, s) == IF s = {} THEN 0 ELSE f[Pick(s)] + g[s \ {Pick(s)}]
           Sol(g, k) == g \in [Lev(k) -> Int] /\ \A s \in Lev(k) : g[s] = Body(g, s)
           Good == {k \in Nat : \E g : Sol(g, k)}
<1>1. \A T \in SUBSET S : IsFiniteSet(T) /\ Cardinality(T) \in Nat /\ (Cardinality(T) = 0 <=> T = {})
  BY FS_Subset, FS_CardinalityType, FS_EmptySet
<1>2. 0 \in Good
  <2>1. \A s \in Lev(0) : s = {}
    BY <1>1
  <2> DEFINE g == [s \in Lev(0) |-> 0]
  <2>2. g \in [Lev(0) -> Int]
    OBVIOUS
  <2>3. \A s \in Lev(0) : g[s] = Body(g, s)
    <3> HIDE DEF Lev
    <3> QED BY <2>1
  <2>4. Sol(g, 0)
    BY <2>2, <2>3
  <2>5. QED
    <3> HIDE DEF g, Sol
    <3> QED BY <2>4
<1>3. ASSUME NEW k \in Nat, k \in Good PROVE k + 1 \in Good
  <2>1. PICK g : Sol(g, k)
    BY <1>3
  <2> DEFINE h == [s \in Lev(k + 1) |-> Body(g, s)]
  <2>2. ASSUME NEW s \in Lev(k + 1), s # {}
        PROVE  Pick(s) \in S /\ s \ {Pick(s)} \in Lev(k)
    <3>1. Pick(s) \in s /\ IsFiniteSet(s) /\ s \in SUBSET S
      BY <2>2, Picked, <1>1
    <3>2. Cardinality(s \ {Pick(s)}) = Cardinality(s) - 1
      BY <3>1, FS_RemoveElement
    <3>3. Cardinality(s) <= k + 1 /\ Cardinality(s) \in Nat
      BY <3>1, <1>1
    <3>4. QED
      BY <3>1, <3>2, <3>3
  <2>3. \A s \in Lev(k) : s \in Lev(k + 1)
    BY <1>1
  <2>4. h \in [Lev(k + 1) -> Int]
    <3>1. ASSUME NEW s \in Lev(k + 1) PROVE Body(g, s) \in Int
      <4>1. CASE s = {}
        BY <4>1
      <4>2. CASE s # {}
        <5>1. f[Pick(s)] \in Int /\ g[s \ {Pick(s)}] \in Int
          <6> HIDE DEF Lev
          <6> QED BY <4>2, <2>2, <2>1
        <5>2. QED
          BY <4>2, <5>1
      <4>3. QED
        BY <4>1, <4>2
    <3>2. QED
      <4> HIDE DEF Body, Lev
      <4> QED BY <3>1
  <2>5. \A s \in Lev(k) : h[s] = g[s]
    <3> HIDE DEF Body, Lev
    <3> QED BY <2>1, <2>3
  <2>6. ASSUME NEW s \in Lev(k + 1) PROVE h[s] = Body(h, s)
    <3>1. h[s] = Body(g, s)
      <4> HIDE DEF Body, Lev
      <4> QED OBVIOUS
    <3>2. s # {} => h[s \ {Pick(s)}] = g[s \ {Pick(s)}]
      <4> HIDE DEF Lev, h
      <4> QED BY <2>2, <2>5
    <3>3. Body(g, s) = Body(h, s)
      <4> HIDE DEF h, Lev
      <4> QED BY <3>2
    <3>4. QED
      <4> HIDE DEF h, Lev, Body
      <4> QED BY <3>1, <3>3
  <2>7. Sol(h, k + 1)
    <3> HIDE DEF h, Lev, Body
    <3> QED BY <2>4, <2>6
  <2>8. QED
    <3> HIDE DEF h, Sol
    <3> QED BY <2>7
<1>4. \A k \in Nat : k \in Good
  <2> HIDE DEF Good
  <2>1. \A k \in Nat : k \in Good => k + 1 \in Good
    BY <1>3
  <2> DEFINE Bad == {k \in Nat : k \notin Good}
  <2>2. SUFFICES ASSUME Bad # {} PROVE FALSE
    OBVIOUS
  <2>3. PICK m \in Bad : \A n \in Bad : m <= n
    <3>1. Bad \in SUBSET Nat
      OBVIOUS
    <3>2. QED
      <4> HIDE DEF Bad
      <4> QED BY <2>2, <3>1, LeastNatural
  <2>4. m \in Nat /\ m \notin Good /\ m # 0
    BY <2>3, <1>2
  <2>5. m - 1 \in Nat /\ (m - 1) + 1 = m /\ ~(m <= m - 1)
    BY <2>4
  <2>6. m - 1 \in Good
    BY <2>3, <2>5
  <2>7. QED
    BY <2>1, <2>4, <2>5, <2>6
<1>5. \A T \in SUBSET S : Cardinality(T) <= Cardinality(S)
  BY FS_Subset
<1>6. Cardinality(S) \in Nat
  BY <1>1
<1>7. Lev(Cardinality(S)) = SUBSET S
  BY <1>5
<1>8. PICK g : Sol(g, Cardinality(S))
  <2> HIDE DEF Sol
  <2> QED BY <1>4, <1>6
<1>9. g \in [SUBSET S -> Int] /\ \A s \in SUBSET S : g[s] = Body(g, s)
  <2> HIDE DEF Lev, Body
  <2> QED BY <1>7, <1>8
<1>10. g = [s \in SUBSET S |-> Body(g, s)]
  <2> HIDE DEF Lev, Body
  <2> QED BY <1>9
<1>11. IsIter(g, f, S)
  <2> QED BY <1>10, Zenon DEF IsIter
<1>12. QED
  <2> HIDE DEF Body, Lev, Sol
  <2> QED BY <1>9, <1>11

\* So Iter is a solution; and from a solution any element may be taken first.
LEMMA IterAny ==
    ASSUME NEW S, IsFiniteSet(S), NEW f \in [S -> Int]
    PROVE  /\ Iter(f, S)[{}] = 0
           /\ \A T \in SUBSET S : Iter(f, S)[T] \in Int
           /\ \A T \in SUBSET S : \A x \in T : Iter(f, S)[T] = f[x] + Iter(f, S)[T \ {x}]
<1> DEFINE g == Iter(f, S)
           Ok(T) == g[T] \in Int /\ \A x \in T : g[T] = f[x] + g[T \ {x}]
           P == {T \in SUBSET S : Ok(T)}
<1>1. IsIter(g, f, S)
  BY IterExists, Zenon DEF Iter
<1>2. \A T \in SUBSET S : g[T] = IF T = {} THEN 0 ELSE f[Pick(T)] + g[T \ {Pick(T)}]
  <2> HIDE DEF g
  <2> QED BY <1>1, Zenon DEF IsIter
<1>3. g[{}] = 0
  <2> HIDE DEF g
  <2> QED BY <1>2
<1> HIDE DEF g
<1>4. ASSUME NEW T \in SUBSET S, \A U \in SUBSET T : U # T => U \in P PROVE T \in P
  <2>0. \A U \in SUBSET T : U # T => g[U] \in Int /\ \A x \in U : g[U] = f[x] + g[U \ {x}]
    BY <1>4
  <2>1. CASE T = {}
    BY <2>1, <1>3
  <2>2. CASE T # {}
    <3> DEFINE p == Pick(T)
    <3>1. p \in T /\ f[p] \in Int /\ T \ {p} \in SUBSET T /\ T \ {p} # T
      BY <2>2, Picked
    <3>2. g[T] = f[p] + g[T \ {p}]
      BY <2>2, <1>2
    <3> HIDE DEF p
    <3>3. g[T \ {p}] \in Int
      BY <3>1, <2>0
    <3>4. ASSUME NEW x \in T, x # p PROVE g[T] = f[x] + g[T \ {x}]
      <4>1. T \ {x} \in SUBSET T /\ T \ {x} # T /\ x \in T \ {p} /\ p \in T \ {x} /\ f[x] \in Int
        BY <3>1, <3>4
      <4>2. g[T \ {x}] = f[p] + g[(T \ {x}) \ {p}]
        BY <4>1, <2>0
      <4>3. g[T \ {p}] = f[x] + g[(T \ {p}) \ {x}]
        BY <4>1, <3>1, <2>0
      <4>4. (T \ {x}) \ {p} = (T \ {p}) \ {x}
        OBVIOUS
      <4>5. g[(T \ {p}) \ {x}] \in Int
        <5>1. (T \ {p}) \ {x} \in SUBSET T /\ (T \ {p}) \ {x} # T
          BY <3>1
        <5>2. QED
          BY <5>1, <2>0
      <4>6. QED
        <5> DEFINE r == g[(T \ {p}) \ {x}]
                   tx == g[T \ {x}]
                   tp == g[T \ {p}]
        <5>1. tx = f[p] + r /\ tp = f[x] + r /\ r \in Int /\ g[T] = f[p] + tp
          BY <4>2, <4>3, <4>4, <4>5, <3>2
        <5> HIDE DEF r, tx, tp
        <5>2. g[T] = f[x] + tx
          BY <5>1, <3>1, <4>1
        <5>3. QED
          BY <5>2 DEF tx
    <3>5. g[T] \in Int
      BY <3>1, <3>2, <3>3
    <3>6. \A x \in T : g[T] = f[x] + g[T \ {x}]
      BY <3>2, <3>4
    <3>7. QED
      BY <3>5, <3>6
  <2>3. QED
    BY <2>1, <2>2
<1>5. \A T \in SUBSET S : T \in P
  <2> HIDE DEF P
  <2> QED BY <1>4, FiniteDescent
<1>6. QED
  BY <1>3, <1>5 DEF g

\* A part of the sum is the sum of the part.
LEMMA IterPart ==
    ASSUME NEW S, IsFiniteSet(S), NEW f \in [S -> Int], NEW T \in SUBSET S
    PROVE  SumFunction([x \in T |-> f[x]]) = Iter(f, S)[T]
<1> DEFINE h == [x \in T |-> f[x]]
           P == {U \in SUBSET T : Iter(h, T)[U] = Iter(f, S)[U]}
<1>1. h \in [T -> Int] /\ IsFiniteSet(T)
  BY FS_Subset
<1>1a. \A x \in T : h[x] = f[x]
  OBVIOUS
<1>1b. SumFunction(h) = Iter(h, T)[T]
  <2>1. DOMAIN h = T
    OBVIOUS
  <2> HIDE DEF h
  <2>2. QED
    BY <2>1, SumIs, Zenon
<1> HIDE DEF h
<1>2. {} \in P
  BY <1>1, IterAny
<1>3. ASSUME NEW U \in SUBSET T, NEW x \in T \ U, U \in P PROVE U \cup {x} \in P
  <2> DEFINE V == U \cup {x}
  <2>1. V \in SUBSET T /\ V \in SUBSET S /\ x \in V /\ V \ {x} = U
    OBVIOUS
  <2> HIDE DEF V
  <2>2. Iter(h, T)[V] = h[x] + Iter(h, T)[V \ {x}]
    BY <1>1, <2>1, IterAny
  <2>3. Iter(f, S)[V] = f[x] + Iter(f, S)[V \ {x}]
    BY <2>1, IterAny
  <2>4. Iter(h, T)[U] = Iter(f, S)[U]
    BY <1>3
  <2>5. Iter(h, T)[V] = Iter(f, S)[V]
    BY <2>1, <2>2, <2>3, <2>4, <1>1a
  <2>6. QED
    BY <2>1, <2>5 DEF V
<1>4. T \in P
  <2> HIDE DEF P
  <2> QED BY <1>1, <1>2, <1>3, FiniteInduction
<1>5. QED
  BY <1>4, <1>1b DEF h

\* The sum of nothing, and the sum with one element taken out.
LEMMA SumEmpty ==
    ASSUME NEW f \in [{} -> Int]
    PROVE  SumFunction(f) = 0
<1>1. IsFiniteSet({}) /\ DOMAIN f = {}
  BY FS_EmptySet
<1>2. SumFunction(f) = Iter(f, {})[{}]
  BY <1>1, SumIs
<1>3. QED
  BY <1>1, <1>2, IterAny

Without(f, x) == [y \in DOMAIN f \ {x} |-> f[y]]

LEMMA SumTake ==
    ASSUME NEW S, IsFiniteSet(S), NEW f \in [S -> Int], NEW x \in S
    PROVE  SumFunction(f) = f[x] + SumFunction(Without(f, x))
<1>1. SumFunction(f) = Iter(f, S)[S]
  BY SumIs
<1>2. SumFunction(Without(f, x)) = Iter(f, S)[S \ {x}]
  <2>1. S \ {x} \in SUBSET S /\ DOMAIN f = S
    OBVIOUS
  <2>2. SumFunction([y \in S \ {x} |-> f[y]]) = Iter(f, S)[S \ {x}]
    BY <2>1, IterPart
  <2>3. QED
    BY <2>1, <2>2 DEF Without
<1>3. Iter(f, S)[S] = f[x] + Iter(f, S)[S \ {x}]
  BY IterAny
<1>4. QED
  BY <1>1, <1>2, <1>3

\* The sum of integers is one.
LEMMA SumInt ==
    ASSUME NEW S, IsFiniteSet(S), NEW f \in [S -> Int]
    PROVE  SumFunction(f) \in Int
<1>1. SumFunction(f) = Iter(f, S)[S]
  BY SumIs
<1>2. QED
  BY <1>1, IterAny

\* How a sum changes with one of its terms.
LEMMA SumChange ==
    ASSUME NEW S, IsFiniteSet(S), NEW x \in S
    PROVE  \A f \in [S -> Int] : \A g \in [S -> Int] :
              (\A y \in S : y # x => g[y] = f[y]) => SumFunction(g) = SumFunction(f) - f[x] + g[x]
<1> SUFFICES ASSUME NEW f \in [S -> Int], NEW g \in [S -> Int], \A y \in S : y # x => g[y] = f[y]
             PROVE  SumFunction(g) = SumFunction(f) - f[x] + g[x]
  OBVIOUS
<1> DEFINE h == Without(f, x)
<1>1. SumFunction(f) = f[x] + SumFunction(h)
  BY SumTake
<1>2. SumFunction(g) = g[x] + SumFunction(Without(g, x))
  BY SumTake
<1>3. Without(g, x) = h
  BY DEF Without
<1>4. SumFunction(h) \in Int
  <2>1. h \in [S \ {x} -> Int] /\ IsFiniteSet(S \ {x})
    BY FS_RemoveElement DEF Without
  <2> HIDE DEF h
  <2>2. QED
    BY <2>1, SumInt
<1>5. f[x] \in Int /\ g[x] \in Int
  OBVIOUS
<1> HIDE DEF h
<1>6. QED
  BY <1>1, <1>2, <1>3, <1>4, <1>5

\* The sum with one term more.
LEMMA SumGrow ==
    ASSUME NEW S, IsFiniteSet(S), NEW R, NEW x \in R, x \notin S, R = S \cup {x},
           NEW f \in [S -> Int], NEW g \in [R -> Int], \A y \in S : g[y] = f[y]
    PROVE  SumFunction(g) = SumFunction(f) + g[x]
<1>1. IsFiniteSet(R) /\ R \ {x} = S
  BY FS_AddElement
<1>2. Without(g, x) = f
  BY <1>1 DEF Without
<1>3. SumFunction(g) = g[x] + SumFunction(f)
  BY <1>1, <1>2, SumTake
<1>4. g[x] \in Int /\ SumFunction(f) \in Int
  BY SumInt
<1>5. QED
  BY <1>3, <1>4

\* The sum of differences is the difference of the sums.
LEMMA SumDiff ==
    ASSUME NEW S, IsFiniteSet(S), NEW f \in [S -> Int], NEW g \in [S -> Int]
    PROVE  SumFunction([x \in S |-> f[x] - g[x]]) = SumFunction(f) - SumFunction(g)
<1> DEFINE F(T) == [x \in T |-> f[x]]
           G(T) == [x \in T |-> g[x]]
           D(T) == [x \in T |-> f[x] - g[x]]
           P == {T \in SUBSET S : SumFunction(D(T)) = SumFunction(F(T)) - SumFunction(G(T))}
<1>1. ASSUME NEW T \in SUBSET S
      PROVE  /\ IsFiniteSet(T) /\ D(T) \in [T -> Int] /\ F(T) \in [T -> Int] /\ G(T) \in [T -> Int]
             /\ \A x \in T : D(T)[x] = f[x] - g[x] /\ F(T)[x] = f[x] /\ G(T)[x] = g[x]
             /\ \A x \in T : f[x] \in Int /\ g[x] \in Int
  BY FS_Subset
<1>2. F(S) = f /\ G(S) = g
  OBVIOUS
<1> HIDE DEF D, F, G
<1>3. {} \in P
  <2>1. SumFunction(D({})) = 0 /\ SumFunction(F({})) = 0 /\ SumFunction(G({})) = 0
    BY <1>1, SumEmpty
  <2>2. QED
    BY <2>1
<1>4. ASSUME NEW T \in SUBSET S, NEW x \in S \ T, T \in P PROVE T \cup {x} \in P
  <2> DEFINE U == T \cup {x}
  <2>1. U \in SUBSET S /\ x \notin T /\ IsFiniteSet(T) /\ x \in U /\ (\A y \in T : y \in U) /\ U = T \cup {x}
    BY <1>1
  <2> HIDE DEF U
  <2>1a. \A ff \in [T -> Int] : \A gg \in [U -> Int] :
            (\A y \in T : gg[y] = ff[y]) => SumFunction(gg) = SumFunction(ff) + gg[x]
    BY <2>1, SumGrow
  <2>2. SumFunction(D(U)) = SumFunction(D(T)) + D(U)[x]
    <3>1. \A y \in T : D(U)[y] = D(T)[y]
      BY <1>1, <2>1
    <3>2. D(T) \in [T -> Int] /\ D(U) \in [U -> Int]
      BY <1>1, <2>1
    <3>3. QED
      BY <2>1a, <3>1, <3>2
  <2>3. SumFunction(F(U)) = SumFunction(F(T)) + F(U)[x]
    <3>1. \A y \in T : F(U)[y] = F(T)[y]
      BY <1>1, <2>1
    <3>2. F(T) \in [T -> Int] /\ F(U) \in [U -> Int]
      BY <1>1, <2>1
    <3>3. QED
      BY <2>1a, <3>1, <3>2
  <2>4. SumFunction(G(U)) = SumFunction(G(T)) + G(U)[x]
    <3>1. \A y \in T : G(U)[y] = G(T)[y]
      BY <1>1, <2>1
    <3>2. G(T) \in [T -> Int] /\ G(U) \in [U -> Int]
      BY <1>1, <2>1
    <3>3. QED
      BY <2>1a, <3>1, <3>2
  <2>5. D(U)[x] = F(U)[x] - G(U)[x] /\ F(U)[x] \in Int /\ G(U)[x] \in Int
    <3>1. D(U)[x] = f[x] - g[x] /\ F(U)[x] = f[x] /\ G(U)[x] = g[x] /\ f[x] \in Int /\ g[x] \in Int
      BY <1>1, <2>1
    <3>2. QED
      BY <3>1
  <2>6. SumFunction(D(T)) = SumFunction(F(T)) - SumFunction(G(T))
    BY <1>4
  <2>7. SumFunction(F(T)) \in Int /\ SumFunction(G(T)) \in Int
    BY <1>1, SumInt
  <2>8. SumFunction(D(U)) = SumFunction(F(U)) - SumFunction(G(U))
    BY <2>2, <2>3, <2>4, <2>5, <2>6, <2>7
  <2>9. QED
    BY <2>1, <2>8 DEF U
<1>5. S \in P
  <2> HIDE DEF P
  <2> QED BY <1>3, <1>4, FiniteInduction
<1>6. SumFunction(D(S)) = SumFunction(F(S)) - SumFunction(G(S))
  BY <1>5
<1>7. QED
  BY <1>2, <1>6 DEF D

\* A sum of zeros.
LEMMA SumZero ==
    ASSUME NEW S, IsFiniteSet(S), NEW f \in [S -> Int], \A x \in S : f[x] = 0
    PROVE  SumFunction(f) = 0
<1>1. [x \in S |-> f[x] - f[x]] = f
  OBVIOUS
<1>2. SumFunction([x \in S |-> f[x] - f[x]]) = SumFunction(f) - SumFunction(f)
  BY SumDiff
<1>3. SumFunction(f) \in Int
  BY SumInt
<1>4. QED
  BY <1>1, <1>2, <1>3

\* The sums of functions whose values add up.
LEMMA SumAdd ==
    ASSUME NEW S, IsFiniteSet(S), NEW f \in [S -> Int], NEW g \in [S -> Int], NEW h \in [S -> Int],
           \A x \in S : h[x] = f[x] + g[x]
    PROVE  SumFunction(h) = SumFunction(f) + SumFunction(g)
<1>1. [x \in S |-> h[x] - f[x]] = g
  OBVIOUS
<1>2. SumFunction([x \in S |-> h[x] - f[x]]) = SumFunction(h) - SumFunction(f)
  BY SumDiff
<1>3. SumFunction(h) \in Int /\ SumFunction(f) \in Int
  BY SumInt
<1>4. SumFunction(g) = SumFunction(h) - SumFunction(f)
  BY <1>1, <1>2, Zenon
<1>5. QED
  BY <1>3, <1>4

\* The sum of natural numbers is one.
LEMMA SumNat ==
    ASSUME NEW S, IsFiniteSet(S), NEW f \in [S -> Nat]
    PROVE  SumFunction(f) \in Nat
<1> DEFINE F(T) == [x \in T |-> f[x]]
           P == {T \in SUBSET S : SumFunction(F(T)) \in Nat}
<1>1. ASSUME NEW T \in SUBSET S
      PROVE  IsFiniteSet(T) /\ F(T) \in [T -> Int] /\ \A x \in T : F(T)[x] = f[x] /\ f[x] \in Nat
  BY FS_Subset
<1>2. F(S) = f
  OBVIOUS
<1> HIDE DEF F
<1>3. {} \in P
  BY <1>1, SumEmpty
<1>4. ASSUME NEW T \in SUBSET S, NEW x \in S \ T, T \in P PROVE T \cup {x} \in P
  <2> DEFINE U == T \cup {x}
  <2>1. U \in SUBSET S /\ x \notin T /\ IsFiniteSet(T) /\ x \in U /\ (\A y \in T : y \in U) /\ U = T \cup {x}
    BY <1>1
  <2> HIDE DEF U
  <2>2. \A ff \in [T -> Int] : \A gg \in [U -> Int] :
            (\A y \in T : gg[y] = ff[y]) => SumFunction(gg) = SumFunction(ff) + gg[x]
    BY <2>1, SumGrow
  <2>3. \A y \in T : F(U)[y] = F(T)[y]
    BY <1>1, <2>1
  <2>4. F(T) \in [T -> Int] /\ F(U) \in [U -> Int] /\ F(U)[x] \in Nat
    BY <1>1, <2>1
  <2>5. SumFunction(F(U)) = SumFunction(F(T)) + F(U)[x]
    BY <2>2, <2>3, <2>4
  <2>6. SumFunction(F(T)) \in Nat
    BY <1>4
  <2>7. SumFunction(F(U)) \in Nat
    BY <2>4, <2>5, <2>6
  <2>8. QED
    BY <2>1, <2>7 DEF U
<1>5. S \in P
  <2> HIDE DEF P
  <2> QED BY <1>3, <1>4, FiniteInduction
<1>6. QED
  BY <1>2, <1>5

\* The smaller and the larger of two numbers, and the least of a set.
LEMMA MinOfTwo ==
    ASSUME NEW a \in Int, NEW b \in Int
    PROVE  Min({a, b}) \in {a, b} /\ Min({a, b}) <= a /\ Min({a, b}) <= b
<1>1. \E x \in {a, b} : \A y \in {a, b} : x <= y
  BY SMT
<1>2. Min({a, b}) \in {a, b} /\ \A y \in {a, b} : Min({a, b}) <= y
  BY <1>1, Zenon DEF Min
<1>3. QED
  BY <1>2

LEMMA LeastIs ==
    ASSUME NEW S \in SUBSET Int, NEW m \in S, \A x \in S : m <= x
    PROVE  m = Min(S)
<1>1. Min(S) \in S /\ \A x \in S : Min(S) <= x
  BY Zenon DEF Min
<1>2. m <= Min(S) /\ Min(S) <= m
  BY <1>1
<1>3. m \in Int /\ Min(S) \in Int
  BY <1>1
<1> DEFINE x == Min(S)
<1> HIDE DEF x
<1>4. m = x
  BY <1>2, <1>3 DEF x
<1>5. QED
  BY <1>4 DEF x

LEMMA LargestIs ==
    ASSUME NEW S \in SUBSET Int, NEW m \in S, \A x \in S : x <= m
    PROVE  m = Max(S)
<1>0. \A x \in S : m >= x
  OBVIOUS
<1>1. Max(S) \in S /\ \A x \in S : Max(S) >= x
  BY <1>0, Zenon DEF Max
<1>2. m <= Max(S) /\ Max(S) <= m
  BY <1>1
<1>3. m \in Int /\ Max(S) \in Int
  BY <1>1
<1> DEFINE x == Max(S)
<1> HIDE DEF x
<1>4. m = x
  BY <1>2, <1>3 DEF x
<1>5. QED
  BY <1>4 DEF x

-----------------------------------------------------------------------------
(* Types *)

\* The fields of a histogram.
LEMMA HistTyped ==
    ASSUME TypeOK, NEW kind \in Kinds
    PROVE  /\ hist[kind].counts \in [Buckets -> Nat] /\ hist[kind].n \in Nat /\ hist[kind].sum \in Nat
           /\ hist[kind].min \in Nat /\ hist[kind].max \in Nat
           /\ \A b \in Buckets : hist[kind].counts[b] \in Nat
<1>1. hist[kind] \in [counts : [Buckets -> Nat], n : Nat, sum : Nat, min : Nat, max : Nat]
  BY Zenon DEF TypeOK
<1>2. QED
  BY <1>1

LEMMA ReqTyped ==
    ASSUME TypeOK, NEW v \in Sharers
    PROVE  /\ Kind(v) \in Kinds /\ Lat(v) \in Latencies \cup {0} /\ Lat(v) \in Nat
           /\ vu[v] \in Places /\ seen[v] \in Nat
<1>1. req[v] \in [kind : Kinds, lat : Latencies \cup {0}] /\ vu[v] \in Places /\ seen[v] \in Nat
  BY Zenon DEF TypeOK
<1>2. QED
  BY <1>1, BucketsAssumption DEF Kind, Lat

\* The buckets, and what is in them.
LEMMA BucketFacts ==
    /\ numBuckets \in Nat \ {0} /\ Infinity \in Nat
    /\ IsFiniteSet(Buckets) /\ Buckets \subseteq Nat
    /\ \A b \in Buckets : b \in Nat /\ b < numBuckets
    /\ \A lat \in Latencies : lat \in Nat /\ lat <= Infinity /\ BucketOf(lat) \in Buckets
<1>1. numBuckets \in Nat \ {0} /\ Infinity \in Nat
  BY BucketsAssumption
<1>2. \A lat \in Latencies : lat \in Nat /\ lat <= Infinity /\ BucketOf(lat) \in Buckets
  BY BucketsAssumption
<1>3. IsFiniteSet(Buckets)
  <2>1. numBuckets - 1 \in Int
    BY <1>1
  <2>2. QED
    BY <2>1, FS_Interval DEF Buckets
<1>4. Buckets \subseteq Nat /\ \A b \in Buckets : b \in Nat /\ b < numBuckets
  BY <1>1 DEF Buckets
<1>5. QED
  BY <1>1, <1>2, <1>3, <1>4

\* AddCount begins a request.
Begins(v, kind, lat) ==
    /\ vu[v] = "idle" /\ vu' = [vu EXCEPT ![v] = "n"]
    /\ req' = [req EXCEPT ![v] = [kind |-> kind, lat |-> lat]]
    /\ recordings' = [recordings EXCEPT ![kind][lat] = @ + 1]
    /\ hist' = [hist EXCEPT ![kind].counts[BucketOf(lat)] = @ + 1]
    /\ UNCHANGED <<seen, samVars>>

LEMMA AddCountBegins ==
    ASSUME NEW v \in Sharers, AddCount(v)
    PROVE  \E kind \in Kinds, lat \in Latencies : Begins(v, kind, lat)
  BY DEF AddCount, Goto, Begins

\* What Begins does to the histograms.
LEMMA BeginsHist ==
    ASSUME TypeOK, NEW v \in Sharers, NEW kind \in Kinds, NEW lat \in Latencies, Begins(v, kind, lat)
    PROVE  /\ \A k \in Kinds : k # kind => hist'[k] = hist[k]
           /\ hist'[kind].counts = [hist[kind].counts EXCEPT ![BucketOf(lat)] = @ + 1]
           /\ hist'[kind].n = hist[kind].n /\ hist'[kind].sum = hist[kind].sum
           /\ hist'[kind].min = hist[kind].min /\ hist'[kind].max = hist[kind].max
           /\ hist' \in [Kinds -> [counts : [Buckets -> Nat], n : Nat, sum : Nat, min : Nat, max : Nat]]
<1> DEFINE H == [counts : [Buckets -> Nat], n : Nat, sum : Nat, min : Nat, max : Nat]
           b == BucketOf(lat)
           c == [hist[kind].counts EXCEPT ![b] = hist[kind].counts[b] + 1]
           h == [hist[kind] EXCEPT !.counts = c]
<1>1. hist \in [Kinds -> H] /\ hist[kind] \in H
  BY DEF TypeOK
<1>2. b \in Buckets
  BY BucketFacts
<1> HIDE DEF b
<1>3. hist' = [hist EXCEPT ![kind] = h]
  BY DEF Begins, b
<1>4. hist[kind].counts \in [Buckets -> Nat] /\ hist[kind].counts[b] + 1 \in Nat
  BY <1>1, <1>2
<1>5. c \in [Buckets -> Nat]
  BY <1>2, <1>4
<1>6. c = [hist[kind].counts EXCEPT ![b] = @ + 1]
  OBVIOUS
<1> HIDE DEF c
<1>7. /\ h \in H /\ h.counts = c /\ h.n = hist[kind].n /\ h.sum = hist[kind].sum
      /\ h.min = hist[kind].min /\ h.max = hist[kind].max
  BY <1>1, <1>5
<1> HIDE DEF h, H
<1>8. hist' \in [Kinds -> H] /\ hist'[kind] = h /\ \A k \in Kinds : k # kind => hist'[k] = hist[k]
  BY <1>1, <1>3, <1>7
<1>9. QED
  BY <1>6, <1>7, <1>8 DEF b, H

-----------------------------------------------------------------------------
(* The log *)

LEMMA OneMore ==
    ASSUME NEW a \in Nat, NEW b \in Nat
    PROVE  a * (b + 1) = a * b + a /\ a * b \in Nat /\ b + 1 \in Nat
  BY SMT

\* Begins adds one to one entry of the log.
LEMMA BeginsLog ==
    ASSUME TypeOK, NEW v \in Sharers, NEW kind \in Kinds, NEW lat \in Latencies, Begins(v, kind, lat)
    PROVE  /\ recordings' \in [Kinds -> [Latencies -> Nat]]
           /\ recordings'[kind][lat] = recordings[kind][lat] + 1
           /\ \A k \in Kinds, l \in Latencies : k # kind \/ l # lat => recordings'[k][l] = recordings[k][l]
           /\ \A k \in Kinds : k # kind => recordings'[k] = recordings[k]
           /\ \A k \in Kinds, l \in Latencies : recordings[k][l] \in Nat /\ recordings'[k][l] \in Nat
<1> DEFINE h == [recordings[kind] EXCEPT ![lat] = recordings[kind][lat] + 1]
<1>1. recordings \in [Kinds -> [Latencies -> Nat]] /\ \A k \in Kinds : recordings[k] \in [Latencies -> Nat]
  BY DEF TypeOK
<1>2. \A k \in Kinds, l \in Latencies : recordings[k][l] \in Nat
  BY <1>1
<1>3. recordings' = [recordings EXCEPT ![kind] = h]
  BY DEF Begins
<1>4. h \in [Latencies -> Nat] /\ h[lat] = recordings[kind][lat] + 1 /\ \A l \in Latencies : l # lat => h[l] = recordings[kind][l]
  BY <1>1, <1>2
<1> HIDE DEF h
<1>5. recordings' \in [Kinds -> [Latencies -> Nat]] /\ recordings'[kind] = h /\ \A k \in Kinds : k # kind => recordings'[k] = recordings[k]
  BY <1>1, <1>3, <1>4
<1>6. \A k \in Kinds, l \in Latencies : recordings'[k][l] \in Nat
  BY <1>5
<1>7. QED
  BY <1>2, <1>4, <1>5, <1>6

\* The sums over the log.
LEMMA LogSums ==
    ASSUME TypeOK, NEW k \in Kinds
    PROVE  /\ recordings[k] \in [Latencies -> Nat] /\ Spent(k) \in [Latencies -> Nat]
           /\ \A b : InBucket(k, b) \in [{l \in Latencies : BucketOf(l) = b} -> Nat]
           /\ Recorded(k) = SumFunction(recordings[k])
           /\ Recorded(k) \in Int /\ SumFunction(Spent(k)) \in Int
<1>1. \A l \in Latencies : recordings[k][l] \in Nat
  BY DEF TypeOK
<1>2. recordings[k] \in [Latencies -> Nat]
  BY DEF TypeOK
<1>3. \A l \in Latencies : l * recordings[k][l] \in Nat
  BY <1>1, BucketFacts, OneMore
<1>4. Spent(k) \in [Latencies -> Nat]
  BY <1>3 DEF Spent
<1>5. \A b : InBucket(k, b) \in [{l \in Latencies : BucketOf(l) = b} -> Nat]
  BY <1>1 DEF InBucket
<1>6. Recorded(k) = SumFunction(recordings[k])
  BY DEF Recorded
<1>7. IsFiniteSet(Latencies)
  BY SamplerAssumption
<1>8. recordings[k] \in [Latencies -> Int] /\ Spent(k) \in [Latencies -> Int]
  BY <1>2, <1>4
<1>9. SumFunction(recordings[k]) \in Int /\ SumFunction(Spent(k)) \in Int
  BY <1>7, <1>8, SumInt
<1>10. QED
  BY <1>2, <1>4, <1>5, <1>6, <1>9

\* What one entry more does to the sums over the log.
LEMMA BeginsSums ==
    ASSUME TypeOK, TypeOK', NEW v \in Sharers, NEW kind \in Kinds, NEW lat \in Latencies, Begins(v, kind, lat)
    PROVE  /\ Recorded(kind)' = Recorded(kind) + 1
           /\ SumFunction(Spent(kind)') = SumFunction(Spent(kind)) + lat
           /\ SumFunction(InBucket(kind, BucketOf(lat))') = SumFunction(InBucket(kind, BucketOf(lat))) + 1
           /\ \A b : b # BucketOf(lat) => InBucket(kind, b)' = InBucket(kind, b)
           /\ \A k \in Kinds : k # kind => /\ Recorded(k)' = Recorded(k) /\ Spent(k)' = Spent(k)
                                           /\ \A b : InBucket(k, b)' = InBucket(k, b)
<1>1. /\ recordings'[kind][lat] = recordings[kind][lat] + 1 /\ recordings[kind][lat] \in Nat
      /\ \A k \in Kinds, l \in Latencies : k # kind \/ l # lat => recordings'[k][l] = recordings[k][l]
  BY BeginsLog
<1>2. IsFiniteSet(Latencies) /\ lat \in Nat
  BY SamplerAssumption, BucketFacts
<1>3. Recorded(kind)' = Recorded(kind) + 1
  <2>1. recordings[kind] \in [Latencies -> Int] /\ recordings[kind]' \in [Latencies -> Int]
    <3>1. recordings[kind] \in [Latencies -> Nat]
      BY LogSums
    <3>2. recordings[kind]' \in [Latencies -> Nat]
      BY BeginsLog
    <3>3. QED
      BY <3>1, <3>2
  <2>2. \A l \in Latencies : l # lat => recordings[kind]'[l] = recordings[kind][l]
    BY <1>1
  <2>3. recordings[kind]'[lat] = recordings[kind][lat] + 1
    BY <1>1
  <2>4. SumFunction(recordings[kind]') = SumFunction(recordings[kind]) - recordings[kind][lat] + recordings[kind]'[lat]
    BY <1>2, <2>1, <2>2, SumChange
  <2>5. Recorded(kind) = SumFunction(recordings[kind]) /\ Recorded(kind)' = SumFunction(recordings[kind]')
    BY DEF Recorded
  <2>6. recordings[kind][lat] \in Int /\ SumFunction(recordings[kind]) \in Int
    BY <1>2, <2>1, SumInt
  <2>7. QED
    BY <2>3, <2>4, <2>5, <2>6
<1>4. SumFunction(Spent(kind)') = SumFunction(Spent(kind)) + lat
  <2>1. Spent(kind) \in [Latencies -> Int] /\ Spent(kind)' \in [Latencies -> Int]
    <3>1. Spent(kind) \in [Latencies -> Nat]
      BY LogSums
    <3>2. Spent(kind)' \in [Latencies -> Nat]
      <4>1. \A l \in Latencies : recordings'[kind][l] \in Nat /\ l \in Nat
        BY BeginsLog, BucketFacts
      <4>2. \A l \in Latencies : l * recordings'[kind][l] \in Nat
        BY <4>1, OneMore
      <4>3. QED
        BY <4>2 DEF Spent
    <3>3. QED
      BY <3>1, <3>2
  <2>2. \A l \in Latencies : l # lat => Spent(kind)'[l] = Spent(kind)[l]
    BY <1>1 DEF Spent
  <2>3. Spent(kind)'[lat] = Spent(kind)[lat] + lat
    <3>1. Spent(kind)'[lat] = lat * recordings'[kind][lat] /\ Spent(kind)[lat] = lat * recordings[kind][lat]
      BY DEF Spent
    <3>2. lat * (recordings[kind][lat] + 1) = lat * recordings[kind][lat] + lat
      BY <1>1, <1>2, OneMore
    <3>3. QED
      BY <1>1, <3>1, <3>2, Zenon
  <2>4. SumFunction(Spent(kind)') = SumFunction(Spent(kind)) - Spent(kind)[lat] + Spent(kind)'[lat]
    <3>1. \A f \in [Latencies -> Int] : \A g \in [Latencies -> Int] :
             (\A l \in Latencies : l # lat => g[l] = f[l]) => SumFunction(g) = SumFunction(f) - f[lat] + g[lat]
      BY <1>2, SumChange, Zenon
    <3>2. QED
      BY <3>1, <2>1, <2>2
  <2>5. Spent(kind)[lat] \in Int /\ SumFunction(Spent(kind)) \in Int
    BY <1>2, <2>1, SumInt
  <2>6. QED
    BY <1>2, <2>3, <2>4, <2>5
<1>5. SumFunction(InBucket(kind, BucketOf(lat))') = SumFunction(InBucket(kind, BucketOf(lat))) + 1
  <2> DEFINE S == {l \in Latencies : BucketOf(l) = BucketOf(lat)}
             f == InBucket(kind, BucketOf(lat))
  <2>1. S \in SUBSET Latencies /\ lat \in S /\ IsFiniteSet(S)
    BY <1>2, FS_Subset
  <2>2. f \in [S -> Int] /\ f' \in [S -> Int]
    <3>1. f \in [S -> Nat]
      BY LogSums
    <3>2. f' \in [S -> Nat]
      <4>1. \A l \in Latencies : recordings'[kind][l] \in Nat
        BY BeginsLog
      <4>2. QED
        BY <4>1 DEF InBucket
    <3> HIDE DEF S, f
    <3>3. QED
      BY <3>1, <3>2
  <2>3. \A l \in S : l # lat => f'[l] = f[l]
    BY <1>1 DEF InBucket
  <2>4. f'[lat] = f[lat] + 1
    BY <1>1, <2>1 DEF InBucket
  <2> HIDE DEF S, f
  <2>5. SumFunction(f') = SumFunction(f) - f[lat] + f'[lat]
    BY <2>1, <2>2, <2>3, SumChange
  <2>6. f[lat] \in Int /\ SumFunction(f) \in Int
    BY <2>1, <2>2, SumInt
  <2>7. SumFunction(f') = SumFunction(f) + 1
    BY <2>4, <2>5, <2>6
  <2>8. QED
    BY <2>7 DEF f
<1>6. \A b : b # BucketOf(lat) => InBucket(kind, b)' = InBucket(kind, b)
  BY <1>1 DEF InBucket
<1>7. ASSUME NEW k \in Kinds, k # kind
      PROVE  Recorded(k)' = Recorded(k) /\ Spent(k)' = Spent(k) /\ \A b : InBucket(k, b)' = InBucket(k, b)
  <2>1. \A l \in Latencies : recordings'[k][l] = recordings[k][l]
    BY <1>1, <1>7
  <2>2. recordings[k]' = recordings[k]
    BY <1>7, BeginsLog
  <2>3. Spent(k)' = Spent(k)
    BY <2>1 DEF Spent
  <2>4. \A b : InBucket(k, b)' = InBucket(k, b)
    BY <2>1 DEF InBucket
  <2>5. Recorded(k) = SumFunction(recordings[k]) /\ Recorded(k)' = SumFunction(recordings[k]')
    BY DEF Recorded
  <2>6. QED
    BY <2>2, <2>3, <2>4, <2>5
<1>8. QED
  BY <1>3, <1>4, <1>5, <1>6, <1>7

-----------------------------------------------------------------------------
(* What the VUs owe *)

LEMMA OwedTyped ==
    ASSUME TypeOK, NEW kind \in Kinds
    PROVE  /\ OwedN(kind) \in [Sharers -> Int] /\ OwedSum(kind) \in [Sharers -> Int]
           /\ SumFunction(OwedN(kind)) \in Int /\ SumFunction(OwedSum(kind)) \in Int
<1>1. \A v \in Sharers : Lat(v) \in Int
  BY ReqTyped
<1>2. OwedN(kind) \in [Sharers -> Int] /\ OwedSum(kind) \in [Sharers -> Int]
  BY <1>1 DEF OwedN, OwedSum
<1>3. IsFiniteSet(Sharers)
  BY SamplerAssumption
<1>4. SumFunction(OwedN(kind)) \in Int
  BY <1>2, <1>3, SumInt
<1>5. SumFunction(OwedSum(kind)) \in Int
  BY <1>2, <1>3, SumInt
<1>6. QED
  BY <1>2, <1>4, <1>5

\* A step of one VU changes what that one owes.
OneMoves(v) == /\ vu' \in [Sharers -> Places]
               /\ \A w \in Sharers : w # v => vu'[w] = vu[w] /\ req'[w] = req[w]

LEMMA OwedChange ==
    ASSUME TypeOK, TypeOK', NEW v \in Sharers, OneMoves(v), NEW kind \in Kinds
    PROVE  /\ SumFunction(OwedN(kind)') = SumFunction(OwedN(kind)) - OwedN(kind)[v] + OwedN(kind)'[v]
           /\ SumFunction(OwedSum(kind)') = SumFunction(OwedSum(kind)) - OwedSum(kind)[v] + OwedSum(kind)'[v]
<1>1. /\ OwedN(kind) \in [Sharers -> Int] /\ OwedSum(kind) \in [Sharers -> Int]
      /\ OwedN(kind)' \in [Sharers -> Int] /\ OwedSum(kind)' \in [Sharers -> Int]
  <2>1. OwedN(kind) \in [Sharers -> Int] /\ OwedSum(kind) \in [Sharers -> Int]
    BY OwedTyped
  <2>2. \A w \in Sharers : Lat(w)' \in Int
    <3>1. req' \in [Sharers -> [kind : Kinds, lat : Latencies \cup {0}]]
      BY DEF TypeOK
    <3>2. QED
      BY <3>1, BucketFacts DEF Lat
  <2>3. OwedN(kind)' \in [Sharers -> Int] /\ OwedSum(kind)' \in [Sharers -> Int]
    BY <2>2 DEF OwedN, OwedSum
  <2>4. QED
    BY <2>1, <2>3
<1>2. \A w \in Sharers : w # v => OwedN(kind)'[w] = OwedN(kind)[w] /\ OwedSum(kind)'[w] = OwedSum(kind)[w]
  BY DEF OneMoves, OwedN, OwedSum, Kind, Lat
<1>3. \A f \in [Sharers -> Int] : \A g \in [Sharers -> Int] :
         (\A w \in Sharers : w # v => g[w] = f[w]) => SumFunction(g) = SumFunction(f) - f[v] + g[v]
  BY SamplerAssumption, SumChange, Zenon
<1>4. QED
  BY <1>1, <1>2, <1>3

\* The steps of record after the first.
LEMMA RecordingMoves ==
    ASSUME TypeOK, NEW v \in Sharers, Recording(v) \/ Leave(v)
    PROVE  OneMoves(v) /\ UNCHANGED <<req, recordings, samVars>> /\ Kind(v)' = Kind(v) /\ Lat(v)' = Lat(v)
<1>1. \A from, to : Goto(v, from, to) /\ to \in Places => vu' \in [Sharers -> Places] /\ \A w \in Sharers : w # v => vu'[w] = vu[w]
  BY DEF Goto, TypeOK
<1>2. UNCHANGED <<req, recordings, samVars>>
  BY DEF Recording, AddN, AddSum, LoadMin, SwapMin, LoadMax, SwapMax, Leave
<1>3. \E from \in Places, to \in Places : Goto(v, from, to)
  BY DEF Recording, AddN, AddSum, LoadMin, SwapMin, LoadMax, SwapMax, Leave, Places
<1>4. OneMoves(v)
  BY <1>1, <1>2, <1>3 DEF OneMoves
<1>5. QED
  BY <1>2, <1>4 DEF Kind, Lat

LEMMA BeginsMoves ==
    ASSUME TypeOK, NEW v \in Sharers, NEW kind \in Kinds, NEW lat \in Latencies, Begins(v, kind, lat)
    PROVE  /\ OneMoves(v) /\ UNCHANGED <<seen, samVars>> /\ Kind(v)' = kind /\ Lat(v)' = lat
           /\ vu'[v] = "n" /\ req'[v] = [kind |-> kind, lat |-> lat]
<1>1. vu \in [Sharers -> Places] /\ "n" \in Places /\ DOMAIN req = Sharers
  BY DEF TypeOK, Places
<1>2. vu' = [vu EXCEPT ![v] = "n"] /\ req' = [req EXCEPT ![v] = [kind |-> kind, lat |-> lat]]
  BY Zenon DEF Begins
<1>3. UNCHANGED <<seen, samVars>>
  BY Zenon DEF Begins
<1>4. OneMoves(v)
  BY <1>1, <1>2 DEF OneMoves
<1>5. req'[v] = [kind |-> kind, lat |-> lat] /\ vu'[v] = "n"
  BY <1>1, <1>2
<1>6. QED
  BY <1>3, <1>4, <1>5 DEF Kind, Lat

\* The histogram a step of record changes, field by field.

LEMMA RecordingHist ==
    ASSUME TypeOK, NEW v \in Sharers, Recording(v) \/ Leave(v)
    PROVE  /\ hist' \in [Kinds -> [counts : [Buckets -> Nat], n : Nat, sum : Nat, min : Nat, max : Nat]]
           /\ \A k \in Kinds : k # Kind(v) => hist'[k] = hist[k]
           /\ hist'[Kind(v)].counts = hist[Kind(v)].counts
           /\ hist'[Kind(v)].n = IF AddN(v) THEN hist[Kind(v)].n + 1 ELSE hist[Kind(v)].n
           /\ hist'[Kind(v)].sum = IF AddSum(v) THEN hist[Kind(v)].sum + Lat(v) ELSE hist[Kind(v)].sum
           /\ hist'[Kind(v)].min = IF SwapMin(v) /\ hist[Kind(v)].min = seen[v] THEN Lat(v) ELSE hist[Kind(v)].min
           /\ hist'[Kind(v)].max = IF SwapMax(v) /\ hist[Kind(v)].max = seen[v] THEN Lat(v) ELSE hist[Kind(v)].max
<1> DEFINE H == [counts : [Buckets -> Nat], n : Nat, sum : Nat, min : Nat, max : Nat]
           k == Kind(v)
<1>1. hist \in [Kinds -> H] /\ k \in Kinds /\ hist[k] \in H /\ Lat(v) \in Nat
  BY ReqTyped DEF TypeOK
<1> HIDE DEF k
<1>2. /\ AddN(v) => vu[v] = "n" /\ hist' = [hist EXCEPT ![k] = [hist[k] EXCEPT !.n = hist[k].n + 1]]
      /\ AddSum(v) => vu[v] = "sum" /\ hist' = [hist EXCEPT ![k] = [hist[k] EXCEPT !.sum = hist[k].sum + Lat(v)]]
      /\ LoadMin(v) => vu[v] = "minload" /\ hist' = hist
      /\ LoadMax(v) => vu[v] = "maxload" /\ hist' = hist
      /\ Leave(v) => vu[v] = "idle" /\ hist' = hist
  BY DEF AddN, AddSum, LoadMin, LoadMax, Leave, Goto, k
<1>3. /\ SwapMin(v) => vu[v] = "mincas" /\ hist' = IF hist[k].min = seen[v] THEN [hist EXCEPT ![k] = [hist[k] EXCEPT !.min = Lat(v)]] ELSE hist
      /\ SwapMax(v) => vu[v] = "maxcas" /\ hist' = IF hist[k].max = seen[v] THEN [hist EXCEPT ![k] = [hist[k] EXCEPT !.max = Lat(v)]] ELSE hist
  BY DEF SwapMin, SwapMax, Goto, k
<1>4. \A h \in H : hist' = [hist EXCEPT ![k] = h] =>
          hist' \in [Kinds -> H] /\ hist'[k] = h /\ \A j \in Kinds : j # k => hist'[j] = hist[j]
  <2> HIDE DEF H
  <2> QED BY <1>1
<1>5. CASE AddN(v)
  <2>1. [hist[k] EXCEPT !.n = hist[k].n + 1] \in H
    BY <1>1
  <2>2. ~AddSum(v) /\ ~SwapMin(v) /\ ~SwapMax(v)
    BY <1>2, <1>3, <1>5
  <2>3. hist' \in [Kinds -> H] /\ hist'[k] = [hist[k] EXCEPT !.n = hist[k].n + 1] /\ \A j \in Kinds : j # k => hist'[j] = hist[j]
    <3> HIDE DEF H
    <3> QED BY <1>2, <1>4, <1>5, <2>1
  <2>4. QED
    BY <1>1, <1>5, <2>2, <2>3 DEF k
<1>6. CASE AddSum(v)
  <2>1. [hist[k] EXCEPT !.sum = hist[k].sum + Lat(v)] \in H
    BY <1>1
  <2>2. ~AddN(v) /\ ~SwapMin(v) /\ ~SwapMax(v)
    BY <1>2, <1>3, <1>6
  <2>3. hist' \in [Kinds -> H] /\ hist'[k] = [hist[k] EXCEPT !.sum = hist[k].sum + Lat(v)] /\ \A j \in Kinds : j # k => hist'[j] = hist[j]
    <3> HIDE DEF H
    <3> QED BY <1>2, <1>4, <1>6, <2>1
  <2>4. QED
    BY <1>1, <1>6, <2>2, <2>3 DEF k
<1>7. CASE SwapMin(v) /\ hist[k].min = seen[v]
  <2>1. [hist[k] EXCEPT !.min = Lat(v)] \in H
    BY <1>1
  <2>2. ~AddN(v) /\ ~AddSum(v) /\ ~SwapMax(v)
    BY <1>2, <1>3, <1>7
  <2>3. hist' \in [Kinds -> H] /\ hist'[k] = [hist[k] EXCEPT !.min = Lat(v)] /\ \A j \in Kinds : j # k => hist'[j] = hist[j]
    <3> HIDE DEF H
    <3> QED BY <1>3, <1>4, <1>7, <2>1
  <2>4. QED
    BY <1>1, <1>7, <2>2, <2>3 DEF k
<1>8. CASE SwapMax(v) /\ hist[k].max = seen[v]
  <2>1. [hist[k] EXCEPT !.max = Lat(v)] \in H
    BY <1>1
  <2>2. ~AddN(v) /\ ~AddSum(v) /\ ~SwapMin(v)
    BY <1>2, <1>3, <1>8
  <2>3. hist' \in [Kinds -> H] /\ hist'[k] = [hist[k] EXCEPT !.max = Lat(v)] /\ \A j \in Kinds : j # k => hist'[j] = hist[j]
    <3> HIDE DEF H
    <3> QED BY <1>3, <1>4, <1>8, <2>1
  <2>4. QED
    BY <1>1, <1>8, <2>2, <2>3 DEF k
<1>9. CASE /\ ~AddN(v) /\ ~AddSum(v)
           /\ ~(SwapMin(v) /\ hist[k].min = seen[v]) /\ ~(SwapMax(v) /\ hist[k].max = seen[v])
  <2>1. hist' = hist
    BY <1>2, <1>3, <1>9 DEF Recording
  <2>2. QED
    BY <1>1, <1>9, <2>1 DEF k
<1>10. QED
  BY <1>5, <1>6, <1>7, <1>8, <1>9

-----------------------------------------------------------------------------
(* Every step keeps the types *)

LEMMA BeginsTypes ==
    ASSUME TypeOK, NEW v \in Sharers, NEW kind \in Kinds, NEW lat \in Latencies, Begins(v, kind, lat)
    PROVE  TypeOK'
<1>1. hist' \in [Kinds -> [counts : [Buckets -> Nat], n : Nat, sum : Nat, min : Nat, max : Nat]]
  BY BeginsHist
<1>2. recordings' \in [Kinds -> [Latencies -> Nat]]
  BY BeginsLog
<1>3. vu' \in [Sharers -> Places] /\ UNCHANGED <<seen, samVars>>
  BY BeginsMoves DEF OneMoves
<1>4. req' \in [Sharers -> [kind : Kinds, lat : Latencies \cup {0}]]
  <2>1. req' = [req EXCEPT ![v] = [kind |-> kind, lat |-> lat]]
    BY Zenon DEF Begins
  <2>2. QED
    BY <2>1 DEF TypeOK
<1>5. QED
  BY <1>1, <1>2, <1>3, <1>4, Zenon DEF TypeOK, samVars

LEMMA RecordingTypes ==
    ASSUME TypeOK, NEW v \in Sharers, Recording(v) \/ Leave(v)
    PROVE  TypeOK'
<1>1. hist' \in [Kinds -> [counts : [Buckets -> Nat], n : Nat, sum : Nat, min : Nat, max : Nat]]
  BY RecordingHist, Zenon
<1>2. vu' \in [Sharers -> Places] /\ UNCHANGED <<req, recordings, samVars>>
  BY RecordingMoves DEF OneMoves
<1>3. seen' \in [Sharers -> Nat]
  <2>1. seen \in [Sharers -> Nat] /\ hist[Kind(v)].min \in Nat /\ hist[Kind(v)].max \in Nat
    BY ReqTyped, HistTyped DEF TypeOK
  <2>2. \/ seen' = seen \/ seen' = [seen EXCEPT ![v] = hist[Kind(v)].min]
        \/ seen' = [seen EXCEPT ![v] = hist[Kind(v)].max]
    BY DEF Recording, AddN, AddSum, LoadMin, SwapMin, LoadMax, SwapMax, Leave
  <2>3. QED
    BY <2>1, <2>2
<1>4. QED
  BY <1>1, <1>2, <1>3, Zenon DEF TypeOK, samVars

\* The sampler begins a sample.
LEMMA BeginSampleTypes ==
    ASSUME TypeOK, TickSample \/ LastSample
    PROVE  TypeOK'
<1>1. PICK state \in Reading : BeginSample(state)
  BY DEF TickSample, LastSample, Reading
<1>2. /\ spc' = state /\ pos' = 1 /\ cur' = [b \in Buckets |-> 0] /\ curFailed' = 0
      /\ UNCHANGED <<hist, vuVars, prev, prevFailed, points>>
  BY <1>1 DEF BeginSample
<1>3. pos' \in 1..(NumLoads + 1) /\ cur' \in [Buckets -> Nat] /\ curFailed' \in Nat
  BY <1>2, BucketFacts DEF NumLoads
<1>4. spc' \in {"wait", "done"} \cup Reading
  BY <1>2
<1>5. QED
  BY <1>2, <1>3, <1>4, Zenon DEF TypeOK, vuVars

\* What a load reads: a bucket of ok, a bucket of failed, or failed.n.
LoadsOk(b)     == pos = b + 1 /\ cur' = [cur EXCEPT ![b] = @ + hist["ok"].counts[b]] /\ UNCHANGED curFailed
LoadsFailed(b) == pos = numBuckets + b + 1 /\ cur' = [cur EXCEPT ![b] = @ + hist["failed"].counts[b]] /\ UNCHANGED curFailed
LoadsN         == pos = NumLoads /\ curFailed' = curFailed + hist["failed"].n /\ UNCHANGED cur

LEMMA Remainder ==
    ASSUME NEW n \in Nat \ {0}, NEW p \in 1..(2 * n)
    PROVE  /\ p <= n => (p - 1) % n = p - 1
           /\ p > n => (p - 1) % n = p - 1 - n
  BY SMT

LEMMA LoadReads ==
    ASSUME TypeOK, Load
    PROVE  /\ spc \in Reading /\ pos <= NumLoads /\ pos' = pos + 1
           /\ UNCHANGED <<hist, vuVars, spc, prev, prevFailed, points>>
           /\ (\E b \in Buckets : LoadsOk(b) \/ LoadsFailed(b)) \/ LoadsN
<1>1. spc \in Reading /\ pos <= NumLoads /\ pos' = pos + 1 /\ UNCHANGED <<hist, vuVars, spc, prev, prevFailed, points>>
  BY DEF Load, Reading
<1>2. pos \in 1..(NumLoads + 1) /\ numBuckets \in Nat \ {0} /\ NumLoads = 2 * numBuckets + 1
  BY BucketFacts DEF TypeOK, NumLoads
<1>3. CASE pos <= numBuckets
  <2> DEFINE b == pos - 1
  <2>1. b \in Buckets /\ pos \in 1..(2 * numBuckets) /\ pos <= 2 * numBuckets /\ pos = b + 1
    BY <1>2, <1>3 DEF Buckets
  <2>2. (pos - 1) % numBuckets = b
    BY <1>2, <1>3, <2>1, Remainder
  <2>3. cur' = [cur EXCEPT ![b] = @ + hist["ok"].counts[b]] /\ UNCHANGED curFailed
    <3> HIDE DEF b
    <3> QED BY <1>3, <2>1, <2>2, Zenon DEF Load
  <2>4. LoadsOk(b)
    BY <2>1, <2>3, Zenon DEF LoadsOk
  <2>5. QED
    BY <1>1, <2>1, <2>4, Zenon
<1>4. CASE pos > numBuckets /\ pos <= 2 * numBuckets
  <2> DEFINE b == pos - 1 - numBuckets
  <2>1. b \in Buckets /\ pos \in 1..(2 * numBuckets) /\ pos = numBuckets + b + 1 /\ ~(pos <= numBuckets)
    BY <1>2, <1>4 DEF Buckets
  <2>2. (pos - 1) % numBuckets = b
    BY <1>2, <1>4, <2>1, Remainder
  <2>3. cur' = [cur EXCEPT ![b] = @ + hist["failed"].counts[b]] /\ UNCHANGED curFailed
    <3> HIDE DEF b
    <3> QED BY <1>4, <2>1, <2>2, Zenon DEF Load
  <2>4. LoadsFailed(b)
    BY <2>1, <2>3, Zenon DEF LoadsFailed
  <2>5. QED
    BY <1>1, <2>1, <2>4, Zenon
<1>5. CASE ~(pos <= 2 * numBuckets)
  <2>1. pos = NumLoads
    BY <1>1, <1>2, <1>5
  <2>2. curFailed' = curFailed + hist["failed"].n /\ UNCHANGED cur
    BY <1>5, Zenon DEF Load
  <2>3. QED
    BY <1>1, <2>1, <2>2, Zenon DEF LoadsN
<1>6. QED
  BY <1>2, <1>3, <1>4, <1>5

LEMMA LoadTypes ==
    ASSUME TypeOK, Load
    PROVE  TypeOK'
<1>1. /\ pos <= NumLoads /\ pos' = pos + 1 /\ UNCHANGED <<hist, vuVars, spc, prev, prevFailed, points>>
      /\ (\E b \in Buckets : LoadsOk(b) \/ LoadsFailed(b)) \/ LoadsN
  BY LoadReads
<1>2. pos' \in 1..(NumLoads + 1)
  BY <1>1, BucketFacts DEF TypeOK, NumLoads
<1>3. /\ \A k \in Kinds : \A b \in Buckets : hist[k].counts[b] \in Nat
      /\ hist["failed"].n \in Nat /\ "ok" \in Kinds /\ "failed" \in Kinds
      /\ cur \in [Buckets -> Nat] /\ curFailed \in Nat
  BY HistTyped DEF TypeOK, Kinds
<1>4. cur' \in [Buckets -> Nat] /\ curFailed' \in Nat
  <2>1. ASSUME NEW b \in Buckets, LoadsOk(b) PROVE cur' \in [Buckets -> Nat] /\ curFailed' \in Nat
    <3>1. cur[b] + hist["ok"].counts[b] \in Nat
      BY <1>3
    <3>2. QED
      BY <1>3, <2>1, <3>1 DEF LoadsOk
  <2>2. ASSUME NEW b \in Buckets, LoadsFailed(b) PROVE cur' \in [Buckets -> Nat] /\ curFailed' \in Nat
    <3>1. cur[b] + hist["failed"].counts[b] \in Nat
      BY <1>3
    <3>2. QED
      BY <1>3, <2>2, <3>1 DEF LoadsFailed
  <2>3. CASE LoadsN
    BY <1>3, <2>3 DEF LoadsN
  <2>4. QED
    BY <1>1, <2>1, <2>2, <2>3
<1>5. QED
  BY <1>1, <1>2, <1>4, Zenon DEF TypeOK, vuVars

\* The point EmitPoint appends.
LEMMA Emitted ==
    ASSUME TypeOK, ReadInv, EmitPoint
    PROVE  /\ spc \in Reading /\ pos > NumLoads /\ prev' = cur /\ UNCHANGED <<hist, vuVars, pos, cur, curFailed>>
           /\ spc' = IF spc = "readlast" THEN "done" ELSE "wait"
           /\ \A b \in Buckets : prev[b] <= cur[b] /\ cur[b] <= Both(b)
           /\ prevFailed <= curFailed /\ curFailed <= hist["failed"].n
           /\ Delta \in Nat /\ Delta = SumFunction(cur) - SumFunction(prev)
           /\ \E failed \in Nat : /\ failed <= Delta /\ failed <= curFailed - prevFailed
                                  /\ points' = Append(points, [requests |-> Delta, failed |-> failed])
                                  /\ prevFailed' = prevFailed + failed
<1>1. /\ spc \in Reading /\ pos > NumLoads /\ prev' = cur /\ UNCHANGED <<hist, vuVars, pos, cur, curFailed>>
      /\ spc' = IF spc = "readlast" THEN "done" ELSE "wait"
  BY DEF EmitPoint, Reading
<1>2. /\ \A b \in Buckets : prev[b] <= cur[b] /\ cur[b] <= Both(b)
      /\ prevFailed <= curFailed /\ curFailed <= hist["failed"].n
  <2>1. \A b \in Buckets : FailedLoaded(b)
    BY <1>1, BucketFacts DEF FailedLoaded, NumLoads, TypeOK
  <2>2. QED
    BY <1>1, <2>1 DEF ReadInv
<1>3. cur \in [Buckets -> Nat] /\ prev \in [Buckets -> Nat] /\ curFailed \in Nat /\ prevFailed \in Nat /\ IsFiniteSet(Buckets)
  BY BucketFacts DEF TypeOK
<1>4. Delta \in Nat
  <2> DEFINE d == [b \in Buckets |-> cur[b] - prev[b]]
  <2>1. \A b \in Buckets : cur[b] - prev[b] \in Nat
    BY <1>2, <1>3
  <2>2. d \in [Buckets -> Nat]
    BY <2>1
  <2>3. Delta = SumFunction(d)
    BY DEF Delta
  <2> HIDE DEF d
  <2>4. QED
    BY <1>3, <2>2, <2>3, SumNat
<1>5. Delta = SumFunction(cur) - SumFunction(prev)
  <2>1. cur \in [Buckets -> Int] /\ prev \in [Buckets -> Int]
    BY <1>3
  <2>2. QED
    BY <1>3, <2>1, SumDiff DEF Delta
<1> DEFINE failed == Min({curFailed - prevFailed, Delta})
<1>6. failed \in Nat /\ failed <= Delta /\ failed <= curFailed - prevFailed
  <2>1. curFailed - prevFailed \in Nat
    BY <1>2, <1>3
  <2>2. failed \in {curFailed - prevFailed, Delta} /\ failed <= Delta /\ failed <= curFailed - prevFailed
    BY <1>4, <2>1, MinOfTwo
  <2>3. QED
    BY <1>4, <2>1, <2>2
<1>7. points' = Append(points, [requests |-> Delta, failed |-> failed]) /\ prevFailed' = prevFailed + failed
  BY Zenon DEF EmitPoint
<1>8. \E f \in Nat : /\ f <= Delta /\ f <= curFailed - prevFailed
                     /\ points' = Append(points, [requests |-> Delta, failed |-> f])
                     /\ prevFailed' = prevFailed + f
  <2> HIDE DEF failed
  <2> QED BY <1>6, <1>7, Zenon
<1>9. QED
  BY <1>1, <1>2, <1>4, <1>5, <1>8, Zenon

LEMMA EmitTypes ==
    ASSUME TypeOK, ReadInv, EmitPoint
    PROVE  TypeOK'
<1>1. /\ spc \in Reading /\ prev' = cur /\ UNCHANGED <<hist, vuVars, pos, cur, curFailed>>
      /\ spc' = IF spc = "readlast" THEN "done" ELSE "wait"
  BY Emitted, Zenon
<1>2. PICK failed \in Nat : /\ points' = Append(points, [requests |-> Delta, failed |-> failed])
                            /\ prevFailed' = prevFailed + failed
  BY Emitted, Zenon
<1>3. Delta \in Nat
  BY Emitted, Zenon
<1>4. points' \in Seq([requests : Nat, failed : Nat])
  <2> DEFINE R == [requests : Nat, failed : Nat]
             pt == [requests |-> Delta, failed |-> failed]
  <2>1. points \in Seq(R) /\ pt \in R /\ points' = Append(points, pt)
    BY <1>2, <1>3 DEF TypeOK
  <2> HIDE DEF R, pt
  <2>2. points' \in Seq(R)
    BY <2>1, AppendProperties
  <2>3. QED
    BY <2>2 DEF R
<1>5. prevFailed' \in Nat /\ prev' \in [Buckets -> Nat]
  BY <1>1, <1>2 DEF TypeOK
<1>6. spc' \in {"wait", "done"} \cup Reading
  BY <1>1
<1>7. QED
  BY <1>1, <1>4, <1>5, <1>6, Zenon DEF TypeOK, vuVars

-----------------------------------------------------------------------------
(* Every step keeps the histograms exact, up to what is owed *)

\* Where a step of record leads.
LEMMA RecordingPlaces ==
    ASSUME TypeOK, NEW v \in Sharers, Recording(v) \/ Leave(v)
    PROVE  /\ (AddN(v) <=> vu[v] = "n") /\ (AddSum(v) <=> vu[v] = "sum")
           /\ (SwapMin(v) <=> vu[v] = "mincas") /\ (SwapMax(v) <=> vu[v] = "maxcas")
           /\ vu[v] = "n" => vu'[v] = "sum"
           /\ vu[v] = "sum" => vu'[v] = "minload"
           /\ vu[v] = "minload" => /\ seen'[v] = hist[Kind(v)].min
                                   /\ \/ vu'[v] = "mincas" /\ Lat(v) < hist[Kind(v)].min
                                      \/ vu'[v] = "maxload" /\ hist[Kind(v)].min <= Lat(v)
           /\ vu[v] = "mincas" => IF hist[Kind(v)].min = seen[v] THEN vu'[v] = "maxload" ELSE vu'[v] = "minload"
           /\ vu[v] = "maxload" => /\ seen'[v] = hist[Kind(v)].max
                                   /\ \/ vu'[v] = "maxcas" /\ hist[Kind(v)].max < Lat(v)
                                      \/ vu'[v] = "idle" /\ Lat(v) <= hist[Kind(v)].max
           /\ vu[v] = "maxcas" => IF hist[Kind(v)].max = seen[v] THEN vu'[v] = "idle" ELSE vu'[v] = "maxload"
           /\ vu[v] = "idle" => vu'[v] = "gone"
           /\ vu[v] # "gone"
           /\ \A w \in Sharers : w # v => seen'[w] = seen[w]
<1>1. v \in DOMAIN vu /\ v \in DOMAIN seen /\ Lat(v) \in Nat /\ hist[Kind(v)].min \in Nat /\ hist[Kind(v)].max \in Nat
  BY ReqTyped, HistTyped DEF TypeOK
<1>2. CASE AddN(v)
  BY <1>1, <1>2 DEF AddN, AddSum, SwapMin, SwapMax, Goto
<1>3. CASE AddSum(v)
  BY <1>1, <1>3 DEF AddN, AddSum, SwapMin, SwapMax, Goto
<1>4. CASE LoadMin(v)
  BY <1>1, <1>4 DEF AddN, AddSum, LoadMin, SwapMin, SwapMax, Goto
<1>5. CASE SwapMin(v)
  BY <1>1, <1>5 DEF AddN, AddSum, SwapMin, SwapMax, Goto
<1>6. CASE LoadMax(v)
  BY <1>1, <1>6 DEF AddN, AddSum, LoadMax, SwapMin, SwapMax, Goto
<1>7. CASE SwapMax(v)
  BY <1>1, <1>7 DEF AddN, AddSum, SwapMin, SwapMax, Goto
<1>8. CASE Leave(v)
  BY <1>1, <1>8 DEF AddN, AddSum, SwapMin, SwapMax, Leave, Goto
<1>9. QED
  BY <1>2, <1>3, <1>4, <1>5, <1>6, <1>7, <1>8 DEF Recording

\* A step that leaves the VUs and the histograms alone.
LEMMA RecordSame ==
    ASSUME RecordInv, UNCHANGED <<hist, vuVars>>
    PROVE  RecordInv'
<1>1. hist' = hist /\ vu' = vu /\ req' = req /\ seen' = seen /\ recordings' = recordings
  BY DEF vuVars
<1>2. \A k \in Kinds : /\ Recorded(k)' = Recorded(k) /\ LatsOf(k)' = LatsOf(k)
                       /\ OwedN(k)' = OwedN(k) /\ OwedSum(k)' = OwedSum(k)
                       /\ Spent(k)' = Spent(k) /\ \A b : InBucket(k, b)' = InBucket(k, b)
  BY <1>1 DEF Recorded, LatsOf, OwedN, OwedSum, Spent, InBucket, Kind, Lat
<1>3. NInv' /\ SumInv' /\ CountsInv'
  <2>1. NInv'
    BY <1>1, <1>2, Zenon DEF RecordInv, NInv
  <2>2. SumInv'
    BY <1>1, <1>2, Zenon DEF RecordInv, SumInv
  <2>3. ASSUME NEW k \in Kinds
        PROVE  /\ \A b \in Buckets : hist'[k].counts[b] = SumFunction(InBucket(k, b)')
               /\ SumFunction(hist'[k].counts) = Recorded(k)'
    BY <1>1, <1>2, Zenon DEF RecordInv, CountsInv
  <2>4. CountsInv'
    BY <2>3 DEF CountsInv
  <2>5. QED
    BY <2>1, <2>2, <2>4
<1>4. LogInv'
  BY <1>1 DEF RecordInv, LogInv, Kind, Lat
<1>5. MinInv'
  BY <1>1, <1>2 DEF RecordInv, MinInv, Kind, Lat
<1>6. MaxInv'
  BY <1>1, <1>2 DEF RecordInv, MaxInv, Kind, Lat
<1>7. QED
  BY <1>3, <1>4, <1>5, <1>6 DEF RecordInv

LEMMA BeginsN ==
    ASSUME TypeOK, TypeOK', NInv, NEW v \in Sharers, NEW kind \in Kinds, NEW lat \in Latencies, Begins(v, kind, lat)
    PROVE  NInv'
<1>1. SUFFICES ASSUME NEW k \in Kinds PROVE hist'[k].n + SumFunction(OwedN(k)') = Recorded(k)'
  BY DEF NInv
<1>2. vu[v] = "idle" /\ vu'[v] = "n" /\ Kind(v)' = kind /\ OneMoves(v)
  BY BeginsMoves DEF Begins
<1>3. OwedN(k)[v] = 0 /\ OwedN(k)'[v] = IF k = kind THEN 1 ELSE 0
  BY <1>2 DEF OwedN
<1>4. SumFunction(OwedN(k)') = SumFunction(OwedN(k)) + (IF k = kind THEN 1 ELSE 0)
  <2>1. SumFunction(OwedN(k)') = SumFunction(OwedN(k)) - OwedN(k)[v] + OwedN(k)'[v]
    BY <1>2, OwedChange
  <2>2. SumFunction(OwedN(k)) \in Int
    BY OwedTyped
  <2>3. QED
    BY <1>3, <2>1, <2>2
<1>5. hist'[k].n = hist[k].n
  BY BeginsHist
<1>6. Recorded(k)' = Recorded(k) + (IF k = kind THEN 1 ELSE 0)
  <2>1. k = kind => Recorded(k)' = Recorded(k) + 1
    BY BeginsSums
  <2>2. k # kind => Recorded(k)' = Recorded(k)
    BY BeginsSums
  <2>3. Recorded(k) \in Int
    BY LogSums
  <2>4. QED
    BY <2>1, <2>2, <2>3
<1>7. hist[k].n + SumFunction(OwedN(k)) = Recorded(k) /\ hist[k].n \in Int /\ SumFunction(OwedN(k)) \in Int /\ Recorded(k) \in Int
  BY HistTyped, OwedTyped, LogSums DEF NInv
<1>8. QED
  BY <1>4, <1>5, <1>6, <1>7

LEMMA RecordingN ==
    ASSUME TypeOK, TypeOK', NInv, NEW v \in Sharers, Recording(v) \/ Leave(v)
    PROVE  NInv'
<1>1. SUFFICES ASSUME NEW k \in Kinds PROVE hist'[k].n + SumFunction(OwedN(k)') = Recorded(k)'
  BY DEF NInv
<1>2. OneMoves(v) /\ recordings' = recordings /\ Kind(v)' = Kind(v)
  BY RecordingMoves
<1>3. vu'[v] # "n"
  BY ReqTyped, RecordingPlaces DEF Places
<1>4. OwedN(k)[v] = (IF vu[v] = "n" /\ Kind(v) = k THEN 1 ELSE 0) /\ OwedN(k)'[v] = 0
  BY <1>3 DEF OwedN
<1>5. hist'[k].n = hist[k].n + (IF vu[v] = "n" /\ Kind(v) = k THEN 1 ELSE 0)
  <2>1. k # Kind(v) => hist'[k] = hist[k]
    BY RecordingHist, Zenon
  <2>2. k = Kind(v) => hist'[k].n = IF AddN(v) THEN hist[k].n + 1 ELSE hist[k].n
    BY RecordingHist, Zenon
  <2>3. AddN(v) <=> vu[v] = "n"
    BY RecordingPlaces, Zenon
  <2>4. k = Kind(v) => hist'[k].n = IF vu[v] = "n" THEN hist[k].n + 1 ELSE hist[k].n
    BY <2>2, <2>3, Zenon
  <2>5. hist[k].n \in Nat
    BY HistTyped
  <2>6. QED
    BY <2>1, <2>4, <2>5
<1>6. SumFunction(OwedN(k)') = SumFunction(OwedN(k)) - OwedN(k)[v] + OwedN(k)'[v]
  BY <1>2, OwedChange
<1>7. Recorded(k)' = Recorded(k)
  BY <1>2 DEF Recorded
<1>8. hist[k].n + SumFunction(OwedN(k)) = Recorded(k) /\ hist[k].n \in Int /\ SumFunction(OwedN(k)) \in Int /\ Recorded(k) \in Int
  BY HistTyped, OwedTyped, LogSums DEF NInv
<1>9. QED
  BY <1>4, <1>5, <1>6, <1>7, <1>8

LEMMA BeginsSum ==
    ASSUME TypeOK, TypeOK', SumInv, NEW v \in Sharers, NEW kind \in Kinds, NEW lat \in Latencies, Begins(v, kind, lat)
    PROVE  SumInv'
<1>1. SUFFICES ASSUME NEW k \in Kinds PROVE hist'[k].sum + SumFunction(OwedSum(k)') = SumFunction(Spent(k)')
  BY DEF SumInv
<1>2. vu[v] = "idle" /\ vu'[v] = "n" /\ Kind(v)' = kind /\ Lat(v)' = lat /\ OneMoves(v)
  BY BeginsMoves DEF Begins
<1>3. OwedSum(k)[v] = 0 /\ OwedSum(k)'[v] = IF k = kind THEN lat ELSE 0
  BY <1>2 DEF OwedSum
<1>4. SumFunction(OwedSum(k)') = SumFunction(OwedSum(k)) + (IF k = kind THEN lat ELSE 0)
  <2>1. SumFunction(OwedSum(k)') = SumFunction(OwedSum(k)) - OwedSum(k)[v] + OwedSum(k)'[v]
    BY <1>2, OwedChange
  <2>2. SumFunction(OwedSum(k)) \in Int
    BY OwedTyped
  <2>3. QED
    BY <1>3, <2>1, <2>2
<1>5. hist'[k].sum = hist[k].sum
  BY BeginsHist
<1>6. SumFunction(Spent(k)') = SumFunction(Spent(k)) + (IF k = kind THEN lat ELSE 0)
  <2>1. k = kind => SumFunction(Spent(k)') = SumFunction(Spent(k)) + lat
    BY BeginsSums
  <2>2. k # kind => Spent(k)' = Spent(k)
    BY BeginsSums
  <2>3. SumFunction(Spent(k)) \in Int
    BY LogSums
  <2>4. QED
    BY <2>1, <2>2, <2>3
<1>7. hist[k].sum + SumFunction(OwedSum(k)) = SumFunction(Spent(k)) /\ hist[k].sum \in Int /\ SumFunction(OwedSum(k)) \in Int
  BY HistTyped, OwedTyped DEF SumInv
<1>8. lat \in Nat
  BY BucketFacts
<1>9. QED
  BY <1>4, <1>5, <1>6, <1>7, <1>8

LEMMA RecordingSum ==
    ASSUME TypeOK, TypeOK', SumInv, NEW v \in Sharers, Recording(v) \/ Leave(v)
    PROVE  SumInv'
<1>1. SUFFICES ASSUME NEW k \in Kinds PROVE hist'[k].sum + SumFunction(OwedSum(k)') = SumFunction(Spent(k)')
  BY DEF SumInv
<1>2. OneMoves(v) /\ recordings' = recordings /\ Kind(v)' = Kind(v) /\ Lat(v)' = Lat(v) /\ Lat(v) \in Nat
  BY RecordingMoves, ReqTyped
<1>3. vu'[v] # "n" /\ (vu'[v] = "sum" <=> vu[v] = "n")
  BY ReqTyped, RecordingPlaces DEF Places
<1>4. /\ OwedSum(k)[v] = IF vu[v] \in {"n", "sum"} /\ Kind(v) = k THEN Lat(v) ELSE 0
      /\ OwedSum(k)'[v] = IF vu[v] = "n" /\ Kind(v) = k THEN Lat(v) ELSE 0
  BY <1>2, <1>3 DEF OwedSum
<1>5. hist'[k].sum = hist[k].sum + (IF vu[v] = "sum" /\ Kind(v) = k THEN Lat(v) ELSE 0)
  <2>1. k # Kind(v) => hist'[k] = hist[k]
    BY RecordingHist, Zenon
  <2>2. k = Kind(v) => hist'[k].sum = IF AddSum(v) THEN hist[k].sum + Lat(v) ELSE hist[k].sum
    BY RecordingHist, Zenon
  <2>3. AddSum(v) <=> vu[v] = "sum"
    BY RecordingPlaces, Zenon
  <2>4. k = Kind(v) => hist'[k].sum = IF vu[v] = "sum" THEN hist[k].sum + Lat(v) ELSE hist[k].sum
    BY <2>2, <2>3, Zenon
  <2>5. hist[k].sum \in Nat
    BY HistTyped
  <2>6. QED
    BY <2>1, <2>4, <2>5
<1>6. SumFunction(OwedSum(k)') = SumFunction(OwedSum(k)) - OwedSum(k)[v] + OwedSum(k)'[v]
  BY <1>2, OwedChange
<1>7. Spent(k)' = Spent(k)
  BY <1>2 DEF Spent
<1>8. hist[k].sum + SumFunction(OwedSum(k)) = SumFunction(Spent(k)) /\ hist[k].sum \in Int /\ SumFunction(OwedSum(k)) \in Int
  BY HistTyped, OwedTyped DEF SumInv
<1> DEFINE a == SumFunction(OwedSum(k))
           a1 == SumFunction(OwedSum(k)')
           s == SumFunction(Spent(k))
<1>9. a1 = a - OwedSum(k)[v] + OwedSum(k)'[v] /\ hist[k].sum + a = s /\ a \in Int /\ SumFunction(Spent(k)') = s
  BY <1>6, <1>7, <1>8
<1> HIDE DEF a, a1, s
<1>10. hist'[k].sum + a1 = s
  <2>1. CASE vu[v] = "sum" /\ Kind(v) = k
    BY <1>2, <1>4, <1>5, <1>8, <1>9, <2>1
  <2>2. CASE ~(vu[v] = "sum" /\ Kind(v) = k)
    BY <1>2, <1>4, <1>5, <1>8, <1>9, <2>2
  <2>3. QED
    BY <2>1, <2>2
<1>11. QED
  BY <1>9, <1>10 DEF a1, s

LEMMA BeginsCounts ==
    ASSUME TypeOK, TypeOK', CountsInv, NEW v \in Sharers, NEW kind \in Kinds, NEW lat \in Latencies, Begins(v, kind, lat)
    PROVE  CountsInv'
<1> DEFINE b0 == BucketOf(lat)
<1>1. b0 \in Buckets /\ IsFiniteSet(Buckets)
  BY BucketFacts
<1>2. /\ \A k \in Kinds : k # kind => hist'[k] = hist[k]
      /\ hist'[kind].counts = [hist[kind].counts EXCEPT ![b0] = @ + 1]
  BY BeginsHist
<1>3. /\ Recorded(kind)' = Recorded(kind) + 1
      /\ SumFunction(InBucket(kind, b0)') = SumFunction(InBucket(kind, b0)) + 1
      /\ \A b : b # b0 => InBucket(kind, b)' = InBucket(kind, b)
      /\ \A k \in Kinds : k # kind => Recorded(k)' = Recorded(k) /\ \A b : InBucket(k, b)' = InBucket(k, b)
  BY BeginsSums
<1> HIDE DEF b0
<1>4. ASSUME NEW k \in Kinds, k # kind
      PROVE  /\ \A b \in Buckets : hist'[k].counts[b] = SumFunction(InBucket(k, b)')
             /\ SumFunction(hist'[k].counts) = Recorded(k)'
  <2>1. hist'[k] = hist[k] /\ Recorded(k)' = Recorded(k) /\ \A b : InBucket(k, b)' = InBucket(k, b)
    BY <1>2, <1>3, <1>4, Zenon
  <2>2. QED
    BY <2>1, Zenon DEF CountsInv
<1>5. /\ \A b \in Buckets : hist'[kind].counts[b] = SumFunction(InBucket(kind, b)')
      /\ SumFunction(hist'[kind].counts) = Recorded(kind)'
  <2> DEFINE f == hist[kind].counts
             g == hist'[kind].counts
  <2>1. f \in [Buckets -> Nat] /\ \A b \in Buckets : f[b] \in Nat
    BY HistTyped
  <2>2. g = [f EXCEPT ![b0] = f[b0] + 1]
    BY <1>2
  <2>3. \A b \in Buckets : f[b] = SumFunction(InBucket(kind, b))
    BY DEF CountsInv
  <2>3a. SumFunction(f) = Recorded(kind)
    BY DEF CountsInv
  <2> HIDE DEF f, g
  <2>4. g \in [Buckets -> Int] /\ f \in [Buckets -> Int] /\ g[b0] = f[b0] + 1 /\ \A b \in Buckets : b # b0 => g[b] = f[b]
    BY <1>1, <2>1, <2>2
  <2>5. SumFunction(g) = SumFunction(f) - f[b0] + g[b0]
    <3>1. \A p \in [Buckets -> Int] : \A q \in [Buckets -> Int] :
             (\A b \in Buckets : b # b0 => q[b] = p[b]) => SumFunction(q) = SumFunction(p) - p[b0] + q[b0]
      BY <1>1, SumChange, Zenon
    <3>2. QED
      BY <2>4, <3>1
  <2>6. Recorded(kind) \in Int /\ f[b0] \in Int
    BY <1>1, <2>1, LogSums
  <2>7. SumFunction(g) = Recorded(kind)'
    BY <1>3, <2>3a, <2>4, <2>5, <2>6
  <2>8. ASSUME NEW b \in Buckets PROVE g[b] = SumFunction(InBucket(kind, b)')
    <3>1. CASE b = b0
      BY <1>3, <2>3, <2>4, <3>1
    <3>2. CASE b # b0
      <4>1. InBucket(kind, b)' = InBucket(kind, b)
        BY <1>3, <3>2
      <4>2. QED
        BY <2>3, <2>4, <3>2, <4>1
    <3>3. QED
      BY <3>1, <3>2
  <2>9. QED
    BY <2>7, <2>8 DEF g
<1>6. QED
  BY <1>4, <1>5 DEF CountsInv

LEMMA RecordingCounts ==
    ASSUME TypeOK, CountsInv, NEW v \in Sharers, Recording(v) \/ Leave(v)
    PROVE  CountsInv'
<1>1. recordings' = recordings
  BY RecordingMoves
<1>2. \A k \in Kinds : hist'[k].counts = hist[k].counts
  BY RecordingHist, Zenon
<1>3. ASSUME NEW k \in Kinds
      PROVE  /\ \A b \in Buckets : hist'[k].counts[b] = SumFunction(InBucket(k, b)')
             /\ SumFunction(hist'[k].counts) = Recorded(k)'
  <2>1. Recorded(k)' = Recorded(k) /\ \A b : InBucket(k, b)' = InBucket(k, b)
    BY <1>1 DEF Recorded, InBucket
  <2>2. QED
    BY <1>2, <2>1, Zenon DEF CountsInv
<1>4. QED
  BY <1>3 DEF CountsInv

LEMMA BeginsLogged ==
    ASSUME TypeOK, LogInv, NEW v \in Sharers, NEW kind \in Kinds, NEW lat \in Latencies, Begins(v, kind, lat)
    PROVE  LogInv' /\ \A k \in Kinds : LatsOf(k) \subseteq LatsOf(k)'
<1>1. /\ recordings'[kind][lat] = recordings[kind][lat] + 1
      /\ \A k \in Kinds, l \in Latencies : k # kind \/ l # lat => recordings'[k][l] = recordings[k][l]
      /\ \A k \in Kinds, l \in Latencies : recordings[k][l] \in Nat
  BY BeginsLog
<1>2. \A k \in Kinds, l \in Latencies : recordings[k][l] > 0 => recordings'[k][l] > 0
  BY <1>1
<1>3. recordings'[kind][lat] > 0
  BY <1>1
<1>4. OneMoves(v) /\ Kind(v)' = kind /\ Lat(v)' = lat
  BY BeginsMoves
<1>5. ASSUME NEW w \in Sharers, vu'[w] \in MaxYet PROVE Lat(w)' \in Latencies /\ recordings'[Kind(w)'][Lat(w)'] > 0
  <2>1. CASE w = v
    BY <1>3, <1>4, <2>1
  <2>2. CASE w # v
    <3>1. vu'[w] = vu[w] /\ Kind(w)' = Kind(w) /\ Lat(w)' = Lat(w) /\ Kind(w) \in Kinds
      BY <1>4, <2>2, ReqTyped DEF OneMoves, Kind, Lat
    <3>2. QED
      BY <1>2, <1>5, <3>1 DEF LogInv
  <2>3. QED
    BY <2>1, <2>2
<1>6. LogInv'
  BY <1>5 DEF LogInv
<1>7. QED
  BY <1>2, <1>6 DEF LatsOf

LEMMA RecordingLogged ==
    ASSUME TypeOK, LogInv, NEW v \in Sharers, Recording(v) \/ Leave(v)
    PROVE  LogInv' /\ \A k \in Kinds : LatsOf(k)' = LatsOf(k)
<1>1. OneMoves(v) /\ recordings' = recordings /\ req' = req
  BY RecordingMoves
<1>2. vu'[v] \in MaxYet => vu[v] \in MaxYet
  BY ReqTyped, RecordingPlaces DEF MaxYet, MinYet, Places
<1>3. \A w \in Sharers : Kind(w)' = Kind(w) /\ Lat(w)' = Lat(w) /\ (vu'[w] \in MaxYet => vu[w] \in MaxYet)
  BY <1>1, <1>2 DEF OneMoves, Kind, Lat
<1>4. LogInv'
  BY <1>1, <1>3 DEF LogInv
<1>5. QED
  BY <1>1, <1>4 DEF LatsOf

LEMMA BeginsMin ==
    ASSUME TypeOK, LogInv, MinInv, NEW v \in Sharers, NEW kind \in Kinds, NEW lat \in Latencies, Begins(v, kind, lat)
    PROVE  MinInv'
<1>1. /\ vu[v] = "idle" /\ vu'[v] = "n" /\ req'[v] = [kind |-> kind, lat |-> lat] /\ seen' = seen
      /\ \A w \in Sharers : w # v => vu'[w] = vu[w] /\ req'[w] = req[w]
  BY BeginsMoves DEF Begins, OneMoves
<1>2. \A k \in Kinds : hist'[k].min = hist[k].min /\ LatsOf(k) \subseteq LatsOf(k)'
  BY BeginsHist, BeginsLogged
<1>3. \A k \in Kinds : \A l \in LatsOf(k)' : l \in LatsOf(k) \/ (k = kind /\ l = lat)
  BY BeginsLog DEF LatsOf
<1>4. ASSUME NEW k \in Kinds PROVE hist'[k].min = Infinity \/ hist'[k].min \in LatsOf(k)'
  BY <1>2 DEF MinInv
<1>5. ASSUME NEW k \in Kinds, NEW l \in LatsOf(k)'
      PROVE  hist'[k].min <= l \/ \E w \in Sharers : vu'[w] \in MinYet /\ req'[w] = [kind |-> k, lat |-> l]
  <2>1. CASE l \in LatsOf(k)
    <3>1. hist[k].min <= l \/ \E w \in Sharers : vu[w] \in MinYet /\ req[w] = [kind |-> k, lat |-> l]
      BY <2>1 DEF MinInv
    <3>2. CASE hist[k].min <= l
      BY <1>2, <3>2
    <3>3. ASSUME NEW w \in Sharers, vu[w] \in MinYet, req[w] = [kind |-> k, lat |-> l]
          PROVE  vu'[w] \in MinYet /\ req'[w] = [kind |-> k, lat |-> l]
      BY <1>1, <3>3 DEF MinYet, MaxYet
    <3>4. QED
      BY <3>1, <3>2, <3>3, Zenon
  <2>2. CASE k = kind /\ l = lat
    <3>1. vu'[v] \in MinYet /\ req'[v] = [kind |-> k, lat |-> l]
      BY <1>1, <2>2 DEF MinYet, MaxYet
    <3>2. QED
      BY <3>1, Zenon
  <2>3. QED
    BY <1>3, <2>1, <2>2, Zenon
<1>6. ASSUME NEW w \in Sharers, vu'[w] = "mincas" PROVE Lat(w)' < seen'[w]
  <2>1. w # v
    BY <1>1, <1>6
  <2>2. vu[w] = "mincas" /\ Lat(w)' = Lat(w)
    BY <1>1, <1>6, <2>1 DEF Lat
  <2>3. QED
    BY <1>1, <2>2 DEF MinInv
<1>7. QED
  BY <1>4, <1>5, <1>6, Zenon DEF MinInv

\* A swap lowers min to the latency of the VU, which is one of those recorded and
\* below the min it had seen; who does not swap has found min low enough.
LEMMA RecordingMin ==
    ASSUME TypeOK, LogInv, MinInv, NEW v \in Sharers, Recording(v) \/ Leave(v)
    PROVE  MinInv'
<1> DEFINE k0 == Kind(v)
           swapped == vu[v] = "mincas" /\ hist[k0].min = seen[v]
<1>1. /\ OneMoves(v) /\ req' = req
      /\ \A w \in Sharers : w # v => vu'[w] = vu[w] /\ seen'[w] = seen[w]
      /\ \A k \in Kinds : LatsOf(k)' = LatsOf(k)
      /\ k0 \in Kinds /\ Lat(v) \in Nat
  BY RecordingMoves, RecordingPlaces, RecordingLogged, ReqTyped DEF OneMoves
<1>2. /\ \A k \in Kinds : k # k0 => hist'[k].min = hist[k].min
      /\ hist'[k0].min = IF swapped THEN Lat(v) ELSE hist[k0].min
  <2>1. \A k \in Kinds : k # k0 => hist'[k] = hist[k]
    BY RecordingHist, Zenon
  <2>2. hist'[k0].min = IF SwapMin(v) /\ hist[k0].min = seen[v] THEN Lat(v) ELSE hist[k0].min
    BY RecordingHist, Zenon
  <2>3. SwapMin(v) <=> vu[v] = "mincas"
    BY RecordingPlaces, Zenon
  <2>4. QED
    BY <2>1, <2>2, <2>3, Zenon
<1>3. swapped => Lat(v) < hist[k0].min /\ Lat(v) \in LatsOf(k0)
  <2>1. vu[v] = "mincas" => vu[v] \in MaxYet
    BY DEF MaxYet, MinYet
  <2>2. QED
    BY <2>1 DEF MinInv, LogInv, LatsOf
<1>4. vu[v] \in MinYet /\ ~(vu'[v] \in MinYet) => swapped \/ hist[k0].min <= Lat(v)
  BY RecordingPlaces DEF MinYet
<1>5. \A k \in Kinds : hist[k].min \in Nat /\ \A l \in LatsOf(k) : l \in Nat
  BY HistTyped, BucketFacts DEF LatsOf
<1> HIDE DEF swapped
<1>6. ASSUME NEW k \in Kinds PROVE hist'[k].min = Infinity \/ hist'[k].min \in LatsOf(k)'
  BY <1>1, <1>2, <1>3 DEF MinInv
<1>7. \A k \in Kinds : hist'[k].min <= hist[k].min /\ hist'[k].min \in Nat
  BY <1>1, <1>2, <1>3, <1>5
<1>8. ASSUME NEW k \in Kinds, NEW l \in LatsOf(k)'
      PROVE  hist'[k].min <= l \/ \E w \in Sharers : vu'[w] \in MinYet /\ req'[w] = [kind |-> k, lat |-> l]
  <2>1. l \in LatsOf(k) /\ l \in Nat
    BY <1>1, <1>5
  <2>2. hist[k].min <= l \/ \E w \in Sharers : vu[w] \in MinYet /\ req[w] = [kind |-> k, lat |-> l]
    BY <2>1 DEF MinInv
  <2>3. CASE hist[k].min <= l
    BY <1>5, <1>7, <2>1, <2>3
  <2>4. ASSUME NEW w \in Sharers, vu[w] \in MinYet, req[w] = [kind |-> k, lat |-> l]
        PROVE  hist'[k].min <= l \/ (vu'[w] \in MinYet /\ req'[w] = [kind |-> k, lat |-> l])
    <3>1. CASE w # v
      BY <1>1, <2>4, <3>1
    <3>2. CASE w = v /\ vu'[v] \in MinYet
      BY <1>1, <2>4, <3>2
    <3>3. CASE w = v /\ ~(vu'[v] \in MinYet)
      <4>1. k = k0 /\ l = Lat(v)
        BY <2>4, <3>3 DEF Kind, Lat
      <4>2. swapped \/ hist[k0].min <= Lat(v)
        BY <1>4, <2>4, <3>3
      <4>3. hist'[k0].min <= Lat(v)
        <5>1. CASE swapped
          BY <1>1, <1>2, <5>1
        <5>2. CASE hist[k0].min <= Lat(v)
          BY <1>1, <1>5, <1>7, <5>2
        <5>3. QED
          BY <4>2, <5>1, <5>2
      <4>4. QED
        BY <4>1, <4>3
    <3>4. QED
      BY <3>1, <3>2, <3>3
  <2>5. QED
    BY <2>2, <2>3, <2>4, Zenon
<1>9. ASSUME NEW w \in Sharers, vu'[w] = "mincas" PROVE Lat(w)' < seen'[w]
  <2>1. Lat(w)' = Lat(w)
    BY <1>1 DEF Lat
  <2>2. CASE w # v
    BY <1>1, <1>9, <2>1, <2>2 DEF MinInv
  <2>3. CASE w = v
    BY <1>9, <2>1, <2>3, ReqTyped, RecordingPlaces DEF Places
  <2>4. QED
    BY <2>2, <2>3
<1>10. QED
  BY <1>6, <1>8, <1>9, Zenon DEF MinInv

LEMMA BeginsMax ==
    ASSUME TypeOK, LogInv, MaxInv, NEW v \in Sharers, NEW kind \in Kinds, NEW lat \in Latencies, Begins(v, kind, lat)
    PROVE  MaxInv'
<1>1. /\ vu[v] = "idle" /\ vu'[v] = "n" /\ req'[v] = [kind |-> kind, lat |-> lat] /\ seen' = seen
      /\ \A w \in Sharers : w # v => vu'[w] = vu[w] /\ req'[w] = req[w]
  BY BeginsMoves DEF Begins, OneMoves
<1>2. \A k \in Kinds : hist'[k].max = hist[k].max /\ LatsOf(k) \subseteq LatsOf(k)'
  BY BeginsHist, BeginsLogged
<1>3. \A k \in Kinds : \A l \in LatsOf(k)' : l \in LatsOf(k) \/ (k = kind /\ l = lat)
  BY BeginsLog DEF LatsOf
<1>4. ASSUME NEW k \in Kinds PROVE hist'[k].max = 0 \/ hist'[k].max \in LatsOf(k)'
  BY <1>2 DEF MaxInv
<1>5. ASSUME NEW k \in Kinds, NEW l \in LatsOf(k)'
      PROVE  l <= hist'[k].max \/ \E w \in Sharers : vu'[w] \in MaxYet /\ req'[w] = [kind |-> k, lat |-> l]
  <2>1. CASE l \in LatsOf(k)
    <3>1. l <= hist[k].max \/ \E w \in Sharers : vu[w] \in MaxYet /\ req[w] = [kind |-> k, lat |-> l]
      BY <2>1 DEF MaxInv
    <3>2. CASE l <= hist[k].max
      BY <1>2, <3>2
    <3>3. ASSUME NEW w \in Sharers, vu[w] \in MaxYet, req[w] = [kind |-> k, lat |-> l]
          PROVE  vu'[w] \in MaxYet /\ req'[w] = [kind |-> k, lat |-> l]
      BY <1>1, <3>3 DEF MaxYet, MinYet
    <3>4. QED
      BY <3>1, <3>2, <3>3, Zenon
  <2>2. CASE k = kind /\ l = lat
    <3>1. vu'[v] \in MaxYet /\ req'[v] = [kind |-> k, lat |-> l]
      BY <1>1, <2>2 DEF MaxYet, MinYet
    <3>2. QED
      BY <3>1, Zenon
  <2>3. QED
    BY <1>3, <2>1, <2>2, Zenon
<1>6. ASSUME NEW w \in Sharers, vu'[w] = "maxcas" PROVE seen'[w] < Lat(w)'
  <2>1. w # v
    BY <1>1, <1>6
  <2>2. vu[w] = "maxcas" /\ Lat(w)' = Lat(w)
    BY <1>1, <1>6, <2>1 DEF Lat
  <2>3. QED
    BY <1>1, <2>2 DEF MaxInv
<1>7. QED
  BY <1>4, <1>5, <1>6, Zenon DEF MaxInv

\* The same for max.
LEMMA RecordingMax ==
    ASSUME TypeOK, LogInv, MaxInv, NEW v \in Sharers, Recording(v) \/ Leave(v)
    PROVE  MaxInv'
<1> DEFINE k0 == Kind(v)
           swapped == vu[v] = "maxcas" /\ hist[k0].max = seen[v]
<1>1. /\ OneMoves(v) /\ req' = req
      /\ \A w \in Sharers : w # v => vu'[w] = vu[w] /\ seen'[w] = seen[w]
      /\ \A k \in Kinds : LatsOf(k)' = LatsOf(k)
      /\ k0 \in Kinds /\ Lat(v) \in Nat
  BY RecordingMoves, RecordingPlaces, RecordingLogged, ReqTyped DEF OneMoves
<1>2. /\ \A k \in Kinds : k # k0 => hist'[k].max = hist[k].max
      /\ hist'[k0].max = IF swapped THEN Lat(v) ELSE hist[k0].max
  <2>1. \A k \in Kinds : k # k0 => hist'[k] = hist[k]
    BY RecordingHist, Zenon
  <2>2. hist'[k0].max = IF SwapMax(v) /\ hist[k0].max = seen[v] THEN Lat(v) ELSE hist[k0].max
    BY RecordingHist, Zenon
  <2>3. SwapMax(v) <=> vu[v] = "maxcas"
    BY RecordingPlaces, Zenon
  <2>4. QED
    BY <2>1, <2>2, <2>3, Zenon
<1>3. swapped => hist[k0].max < Lat(v) /\ Lat(v) \in LatsOf(k0)
  <2>1. vu[v] = "maxcas" => vu[v] \in MaxYet
    BY DEF MaxYet, MinYet
  <2>2. QED
    BY <2>1 DEF MaxInv, LogInv, LatsOf
<1>4. vu[v] \in MaxYet /\ ~(vu'[v] \in MaxYet) => swapped \/ Lat(v) <= hist[k0].max
  BY RecordingPlaces DEF MaxYet, MinYet
<1>5. \A k \in Kinds : hist[k].max \in Nat /\ \A l \in LatsOf(k) : l \in Nat
  BY HistTyped, BucketFacts DEF LatsOf
<1> HIDE DEF swapped
<1>6. ASSUME NEW k \in Kinds PROVE hist'[k].max = 0 \/ hist'[k].max \in LatsOf(k)'
  BY <1>1, <1>2, <1>3 DEF MaxInv
<1>7. \A k \in Kinds : hist[k].max <= hist'[k].max /\ hist'[k].max \in Nat
  BY <1>1, <1>2, <1>3, <1>5
<1>8. ASSUME NEW k \in Kinds, NEW l \in LatsOf(k)'
      PROVE  l <= hist'[k].max \/ \E w \in Sharers : vu'[w] \in MaxYet /\ req'[w] = [kind |-> k, lat |-> l]
  <2>1. l \in LatsOf(k) /\ l \in Nat
    BY <1>1, <1>5
  <2>2. l <= hist[k].max \/ \E w \in Sharers : vu[w] \in MaxYet /\ req[w] = [kind |-> k, lat |-> l]
    BY <2>1 DEF MaxInv
  <2>3. CASE l <= hist[k].max
    BY <1>5, <1>7, <2>1, <2>3
  <2>4. ASSUME NEW w \in Sharers, vu[w] \in MaxYet, req[w] = [kind |-> k, lat |-> l]
        PROVE  l <= hist'[k].max \/ (vu'[w] \in MaxYet /\ req'[w] = [kind |-> k, lat |-> l])
    <3>1. CASE w # v
      BY <1>1, <2>4, <3>1
    <3>2. CASE w = v /\ vu'[v] \in MaxYet
      BY <1>1, <2>4, <3>2
    <3>3. CASE w = v /\ ~(vu'[v] \in MaxYet)
      <4>1. k = k0 /\ l = Lat(v)
        BY <2>4, <3>3 DEF Kind, Lat
      <4>2. swapped \/ Lat(v) <= hist[k0].max
        BY <1>4, <2>4, <3>3
      <4>3. Lat(v) <= hist'[k0].max
        <5>1. CASE swapped
          BY <1>1, <1>2, <5>1
        <5>2. CASE Lat(v) <= hist[k0].max
          BY <1>1, <1>5, <1>7, <5>2
        <5>3. QED
          BY <4>2, <5>1, <5>2
      <4>4. QED
        BY <4>1, <4>3
    <3>4. QED
      BY <3>1, <3>2, <3>3
  <2>5. QED
    BY <2>2, <2>3, <2>4, Zenon
<1>9. ASSUME NEW w \in Sharers, vu'[w] = "maxcas" PROVE seen'[w] < Lat(w)'
  <2>1. Lat(w)' = Lat(w)
    BY <1>1 DEF Lat
  <2>2. CASE w # v
    BY <1>1, <1>9, <2>1, <2>2 DEF MaxInv
  <2>3. CASE w = v
    BY <1>9, <2>1, <2>3, ReqTyped, RecordingPlaces DEF Places
  <2>4. QED
    BY <2>2, <2>3
<1>10. QED
  BY <1>6, <1>8, <1>9, Zenon DEF MaxInv

LEMMA RecordStep ==
    ASSUME TypeOK, TypeOK', RecordInv, NEW v \in Sharers, AddCount(v) \/ Recording(v) \/ Leave(v)
    PROVE  RecordInv'
<1>1. NInv /\ SumInv /\ CountsInv /\ LogInv /\ MinInv /\ MaxInv
  BY DEF RecordInv
<1>2. CASE AddCount(v)
  <2>1. PICK kind \in Kinds, lat \in Latencies : Begins(v, kind, lat)
    BY <1>2, AddCountBegins
  <2>2. NInv' /\ SumInv' /\ CountsInv'
    BY <1>1, <2>1, BeginsN, BeginsSum, BeginsCounts
  <2>3. LogInv' /\ MinInv' /\ MaxInv'
    BY <1>1, <2>1, BeginsLogged, BeginsMin, BeginsMax
  <2>4. QED
    BY <2>2, <2>3 DEF RecordInv
<1>3. CASE Recording(v) \/ Leave(v)
  <2>1. NInv' /\ SumInv' /\ CountsInv'
    BY <1>1, <1>3, RecordingN, RecordingSum, RecordingCounts
  <2>2. LogInv' /\ MinInv' /\ MaxInv'
    BY <1>1, <1>3, RecordingLogged, RecordingMin, RecordingMax
  <2>3. QED
    BY <2>1, <2>2 DEF RecordInv
<1>4. QED
  BY <1>2, <1>3

-----------------------------------------------------------------------------
(* Every step keeps the samples between what was and what is counted *)

\* The counts and n never go down; nobody acts once all are gone.
LEMMA CountsGrow ==
    ASSUME TypeOK, NEW v \in Sharers, AddCount(v) \/ Recording(v) \/ Leave(v)
    PROVE  /\ \A k \in Kinds : /\ hist[k].n <= hist'[k].n
                               /\ \A b \in Buckets : hist[k].counts[b] <= hist'[k].counts[b]
           /\ UNCHANGED samVars /\ ~AllGone
<1>1. \A k \in Kinds : /\ hist[k].n \in Nat /\ hist[k].sum \in Nat
                       /\ \A b \in Buckets : hist[k].counts[b] \in Nat
  BY HistTyped
<1>2. CASE AddCount(v)
  <2>1. PICK kind \in Kinds, lat \in Latencies : Begins(v, kind, lat)
    BY <1>2, AddCountBegins
  <2>2. /\ \A k \in Kinds : k # kind => hist'[k] = hist[k]
        /\ hist'[kind].counts = [hist[kind].counts EXCEPT ![BucketOf(lat)] = @ + 1]
        /\ hist'[kind].n = hist[kind].n
    BY <2>1, BeginsHist
  <2>3. hist[kind].counts \in [Buckets -> Nat]
    BY HistTyped
  <2>4. \A b \in Buckets : hist[kind].counts[b] <= hist'[kind].counts[b]
    <3> DEFINE f == hist[kind].counts
               g == hist'[kind].counts
               b0 == BucketOf(lat)
    <3>1. g = [f EXCEPT ![b0] = f[b0] + 1] /\ f \in [Buckets -> Nat]
      BY <2>2, <2>3
    <3> HIDE DEF f, g, b0
    <3>2. \A b \in Buckets : f[b] <= g[b]
      BY <3>1
    <3>3. QED
      BY <3>2 DEF f, g
  <2>5. UNCHANGED samVars /\ vu[v] # "gone"
    BY <2>1, BeginsMoves DEF Begins
  <2>6. \A k \in Kinds : /\ hist[k].n <= hist'[k].n
                         /\ \A b \in Buckets : hist[k].counts[b] <= hist'[k].counts[b]
    <3> SUFFICES ASSUME NEW k \in Kinds
                 PROVE  /\ hist[k].n <= hist'[k].n
                        /\ \A b \in Buckets : hist[k].counts[b] <= hist'[k].counts[b]
      OBVIOUS
    <3>1. CASE k = kind
      <4>1. hist[kind].n <= hist'[kind].n
        <5>1. hist'[kind].n = hist[kind].n
          BY <2>2, Zenon
        <5>2. QED
          BY <1>1, <5>1
      <4>2. QED
        BY <2>4, <3>1, <4>1, Zenon
    <3>2. CASE k # kind
      BY <1>1, <2>2, <3>2
    <3>3. QED
      BY <3>1, <3>2
  <2>7. QED
    BY <2>5, <2>6 DEF AllGone
<1>3. CASE Recording(v) \/ Leave(v)
  <2>1. /\ \A k \in Kinds : k # Kind(v) => hist'[k] = hist[k]
        /\ hist'[Kind(v)].counts = hist[Kind(v)].counts
        /\ hist'[Kind(v)].n = hist[Kind(v)].n + 1 \/ hist'[Kind(v)].n = hist[Kind(v)].n
    BY <1>3, RecordingHist, Zenon
  <2>2. UNCHANGED samVars /\ vu[v] # "gone"
    BY <1>3, RecordingMoves, RecordingPlaces
  <2>3. QED
    BY <1>1, <2>1, <2>2 DEF AllGone
<1>4. QED
  BY <1>2, <1>3

LEMMA VUSteps ==
    ASSUME TypeOK, TypeOK', ReadInv, LastInv, SeriesInv, NEW v \in Sharers, AddCount(v) \/ Recording(v) \/ Leave(v)
    PROVE  ReadInv' /\ LastInv' /\ SeriesInv'
<1>1. /\ \A k \in Kinds : /\ hist[k].n <= hist'[k].n
                          /\ \A b \in Buckets : hist[k].counts[b] <= hist'[k].counts[b]
      /\ UNCHANGED samVars /\ ~AllGone /\ "ok" \in Kinds /\ "failed" \in Kinds
  BY CountsGrow DEF Kinds
<1>2. /\ \A k \in Kinds : hist[k].n \in Nat /\ \A b \in Buckets : hist[k].counts[b] \in Nat
      /\ \A b \in Buckets : cur[b] \in Nat /\ prev[b] \in Nat
      /\ curFailed \in Nat /\ prevFailed \in Nat
  BY HistTyped DEF TypeOK
<1>2a. \A k \in Kinds : hist'[k].n \in Nat /\ \A b \in Buckets : hist'[k].counts[b] \in Nat
  <2>1. ASSUME NEW k \in Kinds PROVE hist'[k].n \in Nat /\ \A b \in Buckets : hist'[k].counts[b] \in Nat
    <3>1. hist'[k] \in [counts : [Buckets -> Nat], n : Nat, sum : Nat, min : Nat, max : Nat]
      BY DEF TypeOK
    <3>2. QED
      BY <3>1
  <2>2. QED
    BY <2>1
<1>3. /\ spc' = spc /\ pos' = pos /\ cur' = cur /\ curFailed' = curFailed
      /\ prev' = prev /\ prevFailed' = prevFailed /\ points' = points
  BY <1>1 DEF samVars
<1>4. /\ \A b \in Buckets : Both(b) <= Both(b)' /\ Both(b) \in Nat /\ Both(b)' \in Nat
      /\ \A b : OkLoaded(b)' = OkLoaded(b) /\ FailedLoaded(b)' = FailedLoaded(b)
  BY <1>1, <1>2, <1>2a, <1>3 DEF Both, OkLoaded, FailedLoaded
<1>5. ReadInv'
  <2>1. ASSUME NEW b \in Buckets PROVE prev'[b] <= Both(b)'
    BY <1>2, <1>3, <1>4 DEF ReadInv
  <2>2. prevFailed' <= hist'["failed"].n
    BY <1>1, <1>2, <1>2a, <1>3 DEF ReadInv
  <2>3. ASSUME spc' \in Reading, NEW b \in Buckets
        PROVE  /\ ~OkLoaded(b)' => cur'[b] = 0
               /\ OkLoaded(b)' /\ ~FailedLoaded(b)' =>
                     cur'[b] <= hist'["ok"].counts[b] /\ prev'[b] <= cur'[b] + hist'["failed"].counts[b]
               /\ FailedLoaded(b)' => prev'[b] <= cur'[b] /\ cur'[b] <= Both(b)'
    <3>1. CASE ~OkLoaded(b)
      BY <1>3, <1>4, <2>3, <3>1 DEF ReadInv, OkLoaded, FailedLoaded
    <3>2. CASE OkLoaded(b) /\ ~FailedLoaded(b)
      <4>1. cur[b] <= hist["ok"].counts[b] /\ prev[b] <= cur[b] + hist["failed"].counts[b]
        BY <1>3, <2>3, <3>2 DEF ReadInv
      <4>2. cur[b] <= hist'["ok"].counts[b] /\ prev[b] <= cur[b] + hist'["failed"].counts[b]
        BY <1>1, <1>2, <1>2a, <4>1
      <4>3. QED
        BY <1>3, <1>4, <3>2, <4>2
    <3>3. CASE FailedLoaded(b)
      <4>1. prev[b] <= cur[b] /\ cur[b] <= Both(b)'
        BY <1>2, <1>3, <1>4, <2>3, <3>3 DEF ReadInv
      <4>2. OkLoaded(b)
        BY <3>3, BucketFacts DEF OkLoaded, FailedLoaded, TypeOK
      <4>3. QED
        BY <1>3, <1>4, <3>3, <4>1, <4>2
    <3>4. QED
      BY <3>1, <3>2, <3>3
  <2>4. ASSUME spc' \in Reading
        PROVE  /\ pos' <= NumLoads => curFailed' = 0
               /\ pos' > NumLoads => prevFailed' <= curFailed' /\ curFailed' <= hist'["failed"].n
    BY <1>1, <1>2, <1>2a, <1>3, <2>4 DEF ReadInv
  <2>5. NumLoads' = NumLoads
    BY DEF NumLoads
  <2>6. QED
    BY <2>1, <2>2, <2>3, <2>4, <2>5 DEF ReadInv
<1>6. LastInv'
  <2>1. ~(spc \in {"readlast", "done"})
    BY <1>1 DEF LastInv
  <2>2. QED
    BY <1>3, <2>1 DEF LastInv
<1>7. SeriesInv'
  BY <1>3 DEF SeriesInv, PointSum
<1>8. QED
  BY <1>5, <1>6, <1>7

LEMMA BeginSampleKeeps ==
    ASSUME TypeOK, ReadInv, LastInv, SeriesInv, TickSample \/ LastSample
    PROVE  ReadInv' /\ LastInv' /\ SeriesInv'
<1>1. PICK state \in Reading : BeginSample(state) /\ (state = "readlast" => AllGone)
  BY DEF TickSample, LastSample, Reading
<1>2. /\ spc' = state /\ pos' = 1 /\ cur' = [b \in Buckets |-> 0] /\ curFailed' = 0
      /\ UNCHANGED <<hist, vuVars, prev, prevFailed, points>>
  BY <1>1 DEF BeginSample
<1>3. \A b \in Buckets : ~OkLoaded(b)' /\ ~FailedLoaded(b)' /\ Both(b)' = Both(b)
  <2>1. \A b \in Buckets : ~(1 > b + 1) /\ ~(1 > numBuckets + b + 1)
    BY BucketFacts
  <2>2. hist' = hist /\ pos' = 1
    BY <1>2
  <2>3. \A b \in Buckets : ~OkLoaded(b)' /\ ~FailedLoaded(b)'
    BY <2>1, <2>2, Zenon DEF OkLoaded, FailedLoaded
  <2>4. \A b \in Buckets : Both(b)' = Both(b)
    BY <2>2, Zenon DEF Both
  <2>5. QED
    BY <2>3, <2>4
<1>4. pos' <= NumLoads' /\ ~(pos' > NumLoads')
  BY <1>2, BucketFacts DEF NumLoads
<1>5. ReadInv'
  BY <1>2, <1>3, <1>4 DEF ReadInv
<1>6. LastInv'
  <2>1. AllGone' = AllGone
    BY <1>2 DEF AllGone, vuVars
  <2>2. QED
    BY <1>1, <1>2, <1>3, <2>1 DEF LastInv, Reading
<1>7. SeriesInv'
  BY <1>2 DEF SeriesInv, PointSum
<1>8. QED
  BY <1>5, <1>6, <1>7

\* A load brings its bucket up to date; the others are as they were.
LEMMA LoadKeeps ==
    ASSUME TypeOK, ReadInv, LastInv, SeriesInv, Load
    PROVE  ReadInv' /\ LastInv' /\ SeriesInv'
<1>1. /\ spc \in Reading /\ pos <= NumLoads /\ pos' = pos + 1
      /\ hist' = hist /\ vu' = vu /\ spc' = spc /\ prev' = prev /\ prevFailed' = prevFailed /\ points' = points
      /\ (\E b \in Buckets : LoadsOk(b) \/ LoadsFailed(b)) \/ LoadsN
  BY LoadReads DEF vuVars
<1>2. /\ hist["failed"].n \in Nat
      /\ \A b \in Buckets : /\ hist["ok"].counts[b] \in Nat /\ hist["failed"].counts[b] \in Nat
                            /\ cur[b] \in Nat /\ prev[b] \in Nat
      /\ curFailed \in Nat /\ prevFailed \in Nat /\ pos \in Nat /\ cur \in [Buckets -> Nat]
  <2>1. "ok" \in Kinds /\ "failed" \in Kinds
    BY DEF Kinds
  <2>2. hist["failed"].n \in Nat /\ \A b \in Buckets : hist["ok"].counts[b] \in Nat /\ hist["failed"].counts[b] \in Nat
    BY <2>1, HistTyped, Zenon
  <2>3. cur \in [Buckets -> Nat] /\ prev \in [Buckets -> Nat] /\ curFailed \in Nat /\ prevFailed \in Nat
    BY Zenon DEF TypeOK
  <2>4. pos \in Nat
    BY BucketFacts DEF TypeOK, NumLoads
  <2>5. \A b \in Buckets : cur[b] \in Nat /\ prev[b] \in Nat
    BY <2>3
  <2>6. QED
    BY <2>2, <2>3, <2>4, <2>5
<1>3. numBuckets \in Nat \ {0} /\ NumLoads = 2 * numBuckets + 1 /\ \A b \in Buckets : b \in Nat /\ b < numBuckets
  BY BucketFacts DEF NumLoads
<1>4. \A b \in Buckets : Both(b)' = Both(b) /\ Both(b) = hist["ok"].counts[b] + hist["failed"].counts[b]
  BY <1>1 DEF Both
\* what each kind of load does to a bucket
<1>5. ASSUME NEW b \in Buckets
      PROVE  \/ /\ cur'[b] = cur[b] /\ (OkLoaded(b)' <=> OkLoaded(b)) /\ (FailedLoaded(b)' <=> FailedLoaded(b))
             \/ /\ ~OkLoaded(b) /\ ~FailedLoaded(b) /\ OkLoaded(b)' /\ ~FailedLoaded(b)'
                /\ cur'[b] = cur[b] + hist["ok"].counts[b]
             \/ /\ OkLoaded(b) /\ ~FailedLoaded(b) /\ OkLoaded(b)' /\ FailedLoaded(b)'
                /\ cur'[b] = cur[b] + hist["failed"].counts[b]
  <2>1. ASSUME NEW c \in Buckets, LoadsOk(c)
        PROVE  IF b = c
                 THEN /\ ~OkLoaded(b) /\ ~FailedLoaded(b) /\ OkLoaded(b)' /\ ~FailedLoaded(b)'
                      /\ cur'[b] = cur[b] + hist["ok"].counts[b]
                 ELSE cur'[b] = cur[b] /\ (OkLoaded(b)' <=> OkLoaded(b)) /\ (FailedLoaded(b)' <=> FailedLoaded(b))
    <3>1. pos = c + 1 /\ cur' = [cur EXCEPT ![c] = cur[c] + hist["ok"].counts[c]]
      BY <2>1 DEF LoadsOk
    <3>2. CASE b = c
      <4>1. cur'[b] = cur[b] + hist["ok"].counts[b]
        BY <1>2, <3>1, <3>2
      <4>2. ~(pos > b + 1) /\ ~(pos > numBuckets + b + 1) /\ pos + 1 > b + 1 /\ ~(pos + 1 > numBuckets + b + 1)
        BY <1>3, <3>1, <3>2
      <4>3. QED
        BY <1>1, <3>2, <4>1, <4>2 DEF OkLoaded, FailedLoaded
    <3>3. CASE b # c
      <4>1. cur'[b] = cur[b]
        BY <1>2, <3>1, <3>3
      <4>2. (pos + 1 > b + 1 <=> pos > b + 1) /\ (pos + 1 > numBuckets + b + 1 <=> pos > numBuckets + b + 1)
        BY <1>3, <3>1, <3>3
      <4>3. QED
        BY <1>1, <3>3, <4>1, <4>2 DEF OkLoaded, FailedLoaded
    <3>4. QED
      BY <3>2, <3>3
  <2>2. ASSUME NEW c \in Buckets, LoadsFailed(c)
        PROVE  IF b = c
                 THEN /\ OkLoaded(b) /\ ~FailedLoaded(b) /\ OkLoaded(b)' /\ FailedLoaded(b)'
                      /\ cur'[b] = cur[b] + hist["failed"].counts[b]
                 ELSE cur'[b] = cur[b] /\ (OkLoaded(b)' <=> OkLoaded(b)) /\ (FailedLoaded(b)' <=> FailedLoaded(b))
    <3>1. pos = numBuckets + c + 1 /\ cur' = [cur EXCEPT ![c] = cur[c] + hist["failed"].counts[c]]
      BY <2>2 DEF LoadsFailed
    <3>2. CASE b = c
      <4>1. cur'[b] = cur[b] + hist["failed"].counts[b]
        BY <1>2, <3>1, <3>2
      <4>2. pos > b + 1 /\ ~(pos > numBuckets + b + 1) /\ pos + 1 > b + 1 /\ pos + 1 > numBuckets + b + 1
        BY <1>3, <3>1, <3>2
      <4>3. QED
        BY <1>1, <3>2, <4>1, <4>2 DEF OkLoaded, FailedLoaded
    <3>3. CASE b # c
      <4>1. cur'[b] = cur[b]
        BY <1>2, <3>1, <3>3
      <4>2. (pos + 1 > b + 1 <=> pos > b + 1) /\ (pos + 1 > numBuckets + b + 1 <=> pos > numBuckets + b + 1)
        BY <1>3, <3>1, <3>3
      <4>3. QED
        BY <1>1, <3>3, <4>1, <4>2 DEF OkLoaded, FailedLoaded
    <3>4. QED
      BY <3>2, <3>3
  <2>3. ASSUME LoadsN
        PROVE  cur'[b] = cur[b] /\ (OkLoaded(b)' <=> OkLoaded(b)) /\ (FailedLoaded(b)' <=> FailedLoaded(b))
    <3>1. pos = 2 * numBuckets + 1 /\ cur' = cur
      BY <1>3, <2>3 DEF LoadsN
    <3>2. (pos + 1 > b + 1 <=> pos > b + 1) /\ (pos + 1 > numBuckets + b + 1 <=> pos > numBuckets + b + 1)
      BY <1>3, <3>1
    <3>3. QED
      BY <1>1, <3>1, <3>2 DEF OkLoaded, FailedLoaded
  <2>4. QED
    BY <1>1, <2>1, <2>2, <2>3
<1>6. \/ pos < NumLoads /\ curFailed' = curFailed
      \/ pos = NumLoads /\ curFailed' = curFailed + hist["failed"].n
  <2>1. ASSUME NEW c \in Buckets, LoadsOk(c) PROVE pos < NumLoads /\ curFailed' = curFailed
    BY <1>3, <2>1 DEF LoadsOk
  <2>2. ASSUME NEW c \in Buckets, LoadsFailed(c) PROVE pos < NumLoads /\ curFailed' = curFailed
    BY <1>3, <2>2 DEF LoadsFailed
  <2>3. QED
    BY <1>1, <2>1, <2>2 DEF LoadsN
<1>7. \A b \in Buckets : /\ prev[b] <= Both(b)
                         /\ ~OkLoaded(b) => cur[b] = 0
                         /\ OkLoaded(b) /\ ~FailedLoaded(b) =>
                               cur[b] <= hist["ok"].counts[b] /\ prev[b] <= cur[b] + hist["failed"].counts[b]
                         /\ FailedLoaded(b) => prev[b] <= cur[b] /\ cur[b] <= Both(b)
  BY <1>1 DEF ReadInv
<1>8. ReadInv'
  <2>1. ASSUME NEW b \in Buckets
        PROVE  /\ prev'[b] <= Both(b)'
               /\ ~OkLoaded(b)' => cur'[b] = 0
               /\ OkLoaded(b)' /\ ~FailedLoaded(b)' =>
                     cur'[b] <= hist'["ok"].counts[b] /\ prev'[b] <= cur'[b] + hist'["failed"].counts[b]
               /\ FailedLoaded(b)' => prev'[b] <= cur'[b] /\ cur'[b] <= Both(b)'
    <3>1. CASE cur'[b] = cur[b] /\ (OkLoaded(b)' <=> OkLoaded(b)) /\ (FailedLoaded(b)' <=> FailedLoaded(b))
      BY <1>1, <1>4, <1>7, <3>1
    <3>2. CASE /\ ~OkLoaded(b) /\ ~FailedLoaded(b) /\ OkLoaded(b)' /\ ~FailedLoaded(b)'
               /\ cur'[b] = cur[b] + hist["ok"].counts[b]
      <4>1. prev[b] <= Both(b) /\ cur[b] = 0
        BY <1>7, <3>2
      <4>2. cur'[b] <= hist["ok"].counts[b] /\ prev[b] <= cur'[b] + hist["failed"].counts[b]
        BY <1>2, <1>4, <3>2, <4>1
      <4>3. QED
        BY <1>1, <1>4, <3>2, <4>1, <4>2
    <3>3. CASE /\ OkLoaded(b) /\ ~FailedLoaded(b) /\ OkLoaded(b)' /\ FailedLoaded(b)'
               /\ cur'[b] = cur[b] + hist["failed"].counts[b]
      <4>1. prev[b] <= Both(b) /\ cur[b] <= hist["ok"].counts[b] /\ prev[b] <= cur[b] + hist["failed"].counts[b]
        BY <1>7, <3>3
      <4>2. prev[b] <= cur'[b] /\ cur'[b] <= Both(b)
        BY <1>2, <1>4, <3>3, <4>1
      <4>3. QED
        BY <1>1, <1>4, <3>3, <4>1, <4>2
    <3>4. QED
      BY <1>5, <3>1, <3>2, <3>3
  <2>2. prevFailed' <= hist'["failed"].n /\ NumLoads' = NumLoads
    BY <1>1 DEF ReadInv, NumLoads
  <2>3. /\ pos' <= NumLoads => curFailed' = 0
        /\ pos' > NumLoads => prevFailed' <= curFailed' /\ curFailed' <= hist'["failed"].n
    <3>1. curFailed = 0 /\ prevFailed <= hist["failed"].n
      BY <1>1 DEF ReadInv
    <3>2. QED
      BY <1>1, <1>2, <1>3, <1>6, <3>1
  <2>4. QED
    BY <2>1, <2>2, <2>3 DEF ReadInv
<1>9. LastInv'
  <2>1. AllGone' = AllGone
    BY <1>1 DEF AllGone
  <2>2. ASSUME spc = "readlast", NEW b \in Buckets
        PROVE  /\ OkLoaded(b)' /\ ~FailedLoaded(b)' => cur'[b] = hist["ok"].counts[b]
               /\ FailedLoaded(b)' => cur'[b] = Both(b)
    <3>1. /\ OkLoaded(b) /\ ~FailedLoaded(b) => cur[b] = hist["ok"].counts[b]
          /\ FailedLoaded(b) => cur[b] = Both(b)
      BY <2>2 DEF LastInv
    <3>2. CASE cur'[b] = cur[b] /\ (OkLoaded(b)' <=> OkLoaded(b)) /\ (FailedLoaded(b)' <=> FailedLoaded(b))
      BY <3>1, <3>2
    <3>3. CASE /\ ~OkLoaded(b) /\ ~FailedLoaded(b) /\ OkLoaded(b)' /\ ~FailedLoaded(b)'
               /\ cur'[b] = cur[b] + hist["ok"].counts[b]
      BY <1>2, <1>7, <3>3
    <3>4. CASE /\ OkLoaded(b) /\ ~FailedLoaded(b) /\ OkLoaded(b)' /\ FailedLoaded(b)'
               /\ cur'[b] = cur[b] + hist["failed"].counts[b]
      BY <1>4, <3>1, <3>4
    <3>5. QED
      BY <1>5, <3>2, <3>3, <3>4
  <2>3. spc # "done"
    BY <1>1 DEF Reading
  <2>4. QED
    BY <1>1, <1>4, <2>1, <2>2, <2>3 DEF LastInv
<1>10. SeriesInv'
  BY <1>1 DEF SeriesInv, PointSum
<1>11. QED
  BY <1>8, <1>9, <1>10

\* EmitPoint adds to the series what its sample has more than the last one.
LEMMA EmitKeeps ==
    ASSUME TypeOK, ReadInv, LastInv, SeriesInv, EmitPoint
    PROVE  ReadInv' /\ LastInv' /\ SeriesInv'
<1>1. /\ spc \in Reading /\ pos > NumLoads /\ prev' = cur
      /\ hist' = hist /\ vu' = vu /\ pos' = pos /\ cur' = cur /\ curFailed' = curFailed
      /\ spc' = IF spc = "readlast" THEN "done" ELSE "wait"
      /\ \A b \in Buckets : prev[b] <= cur[b] /\ cur[b] <= Both(b)
      /\ prevFailed <= curFailed /\ curFailed <= hist["failed"].n
      /\ Delta \in Nat /\ Delta = SumFunction(cur) - SumFunction(prev)
  <2>1. UNCHANGED <<hist, vuVars, pos, cur, curFailed>>
    BY Emitted, Zenon
  <2>2. hist' = hist /\ vu' = vu /\ pos' = pos /\ cur' = cur /\ curFailed' = curFailed
    BY <2>1 DEF vuVars
  <2>3. QED
    BY <2>2, Emitted, Zenon
<1>2. PICK failed \in Nat : /\ failed <= Delta /\ failed <= curFailed - prevFailed
                            /\ points' = Append(points, [requests |-> Delta, failed |-> failed])
                            /\ prevFailed' = prevFailed + failed
  BY Emitted, Zenon
<1>3. /\ hist["failed"].n \in Nat /\ curFailed \in Nat /\ prevFailed \in Nat
      /\ IsFiniteSet(Buckets) /\ cur \in [Buckets -> Int] /\ prev \in [Buckets -> Int]
  <2>1. hist["failed"].n \in Nat
    BY HistTyped DEF Kinds
  <2>2. cur \in [Buckets -> Nat] /\ prev \in [Buckets -> Nat] /\ curFailed \in Nat /\ prevFailed \in Nat
    BY Zenon DEF TypeOK
  <2>3. cur \in [Buckets -> Int] /\ prev \in [Buckets -> Int]
    BY <2>2
  <2>4. QED
    BY <2>1, <2>2, <2>3, BucketFacts
<1>4. \A b : Both(b)' = Both(b)
  BY <1>1 DEF Both
<1>5. spc' = "wait" \/ spc' = "done"
  BY <1>1
<1>6. ReadInv'
  <2>1. prevFailed' <= hist'["failed"].n
    BY <1>1, <1>2, <1>3
  <2>2. ~(spc' \in Reading)
    BY <1>5 DEF Reading
  <2>3. QED
    BY <1>1, <1>4, <2>1, <2>2 DEF ReadInv
<1>7. LastInv'
  <2>1. spc' = "done" => spc = "readlast"
    BY <1>1
  <2>2. AllGone' = AllGone
    BY <1>1 DEF AllGone
  <2>3. spc = "readlast" => AllGone /\ \A b \in Buckets : cur[b] = Both(b)
    <3>1. \A b \in Buckets : FailedLoaded(b)
      BY <1>1, BucketFacts DEF FailedLoaded, NumLoads, TypeOK
    <3>2. QED
      BY <3>1 DEF LastInv
  <2>4. QED
    BY <1>1, <1>4, <1>5, <2>1, <2>2, <2>3 DEF LastInv
<1>8. SeriesInv'
  <2> DEFINE n == Len(points)
             pt == [requests |-> Delta, failed |-> failed]
             S == 1..n
             R == 1..(n + 1)
  <2>1. points \in Seq([requests : Nat, failed : Nat]) /\ n \in Nat /\ pt \in [requests : Nat, failed : Nat]
    BY <1>1, <1>2, LenProperties DEF TypeOK
  <2>2. /\ Len(points') = n + 1 /\ points'[n + 1] = pt /\ \A k \in S : points'[k] = points[k]
    BY <1>2, <2>1, AppendProperties
  <2>3. DOMAIN points = S /\ DOMAIN points' = R /\ \A k \in S : points[k] \in [requests : Nat, failed : Nat]
    <3>1. points' \in Seq([requests : Nat, failed : Nat])
      BY <1>2, <2>1, AppendProperties
    <3>2. QED
      BY <2>1, <2>2, <3>1, LenProperties, ElementOfSeq
  <2>4. IsFiniteSet(S) /\ n + 1 \in R /\ n + 1 \notin S /\ R = S \cup {n + 1}
    <3>1. IsFiniteSet(S)
      BY <2>1, FS_Interval
    <3>2. n + 1 \in R /\ n + 1 \notin S
      BY <2>1
    <3>3. \A k : k \in R <=> k \in S \/ k = n + 1
      BY <2>1
    <3> HIDE DEF S, R
    <3>4. QED
      BY <3>1, <3>2, <3>3
  <2>5. pt.requests = Delta /\ pt.failed = failed
    OBVIOUS
  <2> HIDE DEF n, pt, S, R
  <2>6. \A f \in [S -> Int] : \A g \in [R -> Int] :
          (\A k \in S : g[k] = f[k]) => SumFunction(g) = SumFunction(f) + g[n + 1]
    BY <2>4, SumGrow
  <2>7. PointSum(RequestsOf)' = PointSum(RequestsOf) + Delta /\ PointSum(RequestsOf) \in Int
    <3> DEFINE f == [k \in S |-> points[k].requests]
               g == [k \in R |-> points'[k].requests]
    <3>1. f \in [S -> Int] /\ g \in [R -> Int] /\ g[n + 1] = Delta /\ \A k \in S : g[k] = f[k]
      BY <1>1, <2>2, <2>3, <2>4, <2>5
    <3>2. PointSum(RequestsOf) = SumFunction(f) /\ PointSum(RequestsOf)' = SumFunction(g)
      BY <2>3 DEF PointSum, RequestsOf
    <3> HIDE DEF f, g
    <3>3. SumFunction(f) \in Int
      BY <2>4, <3>1, SumInt
    <3>4. QED
      BY <2>6, <3>1, <3>2, <3>3
  <2>8. PointSum(Failed)' = PointSum(Failed) + failed /\ PointSum(Failed) \in Int
    <3> DEFINE f == [k \in S |-> points[k].failed]
               g == [k \in R |-> points'[k].failed]
    <3>1. f \in [S -> Int] /\ g \in [R -> Int] /\ g[n + 1] = failed /\ \A k \in S : g[k] = f[k]
      BY <1>2, <2>2, <2>3, <2>4, <2>5
    <3>2. PointSum(Failed) = SumFunction(f) /\ PointSum(Failed)' = SumFunction(g)
      BY <2>3 DEF PointSum, Failed
    <3> HIDE DEF f, g
    <3>3. SumFunction(f) \in Int
      BY <2>4, <3>1, SumInt
    <3>4. QED
      BY <2>6, <3>1, <3>2, <3>3
  <2>9. PointSum(RequestsOf) = SumFunction(prev) /\ PointSum(Failed) = prevFailed
    BY DEF SeriesInv
  <2>10. SumFunction(cur) \in Int /\ SumFunction(prev) \in Int
    BY <1>3, SumInt
  <2>11. PointSum(RequestsOf)' = SumFunction(prev')
    <3>1. PointSum(RequestsOf)' = SumFunction(cur)
      BY <1>1, <2>7, <2>9, <2>10
    <3>2. QED
      BY <1>1, <3>1
  <2>12. PointSum(Failed)' = prevFailed'
    BY <1>2, <2>8, <2>9
  <2>13. \A k \in DOMAIN points' : points'[k].failed <= points'[k].requests
    <3>1. \A k \in S : points[k].failed <= points[k].requests
      BY <2>3 DEF SeriesInv
    <3>2. \A k \in R : k \in S \/ k = n + 1
      BY <2>4
    <3>3. QED
      BY <1>2, <2>2, <2>3, <2>5, <3>1, <3>2
  <2>14. QED
    BY <2>11, <2>12, <2>13 DEF SeriesInv
<1>9. QED
  BY <1>6, <1>7, <1>8

-----------------------------------------------------------------------------
(* The theorems *)

\* Nothing has been recorded and nothing sampled to begin with.
LEMMA InitSampler ==
    ASSUME SamplerInit
    PROVE  SamplerInv
<1>1. /\ numBuckets \in Nat \ {0} /\ Infinity \in Nat /\ IsFiniteSet(Buckets) /\ IsFiniteSet(Sharers) /\ IsFiniteSet(Latencies)
      /\ \A b \in Buckets : b \in Nat
  BY BucketFacts, SamplerAssumption
<1> DEFINE zeros == [b \in Buckets |-> 0]
<1>2. zeros \in [Buckets -> Nat] /\ zeros \in [Buckets -> Int] /\ \A b \in Buckets : zeros[b] = 0
  OBVIOUS
<1>3. \A k \in Kinds : /\ hist[k].counts = zeros /\ hist[k].n = 0 /\ hist[k].sum = 0
                       /\ hist[k].min = Infinity /\ hist[k].max = 0
  BY DEF SamplerInit, newHistogram
<1>3a. cur = zeros /\ prev = zeros
  BY DEF SamplerInit
<1>4. TypeOK
  <2>1. newHistogram \in [counts : [Buckets -> Nat], n : Nat, sum : Nat, min : Nat, max : Nat]
    BY <1>1 DEF newHistogram
  <2>2. hist \in [Kinds -> [counts : [Buckets -> Nat], n : Nat, sum : Nat, min : Nat, max : Nat]]
    BY <2>1 DEF SamplerInit
  <2>3. req \in [Sharers -> [kind : Kinds, lat : Latencies \cup {0}]]
    BY DEF SamplerInit, Kinds
  <2>4. vu \in [Sharers -> Places] /\ seen \in [Sharers -> Nat] /\ recordings \in [Kinds -> [Latencies -> Nat]]
    BY DEF SamplerInit, Places
  <2>5. pos \in 1..(NumLoads + 1) /\ spc \in {"wait", "done"} \cup Reading
    BY <1>1 DEF SamplerInit, NumLoads
  <2>6. points \in Seq([requests : Nat, failed : Nat]) /\ curFailed \in Nat /\ prevFailed \in Nat
    BY EmptySeq DEF SamplerInit
  <2>7. QED
    BY <1>2, <1>3a, <2>2, <2>3, <2>4, <2>5, <2>6, Zenon DEF TypeOK
<1> HIDE DEF zeros
<1>5. SumFunction(zeros) = 0
  BY <1>1, <1>2, SumZero
<1>6. \A k \in Kinds : recordings[k] \in [Latencies -> Int] /\ \A l \in Latencies : recordings[k][l] = 0
  BY DEF SamplerInit
<1>7. ASSUME NEW k \in Kinds PROVE Recorded(k) = 0 /\ LatsOf(k) = {}
  <2>1. SumFunction(recordings[k]) = 0
    BY <1>1, <1>6, SumZero
  <2>2. QED
    BY <1>6, <2>1 DEF Recorded, LatsOf
<1>8. ASSUME NEW k \in Kinds
      PROVE  SumFunction(OwedN(k)) = 0 /\ SumFunction(OwedSum(k)) = 0
  <2>1. /\ OwedN(k) \in [Sharers -> Int] /\ OwedSum(k) \in [Sharers -> Int]
        /\ \A v \in Sharers : OwedN(k)[v] = 0 /\ OwedSum(k)[v] = 0
    BY DEF SamplerInit, OwedN, OwedSum
  <2>2. QED
    BY <1>1, <2>1, SumZero
<1>9. ASSUME NEW k \in Kinds PROVE SumFunction(Spent(k)) = 0
  <2>1. \A l \in Latencies : l * 0 = 0
    BY BucketFacts
  <2>2. Spent(k) \in [Latencies -> Int] /\ \A l \in Latencies : Spent(k)[l] = 0
    BY <1>6, <2>1 DEF Spent
  <2>3. QED
    BY <1>1, <2>2, SumZero
<1>10. ASSUME NEW k \in Kinds, NEW b PROVE SumFunction(InBucket(k, b)) = 0
  <2> DEFINE S == {l \in Latencies : BucketOf(l) = b}
  <2>1. IsFiniteSet(S)
    BY <1>1, FS_Subset
  <2>2. InBucket(k, b) \in [S -> Int] /\ \A l \in S : InBucket(k, b)[l] = 0
    BY <1>6 DEF InBucket
  <2> HIDE DEF S
  <2>3. QED
    BY <2>1, <2>2, SumZero
<1>11. NInv /\ SumInv
  BY <1>3, <1>7, <1>8, <1>9 DEF NInv, SumInv
<1>12. CountsInv
  BY <1>2, <1>3, <1>5, <1>7, <1>10 DEF CountsInv
<1>13. LogInv /\ MinInv /\ MaxInv
  <2>1. \A v \in Sharers : vu[v] = "idle"
    BY DEF SamplerInit
  <2>2. QED
    BY <1>3, <1>7, <2>1 DEF LogInv, MinInv, MaxInv, MaxYet, MinYet
<1>14. ReadInv
  <2>1. "ok" \in Kinds /\ "failed" \in Kinds
    BY DEF Kinds
  <2>2. \A b \in Buckets : prev[b] <= Both(b)
    BY <1>2, <1>3, <1>3a, <2>1 DEF Both
  <2>3. prevFailed <= hist["failed"].n /\ spc = "wait"
    BY <1>3, <2>1 DEF SamplerInit
  <2>4. QED
    BY <2>2, <2>3 DEF ReadInv, Reading
<1>15. LastInv
  BY DEF SamplerInit, LastInv
<1>16. SeriesInv
  <2>1. points = <<>> /\ prevFailed = 0
    BY DEF SamplerInit
  <2>2. DOMAIN points = {}
    BY <2>1
  <2> DEFINE f == [k \in {} |-> points[k].requests]
             g == [k \in {} |-> points[k].failed]
  <2>3. f \in [{} -> Int] /\ g \in [{} -> Int]
    OBVIOUS
  <2>4. PointSum(RequestsOf) = SumFunction(f) /\ PointSum(Failed) = SumFunction(g)
    BY <2>2 DEF PointSum, RequestsOf, Failed
  <2> HIDE DEF f, g
  <2>5. SumFunction(f) = 0 /\ SumFunction(g) = 0
    BY <2>3, SumEmpty
  <2>6. QED
    BY <1>3a, <1>5, <2>1, <2>2, <2>4, <2>5 DEF SeriesInv
<1>17. QED
  BY <1>4, <1>11, <1>12, <1>13, <1>14, <1>15, <1>16 DEF SamplerInv, RecordInv

LEMMA NextSampler ==
    ASSUME SamplerInv, [SamplerNext]_samplerVars
    PROVE  SamplerInv'
<1>1. TypeOK /\ RecordInv /\ ReadInv /\ LastInv /\ SeriesInv
  BY DEF SamplerInv
<1>2. ASSUME NEW v \in Sharers, AddCount(v) \/ Recording(v) \/ Leave(v) PROVE SamplerInv'
  <2>1. TypeOK'
    <3>1. CASE AddCount(v)
      BY <1>1, <3>1, AddCountBegins, BeginsTypes
    <3>2. CASE Recording(v) \/ Leave(v)
      BY <1>1, <3>2, RecordingTypes
    <3>3. QED
      BY <1>2, <3>1, <3>2
  <2>2. RecordInv'
    BY <1>1, <1>2, <2>1, RecordStep
  <2>3. ReadInv' /\ LastInv' /\ SeriesInv'
    BY <1>1, <1>2, <2>1, VUSteps
  <2>4. QED
    BY <2>1, <2>2, <2>3 DEF SamplerInv
<1>3. CASE TickSample \/ LastSample
  <2>1. UNCHANGED <<hist, vuVars>>
    BY <1>3 DEF TickSample, LastSample, BeginSample
  <2>2. QED
    BY <1>1, <1>3, <2>1, BeginSampleTypes, RecordSame, BeginSampleKeeps DEF SamplerInv
<1>4. CASE Load
  <2>1. UNCHANGED <<hist, vuVars>>
    BY <1>4 DEF Load
  <2>2. QED
    BY <1>1, <1>4, <2>1, LoadTypes, RecordSame, LoadKeeps DEF SamplerInv
<1>5. CASE EmitPoint
  <2>1. UNCHANGED <<hist, vuVars>>
    BY <1>5 DEF EmitPoint
  <2>2. QED
    BY <1>1, <1>5, <2>1, EmitTypes, RecordSame, EmitKeeps DEF SamplerInv
<1>6. CASE UNCHANGED samplerVars
  <2>1. UNCHANGED <<hist, vuVars>> /\ UNCHANGED samVars
    BY <1>6 DEF samplerVars
  <2>2. RecordInv'
    BY <1>1, <2>1, RecordSame
  <2>3. /\ hist' = hist /\ vu' = vu /\ req' = req /\ seen' = seen /\ recordings' = recordings
        /\ spc' = spc /\ pos' = pos /\ cur' = cur /\ curFailed' = curFailed
        /\ prev' = prev /\ prevFailed' = prevFailed /\ points' = points
    BY <2>1 DEF vuVars, samVars
  <2>4. TypeOK' /\ LastInv' /\ SeriesInv'
    BY <1>1, <2>3 DEF TypeOK, LastInv, AllGone, OkLoaded, FailedLoaded, Both, SeriesInv, PointSum
  <2>5. ReadInv'
    BY <1>1, <2>3 DEF ReadInv, OkLoaded, FailedLoaded, Both
  <2>6. QED
    BY <2>2, <2>4, <2>5 DEF SamplerInv
<1>7. QED
  BY <1>2, <1>3, <1>4, <1>5, <1>6 DEF SamplerNext, Done

\* However the VUs' and the sampler's atomic operations interleave, the histograms
\* are those of the log up to what VUs inside record owe them, and the samples lie
\* between the last point and what is counted.
THEOREM SamplerInvariant == SamplerSpec => []SamplerInv
<1>1. SamplerInit => SamplerInv
  BY InitSampler
<1>2. SamplerInv /\ [SamplerNext]_samplerVars => SamplerInv'
  BY NextSampler
<1>3. QED
  BY <1>1, <1>2, PTL DEF SamplerSpec

\* Nobody in record owes anything, so nothing is missing from n.
LEMMA NothingOwed ==
    ASSUME TypeOK, RecordInv, \A v \in Sharers : vu[v] \in {"idle", "gone"}, NEW k \in Kinds
    PROVE  hist[k].n = Recorded(k) /\ hist[k].sum = SumFunction(Spent(k))
<1>1. /\ OwedN(k) \in [Sharers -> Int] /\ OwedSum(k) \in [Sharers -> Int] /\ IsFiniteSet(Sharers)
      /\ \A v \in Sharers : OwedN(k)[v] = 0 /\ OwedSum(k)[v] = 0
  BY SamplerAssumption DEF OwedN, OwedSum
<1>2. SumFunction(OwedN(k)) = 0 /\ SumFunction(OwedSum(k)) = 0
  BY <1>1, SumZero
<1>3. hist[k].n \in Nat /\ hist[k].sum \in Nat
  BY HistTyped
<1>4. hist[k].n + SumFunction(OwedN(k)) = Recorded(k) /\ hist[k].sum + SumFunction(OwedSum(k)) = SumFunction(Spent(k))
  BY DEF RecordInv, NInv, SumInv
<1>5. QED
  BY <1>2, <1>3, <1>4

\* "Counts, min, max and mean are exact" (metrics.go): when nobody is inside record,
\* each histogram is that of the requests recorded.
THEOREM HistogramsExact == SamplerSpec => []QuiescentExact
<1>1. ASSUME SamplerInv PROVE QuiescentExact
  <2>1. TypeOK /\ RecordInv
    BY <1>1 DEF SamplerInv
  <2>2. SUFFICES ASSUME \A v \in Sharers : vu[v] \in {"idle", "gone"}, NEW k \in Kinds
                 PROVE  /\ hist[k].n = Recorded(k)
                        /\ \A b \in Buckets : hist[k].counts[b] = SumFunction(InBucket(k, b))
                        /\ hist[k].sum = SumFunction(Spent(k))
                        /\ LatsOf(k) # {} => hist[k].min = Min(LatsOf(k)) /\ hist[k].max = Max(LatsOf(k))
    BY Zenon DEF QuiescentExact, InBucket, Spent
  <2>3. hist[k].n = Recorded(k) /\ hist[k].sum = SumFunction(Spent(k))
    BY <2>1, <2>2, NothingOwed
  <2>4. \A b \in Buckets : hist[k].counts[b] = SumFunction(InBucket(k, b))
    BY <2>1 DEF RecordInv, CountsInv
  <2>5. ASSUME LatsOf(k) # {} PROVE hist[k].min = Min(LatsOf(k)) /\ hist[k].max = Max(LatsOf(k))
    <3>1. \A v \in Sharers : ~(vu[v] \in MinYet) /\ ~(vu[v] \in MaxYet)
      BY <2>2 DEF MinYet, MaxYet
    <3>2. \A l \in LatsOf(k) : l \in Nat /\ l <= Infinity /\ hist[k].min <= l /\ l <= hist[k].max
      BY <2>1, <3>1, BucketFacts DEF RecordInv, MinInv, MaxInv, LatsOf
    <3>3. hist[k].min \in Nat /\ hist[k].max \in Nat /\ Infinity \in Nat
      BY <2>1, HistTyped, BucketFacts
    <3>4. /\ hist[k].min = Infinity \/ hist[k].min \in LatsOf(k)
          /\ hist[k].max = 0 \/ hist[k].max \in LatsOf(k)
      BY <2>1 DEF RecordInv, MinInv, MaxInv
    <3>5. PICK l \in LatsOf(k) : TRUE
      BY <2>5
    <3>6. hist[k].min \in LatsOf(k)
      BY <3>2, <3>3, <3>4, <3>5
    <3>7. hist[k].max \in LatsOf(k)
      BY <3>2, <3>3, <3>4, <3>5
    <3>8. LatsOf(k) \in SUBSET Int
      BY <3>2
    <3>9. hist[k].min = Min(LatsOf(k))
      BY <3>2, <3>6, <3>8, LeastIs
    <3>10. hist[k].max = Max(LatsOf(k))
      BY <3>2, <3>7, <3>8, LargestIs
    <3>11. QED
      BY <3>9, <3>10
  <2>6. QED
    BY <2>3, <2>4, <2>5
<1>2. QED
  BY <1>1, SamplerInvariant, PTL

\* "Totals over the run are unaffected" (sampler.go): the points of the series add
\* up to what the summary counts, show no more failures than there were and no more
\* than requests, and no difference of two samples is negative.
THEOREM SeriesSound == SamplerSpec => []PointsSound
<1>1. ASSUME SamplerInv PROVE PointsSound
  <2>1. TypeOK /\ RecordInv /\ ReadInv /\ LastInv /\ SeriesInv
    BY <1>1 DEF SamplerInv
  <2>2. "ok" \in Kinds /\ "failed" \in Kinds /\ IsFiniteSet(Buckets)
    BY BucketFacts DEF Kinds
  <2>3. ASSUME spc = "done" PROVE PointSum(RequestsOf) = hist["ok"].n + hist["failed"].n
    <3>1. AllGone /\ \A b \in Buckets : prev[b] = hist["ok"].counts[b] + hist["failed"].counts[b]
      BY <2>1, <2>3 DEF LastInv, Both
    <3>2. hist["ok"].n = Recorded("ok") /\ hist["failed"].n = Recorded("failed")
      BY <2>1, <2>2, <3>1, NothingOwed DEF AllGone
    <3>3. SumFunction(hist["ok"].counts) = Recorded("ok") /\ SumFunction(hist["failed"].counts) = Recorded("failed")
      BY <2>1, <2>2 DEF RecordInv, CountsInv
    <3>4. SumFunction(prev) = SumFunction(hist["ok"].counts) + SumFunction(hist["failed"].counts)
      <4> DEFINE f == hist["ok"].counts
                 g == hist["failed"].counts
      <4>1. f \in [Buckets -> Int] /\ g \in [Buckets -> Int] /\ prev \in [Buckets -> Int]
        <5>1. f \in [Buckets -> Nat] /\ g \in [Buckets -> Nat] /\ prev \in [Buckets -> Nat]
          BY <2>1, <2>2, HistTyped DEF TypeOK
        <5> HIDE DEF f, g
        <5>2. QED
          BY <5>1
      <4>2. \A b \in Buckets : prev[b] = f[b] + g[b]
        BY <3>1
      <4> HIDE DEF f, g
      <4>3. SumFunction(prev) = SumFunction(f) + SumFunction(g)
        BY <2>2, <4>1, <4>2, SumAdd
      <4>4. QED
        BY <4>3 DEF f, g
    <3>5. PointSum(RequestsOf) = SumFunction(prev)
      BY <2>1 DEF SeriesInv
    <3>6. QED
      BY <3>2, <3>3, <3>4, <3>5, Zenon
  <2>4. PointSum(Failed) <= hist["failed"].n
    BY <2>1 DEF SeriesInv, ReadInv
  <2>5. \A k \in DOMAIN points : points[k].failed <= points[k].requests
    BY <2>1 DEF SeriesInv
  <2>6. ASSUME spc \in Reading, pos > NumLoads
        PROVE  (\A b \in Buckets : cur[b] >= prev[b]) /\ curFailed >= prevFailed
    <3>1. \A b \in Buckets : FailedLoaded(b)
      BY <2>1, <2>6, BucketFacts DEF FailedLoaded, NumLoads, TypeOK
    <3>2. \A b \in Buckets : prev[b] <= cur[b] /\ prev[b] \in Nat /\ cur[b] \in Nat
      BY <2>1, <2>6, <3>1 DEF ReadInv, TypeOK
    <3>3. prevFailed <= curFailed /\ prevFailed \in Nat /\ curFailed \in Nat
      BY <2>1, <2>6 DEF ReadInv, TypeOK
    <3>4. QED
      BY <3>2, <3>3
  <2>7. QED
    BY <2>3, <2>4, <2>5, <2>6 DEF PointsSound, Reading
<1>2. QED
  BY <1>1, SamplerInvariant, PTL

-----------------------------------------------------------------------------
(* Workload: the inductive invariant. What has been recorded of the history is a    *)
(* function from entries to the operation and whether the test went on.            *)

\* The entries of a history l, but for the last of the VUs in W, which are waiting
\* to record it.
EntriesOf(l)  == UNION {{<<v, k>> : k \in DOMAIN l[v]} : v \in VUs}
Settled(l, W) == {i \in EntriesOf(l) : i[1] \in W => i[2] # Len(l[i[1]])}
History(l, W) == [i \in Settled(l, W) |-> l[i[1]][i[2]]]

\* The operations whose results, or whose second results, have been recorded or
\* passed over, and whether the test went on.
FirstLog(l)  == [v \in VUs |-> [k \in 1..Len(l[v]) |-> [op |-> l[v][k].op, good |-> l[v][k].first]]]
SecondLog(l) == [v \in VUs |-> [k \in 1..Len(l[v]) |-> [op |-> l[v][k].op, good |-> l[v][k].second]]]
Waiting1 == {v \in VUs : AtFirst(v)}
Waiting2 == {v \in VUs : AtFirst(v) \/ AtSecond(v)}
First  == History(FirstLog(log), Waiting1)
Second == History(SecondLog(log), Waiting2)

Stations == {"idle", "script", "http", "graphql", "errors", "returned", "counting"}
KindAt(p) == IF p = "http" THEN "http" ELSE IF p \in {"graphql", "errors"} THEN "graphql" ELSE "iteration"

Ops == {res \in Outcome("http") : res.status \in Statuses \union {0}} \union Outcome("graphql") \union [kind : {"iteration"}, err : BOOLEAN]
       \union [kind : {"check"}, name : CheckNames, result : {"pass", "fail", "throw"}]

\* The VUs' logs of entries in S.
Logs(S)   == [VUs -> Seq(S)]
EntryType == [op : Ops, first : BOOLEAN, second : BOOLEAN]

HistType  == [counts : [Buckets -> Nat], n : Nat, sum : Nat, min : Nat, max : Nat]
ShardType == [ok : HistType, failed : HistType, statuses : [Statuses \union {0} -> Nat]]
CheckType == [passes : Nat, fails : Nat, firstError : Nat]
ProtocolsType == [HTTP1 : Nat, HTTP2 : Nat, Other : Nat]
IndexType == UNION {[S -> Nat] : S \in SUBSET CheckNames}
RecType   == [unsent : Nat, scriptErrors : Nat, firstScriptError : Nat, iterations : Nat,
              protocols : ProtocolsType,
              checkIndex : IndexType, checks : Seq(CheckType)]

FamShards   == 0..(NumShards - 1)
CounterType == [count : Nat, trues : Nat]
StoreType   == [recs : [VUs -> RecType], shards : [HTTPShards -> ShardType], names : Seq(CheckNames),
                fams : [DOMAIN FamilyKind -> [FamShards -> ShardType] \union [FamShards -> CounterType]]]

\* The families of the module have the shards of their kind.
FamiliesTyped(st) ==
    /\ st.fams["graphql_req_duration"] \in [FamShards -> ShardType]
    /\ \A f \in {"graphql_reqs", "graphql_req_failed", "graphql_errors"} :
         st.fams[f] \in [FamShards -> CounterType]

WorkloadTypeOK ==
    /\ pc \in [VUs -> Stations]
    /\ ended \in BOOLEAN
    /\ store \in StoreType /\ FamiliesTyped(store)
    /\ log \in Logs(EntryType)
    /\ order \in Seq(CheckNames)

\* A VU that is about to record has an entry of that kind, good if the test goes on.
PendingAt(v) ==
    /\ pc[v] \notin {"idle", "script"} => log[v] # <<>> /\ Op(v).kind = KindAt(pc[v])
    /\ AtFirst(v) => log[v][Len(log[v])].first = ~ended
    /\ AtFirst(v) \/ AtSecond(v) => log[v][Len(log[v])].second = ~ended
    /\ pc[v] = "errors" => Op(v).errors
PendingInv == \A v \in VUs : PendingAt(v)

-----------------------------------------------------------------------------
(* What the counters of a store stand for, given what has been recorded so far *)

\* No protocol, or no error code.
Blank == ""

\* HTTP requests, by VU and by shard.
UnsentOf(h, v) == {i \in DOMAIN h : i[1] = v /\ h[i].op.kind = "http" /\ ~h[i].op.sent}
SentOf(h)      == {i \in DOMAIN h : h[i].op.kind = "http" /\ h[i].op.sent /\ h[i].good}
GoodIn(h, j)   == {i \in SentOf(h) : ShardOf(i[1]) = j /\ OK(h[i].op)}
BadIn(h, j)    == {i \in SentOf(h) : ShardOf(i[1]) = j /\ ~OK(h[i].op)}
StatusIn(h, j, c) ==
    {i \in SentOf(h) : ShardOf(i[1]) = j /\ h[i].op.proto # Blank /\ StatusClass(h[i].op.status) = c}
ProtoOf(h, v, protos) == {i \in SentOf(h) : i[1] = v /\ h[i].op.proto # Blank /\ h[i].op.proto \in protos}
HTTP2 == {"HTTP/2.0"}
HTTP1 == {"HTTP/1.1", "HTTP/1.0"}

RequestsMatch(st, h) ==
    /\ \A v \in VUs : /\ st.recs[v].unsent = Count(UnsentOf(h, v))
                      /\ st.recs[v].protocols.HTTP2 = Count(ProtoOf(h, v, HTTP2))
                      /\ st.recs[v].protocols.HTTP1 = Count(ProtoOf(h, v, HTTP1))
    /\ \A j \in HTTPShards : /\ st.shards[j].ok.n = Count(GoodIn(h, j))
                             /\ st.shards[j].failed.n = Count(BadIn(h, j))
                             /\ \A c \in Statuses \union {0} : st.shards[j].statuses[c] = Count(StatusIn(h, j, c))

\* Iterations and their errors.
ErrorsOf(h, v)     == {i \in DOMAIN h : i[1] = v /\ h[i].op.kind = "iteration" /\ h[i].op.err /\ h[i].good}
IterationsOf(h, v) == {i \in DOMAIN h : i[1] = v /\ h[i].op.kind = "iteration" /\ h[i].good}

ErrorsMatch(st, h) ==
    \A v \in VUs : /\ st.recs[v].scriptErrors = Count(ErrorsOf(h, v))
                   /\ st.recs[v].firstScriptError = None <=> st.recs[v].scriptErrors = 0
IterationsMatch(st, h) == \A v \in VUs : st.recs[v].iterations = Count(IterationsOf(h, v))

\* GraphQL operations, by shard.
OpsIn(h, j)        == {i \in DOMAIN h : FamShard(i[1]) = j /\ h[i].op.kind = "graphql" /\ h[i].good}
WrongIn(h, j)      == {i \in OpsIn(h, j) : Code(h[i].op) # Blank}
TimedIn(h, j)      == {i \in OpsIn(h, j) : h[i].op.sent /\ Code(h[i].op) = Blank}
TimedWrongIn(h, j) == {i \in OpsIn(h, j) : h[i].op.sent /\ Code(h[i].op) # Blank}
AnswersIn(h, j)    == {i \in OpsIn(h, j) : h[i].op.errors}

OperationsMatch(st, h) ==
    \A j \in FamShards :
      /\ st.fams["graphql_reqs"][j].count = Count(OpsIn(h, j))
      /\ st.fams["graphql_req_failed"][j].count = Count(OpsIn(h, j))
      /\ st.fams["graphql_req_failed"][j].trues = Count(WrongIn(h, j))
      /\ st.fams["graphql_req_duration"][j].ok.n = Count(TimedIn(h, j))
      /\ st.fams["graphql_req_duration"][j].failed.n = Count(TimedWrongIn(h, j))
AnswersMatch(st, h) == \A j \in FamShards : st.fams["graphql_errors"][j].count = Count(AnswersIn(h, j))

\* The shared table has each check once, in the order of their first runs, and the
\* recorders' caches agree with it.
NamesMatch(st, h, names) ==
    /\ st.names = names
    /\ \A k, l \in DOMAIN names : names[k] = names[l] => k = l
    /\ \A i \in DOMAIN h : h[i].op.kind = "check" => \E k \in DOMAIN names : names[k] = h[i].op.name
    /\ \A v \in VUs :
         /\ Len(st.recs[v].checks) <= Len(names)
         /\ \A name \in DOMAIN st.recs[v].checkIndex :
              /\ st.recs[v].checkIndex[name] \in DOMAIN names
              /\ names[st.recs[v].checkIndex[name]] = name

RunsOf(h, v, name, results) == {i \in DOMAIN h : /\ i[1] = v /\ h[i].op.kind = "check"
                                                 /\ h[i].op.name = name /\ h[i].op.result \in results}
TallyOf(st, v, k) == IF k \in DOMAIN st.recs[v].checks THEN st.recs[v].checks[k] ELSE noCount
TallyMatches(t, h, v, name) ==
    /\ t.passes = Count(RunsOf(h, v, name, {"pass"}))
    /\ t.fails = Count(RunsOf(h, v, name, {"fail", "throw"}))
    /\ t.firstError = IF RunsOf(h, v, name, {"throw"}) = {} THEN None ELSE v
ChecksMatch(st, h, names) ==
    \A v \in VUs : \A k \in DOMAIN names : TallyMatches(TallyOf(st, v, k), h, v, names[k])

StoreMatches(st, h1, h2, names) ==
    /\ RequestsMatch(st, h1) /\ ErrorsMatch(st, h1) /\ IterationsMatch(st, h2)
    /\ OperationsMatch(st, h1) /\ AnswersMatch(st, h2)
    /\ NamesMatch(st, h1, names) /\ ChecksMatch(st, h1, names)

\* The report is that of the store, which nobody writes to any more.
StoreReported ==
    IF report.over
    THEN /\ \A v \in VUs : pc[v] = "idle"
         /\ report.summary = Merge(store) /\ report.families = Summarize(store)
    ELSE report = NoReport

WorkloadInv == /\ WorkloadTypeOK /\ PendingInv /\ StoreMatches(store, First, Second, order)
               /\ StoreReported
-----------------------------------------------------------------------------
(* Workload: shards and histograms *)

\* Every VU has a shard.
LEMMA ShardsTyped ==
    /\ IsFiniteSet(VUs) /\ IsFiniteSet(HTTPShards) /\ IsFiniteSet(FamShards)
    /\ \E m \in Nat \ {0} : HTTPShards = 0..(m - 1) /\ Cardinality(HTTPShards) = m
    /\ \A v \in VUs : v \in Nat \ {0} /\ ShardOf(v) \in HTTPShards /\ FamShard(v) \in FamShards
<1> DEFINE m == Min({NumVUs, NumShards})
<1>1. m \in Nat \ {0} /\ NumShards \in Nat \ {0} /\ NumVUs \in Nat \ {0}
  <2>1. NumShards \in Nat \ {0} /\ NumVUs \in Nat \ {0}
    BY StoreAssumption
  <2>2. m \in {NumVUs, NumShards}
    BY <2>1, MinOfTwo
  <2>3. QED
    BY <2>1, <2>2
<1> HIDE DEF m
<1>2. HTTPShards = 0..(m - 1)
  BY DEF HTTPShards, m
<1>3. IsFiniteSet(HTTPShards) /\ Cardinality(HTTPShards) = m
  BY <1>1, <1>2, FS_Interval
<1>4. IsFiniteSet(VUs) /\ IsFiniteSet(FamShards)
  BY <1>1, FS_Interval DEF VUs, FamShards
<1>5. ASSUME NEW v \in VUs
      PROVE  v \in Nat \ {0} /\ ShardOf(v) \in HTTPShards /\ FamShard(v) \in FamShards
  <2>1. v \in Nat \ {0} /\ v - 1 \in Nat
    BY <1>1, <1>5 DEF VUs
  <2>2. (v - 1) % m \in 0..(m - 1) /\ (v - 1) % NumShards \in 0..(NumShards - 1)
    BY <1>1, <2>1
  <2>3. QED
    BY <1>2, <1>3, <2>1, <2>2 DEF ShardOf, FamShard, FamShards
<1>6. QED
  BY <1>1, <1>2, <1>3, <1>4, <1>5

\* The larger of two numbers is one of them.
LEMMA MaxOfTwo ==
    ASSUME NEW a \in Int, NEW b \in Int
    PROVE  Max({a, b}) \in {a, b}
<1>1. \E x \in {a, b} : \A y \in {a, b} : x >= y
  BY SMT
<1>2. QED
  BY <1>1, Zenon DEF Max

\* What record and Into change.
LEMMA RecordTyped ==
    ASSUME NEW h \in HistType, NEW d \in Nat
    PROVE  record(h, d) \in HistType /\ record(h, d).n = h.n + 1
<1>1. h.counts \in [Buckets -> Nat] /\ h.n \in Nat /\ h.sum \in Nat /\ h.min \in Nat /\ h.max \in Nat
  BY DEF HistType
<1>2. [h.counts EXCEPT ![BucketOf(d)] = @ + 1] \in [Buckets -> Nat]
  <2>1. \A b \in Buckets : h.counts[b] \in Nat /\ h.counts[b] + 1 \in Nat
    BY <1>1
  <2>2. QED
    BY <1>1, <2>1
<1>3. Min({h.min, d}) \in Nat /\ Max({h.max, d}) \in Nat
  <2>1. Min({h.min, d}) \in {h.min, d}
    <3>1. \A a, b \in Int : Min({a, b}) \in {a, b}
      BY MinOfTwo
    <3>2. QED
      BY <1>1, <3>1
  <2>2. Max({h.max, d}) \in {h.max, d}
    BY <1>1, MaxOfTwo
  <2>3. QED
    BY <1>1, <2>1, <2>2
<1>4. QED
  BY <1>1, <1>2, <1>3 DEF record, HistType

\* A recording adds one to the number of the histogram it goes into.
LEMMA IntoIs ==
    ASSUME NEW s \in ShardType, NEW d \in Nat, NEW ok \in BOOLEAN
    PROVE  /\ Into(s, d, ok) \in ShardType /\ Into(s, d, ok).statuses = s.statuses
           /\ Into(s, d, ok).ok.n = IF ok THEN s.ok.n + 1 ELSE s.ok.n
           /\ Into(s, d, ok).failed.n = IF ok THEN s.failed.n ELSE s.failed.n + 1
<1>1. s.ok \in HistType /\ s.failed \in HistType
  BY DEF ShardType
<1>2. record(s.ok, d) \in HistType /\ record(s.ok, d).n = s.ok.n + 1
  BY <1>1, RecordTyped
<1>3. record(s.failed, d) \in HistType /\ record(s.failed, d).n = s.failed.n + 1
  BY <1>1, RecordTyped
<1>4. CASE ok = TRUE
  BY <1>1, <1>2, <1>4 DEF Into, ShardType
<1>5. CASE ok = FALSE
  BY <1>1, <1>3, <1>5 DEF Into, ShardType
<1>6. QED
  BY <1>4, <1>5

-----------------------------------------------------------------------------
(* Workload: what each operation of a recorder changes in the store *)

\* A step changes nothing but the recorder of v, to r; or the shard of v, to s.
RecChanged(st, new, v, r) ==
    /\ new \in StoreType /\ new.shards = st.shards /\ new.names = st.names /\ new.fams = st.fams
    /\ \A w \in VUs : new.recs[w] = IF w = v THEN r ELSE st.recs[w]
ShardChanged(st, new, v, s) ==
    /\ new \in StoreType /\ new.recs = st.recs /\ new.names = st.names /\ new.fams = st.fams
    /\ \A j \in HTTPShards : new.shards[j] = IF j = ShardOf(v) THEN s ELSE st.shards[j]

\* The parts of a store.
LEMMA StoreParts ==
    ASSUME NEW st \in StoreType
    PROVE  /\ st.recs \in [VUs -> RecType] /\ st.shards \in [HTTPShards -> ShardType]
           /\ st.names \in Seq(CheckNames) /\ DOMAIN st.fams = DOMAIN FamilyKind
           /\ \A v \in VUs : st.recs[v] \in RecType
           /\ \A j \in HTTPShards : st.shards[j] \in ShardType
  BY DEF StoreType

\* Replacing the recorder of v changes nothing else.
LEMMA SetRec ==
    ASSUME NEW st \in StoreType, NEW v \in VUs, NEW r \in RecType
    PROVE  RecChanged(st, [st EXCEPT !.recs[v] = r], v, r)
  BY DEF StoreType, RecChanged

\* Replacing the shard of v changes nothing else.
LEMMA SetShard ==
    ASSUME NEW st \in StoreType, NEW v \in VUs, NEW s \in ShardType
    PROVE  ShardChanged(st, [st EXCEPT !.shards[ShardOf(v)] = s], v, s)
<1>1. ShardOf(v) \in HTTPShards
  BY ShardsTyped
<1>2. QED
  BY <1>1 DEF StoreType, ShardChanged

\* A request's latency goes into the shard of its VU.
LEMMA RecordIs ==
    ASSUME NEW st \in StoreType, NEW v \in VUs, NEW d \in Nat, NEW ok \in BOOLEAN
    PROVE  ShardChanged(st, Record(st, v, d, ok), v, Into(st.shards[ShardOf(v)], d, ok))
<1>1. st.shards[ShardOf(v)] \in ShardType
  BY ShardsTyped, StoreParts
<1>2. Into(st.shards[ShardOf(v)], d, ok) \in ShardType
  BY <1>1, IntoIs
<1>3. Record(st, v, d, ok) = [st EXCEPT !.shards[ShardOf(v)] = Into(st.shards[ShardOf(v)], d, ok)]
  BY DEF Record
<1>4. QED
  BY <1>2, <1>3, SetShard

\* An unsent request is counted in its VU's recorder.
LEMMA RecordUnsentIs ==
    ASSUME NEW st \in StoreType, NEW v \in VUs
    PROVE  LET r == [st.recs[v] EXCEPT !.unsent = @ + 1]
           IN  r \in RecType /\ RecChanged(st, RecordUnsent(st, v), v, r)
<1> DEFINE r == [st.recs[v] EXCEPT !.unsent = @ + 1]
<1>1. st.recs[v] \in RecType
  BY StoreParts
<1>2. r \in RecType
  <2> DEFINE old == st.recs[v]
  <2>1. old \in RecType
    BY <1>1
  <2> HIDE DEF old
  <2>2. [old EXCEPT !.unsent = old.unsent + 1] \in RecType
    BY <2>1 DEF RecType
  <2>3. QED
    BY <2>2 DEF old
<1>3. RecordUnsent(st, v) = [st EXCEPT !.recs[v] = r]
  BY DEF RecordUnsent
<1>4. QED
  BY <1>2, <1>3, SetRec

\* A code counts as itself or as 0.
LEMMA ClassTyped ==
    ASSUME NEW c \in Statuses \union {0}
    PROVE  StatusClass(c) \in Statuses \union {0}
  BY DEF StatusClass

\* A status is counted in the shard of its VU, under its class.
LEMMA RecordStatusIs ==
    ASSUME NEW st \in StoreType, NEW v \in VUs, NEW code \in Statuses \union {0}
    PROVE  LET old == st.shards[ShardOf(v)]
               s   == [old EXCEPT !.statuses[StatusClass(code)] = @ + 1]
           IN  s \in ShardType /\ ShardChanged(st, RecordStatus(st, v, code), v, s)
<1> DEFINE old == st.shards[ShardOf(v)]
           c == StatusClass(code)
           s == [old EXCEPT !.statuses[c] = @ + 1]
<1>1. old \in ShardType
  BY ShardsTyped, StoreParts
<1>2. s \in ShardType
  <2> HIDE DEF c, old
  <2>0. old.statuses \in [Statuses \union {0} -> Nat]
    BY <1>1 DEF ShardType
  <2>1. [old.statuses EXCEPT ![c] = @ + 1] \in [Statuses \union {0} -> Nat]
    <3>1. \A x \in Statuses \union {0} : old.statuses[x] \in Nat /\ old.statuses[x] + 1 \in Nat
      BY <2>0
    <3>2. QED
      BY <2>0, <3>1
  <2>2. s = [old EXCEPT !.statuses = [old.statuses EXCEPT ![c] = @ + 1]]
    OBVIOUS
  <2>3. QED
    BY <1>1, <2>1, <2>2 DEF ShardType
<1>3. RecordStatus(st, v, code) = [st EXCEPT !.shards[ShardOf(v)] = s]
  BY DEF RecordStatus
<1>4. QED
  BY <1>2, <1>3, SetShard

\* The counter of a protocol.
ProtoKey(proto) == IF proto \in HTTP2 THEN "HTTP2" ELSE IF proto \in HTTP1 THEN "HTTP1" ELSE "Other"

\* A protocol is counted in its VU's recorder.
LEMMA RecordProtocolIs ==
    ASSUME NEW st \in StoreType, NEW v \in VUs, NEW proto
    PROVE  LET r == [st.recs[v] EXCEPT !.protocols[ProtoKey(proto)] = @ + 1]
           IN  r \in RecType /\ RecChanged(st, RecordProtocol(st, v, proto), v, r)
<1> DEFINE k == ProtoKey(proto)
           old == st.recs[v]
           r == [old EXCEPT !.protocols[k] = @ + 1]
<1>1. old \in RecType
  BY StoreParts
<1>2. k \in {"HTTP1", "HTTP2", "Other"}
  BY DEF ProtoKey
<1>3. r \in RecType
  <2> HIDE DEF k, old
  <2>1. [old.protocols EXCEPT ![k] = @ + 1] \in ProtocolsType
    BY <1>1, <1>2 DEF RecType, ProtocolsType
  <2>2. r = [old EXCEPT !.protocols = [old.protocols EXCEPT ![k] = @ + 1]]
    OBVIOUS
  <2>3. QED
    BY <1>1, <2>1, <2>2 DEF RecType
<1>4. (CASE proto = "HTTP/2.0" -> "HTTP2" [] proto \in {"HTTP/1.1", "HTTP/1.0"} -> "HTTP1" [] OTHER -> "Other") = k
  BY DEF ProtoKey, HTTP1, HTTP2
<1>5. RecordProtocol(st, v, proto) = [st EXCEPT !.recs[v] = r]
  BY <1>4 DEF RecordProtocol
<1>6. QED
  BY <1>3, <1>5, SetRec

\* An iteration is counted in its VU's recorder.
LEMMA RecordIterationIs ==
    ASSUME NEW st \in StoreType, NEW v \in VUs
    PROVE  LET r == [st.recs[v] EXCEPT !.iterations = @ + 1]
           IN  r \in RecType /\ RecChanged(st, RecordIteration(st, v), v, r)
<1> DEFINE r == [st.recs[v] EXCEPT !.iterations = @ + 1]
<1>1. st.recs[v] \in RecType
  BY StoreParts
<1>2. r \in RecType
  BY <1>1 DEF RecType
<1>3. RecordIteration(st, v) = [st EXCEPT !.recs[v] = r]
  BY DEF RecordIteration
<1>4. QED
  BY <1>2, <1>3, SetRec

\* A script error is counted in its VU's recorder, which keeps the first message.
LEMMA RecordScriptErrorIs ==
    ASSUME NEW st \in StoreType, NEW v \in VUs
    PROVE  LET old == st.recs[v]
               r == [old EXCEPT !.firstScriptError = IF old.scriptErrors = 0 THEN v ELSE @, !.scriptErrors = @ + 1]
           IN  r \in RecType /\ RecChanged(st, RecordScriptError(st, v, v), v, r)
<1> DEFINE old == st.recs[v]
           r == [old EXCEPT !.firstScriptError = IF old.scriptErrors = 0 THEN v ELSE @, !.scriptErrors = @ + 1]
<1>1. old \in RecType /\ v \in Nat
  BY StoreParts, ShardsTyped
<1>2. r \in RecType
  <2> DEFINE m == IF old.scriptErrors = 0 THEN v ELSE old.firstScriptError
             n == old.scriptErrors + 1
  <2> HIDE DEF old
  <2>1. m \in Nat /\ n \in Nat
    BY <1>1 DEF RecType
  <2>2. r = [old EXCEPT !.firstScriptError = m, !.scriptErrors = n]
    OBVIOUS
  <2> HIDE DEF m, n
  <2>3. QED
    BY <1>1, <2>1, <2>2 DEF RecType
<1>3. RecordScriptError(st, v, v) = [st EXCEPT !.recs[v] = r]
  BY DEF RecordScriptError
<1>4. QED
  BY <1>2, <1>3, SetRec

\* A step changes nothing but the shard of v in family f, to s.
FamChanged(st, new, f, v, s) ==
    /\ new \in StoreType /\ new.recs = st.recs /\ new.shards = st.shards /\ new.names = st.names
    /\ \A g \in DOMAIN FamilyKind : g # f => new.fams[g] = st.fams[g]
    /\ \A j \in FamShards : new.fams[f][j] = IF j = FamShard(v) THEN s ELSE st.fams[f][j]

\* The families of the GraphQL module are declared.
LEMMA FamiliesDeclared ==
    {"graphql_req_duration", "graphql_reqs", "graphql_req_failed", "graphql_errors"} \subseteq DOMAIN FamilyKind
<1>1. DOMAIN GraphQLFamilies = {"graphql_req_duration", "graphql_reqs", "graphql_req_failed", "graphql_errors"}
  BY DEF GraphQLFamilies
<1>2. QED
  BY <1>1, OutcomesAssumption

\* Replacing the shard of v in a family changes nothing else.
LEMMA SetFam ==
    ASSUME NEW st \in StoreType, NEW f \in DOMAIN FamilyKind, NEW v \in VUs, NEW s,
           \/ st.fams[f] \in [FamShards -> ShardType] /\ s \in ShardType
           \/ st.fams[f] \in [FamShards -> CounterType] /\ s \in CounterType
    PROVE  LET new == [st EXCEPT !.fams[f][FamShard(v)] = s]
           IN  /\ FamChanged(st, new, f, v, s)
               /\ s \in ShardType /\ st.fams[f] \in [FamShards -> ShardType]
                    => new.fams[f] \in [FamShards -> ShardType]
               /\ s \in CounterType /\ st.fams[f] \in [FamShards -> CounterType]
                    => new.fams[f] \in [FamShards -> CounterType]
<1> DEFINE new == [st EXCEPT !.fams[f][FamShard(v)] = s]
           fam == [st.fams[f] EXCEPT ![FamShard(v)] = s]
           A == [FamShards -> ShardType]
           B == [FamShards -> CounterType]
<1>1. FamShard(v) \in FamShards
  BY ShardsTyped
<1>2. /\ s \in ShardType /\ st.fams[f] \in A => fam \in A
      /\ s \in CounterType /\ st.fams[f] \in B => fam \in B
      /\ \A j \in FamShards : fam[j] = IF j = FamShard(v) THEN s ELSE st.fams[f][j]
  <2>1. st.fams[f] \in A \/ st.fams[f] \in B
    OBVIOUS
  <2>2. s \in ShardType /\ st.fams[f] \in A => fam \in A
    BY <1>1
  <2>3. s \in CounterType /\ st.fams[f] \in B => fam \in B
    BY <1>1
  <2>4. DOMAIN st.fams[f] = FamShards
    BY <2>1
  <2>5. \A j \in FamShards : fam[j] = IF j = FamShard(v) THEN s ELSE st.fams[f][j]
    BY <2>4
  <2>6. QED
    BY <2>2, <2>3, <2>5
<1>3. fam \in A \union B
  BY <1>2
<1>4. new = [st EXCEPT !.fams[f] = fam]
  OBVIOUS
<1>5. /\ new \in StoreType /\ new.recs = st.recs /\ new.shards = st.shards /\ new.names = st.names
      /\ new.fams[f] = fam /\ \A g \in DOMAIN FamilyKind : g # f => new.fams[g] = st.fams[g]
  <2> HIDE DEF new, fam
  <2> QED BY <1>3, <1>4 DEF StoreType
<1>6. QED
  <2> HIDE DEF new, fam
  <2>1. FamChanged(st, new, f, v, s)
    BY <1>2, <1>5 DEF FamChanged
  <2>2. QED
    BY <2>1, <1>2, <1>5 DEF new

\* A duration goes into the shard of its VU in the trend.
LEMMA TrendIs ==
    ASSUME NEW st \in StoreType, FamiliesTyped(st), NEW v \in VUs, NEW d \in Nat, NEW ok \in BOOLEAN
    PROVE  LET f == "graphql_req_duration"
               new == Trend(st, v, f, d, ok)
           IN  FamiliesTyped(new) /\ FamChanged(st, new, f, v, Into(st.fams[f][FamShard(v)], d, ok))
<1> DEFINE f == "graphql_req_duration"
           old == st.fams[f][FamShard(v)]
           s == Into(old, d, ok)
           new == Trend(st, v, f, d, ok)
<1>1. f \in DOMAIN FamilyKind /\ st.fams[f] \in [FamShards -> ShardType]
  BY FamiliesDeclared DEF FamiliesTyped
<1>2. old \in ShardType
  BY <1>1, ShardsTyped
<1>3. s \in ShardType
  BY <1>2, IntoIs
<1>4. new = [st EXCEPT !.fams[f][FamShard(v)] = s]
  BY DEF Trend
<1>5. FamChanged(st, new, f, v, s) /\ new.fams[f] \in [FamShards -> ShardType]
  <2> HIDE DEF s, new, old
  <2> QED BY <1>1, <1>3, <1>4, SetFam
<1>6. FamiliesTyped(new)
  <2>1. \A g \in {"graphql_reqs", "graphql_req_failed", "graphql_errors"} : g # f /\ g \in DOMAIN FamilyKind
    BY FamiliesDeclared
  <2>2. QED
    <3> HIDE DEF new, s
    <3> QED BY <1>5, <2>1 DEF FamiliesTyped, FamChanged
<1>7. QED
  BY <1>5, <1>6

\* A change to a counter of the module keeps the types.
LEMMA CounterKept ==
    ASSUME NEW st, NEW new, FamiliesTyped(st), NEW v \in VUs, NEW s,
           NEW f \in {"graphql_reqs", "graphql_req_failed", "graphql_errors"},
           FamChanged(st, new, f, v, s), new.fams[f] \in [FamShards -> CounterType]
    PROVE  FamiliesTyped(new)
<1>1. \A g \in {"graphql_reqs", "graphql_req_failed", "graphql_errors"} : g \in DOMAIN FamilyKind
  BY FamiliesDeclared
<1>2. "graphql_req_duration" \in DOMAIN FamilyKind /\ f # "graphql_req_duration"
  BY FamiliesDeclared
<1>3. QED
  BY <1>1, <1>2 DEF FamiliesTyped, FamChanged

\* A counter grows in the shard of its VU.
LEMMA AddIs ==
    ASSUME NEW st \in StoreType, FamiliesTyped(st), NEW v \in VUs,
           NEW f \in {"graphql_reqs", "graphql_req_failed", "graphql_errors"}
    PROVE  LET new == Add(st, v, f, 1)
               s == [st.fams[f][FamShard(v)] EXCEPT !.count = @ + 1]
           IN  s \in CounterType /\ FamiliesTyped(new) /\ FamChanged(st, new, f, v, s)
<1> DEFINE new == Add(st, v, f, 1)
           old == st.fams[f][FamShard(v)]
           s == [old EXCEPT !.count = @ + 1]
<1>1. f \in DOMAIN FamilyKind /\ st.fams[f] \in [FamShards -> CounterType]
  BY FamiliesDeclared DEF FamiliesTyped
<1>2. old \in CounterType
  BY <1>1, ShardsTyped
<1>3. s \in CounterType
  <2> HIDE DEF old
  <2> QED BY <1>2 DEF CounterType
<1>4. new = [st EXCEPT !.fams[f][FamShard(v)] = s]
  BY DEF Add
<1>5. FamChanged(st, new, f, v, s) /\ new.fams[f] \in [FamShards -> CounterType]
  <2> HIDE DEF s, new, old
  <2> QED BY <1>1, <1>3, <1>4, SetFam
<1>6. FamiliesTyped(new)
  <2> HIDE DEF s, new, old
  <2> QED BY <1>5, CounterKept
<1>7. QED
  BY <1>3, <1>5, <1>6

\* A rate grows in the shard of its VU.
LEMMA RateIs ==
    ASSUME NEW st \in StoreType, FamiliesTyped(st), NEW v \in VUs, NEW true \in BOOLEAN
    PROVE  LET f == "graphql_req_failed"
               new == Rate(st, v, f, true)
               old == st.fams[f][FamShard(v)]
               s == [old EXCEPT !.count = @ + 1, !.trues = IF true THEN @ + 1 ELSE @]
           IN  s \in CounterType /\ FamiliesTyped(new) /\ FamChanged(st, new, f, v, s)
<1> DEFINE f == "graphql_req_failed"
           new == Rate(st, v, f, true)
           old == st.fams[f][FamShard(v)]
           n == IF true THEN old.trues + 1 ELSE old.trues
           s == [old EXCEPT !.count = @ + 1, !.trues = IF true THEN @ + 1 ELSE @]
<1>1. f \in DOMAIN FamilyKind /\ st.fams[f] \in [FamShards -> CounterType]
  BY FamiliesDeclared DEF FamiliesTyped
<1>2. old \in CounterType /\ FamShard(v) \in FamShards
  BY <1>1, ShardsTyped
<1>3. s \in CounterType /\ s = [old EXCEPT !.count = old.count + 1, !.trues = n]
  <2> HIDE DEF old
  <2>1. s = [old EXCEPT !.count = old.count + 1, !.trues = n]
    OBVIOUS
  <2>2. old.count + 1 \in Nat /\ n \in Nat
    BY <1>2 DEF CounterType
  <2> HIDE DEF n
  <2>3. QED
    BY <1>2, <2>1, <2>2 DEF CounterType
<1>4. new = [st EXCEPT !.fams[f][FamShard(v)] = s]
  <2>1. DOMAIN st = {"recs", "shards", "names", "fams"} /\ "fams" \in DOMAIN st
    BY DEF StoreType
  <2>2. DOMAIN st.fams = DOMAIN FamilyKind /\ DOMAIN st.fams[f] = FamShards
    BY <1>1, StoreParts
  <2> DEFINE j == FamShard(v)
             c == old.count + 1
  <2>3. new = [st EXCEPT !.fams[f][j].count = c, !.fams[f][j].trues = n]
    BY DEF Rate
  <2>4. s = [st.fams[f][j] EXCEPT !.count = c, !.trues = n] /\ j \in FamShards /\ f \in DOMAIN FamilyKind
    BY <1>1, <1>2, <1>3
  <2>5. DOMAIN st.fams[f][j] = {"count", "trues"}
    BY <1>2 DEF CounterType
  <2> HIDE DEF new, s, n, c, f, j
  <2>6. new = [st EXCEPT !.fams[f][j] = s]
    <3> DEFINE G == st.fams
               H == G[f]
               a == [H[j] EXCEPT !.count = c]
               H1 == [H EXCEPT ![j] = a]
               G1 == [G EXCEPT ![f] = H1]
               st1 == [st EXCEPT !.fams = G1]
               H2 == [H EXCEPT ![j] = s]
               G2 == [G EXCEPT ![f] = H2]
    <3>1. s = [a EXCEPT !.trues = n]
      BY <2>4
    <3>2. DOMAIN G = DOMAIN FamilyKind /\ DOMAIN H = FamShards
      BY <2>2
    <3>3. new = [st1 EXCEPT !.fams[f][j].trues = n]
      BY <2>3
    <3> HIDE DEF H, a, s, G
    <3>4. st1.fams = G1 /\ G1[f] = H1 /\ H1[j] = a
      BY <2>1, <2>4, <3>2
    <3>5. [H1 EXCEPT ![j] = s] = H2
      BY <2>4, <3>2
    <3> HIDE DEF H1, H2
    <3>6. [G1 EXCEPT ![f] = H2] = G2
      BY <2>4, <3>2
    <3> HIDE DEF G1, G2
    <3>7. [st1 EXCEPT !.fams = G2] = [st EXCEPT !.fams = G2]
      BY <2>1
    <3> HIDE DEF st1
    <3>8. new = [st1 EXCEPT !.fams = [st1.fams EXCEPT ![f] = [st1.fams[f] EXCEPT ![j] = [st1.fams[f][j] EXCEPT !.trues = n]]]]
      BY <3>3
    <3>9. new = [st EXCEPT !.fams = G2]
      BY <3>1, <3>4, <3>5, <3>6, <3>7, <3>8
    <3>10. QED
      BY <3>9 DEF G2, H2, G, H
  <2>7. QED
    BY <2>6, Zenon DEF j
<1>5. FamChanged(st, new, f, v, s) /\ new.fams[f] \in [FamShards -> CounterType]
  <2> HIDE DEF s, new, old
  <2> QED BY <1>1, <1>3, <1>4, SetFam
<1>6. FamiliesTyped(new)
  <2> HIDE DEF s, new, old
  <2> QED BY <1>5, CounterKept
<1>7. QED
  BY <1>3, <1>5, <1>6

-----------------------------------------------------------------------------
(* Workload: one entry more *)

\* g is what has been recorded when the entry x comes to h as e.
Extends(g, h, x, e) ==
    /\ IsFiniteSet(DOMAIN h) /\ x \notin DOMAIN h
    /\ DOMAIN g = DOMAIN h \union {x} /\ g[x] = e
    /\ \A i \in DOMAIN h : g[i] = h[i]

\* A set with one element more has one element more.
LEMMA CountGrows ==
    ASSUME NEW D, IsFiniteSet(D), NEW x, x \notin D, NEW A \in SUBSET D, NEW B, NEW yes \in BOOLEAN,
           B = IF yes THEN A \union {x} ELSE A
    PROVE  Count(A) \in Nat /\ Count(B) = IF yes THEN Count(A) + 1 ELSE Count(A)
<1>1. IsFiniteSet(A) /\ x \notin A /\ Cardinality(A) \in Nat
  BY FS_Subset, FS_CardinalityType
<1>2. Cardinality(A \union {x}) = Cardinality(A) + 1
  BY <1>1, FS_AddElement
<1>3. CASE yes = TRUE
  BY <1>1, <1>2, <1>3 DEF Count
<1>4. CASE yes = FALSE
  BY <1>1, <1>4 DEF Count
<1>5. QED
  BY <1>3, <1>4

\* Whom the entry makes one more.
LEMMA UnsentGrows ==
    ASSUME NEW g, NEW h, NEW x, NEW e, Extends(g, h, x, e), NEW v
    PROVE  LET yes == x[1] = v /\ e.op.kind = "http" /\ ~e.op.sent
           IN  /\ Count(UnsentOf(h, v)) \in Nat
               /\ yes => Count(UnsentOf(g, v)) = Count(UnsentOf(h, v)) + 1
               /\ ~yes => Count(UnsentOf(g, v)) = Count(UnsentOf(h, v))
<1> DEFINE yes == x[1] = v /\ e.op.kind = "http" /\ ~e.op.sent
<1>1. UnsentOf(g, v) = IF yes THEN UnsentOf(h, v) \union {x} ELSE UnsentOf(h, v)
  BY DEF Extends, UnsentOf
<1>2. UnsentOf(h, v) \in SUBSET DOMAIN h /\ IsFiniteSet(DOMAIN h) /\ x \notin DOMAIN h
  BY DEF Extends, UnsentOf
<1>3. yes \in BOOLEAN
  OBVIOUS
<1> HIDE DEF yes
<1>4. Count(UnsentOf(h, v)) \in Nat /\ Count(UnsentOf(g, v)) = IF yes THEN Count(UnsentOf(h, v)) + 1 ELSE Count(UnsentOf(h, v))
  BY <1>1, <1>2, <1>3, CountGrows
<1>5. QED
  BY <1>4 DEF yes

\* How each of the counts grows with one entry more of the history: requests that
LEMMA GoodGrows ==
    ASSUME NEW g, NEW h, NEW x, NEW e, Extends(g, h, x, e), NEW j
    PROVE  LET yes == e.op.kind = "http" /\ e.op.sent /\ e.good /\ ShardOf(x[1]) = j /\ OK(e.op)
           IN  /\ Count(GoodIn(h, j)) \in Nat
               /\ yes => Count(GoodIn(g, j)) = Count(GoodIn(h, j)) + 1
               /\ ~yes => Count(GoodIn(g, j)) = Count(GoodIn(h, j))
<1> DEFINE yes == e.op.kind = "http" /\ e.op.sent /\ e.good /\ ShardOf(x[1]) = j /\ OK(e.op)
<1>1. GoodIn(g, j) = IF yes THEN GoodIn(h, j) \union {x} ELSE GoodIn(h, j)
  BY DEF Extends, SentOf, GoodIn
<1>2. GoodIn(h, j) \in SUBSET DOMAIN h /\ IsFiniteSet(DOMAIN h) /\ x \notin DOMAIN h
  BY DEF Extends, SentOf, GoodIn
<1>3. yes \in BOOLEAN
  OBVIOUS
<1> HIDE DEF yes
<1>4. Count(GoodIn(h, j)) \in Nat /\ Count(GoodIn(g, j)) = IF yes THEN Count(GoodIn(h, j)) + 1 ELSE Count(GoodIn(h, j))
  BY <1>1, <1>2, <1>3, CountGrows
<1>5. QED
  BY <1>4 DEF yes

\* failed,
LEMMA BadGrows ==
    ASSUME NEW g, NEW h, NEW x, NEW e, Extends(g, h, x, e), NEW j
    PROVE  LET yes == e.op.kind = "http" /\ e.op.sent /\ e.good /\ ShardOf(x[1]) = j /\ ~OK(e.op)
           IN  /\ Count(BadIn(h, j)) \in Nat
               /\ yes => Count(BadIn(g, j)) = Count(BadIn(h, j)) + 1
               /\ ~yes => Count(BadIn(g, j)) = Count(BadIn(h, j))
<1> DEFINE yes == e.op.kind = "http" /\ e.op.sent /\ e.good /\ ShardOf(x[1]) = j /\ ~OK(e.op)
<1>1. BadIn(g, j) = IF yes THEN BadIn(h, j) \union {x} ELSE BadIn(h, j)
  BY DEF Extends, SentOf, BadIn
<1>2. BadIn(h, j) \in SUBSET DOMAIN h /\ IsFiniteSet(DOMAIN h) /\ x \notin DOMAIN h
  BY DEF Extends, SentOf, BadIn
<1>3. yes \in BOOLEAN
  OBVIOUS
<1> HIDE DEF yes
<1>4. Count(BadIn(h, j)) \in Nat /\ Count(BadIn(g, j)) = IF yes THEN Count(BadIn(h, j)) + 1 ELSE Count(BadIn(h, j))
  BY <1>1, <1>2, <1>3, CountGrows
<1>5. QED
  BY <1>4 DEF yes

\* answers by status class,
LEMMA StatusGrows ==
    ASSUME NEW g, NEW h, NEW x, NEW e, Extends(g, h, x, e), NEW j, NEW c
    PROVE  LET yes == e.op.kind = "http" /\ e.op.sent /\ e.good /\ ShardOf(x[1]) = j /\ e.op.proto # Blank
                  /\ StatusClass(e.op.status) = c
           IN  /\ Count(StatusIn(h, j, c)) \in Nat
               /\ yes => Count(StatusIn(g, j, c)) = Count(StatusIn(h, j, c)) + 1
               /\ ~yes => Count(StatusIn(g, j, c)) = Count(StatusIn(h, j, c))
<1> DEFINE yes == e.op.kind = "http" /\ e.op.sent /\ e.good /\ ShardOf(x[1]) = j /\ e.op.proto # Blank
                  /\ StatusClass(e.op.status) = c
<1>1. StatusIn(g, j, c) = IF yes THEN StatusIn(h, j, c) \union {x} ELSE StatusIn(h, j, c)
  BY DEF Extends, SentOf, StatusIn
<1>2. StatusIn(h, j, c) \in SUBSET DOMAIN h /\ IsFiniteSet(DOMAIN h) /\ x \notin DOMAIN h
  BY DEF Extends, SentOf, StatusIn
<1>3. yes \in BOOLEAN
  OBVIOUS
<1> HIDE DEF yes
<1>4. Count(StatusIn(h, j, c)) \in Nat /\ Count(StatusIn(g, j, c)) = IF yes THEN Count(StatusIn(h, j, c)) + 1 ELSE Count(StatusIn(h, j, c))
  BY <1>1, <1>2, <1>3, CountGrows
<1>5. QED
  BY <1>4 DEF yes

\* answers by protocol,
LEMMA ProtoGrows ==
    ASSUME NEW g, NEW h, NEW x, NEW e, Extends(g, h, x, e), NEW v, NEW p
    PROVE  LET yes == e.op.kind = "http" /\ e.op.sent /\ e.good /\ x[1] = v /\ e.op.proto # Blank /\ e.op.proto \in p
           IN  /\ Count(ProtoOf(h, v, p)) \in Nat
               /\ yes => Count(ProtoOf(g, v, p)) = Count(ProtoOf(h, v, p)) + 1
               /\ ~yes => Count(ProtoOf(g, v, p)) = Count(ProtoOf(h, v, p))
<1> DEFINE yes == e.op.kind = "http" /\ e.op.sent /\ e.good /\ x[1] = v /\ e.op.proto # Blank /\ e.op.proto \in p
<1>1. ProtoOf(g, v, p) = IF yes THEN ProtoOf(h, v, p) \union {x} ELSE ProtoOf(h, v, p)
  BY DEF Extends, SentOf, ProtoOf
<1>2. ProtoOf(h, v, p) \in SUBSET DOMAIN h /\ IsFiniteSet(DOMAIN h) /\ x \notin DOMAIN h
  BY DEF Extends, SentOf, ProtoOf
<1>3. yes \in BOOLEAN
  OBVIOUS
<1> HIDE DEF yes
<1>4. Count(ProtoOf(h, v, p)) \in Nat /\ Count(ProtoOf(g, v, p)) = IF yes THEN Count(ProtoOf(h, v, p)) + 1 ELSE Count(ProtoOf(h, v, p))
  BY <1>1, <1>2, <1>3, CountGrows
<1>5. QED
  BY <1>4 DEF yes

\* script errors,
LEMMA ErrorsGrow ==
    ASSUME NEW g, NEW h, NEW x, NEW e, Extends(g, h, x, e), NEW v
    PROVE  LET yes == x[1] = v /\ e.op.kind = "iteration" /\ e.op.err /\ e.good
           IN  /\ Count(ErrorsOf(h, v)) \in Nat
               /\ yes => Count(ErrorsOf(g, v)) = Count(ErrorsOf(h, v)) + 1
               /\ ~yes => Count(ErrorsOf(g, v)) = Count(ErrorsOf(h, v))
<1> DEFINE yes == x[1] = v /\ e.op.kind = "iteration" /\ e.op.err /\ e.good
<1>1. ErrorsOf(g, v) = IF yes THEN ErrorsOf(h, v) \union {x} ELSE ErrorsOf(h, v)
  BY DEF Extends, ErrorsOf
<1>2. ErrorsOf(h, v) \in SUBSET DOMAIN h /\ IsFiniteSet(DOMAIN h) /\ x \notin DOMAIN h
  BY DEF Extends, ErrorsOf
<1>3. yes \in BOOLEAN
  OBVIOUS
<1> HIDE DEF yes
<1>4. Count(ErrorsOf(h, v)) \in Nat /\ Count(ErrorsOf(g, v)) = IF yes THEN Count(ErrorsOf(h, v)) + 1 ELSE Count(ErrorsOf(h, v))
  BY <1>1, <1>2, <1>3, CountGrows
<1>5. QED
  BY <1>4 DEF yes

\* iterations,
LEMMA IterationsGrow ==
    ASSUME NEW g, NEW h, NEW x, NEW e, Extends(g, h, x, e), NEW v
    PROVE  LET yes == x[1] = v /\ e.op.kind = "iteration" /\ e.good
           IN  /\ Count(IterationsOf(h, v)) \in Nat
               /\ yes => Count(IterationsOf(g, v)) = Count(IterationsOf(h, v)) + 1
               /\ ~yes => Count(IterationsOf(g, v)) = Count(IterationsOf(h, v))
<1> DEFINE yes == x[1] = v /\ e.op.kind = "iteration" /\ e.good
<1>1. IterationsOf(g, v) = IF yes THEN IterationsOf(h, v) \union {x} ELSE IterationsOf(h, v)
  BY DEF Extends, IterationsOf
<1>2. IterationsOf(h, v) \in SUBSET DOMAIN h /\ IsFiniteSet(DOMAIN h) /\ x \notin DOMAIN h
  BY DEF Extends, IterationsOf
<1>3. yes \in BOOLEAN
  OBVIOUS
<1> HIDE DEF yes
<1>4. Count(IterationsOf(h, v)) \in Nat /\ Count(IterationsOf(g, v)) = IF yes THEN Count(IterationsOf(h, v)) + 1 ELSE Count(IterationsOf(h, v))
  BY <1>1, <1>2, <1>3, CountGrows
<1>5. QED
  BY <1>4 DEF yes

\* GraphQL operations,
LEMMA OpsGrow ==
    ASSUME NEW g, NEW h, NEW x, NEW e, Extends(g, h, x, e), NEW j
    PROVE  LET yes == FamShard(x[1]) = j /\ e.op.kind = "graphql" /\ e.good
           IN  /\ Count(OpsIn(h, j)) \in Nat
               /\ yes => Count(OpsIn(g, j)) = Count(OpsIn(h, j)) + 1
               /\ ~yes => Count(OpsIn(g, j)) = Count(OpsIn(h, j))
<1> DEFINE yes == FamShard(x[1]) = j /\ e.op.kind = "graphql" /\ e.good
<1>1. OpsIn(g, j) = IF yes THEN OpsIn(h, j) \union {x} ELSE OpsIn(h, j)
  BY DEF Extends, OpsIn
<1>2. OpsIn(h, j) \in SUBSET DOMAIN h /\ IsFiniteSet(DOMAIN h) /\ x \notin DOMAIN h
  BY DEF Extends, OpsIn
<1>3. yes \in BOOLEAN
  OBVIOUS
<1> HIDE DEF yes
<1>4. Count(OpsIn(h, j)) \in Nat /\ Count(OpsIn(g, j)) = IF yes THEN Count(OpsIn(h, j)) + 1 ELSE Count(OpsIn(h, j))
  BY <1>1, <1>2, <1>3, CountGrows
<1>5. QED
  BY <1>4 DEF yes

\* those that failed,
LEMMA WrongGrow ==
    ASSUME NEW g, NEW h, NEW x, NEW e, Extends(g, h, x, e), NEW j
    PROVE  LET yes == FamShard(x[1]) = j /\ e.op.kind = "graphql" /\ e.good /\ Code(e.op) # Blank
           IN  /\ Count(WrongIn(h, j)) \in Nat
               /\ yes => Count(WrongIn(g, j)) = Count(WrongIn(h, j)) + 1
               /\ ~yes => Count(WrongIn(g, j)) = Count(WrongIn(h, j))
<1> DEFINE yes == FamShard(x[1]) = j /\ e.op.kind = "graphql" /\ e.good /\ Code(e.op) # Blank
<1>1. WrongIn(g, j) = IF yes THEN WrongIn(h, j) \union {x} ELSE WrongIn(h, j)
  BY DEF Extends, OpsIn, WrongIn
<1>2. WrongIn(h, j) \in SUBSET DOMAIN h /\ IsFiniteSet(DOMAIN h) /\ x \notin DOMAIN h
  BY DEF Extends, OpsIn, WrongIn
<1>3. yes \in BOOLEAN
  OBVIOUS
<1> HIDE DEF yes
<1>4. Count(WrongIn(h, j)) \in Nat /\ Count(WrongIn(g, j)) = IF yes THEN Count(WrongIn(h, j)) + 1 ELSE Count(WrongIn(h, j))
  BY <1>1, <1>2, <1>3, CountGrows
<1>5. QED
  BY <1>4 DEF yes

\* those sent that succeeded
LEMMA TimedGrow ==
    ASSUME NEW g, NEW h, NEW x, NEW e, Extends(g, h, x, e), NEW j
    PROVE  LET yes == FamShard(x[1]) = j /\ e.op.kind = "graphql" /\ e.good /\ e.op.sent /\ Code(e.op) = Blank
           IN  /\ Count(TimedIn(h, j)) \in Nat
               /\ yes => Count(TimedIn(g, j)) = Count(TimedIn(h, j)) + 1
               /\ ~yes => Count(TimedIn(g, j)) = Count(TimedIn(h, j))
<1> DEFINE yes == FamShard(x[1]) = j /\ e.op.kind = "graphql" /\ e.good /\ e.op.sent /\ Code(e.op) = Blank
<1>1. TimedIn(g, j) = IF yes THEN TimedIn(h, j) \union {x} ELSE TimedIn(h, j)
  BY DEF Extends, OpsIn, TimedIn
<1>2. TimedIn(h, j) \in SUBSET DOMAIN h /\ IsFiniteSet(DOMAIN h) /\ x \notin DOMAIN h
  BY DEF Extends, OpsIn, TimedIn
<1>3. yes \in BOOLEAN
  OBVIOUS
<1> HIDE DEF yes
<1>4. Count(TimedIn(h, j)) \in Nat /\ Count(TimedIn(g, j)) = IF yes THEN Count(TimedIn(h, j)) + 1 ELSE Count(TimedIn(h, j))
  BY <1>1, <1>2, <1>3, CountGrows
<1>5. QED
  BY <1>4 DEF yes

\* or failed,
LEMMA TimedWrongGrow ==
    ASSUME NEW g, NEW h, NEW x, NEW e, Extends(g, h, x, e), NEW j
    PROVE  LET yes == FamShard(x[1]) = j /\ e.op.kind = "graphql" /\ e.good /\ e.op.sent /\ Code(e.op) # Blank
           IN  /\ Count(TimedWrongIn(h, j)) \in Nat
               /\ yes => Count(TimedWrongIn(g, j)) = Count(TimedWrongIn(h, j)) + 1
               /\ ~yes => Count(TimedWrongIn(g, j)) = Count(TimedWrongIn(h, j))
<1> DEFINE yes == FamShard(x[1]) = j /\ e.op.kind = "graphql" /\ e.good /\ e.op.sent /\ Code(e.op) # Blank
<1>1. TimedWrongIn(g, j) = IF yes THEN TimedWrongIn(h, j) \union {x} ELSE TimedWrongIn(h, j)
  BY DEF Extends, OpsIn, TimedWrongIn
<1>2. TimedWrongIn(h, j) \in SUBSET DOMAIN h /\ IsFiniteSet(DOMAIN h) /\ x \notin DOMAIN h
  BY DEF Extends, OpsIn, TimedWrongIn
<1>3. yes \in BOOLEAN
  OBVIOUS
<1> HIDE DEF yes
<1>4. Count(TimedWrongIn(h, j)) \in Nat /\ Count(TimedWrongIn(g, j)) = IF yes THEN Count(TimedWrongIn(h, j)) + 1 ELSE Count(TimedWrongIn(h, j))
  BY <1>1, <1>2, <1>3, CountGrows
<1>5. QED
  BY <1>4 DEF yes

\* those whose answers carried errors,
LEMMA AnswersGrow ==
    ASSUME NEW g, NEW h, NEW x, NEW e, Extends(g, h, x, e), NEW j
    PROVE  LET yes == FamShard(x[1]) = j /\ e.op.kind = "graphql" /\ e.good /\ e.op.errors
           IN  /\ Count(AnswersIn(h, j)) \in Nat
               /\ yes => Count(AnswersIn(g, j)) = Count(AnswersIn(h, j)) + 1
               /\ ~yes => Count(AnswersIn(g, j)) = Count(AnswersIn(h, j))
<1> DEFINE yes == FamShard(x[1]) = j /\ e.op.kind = "graphql" /\ e.good /\ e.op.errors
<1>1. AnswersIn(g, j) = IF yes THEN AnswersIn(h, j) \union {x} ELSE AnswersIn(h, j)
  BY DEF Extends, OpsIn, AnswersIn
<1>2. AnswersIn(h, j) \in SUBSET DOMAIN h /\ IsFiniteSet(DOMAIN h) /\ x \notin DOMAIN h
  BY DEF Extends, OpsIn, AnswersIn
<1>3. yes \in BOOLEAN
  OBVIOUS
<1> HIDE DEF yes
<1>4. Count(AnswersIn(h, j)) \in Nat /\ Count(AnswersIn(g, j)) = IF yes THEN Count(AnswersIn(h, j)) + 1 ELSE Count(AnswersIn(h, j))
  BY <1>1, <1>2, <1>3, CountGrows
<1>5. QED
  BY <1>4 DEF yes

\* and the runs of a check.
LEMMA RunsGrow ==
    ASSUME NEW g, NEW h, NEW x, NEW e, Extends(g, h, x, e), NEW v, NEW name, NEW results
    PROVE  LET yes == x[1] = v /\ e.op.kind = "check" /\ e.op.name = name /\ e.op.result \in results
           IN  /\ Count(RunsOf(h, v, name, results)) \in Nat
               /\ yes => Count(RunsOf(g, v, name, results)) = Count(RunsOf(h, v, name, results)) + 1
               /\ ~yes => Count(RunsOf(g, v, name, results)) = Count(RunsOf(h, v, name, results))
<1> DEFINE yes == x[1] = v /\ e.op.kind = "check" /\ e.op.name = name /\ e.op.result \in results
<1>1. RunsOf(g, v, name, results) = IF yes THEN RunsOf(h, v, name, results) \union {x} ELSE RunsOf(h, v, name, results)
  BY DEF Extends, RunsOf
<1>2. RunsOf(h, v, name, results) \in SUBSET DOMAIN h /\ IsFiniteSet(DOMAIN h) /\ x \notin DOMAIN h
  BY DEF Extends, RunsOf
<1>3. yes \in BOOLEAN
  OBVIOUS
<1> HIDE DEF yes
<1>4. Count(RunsOf(h, v, name, results)) \in Nat /\ Count(RunsOf(g, v, name, results)) = IF yes THEN Count(RunsOf(h, v, name, results)) + 1 ELSE Count(RunsOf(h, v, name, results))
  BY <1>1, <1>2, <1>3, CountGrows
<1>5. QED
  BY <1>4 DEF yes

-----------------------------------------------------------------------------
(* Workload: what an operation leaves alone *)

SameRequests(st, new) ==
    /\ new.shards = st.shards
    /\ \A v \in VUs : new.recs[v].unsent = st.recs[v].unsent /\ new.recs[v].protocols = st.recs[v].protocols
SameErrors(st, new) ==
    \A v \in VUs : /\ new.recs[v].scriptErrors = st.recs[v].scriptErrors
                   /\ new.recs[v].firstScriptError = st.recs[v].firstScriptError
SameIterations(st, new) == \A v \in VUs : new.recs[v].iterations = st.recs[v].iterations
SameOperations(st, new) ==
    /\ new.fams["graphql_reqs"] = st.fams["graphql_reqs"]
    /\ new.fams["graphql_req_failed"] = st.fams["graphql_req_failed"]
    /\ new.fams["graphql_req_duration"] = st.fams["graphql_req_duration"]
SameAnswers(st, new) == new.fams["graphql_errors"] = st.fams["graphql_errors"]
SameChecks(st, new) ==
    /\ new.names = st.names
    /\ \A v \in VUs : new.recs[v].checks = st.recs[v].checks /\ new.recs[v].checkIndex = st.recs[v].checkIndex

\* Each part of the store still matches if neither the entry nor the operation
\* concerns it.
LEMMA RequestsKept ==
    ASSUME NEW st, NEW new, NEW g, NEW h, NEW x, NEW e, Extends(g, h, x, e),
           e.op.kind # "http" \/ (e.op.sent /\ ~e.good), SameRequests(st, new), RequestsMatch(st, h)
    PROVE  RequestsMatch(new, g)
<1>1. \A v : Count(UnsentOf(g, v)) = Count(UnsentOf(h, v))
  BY UnsentGrows
<1>2. \A j : Count(GoodIn(g, j)) = Count(GoodIn(h, j))
  BY GoodGrows
<1>3. \A j : Count(BadIn(g, j)) = Count(BadIn(h, j))
  BY BadGrows
<1>4. \A j, c : Count(StatusIn(g, j, c)) = Count(StatusIn(h, j, c))
  BY StatusGrows
<1>5. \A v, p : Count(ProtoOf(g, v, p)) = Count(ProtoOf(h, v, p))
  BY ProtoGrows
<1>6. QED
  BY <1>1, <1>2, <1>3, <1>4, <1>5 DEF RequestsMatch, SameRequests

\* The same of an entry that is no script error,
LEMMA ErrorsKept ==
    ASSUME NEW st, NEW new, NEW g, NEW h, NEW x, NEW e, Extends(g, h, x, e),
           e.op.kind # "iteration" \/ ~e.good \/ ~e.op.err, SameErrors(st, new), ErrorsMatch(st, h)
    PROVE  ErrorsMatch(new, g)
<1>1. \A v : Count(ErrorsOf(g, v)) = Count(ErrorsOf(h, v))
  BY ErrorsGrow
<1>2. QED
  BY <1>1 DEF ErrorsMatch, SameErrors

\* no iteration,
LEMMA IterationsKept ==
    ASSUME NEW st, NEW new, NEW g, NEW h, NEW x, NEW e, Extends(g, h, x, e),
           e.op.kind # "iteration" \/ ~e.good, SameIterations(st, new), IterationsMatch(st, h)
    PROVE  IterationsMatch(new, g)
<1>1. \A v : Count(IterationsOf(g, v)) = Count(IterationsOf(h, v))
  BY IterationsGrow
<1>2. QED
  BY <1>1 DEF IterationsMatch, SameIterations

\* no GraphQL operation,
LEMMA OperationsKept ==
    ASSUME NEW st, NEW new, NEW g, NEW h, NEW x, NEW e, Extends(g, h, x, e),
           e.op.kind # "graphql" \/ ~e.good, SameOperations(st, new), OperationsMatch(st, h)
    PROVE  OperationsMatch(new, g)
<1>1. \A j : Count(OpsIn(g, j)) = Count(OpsIn(h, j))
  BY OpsGrow
<1>2. \A j : Count(WrongIn(g, j)) = Count(WrongIn(h, j))
  BY WrongGrow
<1>3. \A j : Count(TimedIn(g, j)) = Count(TimedIn(h, j))
  BY TimedGrow
<1>4. \A j : Count(TimedWrongIn(g, j)) = Count(TimedWrongIn(h, j))
  BY TimedWrongGrow
<1>5. QED
  BY <1>1, <1>2, <1>3, <1>4 DEF OperationsMatch, SameOperations

\* no answer with errors,
LEMMA AnswersKept ==
    ASSUME NEW st, NEW new, NEW g, NEW h, NEW x, NEW e, Extends(g, h, x, e),
           e.op.kind # "graphql" \/ ~e.good \/ ~e.op.errors, SameAnswers(st, new), AnswersMatch(st, h)
    PROVE  AnswersMatch(new, g)
<1>1. \A j : Count(AnswersIn(g, j)) = Count(AnswersIn(h, j))
  BY AnswersGrow
<1>2. QED
  BY <1>1 DEF AnswersMatch, SameAnswers

\* no run of a check.
LEMMA ChecksKept ==
    ASSUME NEW st, NEW new, NEW g, NEW h, NEW x, NEW e, NEW names, Extends(g, h, x, e),
           e.op.kind # "check", SameChecks(st, new), NamesMatch(st, h, names), ChecksMatch(st, h, names)
    PROVE  NamesMatch(new, g, names) /\ ChecksMatch(new, g, names)
<1>1. ASSUME NEW v, NEW name, NEW results
      PROVE  RunsOf(g, v, name, results) = RunsOf(h, v, name, results)
  BY DEF Extends, RunsOf
<1>2. NamesMatch(new, g, names)
  BY DEF NamesMatch, SameChecks, Extends
<1>3. \A v \in VUs : \A k \in DOMAIN names : TallyOf(new, v, k) = TallyOf(st, v, k)
  BY DEF SameChecks, TallyOf
<1>4. ChecksMatch(new, g, names)
  BY <1>1, <1>3 DEF ChecksMatch, TallyMatches
<1>5. QED
  BY <1>2, <1>4

-----------------------------------------------------------------------------
(* Workload: HTTP requests *)

\* A request that was not sent.
LEMMA UnsentRecorded ==
    ASSUME NEW st \in StoreType, NEW v \in VUs, NEW g, NEW h, NEW x, NEW e, Extends(g, h, x, e),
           x[1] = v, e.op.kind = "http", ~e.op.sent, RequestsMatch(st, h)
    PROVE  LET new == RecordUnsent(st, v)
           IN  /\ new \in StoreType /\ RequestsMatch(new, g)
               /\ SameErrors(st, new) /\ SameIterations(st, new) /\ SameChecks(st, new) /\ new.fams = st.fams
<1> DEFINE new == RecordUnsent(st, v)
           r == [st.recs[v] EXCEPT !.unsent = @ + 1]
<1>1. r \in RecType /\ RecChanged(st, new, v, r)
  BY RecordUnsentIs
<1>2. st.recs[v] \in RecType
  BY StoreParts
<1>3. /\ r.unsent = st.recs[v].unsent + 1 /\ r.protocols = st.recs[v].protocols
      /\ r.scriptErrors = st.recs[v].scriptErrors /\ r.firstScriptError = st.recs[v].firstScriptError
      /\ r.iterations = st.recs[v].iterations /\ r.checks = st.recs[v].checks
      /\ r.checkIndex = st.recs[v].checkIndex
  BY <1>2 DEF RecType
<1> HIDE DEF new, r
<1>4. \A w : /\ w = v => Count(UnsentOf(g, w)) = Count(UnsentOf(h, w)) + 1
             /\ w # v => Count(UnsentOf(g, w)) = Count(UnsentOf(h, w))
  BY UnsentGrows
<1>5. /\ \A j : Count(GoodIn(g, j)) = Count(GoodIn(h, j)) /\ Count(BadIn(g, j)) = Count(BadIn(h, j))
      /\ \A j, c : Count(StatusIn(g, j, c)) = Count(StatusIn(h, j, c))
      /\ \A w, p : Count(ProtoOf(g, w, p)) = Count(ProtoOf(h, w, p))
  <2>1. \A j : Count(GoodIn(g, j)) = Count(GoodIn(h, j))
    BY GoodGrows
  <2>2. \A j : Count(BadIn(g, j)) = Count(BadIn(h, j))
    BY BadGrows
  <2>3. \A j, c : Count(StatusIn(g, j, c)) = Count(StatusIn(h, j, c))
    BY StatusGrows
  <2>4. \A w, p : Count(ProtoOf(g, w, p)) = Count(ProtoOf(h, w, p))
    BY ProtoGrows
  <2>5. QED
    BY <2>1, <2>2, <2>3, <2>4
<1>6. RequestsMatch(new, g)
  BY <1>1, <1>3, <1>4, <1>5 DEF RequestsMatch, RecChanged
<1>7. SameErrors(st, new) /\ SameIterations(st, new) /\ SameChecks(st, new) /\ new.fams = st.fams
  BY <1>1, <1>3 DEF RecChanged, SameErrors, SameIterations, SameChecks
<1>8. QED
  BY <1>1, <1>6, <1>7 DEF RecChanged, new

\* One that was answered or failed while the test went on: the counters of its
\* shard, and of its VU, that the store has afterwards.
LEMMA SentIs ==
    ASSUME NEW st \in StoreType, NEW v \in VUs, NEW res \in Outcome("http"), res.status \in Statuses \union {0}
    PROVE  LET new == Response(Record(st, v, res.duration, OK(res)), v, res)
               o == st.shards[ShardOf(v)]
               n == new.shards[ShardOf(v)]
               key == ProtoKey(res.proto)
           IN  /\ new \in StoreType /\ new.names = st.names /\ new.fams = st.fams
               /\ \A j \in HTTPShards : j # ShardOf(v) => new.shards[j] = st.shards[j]
               /\ n.ok.n = IF OK(res) THEN o.ok.n + 1 ELSE o.ok.n
               /\ n.failed.n = IF OK(res) THEN o.failed.n ELSE o.failed.n + 1
               /\ \A c \in Statuses \union {0} :
                    n.statuses[c] = IF res.proto # Blank /\ StatusClass(res.status) = c
                                    THEN o.statuses[c] + 1 ELSE o.statuses[c]
               /\ \A w \in VUs : w # v \/ res.proto = Blank => new.recs[w] = st.recs[w]
               /\ res.proto # Blank => new.recs[v] = [st.recs[v] EXCEPT !.protocols[key] = @ + 1]
<1> DEFINE o == st.shards[ShardOf(v)]
           ok == OK(res)
           s == Into(o, res.duration, ok)
           one == Record(st, v, res.duration, ok)
           r == [st.recs[v] EXCEPT !.protocols[ProtoKey(res.proto)] = @ + 1]
           two == RecordProtocol(one, v, res.proto)
           c0 == StatusClass(res.status)
           t == [s EXCEPT !.statuses[c0] = @ + 1]
           three == RecordStatus(two, v, res.status)
<1>1. res.duration \in Nat /\ ok \in BOOLEAN /\ ShardOf(v) \in HTTPShards
  BY ShardsTyped DEF Outcome, OK
<1>2. o \in ShardType
  BY <1>1, StoreParts
<1> HIDE DEF ok, o
<1>3. /\ s \in ShardType /\ s.statuses = o.statuses
      /\ s.ok.n = IF ok THEN o.ok.n + 1 ELSE o.ok.n
      /\ s.failed.n = IF ok THEN o.failed.n ELSE o.failed.n + 1
  BY <1>1, <1>2, IntoIs
<1>4. ShardChanged(st, one, v, s)
  BY <1>1, RecordIs DEF o
<1> HIDE DEF s, one
<1>5. one \in StoreType /\ one.recs = st.recs
  BY <1>4 DEF ShardChanged
<1>6. RecChanged(one, two, v, r)
  BY <1>1, <1>5, RecordProtocolIs
<1> HIDE DEF r, two
<1>7. two \in StoreType /\ two.shards[ShardOf(v)] = s
  BY <1>1, <1>4, <1>6 DEF RecChanged, ShardChanged
<1>8. t \in ShardType /\ ShardChanged(two, three, v, t)
  BY <1>7, RecordStatusIs
<1>9. \A c \in Statuses \union {0} : t.statuses[c] = IF c0 = c THEN s.statuses[c] + 1 ELSE s.statuses[c]
  <2>1. s.statuses \in [Statuses \union {0} -> Nat] /\ "statuses" \in DOMAIN s
    BY <1>3 DEF ShardType
  <2>2. QED
    BY <2>1
<1>10. t.ok = s.ok /\ t.failed = s.failed
  OBVIOUS
<1> HIDE DEF t, three, c0
<1>11. CASE res.proto = Blank
  <2>1. Response(one, v, res) = one
    BY <1>11 DEF Response, Blank
  <2>2. QED
    BY <1>1, <1>3, <1>4, <1>11, <2>1 DEF ShardChanged, o, ok, one
<1>12. CASE res.proto # Blank
  <2>1. Response(one, v, res) = three
    BY <1>12 DEF Response, Blank, two, three
  <2>2. /\ three \in StoreType /\ three.names = st.names /\ three.fams = st.fams
        /\ \A j \in HTTPShards : j # ShardOf(v) => three.shards[j] = st.shards[j]
        /\ three.shards[ShardOf(v)] = t
        /\ \A w \in VUs : w # v => three.recs[w] = st.recs[w]
        /\ three.recs[v] = r
    BY <1>1, <1>4, <1>6, <1>8 DEF ShardChanged, RecChanged
  <2>3. QED
    BY <1>3, <1>9, <1>10, <1>12, <2>1, <2>2 DEF o, ok, one, r, c0
<1>13. QED
  BY <1>11, <1>12

\* Do on a request that was sent: its latency, status and protocol are counted.
LEMMA SentRecorded ==
    ASSUME NEW st \in StoreType, NEW v \in VUs, NEW g, NEW h, NEW x, NEW e, Extends(g, h, x, e),
           NEW res \in Outcome("http"), res.status \in Statuses \union {0}, res.sent,
           x[1] = v, e.op = res, e.good, RequestsMatch(st, h)
    PROVE  LET new == Response(Record(st, v, res.duration, OK(res)), v, res)
           IN  /\ new \in StoreType /\ RequestsMatch(new, g)
               /\ SameErrors(st, new) /\ SameIterations(st, new) /\ SameChecks(st, new) /\ new.fams = st.fams
<1> DEFINE new == Response(Record(st, v, res.duration, OK(res)), v, res)
           mine == ShardOf(v)
           o == st.shards[mine]
           n == new.shards[mine]
           key == ProtoKey(res.proto)
           r == [st.recs[v] EXCEPT !.protocols[key] = @ + 1]
<1>1. /\ new \in StoreType /\ new.names = st.names /\ new.fams = st.fams
      /\ \A j \in HTTPShards : j # mine => new.shards[j] = st.shards[j]
      /\ n.ok.n = IF OK(res) THEN o.ok.n + 1 ELSE o.ok.n
      /\ n.failed.n = IF OK(res) THEN o.failed.n ELSE o.failed.n + 1
      /\ \A c \in Statuses \union {0} :
           n.statuses[c] = IF res.proto # Blank /\ StatusClass(res.status) = c
                           THEN o.statuses[c] + 1 ELSE o.statuses[c]
      /\ \A w \in VUs : w # v \/ res.proto = Blank => new.recs[w] = st.recs[w]
      /\ res.proto # Blank => new.recs[v] = r
  BY SentIs, SMTT(30)
<1>2. st.recs[v] \in RecType /\ mine \in HTTPShards /\ res.kind = "http" /\ res.sent
  BY StoreParts, ShardsTyped DEF Outcome
<1>3. /\ r.unsent = st.recs[v].unsent /\ r.scriptErrors = st.recs[v].scriptErrors
      /\ r.firstScriptError = st.recs[v].firstScriptError /\ r.iterations = st.recs[v].iterations
      /\ r.checks = st.recs[v].checks /\ r.checkIndex = st.recs[v].checkIndex
      /\ r.protocols = [st.recs[v].protocols EXCEPT ![key] = @ + 1]
  BY <1>2 DEF RecType
<1>4. /\ r.protocols.HTTP2 = IF res.proto \in HTTP2 THEN st.recs[v].protocols.HTTP2 + 1
                             ELSE st.recs[v].protocols.HTTP2
      /\ r.protocols.HTTP1 = IF res.proto \in HTTP1 THEN st.recs[v].protocols.HTTP1 + 1
                             ELSE st.recs[v].protocols.HTTP1
  <2>1. st.recs[v].protocols \in ProtocolsType
    BY <1>2 DEF RecType
  <2>2. ~(res.proto \in HTTP1 /\ res.proto \in HTTP2)
    BY DEF HTTP1, HTTP2
  <2>3. \/ key = "HTTP2" /\ res.proto \in HTTP2 /\ res.proto \notin HTTP1
        \/ key = "HTTP1" /\ res.proto \in HTTP1 /\ res.proto \notin HTTP2
        \/ key = "Other" /\ res.proto \notin HTTP1 /\ res.proto \notin HTTP2
    BY <2>2 DEF ProtoKey
  <2> HIDE DEF key
  <2>4. QED
    BY <1>3, <2>1, <2>3 DEF ProtocolsType
<1> HIDE DEF new, r, key, o, n, mine
<1>5. \A w : Count(UnsentOf(g, w)) = Count(UnsentOf(h, w))
  BY <1>2, UnsentGrows
<1>6. \A j : /\ j = mine /\ OK(res) => Count(GoodIn(g, j)) = Count(GoodIn(h, j)) + 1
             /\ j # mine \/ ~OK(res) => Count(GoodIn(g, j)) = Count(GoodIn(h, j))
  BY <1>2, GoodGrows DEF mine
<1>7. \A j : /\ j = mine /\ ~OK(res) => Count(BadIn(g, j)) = Count(BadIn(h, j)) + 1
             /\ j # mine \/ OK(res) => Count(BadIn(g, j)) = Count(BadIn(h, j))
  BY <1>2, BadGrows DEF mine
<1>8. \A j, c : /\ j = mine /\ res.proto # Blank /\ StatusClass(res.status) = c
                     => Count(StatusIn(g, j, c)) = Count(StatusIn(h, j, c)) + 1
                /\ ~(j = mine /\ res.proto # Blank /\ StatusClass(res.status) = c)
                     => Count(StatusIn(g, j, c)) = Count(StatusIn(h, j, c))
  BY <1>2, StatusGrows DEF mine
<1>9. \A w, p : /\ w = v /\ res.proto # Blank /\ res.proto \in p
                     => Count(ProtoOf(g, w, p)) = Count(ProtoOf(h, w, p)) + 1
                /\ ~(w = v /\ res.proto # Blank /\ res.proto \in p)
                     => Count(ProtoOf(g, w, p)) = Count(ProtoOf(h, w, p))
  BY <1>2, ProtoGrows
<1>10. \A w \in VUs : /\ new.recs[w].unsent = st.recs[w].unsent
                      /\ new.recs[w].scriptErrors = st.recs[w].scriptErrors
                      /\ new.recs[w].firstScriptError = st.recs[w].firstScriptError
                      /\ new.recs[w].iterations = st.recs[w].iterations
                      /\ new.recs[w].checks = st.recs[w].checks
                      /\ new.recs[w].checkIndex = st.recs[w].checkIndex
  BY <1>1, <1>3
<1>11. ASSUME NEW w \in VUs
       PROVE  /\ new.recs[w].unsent = Count(UnsentOf(g, w))
              /\ new.recs[w].protocols.HTTP2 = Count(ProtoOf(g, w, HTTP2))
              /\ new.recs[w].protocols.HTTP1 = Count(ProtoOf(g, w, HTTP1))
  <2>1. /\ st.recs[w].unsent = Count(UnsentOf(h, w))
        /\ st.recs[w].protocols.HTTP2 = Count(ProtoOf(h, w, HTTP2))
        /\ st.recs[w].protocols.HTTP1 = Count(ProtoOf(h, w, HTTP1))
    BY <1>11 DEF RequestsMatch
  <2>2. CASE w = v /\ res.proto # Blank
    <3>1. new.recs[w] = r /\ r.unsent = st.recs[w].unsent
      BY <2>2, <1>1, <1>3
    <3>2. /\ r.protocols.HTTP2 = Count(ProtoOf(g, w, HTTP2))
          /\ r.protocols.HTTP1 = Count(ProtoOf(g, w, HTTP1))
      BY <2>1, <2>2, <1>4, <1>9
    <3>3. QED
      BY <2>1, <1>5, <3>1, <3>2
  <2>3. CASE w # v \/ res.proto = Blank
    BY <2>1, <2>3, <1>1, <1>5, <1>9
  <2>4. QED
    BY <2>2, <2>3
<1>12. ASSUME NEW j \in HTTPShards
       PROVE  /\ new.shards[j].ok.n = Count(GoodIn(g, j))
              /\ new.shards[j].failed.n = Count(BadIn(g, j))
              /\ \A c \in Statuses \union {0} : new.shards[j].statuses[c] = Count(StatusIn(g, j, c))
  <2>1. /\ st.shards[j].ok.n = Count(GoodIn(h, j))
        /\ st.shards[j].failed.n = Count(BadIn(h, j))
        /\ \A c \in Statuses \union {0} : st.shards[j].statuses[c] = Count(StatusIn(h, j, c))
    BY <1>12 DEF RequestsMatch
  <2>2. CASE j = mine
    <3>1. n.ok.n = Count(GoodIn(g, j)) /\ n.failed.n = Count(BadIn(g, j))
      BY <2>1, <2>2, <1>1, <1>6, <1>7 DEF o
    <3>2. \A c \in Statuses \union {0} : n.statuses[c] = Count(StatusIn(g, j, c))
      BY <2>1, <2>2, <1>1, <1>8 DEF o
    <3>3. QED
      BY <2>2, <3>1, <3>2 DEF n
  <2>3. CASE j # mine
    <3>1. new.shards[j] = st.shards[j]
      BY <1>1, <2>3
    <3>2. QED
      BY <2>1, <2>3, <3>1, <1>6, <1>7, <1>8
  <2>4. QED
    BY <2>2, <2>3
<1>13. RequestsMatch(new, g)
  BY <1>11, <1>12 DEF RequestsMatch
<1>14. SameErrors(st, new) /\ SameIterations(st, new) /\ SameChecks(st, new)
  BY <1>1, <1>10 DEF SameErrors, SameIterations, SameChecks
<1>15. QED
  BY <1>1, <1>13, <1>14 DEF new

-----------------------------------------------------------------------------
(* Workload: iterations *)

\* A script error is counted, and nothing else.
LEMMA ErrorRecorded ==
    ASSUME NEW st \in StoreType, NEW v \in VUs, NEW g, NEW h, NEW x, NEW e, Extends(g, h, x, e),
           x[1] = v, e.op.kind = "iteration", e.op.err, e.good, ErrorsMatch(st, h)
    PROVE  LET new == RecordScriptError(st, v, v)
           IN  /\ new \in StoreType /\ ErrorsMatch(new, g)
               /\ SameRequests(st, new) /\ SameIterations(st, new) /\ SameChecks(st, new) /\ new.fams = st.fams
<1> DEFINE new == RecordScriptError(st, v, v)
           old == st.recs[v]
           r == [old EXCEPT !.firstScriptError = IF old.scriptErrors = 0 THEN v ELSE @, !.scriptErrors = @ + 1]
<1>1. r \in RecType /\ RecChanged(st, new, v, r)
  BY RecordScriptErrorIs
<1>2. old \in RecType /\ v \in Nat \ {0}
  BY StoreParts, ShardsTyped
<1>3. /\ r.scriptErrors = old.scriptErrors + 1 /\ old.scriptErrors \in Nat
      /\ r.firstScriptError = IF old.scriptErrors = 0 THEN v ELSE old.firstScriptError
      /\ r.unsent = old.unsent /\ r.protocols = old.protocols /\ r.iterations = old.iterations
      /\ r.checks = old.checks /\ r.checkIndex = old.checkIndex
  <2> HIDE DEF old
  <2>1. old \in [unsent : Nat, scriptErrors : Nat, firstScriptError : Nat, iterations : Nat,
                 protocols : ProtocolsType, checkIndex : IndexType, checks : Seq(CheckType)]
    BY <1>2 DEF RecType
  <2>2. QED
    BY <2>1
<1> HIDE DEF new, r
<1>4. \A w : /\ w = v => Count(ErrorsOf(g, w)) = Count(ErrorsOf(h, w)) + 1
             /\ w # v => Count(ErrorsOf(g, w)) = Count(ErrorsOf(h, w))
  BY ErrorsGrow
<1>5. ErrorsMatch(new, g)
  <2>1. ASSUME NEW w \in VUs
        PROVE  /\ new.recs[w].scriptErrors = Count(ErrorsOf(g, w))
               /\ new.recs[w].firstScriptError = None <=> new.recs[w].scriptErrors = 0
    <3>1. /\ st.recs[w].scriptErrors = Count(ErrorsOf(h, w))
          /\ st.recs[w].firstScriptError = None <=> st.recs[w].scriptErrors = 0
      BY DEF ErrorsMatch
    <3>2. CASE w = v
      BY <1>1, <1>2, <1>3, <1>4, <3>1, <3>2 DEF RecChanged, None
    <3>3. CASE w # v
      BY <1>1, <1>4, <3>1, <3>3 DEF RecChanged
    <3>4. QED
      BY <3>2, <3>3
  <2>2. QED
    BY <2>1 DEF ErrorsMatch
<1>6. SameRequests(st, new) /\ SameIterations(st, new) /\ SameChecks(st, new) /\ new.fams = st.fams
  BY <1>1, <1>3 DEF RecChanged, SameRequests, SameIterations, SameChecks
<1>7. QED
  BY <1>1, <1>5, <1>6 DEF RecChanged, new

\* An iteration is counted, and nothing else.
LEMMA IterationRecorded ==
    ASSUME NEW st \in StoreType, NEW v \in VUs, NEW g, NEW h, NEW x, NEW e, Extends(g, h, x, e),
           x[1] = v, e.op.kind = "iteration", e.good, IterationsMatch(st, h)
    PROVE  LET new == RecordIteration(st, v)
           IN  /\ new \in StoreType /\ IterationsMatch(new, g)
               /\ SameRequests(st, new) /\ SameErrors(st, new) /\ SameChecks(st, new) /\ new.fams = st.fams
<1> DEFINE new == RecordIteration(st, v)
           old == st.recs[v]
           r == [old EXCEPT !.iterations = @ + 1]
<1>1. r \in RecType /\ RecChanged(st, new, v, r)
  BY RecordIterationIs
<1>2. old \in RecType
  BY StoreParts
<1>3. /\ r.iterations = old.iterations + 1
      /\ r.scriptErrors = old.scriptErrors /\ r.firstScriptError = old.firstScriptError
      /\ r.unsent = old.unsent /\ r.protocols = old.protocols
      /\ r.checks = old.checks /\ r.checkIndex = old.checkIndex
  <2> HIDE DEF old
  <2> QED BY <1>2 DEF RecType
<1> HIDE DEF new, r
<1>4. \A w : /\ w = v => Count(IterationsOf(g, w)) = Count(IterationsOf(h, w)) + 1
             /\ w # v => Count(IterationsOf(g, w)) = Count(IterationsOf(h, w))
  BY IterationsGrow
<1>5. IterationsMatch(new, g)
  BY <1>1, <1>3, <1>4 DEF IterationsMatch, RecChanged
<1>6. SameRequests(st, new) /\ SameErrors(st, new) /\ SameChecks(st, new) /\ new.fams = st.fams
  BY <1>1, <1>3 DEF RecChanged, SameRequests, SameErrors, SameChecks
<1>7. QED
  BY <1>1, <1>5, <1>6 DEF RecChanged, new

-----------------------------------------------------------------------------
(* Workload: GraphQL operations *)

\* The counters of the families that the store has afterwards.
LEMMA OutcomeIs ==
    ASSUME NEW st \in StoreType, FamiliesTyped(st), NEW v \in VUs, NEW res \in Outcome("graphql")
    PROVE  LET new == RecordOutcome(st, v, res)
               mine == FamShard(v)
           IN  /\ new \in StoreType /\ FamiliesTyped(new)
               /\ new.recs = st.recs /\ new.shards = st.shards /\ new.names = st.names
               /\ new.fams["graphql_errors"] = st.fams["graphql_errors"]
               /\ \A j \in FamShards :
                    LET o(f) == st.fams[f][j]
                        n(f) == new.fams[f][j]
                    IN  /\ j # mine => \A f \in {"graphql_reqs", "graphql_req_failed", "graphql_req_duration"} : n(f) = o(f)
                        /\ j = mine =>
                             /\ n("graphql_reqs").count = o("graphql_reqs").count + 1
                             /\ n("graphql_req_failed").count = o("graphql_req_failed").count + 1
                             /\ Code(res) # Blank => n("graphql_req_failed").trues = o("graphql_req_failed").trues + 1
                             /\ Code(res) = Blank => n("graphql_req_failed").trues = o("graphql_req_failed").trues
                             /\ n("graphql_req_duration").ok.n = IF res.sent /\ Code(res) = Blank
                                  THEN o("graphql_req_duration").ok.n + 1 ELSE o("graphql_req_duration").ok.n
                             /\ n("graphql_req_duration").failed.n = IF res.sent /\ Code(res) # Blank
                                  THEN o("graphql_req_duration").failed.n + 1 ELSE o("graphql_req_duration").failed.n
<1> DEFINE D == "graphql_req_duration"
           R == "graphql_reqs"
           F == "graphql_req_failed"
           A == "graphql_errors"
           mine == FamShard(v)
           failed == Code(res) # Blank
           ok == ~failed
           s1 == Into(st.fams[D][mine], res.duration, ok)
           timed == Trend(st, v, D, res.duration, ok)
           one == IF res.sent THEN timed ELSE st
           s2 == [one.fams[R][mine] EXCEPT !.count = @ + 1]
           two == Add(one, v, R, 1)
           s3 == [two.fams[F][mine] EXCEPT !.count = @ + 1, !.trues = IF failed THEN @ + 1 ELSE @]
           three == Rate(two, v, F, failed)
<1>1. /\ failed \in BOOLEAN /\ ok \in BOOLEAN /\ res.sent \in BOOLEAN /\ res.duration \in Nat
      /\ mine \in FamShards
  BY ShardsTyped DEF Outcome
<1>2. RecordOutcome(st, v, res) = three
  BY Zenon DEF RecordOutcome, Blank
<1>3. {D, R, F, A} \subseteq DOMAIN FamilyKind
  BY FamiliesDeclared
<1>4. /\ st.fams[D][mine] \in ShardType
  BY <1>1 DEF FamiliesTyped
<1> HIDE DEF failed
<1>5. /\ s1.ok.n = IF ok THEN st.fams[D][mine].ok.n + 1 ELSE st.fams[D][mine].ok.n
      /\ s1.failed.n = IF ok THEN st.fams[D][mine].failed.n ELSE st.fams[D][mine].failed.n + 1
  <2> HIDE DEF ok
  <2> QED BY <1>1, <1>4, IntoIs
<1>6. FamiliesTyped(timed) /\ FamChanged(st, timed, D, v, s1)
  <2> HIDE DEF ok
  <2> QED BY <1>1, TrendIs
<1> HIDE DEF s1, timed
<1>7. /\ one \in StoreType /\ FamiliesTyped(one)
      /\ one.recs = st.recs /\ one.shards = st.shards /\ one.names = st.names
      /\ \A f \in {R, F, A} : one.fams[f] = st.fams[f]
      /\ \A j \in FamShards : one.fams[D][j] = IF res.sent /\ j = mine THEN s1 ELSE st.fams[D][j]
  <2>1. CASE res.sent = TRUE
    BY <2>1, <1>3, <1>6 DEF FamChanged
  <2>2. CASE res.sent = FALSE
    BY <2>2
  <2>3. QED
    BY <1>1, <2>1, <2>2
<1> HIDE DEF one
<1>8. s2 \in CounterType /\ FamiliesTyped(two) /\ FamChanged(one, two, R, v, s2)
  BY <1>7, AddIs
<1>9. one.fams[R][mine] \in CounterType
  BY <1>1, <1>7 DEF FamiliesTyped
<1>10. s2.count = one.fams[R][mine].count + 1
  BY <1>9 DEF CounterType
<1> HIDE DEF two, s2
<1>11. two \in StoreType
  BY <1>8 DEF FamChanged
<1>12. s3 \in CounterType /\ FamiliesTyped(three) /\ FamChanged(two, three, F, v, s3)
  BY <1>1, <1>8, <1>11, RateIs, Zenon
<1>13. two.fams[F][mine] \in CounterType
  BY <1>1, <1>8 DEF FamiliesTyped
<1>14. /\ s3.count = two.fams[F][mine].count + 1
       /\ s3.trues = IF failed THEN two.fams[F][mine].trues + 1 ELSE two.fams[F][mine].trues
  <2> DEFINE c == two.fams[F][mine]
  <2> HIDE DEF c
  <2>1. c \in [count : Nat, trues : Nat] /\ s3 = [c EXCEPT !.count = @ + 1, !.trues = IF failed THEN @ + 1 ELSE @]
    BY <1>13 DEF CounterType, c
  <2> HIDE DEF s3
  <2>2. CASE failed = TRUE
    BY <2>1, <2>2 DEF c
  <2>3. CASE failed = FALSE
    BY <2>1, <2>3 DEF c
  <2>4. QED
    BY <1>1, <2>2, <2>3
<1> HIDE DEF three, s3
<1>15. /\ three \in StoreType /\ FamiliesTyped(three)
       /\ three.recs = st.recs /\ three.shards = st.shards /\ three.names = st.names
       /\ three.fams[A] = st.fams[A]
  BY <1>3, <1>7, <1>8, <1>12 DEF FamChanged
<1>16. /\ two.fams[F] = one.fams[F] /\ two.fams[D] = one.fams[D]
       /\ three.fams[R] = two.fams[R] /\ three.fams[D] = two.fams[D]
  BY <1>3, <1>8, <1>12 DEF FamChanged
<1>17. \A j \in FamShards : three.fams[D][j] = IF res.sent /\ j = mine THEN s1 ELSE st.fams[D][j]
  BY <1>7, <1>16
<1>18. \A j \in FamShards : three.fams[R][j] = IF j = mine THEN s2 ELSE st.fams[R][j]
  BY <1>7, <1>8, <1>16 DEF FamChanged
<1>19. \A j \in FamShards : three.fams[F][j] = IF j = mine THEN s3 ELSE st.fams[F][j]
  BY <1>7, <1>12, <1>16 DEF FamChanged
<1>20. s2.count = st.fams[R][mine].count + 1
  BY <1>7, <1>10
<1>21. /\ s3.count = st.fams[F][mine].count + 1
       /\ s3.trues = IF failed THEN st.fams[F][mine].trues + 1 ELSE st.fams[F][mine].trues
  BY <1>7, <1>14, <1>16
<1>22. ASSUME NEW j \in FamShards, j # mine
       PROVE  \A f \in {R, F, D} : three.fams[f][j] = st.fams[f][j]
  BY <1>17, <1>18, <1>19, <1>22
<1>23. /\ three.fams[R][mine].count = st.fams[R][mine].count + 1
       /\ three.fams[F][mine].count = st.fams[F][mine].count + 1
       /\ three.fams[F][mine].trues = IF failed THEN st.fams[F][mine].trues + 1 ELSE st.fams[F][mine].trues
  BY <1>1, <1>18, <1>19, <1>20, <1>21
<1>24. three.fams[D][mine] = IF res.sent THEN s1 ELSE st.fams[D][mine]
  BY <1>1, <1>17
<1>25. /\ three.fams[D][mine].ok.n = IF res.sent /\ ~failed
                                     THEN st.fams[D][mine].ok.n + 1 ELSE st.fams[D][mine].ok.n
       /\ three.fams[D][mine].failed.n = IF res.sent /\ failed
                                         THEN st.fams[D][mine].failed.n + 1 ELSE st.fams[D][mine].failed.n
  <2>1. CASE failed = TRUE
    BY <1>1, <1>5, <1>24, <2>1
  <2>2. CASE failed = FALSE
    BY <1>1, <1>5, <1>24, <2>2
  <2>3. QED
    BY <1>1, <2>1, <2>2
<1>26. QED
  BY <1>2, <1>15, <1>22, <1>23, <1>25, Zenon DEF failed

\* protocol.Record counts an operation in each of its families.
LEMMA OperationRecorded ==
    ASSUME NEW st \in StoreType, FamiliesTyped(st), NEW v \in VUs, NEW g, NEW h, NEW x, NEW e,
           Extends(g, h, x, e), NEW res \in Outcome("graphql"),
           x[1] = v, e.op = res, e.good, OperationsMatch(st, h)
    PROVE  LET new == RecordOutcome(st, v, res)
           IN  /\ new \in StoreType /\ FamiliesTyped(new) /\ OperationsMatch(new, g)
               /\ new.recs = st.recs /\ new.shards = st.shards /\ new.names = st.names
               /\ SameAnswers(st, new)
<1> DEFINE new == RecordOutcome(st, v, res)
           mine == FamShard(v)
           failed == Code(res) # Blank
<1>1. /\ new \in StoreType /\ FamiliesTyped(new)
      /\ new.recs = st.recs /\ new.shards = st.shards /\ new.names = st.names
      /\ new.fams["graphql_errors"] = st.fams["graphql_errors"]
      /\ \A j \in FamShards :
           /\ j # mine => \A f \in {"graphql_reqs", "graphql_req_failed", "graphql_req_duration"} :
                            new.fams[f][j] = st.fams[f][j]
           /\ j = mine =>
                /\ new.fams["graphql_reqs"][j].count = st.fams["graphql_reqs"][j].count + 1
                /\ new.fams["graphql_req_failed"][j].count = st.fams["graphql_req_failed"][j].count + 1
                /\ failed => new.fams["graphql_req_failed"][j].trues = st.fams["graphql_req_failed"][j].trues + 1
                /\ ~failed => new.fams["graphql_req_failed"][j].trues = st.fams["graphql_req_failed"][j].trues
                /\ new.fams["graphql_req_duration"][j].ok.n = IF res.sent /\ ~failed
                     THEN st.fams["graphql_req_duration"][j].ok.n + 1 ELSE st.fams["graphql_req_duration"][j].ok.n
                /\ new.fams["graphql_req_duration"][j].failed.n = IF res.sent /\ failed
                     THEN st.fams["graphql_req_duration"][j].failed.n + 1 ELSE st.fams["graphql_req_duration"][j].failed.n
  BY OutcomeIs
<1> HIDE DEF new
<1>2. res.kind = "graphql" /\ res.sent \in BOOLEAN
  BY DEF Outcome
<1>3. \A j : /\ j = mine => Count(OpsIn(g, j)) = Count(OpsIn(h, j)) + 1
             /\ j # mine => Count(OpsIn(g, j)) = Count(OpsIn(h, j))
  BY <1>2, OpsGrow
<1>4. \A j : /\ j = mine /\ failed => Count(WrongIn(g, j)) = Count(WrongIn(h, j)) + 1
             /\ ~(j = mine /\ failed) => Count(WrongIn(g, j)) = Count(WrongIn(h, j))
  BY <1>2, WrongGrow
<1>5. \A j : /\ j = mine /\ res.sent /\ ~failed => Count(TimedIn(g, j)) = Count(TimedIn(h, j)) + 1
             /\ ~(j = mine /\ res.sent /\ ~failed) => Count(TimedIn(g, j)) = Count(TimedIn(h, j))
  BY <1>2, TimedGrow
<1>6. \A j : /\ j = mine /\ res.sent /\ failed => Count(TimedWrongIn(g, j)) = Count(TimedWrongIn(h, j)) + 1
             /\ ~(j = mine /\ res.sent /\ failed) => Count(TimedWrongIn(g, j)) = Count(TimedWrongIn(h, j))
  BY <1>2, TimedWrongGrow
<1> HIDE DEF mine, failed
<1>7. ASSUME NEW j \in FamShards
      PROVE  /\ new.fams["graphql_reqs"][j].count = Count(OpsIn(g, j))
             /\ new.fams["graphql_req_failed"][j].count = Count(OpsIn(g, j))
             /\ new.fams["graphql_req_failed"][j].trues = Count(WrongIn(g, j))
             /\ new.fams["graphql_req_duration"][j].ok.n = Count(TimedIn(g, j))
             /\ new.fams["graphql_req_duration"][j].failed.n = Count(TimedWrongIn(g, j))
  <2>1. /\ st.fams["graphql_reqs"][j].count = Count(OpsIn(h, j))
        /\ st.fams["graphql_req_failed"][j].count = Count(OpsIn(h, j))
        /\ st.fams["graphql_req_failed"][j].trues = Count(WrongIn(h, j))
        /\ st.fams["graphql_req_duration"][j].ok.n = Count(TimedIn(h, j))
        /\ st.fams["graphql_req_duration"][j].failed.n = Count(TimedWrongIn(h, j))
    BY DEF OperationsMatch
  <2>2. CASE j = mine
    <3>1. /\ new.fams["graphql_reqs"][j].count = Count(OpsIn(g, j))
          /\ new.fams["graphql_req_failed"][j].count = Count(OpsIn(g, j))
      BY <2>1, <2>2, <1>1, <1>3
    <3>2. new.fams["graphql_req_failed"][j].trues = Count(WrongIn(g, j))
      BY <2>1, <2>2, <1>1, <1>4
    <3>3. new.fams["graphql_req_duration"][j].ok.n = Count(TimedIn(g, j))
      BY <2>1, <2>2, <1>1, <1>5
    <3>4. new.fams["graphql_req_duration"][j].failed.n = Count(TimedWrongIn(g, j))
      BY <2>1, <2>2, <1>1, <1>6
    <3>5. QED
      BY <3>1, <3>2, <3>3, <3>4
  <2>3. CASE j # mine
    BY <2>1, <2>3, <1>1, <1>3, <1>4, <1>5, <1>6
  <2>4. QED
    BY <2>2, <2>3
<1>8. OperationsMatch(new, g)
  BY <1>7 DEF OperationsMatch
<1>9. QED
  BY <1>1, <1>8 DEF new, SameAnswers

\* The errors of an answer, counted apart.
LEMMA AnswerRecorded ==
    ASSUME NEW st \in StoreType, FamiliesTyped(st), NEW v \in VUs, NEW g, NEW h, NEW x, NEW e,
           Extends(g, h, x, e),
           x[1] = v, e.op.kind = "graphql", e.op.errors, e.good, AnswersMatch(st, h)
    PROVE  LET new == Add(st, v, "graphql_errors", 1)
           IN  /\ new \in StoreType /\ FamiliesTyped(new) /\ AnswersMatch(new, g)
               /\ new.recs = st.recs /\ new.shards = st.shards /\ new.names = st.names
               /\ SameOperations(st, new)
<1> DEFINE A == "graphql_errors"
           new == Add(st, v, A, 1)
           s == [st.fams[A][FamShard(v)] EXCEPT !.count = @ + 1]
<1>1. FamiliesTyped(new) /\ FamChanged(st, new, A, v, s)
  BY AddIs
<1>2. s.count = st.fams[A][FamShard(v)].count + 1
  <2>1. st.fams[A][FamShard(v)] \in CounterType
    BY ShardsTyped DEF FamiliesTyped
  <2>2. QED
    BY <2>1 DEF CounterType
<1> HIDE DEF new, s
<1>3. \A j : /\ j = FamShard(v) => Count(AnswersIn(g, j)) = Count(AnswersIn(h, j)) + 1
             /\ j # FamShard(v) => Count(AnswersIn(g, j)) = Count(AnswersIn(h, j))
  BY AnswersGrow
<1>4. AnswersMatch(new, g)
  BY <1>1, <1>2, <1>3 DEF AnswersMatch, FamChanged
<1>5. SameOperations(st, new)
  BY <1>1, FamiliesDeclared DEF FamChanged, SameOperations
<1>6. QED
  BY <1>1, <1>4, <1>5 DEF FamChanged, new

-----------------------------------------------------------------------------
(* Workload: checks *)

\* A table of names, with one that may be new.
Named(names, name) == IF Contains(names, name) THEN names ELSE Append(names, name)

\* The table keeps its names in place when one is added, and adds none twice.
LEMMA NamedIs ==
    ASSUME NEW names \in Seq(CheckNames), NEW name \in CheckNames
    PROVE  LET after == Named(names, name)
           IN  /\ after \in Seq(CheckNames) /\ Len(names) <= Len(after)
               /\ DOMAIN names \subseteq DOMAIN after
               /\ \A k \in DOMAIN names : after[k] = names[k]
               /\ \A k \in DOMAIN after : k \notin DOMAIN names => after[k] = name /\ k = Len(names) + 1
               /\ ~Contains(names, name) => Len(names) + 1 \in DOMAIN after /\ after[Len(names) + 1] = name
               /\ Contains(names, name) => \A k \in DOMAIN after : k \in DOMAIN names
               /\ Contains(names, name) <=> \E k \in DOMAIN names : names[k] = name
<1> DEFINE after == Named(names, name)
<1>1. Contains(names, name) <=> \E k \in DOMAIN names : names[k] = name
  BY DEF Contains
<1>2. CASE Contains(names, name)
  BY <1>1, <1>2 DEF Named
<1>3. CASE ~Contains(names, name)
  <2>1. after = Append(names, name)
    BY <1>3 DEF Named
  <2>2. QED
    BY <1>1, <1>3, <2>1
<1>4. QED
  BY <1>2, <1>3

\* The index under which a check is counted, and the table it leaves.
FoundBy(st, v, name) ==
    LET cached == st.recs[v].checkIndex
    IN  IF name \in DOMAIN cached THEN <<cached[name], st.names>> ELSE id(st.names, name)

\* A name is found at its place in the table, from the cache or from the table.
LEMMA FoundIs ==
    ASSUME NEW st \in StoreType, NEW v \in VUs, NEW name \in CheckNames, NEW h, NEW names,
           NamesMatch(st, h, names), names \in Seq(CheckNames)
    PROVE  LET found == FoundBy(st, v, name)
               after == Named(names, name)
           IN  found[2] = after /\ found[1] \in DOMAIN after /\ after[found[1]] = name
<1> DEFINE cached == st.recs[v].checkIndex
           found == FoundBy(st, v, name)
           after == Named(names, name)
           there == {k \in DOMAIN names : names[k] = name}
<1>1. st.names = names
  BY DEF NamesMatch
<1>2. /\ Len(names) \in Nat
      /\ \A k \in DOMAIN names : k \in DOMAIN after /\ after[k] = names[k]
      /\ ~Contains(names, name) => Len(names) + 1 \in DOMAIN after /\ after[Len(names) + 1] = name
      /\ Contains(names, name) <=> \E k \in DOMAIN names : names[k] = name
  <2>1. Len(names) \in Nat
    OBVIOUS
  <2>2. QED
    BY <2>1, NamedIs, Zenon
<1>3. CASE name \in DOMAIN cached
  <2>1. found = <<cached[name], names>>
    BY <1>1, <1>3 DEF FoundBy
  <2>2. cached[name] \in DOMAIN names /\ names[cached[name]] = name
    BY <1>3 DEF NamesMatch
  <2>3. Contains(names, name)
    BY <1>2, <2>2
  <2>4. after = names
    BY <2>3 DEF Named
  <2>5. QED
    BY <2>1, <2>2, <2>4
<1>4. CASE name \notin DOMAIN cached /\ Contains(names, name)
  <2>1. found = id(names, name) /\ after = names
    BY <1>1, <1>4, Zenon DEF FoundBy, Named
  <2>2. \E k \in DOMAIN names : names[k] = name
    BY <1>2, <1>4
  <2> DEFINE k0 == CHOOSE k \in DOMAIN names : names[k] = name
  <2>3. k0 \in DOMAIN names /\ names[k0] = name
    BY <2>2
  <2>4. id(names, name) = <<k0, names>>
    BY <2>2, Zenon DEF id
  <2> HIDE DEF k0
  <2>5. QED
    BY <2>1, <2>3, <2>4
<1>5. CASE name \notin DOMAIN cached /\ ~Contains(names, name)
  <2>1. found = id(names, name) /\ after = Append(names, name)
    BY <1>1, <1>5, Zenon DEF FoundBy, Named
  <2>2. ~\E k \in DOMAIN names : names[k] = name
    BY <1>2, <1>5
  <2>3. id(names, name) = <<Len(names) + 1, Append(names, name)>>
    BY <2>2, Zenon DEF id
  <2>4. QED
    BY <1>2, <1>5, <2>1, <2>3
<1>6. QED
  BY <1>3, <1>4, <1>5

\* A table of counts, to which the i-th is added to.
Bumped(t, passed, msg) ==
    IF passed THEN [t EXCEPT !.passes = @ + 1]
    ELSE [t EXCEPT !.fails = @ + 1, !.firstError = IF @ = None THEN msg ELSE @]
Grown(checks, i) == checks \o [k \in 1..(i - Len(checks)) |-> noCount]

\* What a run of a check makes of its counts.
LEMMA BumpedIs ==
    ASSUME NEW t \in CheckType, NEW passed \in BOOLEAN, NEW msg \in Nat
    PROVE  /\ Bumped(t, passed, msg) \in CheckType
           /\ passed => /\ Bumped(t, passed, msg).passes = t.passes + 1
                        /\ Bumped(t, passed, msg).fails = t.fails
                        /\ Bumped(t, passed, msg).firstError = t.firstError
           /\ ~passed => /\ Bumped(t, passed, msg).passes = t.passes
                         /\ Bumped(t, passed, msg).fails = t.fails + 1
                         /\ Bumped(t, passed, msg).firstError = IF t.firstError = None THEN msg ELSE t.firstError
<1>1. CASE passed = TRUE
  BY <1>1 DEF Bumped, CheckType
<1>2. CASE passed = FALSE
  <2> DEFINE m == IF t.firstError = None THEN msg ELSE t.firstError
  <2>1. Bumped(t, passed, msg) = [t EXCEPT !.fails = t.fails + 1, !.firstError = m]
    BY <1>2 DEF Bumped
  <2>2. m \in Nat /\ t.fails + 1 \in Nat
    BY DEF CheckType
  <2>3. m = IF t.firstError = None THEN msg ELSE t.firstError
    OBVIOUS
  <2> HIDE DEF m
  <2>4. Bumped(t, passed, msg) \in CheckType
    <3>1. [t EXCEPT !.fails = t.fails + 1, !.firstError = m] \in CheckType
      BY <2>2 DEF CheckType
    <3>2. QED
      BY <2>1, <3>1
  <2>5. /\ Bumped(t, passed, msg).passes = t.passes
        /\ Bumped(t, passed, msg).fails = t.fails + 1
        /\ Bumped(t, passed, msg).firstError = m
    BY <2>1 DEF CheckType
  <2>6. QED
    BY <1>2, <2>3, <2>4, <2>5
<1>3. QED
  BY <1>1, <1>2

\* The counts of a recorder, made long enough for an index.
LEMMA GrownIs ==
    ASSUME NEW checks \in Seq(CheckType), NEW i \in Nat \ {0}
    PROVE  LET grown == Grown(checks, i)
           IN  /\ grown \in Seq(CheckType) /\ i \in DOMAIN grown
               /\ \A k \in DOMAIN grown : grown[k] = IF k \in DOMAIN checks THEN checks[k] ELSE noCount
               /\ \A k \in DOMAIN checks : k \in DOMAIN grown
               /\ Len(grown) = Len(checks) \/ Len(grown) = i
<1> DEFINE more == [k \in 1..(i - Len(checks)) |-> noCount]
           grown == Grown(checks, i)
<1>1. noCount \in CheckType
  BY DEF noCount, CheckType, None
<1>2. Len(checks) \in Nat
  OBVIOUS
<1>3. CASE i <= Len(checks)
  <2>1. more = <<>>
    BY <1>2, <1>3
  <2>2. grown = checks
    BY <2>1, ConcatEmptySeq DEF Grown
  <2>3. QED
    BY <1>3, <2>2
<1>4. CASE i > Len(checks)
  <2> DEFINE n == i - Len(checks)
  <2>1. n \in Nat /\ n > 0 /\ Len(checks) + n = i
    BY <1>2, <1>4
  <2>2. more = [k \in 1..n |-> noCount]
    OBVIOUS
  <2> HIDE DEF n, more
  <2>3. more \in Seq(CheckType) /\ Len(more) = n /\ \A k \in 1..n : more[k] = noCount
    BY <1>1, <2>1, <2>2
  <2>4. grown = checks \o more
    BY DEF Grown, more
  <2> HIDE DEF grown
  <2>5. grown \in Seq(CheckType) /\ Len(grown) = i
    BY <2>1, <2>3, <2>4, ConcatProperties
  <2>6. \A k \in 1..i : grown[k] = IF k \in 1..Len(checks) THEN checks[k] ELSE noCount
    BY <1>2, <2>1, <2>3, <2>4
  <2>7. QED
    BY <2>1, <2>5, <2>6, <1>4 DEF grown
<1>5. QED
  BY <1>2, <1>3, <1>4

\* What a run of a check leaves in the store: its name in the table, its index
\* in the cache, and one more in its slot.
LEMMA CheckIs ==
    ASSUME NEW st \in StoreType, NEW v \in VUs, NEW name \in CheckNames, NEW passed \in BOOLEAN,
           NEW msg \in Nat, NEW h, NEW names \in Seq(CheckNames), NEW i, i = FoundBy(st, v, name)[1],
           NamesMatch(st, h, names)
    PROVE  LET new == RecordCheck(st, v, name, passed, msg)
               after == Named(names, name)
               cache == st.recs[v].checkIndex
           IN  /\ new \in StoreType /\ new.shards = st.shards /\ new.fams = st.fams /\ new.names = after
               /\ i \in DOMAIN after /\ after[i] = name
               /\ SameRequests(st, new) /\ SameErrors(st, new) /\ SameIterations(st, new)
               /\ \A w \in VUs : w # v => new.recs[w] = st.recs[w]
               /\ DOMAIN new.recs[v].checkIndex = DOMAIN cache \union {name}
               /\ \A c \in DOMAIN cache \union {name} :
                    new.recs[v].checkIndex[c] = IF c = name THEN i ELSE cache[c]
               /\ Len(new.recs[v].checks) <= Len(after)
               /\ \A w \in VUs : \A k \in DOMAIN after :
                    /\ TallyOf(st, w, k) \in CheckType
                    /\ w = v /\ k = i => TallyOf(new, w, k) = Bumped(TallyOf(st, w, k), passed, msg)
                    /\ ~(w = v /\ k = i) => TallyOf(new, w, k) = TallyOf(st, w, k)
<1> DEFINE new == RecordCheck(st, v, name, passed, msg)
           after == Named(names, name)
           rec == st.recs[v]
           cache == rec.checkIndex
           index == [c \in DOMAIN cache \union {name} |-> IF c = name THEN i ELSE cache[c]]
           grown == Grown(rec.checks, i)
           checks == [grown EXCEPT ![i] = Bumped(grown[i], passed, msg)]
           r == [rec EXCEPT !.checkIndex = index, !.checks = checks]
<1>1. /\ rec \in RecType /\ rec.checks \in Seq(CheckType)
      /\ cache \in IndexType
  <2>1. rec \in RecType
    BY StoreParts
  <2> HIDE DEF rec
  <2>2. QED
    BY <2>1 DEF RecType
<1>2. FoundBy(st, v, name)[2] = after /\ i \in DOMAIN after /\ after[i] = name
  BY FoundIs
<1>3. /\ after \in Seq(CheckNames) /\ Len(names) <= Len(after) /\ DOMAIN names \subseteq DOMAIN after
  BY NamedIs
<1>4. i \in Nat \ {0} /\ i <= Len(after) /\ Len(after) \in Nat /\ Len(rec.checks) <= Len(names) /\ Len(names) \in Nat
  <2>1. Len(rec.checks) <= Len(names)
    BY DEF NamesMatch
  <2> HIDE DEF after, rec
  <2>2. QED
    BY <2>1, <1>2, <1>3
<1>5. /\ grown \in Seq(CheckType) /\ i \in DOMAIN grown
      /\ \A k \in DOMAIN grown : grown[k] = IF k \in DOMAIN rec.checks THEN rec.checks[k] ELSE noCount
      /\ \A k \in DOMAIN rec.checks : k \in DOMAIN grown
      /\ Len(grown) = Len(rec.checks) \/ Len(grown) = i
  BY <1>1, <1>4, GrownIs
<1>6. new = [st EXCEPT !.names = after, !.recs = [st.recs EXCEPT ![v] = r]]
  <2>1. FoundBy(st, v, name) = IF name \in DOMAIN cache THEN <<cache[name], st.names>> ELSE id(st.names, name)
    BY DEF FoundBy
  <2>2. new = Tally(st, v, name, FoundBy(st, v, name), passed, msg)
    BY <2>1 DEF RecordCheck
  <2> DEFINE bumps == IF passed THEN [grown EXCEPT ![i].passes = @ + 1]
                      ELSE [grown EXCEPT ![i].fails = @ + 1, ![i].firstError = IF @ = None THEN msg ELSE @]
  <2>3. bumps = checks
    <3>1. i \in DOMAIN grown /\ grown[i] \in CheckType
      BY <1>5
    <3> HIDE DEF grown
    <3>2. CASE passed = TRUE
      BY <3>1, <3>2 DEF Bumped, CheckType
    <3>3. CASE passed = FALSE
      BY <3>1, <3>3 DEF Bumped, CheckType
    <3>4. QED
      BY <3>2, <3>3
  <2> DEFINE found == FoundBy(st, v, name)
  <2>4. Tally(st, v, name, found, passed, msg) =
          [st EXCEPT !.names = found[2], !.recs[v].checkIndex = index, !.recs[v].checks = bumps]
    BY DEF Tally, Grown
  <2> HIDE DEF found, bumps, index, checks, after, new
  <2>5. found[2] = after
    BY <1>2 DEF found
  <2>6. DOMAIN st = {"recs", "shards", "names", "fams"} /\ DOMAIN st.recs = VUs /\ rec = st.recs[v]
    BY StoreParts DEF StoreType
  <2>7. {"checkIndex", "checks"} \subseteq DOMAIN rec
    BY <1>1 DEF RecType
  <2>8. new = [st EXCEPT !.names = after, !.recs[v].checkIndex = index, !.recs[v].checks = checks]
    BY <2>2, <2>3, <2>4, <2>5 DEF found
  <2>9. r = [rec EXCEPT !.checkIndex = index, !.checks = checks]
    OBVIOUS
  <2> HIDE DEF rec, r
  <2>10. QED
    BY <2>6, <2>7, <2>8, <2>9
<1>7. grown[i] = TallyOf(st, v, i) /\ grown[i] \in CheckType
  BY <1>5 DEF TallyOf
<1>8. Bumped(grown[i], passed, msg) \in CheckType
  BY <1>7, BumpedIs
<1> HIDE DEF grown
<1>9. /\ checks \in Seq(CheckType) /\ DOMAIN checks = DOMAIN grown /\ Len(checks) = Len(grown)
      /\ \A k \in DOMAIN grown : checks[k] = IF k = i THEN Bumped(grown[i], passed, msg) ELSE grown[k]
  <2> DEFINE b == Bumped(grown[i], passed, msg)
  <2> HIDE DEF b
  <2>1. /\ [grown EXCEPT ![i] = b] \in Seq(CheckType)
        /\ DOMAIN [grown EXCEPT ![i] = b] = DOMAIN grown
        /\ Len([grown EXCEPT ![i] = b]) = Len(grown)
        /\ \A k \in DOMAIN grown : [grown EXCEPT ![i] = b][k] = IF k = i THEN b ELSE grown[k]
    BY <1>5, <1>8 DEF b
  <2>2. QED
    BY <2>1 DEF b
<1>10. index \in IndexType
  <2>1. PICK S \in SUBSET CheckNames : cache \in [S -> Nat]
    BY <1>1 DEF IndexType
  <2>2. DOMAIN cache = S
    BY <2>1
  <2>3. index \in [S \union {name} -> Nat]
    <3> HIDE DEF cache
    <3> QED BY <2>1, <2>2, <1>4
  <2>4. QED
    BY <2>1, <2>3 DEF IndexType
<1>11. r \in RecType /\ r.checks = checks /\ r.checkIndex = index
       /\ r.unsent = rec.unsent /\ r.protocols = rec.protocols /\ r.iterations = rec.iterations
       /\ r.scriptErrors = rec.scriptErrors /\ r.firstScriptError = rec.firstScriptError
  <2> HIDE DEF index, checks, rec
  <2> QED BY <1>1, <1>9, <1>10 DEF RecType
<1>12. /\ new \in StoreType /\ new.shards = st.shards /\ new.fams = st.fams /\ new.names = after
       /\ new.recs[v] = r /\ \A w \in VUs : w # v => new.recs[w] = st.recs[w]
  <2> HIDE DEF r, after, new
  <2> QED BY <1>3, <1>6, <1>11 DEF StoreType
<1>13. ASSUME NEW w \in VUs, NEW k \in DOMAIN after
       PROVE  /\ TallyOf(st, w, k) \in CheckType
              /\ w = v /\ k = i => TallyOf(new, w, k) = Bumped(TallyOf(st, w, k), passed, msg)
              /\ ~(w = v /\ k = i) => TallyOf(new, w, k) = TallyOf(st, w, k)
  <2> HIDE DEF new, r, checks, after
  <2>1. TallyOf(st, w, k) \in CheckType
    <3>1. st.recs[w] \in RecType
      BY StoreParts
    <3>2. st.recs[w].checks \in Seq(CheckType)
      BY <3>1 DEF RecType
    <3>3. noCount \in CheckType
      BY DEF noCount, CheckType, None
    <3>4. QED
      BY <3>2, <3>3 DEF TallyOf
  <2>2. CASE w # v
    BY <2>1, <2>2, <1>12 DEF TallyOf
  <2>3. CASE w = v
    <3>1. new.recs[w].checks = checks /\ st.recs[w].checks = rec.checks
      BY <2>3, <1>11, <1>12
    <3>2. TallyOf(new, w, k) = IF k \in DOMAIN grown THEN checks[k] ELSE noCount
      BY <3>1, <1>9 DEF TallyOf
    <3>3. TallyOf(st, w, k) = IF k \in DOMAIN rec.checks THEN rec.checks[k] ELSE noCount
      BY <3>1 DEF TallyOf
    <3>4. CASE k = i
      BY <2>1, <2>3, <3>2, <3>4, <1>5, <1>7, <1>9
    <3>5. CASE k # i
      BY <2>1, <2>3, <3>2, <3>3, <3>5, <1>5, <1>9
    <3>6. QED
      BY <3>4, <3>5
  <2>4. QED
    BY <2>2, <2>3
<1>14. SameRequests(st, new) /\ SameErrors(st, new) /\ SameIterations(st, new)
  <2> HIDE DEF new, r
  <2> QED BY <1>11, <1>12 DEF SameRequests, SameErrors, SameIterations
<1>15. Len(new.recs[v].checks) <= Len(after)
  <2>1. Len(rec.checks) \in Nat /\ Len(names) <= Len(after)
    BY <1>1, <1>3
  <2>2. Len(checks) <= Len(after)
    <3> HIDE DEF checks, after, rec
    <3> QED BY <2>1, <1>4, <1>5, <1>9
  <2> HIDE DEF new, r, checks, after, rec
  <2>3. QED
    BY <2>2, <1>11, <1>12
<1>16. /\ DOMAIN new.recs[v].checkIndex = DOMAIN cache \union {name}
       /\ \A c \in DOMAIN cache \union {name} :
            new.recs[v].checkIndex[c] = IF c = name THEN i ELSE cache[c]
  <2> HIDE DEF new, r, cache
  <2> QED BY <1>11, <1>12
<1> HIDE DEF new, after, rec
<1>17. QED
  BY <1>2, <1>12, <1>13, <1>14, <1>15, <1>16 DEF new, after, rec

\* The store after a check of that result.
CheckStored(st, v, name, result) ==
    RecordCheck(st, v, name, result = "pass", IF result = "throw" THEN v ELSE None)

\* RecordCheck counts the run in the slot of its name, in its VU's recorder.
LEMMA CheckRecorded ==
    ASSUME NEW st \in StoreType, NEW v \in VUs, NEW g, NEW h, NEW x, NEW e, Extends(g, h, x, e),
           NEW name \in CheckNames, NEW result \in {"pass", "fail", "throw"},
           x[1] = v, e.op.kind = "check", e.op.name = name, e.op.result = result,
           NEW names \in Seq(CheckNames), NamesMatch(st, h, names), ChecksMatch(st, h, names)
    PROVE  LET new == CheckStored(st, v, name, result)
               after == Named(names, name)
           IN  /\ new \in StoreType /\ new.shards = st.shards /\ new.fams = st.fams
               /\ SameRequests(st, new) /\ SameErrors(st, new) /\ SameIterations(st, new)
               /\ after \in Seq(CheckNames) /\ NamesMatch(new, g, after) /\ ChecksMatch(new, g, after)
<1> DEFINE passed == result = "pass"
           msg == IF result = "throw" THEN v ELSE None
           new == RecordCheck(st, v, name, passed, msg)
           after == Named(names, name)
           cache == st.recs[v].checkIndex
           i == FoundBy(st, v, name)[1]
<1>1. passed \in BOOLEAN /\ msg \in Nat /\ v \in Nat \ {0}
  BY ShardsTyped DEF None
<1>2. /\ after \in Seq(CheckNames) /\ Len(names) \in Nat /\ Len(names) <= Len(after)
      /\ \A k \in DOMAIN names : k \in DOMAIN after /\ after[k] = names[k]
      /\ \A k \in DOMAIN after : k \notin DOMAIN names => after[k] = name /\ k = Len(names) + 1
  BY NamedIs
<1>3. ASSUME NEW k \in DOMAIN after, k \notin DOMAIN names
      PROVE  ~\E l \in DOMAIN names : names[l] = name
  <2>1. ~Contains(names, name)
    BY <1>3, NamedIs, Zenon
  <2>2. QED
    BY <2>1, NamedIs, Zenon
<1> HIDE DEF passed, msg
<1>4. /\ new \in StoreType /\ new.shards = st.shards /\ new.fams = st.fams /\ new.names = after
      /\ i \in DOMAIN after /\ after[i] = name
      /\ SameRequests(st, new) /\ SameErrors(st, new) /\ SameIterations(st, new)
      /\ \A w \in VUs : w # v => new.recs[w] = st.recs[w]
      /\ DOMAIN new.recs[v].checkIndex = DOMAIN cache \union {name}
      /\ \A c \in DOMAIN cache \union {name} :
           new.recs[v].checkIndex[c] = IF c = name THEN i ELSE cache[c]
      /\ Len(new.recs[v].checks) <= Len(after)
      /\ \A w \in VUs : \A k \in DOMAIN after :
           /\ TallyOf(st, w, k) \in CheckType
           /\ w = v /\ k = i => TallyOf(new, w, k) = Bumped(TallyOf(st, w, k), passed, msg)
           /\ ~(w = v /\ k = i) => TallyOf(new, w, k) = TallyOf(st, w, k)
  BY <1>1, CheckIs
<1> HIDE DEF new, after, i
<1>5. \A k, l \in DOMAIN after : after[k] = after[l] => k = l
  <2>1. \A k, l \in DOMAIN names : names[k] = names[l] => k = l
    BY DEF NamesMatch
  <2>2. QED
    BY <1>2, <1>3, <2>1
<1>6. NamesMatch(new, g, after)
  <2>1. ASSUME NEW y \in DOMAIN g, g[y].op.kind = "check"
        PROVE  \E k \in DOMAIN after : after[k] = g[y].op.name
    <3>1. CASE y = x
      BY <3>1, <1>4 DEF Extends
    <3>2. CASE y # x
      <4>1. y \in DOMAIN h /\ g[y] = h[y]
        BY <3>2 DEF Extends
      <4>2. \E k \in DOMAIN names : names[k] = h[y].op.name
        BY <2>1, <4>1 DEF NamesMatch
      <4>3. QED
        BY <1>2, <4>1, <4>2
    <3>3. QED
      BY <3>1, <3>2
  <2>2. ASSUME NEW w \in VUs
        PROVE  /\ Len(new.recs[w].checks) <= Len(after)
               /\ \A c \in DOMAIN new.recs[w].checkIndex :
                    /\ new.recs[w].checkIndex[c] \in DOMAIN after
                    /\ after[new.recs[w].checkIndex[c]] = c
    <3>1. /\ Len(st.recs[w].checks) <= Len(names)
          /\ \A c \in DOMAIN st.recs[w].checkIndex :
               /\ st.recs[w].checkIndex[c] \in DOMAIN names
               /\ names[st.recs[w].checkIndex[c]] = c
      BY DEF NamesMatch
    <3>2. CASE w = v
      BY <3>1, <3>2, <1>2, <1>4
    <3>3. CASE w # v
      <4>1. Len(st.recs[w].checks) \in Nat
        <5>1. st.recs[w] \in RecType
          BY StoreParts
        <5>2. QED
          BY <5>1 DEF RecType
      <4>2. Len(after) \in Nat
        BY <1>2
      <4>3. QED
        BY <3>1, <3>3, <1>2, <1>4, <4>1, <4>2
    <3>4. QED
      BY <3>2, <3>3
  <2>3. QED
    BY <1>4, <1>5, <2>1, <2>2 DEF NamesMatch
\* Before the run, the table with the name already counts nothing under it.
<1>7. ASSUME NEW w \in VUs, NEW k \in DOMAIN after
      PROVE  TallyMatches(TallyOf(st, w, k), h, w, after[k])
  <2>1. CASE k \in DOMAIN names
    BY <2>1, <1>2 DEF ChecksMatch
  <2>2. CASE k \notin DOMAIN names
    <3>1. after[k] = name /\ k = Len(names) + 1
      BY <2>2, <1>2
    <3>2. \A results : RunsOf(h, w, name, results) = {}
      BY <2>2, <1>3 DEF RunsOf, NamesMatch
    <3>3. TallyOf(st, w, k) = noCount
      <4>1. Len(st.recs[w].checks) <= Len(names)
        BY DEF NamesMatch
      <4>2. st.recs[w].checks \in Seq(CheckType)
        <5>1. st.recs[w] \in RecType
          BY StoreParts
        <5>2. QED
          BY <5>1 DEF RecType
      <4>3. k \notin DOMAIN st.recs[w].checks
        BY <3>1, <4>1, <4>2, <1>2
      <4>4. QED
        BY <4>3 DEF TallyOf
    <3>4. Count({}) = 0
      BY FS_EmptySet DEF Count
    <3>5. /\ RunsOf(h, w, name, {"pass"}) = {} /\ RunsOf(h, w, name, {"fail", "throw"}) = {}
          /\ RunsOf(h, w, name, {"throw"}) = {}
      BY <3>2
    <3>6. noCount.passes = 0 /\ noCount.fails = 0 /\ noCount.firstError = None
      BY DEF noCount
    <3>7. TallyMatches(noCount, h, w, name)
      BY <3>4, <3>5, <3>6, Zenon DEF TallyMatches
    <3>8. QED
      BY <3>1, <3>3, <3>7
  <2>3. QED
    BY <2>1, <2>2
<1>8. ASSUME NEW w \in VUs, NEW k \in DOMAIN after
      PROVE  TallyMatches(TallyOf(new, w, k), g, w, after[k])
  <2> DEFINE t == TallyOf(st, w, k)
  <2>1. t \in CheckType /\ TallyMatches(t, h, w, after[k])
    BY <1>4, <1>7
  <2>2. CASE ~(w = v /\ k = i)
    <3>1. TallyOf(new, w, k) = t
      BY <2>2, <1>4
    <3>2. w # v \/ after[k] # name
      BY <2>2, <1>4, <1>5
    <3>3. \A results : RunsOf(g, w, after[k], results) = RunsOf(h, w, after[k], results)
      BY <3>2 DEF Extends, RunsOf
    <3> HIDE DEF t
    <3>4. QED
      BY <2>1, <3>1, <3>3 DEF TallyMatches
  <2>3. CASE w = v /\ k = i
    <3>1. TallyOf(new, w, k) = Bumped(t, passed, msg) /\ after[k] = name
      BY <2>3, <1>4
    <3>2. e.op.kind = "check" /\ e.op.name = name /\ e.op.result = result
      OBVIOUS
    <3>3. \A results : /\ Count(RunsOf(h, v, name, results)) \in Nat
                       /\ result \in results => Count(RunsOf(g, v, name, results)) = Count(RunsOf(h, v, name, results)) + 1
                       /\ result \notin results => Count(RunsOf(g, v, name, results)) = Count(RunsOf(h, v, name, results))
      BY <3>2, RunsGrow
    <3>4. /\ result = "throw" => RunsOf(g, v, name, {"throw"}) # {}
          /\ result # "throw" => RunsOf(g, v, name, {"throw"}) = RunsOf(h, v, name, {"throw"})
          /\ RunsOf(h, v, name, {"throw"}) # {} => RunsOf(g, v, name, {"throw"}) # {}
      BY <3>2 DEF Extends, RunsOf
    <3>5. /\ t.passes = Count(RunsOf(h, v, name, {"pass"}))
          /\ t.fails = Count(RunsOf(h, v, name, {"fail", "throw"}))
          /\ t.firstError = IF RunsOf(h, v, name, {"throw"}) = {} THEN None ELSE v
      BY <2>1, <2>3, <3>1 DEF TallyMatches
    <3> HIDE DEF t
    <3>6. /\ passed => /\ Bumped(t, passed, msg).passes = t.passes + 1
                       /\ Bumped(t, passed, msg).fails = t.fails
                       /\ Bumped(t, passed, msg).firstError = t.firstError
          /\ ~passed => /\ Bumped(t, passed, msg).passes = t.passes
                        /\ Bumped(t, passed, msg).fails = t.fails + 1
                        /\ Bumped(t, passed, msg).firstError = IF t.firstError = None THEN msg ELSE t.firstError
      BY <1>1, <2>1, BumpedIs
    <3>7. TallyMatches(Bumped(t, passed, msg), g, v, name)
      <4> DEFINE b == Bumped(t, passed, msg)
      <4>1. CASE result = "pass"
        <5>1. passed
          BY <4>1 DEF passed
        <5>2. b.passes = t.passes + 1 /\ b.fails = t.fails /\ b.firstError = t.firstError
          BY <3>6, <5>1
        <5> HIDE DEF b
        <5>3. b.passes = Count(RunsOf(g, v, name, {"pass"})) /\ b.fails = Count(RunsOf(g, v, name, {"fail", "throw"}))
          BY <3>3, <3>5, <4>1, <5>2
        <5>4. b.firstError = IF RunsOf(g, v, name, {"throw"}) = {} THEN None ELSE v
          BY <3>4, <3>5, <4>1, <5>2
        <5>5. QED
          BY <5>3, <5>4 DEF TallyMatches, b
      <4>2. CASE result # "pass"
        <5>1. ~passed
          BY <4>2 DEF passed
        <5>2. /\ b.passes = t.passes /\ b.fails = t.fails + 1
              /\ b.firstError = IF t.firstError = None THEN msg ELSE t.firstError
          BY <3>6, <5>1
        <5>3. msg = IF result = "throw" THEN v ELSE None
          BY DEF msg
        <5> HIDE DEF b
        <5>4. b.passes = Count(RunsOf(g, v, name, {"pass"})) /\ b.fails = Count(RunsOf(g, v, name, {"fail", "throw"}))
          BY <3>3, <3>5, <4>2, <5>2
        <5>5. b.firstError = IF RunsOf(g, v, name, {"throw"}) = {} THEN None ELSE v
          BY <3>4, <3>5, <4>2, <5>2, <5>3, <1>1 DEF None
        <5>6. QED
          BY <5>4, <5>5 DEF TallyMatches, b
      <4>3. QED
        BY <4>1, <4>2
    <3>8. QED
      BY <2>3, <3>1, <3>7
  <2>4. QED
    BY <2>2, <2>3
<1>9. ChecksMatch(new, g, after)
  BY <1>8 DEF ChecksMatch
<1>10. QED
  BY <1>2, <1>4, <1>6, <1>9 DEF new, after, passed, msg, CheckStored

-----------------------------------------------------------------------------
(* Workload: the history grows *)

\* Where an entry is.
LEMMA EntryIs ==
    ASSUME NEW l, NEW i
    PROVE  i \in EntriesOf(l) <=> i = <<i[1], i[2]>> /\ i[1] \in VUs /\ i[2] \in DOMAIN l[i[1]]
  BY DEF EntriesOf

\* The history is finite.
LEMMA EntriesFinite ==
    ASSUME NEW S, NEW l \in Logs(S)
    PROVE  IsFiniteSet(EntriesOf(l))
<1> DEFINE of(v) == {<<v, k>> : k \in DOMAIN l[v]}
           T == {of(v) : v \in VUs}
<1>1. ASSUME NEW v \in VUs
      PROVE  IsFiniteSet(of(v))
  <2>1. DOMAIN l[v] = 1..Len(l[v]) /\ Len(l[v]) \in Nat
    BY DEF Logs
  <2>2. IsFiniteSet(DOMAIN l[v])
    BY <2>1, FS_Interval
  <2>3. IsFiniteSet({v} \X DOMAIN l[v])
    BY <2>2, FS_Singleton, FS_Product
  <2>4. of(v) \subseteq {v} \X DOMAIN l[v]
    OBVIOUS
  <2>5. QED
    BY <2>3, <2>4, FS_Subset
<1>2. IsFiniteSet(T)
  <2> DEFINE f == [v \in VUs |-> of(v)]
  <2>1. IsFiniteSet(VUs)
    BY ShardsTyped
  <2> HIDE DEF of
  <2>2. f \in Surjection(VUs, T)
    BY DEF Surjection
  <2> HIDE DEF f, T
  <2>3. QED
    BY <2>1, <2>2, FS_Surjection
<1>3. EntriesOf(l) = UNION T
  BY DEF EntriesOf
<1>4. \A X \in T : IsFiniteSet(X)
  BY <1>1
<1> HIDE DEF T
<1>5. QED
  BY <1>2, <1>3, <1>4, FS_UNION

\* The log of v has e appended.
Appended(l, m, v, e) ==
    /\ Len(m[v]) = Len(l[v]) + 1 /\ m[v][Len(l[v]) + 1] = e
    /\ \A k \in 1..Len(l[v]) : m[v][k] = l[v][k]
    /\ \A w \in VUs : w # v => m[w] = l[w]

\* A VU that has appended an entry waits to record it.
LEMMA HistoryWaits ==
    ASSUME NEW S, NEW l \in Logs(S), NEW m \in Logs(S), NEW e \in S, NEW W,
           NEW v \in VUs, v \notin W, Appended(l, m, v, e)
    PROVE  History(m, W \union {v}) = History(l, W)
<1>1. \A w \in VUs : w # v => m[w] = l[w]
  BY DEF Appended
<1>2. /\ DOMAIN m[v] = DOMAIN l[v] \union {Len(l[v]) + 1} /\ Len(l[v]) + 1 \notin DOMAIN l[v]
      /\ Len(m[v]) = Len(l[v]) + 1 /\ \A k \in DOMAIN l[v] : m[v][k] = l[v][k]
  <2>1. Len(l[v]) \in Nat /\ DOMAIN l[v] = 1..Len(l[v]) /\ DOMAIN m[v] = 1..Len(m[v])
    BY DEF Logs
  <2>2. Len(m[v]) = Len(l[v]) + 1 /\ \A k \in 1..Len(l[v]) : m[v][k] = l[v][k]
    BY DEF Appended
  <2>3. QED
    BY <2>1, <2>2
<1>3. Settled(m, W \union {v}) = Settled(l, W)
  <2>1. ASSUME NEW i, i \in Settled(m, W \union {v})
        PROVE  i \in Settled(l, W)
    <3>1. PICK w, k : w \in VUs /\ k \in DOMAIN m[w] /\ i = <<w, k>>
      BY <2>1, EntryIs DEF Settled
    <3>2. w \in W \union {v} => k # Len(m[w])
      BY <2>1, <3>1 DEF Settled
    <3>3. k \in DOMAIN l[w] /\ (w \in W => k # Len(l[w]))
      BY <1>1, <1>2, <3>1, <3>2
    <3>4. QED
      BY <3>1, <3>3, EntryIs DEF Settled
  <2>2. ASSUME NEW i, i \in Settled(l, W)
        PROVE  i \in Settled(m, W \union {v})
    <3>1. PICK w, k : w \in VUs /\ k \in DOMAIN l[w] /\ i = <<w, k>>
      BY <2>2, EntryIs DEF Settled
    <3>2. w \in W => k # Len(l[w])
      BY <2>2, <3>1 DEF Settled
    <3>3. k \in DOMAIN m[w] /\ (w \in W \union {v} => k # Len(m[w]))
      BY <1>1, <1>2, <3>1, <3>2
    <3>4. QED
      BY <3>1, <3>3, EntryIs DEF Settled
  <2>3. QED
    BY <2>1, <2>2
<1>4. \A i \in Settled(l, W) : m[i[1]][i[2]] = l[i[1]][i[2]]
  <2> SUFFICES ASSUME NEW i \in Settled(l, W) PROVE m[i[1]][i[2]] = l[i[1]][i[2]]
    OBVIOUS
  <2>1. PICK w, k : w \in VUs /\ k \in DOMAIN l[w] /\ i = <<w, k>>
    BY EntryIs DEF Settled
  <2>2. m[w][k] = l[w][k]
    BY <1>1, <1>2, <2>1
  <2>3. QED
    BY <2>1, <2>2
<1>5. QED
  BY <1>3, <1>4 DEF History

\* A VU that waited has recorded its last entry.
LEMMA HistoryDone ==
    ASSUME NEW S, NEW l \in Logs(S), NEW W, NEW v \in VUs, v \in W, l[v] # <<>>
    PROVE  Extends(History(l, W \ {v}), History(l, W), <<v, Len(l[v])>>, l[v][Len(l[v])])
<1> DEFINE x == <<v, Len(l[v])>>
<1>1. Len(l[v]) \in DOMAIN l[v] /\ DOMAIN l[v] = 1..Len(l[v])
  BY DEF Logs
<1>2. IsFiniteSet(EntriesOf(l))
  BY EntriesFinite
<1>3. IsFiniteSet(Settled(l, W)) /\ x \notin Settled(l, W) /\ x \in Settled(l, W \ {v})
  <2>1. Settled(l, W) \subseteq EntriesOf(l)
    BY DEF Settled
  <2>2. x \in EntriesOf(l)
    BY <1>1 DEF EntriesOf
  <2>3. QED
    BY <1>2, <2>1, <2>2, FS_Subset DEF Settled
<1>4. Settled(l, W \ {v}) = Settled(l, W) \union {x}
  <2>1. ASSUME NEW i, i \in Settled(l, W \ {v}), i # x
        PROVE  i \in Settled(l, W)
    <3>1. PICK w, k : w \in VUs /\ k \in DOMAIN l[w] /\ i = <<w, k>>
      BY <2>1, EntryIs DEF Settled
    <3>2. w \in W \ {v} => k # Len(l[w])
      BY <2>1, <3>1 DEF Settled
    <3>3. w = v => k # Len(l[w])
      BY <2>1, <3>1
    <3>4. QED
      BY <3>1, <3>2, <3>3, EntryIs DEF Settled
  <2>2. Settled(l, W) \subseteq Settled(l, W \ {v})
    BY DEF Settled
  <2>3. QED
    BY <1>3, <2>1, <2>2
<1> HIDE DEF x
<1>5. /\ DOMAIN History(l, W) = Settled(l, W) /\ DOMAIN History(l, W \ {v}) = Settled(l, W \ {v})
      /\ \A i \in Settled(l, W) : History(l, W)[i] = l[i[1]][i[2]]
      /\ \A i \in Settled(l, W \ {v}) : History(l, W \ {v})[i] = l[i[1]][i[2]]
  BY DEF History
<1>6. l[x[1]][x[2]] = l[v][Len(l[v])]
  BY DEF x
<1>7. QED
  BY <1>3, <1>4, <1>5, <1>6 DEF Extends, x

\* A VU that waits for nothing has appended an entry.
LEMMA HistoryAppends ==
    ASSUME NEW S, NEW l \in Logs(S), NEW m \in Logs(S), NEW e \in S, NEW W,
           NEW v \in VUs, v \notin W, Appended(l, m, v, e)
    PROVE  Extends(History(m, W), History(l, W), <<v, Len(l[v]) + 1>>, e)
<1>2. m[v] # <<>> /\ Len(m[v]) = Len(l[v]) + 1 /\ m[v][Len(l[v]) + 1] = e
  BY DEF Appended, Logs
<1>3. Extends(History(m, (W \union {v}) \ {v}), History(m, W \union {v}), <<v, Len(m[v])>>, m[v][Len(m[v])])
  BY <1>2, HistoryDone
<1>4. History(m, W \union {v}) = History(l, W)
  BY HistoryWaits
<1>5. (W \union {v}) \ {v} = W
  OBVIOUS
<1>6. QED
  BY <1>2, <1>3, <1>4, <1>5

\* The last entries of the VUs that wait do not matter.
LEMMA HistoryKept ==
    ASSUME NEW l, NEW m, NEW W,
           \A v \in VUs : /\ DOMAIN m[v] = DOMAIN l[v] /\ Len(m[v]) = Len(l[v])
                          /\ \A k \in DOMAIN l[v] : (v \in W /\ k = Len(l[v])) \/ m[v][k] = l[v][k]
    PROVE  History(m, W) = History(l, W)
<1>1. Settled(m, W) = Settled(l, W)
  <2>1. EntriesOf(m) = EntriesOf(l)
    BY DEF EntriesOf
  <2>2. \A i \in EntriesOf(l) : Len(m[i[1]]) = Len(l[i[1]])
    BY EntryIs
  <2>3. QED
    BY <2>1, <2>2 DEF Settled
<1>2. ASSUME NEW i \in Settled(l, W)
      PROVE  m[i[1]][i[2]] = l[i[1]][i[2]]
  <2>1. PICK w, k : w \in VUs /\ k \in DOMAIN l[w] /\ i = <<w, k>>
    BY EntryIs DEF Settled
  <2>2. w \in W => k # Len(l[w])
    BY <2>1 DEF Settled
  <2>3. QED
    BY <2>1, <2>2
<1>3. QED
  BY <1>1, <1>2 DEF History

-----------------------------------------------------------------------------
(* Workload: what each step makes of the history *)

GoodEntry == [op : Ops, good : BOOLEAN]

\* What the log says of first steps.
LEMMA FirstLogIs ==
    ASSUME NEW l \in Logs(EntryType)
    PROVE  /\ FirstLog(l) \in Logs(GoodEntry)
           /\ \A v \in VUs : /\ Len(FirstLog(l)[v]) = Len(l[v]) /\ Len(l[v]) \in Nat
                             /\ \A k \in 1..Len(l[v]) : FirstLog(l)[v][k] = [op |-> l[v][k].op, good |-> l[v][k].first]
<1>1. DOMAIN FirstLog(l) = VUs /\ FirstLog(l) = [v \in VUs |-> FirstLog(l)[v]]
  BY DEF FirstLog
<1>2. ASSUME NEW v \in VUs
      PROVE  /\ FirstLog(l)[v] \in Seq(GoodEntry) /\ Len(FirstLog(l)[v]) = Len(l[v]) /\ Len(l[v]) \in Nat
             /\ \A k \in 1..Len(l[v]) : FirstLog(l)[v][k] = [op |-> l[v][k].op, good |-> l[v][k].first]
  <2> DEFINE n == Len(l[v])
             s == FirstLog(l)[v]
  <2>1. n \in Nat /\ \A k \in 1..n : l[v][k] \in EntryType
    BY DEF Logs
  <2>2. s = [k \in 1..n |-> [op |-> l[v][k].op, good |-> l[v][k].first]]
    BY DEF FirstLog
  <2>3. \A e \in EntryType : [op |-> e.op, good |-> e.first] \in GoodEntry
    BY DEF EntryType, GoodEntry
  <2>4. \A k \in 1..n : [op |-> l[v][k].op, good |-> l[v][k].first] \in GoodEntry
    BY <2>1, <2>3
  <2> HIDE DEF n, s
  <2>5. s \in Seq(GoodEntry) /\ Len(s) = n
    BY <2>1, <2>2, <2>4
  <2>6. \A k \in 1..n : s[k] = [op |-> l[v][k].op, good |-> l[v][k].first]
    BY <2>2
  <2>7. QED
    BY <2>1, <2>5, <2>6 DEF n, s
<1>3. QED
  BY <1>1, <1>2 DEF Logs

\* It grows with the log.
LEMMA FirstLogAppended ==
    ASSUME NEW l \in Logs(EntryType), NEW m \in Logs(EntryType), NEW v \in VUs, NEW e, Appended(l, m, v, e)
    PROVE  Appended(FirstLog(l), FirstLog(m), v, [op |-> e.op, good |-> e.first])
<1> DEFINE n == Len(l[v])
           f == FirstLog(l)
           g == FirstLog(m)
<1>1. /\ Len(m[v]) = n + 1 /\ m[v][n + 1] = e /\ \A k \in 1..n : m[v][k] = l[v][k]
      /\ \A w \in VUs : w # v => m[w] = l[w]
  BY DEF Appended
<1>2. /\ n \in Nat /\ Len(f[v]) = n /\ Len(g[v]) = Len(m[v])
      /\ \A k \in 1..n : f[v][k] = [op |-> l[v][k].op, good |-> l[v][k].first]
      /\ \A k \in 1..Len(m[v]) : g[v][k] = [op |-> m[v][k].op, good |-> m[v][k].first]
  BY FirstLogIs
<1>3. ASSUME NEW w \in VUs, w # v
      PROVE  g[w] = f[w]
  <2>1. m[w] = l[w]
    BY <1>1, <1>3
  <2>2. /\ g[w] = [k \in 1..Len(m[w]) |-> [op |-> m[w][k].op, good |-> m[w][k].first]]
        /\ f[w] = [k \in 1..Len(l[w]) |-> [op |-> l[w][k].op, good |-> l[w][k].first]]
    BY DEF FirstLog
  <2> HIDE DEF f, g
  <2>3. QED
    BY <2>1, <2>2, Zenon
<1> HIDE DEF n, f, g
<1>4. ASSUME NEW k \in 1..n
      PROVE  g[v][k] = f[v][k]
  <2>1. k \in 1..Len(m[v]) /\ m[v][k] = l[v][k]
    BY <1>1, <1>2
  <2>2. g[v][k] = [op |-> m[v][k].op, good |-> m[v][k].first] /\ f[v][k] = [op |-> l[v][k].op, good |-> l[v][k].first]
    BY <2>1, <1>2
  <2>3. QED
    BY <2>1, <2>2
<1>5. g[v][n + 1] = [op |-> e.op, good |-> e.first]
  BY <1>1, <1>2
<1>6. QED
  BY <1>1, <1>2, <1>3, <1>4, <1>5 DEF Appended, f, g

\* What the log says of second steps.
LEMMA SecondLogIs ==
    ASSUME NEW l \in Logs(EntryType)
    PROVE  /\ SecondLog(l) \in Logs(GoodEntry)
           /\ \A v \in VUs : /\ Len(SecondLog(l)[v]) = Len(l[v]) /\ Len(l[v]) \in Nat
                             /\ \A k \in 1..Len(l[v]) : SecondLog(l)[v][k] = [op |-> l[v][k].op, good |-> l[v][k].second]
<1>1. DOMAIN SecondLog(l) = VUs /\ SecondLog(l) = [v \in VUs |-> SecondLog(l)[v]]
  BY DEF SecondLog
<1>2. ASSUME NEW v \in VUs
      PROVE  /\ SecondLog(l)[v] \in Seq(GoodEntry) /\ Len(SecondLog(l)[v]) = Len(l[v]) /\ Len(l[v]) \in Nat
             /\ \A k \in 1..Len(l[v]) : SecondLog(l)[v][k] = [op |-> l[v][k].op, good |-> l[v][k].second]
  <2> DEFINE n == Len(l[v])
             s == SecondLog(l)[v]
  <2>1. n \in Nat /\ \A k \in 1..n : l[v][k] \in EntryType
    BY DEF Logs
  <2>2. s = [k \in 1..n |-> [op |-> l[v][k].op, good |-> l[v][k].second]]
    BY DEF SecondLog
  <2>3. \A e \in EntryType : [op |-> e.op, good |-> e.second] \in GoodEntry
    BY DEF EntryType, GoodEntry
  <2>4. \A k \in 1..n : [op |-> l[v][k].op, good |-> l[v][k].second] \in GoodEntry
    BY <2>1, <2>3
  <2> HIDE DEF n, s
  <2>5. s \in Seq(GoodEntry) /\ Len(s) = n
    BY <2>1, <2>2, <2>4
  <2>6. \A k \in 1..n : s[k] = [op |-> l[v][k].op, good |-> l[v][k].second]
    BY <2>2
  <2>7. QED
    BY <2>1, <2>5, <2>6 DEF n, s
<1>3. QED
  BY <1>1, <1>2 DEF Logs

\* It grows with the log.
LEMMA SecondLogAppended ==
    ASSUME NEW l \in Logs(EntryType), NEW m \in Logs(EntryType), NEW v \in VUs, NEW e, Appended(l, m, v, e)
    PROVE  Appended(SecondLog(l), SecondLog(m), v, [op |-> e.op, good |-> e.second])
<1> DEFINE n == Len(l[v])
           f == SecondLog(l)
           g == SecondLog(m)
<1>1. /\ Len(m[v]) = n + 1 /\ m[v][n + 1] = e /\ \A k \in 1..n : m[v][k] = l[v][k]
      /\ \A w \in VUs : w # v => m[w] = l[w]
  BY DEF Appended
<1>2. /\ n \in Nat /\ Len(f[v]) = n /\ Len(g[v]) = Len(m[v])
      /\ \A k \in 1..n : f[v][k] = [op |-> l[v][k].op, good |-> l[v][k].second]
      /\ \A k \in 1..Len(m[v]) : g[v][k] = [op |-> m[v][k].op, good |-> m[v][k].second]
  BY SecondLogIs
<1>3. ASSUME NEW w \in VUs, w # v
      PROVE  g[w] = f[w]
  <2>1. m[w] = l[w]
    BY <1>1, <1>3
  <2>2. /\ g[w] = [k \in 1..Len(m[w]) |-> [op |-> m[w][k].op, good |-> m[w][k].second]]
        /\ f[w] = [k \in 1..Len(l[w]) |-> [op |-> l[w][k].op, good |-> l[w][k].second]]
    BY DEF SecondLog
  <2> HIDE DEF f, g
  <2>3. QED
    BY <2>1, <2>2, Zenon
<1> HIDE DEF n, f, g
<1>4. ASSUME NEW k \in 1..n
      PROVE  g[v][k] = f[v][k]
  <2>1. k \in 1..Len(m[v]) /\ m[v][k] = l[v][k]
    BY <1>1, <1>2
  <2>2. g[v][k] = [op |-> m[v][k].op, good |-> m[v][k].second] /\ f[v][k] = [op |-> l[v][k].op, good |-> l[v][k].second]
    BY <2>1, <1>2
  <2>3. QED
    BY <2>1, <2>2
<1>5. g[v][n + 1] = [op |-> e.op, good |-> e.second]
  BY <1>1, <1>2
<1>6. QED
  BY <1>1, <1>2, <1>3, <1>4, <1>5 DEF Appended, f, g

FirstStations  == {"http", "graphql", "returned"}
SecondStations == {"errors", "counting"}

\* Who waits once v is at p.
LEMMA WaitingIs ==
    ASSUME WorkloadTypeOK, NEW v \in VUs, NEW p, pc' = [pc EXCEPT ![v] = p]
    PROVE  /\ pc'[v] = p /\ \A w \in VUs : w # v => pc'[w] = pc[w]
           /\ p \in Stations => pc' \in [VUs -> Stations]
           /\ v \in Waiting1 <=> pc[v] \in FirstStations
           /\ v \in Waiting2 <=> pc[v] \in FirstStations \union SecondStations
           /\ p \in FirstStations => Waiting1' = Waiting1 \union {v} /\ Waiting2' = Waiting2 \union {v}
           /\ p \in SecondStations => Waiting1' = Waiting1 \ {v} /\ Waiting2' = Waiting2 \union {v}
           /\ p \notin FirstStations \union SecondStations => Waiting1' = Waiting1 \ {v} /\ Waiting2' = Waiting2 \ {v}
<1>1. /\ pc'[v] = p /\ \A w \in VUs : w # v => pc'[w] = pc[w]
      /\ p \in Stations => pc' \in [VUs -> Stations]
  BY DEF WorkloadTypeOK
<1>2. /\ Waiting1 = {w \in VUs : pc[w] \in FirstStations} /\ Waiting1' = {w \in VUs : pc'[w] \in FirstStations}
      /\ Waiting2 = {w \in VUs : pc[w] \in FirstStations \union SecondStations}
      /\ Waiting2' = {w \in VUs : pc'[w] \in FirstStations \union SecondStations}
  BY DEF Waiting1, Waiting2, AtFirst, AtSecond, FirstStations, SecondStations
<1>3. FirstStations \intersect SecondStations = {}
  BY DEF FirstStations, SecondStations
<1>4. QED
  BY <1>1, <1>2, <1>3

\* An operation is appended to its VU's log, with what is known of the context.
LEMMA Logging ==
    ASSUME WorkloadTypeOK, NEW v \in VUs, NEW op \in Ops, log' = Logged(v, op),
           NEW go \in BOOLEAN, go = ~ended
    PROVE  LET e == [op |-> op, first |-> go, second |-> go]
           IN  log' \in Logs(EntryType) /\ Appended(log, log', v, e)
<1> DEFINE e == [op |-> op, first |-> go, second |-> go]
<1>1. log \in [VUs -> Seq(EntryType)]
  BY DEF WorkloadTypeOK, Logs
<1>2. e \in EntryType
  BY DEF EntryType
<1>3. log' = [log EXCEPT ![v] = Append(log[v], e)]
  BY Zenon DEF Logged
<1> HIDE DEF e
<1>4. /\ log' \in [VUs -> Seq(EntryType)] /\ log'[v] = Append(log[v], e)
      /\ \A w \in VUs : w # v => log'[w] = log[w]
  BY <1>1, <1>2, <1>3
<1>5. log[v] \in Seq(EntryType)
  BY <1>1
<1>6. Appended(log, log', v, e)
  BY <1>2, <1>4, <1>5 DEF Appended
<1>7. QED
  BY <1>4, <1>6 DEF Logs, e

\* The last entry of v afterwards, and that the others' are as before.
LEMMA PendingKept ==
    ASSUME NEW w \in VUs, pc'[w] = pc[w], log'[w] = log[w], ended' = ended, PendingAt(w)
    PROVE  PendingAt(w)'
  BY DEF PendingAt, AtFirst, AtSecond, Op

\* A VU issues an operation whose results it will record.
LEMMA Issued ==
    ASSUME WorkloadTypeOK, PendingInv, NEW v \in VUs, pc[v] = "script",
           NEW op \in Ops, log' = Logged(v, op), NEW p \in FirstStations, op.kind = KindAt(p),
           pc' = [pc EXCEPT ![v] = p], ended' = ended
    PROVE  /\ First' = First /\ Second' = Second /\ PendingInv'
           /\ log' \in Logs(EntryType) /\ pc' \in [VUs -> Stations]
<1> DEFINE go == ~ended
           e == [op |-> op, first |-> go, second |-> go]
<1>1. go \in BOOLEAN /\ log \in Logs(EntryType)
  BY DEF WorkloadTypeOK
<1> HIDE DEF go
<1>2. log' \in Logs(EntryType) /\ Appended(log, log', v, e)
  BY <1>1, Logging DEF go
<1>3. /\ pc'[v] = p /\ \A w \in VUs : w # v => pc'[w] = pc[w]
      /\ pc' \in [VUs -> Stations] /\ v \notin Waiting1 /\ v \notin Waiting2
      /\ Waiting1' = Waiting1 \union {v} /\ Waiting2' = Waiting2 \union {v}
  <2>1. p \in Stations /\ "script" \notin FirstStations \union SecondStations
    BY DEF Stations, FirstStations, SecondStations
  <2>2. QED
    BY <2>1, WaitingIs
<1>4. First' = First
  <2>1. Appended(FirstLog(log), FirstLog(log'), v, [op |-> op, good |-> go])
    BY <1>1, <1>2, FirstLogAppended
  <2>2. FirstLog(log) \in Logs(GoodEntry) /\ FirstLog(log') \in Logs(GoodEntry)
    BY <1>1, <1>2, FirstLogIs
  <2>3. [op |-> op, good |-> go] \in GoodEntry
    BY <1>1 DEF GoodEntry
  <2>4. History(FirstLog(log'), Waiting1 \union {v}) = History(FirstLog(log), Waiting1)
    BY <2>1, <2>2, <2>3, <1>3, HistoryWaits
  <2>5. QED
    BY <2>4, <1>3 DEF First
<1>5. Second' = Second
  <2>1. Appended(SecondLog(log), SecondLog(log'), v, [op |-> op, good |-> go])
    BY <1>1, <1>2, SecondLogAppended
  <2>2. SecondLog(log) \in Logs(GoodEntry) /\ SecondLog(log') \in Logs(GoodEntry)
    BY <1>1, <1>2, SecondLogIs
  <2>3. [op |-> op, good |-> go] \in GoodEntry
    BY <1>1 DEF GoodEntry
  <2>4. History(SecondLog(log'), Waiting2 \union {v}) = History(SecondLog(log), Waiting2)
    BY <2>1, <2>2, <2>3, <1>3, HistoryWaits
  <2>5. QED
    BY <2>4, <1>3 DEF Second
<1>6. PendingInv'
  <2>1. ASSUME NEW w \in VUs, w # v
        PROVE  PendingAt(w)'
    <3>1. log'[w] = log[w] /\ pc'[w] = pc[w]
      BY <1>2, <1>3, <2>1 DEF Appended
    <3>2. PendingAt(w)
      BY DEF PendingInv
    <3>3. QED
      BY <3>1, <3>2, PendingKept
  <2>2. /\ log'[v] # <<>> /\ log'[v][Len(log'[v])].op = op
        /\ log'[v][Len(log'[v])].first = go /\ log'[v][Len(log'[v])].second = go
    <3>1. Len(log'[v]) = Len(log[v]) + 1 /\ log'[v][Len(log[v]) + 1] = e
      BY <1>2 DEF Appended
    <3>2. log'[v] \in Seq(EntryType) /\ log[v] \in Seq(EntryType)
      BY <1>1, <1>2 DEF Logs
    <3>3. QED
      BY <3>1, <3>2
  <2>3. go = ~ended'
    BY DEF go
  <2>4. p # "errors"
    BY DEF FirstStations
  <2>5. PendingAt(v)'
    BY <1>3, <2>2, <2>3, <2>4 DEF PendingAt, Op
  <2>6. QED
    BY <2>1, <2>5 DEF PendingInv
<1>7. QED
  BY <1>2, <1>3, <1>4, <1>5, <1>6

\* The results of v are recorded, or passed over: the entry that comes to First.
LEMMA FirstRecorded ==
    ASSUME WorkloadTypeOK, PendingInv, NEW v \in VUs, pc[v] \in FirstStations, log' = log, ended' = ended,
           NEW p, pc' = [pc EXCEPT ![v] = p],
           p = "script" \/ (p = "errors" /\ pc[v] = "graphql" /\ Op(v).errors) \/ (p = "counting" /\ pc[v] = "returned"),
           NEW go \in BOOLEAN, go = ~ended
    PROVE  LET x == <<v, Len(log[v])>>
               e == [op |-> Op(v), good |-> go]
           IN  /\ Extends(First', First, x, e)
               /\ p = "script" => Extends(Second', Second, x, e)
               /\ p # "script" => Second' = Second
               /\ PendingInv' /\ pc' \in [VUs -> Stations] /\ Op(v) \in Ops /\ Op(v).kind = KindAt(pc[v])
<1> DEFINE n == Len(log[v])
           x == <<v, n>>
           e == [op |-> Op(v), good |-> go]
<1>1. log \in Logs(EntryType) /\ PendingAt(v) /\ AtFirst(v)
  BY DEF WorkloadTypeOK, PendingInv, AtFirst, FirstStations
<1>2. /\ log[v] # <<>> /\ Op(v).kind = KindAt(pc[v])
      /\ log[v][n].first = go /\ log[v][n].second = go
  BY <1>1 DEF PendingAt, FirstStations
<1>3. log[v] \in Seq(EntryType) /\ n \in 1..n /\ n \in Nat
  BY <1>1, <1>2 DEF Logs
<1>4. Op(v) \in Ops
  <2>1. log[v][n] \in EntryType
    BY <1>3
  <2>2. \A y \in EntryType : y.op \in Ops
    BY DEF EntryType
  <2>3. QED
    BY <2>1, <2>2 DEF Op
<1>5. /\ FirstLog(log) \in Logs(GoodEntry) /\ SecondLog(log) \in Logs(GoodEntry)
      /\ Len(FirstLog(log)[v]) = n /\ FirstLog(log)[v][n] = e
      /\ Len(SecondLog(log)[v]) = n /\ SecondLog(log)[v][n] = e
  <2>1. /\ FirstLog(log) \in Logs(GoodEntry) /\ Len(FirstLog(log)[v]) = n
        /\ FirstLog(log)[v][n] = [op |-> log[v][n].op, good |-> log[v][n].first]
    BY <1>1, <1>3, FirstLogIs
  <2>2. /\ SecondLog(log) \in Logs(GoodEntry) /\ Len(SecondLog(log)[v]) = n
        /\ SecondLog(log)[v][n] = [op |-> log[v][n].op, good |-> log[v][n].second]
    BY <1>1, <1>3, SecondLogIs
  <2>3. QED
    BY <2>1, <2>2, <1>2 DEF Op
<1>6. FirstLog(log)[v] # <<>> /\ SecondLog(log)[v] # <<>>
  BY <1>3, <1>5
<1>7. /\ pc'[v] = p /\ \A w \in VUs : w # v => pc'[w] = pc[w]
      /\ pc' \in [VUs -> Stations] /\ v \in Waiting1 /\ v \in Waiting2
      /\ Waiting1' = Waiting1 \ {v}
      /\ p = "script" => Waiting2' = Waiting2 \ {v}
      /\ p # "script" => Waiting2' = Waiting2
  <2>1. p \in Stations /\ p \notin FirstStations /\ (p = "script" <=> p \notin SecondStations)
    BY DEF Stations, FirstStations, SecondStations
  <2>2. p \notin SecondStations => p \notin FirstStations \union SecondStations
    BY <2>1
  <2>3. /\ pc'[v] = p /\ \A w \in VUs : w # v => pc'[w] = pc[w]
        /\ pc' \in [VUs -> Stations] /\ v \in Waiting1 /\ v \in Waiting2
        /\ p \in SecondStations => Waiting1' = Waiting1 \ {v} /\ Waiting2' = Waiting2 \union {v}
        /\ p \notin SecondStations => Waiting1' = Waiting1 \ {v} /\ Waiting2' = Waiting2 \ {v}
    BY <2>1, <2>2, WaitingIs
  <2>4. Waiting2 \union {v} = Waiting2
    BY <2>3
  <2>5. QED
    BY <2>1, <2>3, <2>4
<1> HIDE DEF e
<1>8. Extends(First', First, x, e)
  <2>1. Extends(History(FirstLog(log), Waiting1 \ {v}), History(FirstLog(log), Waiting1), x, e)
    BY <1>5, <1>6, <1>7, HistoryDone
  <2>2. QED
    BY <2>1, <1>7 DEF First
<1>9. p = "script" => Extends(Second', Second, x, e)
  <2>1. Extends(History(SecondLog(log), Waiting2 \ {v}), History(SecondLog(log), Waiting2), x, e)
    BY <1>5, <1>6, <1>7, HistoryDone
  <2>2. QED
    BY <2>1, <1>7 DEF Second
<1>10. p # "script" => Second' = Second
  BY <1>7 DEF Second
<1>11. PendingInv'
  <2>1. ASSUME NEW w \in VUs, w # v
        PROVE  PendingAt(w)'
    <3>1. PendingAt(w)
      BY DEF PendingInv
    <3>2. QED
      BY <3>1, <1>7, <2>1, PendingKept
  <2>2. PendingAt(v)'
    <3>1. log'[v] = log[v] /\ go = ~ended'
      OBVIOUS
    <3>2. pc'[v] = p /\ p \notin FirstStations
      BY <1>7 DEF FirstStations
    <3>3. p \notin {"idle", "script"} => Op(v).kind = KindAt(p)
      BY <1>2 DEF KindAt
    <3>4. p = "errors" => Op(v).errors
      OBVIOUS
    <3>5. QED
      BY <1>2, <3>1, <3>2, <3>3, <3>4 DEF PendingAt, AtFirst, AtSecond, FirstStations, Op
  <2>3. QED
    BY <2>1, <2>2 DEF PendingInv
<1>12. QED
  BY <1>2, <1>4, <1>7, <1>8, <1>9, <1>10, <1>11 DEF e

\* The second results of v are recorded, or passed over.
LEMMA SecondRecorded ==
    ASSUME WorkloadTypeOK, PendingInv, NEW v \in VUs, pc[v] \in SecondStations, log' = log, ended' = ended,
           NEW p \in {"script", "idle"}, pc' = [pc EXCEPT ![v] = p], NEW go \in BOOLEAN, go = ~ended
    PROVE  LET x == <<v, Len(log[v])>>
               e == [op |-> Op(v), good |-> go]
           IN  /\ First' = First /\ Extends(Second', Second, x, e)
               /\ PendingInv' /\ pc' \in [VUs -> Stations] /\ Op(v) \in Ops /\ Op(v).kind = KindAt(pc[v])
               /\ pc[v] = "errors" => Op(v).errors
<1> DEFINE n == Len(log[v])
           x == <<v, n>>
           e == [op |-> Op(v), good |-> go]
<1>1. log \in Logs(EntryType) /\ PendingAt(v) /\ AtSecond(v)
  BY DEF WorkloadTypeOK, PendingInv, AtSecond, SecondStations
<1>2. /\ log[v] # <<>> /\ Op(v).kind = KindAt(pc[v]) /\ log[v][n].second = go
      /\ pc[v] = "errors" => Op(v).errors
  BY <1>1 DEF PendingAt, SecondStations
<1>3. log[v] \in Seq(EntryType) /\ n \in 1..n /\ n \in Nat
  BY <1>1, <1>2 DEF Logs
<1>4. Op(v) \in Ops
  <2>1. log[v][n] \in EntryType
    BY <1>3
  <2>2. \A y \in EntryType : y.op \in Ops
    BY DEF EntryType
  <2>3. QED
    BY <2>1, <2>2 DEF Op
<1>5. /\ SecondLog(log) \in Logs(GoodEntry)
      /\ Len(SecondLog(log)[v]) = n /\ SecondLog(log)[v][n] = e
  <2>1. /\ SecondLog(log) \in Logs(GoodEntry) /\ Len(SecondLog(log)[v]) = n
        /\ SecondLog(log)[v][n] = [op |-> log[v][n].op, good |-> log[v][n].second]
    BY <1>1, <1>3, SecondLogIs
  <2>2. QED
    BY <2>1, <1>2 DEF Op
<1>6. SecondLog(log)[v] # <<>>
  BY <1>3, <1>5
<1>7. /\ pc'[v] = p /\ \A w \in VUs : w # v => pc'[w] = pc[w]
      /\ pc' \in [VUs -> Stations] /\ v \in Waiting2
      /\ Waiting1' = Waiting1 /\ Waiting2' = Waiting2 \ {v}
  <2>1. p \in Stations /\ p \notin FirstStations \union SecondStations /\ pc[v] \notin FirstStations
    BY DEF Stations, FirstStations, SecondStations
  <2>2. /\ pc'[v] = p /\ \A w \in VUs : w # v => pc'[w] = pc[w]
        /\ pc' \in [VUs -> Stations] /\ v \notin Waiting1 /\ v \in Waiting2
        /\ Waiting1' = Waiting1 \ {v} /\ Waiting2' = Waiting2 \ {v}
    BY <2>1, WaitingIs
  <2>3. QED
    BY <2>2
<1> HIDE DEF e
<1>8. First' = First
  BY <1>7 DEF First
<1>9. Extends(Second', Second, x, e)
  <2>1. Extends(History(SecondLog(log), Waiting2 \ {v}), History(SecondLog(log), Waiting2), x, e)
    BY <1>5, <1>6, <1>7, HistoryDone
  <2>2. QED
    BY <2>1, <1>7 DEF Second
<1>10. PendingInv'
  <2>1. ASSUME NEW w \in VUs, w # v
        PROVE  PendingAt(w)'
    <3>1. PendingAt(w)
      BY DEF PendingInv
    <3>2. QED
      BY <3>1, <1>7, <2>1, PendingKept
  <2>2. PendingAt(v)'
    BY <1>7 DEF PendingAt, AtFirst, AtSecond
  <2>3. QED
    BY <2>1, <2>2 DEF PendingInv
<1>11. QED
  BY <1>2, <1>4, <1>7, <1>8, <1>9, <1>10 DEF e

\* A check, whose result is recorded in the same step.
LEMMA CheckLogged ==
    ASSUME WorkloadTypeOK, PendingInv, NEW v \in VUs, pc[v] = "script", pc' = pc, ended' = ended,
           NEW op \in Ops, log' = Logged(v, op), NEW go \in BOOLEAN, go = ~ended
    PROVE  LET x == <<v, Len(log[v]) + 1>>
               e == [op |-> op, good |-> go]
           IN  /\ Extends(First', First, x, e) /\ Extends(Second', Second, x, e)
               /\ PendingInv' /\ log' \in Logs(EntryType)
<1> DEFINE x == <<v, Len(log[v]) + 1>>
           e == [op |-> op, good |-> go]
           f == [op |-> op, first |-> go, second |-> go]
<1>1. log \in Logs(EntryType) /\ e \in GoodEntry
  BY DEF WorkloadTypeOK, GoodEntry
<1>2. log' \in Logs(EntryType) /\ Appended(log, log', v, f)
  BY Logging
<1>3. v \notin Waiting1 /\ v \notin Waiting2 /\ Waiting1' = Waiting1 /\ Waiting2' = Waiting2
  BY DEF Waiting1, Waiting2, AtFirst, AtSecond
<1>4. Extends(First', First, x, e)
  <2>1. Appended(FirstLog(log), FirstLog(log'), v, e)
    BY <1>1, <1>2, FirstLogAppended
  <2>2. FirstLog(log) \in Logs(GoodEntry) /\ FirstLog(log') \in Logs(GoodEntry) /\ Len(FirstLog(log)[v]) = Len(log[v])
    BY <1>1, <1>2, FirstLogIs
  <2> HIDE DEF e
  <2>3. Extends(History(FirstLog(log'), Waiting1), History(FirstLog(log), Waiting1), <<v, Len(FirstLog(log)[v]) + 1>>, e)
    BY <2>1, <2>2, <1>1, <1>3, HistoryAppends
  <2>4. QED
    BY <2>2, <2>3, <1>3 DEF First
<1>5. Extends(Second', Second, x, e)
  <2>1. Appended(SecondLog(log), SecondLog(log'), v, e)
    BY <1>1, <1>2, SecondLogAppended
  <2>2. SecondLog(log) \in Logs(GoodEntry) /\ SecondLog(log') \in Logs(GoodEntry) /\ Len(SecondLog(log)[v]) = Len(log[v])
    BY <1>1, <1>2, SecondLogIs
  <2> HIDE DEF e
  <2>3. Extends(History(SecondLog(log'), Waiting2), History(SecondLog(log), Waiting2), <<v, Len(SecondLog(log)[v]) + 1>>, e)
    BY <2>1, <2>2, <1>1, <1>3, HistoryAppends
  <2>4. QED
    BY <2>2, <2>3, <1>3 DEF Second
<1>6. PendingInv'
  <2>1. ASSUME NEW w \in VUs, w # v
        PROVE  PendingAt(w)'
    <3>1. PendingAt(w) /\ log'[w] = log[w]
      BY <1>2, <2>1 DEF PendingInv, Appended
    <3>2. QED
      BY <3>1, PendingKept
  <2>2. PendingAt(v)'
    BY DEF PendingAt, AtFirst, AtSecond
  <2>3. QED
    BY <2>1, <2>2 DEF PendingInv
<1>7. QED
  BY <1>2, <1>4, <1>5, <1>6

\* An iteration begins.
LEMMA Begun ==
    ASSUME WorkloadTypeOK, PendingInv, NEW v \in VUs, Begin(v)
    PROVE  First' = First /\ Second' = Second /\ PendingInv' /\ pc' \in [VUs -> Stations]
<1>1. pc[v] = "idle" /\ pc' = [pc EXCEPT ![v] = "script"] /\ log' = log /\ ended' = ended
  BY DEF Begin
<1>2. /\ pc'[v] = "script" /\ \A w \in VUs : w # v => pc'[w] = pc[w]
      /\ pc' \in [VUs -> Stations]
      /\ Waiting1' = Waiting1 /\ Waiting2' = Waiting2
  <2>1. /\ "script" \in Stations /\ "script" \notin FirstStations \union SecondStations
        /\ pc[v] \notin FirstStations \union SecondStations
    BY <1>1 DEF Stations, FirstStations, SecondStations
  <2>2. /\ pc'[v] = "script" /\ \A w \in VUs : w # v => pc'[w] = pc[w]
        /\ pc' \in [VUs -> Stations] /\ v \notin Waiting1 /\ v \notin Waiting2
        /\ Waiting1' = Waiting1 \ {v} /\ Waiting2' = Waiting2 \ {v}
    BY <1>1, <2>1, WaitingIs
  <2>3. QED
    BY <2>2
<1>3. First' = First /\ Second' = Second
  BY <1>1, <1>2 DEF First, Second
<1>4. ASSUME NEW w \in VUs
      PROVE  PendingAt(w)'
  <2>1. CASE w = v
    BY <1>2, <2>1 DEF PendingAt, AtFirst, AtSecond
  <2>2. CASE w # v
    <3>1. PendingAt(w)
      BY DEF PendingInv
    <3>2. QED
      BY <1>1, <1>2, <2>2, <3>1, PendingKept
  <2>3. QED
    BY <2>1, <2>2
<1>5. QED
  BY <1>2, <1>3, <1>4 DEF PendingInv

\* The end of the test: the results that wait come too late.
LEMMA Cut ==
    ASSUME WorkloadTypeOK, PendingInv, EndOfTest
    PROVE  First' = First /\ Second' = Second /\ PendingInv' /\ log' \in Logs(EntryType)
<1>1. /\ ended' = TRUE /\ pc' = pc /\ log \in Logs(EntryType) /\ Waiting1' = Waiting1 /\ Waiting2' = Waiting2
  BY DEF EndOfTest, WorkloadTypeOK, Waiting1, Waiting2, AtFirst, AtSecond
<1>2. ASSUME NEW v \in VUs
      PROVE  /\ log'[v] \in Seq(EntryType) /\ Len(log'[v]) = Len(log[v])
             /\ \A k \in 1..Len(log[v]) : /\ log'[v][k].op = log[v][k].op
                                          /\ (v \in Waiting1 /\ k = Len(log[v])) \/ log'[v][k].first = log[v][k].first
                                          /\ (v \in Waiting2 /\ k = Len(log[v])) \/ log'[v][k].second = log[v][k].second
             /\ AtFirst(v) /\ log[v] # <<>> => ~log'[v][Len(log[v])].first /\ ~log'[v][Len(log[v])].second
             /\ AtSecond(v) /\ log[v] # <<>> => ~log'[v][Len(log[v])].second
  <2> DEFINE n == Len(log[v])
             l == log[v]
             a == l[n].first /\ ~AtFirst(v)
             b == l[n].second /\ ~AtFirst(v) /\ ~AtSecond(v)
             y == [l[n] EXCEPT !.first = a, !.second = b]
  <2>1. l \in Seq(EntryType) /\ n \in Nat
    BY <1>1 DEF Logs
  <2>2. log'[v] = IF l = <<>> THEN <<>> ELSE [l EXCEPT ![n].first = @ /\ ~AtFirst(v),
                                                     ![n].second = @ /\ ~AtFirst(v) /\ ~AtSecond(v)]
    BY DEF EndOfTest
  <2>3. CASE l = <<>>
    BY <2>2, <2>3
  <2>4. CASE l # <<>>
    <3>1. n \in DOMAIN l /\ DOMAIN l = 1..n /\ l[n] \in EntryType
      BY <2>1, <2>4
    <3>2. log'[v] = [l EXCEPT ![n] = y]
      <4> HIDE DEF n, l
      <4> QED BY <2>2, <2>4, <3>1 DEF EntryType
    <3>3. a \in BOOLEAN /\ b \in BOOLEAN
      OBVIOUS
    <3>4. AtFirst(v) => ~a /\ ~b
      OBVIOUS
    <3>5. AtSecond(v) => ~b
      OBVIOUS
    <3>6. /\ v \in Waiting1 \/ a = l[n].first
          /\ v \in Waiting2 \/ b = l[n].second
      <4>1. l[n].first \in BOOLEAN /\ l[n].second \in BOOLEAN
        <5> HIDE DEF l, n
        <5> QED BY <3>1 DEF EntryType
      <4>2. v \in Waiting1 <=> AtFirst(v)
        BY DEF Waiting1
      <4>3. v \in Waiting2 <=> AtFirst(v) \/ AtSecond(v)
        BY DEF Waiting2
      <4>4. QED
        BY <4>1, <4>2, <4>3, Zenon
    <3> HIDE DEF a, b
    <3>7. y \in EntryType /\ y.op = l[n].op /\ y.first = a /\ y.second = b
      <4> HIDE DEF l, n
      <4> QED BY <3>1, <3>3 DEF EntryType
    <3> HIDE DEF y, l, n
    <3>8. log'[v] \in Seq(EntryType) /\ Len(log'[v]) = n /\ log'[v][n] = y /\ \A k \in 1..n : k # n => log'[v][k] = l[k]
      BY <2>1, <3>1, <3>2, <3>7
    <3>9. ASSUME NEW k \in 1..n
          PROVE  /\ log'[v][k].op = l[k].op
                 /\ (v \in Waiting1 /\ k = n) \/ log'[v][k].first = l[k].first
                 /\ (v \in Waiting2 /\ k = n) \/ log'[v][k].second = l[k].second
      <4>1. CASE k = n
        BY <3>6, <3>7, <3>8, <4>1
      <4>2. CASE k # n
        BY <3>8, <4>2
      <4>3. QED
        BY <4>1, <4>2
    <3>10. /\ AtFirst(v) => ~log'[v][n].first /\ ~log'[v][n].second
           /\ AtSecond(v) => ~log'[v][n].second
      <4>1. log'[v][n].first = a /\ log'[v][n].second = b
        BY <3>7, <3>8
      <4>2. QED
        BY <3>3, <3>4, <3>5, <4>1, Zenon
    <3>11. QED
      BY <3>8, <3>9, <3>10 DEF n, l
  <2>5. QED
    BY <2>3, <2>4
<1>3. log' \in Logs(EntryType)
  <2>1. log' = [v \in VUs |-> log'[v]]
    BY DEF EndOfTest
  <2>2. QED
    BY <2>1, <1>2 DEF Logs
<1>4. First' = First
  <2> DEFINE l == FirstLog(log)
             m == FirstLog(log')
  <2>1. ASSUME NEW v \in VUs
        PROVE  /\ DOMAIN m[v] = DOMAIN l[v] /\ Len(m[v]) = Len(l[v])
               /\ \A k \in DOMAIN l[v] : (v \in Waiting1 /\ k = Len(l[v])) \/ m[v][k] = l[v][k]
    <3>1. /\ l \in Logs(GoodEntry) /\ Len(l[v]) = Len(log[v]) /\ Len(log[v]) \in Nat
          /\ \A k \in 1..Len(log[v]) : l[v][k] = [op |-> log[v][k].op, good |-> log[v][k].first]
      BY <1>1, FirstLogIs
    <3>2. /\ m \in Logs(GoodEntry) /\ Len(m[v]) = Len(log'[v])
          /\ \A k \in 1..Len(log'[v]) : m[v][k] = [op |-> log'[v][k].op, good |-> log'[v][k].first]
      BY <1>3, FirstLogIs
    <3> HIDE DEF l, m
    <3>3. DOMAIN l[v] = 1..Len(l[v]) /\ DOMAIN m[v] = 1..Len(m[v])
      BY <3>1, <3>2 DEF Logs
    <3>4. ASSUME NEW k \in DOMAIN l[v], ~(v \in Waiting1 /\ k = Len(l[v]))
          PROVE  m[v][k] = l[v][k]
      <4>1. k \in 1..Len(log[v]) /\ k \in 1..Len(log'[v])
        BY <1>2, <3>1, <3>3
      <4>2. log'[v][k].op = log[v][k].op /\ log'[v][k].first = log[v][k].first
        BY <1>2, <3>1, <3>4, <4>1
      <4>3. QED
        BY <3>1, <3>2, <4>1, <4>2
    <3>5. QED
      BY <1>2, <3>1, <3>2, <3>3, <3>4
  <2> HIDE DEF l, m
  <2>2. History(m, Waiting1) = History(l, Waiting1)
    BY <2>1, HistoryKept
  <2>3. QED
    BY <2>2, <1>1 DEF First, l, m
<1>5. Second' = Second
  <2> DEFINE l == SecondLog(log)
             m == SecondLog(log')
  <2>1. ASSUME NEW v \in VUs
        PROVE  /\ DOMAIN m[v] = DOMAIN l[v] /\ Len(m[v]) = Len(l[v])
               /\ \A k \in DOMAIN l[v] : (v \in Waiting2 /\ k = Len(l[v])) \/ m[v][k] = l[v][k]
    <3>1. /\ l \in Logs(GoodEntry) /\ Len(l[v]) = Len(log[v]) /\ Len(log[v]) \in Nat
          /\ \A k \in 1..Len(log[v]) : l[v][k] = [op |-> log[v][k].op, good |-> log[v][k].second]
      BY <1>1, SecondLogIs
    <3>2. /\ m \in Logs(GoodEntry) /\ Len(m[v]) = Len(log'[v])
          /\ \A k \in 1..Len(log'[v]) : m[v][k] = [op |-> log'[v][k].op, good |-> log'[v][k].second]
      BY <1>3, SecondLogIs
    <3> HIDE DEF l, m
    <3>3. DOMAIN l[v] = 1..Len(l[v]) /\ DOMAIN m[v] = 1..Len(m[v])
      BY <3>1, <3>2 DEF Logs
    <3>4. ASSUME NEW k \in DOMAIN l[v], ~(v \in Waiting2 /\ k = Len(l[v]))
          PROVE  m[v][k] = l[v][k]
      <4>1. k \in 1..Len(log[v]) /\ k \in 1..Len(log'[v])
        BY <1>2, <3>1, <3>3
      <4>2. log'[v][k].op = log[v][k].op /\ log'[v][k].second = log[v][k].second
        BY <1>2, <3>1, <3>4, <4>1
      <4>3. QED
        BY <3>1, <3>2, <4>1, <4>2
    <3>5. QED
      BY <1>2, <3>1, <3>2, <3>3, <3>4
  <2> HIDE DEF l, m
  <2>2. History(m, Waiting2) = History(l, Waiting2)
    BY <2>1, HistoryKept
  <2>3. QED
    BY <2>2, <1>1 DEF Second, l, m
<1>6. ASSUME NEW v \in VUs
      PROVE  PendingAt(v)'
  <2>1. PendingAt(v) /\ Len(log'[v]) = Len(log[v]) /\ pc'[v] = pc[v]
    BY <1>1, <1>2 DEF PendingInv
  <2>2. CASE pc[v] \in {"idle", "script"}
    BY <2>1, <2>2 DEF PendingAt, AtFirst, AtSecond
  <2>3. CASE pc[v] \notin {"idle", "script"}
    <3>1. log[v] # <<>> /\ Op(v).kind = KindAt(pc[v])
      BY <2>1, <2>3 DEF PendingAt
    <3>2. log[v] \in Seq(EntryType) /\ log'[v] \in Seq(EntryType)
      BY <1>1, <1>3 DEF Logs
    <3>3. log'[v] # <<>> /\ Len(log[v]) \in 1..Len(log[v])
      BY <2>1, <3>1, <3>2
    <3>4. Op(v)' = Op(v)
      BY <1>2, <2>1, <3>3 DEF Op
    <3>5. /\ AtFirst(v) => ~log'[v][Len(log'[v])].first
          /\ AtFirst(v) \/ AtSecond(v) => ~log'[v][Len(log'[v])].second
      BY <1>2, <2>1, <3>1
    <3>6. AtFirst(v)' = AtFirst(v) /\ AtSecond(v)' = AtSecond(v)
      BY <2>1 DEF AtFirst, AtSecond
    <3>7. log'[v][Len(log'[v])] \in EntryType
      BY <3>2, <3>3, <2>1
    <3>8. /\ log'[v][Len(log'[v])].first \in BOOLEAN /\ log'[v][Len(log'[v])].second \in BOOLEAN
      BY <3>7 DEF EntryType
    <3>9. PendingAt(v)'
      <4>1. pc'[v] \notin {"idle", "script"} => log'[v] # <<>> /\ Op(v)'.kind = KindAt(pc'[v])
        BY <2>1, <3>1, <3>3, <3>4
      <4>2. AtFirst(v)' => log'[v][Len(log'[v])].first = ~ended'
        BY <1>1, <3>5, <3>6, <3>8, Zenon
      <4>3. AtFirst(v)' \/ AtSecond(v)' => log'[v][Len(log'[v])].second = ~ended'
        BY <1>1, <3>5, <3>6, <3>8, Zenon
      <4>4. pc'[v] = "errors" => Op(v)'.errors
        BY <2>1, <3>4 DEF PendingAt
      <4>5. QED
        BY <4>1, <4>2, <4>3, <4>4 DEF PendingAt
    <3>10. QED
      BY <3>9
  <2>4. QED
    BY <2>2, <2>3
<1>7. QED
  BY <1>3, <1>4, <1>5, <1>6 DEF PendingInv

-----------------------------------------------------------------------------
(* Workload: the invariant *)

\* What operations there are.
LEMMA OpsAre ==
    ASSUME NEW op \in Ops
    PROVE  /\ op.kind = "http" => op \in Outcome("http") /\ op.status \in Statuses \union {0} /\ op.sent \in BOOLEAN
           /\ op.kind = "graphql" => op \in Outcome("graphql") /\ op.errors \in BOOLEAN
           /\ op.kind = "iteration" => op.err \in BOOLEAN
  BY DEF Ops, Outcome

\* The run is not over as long as a VU is at work.
LEMMA NotOver ==
    ASSUME StoreReported, NEW v \in VUs, pc[v] # "idle", report' = report
    PROVE  StoreReported'
<1>1. ~report.over /\ report = NoReport
  BY Zenon DEF StoreReported
<1>2. ~report'.over /\ report' = NoReport
  BY <1>1
<1>3. QED
  BY <1>2, Zenon DEF StoreReported

\* A request was recorded, or passed over.
LEMMA RequestMatches ==
    ASSUME NEW st, NEW new, NEW g1, NEW h1, NEW g2, NEW h2, NEW x, NEW e, NEW names,
           Extends(g1, h1, x, e), Extends(g2, h2, x, e), e.op.kind = "http",
           StoreMatches(st, h1, h2, names), RequestsMatch(new, g1),
           SameErrors(st, new), SameIterations(st, new), SameChecks(st, new), new.fams = st.fams
    PROVE  StoreMatches(new, g1, g2, names)
<1>1. SameOperations(st, new) /\ SameAnswers(st, new)
  BY DEF SameOperations, SameAnswers
<1>2. ErrorsMatch(new, g1)
  BY ErrorsKept DEF StoreMatches
<1>3. IterationsMatch(new, g2)
  BY IterationsKept DEF StoreMatches
<1>4. OperationsMatch(new, g1)
  BY <1>1, OperationsKept DEF StoreMatches
<1>5. AnswersMatch(new, g2)
  BY <1>1, AnswersKept DEF StoreMatches
<1>6. NamesMatch(new, g1, names) /\ ChecksMatch(new, g1, names)
  BY ChecksKept DEF StoreMatches
<1>7. QED
  BY <1>2, <1>3, <1>4, <1>5, <1>6 DEF StoreMatches

\* Each step preserves the invariant: the end of a request,
LEMMA DoPreserves ==
    ASSUME WorkloadInv, NEW v \in VUs, Do(v)
    PROVE  WorkloadInv'
<1> DEFINE go == ~ended
           res == Op(v)
           x == <<v, Len(log[v])>>
           e == [op |-> res, good |-> go]
<1>1. WorkloadTypeOK /\ PendingInv /\ StoreMatches(store, First, Second, order) /\ StoreReported
  BY DEF WorkloadInv
<1>2. /\ pc[v] = "http" /\ pc' = [pc EXCEPT ![v] = "script"] /\ ended' = ended
      /\ report' = report /\ log' = log /\ order' = order
  BY DEF Do
<1>3. go \in BOOLEAN /\ ended \in BOOLEAN /\ store \in StoreType /\ FamiliesTyped(store)
  BY <1>1 DEF WorkloadTypeOK
<1> HIDE DEF go
<1>4. /\ Extends(First', First, x, e) /\ Extends(Second', Second, x, e)
      /\ PendingInv' /\ pc' \in [VUs -> Stations] /\ res \in Ops /\ res.kind = KindAt("http")
  BY <1>1, <1>2, <1>3, FirstRecorded DEF FirstStations, go
<1>5. res \in Outcome("http") /\ res.status \in Statuses \union {0} /\ res.sent \in BOOLEAN
  BY <1>4, OpsAre DEF KindAt
<1>6. e.op = res /\ e.good = go /\ x[1] = v /\ res.kind = "http"
  BY <1>4 DEF KindAt
<1>7. RequestsMatch(store, First)
  BY <1>1 DEF StoreMatches
<1> DEFINE unsent == RecordUnsent(store, v)
           answered == Response(Record(store, v, res.duration, OK(res)), v, res)
<1>8. store' = CASE ~res.sent -> unsent [] res.sent /\ ended -> store [] OTHER -> answered
  BY Zenon DEF Do
<1> HIDE DEF unsent, answered, e, x, res
<1>9. /\ store' \in StoreType /\ RequestsMatch(store', First')
      /\ SameErrors(store, store') /\ SameIterations(store, store') /\ SameChecks(store, store')
      /\ store'.fams = store.fams
  <2>1. CASE res.sent = FALSE
    <3>1. store' = unsent
      BY <1>8, <2>1
    <3>2. /\ unsent \in StoreType /\ RequestsMatch(unsent, First')
          /\ SameErrors(store, unsent) /\ SameIterations(store, unsent) /\ SameChecks(store, unsent)
          /\ unsent.fams = store.fams
      BY <1>3, <1>4, <1>6, <1>7, <2>1, UnsentRecorded DEF unsent
    <3>3. QED
      BY <3>1, <3>2
  <2>2. CASE res.sent = TRUE /\ ended = TRUE
    <3>1. store' = store /\ go = FALSE
      BY <1>8, <2>2 DEF go
    <3>2. SameRequests(store, store)
      BY DEF SameRequests
    <3>3. RequestsMatch(store, First')
      BY <1>4, <1>6, <1>7, <2>2, <3>1, <3>2, RequestsKept
    <3>4. SameErrors(store, store) /\ SameIterations(store, store) /\ SameChecks(store, store)
      BY DEF SameErrors, SameIterations, SameChecks
    <3>5. QED
      BY <1>3, <3>1, <3>3, <3>4
  <2>3. CASE res.sent = TRUE /\ ended = FALSE
    <3>1. store' = answered /\ go = TRUE
      BY <1>8, <2>3 DEF go
    <3>2. /\ answered \in StoreType /\ RequestsMatch(answered, First')
          /\ SameErrors(store, answered) /\ SameIterations(store, answered) /\ SameChecks(store, answered)
          /\ answered.fams = store.fams
      <4>1. e.good /\ res.sent
        BY <1>6, <2>3, <3>1
      <4>2. Extends(First', First, x, e) /\ x[1] = v /\ e.op = res
        BY <1>4, <1>6
      <4>3. QED
        BY <1>3, <1>5, <1>7, <4>1, <4>2, SentRecorded DEF answered
    <3>3. QED
      BY <3>1, <3>2
  <2>4. QED
    BY <1>3, <1>5, <2>1, <2>2, <2>3
<1>10. StoreMatches(store', First', Second', order)
  BY <1>1, <1>4, <1>6, <1>9, RequestMatches
<1>11. WorkloadTypeOK'
  BY <1>1, <1>2, <1>3, <1>4, <1>9 DEF WorkloadTypeOK, FamiliesTyped
<1>12. StoreReported'
  BY <1>1, <1>2, NotOver
<1>13. QED
  BY <1>2, <1>4, <1>10, <1>11, <1>12 DEF WorkloadInv

\* Nothing else changes when a family of the module does.
LEMMA FamilyMatches ==
    ASSUME NEW st, NEW new, NEW g, NEW h, NEW x, NEW e, NEW names, Extends(g, h, x, e), e.op.kind = "graphql",
           new.recs = st.recs, new.shards = st.shards, new.names = st.names,
           RequestsMatch(st, h), ErrorsMatch(st, h), NamesMatch(st, h, names), ChecksMatch(st, h, names)
    PROVE  RequestsMatch(new, g) /\ ErrorsMatch(new, g) /\ NamesMatch(new, g, names) /\ ChecksMatch(new, g, names)
<1>1. SameRequests(st, new) /\ SameErrors(st, new) /\ SameChecks(st, new)
  BY DEF SameRequests, SameErrors, SameChecks
<1>2. RequestsMatch(new, g)
  BY <1>1, RequestsKept
<1>3. ErrorsMatch(new, g)
  BY <1>1, ErrorsKept
<1>4. NamesMatch(new, g, names) /\ ChecksMatch(new, g, names)
  BY <1>1, ChecksKept
<1>5. QED
  BY <1>2, <1>3, <1>4

\* What matches the second results when they are recorded of a GraphQL operation.
LEMMA SecondMatches ==
    ASSUME NEW st, NEW new, NEW g, NEW h, NEW x, NEW e, Extends(g, h, x, e), e.op.kind = "graphql",
           ~e.good \/ ~e.op.errors, SameIterations(st, new), SameAnswers(st, new),
           IterationsMatch(st, h), AnswersMatch(st, h)
    PROVE  IterationsMatch(new, g) /\ AnswersMatch(new, g)
<1>1. IterationsMatch(new, g)
  BY IterationsKept
<1>2. AnswersMatch(new, g)
  BY AnswersKept
<1>3. QED
  BY <1>1, <1>2

\* the recording of a GraphQL operation
LEMMA RecordGraphQLPreserves ==
    ASSUME WorkloadInv, NEW v \in VUs, RecordGraphQL(v)
    PROVE  WorkloadInv'
<1> DEFINE go == ~ended
           res == Op(v)
           x == <<v, Len(log[v])>>
           e == [op |-> res, good |-> go]
           p == IF res.errors THEN "errors" ELSE "script"
           outcome == RecordOutcome(store, v, res)
<1>1. WorkloadTypeOK /\ PendingInv /\ StoreMatches(store, First, Second, order) /\ StoreReported
  BY DEF WorkloadInv
<1>2. /\ pc[v] = "graphql" /\ pc' = [pc EXCEPT ![v] = p] /\ ended' = ended
      /\ report' = report /\ log' = log /\ order' = order
      /\ store' = IF ended THEN store ELSE outcome
  BY Zenon DEF RecordGraphQL
<1>3. go \in BOOLEAN /\ ended \in BOOLEAN /\ store \in StoreType /\ FamiliesTyped(store)
  BY <1>1 DEF WorkloadTypeOK
<1> HIDE DEF go, outcome
<1>4. p = "script" \/ (p = "errors" /\ pc[v] = "graphql" /\ res.errors)
  BY <1>2
<1> HIDE DEF p
<1>5. /\ Extends(First', First, x, e)
      /\ p = "script" => Extends(Second', Second, x, e)
      /\ p # "script" => Second' = Second
      /\ PendingInv' /\ pc' \in [VUs -> Stations] /\ res \in Ops /\ res.kind = KindAt("graphql")
  BY <1>1, <1>2, <1>3, <1>4, FirstRecorded DEF FirstStations, go
<1>6. res \in Outcome("graphql") /\ res.errors \in BOOLEAN /\ res.kind = "graphql"
  BY <1>5, OpsAre DEF KindAt
<1>7. e.op = res /\ e.good = go /\ x[1] = v /\ (p = "script" => ~res.errors)
  BY DEF p
<1>8. /\ RequestsMatch(store, First) /\ ErrorsMatch(store, First) /\ IterationsMatch(store, Second)
      /\ OperationsMatch(store, First) /\ AnswersMatch(store, Second)
      /\ NamesMatch(store, First, order) /\ ChecksMatch(store, First, order)
  BY <1>1 DEF StoreMatches
<1> HIDE DEF e, x, res
<1>9. /\ store' \in StoreType /\ FamiliesTyped(store') /\ OperationsMatch(store', First')
      /\ store'.recs = store.recs /\ store'.shards = store.shards /\ store'.names = store.names
      /\ SameAnswers(store, store')
  <2>1. CASE ended = TRUE
    <3>1. store' = store /\ go = FALSE
      BY <1>2, <2>1 DEF go
    <3>2. SameOperations(store, store) /\ SameAnswers(store, store)
      BY DEF SameOperations, SameAnswers
    <3>3. OperationsMatch(store, First')
      BY <1>5, <1>7, <1>8, <3>1, <3>2, OperationsKept
    <3>4. QED
      BY <1>3, <3>1, <3>2, <3>3
  <2>2. CASE ended = FALSE
    <3>1. store' = outcome /\ go = TRUE
      BY <1>2, <2>2 DEF go
    <3>2. /\ outcome \in StoreType /\ FamiliesTyped(outcome) /\ OperationsMatch(outcome, First')
          /\ outcome.recs = store.recs /\ outcome.shards = store.shards /\ outcome.names = store.names
          /\ SameAnswers(store, outcome)
      <4>1. e.good /\ Extends(First', First, x, e) /\ x[1] = v /\ e.op = res
        BY <1>5, <1>7, <3>1
      <4>2. QED
        BY <1>3, <1>6, <1>8, <4>1, OperationRecorded DEF outcome
    <3>3. QED
      BY <3>1, <3>2
  <2>3. QED
    BY <1>3, <2>1, <2>2
<1>10. /\ RequestsMatch(store', First') /\ ErrorsMatch(store', First')
       /\ NamesMatch(store', First', order) /\ ChecksMatch(store', First', order)
  BY <1>5, <1>6, <1>7, <1>8, <1>9, FamilyMatches
<1>11. SameIterations(store, store')
  BY <1>9 DEF SameIterations
<1>12. IterationsMatch(store', Second') /\ AnswersMatch(store', Second')
  <2>1. CASE p = "script"
    BY <1>5, <1>6, <1>7, <1>8, <1>9, <1>11, <2>1, SecondMatches
  <2>2. CASE p # "script"
    <3>1. Second' = Second
      BY <1>5, <2>2
    <3>2. IterationsMatch(store', Second) /\ AnswersMatch(store', Second)
      BY <1>8, <1>9, <1>11 DEF IterationsMatch, AnswersMatch, SameIterations, SameAnswers
    <3>3. QED
      BY <3>1, <3>2
  <2>3. QED
    BY <2>1, <2>2
<1>13. StoreMatches(store', First', Second', order)
  BY <1>9, <1>10, <1>12 DEF StoreMatches
<1>14. WorkloadTypeOK'
  BY <1>1, <1>2, <1>3, <1>5, <1>9 DEF WorkloadTypeOK
<1>15. StoreReported'
  BY <1>1, <1>2, NotOver
<1>16. QED
  BY <1>2, <1>5, <1>13, <1>14, <1>15 DEF WorkloadInv

\* and of its errors,
LEMMA CountErrorsPreserves ==
    ASSUME WorkloadInv, NEW v \in VUs, CountErrors(v)
    PROVE  WorkloadInv'
<1> DEFINE go == ~ended
           res == Op(v)
           x == <<v, Len(log[v])>>
           e == [op |-> res, good |-> go]
           added == Add(store, v, "graphql_errors", 1)
<1>1. WorkloadTypeOK /\ PendingInv /\ StoreMatches(store, First, Second, order) /\ StoreReported
  BY DEF WorkloadInv
<1>2. /\ pc[v] = "errors" /\ pc' = [pc EXCEPT ![v] = "script"] /\ ended' = ended
      /\ report' = report /\ log' = log /\ order' = order
      /\ store' = IF ended THEN store ELSE added
  BY Zenon DEF CountErrors
<1>3. go \in BOOLEAN /\ ended \in BOOLEAN /\ store \in StoreType /\ FamiliesTyped(store)
  BY <1>1 DEF WorkloadTypeOK
<1> HIDE DEF go, added
<1>4. /\ First' = First /\ Extends(Second', Second, x, e)
      /\ PendingInv' /\ pc' \in [VUs -> Stations] /\ res \in Ops /\ res.kind = KindAt("errors") /\ res.errors
  BY <1>1, <1>2, <1>3, SecondRecorded DEF SecondStations, go
<1>5. e.op = res /\ e.good = go /\ x[1] = v /\ res.kind = "graphql"
  BY <1>4 DEF KindAt
<1>6. /\ RequestsMatch(store, First) /\ ErrorsMatch(store, First) /\ IterationsMatch(store, Second)
      /\ OperationsMatch(store, First) /\ AnswersMatch(store, Second)
      /\ NamesMatch(store, First, order) /\ ChecksMatch(store, First, order)
  BY <1>1 DEF StoreMatches
<1> HIDE DEF e, x, res
<1>7. /\ store' \in StoreType /\ FamiliesTyped(store') /\ AnswersMatch(store', Second')
      /\ store'.recs = store.recs /\ store'.shards = store.shards /\ store'.names = store.names
      /\ SameOperations(store, store')
  <2>1. CASE ended = TRUE
    <3>1. store' = store /\ go = FALSE
      BY <1>2, <2>1 DEF go
    <3>2. SameOperations(store, store) /\ SameAnswers(store, store)
      BY DEF SameOperations, SameAnswers
    <3>3. AnswersMatch(store, Second')
      BY <1>4, <1>5, <1>6, <3>1, <3>2, AnswersKept
    <3>4. QED
      BY <1>3, <3>1, <3>2, <3>3
  <2>2. CASE ended = FALSE
    <3>1. store' = added /\ go = TRUE
      BY <1>2, <2>2 DEF go
    <3>2. /\ added \in StoreType /\ FamiliesTyped(added) /\ AnswersMatch(added, Second')
          /\ added.recs = store.recs /\ added.shards = store.shards /\ added.names = store.names
          /\ SameOperations(store, added)
      <4>1. /\ e.good /\ Extends(Second', Second, x, e) /\ x[1] = v /\ e.op.kind = "graphql" /\ e.op.errors
        BY <1>4, <1>5, <3>1
      <4>2. QED
        BY <1>3, <1>6, <4>1, AnswerRecorded DEF added
    <3>3. QED
      BY <3>1, <3>2
  <2>3. QED
    BY <1>3, <2>1, <2>2
<1>8. SameIterations(store, store')
  BY <1>7 DEF SameIterations
<1>9. IterationsMatch(store', Second')
  BY <1>4, <1>5, <1>6, <1>8, IterationsKept
<1>10. /\ RequestsMatch(store', First') /\ ErrorsMatch(store', First') /\ OperationsMatch(store', First')
  BY <1>4, <1>6, <1>7 DEF RequestsMatch, ErrorsMatch, OperationsMatch, SameOperations
<1>11. NamesMatch(store', First', order) /\ ChecksMatch(store', First', order)
  BY <1>4, <1>6, <1>7 DEF NamesMatch, ChecksMatch, TallyOf
<1>12. StoreMatches(store', First', Second', order)
  BY <1>7, <1>9, <1>10, <1>11 DEF StoreMatches
<1>13. WorkloadTypeOK'
  BY <1>1, <1>2, <1>3, <1>4, <1>7 DEF WorkloadTypeOK
<1>14. StoreReported'
  BY <1>1, <1>2, NotOver
<1>15. QED
  BY <1>2, <1>4, <1>12, <1>13, <1>14 DEF WorkloadInv

\* the end of a script function
LEMMA RecordErrorPreserves ==
    ASSUME WorkloadInv, NEW v \in VUs, RecordError(v)
    PROVE  WorkloadInv'
<1> DEFINE go == ~ended
           res == Op(v)
           x == <<v, Len(log[v])>>
           e == [op |-> res, good |-> go]
           p == "counting"
           failed == RecordScriptError(store, v, v)
<1>1. WorkloadTypeOK /\ PendingInv /\ StoreMatches(store, First, Second, order) /\ StoreReported
  BY DEF WorkloadInv
<1>2. /\ pc[v] = "returned" /\ pc' = [pc EXCEPT ![v] = "counting"] /\ ended' = ended
      /\ report' = report /\ log' = log /\ order' = order
      /\ store' = IF res.err /\ ~ended THEN failed ELSE store
  BY Zenon DEF RecordError
<1>3. go \in BOOLEAN /\ ended \in BOOLEAN /\ store \in StoreType /\ FamiliesTyped(store)
  BY <1>1 DEF WorkloadTypeOK
<1> HIDE DEF go, failed
<1>4. /\ Extends(First', First, x, e) /\ Second' = Second
      /\ PendingInv' /\ pc' \in [VUs -> Stations] /\ res \in Ops /\ res.kind = KindAt("returned")
  <2>1. pc' = [pc EXCEPT ![v] = p] /\ p = "counting" /\ p # "script"
    BY <1>2
  <2> HIDE DEF p
  <2>2. pc[v] \in FirstStations
    BY <1>2 DEF FirstStations
  <2>3. QED
    BY <1>1, <1>2, <1>3, <2>1, <2>2, FirstRecorded DEF go
<1>5. e.op = res /\ e.good = go /\ x[1] = v /\ res.kind = "iteration" /\ res.err \in BOOLEAN
  BY <1>4, OpsAre DEF KindAt
<1>6. /\ RequestsMatch(store, First) /\ ErrorsMatch(store, First) /\ IterationsMatch(store, Second)
      /\ OperationsMatch(store, First) /\ AnswersMatch(store, Second)
      /\ NamesMatch(store, First, order) /\ ChecksMatch(store, First, order)
  BY <1>1 DEF StoreMatches
<1> HIDE DEF e, x, res
<1>7. /\ store' \in StoreType /\ ErrorsMatch(store', First') /\ store'.fams = store.fams
      /\ SameRequests(store, store') /\ SameIterations(store, store') /\ SameChecks(store, store')
  <2>1. CASE res.err = TRUE /\ ended = FALSE
    <3>1. store' = failed /\ go = TRUE
      BY <1>2, <2>1 DEF go
    <3>2. /\ failed \in StoreType /\ ErrorsMatch(failed, First') /\ failed.fams = store.fams
          /\ SameRequests(store, failed) /\ SameIterations(store, failed) /\ SameChecks(store, failed)
      <4>1. e.op.kind = "iteration" /\ e.op.err /\ e.good
        BY <1>5, <2>1, <3>1
      <4>2. Extends(First', First, x, e) /\ x[1] = v
        BY <1>4, <1>5
      <4>3. QED
        BY <1>3, <1>6, <4>1, <4>2, ErrorRecorded DEF failed
    <3>3. QED
      BY <3>1, <3>2
  <2>2. CASE res.err = FALSE \/ ended = TRUE
    <3>1. store' = store /\ (res.err = FALSE \/ go = FALSE)
      BY <1>2, <2>2 DEF go
    <3>2. SameErrors(store, store) /\ SameRequests(store, store) /\ SameIterations(store, store) /\ SameChecks(store, store)
      BY DEF SameErrors, SameRequests, SameIterations, SameChecks
    <3>3. ErrorsMatch(store, First')
      BY <1>4, <1>5, <1>6, <3>1, <3>2, ErrorsKept
    <3>4. QED
      BY <1>3, <3>1, <3>2, <3>3
  <2>3. QED
    BY <1>3, <1>5, <2>1, <2>2
<1>8. SameOperations(store, store')
  BY <1>7 DEF SameOperations
<1>9. RequestsMatch(store', First')
  BY <1>4, <1>5, <1>6, <1>7, RequestsKept
<1>10. OperationsMatch(store', First')
  BY <1>4, <1>5, <1>6, <1>8, OperationsKept
<1>11. NamesMatch(store', First', order) /\ ChecksMatch(store', First', order)
  BY <1>4, <1>5, <1>6, <1>7, ChecksKept
<1>12. IterationsMatch(store', Second') /\ AnswersMatch(store', Second')
  BY <1>4, <1>6, <1>7 DEF IterationsMatch, AnswersMatch, SameIterations
<1>13. StoreMatches(store', First', Second', order)
  BY <1>7, <1>9, <1>10, <1>11, <1>12 DEF StoreMatches
<1>14. WorkloadTypeOK'
  BY <1>1, <1>2, <1>3, <1>4, <1>7 DEF WorkloadTypeOK, FamiliesTyped
<1>15. StoreReported'
  BY <1>1, <1>2, NotOver
<1>16. QED
  BY <1>2, <1>4, <1>13, <1>14, <1>15 DEF WorkloadInv

\* and of an iteration,
LEMMA CountIterationPreserves ==
    ASSUME WorkloadInv, NEW v \in VUs, CountIteration(v)
    PROVE  WorkloadInv'
<1> DEFINE go == ~ended
           res == Op(v)
           x == <<v, Len(log[v])>>
           e == [op |-> res, good |-> go]
           counted == RecordIteration(store, v)
<1>1. WorkloadTypeOK /\ PendingInv /\ StoreMatches(store, First, Second, order) /\ StoreReported
  BY DEF WorkloadInv
<1>2. /\ pc[v] = "counting" /\ pc' = [pc EXCEPT ![v] = "idle"] /\ ended' = ended
      /\ report' = report /\ log' = log /\ order' = order
      /\ store' = IF ended THEN store ELSE counted
  BY Zenon DEF CountIteration
<1>3. go \in BOOLEAN /\ ended \in BOOLEAN /\ store \in StoreType /\ FamiliesTyped(store)
  BY <1>1 DEF WorkloadTypeOK
<1> HIDE DEF go, counted
<1>4. /\ First' = First /\ Extends(Second', Second, x, e)
      /\ PendingInv' /\ pc' \in [VUs -> Stations] /\ res \in Ops /\ res.kind = KindAt("counting")
  BY <1>1, <1>2, <1>3, SecondRecorded DEF SecondStations, go
<1>5. e.op = res /\ e.good = go /\ x[1] = v /\ res.kind = "iteration"
  BY <1>4 DEF KindAt
<1>6. /\ RequestsMatch(store, First) /\ ErrorsMatch(store, First) /\ IterationsMatch(store, Second)
      /\ OperationsMatch(store, First) /\ AnswersMatch(store, Second)
      /\ NamesMatch(store, First, order) /\ ChecksMatch(store, First, order)
  BY <1>1 DEF StoreMatches
<1> HIDE DEF e, x, res
<1>7. /\ store' \in StoreType /\ IterationsMatch(store', Second') /\ store'.fams = store.fams
      /\ SameRequests(store, store') /\ SameErrors(store, store') /\ SameChecks(store, store')
  <2>1. CASE ended = FALSE
    <3>1. store' = counted /\ go = TRUE
      BY <1>2, <2>1 DEF go
    <3>2. /\ counted \in StoreType /\ IterationsMatch(counted, Second') /\ counted.fams = store.fams
          /\ SameRequests(store, counted) /\ SameErrors(store, counted) /\ SameChecks(store, counted)
      <4>1. e.op.kind = "iteration" /\ e.good
        BY <1>5, <3>1
      <4>2. Extends(Second', Second, x, e) /\ x[1] = v
        BY <1>4, <1>5
      <4>3. QED
        BY <1>3, <1>6, <4>1, <4>2, IterationRecorded DEF counted
    <3>3. QED
      BY <3>1, <3>2
  <2>2. CASE ended = TRUE
    <3>1. store' = store /\ go = FALSE
      BY <1>2, <2>2 DEF go
    <3>2. SameErrors(store, store) /\ SameRequests(store, store) /\ SameIterations(store, store) /\ SameChecks(store, store)
      BY DEF SameErrors, SameRequests, SameIterations, SameChecks
    <3>3. IterationsMatch(store, Second')
      BY <1>4, <1>5, <1>6, <3>1, <3>2, IterationsKept
    <3>4. QED
      BY <1>3, <3>1, <3>2, <3>3
  <2>3. QED
    BY <1>3, <2>1, <2>2
<1>8. SameAnswers(store, store')
  BY <1>7 DEF SameAnswers
<1>9. AnswersMatch(store', Second')
  BY <1>4, <1>5, <1>6, <1>8, AnswersKept
<1>10. RequestsMatch(store', First') /\ ErrorsMatch(store', First') /\ OperationsMatch(store', First')
  <2>1. RequestsMatch(store', First')
    BY <1>4, <1>6, <1>7 DEF RequestsMatch, SameRequests
  <2>2. ErrorsMatch(store', First')
    BY <1>4, <1>6, <1>7 DEF ErrorsMatch, SameErrors
  <2>3. OperationsMatch(store', First')
    BY <1>4, <1>6, <1>7 DEF OperationsMatch
  <2>4. QED
    BY <2>1, <2>2, <2>3
<1>11. NamesMatch(store', First', order) /\ ChecksMatch(store', First', order)
  BY <1>4, <1>6, <1>7 DEF NamesMatch, ChecksMatch, TallyOf, SameChecks
<1>12. StoreMatches(store', First', Second', order)
  BY <1>7, <1>9, <1>10, <1>11 DEF StoreMatches
<1>13. WorkloadTypeOK'
  BY <1>1, <1>2, <1>3, <1>4, <1>7 DEF WorkloadTypeOK, FamiliesTyped
<1>14. StoreReported'
  BY <1>1, <1>2, NotOver
<1>15. QED
  BY <1>2, <1>4, <1>12, <1>13, <1>14 DEF WorkloadInv

\* a run of a check,
LEMMA CheckPreserves ==
    ASSUME WorkloadInv, NEW v \in VUs, Check(v)
    PROVE  WorkloadInv'
<1>1. WorkloadTypeOK /\ PendingInv /\ StoreMatches(store, First, Second, order) /\ StoreReported
  BY DEF WorkloadInv
<1>2. PICK name \in CheckNames, result \in {"pass", "fail", "throw"} :
        /\ store' = RecordCheck(store, v, name, result = "pass", IF result = "throw" THEN v ELSE None)
        /\ log' = Logged(v, [kind |-> "check", name |-> name, result |-> result])
        /\ order' = IF Contains(order, name) THEN order ELSE Append(order, name)
  BY Zenon DEF Check
<1>3. pc[v] = "script" /\ pc' = pc /\ ended' = ended /\ report' = report
  BY DEF Check, Idle
<1> DEFINE go == ~ended
           op == [kind |-> "check", name |-> name, result |-> result]
           x == <<v, Len(log[v]) + 1>>
           e == [op |-> op, good |-> go]
           new == CheckStored(store, v, name, result)
<1>4. /\ go \in BOOLEAN /\ store \in StoreType /\ FamiliesTyped(store) /\ order \in Seq(CheckNames)
      /\ pc \in [VUs -> Stations]
  BY <1>1 DEF WorkloadTypeOK
<1>5. op \in Ops /\ op.kind = "check"
  BY DEF Ops
<1>6. order' = Named(order, name)
  BY <1>2, NamedIs, Zenon DEF Named, Contains
<1> HIDE DEF go
<1>7. /\ Extends(First', First, x, e) /\ Extends(Second', Second, x, e)
      /\ PendingInv' /\ log' \in Logs(EntryType)
  <2>1. log' = Logged(v, op)
    BY <1>2
  <2> HIDE DEF op
  <2>2. QED
    BY <1>1, <1>3, <1>4, <1>5, <2>1, CheckLogged DEF go
<1>8. /\ RequestsMatch(store, First) /\ ErrorsMatch(store, First) /\ IterationsMatch(store, Second)
      /\ OperationsMatch(store, First) /\ AnswersMatch(store, Second)
      /\ NamesMatch(store, First, order) /\ ChecksMatch(store, First, order)
  BY <1>1 DEF StoreMatches
<1>9. e.op = op /\ e.op.kind = "check" /\ x[1] = v
  OBVIOUS
<1> HIDE DEF e, x
<1>10. /\ store' = new /\ new \in StoreType /\ new.shards = store.shards /\ new.fams = store.fams
       /\ SameRequests(store, new) /\ SameErrors(store, new) /\ SameIterations(store, new)
       /\ order' \in Seq(CheckNames) /\ NamesMatch(new, First', order') /\ ChecksMatch(new, First', order')
  <2>1. e.op.kind = "check" /\ e.op.name = name /\ e.op.result = result
    BY <1>9
  <2>2. LET after == Named(order, name)
        IN  /\ new \in StoreType /\ new.shards = store.shards /\ new.fams = store.fams
            /\ SameRequests(store, new) /\ SameErrors(store, new) /\ SameIterations(store, new)
            /\ after \in Seq(CheckNames) /\ NamesMatch(new, First', after) /\ ChecksMatch(new, First', after)
    <3>1. Extends(First', First, x, e) /\ x[1] = v
      BY <1>7, <1>9
    <3>2. store \in StoreType /\ order \in Seq(CheckNames) /\ NamesMatch(store, First, order) /\ ChecksMatch(store, First, order)
      BY <1>4, <1>8
    <3>3. QED
      BY <2>1, <3>1, <3>2, CheckRecorded
  <2>3. store' = new
    BY <1>2, Zenon DEF CheckStored
  <2> HIDE DEF new
  <2>4. QED
    BY <1>6, <2>2, <2>3
<1> HIDE DEF new, op
<1>11. SameOperations(store, store') /\ SameAnswers(store, store')
  BY <1>10 DEF SameOperations, SameAnswers
<1>12. RequestsMatch(store', First')
  BY <1>7, <1>8, <1>9, <1>10, RequestsKept
<1>13. ErrorsMatch(store', First')
  BY <1>7, <1>8, <1>9, <1>10, ErrorsKept
<1>14. OperationsMatch(store', First')
  BY <1>7, <1>8, <1>9, <1>11, OperationsKept
<1>15. IterationsMatch(store', Second')
  BY <1>7, <1>8, <1>9, <1>10, IterationsKept
<1>16. AnswersMatch(store', Second')
  BY <1>7, <1>8, <1>9, <1>11, AnswersKept
<1>17. StoreMatches(store', First', Second', order')
  BY <1>10, <1>12, <1>13, <1>14, <1>15, <1>16 DEF StoreMatches
<1>18. WorkloadTypeOK'
  BY <1>1, <1>3, <1>4, <1>7, <1>10 DEF WorkloadTypeOK, FamiliesTyped
<1>19. StoreReported'
  BY <1>1, <1>3, NotOver
<1>20. QED
  BY <1>7, <1>17, <1>18, <1>19 DEF WorkloadInv

\* Nor before it is over.
LEMMA StillNotOver ==
    ASSUME StoreReported, ~report.over, report' = report
    PROVE  StoreReported'
<1>1. report = NoReport
  BY Zenon DEF StoreReported
<1>2. ~report'.over /\ report' = NoReport
  BY <1>1
<1>3. QED
  BY <1>2, Zenon DEF StoreReported

\* The results that Send may have are operations.
LEMMA LateIs ==
    /\ Late("http") \in Outcome("http") /\ Late("http").status = 0
    /\ Late("graphql") \in Outcome("graphql")
<1>1. Blank \in Protos
  BY Zenon DEF Blank, Protos
<1>2. \A k : Late(k) = [kind |-> k, sent |-> TRUE, err |-> TRUE, status |-> 0, proto |-> Blank,
                        duration |-> 0, valid |-> FALSE, errors |-> FALSE]
  BY Zenon DEF Late, Blank
<1>3. QED
  BY <1>1, <1>2 DEF Outcome

\* Results that come late are operations as well.
LEMMA ResultsAre ==
    /\ \A res \in Results(HTTPOutcomes, "http") : res \in Ops /\ res.kind = "http"
    /\ \A res \in Results(GraphQLOutcomes, "graphql") : res \in Ops /\ res.kind = "graphql"
<1>1. ASSUME NEW res \in Results(HTTPOutcomes, "http")
      PROVE  res \in Outcome("http") /\ res.status \in Statuses \union {0}
  <2>1. res \in HTTPOutcomes \/ res = Late("http")
    BY DEF Results
  <2>2. QED
    BY <2>1, LateIs, OutcomesAssumption
<1>2. ASSUME NEW res \in Results(GraphQLOutcomes, "graphql")
      PROVE  res \in Outcome("graphql")
  <2>1. res \in GraphQLOutcomes \/ res = Late("graphql")
    BY DEF Results
  <2>2. QED
    BY <2>1, LateIs, OutcomesAssumption
<1>3. \A k : \A res \in Outcome(k) : res.kind = k
  BY DEF Outcome
<1>4. QED
  BY <1>1, <1>2, <1>3 DEF Ops

\* A VU issues an operation or ends its iteration; nothing is recorded yet.
LEMMA IssuePreserves ==
    ASSUME WorkloadInv, NEW v \in VUs, Return(v) \/ SendHTTP(v) \/ SendGraphQL(v)
    PROVE  WorkloadInv'
<1>1. WorkloadTypeOK /\ PendingInv /\ StoreMatches(store, First, Second, order) /\ StoreReported
  BY DEF WorkloadInv
<1>2. PICK op \in Ops, p \in FirstStations :
        log' = Logged(v, op) /\ op.kind = KindAt(p) /\ pc' = [pc EXCEPT ![v] = p]
  <2>1. "http" \in FirstStations /\ "graphql" \in FirstStations /\ "returned" \in FirstStations
        /\ KindAt("http") = "http" /\ KindAt("graphql") = "graphql" /\ KindAt("returned") = "iteration"
    BY DEF FirstStations, KindAt
  <2>2. CASE Return(v)
    <3>1. PICK err \in BOOLEAN : log' = Logged(v, [kind |-> "iteration", err |-> err])
      BY <2>2, Zenon DEF Return
    <3>2. [kind |-> "iteration", err |-> err] \in Ops /\ [kind |-> "iteration", err |-> err].kind = "iteration"
      BY DEF Ops
    <3>3. QED
      BY <2>1, <2>2, <3>1, <3>2, Zenon DEF Return
  <2>3. CASE SendHTTP(v)
    BY <2>1, <2>3, ResultsAre, Zenon DEF SendHTTP
  <2>4. CASE SendGraphQL(v)
    BY <2>1, <2>4, ResultsAre, Zenon DEF SendGraphQL
  <2>5. QED
    BY <2>2, <2>3, <2>4
<1>3. pc[v] = "script" /\ ended' = ended /\ store' = store /\ report' = report /\ order' = order
  BY DEF Return, SendHTTP, SendGraphQL, Idle
<1>4. /\ First' = First /\ Second' = Second /\ PendingInv'
      /\ log' \in Logs(EntryType) /\ pc' \in [VUs -> Stations]
  BY <1>1, <1>2, <1>3, Issued
<1>5. WorkloadTypeOK'
  BY <1>1, <1>3, <1>4 DEF WorkloadTypeOK, FamiliesTyped
<1>6. StoreReported'
  BY <1>1, <1>3, NotOver
<1>7. QED
  BY <1>1, <1>3, <1>4, <1>5, <1>6 DEF WorkloadInv

\* the start of an iteration,
LEMMA BeginPreserves ==
    ASSUME WorkloadInv, NEW v \in VUs, Begin(v)
    PROVE  WorkloadInv'
<1>1. WorkloadTypeOK /\ PendingInv /\ StoreMatches(store, First, Second, order) /\ StoreReported
  BY DEF WorkloadInv
<1>2. ~report.over /\ UNCHANGED <<ended, store, report, log, order>>
  BY DEF Begin
<1>3. First' = First /\ Second' = Second /\ PendingInv' /\ pc' \in [VUs -> Stations]
  BY <1>1, Begun
<1>4. WorkloadTypeOK'
  BY <1>1, <1>2, <1>3 DEF WorkloadTypeOK, FamiliesTyped
<1>5. StoreReported'
  BY <1>1, <1>2, StillNotOver
<1>6. QED
  BY <1>1, <1>2, <1>3, <1>4, <1>5 DEF WorkloadInv

\* the end of the test,
LEMMA EndOfTestPreserves ==
    ASSUME WorkloadInv, EndOfTest
    PROVE  WorkloadInv'
<1>1. WorkloadTypeOK /\ PendingInv /\ StoreMatches(store, First, Second, order) /\ StoreReported
  BY DEF WorkloadInv
<1>2. ~report.over /\ ended' = TRUE /\ UNCHANGED <<pc, store, report, order>>
  BY DEF EndOfTest
<1>3. First' = First /\ Second' = Second /\ PendingInv' /\ log' \in Logs(EntryType)
  BY <1>1, Cut
<1>4. WorkloadTypeOK'
  BY <1>1, <1>2, <1>3 DEF WorkloadTypeOK, FamiliesTyped
<1>5. StoreReported'
  BY <1>1, <1>2, StillNotOver
<1>6. QED
  BY <1>1, <1>2, <1>3, <1>4, <1>5 DEF WorkloadInv

\* What has been recorded stays so while VUs, the log and the store do.
LEMMA QuietKept ==
    ASSUME WorkloadInv, UNCHANGED <<pc, ended, store, log, order>>, StoreReported'
    PROVE  WorkloadInv'
<1>1. WorkloadTypeOK /\ PendingInv /\ StoreMatches(store, First, Second, order)
  BY DEF WorkloadInv
<1>2. Waiting1' = Waiting1 /\ Waiting2' = Waiting2
  BY DEF Waiting1, Waiting2, AtFirst, AtSecond
<1>3. First' = First /\ Second' = Second
  BY <1>2 DEF First, Second
<1>4. WorkloadTypeOK'
  BY <1>1 DEF WorkloadTypeOK, FamiliesTyped
<1>5. PendingInv'
  <2>1. ASSUME NEW w \in VUs
        PROVE  PendingAt(w)'
    BY <1>1, PendingKept DEF PendingInv
  <2>2. QED
    BY <2>1 DEF PendingInv
<1>6. QED
  BY <1>1, <1>3, <1>4, <1>5 DEF WorkloadInv

\* and the steps of the report.
LEMMA ReportPreserves ==
    ASSUME WorkloadInv, Summarise \/ Report \/ UNCHANGED vars
    PROVE  WorkloadInv'
<1>1. StoreReported /\ UNCHANGED <<pc, ended, store, log, order>>
  BY DEF WorkloadInv, Summarise, Report, vars
<1>2. CASE Summarise
  <2>1. /\ report'.over /\ \A v \in VUs : pc'[v] = "idle"
        /\ report'.summary = Merge(store) /\ report'.families = Summarize(store)
    BY <1>1, <1>2 DEF Summarise
  <2>2. StoreReported'
    BY <1>1, <2>1, Zenon DEF StoreReported
  <2>3. QED
    BY <1>1, <2>2, QuietKept
<1>3. CASE Report
  <2>1. report.over /\ report'.over /\ report'.summary = report.summary /\ report'.families = report.families
    BY <1>3, SMT DEF Report
  <2>2. /\ \A v \in VUs : pc[v] = "idle"
        /\ report.summary = Merge(store) /\ report.families = Summarize(store)
    BY <1>1, <2>1, Zenon DEF StoreReported
  <2>3. StoreReported'
    BY <1>1, <2>1, <2>2, Zenon DEF StoreReported
  <2>4. QED
    BY <1>1, <2>3, QuietKept
<1>4. CASE UNCHANGED vars
  <2>1. report' = report /\ pc' = pc /\ store' = store
    BY <1>4 DEF vars
  <2>2. StoreReported'
    BY <1>1, <2>1, Zenon DEF StoreReported
  <2>3. QED
    BY <1>1, <2>2, QuietKept
<1>5. QED
  BY <1>2, <1>3, <1>4

\* There is nothing in the empty set.
LEMMA CountEmpty ==
    Count({}) = 0
  BY FS_EmptySet DEF Count

\* Nothing has been recorded when the run starts.
LEMMA InitHistory ==
    ASSUME Init
    PROVE  DOMAIN First = {} /\ DOMAIN Second = {} /\ log \in Logs(EntryType)
<1>1. log = [v \in VUs |-> <<>>]
  BY DEF Init
<1>2. log \in Logs(EntryType)
  BY <1>1 DEF Logs
<1>3. \A v \in VUs : DOMAIN FirstLog(log)[v] = {} /\ DOMAIN SecondLog(log)[v] = {}
  <2>1. ASSUME NEW v \in VUs
        PROVE  DOMAIN FirstLog(log)[v] = {} /\ DOMAIN SecondLog(log)[v] = {}
    <3>1. Len(log[v]) = 0
      BY <1>1
    <3>2. FirstLog(log)[v] = [k \in 1..Len(log[v]) |-> [op |-> log[v][k].op, good |-> log[v][k].first]]
      BY DEF FirstLog
    <3>3. SecondLog(log)[v] = [k \in 1..Len(log[v]) |-> [op |-> log[v][k].op, good |-> log[v][k].second]]
      BY DEF SecondLog
    <3>4. QED
      BY <3>1, <3>2, <3>3
  <2>2. QED
    BY <2>1
<1>4. EntriesOf(FirstLog(log)) = {} /\ EntriesOf(SecondLog(log)) = {}
  BY <1>3 DEF EntriesOf
<1>5. DOMAIN First = {} /\ DOMAIN Second = {}
  BY <1>4 DEF First, Second, History, Settled
<1>6. QED
  BY <1>2, <1>5

\* The store of a run that starts: all counts are zero.
LEMMA InitStore ==
    ASSUME NEW st, st = NewRecorders
    PROVE  /\ st \in StoreType /\ FamiliesTyped(st)
           /\ \A v \in VUs : st.recs[v] = newRecorder
           /\ \A j \in HTTPShards : st.shards[j] = newShard
           /\ \A j \in FamShards : /\ st.fams["graphql_req_duration"][j] = newShard
                                   /\ \A f \in {"graphql_reqs", "graphql_req_failed", "graphql_errors"} :
                                        st.fams[f][j] = [count |-> 0, trues |-> 0]
           /\ st.names = <<>>
<1>1. newHistogram \in HistType
  BY DEF newHistogram, HistType, Infinity
<1>2. newShard \in ShardType
  BY <1>1 DEF newShard, ShardType
<1>3. newRecorder \in RecType
  <2>1. <<>> \in IndexType
    <3>1. <<>> \in [{} -> Nat]
      OBVIOUS
    <3>2. QED
      BY <3>1 DEF IndexType
  <2>2. <<>> \in Seq(CheckType)
    OBVIOUS
  <2>3. [HTTP1 |-> 0, HTTP2 |-> 0, Other |-> 0] \in ProtocolsType
    BY DEF ProtocolsType
  <2>4. None \in Nat
    BY DEF None
  <2>5. QED
    BY <2>1, <2>2, <2>3, <2>4 DEF newRecorder, RecType
<1>4. [count |-> 0, trues |-> 0] \in CounterType
  BY DEF CounterType
<1>5. /\ newFamily("trend") = [j \in FamShards |-> newShard]
      /\ \A kind : kind # "trend" => newFamily(kind) = [j \in FamShards |-> [count |-> 0, trues |-> 0]]
  BY DEF newFamily, FamShards
<1>6. \A kind : newFamily(kind) \in [FamShards -> ShardType] \union [FamShards -> CounterType]
  <2>1. newFamily("trend") \in [FamShards -> ShardType]
    BY <1>2, <1>5
  <2>2. \A kind : kind # "trend" => newFamily(kind) \in [FamShards -> CounterType]
    BY <1>4, <1>5
  <2>3. QED
    BY <2>1, <2>2
<1>7. /\ st.recs = [v \in VUs |-> newRecorder] /\ st.shards = [j \in HTTPShards |-> newShard]
      /\ st.names = <<>> /\ st.fams = [f \in DOMAIN FamilyKind |-> newFamily(FamilyKind[f])]
  BY DEF NewRecorders
<1>8. st \in StoreType
  <2>1. st.recs \in [VUs -> RecType] /\ st.shards \in [HTTPShards -> ShardType] /\ st.names \in Seq(CheckNames)
    BY <1>2, <1>3, <1>7
  <2>2. st.fams \in [DOMAIN FamilyKind -> [FamShards -> ShardType] \union [FamShards -> CounterType]]
    BY <1>6, <1>7
  <2>3. st = [recs |-> st.recs, shards |-> st.shards, names |-> st.names, fams |-> st.fams]
    BY DEF NewRecorders
  <2>4. QED
    BY <2>1, <2>2, <2>3 DEF StoreType
<1>9. /\ st.fams["graphql_req_duration"] = newFamily("trend")
      /\ st.fams["graphql_reqs"] = newFamily("counter") /\ st.fams["graphql_req_failed"] = newFamily("rate")
      /\ st.fams["graphql_errors"] = newFamily("counter")
  <2>1. /\ FamilyKind["graphql_req_duration"] = "trend" /\ FamilyKind["graphql_reqs"] = "counter"
        /\ FamilyKind["graphql_req_failed"] = "rate" /\ FamilyKind["graphql_errors"] = "counter"
    <3>1. \A f \in DOMAIN GraphQLFamilies : FamilyKind[f] = GraphQLFamilies[f]
      BY OutcomesAssumption
    <3>2. QED
      BY <3>1 DEF GraphQLFamilies
  <2>2. QED
    BY <1>7, <2>1, FamiliesDeclared
<1>10. /\ \A j \in FamShards : st.fams["graphql_req_duration"][j] = newShard
       /\ \A f \in {"graphql_reqs", "graphql_req_failed", "graphql_errors"} :
            st.fams[f] = [j \in FamShards |-> [count |-> 0, trues |-> 0]]
  BY <1>5, <1>9
<1>11. FamiliesTyped(st)
  <2>1. st.fams["graphql_req_duration"] \in [FamShards -> ShardType]
    BY <1>2, <1>5, <1>9
  <2>2. \A f \in {"graphql_reqs", "graphql_req_failed", "graphql_errors"} : st.fams[f] \in [FamShards -> CounterType]
    BY <1>4, <1>10
  <2>3. QED
    BY <2>1, <2>2 DEF FamiliesTyped
<1>12. QED
  BY <1>7, <1>8, <1>10, <1>11

\* They are those of an empty history.
LEMMA InitMatches ==
    ASSUME NEW st, st = NewRecorders, NEW g, NEW h, DOMAIN g = {}, DOMAIN h = {}
    PROVE  StoreMatches(st, g, h, <<>>)
<1>1. /\ \A v \in VUs : st.recs[v] = newRecorder
      /\ \A j \in HTTPShards : st.shards[j] = newShard
      /\ \A j \in FamShards : /\ st.fams["graphql_req_duration"][j] = newShard
                              /\ \A f \in {"graphql_reqs", "graphql_req_failed", "graphql_errors"} :
                                   st.fams[f][j] = [count |-> 0, trues |-> 0]
      /\ st.names = <<>>
  BY InitStore
<1>2. \A j \in HTTPShards : GoodIn(g, j) = {} /\ BadIn(g, j) = {} /\ \A c : StatusIn(g, j, c) = {}
  BY DEF GoodIn, BadIn, StatusIn, SentOf
<1>3. \A v \in VUs : /\ UnsentOf(g, v) = {} /\ \A p : ProtoOf(g, v, p) = {}
                     /\ ErrorsOf(g, v) = {} /\ IterationsOf(h, v) = {}
  BY DEF UnsentOf, ProtoOf, SentOf, ErrorsOf, IterationsOf
<1>4. \A j \in FamShards : /\ OpsIn(g, j) = {} /\ WrongIn(g, j) = {} /\ TimedIn(g, j) = {}
                           /\ TimedWrongIn(g, j) = {} /\ AnswersIn(h, j) = {}
  BY DEF OpsIn, WrongIn, TimedIn, TimedWrongIn, AnswersIn
<1>5. /\ newRecorder.unsent = 0 /\ newRecorder.scriptErrors = 0 /\ newRecorder.firstScriptError = None
      /\ newRecorder.iterations = 0 /\ newRecorder.protocols.HTTP1 = 0 /\ newRecorder.protocols.HTTP2 = 0
      /\ newRecorder.checkIndex = <<>> /\ newRecorder.checks = <<>>
  BY DEF newRecorder
<1>6. /\ newShard.ok.n = 0 /\ newShard.failed.n = 0 /\ \A c \in Statuses \union {0} : newShard.statuses[c] = 0
  BY DEF newShard, newHistogram
<1>7. RequestsMatch(st, g)
  BY <1>1, <1>2, <1>3, <1>5, <1>6, CountEmpty DEF RequestsMatch
<1>8. ErrorsMatch(st, g)
  BY <1>1, <1>3, <1>5, CountEmpty DEF ErrorsMatch
<1>9. IterationsMatch(st, h)
  BY <1>1, <1>3, <1>5, CountEmpty DEF IterationsMatch
<1> DEFINE zero == [count |-> 0, trues |-> 0]
<1>10. /\ zero.count = 0 /\ zero.trues = 0
       /\ \A j \in FamShards : /\ st.fams["graphql_reqs"][j] = zero
                               /\ st.fams["graphql_req_failed"][j] = zero
                               /\ st.fams["graphql_errors"][j] = zero
  BY <1>1
<1> HIDE DEF zero
<1>11. OperationsMatch(st, g) /\ AnswersMatch(st, h)
  BY <1>1, <1>4, <1>6, <1>10, CountEmpty DEF OperationsMatch, AnswersMatch
<1>12. NamesMatch(st, g, <<>>)
  <2>1. DOMAIN <<>> = {} /\ Len(<<>>) = 0
    OBVIOUS
  <2>2. \A v \in VUs : Len(st.recs[v].checks) <= Len(<<>>) /\ DOMAIN st.recs[v].checkIndex = {}
    BY <1>1, <1>5, <2>1
  <2>3. QED
    BY <1>1, <2>1, <2>2 DEF NamesMatch
<1>13. ChecksMatch(st, g, <<>>)
  BY DEF ChecksMatch
<1>14. QED
  BY <1>7, <1>8, <1>9, <1>11, <1>12, <1>13 DEF StoreMatches

\* The invariant holds when the run starts.
LEMMA InitWorkloadInv ==
    ASSUME Init
    PROVE  WorkloadInv
<1>1. /\ pc = [v \in VUs |-> "idle"] /\ ended = FALSE /\ store = NewRecorders /\ report = NoReport
      /\ order = <<>>
  BY DEF Init
<1>2. DOMAIN First = {} /\ DOMAIN Second = {} /\ log \in Logs(EntryType)
  BY InitHistory
<1>3. StoreMatches(store, First, Second, order)
  BY <1>1, <1>2, InitMatches
<1>4. WorkloadTypeOK
  <2>1. store \in StoreType /\ FamiliesTyped(store)
    BY <1>1, InitStore
  <2>2. pc \in [VUs -> Stations]
    BY <1>1 DEF Stations
  <2>3. ended \in BOOLEAN /\ order \in Seq(CheckNames)
    <3>1. ended \in BOOLEAN
      BY <1>1, Zenon
    <3>2. <<>> \in Seq(CheckNames)
      OBVIOUS
    <3>3. QED
      BY <1>1, <3>1, <3>2, Zenon
  <2>4. QED
    BY <1>2, <2>1, <2>2, <2>3 DEF WorkloadTypeOK
<1>5. PendingInv
  BY <1>1 DEF PendingInv, PendingAt, AtFirst, AtSecond
<1>6. StoreReported
  <2>1. report = NoReport /\ ~report.over
    BY <1>1 DEF NoReport
  <2>2. QED
    BY <2>1, Zenon DEF StoreReported
<1>7. QED
  BY <1>3, <1>4, <1>5, <1>6 DEF WorkloadInv

\* What the VUs have recorded of their operations is what the recorders hold, in
\* every state and for any number of VUs, shards, outcomes and checks: the histories
\* First and Second are the operations recorded, or passed over at the end of
\* the test, with their first and their second results; every counter of every
\* recorder, shard and family counts its part of them; and a report is that of a
\* store nobody writes to any more.
THEOREM WorkloadInvariant == Spec => []WorkloadInv
<1>1. Init => WorkloadInv
  BY InitWorkloadInv
<1>2. WorkloadInv /\ [Next]_vars => WorkloadInv'
  <2>1. ASSUME WorkloadInv, NEW v \in VUs, VUStep(v)
        PROVE  WorkloadInv'
    <3>1. CASE Begin(v)
      BY <2>1, <3>1, BeginPreserves
    <3>2. CASE Return(v) \/ SendHTTP(v) \/ SendGraphQL(v)
      BY <2>1, <3>2, IssuePreserves
    <3>3. CASE RecordError(v)
      BY <2>1, <3>3, RecordErrorPreserves
    <3>4. CASE CountIteration(v)
      BY <2>1, <3>4, CountIterationPreserves
    <3>5. CASE Do(v)
      BY <2>1, <3>5, DoPreserves
    <3>6. CASE RecordGraphQL(v)
      BY <2>1, <3>6, RecordGraphQLPreserves
    <3>7. CASE CountErrors(v)
      BY <2>1, <3>7, CountErrorsPreserves
    <3>8. CASE Check(v)
      BY <2>1, <3>8, CheckPreserves
    <3>9. QED
      BY <2>1, <3>1, <3>2, <3>3, <3>4, <3>5, <3>6, <3>7, <3>8, Zenon DEF VUStep
  <2>2. ASSUME WorkloadInv, EndOfTest
        PROVE  WorkloadInv'
    BY <2>2, EndOfTestPreserves
  <2>3. ASSUME WorkloadInv, Summarise \/ Report \/ UNCHANGED vars
        PROVE  WorkloadInv'
    BY <2>3, ReportPreserves
  <2>4. QED
    BY <2>1, <2>2, <2>3, Zenon DEF Next
<1>3. QED
  BY <1>1, <1>2, PTL DEF Spec

-----------------------------------------------------------------------------
(* Workload: the report *)

\* How many elements each of the parts P of a set has, for the indices in J.
PartCounts(J, P) == [j \in J |-> Count(P[j])]

\* They are as many as the set has.
LEMMA PartsCounted ==
    ASSUME NEW J, IsFiniteSet(J), NEW A, IsFiniteSet(A), NEW P, \A j \in J : P[j] \in SUBSET A,
           \A a \in A : \E j \in J : a \in P[j],
           \A j, k \in J : \A a \in A : a \in P[j] /\ a \in P[k] => j = k
    PROVE  SumFunction(PartCounts(J, P)) = Count(A)
<1> DEFINE F(T) == [j \in T |-> Count(P[j])]
           U(T) == UNION {P[j] : j \in T}
           G == {T \in SUBSET J : SumFunction(F(T)) = Count(U(T))}
<1>1. \A j \in J : IsFiniteSet(P[j]) /\ Count(P[j]) \in Int
  BY FS_Subset, FS_CardinalityType DEF Count
<1>2. \A T \in SUBSET J : IsFiniteSet(T) /\ F(T) \in [T -> Int] /\ IsFiniteSet(U(T)) /\ U(T) \subseteq A
  <2>1. ASSUME NEW T \in SUBSET J
        PROVE  IsFiniteSet(T) /\ F(T) \in [T -> Int] /\ U(T) \subseteq A
    <3>1. IsFiniteSet(T)
      BY FS_Subset
    <3>2. F(T) \in [T -> Int]
      BY <1>1
    <3>3. U(T) \subseteq A
      OBVIOUS
    <3>4. QED
      BY <3>1, <3>2, <3>3
  <2> HIDE DEF F, U
  <2>2. \A T \in SUBSET J : IsFiniteSet(U(T))
    BY <2>1, FS_Subset
  <2>3. QED
    BY <2>1, <2>2
<1>3. {} \in G
  <2>1. U({}) = {} /\ Count({}) = 0
    BY CountEmpty
  <2>2. F({}) \in [{} -> Int]
    BY <1>2
  <2> HIDE DEF F, U
  <2>3. SumFunction(F({})) = 0
    BY <2>2, SumEmpty
  <2>4. QED
    BY <2>1, <2>3
<1>4. \A T \in SUBSET J : \A x \in J \ T : T \in G => T \cup {x} \in G
  <2>1. ASSUME NEW T \in SUBSET J, NEW x \in J \ T, T \in G
        PROVE  T \cup {x} \in G
    <3> DEFINE R == T \cup {x}
    <3>1. U(R) = U(T) \cup P[x] /\ \A a \in U(T) : a \notin P[x]
      <4>1. U(R) = U(T) \cup P[x]
        OBVIOUS
      <4>2. ASSUME NEW a \in U(T), a \in P[x]
            PROVE  FALSE
        <5>1. PICK j \in T : a \in P[j]
          OBVIOUS
        <5>2. j = x
          BY <4>2, <5>1
        <5>3. QED
          BY <5>1, <5>2
      <4>3. QED
        BY <4>1, <4>2
    <3>2. \A y \in T : F(R)[y] = F(T)[y]
      OBVIOUS
    <3>3. F(R)[x] = Count(P[x]) /\ SumFunction(F(T)) = Count(U(T))
      BY <2>1
    <3>4. /\ IsFiniteSet(T) /\ F(T) \in [T -> Int] /\ F(R) \in [R -> Int]
          /\ IsFiniteSet(U(T)) /\ IsFiniteSet(P[x]) /\ Count(P[x]) \in Int
      BY <1>1, <1>2
    <3> HIDE DEF F, U
    <3>5. SumFunction(F(R)) = SumFunction(F(T)) + F(R)[x]
      <4>1. x \in R /\ x \notin T /\ R = T \cup {x}
        OBVIOUS
      <4> DEFINE f == F(T)
                 g == F(R)
      <4>2. /\ IsFiniteSet(T) /\ f \in [T -> Int] /\ g \in [R -> Int]
            /\ \A y \in T : g[y] = f[y]
        BY <3>2, <3>4
      <4> HIDE DEF R, f, g
      <4>3. SumFunction(g) = SumFunction(f) + g[x]
        BY <4>1, <4>2, SumGrow
      <4>4. QED
        BY <4>3 DEF f, g
    <3>6. Count(U(R)) = Count(U(T)) + Count(P[x])
      <4>1. U(T) \cap P[x] = {}
        BY <3>1
      <4>2. Cardinality(U(T) \cup P[x]) = Cardinality(U(T)) + Cardinality(P[x]) - Cardinality(U(T) \cap P[x])
        BY <3>4, FS_Union
      <4>3. Cardinality(U(T)) \in Nat /\ Cardinality(P[x]) \in Nat /\ Cardinality({}) = 0
        BY <3>4, FS_CardinalityType, FS_EmptySet
      <4>4. Cardinality(U(T) \cap P[x]) = 0
        BY <4>1, <4>3
      <4>5. U(R) = U(T) \cup P[x]
        BY <3>1
      <4> DEFINE a == Cardinality(U(T))
                 b == Cardinality(P[x])
                 c == Cardinality(U(T) \cup P[x])
                 d == Cardinality(U(T) \cap P[x])
      <4>6. Cardinality(U(R)) = Cardinality(U(T)) + Cardinality(P[x])
        <5>1. c = a + b - d /\ d = 0 /\ a \in Nat /\ b \in Nat
          BY <4>2, <4>3, <4>4
        <5>2. Cardinality(U(R)) = c
          BY <4>5, Zenon
        <5> HIDE DEF a, b, c, d
        <5>3. c = a + b
          BY <5>1
        <5>4. QED
          BY <5>2, <5>3 DEF a, b
      <4>7. QED
        BY <4>6 DEF Count
    <3>7. QED
      BY <3>3, <3>5, <3>6
  <2>2. QED
    BY <2>1
<1>5. J \in G
  <2> HIDE DEF G
  <2>1. QED
    BY <1>3, <1>4, FiniteInduction
<1>6. U(J) = A
  OBVIOUS
<1>7. F(J) = PartCounts(J, P)
  BY Zenon DEF PartCounts
<1>8. QED
  BY <1>5, <1>6, <1>7

\* The first message is one of them, and None if there is none.
LEMMA FirstMessageIs ==
    ASSUME NEW msg
    PROVE  /\ (\A v \in VUs : msg[v] = None) => FirstMessage(msg) = None
           /\ (\E v \in VUs : msg[v] # None) => \E v \in VUs : msg[v] # None /\ FirstMessage(msg) = msg[v]
<1> DEFINE said == {v \in VUs : msg[v] # None}
<1>1. FirstMessage(msg) = IF said = {} THEN None ELSE msg[Min(said)]
  BY DEF FirstMessage
<1>2. ASSUME said # {}
      PROVE  Min(said) \in said
  <2>1. said \in SUBSET Nat
    BY ShardsTyped
  <2>2. PICK m \in said : \A n \in said : m <= n
    BY <1>2, <2>1, LeastNatural
  <2>3. said \in SUBSET Int
    BY <2>1
  <2> HIDE DEF said
  <2>4. QED
    BY <2>2, <2>3, LeastIs
<1>3. QED
  BY <1>1, <1>2

\* The entries that have been recorded once the run is over, which are all of them.
LEMMA AllRecorded ==
    ASSUME WorkloadInv, report.over
    PROVE  /\ IsFiniteSet(EntriesOf(log)) /\ DOMAIN First = EntriesOf(log) /\ DOMAIN Second = EntriesOf(log)
           /\ \A i \in EntriesOf(log) :
                /\ i[1] \in VUs /\ E(i).op \in Ops /\ E(i).first \in BOOLEAN /\ E(i).second \in BOOLEAN
                /\ First[i].op = E(i).op /\ First[i].good = E(i).first
                /\ Second[i].op = E(i).op /\ Second[i].good = E(i).second
           /\ \A kind : Entries(kind) = {i \in EntriesOf(log) : E(i).op.kind = kind}
<1>1. log \in Logs(EntryType) /\ \A v \in VUs : pc[v] = "idle"
  BY Zenon DEF WorkloadInv, WorkloadTypeOK, StoreReported
<1>2. Waiting1 = {} /\ Waiting2 = {}
  BY <1>1 DEF Waiting1, Waiting2, AtFirst, AtSecond
<1>3. IsFiniteSet(EntriesOf(log))
  BY <1>1, EntriesFinite
<1>4. \A l : \A i : i \in EntriesOf(l) <=> i = <<i[1], i[2]>> /\ i[1] \in VUs /\ i[2] \in DOMAIN l[i[1]]
  BY EntryIs
<1>5. ASSUME NEW v \in VUs
      PROVE  /\ DOMAIN log[v] = 1..Len(log[v])
             /\ DOMAIN FirstLog(log)[v] = DOMAIN log[v] /\ DOMAIN SecondLog(log)[v] = DOMAIN log[v]
             /\ \A k \in DOMAIN log[v] : /\ log[v][k] \in EntryType
                                         /\ FirstLog(log)[v][k] = [op |-> log[v][k].op, good |-> log[v][k].first]
                                         /\ SecondLog(log)[v][k] = [op |-> log[v][k].op, good |-> log[v][k].second]
  <2>1. log[v] \in Seq(EntryType)
    BY <1>1 DEF Logs
  <2>2. DOMAIN log[v] = 1..Len(log[v]) /\ \A k \in DOMAIN log[v] : log[v][k] \in EntryType
    BY <2>1
  <2>3. /\ FirstLog(log)[v] = [k \in 1..Len(log[v]) |-> [op |-> log[v][k].op, good |-> log[v][k].first]]
        /\ SecondLog(log)[v] = [k \in 1..Len(log[v]) |-> [op |-> log[v][k].op, good |-> log[v][k].second]]
    BY DEF FirstLog, SecondLog
  <2>4. QED
    BY <2>2, <2>3
<1>6. EntriesOf(FirstLog(log)) = EntriesOf(log) /\ EntriesOf(SecondLog(log)) = EntriesOf(log)
  <2>1. \A i : i \in EntriesOf(FirstLog(log)) <=> i \in EntriesOf(log)
    BY <1>4, <1>5
  <2>2. \A i : i \in EntriesOf(SecondLog(log)) <=> i \in EntriesOf(log)
    BY <1>4, <1>5
  <2>3. QED
    BY <2>1, <2>2
<1>7. /\ First = [i \in EntriesOf(log) |-> FirstLog(log)[i[1]][i[2]]]
      /\ Second = [i \in EntriesOf(log) |-> SecondLog(log)[i[1]][i[2]]]
  BY <1>2, <1>6 DEF First, Second, History, Settled
<1>8. ASSUME NEW i \in EntriesOf(log)
      PROVE  /\ i[1] \in VUs /\ E(i).op \in Ops /\ E(i).first \in BOOLEAN /\ E(i).second \in BOOLEAN
             /\ First[i].op = E(i).op /\ First[i].good = E(i).first
             /\ Second[i].op = E(i).op /\ Second[i].good = E(i).second
  <2>1. i[1] \in VUs /\ i[2] \in DOMAIN log[i[1]]
    BY <1>4
  <2>2. E(i) \in EntryType
    BY <1>5, <2>1 DEF E
  <2>3. E(i).op \in Ops /\ E(i).first \in BOOLEAN /\ E(i).second \in BOOLEAN
    BY <2>2 DEF EntryType
  <2>4. /\ First[i] = [op |-> E(i).op, good |-> E(i).first]
        /\ Second[i] = [op |-> E(i).op, good |-> E(i).second]
    BY <1>5, <1>7, <2>1 DEF E
  <2>5. QED
    BY <2>1, <2>3, <2>4
<1>9. ASSUME NEW kind
      PROVE  Entries(kind) = {i \in EntriesOf(log) : E(i).op.kind = kind}
  <2> DEFINE B == {i \in EntriesOf(log) : E(i).op.kind = kind}
  <2>1. ASSUME NEW i \in Entries(kind)
        PROVE  i \in B
    <3>1. PICK v \in VUs : i \in {<<v, k>> : k \in {n \in DOMAIN log[v] : log[v][n].op.kind = kind}}
      BY DEF Entries
    <3>2. PICK k \in DOMAIN log[v] : i = <<v, k>> /\ log[v][k].op.kind = kind
      BY <3>1
    <3>3. QED
      BY <3>2, <1>4 DEF E
  <2>2. ASSUME NEW i \in B
        PROVE  i \in Entries(kind)
    <3>1. i = <<i[1], i[2]>> /\ i[1] \in VUs /\ i[2] \in DOMAIN log[i[1]] /\ log[i[1]][i[2]].op.kind = kind
      BY <1>4 DEF E
    <3>2. QED
      BY <3>1 DEF Entries
  <2>3. QED
    BY <2>1, <2>2
<1>10. QED
  BY <1>3, <1>7, <1>8, <1>9

\* The counters of HTTP requests of a store, added up over m shards or over the VUs.
GoodTotal(st, m)      == SumFunction([k \in 1..m |-> st.shards[k - 1].ok.n])
SentTotal(st, m)      == SumFunction([k \in 1..(m + m) |-> IF k <= m THEN st.shards[k - 1].ok.n
                                                          ELSE st.shards[k - m - 1].failed.n])
StatusTotal(st, m, c) == SumFunction([k \in 1..m |-> st.shards[k - 1].statuses[c]])
UnsentTotal(st)       == SumFunction([v \in VUs |-> st.recs[v].unsent])

\* What a summary counts, from the counters of the store.
LEMMA MergeIs ==
    ASSUME NEW st \in StoreType, NEW m \in Nat \ {0}, HTTPShards = 0..(m - 1), Cardinality(HTTPShards) = m
    PROVE  LET s == Merge(st)
               failures == UnsentTotal(st) + (SentTotal(st, m) - GoodTotal(st, m))
           IN  /\ s.Requests = GoodTotal(st, m) + failures
               /\ s.Successes = GoodTotal(st, m) /\ s.Failures = failures /\ s.Sent = SentTotal(st, m)
               /\ s.ScriptErrors = SumFunction([v \in VUs |-> st.recs[v].scriptErrors])
               /\ s.FirstScriptError = FirstMessage([v \in VUs |-> st.recs[v].firstScriptError])
               /\ s.Iterations = SumFunction([v \in VUs |-> st.recs[v].iterations])
               /\ s.Protocols["HTTP2"] = SumFunction([v \in VUs |-> st.recs[v].protocols["HTTP2"]])
               /\ s.Protocols["HTTP1"] = SumFunction([v \in VUs |-> st.recs[v].protocols["HTTP1"]])
               /\ s.Checks = mergeChecks(st)
               /\ \A c \in Statuses \union {0} : s.StatusCodes[c] = StatusTotal(st, m, c)
<1> DEFINE s == Merge(st)
           good == SumFunction([k \in 1..m |-> st.shards[k - 1].ok.n])
           sent == SumFunction([k \in 1..(m + m) |-> IF k <= m THEN st.shards[k - 1].ok.n
                                                     ELSE st.shards[k - m - 1].failed.n])
           unsent == SumFunction([v \in VUs |-> st.recs[v].unsent])
           errors == SumFunction([v \in VUs |-> st.recs[v].scriptErrors])
           message == FirstMessage([v \in VUs |-> st.recs[v].firstScriptError])
           iterations == SumFunction([v \in VUs |-> st.recs[v].iterations])
           protocols == [k \in {"HTTP1", "HTTP2", "Other"} |-> SumFunction([v \in VUs |-> st.recs[v].protocols[k]])]
           shards == Seen(st)
           oks == [k \in DOMAIN shards |-> shards[k].ok]
           faileds == [k \in DOMAIN shards |-> shards[k].failed]
           ok == combine(oks)
           all == combine(oks \o faileds)
           failures == unsent + (all.n - ok.n)
<1>1. s = [Requests |-> ok.n + failures, Successes |-> ok.n, Failures |-> failures, Sent |-> all.n,
           Latency |-> Latency(all, ShownPercentiles),
           SuccessP |-> Latency(ok, ShownPercentiles).P,
           latency |-> all,
           ScriptErrors |-> errors, FirstScriptError |-> message, Iterations |-> iterations,
           Protocols |-> protocols, Checks |-> mergeChecks(st), StatusCodes |-> mergeStatuses(shards)]
  BY Zenon DEF Merge
<1>2. protocols["HTTP2"] = SumFunction([v \in VUs |-> st.recs[v].protocols["HTTP2"]])
      /\ protocols["HTTP1"] = SumFunction([v \in VUs |-> st.recs[v].protocols["HTTP1"]])
  BY Zenon
<1>3. /\ shards = [k \in 1..m |-> st.shards[k - 1]]
      /\ \A k \in 1..m : st.shards[k - 1] \in ShardType
  <2>1. \A k \in 1..m : k - 1 \in HTTPShards
    OBVIOUS
  <2>2. QED
    BY <2>1, StoreParts DEF Seen
<1>4. oks \in Seq(HistType) /\ faileds \in Seq(HistType) /\ Len(oks) = m /\ Len(faileds) = m
  <2>1. \A k \in 1..m : shards[k].ok \in HistType /\ shards[k].failed \in HistType
    BY <1>3 DEF ShardType
  <2>2. DOMAIN shards = 1..m
    BY <1>3
  <2> HIDE DEF shards
  <2>3. QED
    BY <2>1, <2>2
<1>5. ok.n = good
  <2>1. ok.n = SumFunction([i \in DOMAIN oks |-> oks[i].n])
    BY Zenon DEF combine
  <2>2. [i \in DOMAIN oks |-> oks[i].n] = [k \in 1..m |-> st.shards[k - 1].ok.n]
    BY <1>3
  <2>3. QED
    BY <2>1, <2>2, Zenon
<1>6. all.n = sent
  <2> DEFINE both == oks \o faileds
  <2>1. all.n = SumFunction([i \in DOMAIN both |-> both[i].n])
    BY Zenon DEF combine
  <2>2. DOMAIN both = 1..(m + m) /\ \A i \in 1..(m + m) : both[i] = IF i <= m THEN oks[i] ELSE faileds[i - m]
    <3> HIDE DEF oks, faileds
    <3>1. both \in Seq(HistType) /\ Len(both) = m + m
          /\ \A i \in 1..(m + m) : both[i] = IF i <= m THEN oks[i] ELSE faileds[i - m]
      BY <1>4, ConcatProperties
    <3> HIDE DEF both
    <3>2. QED
      BY <3>1
  <2>3. \A k \in 1..m : oks[k] = st.shards[k - 1].ok /\ faileds[k] = st.shards[k - 1].failed
    BY <1>3
  <2>4. ASSUME NEW i \in 1..(m + m)
        PROVE  both[i].n = IF i <= m THEN st.shards[i - 1].ok.n ELSE st.shards[i - m - 1].failed.n
    <3> HIDE DEF both, oks, faileds
    <3>1. CASE i <= m
      BY <2>2, <2>3, <3>1
    <3>2. CASE ~(i <= m)
      <4>1. i - m \in 1..m
        BY <3>2
      <4>2. QED
        BY <2>2, <2>3, <3>2, <4>1
    <3>3. QED
      BY <3>1, <3>2
  <2>5. [i \in DOMAIN both |-> both[i].n] = [k \in 1..(m + m) |-> IF k <= m THEN st.shards[k - 1].ok.n
                                                                  ELSE st.shards[k - m - 1].failed.n]
    <3> HIDE DEF both
    <3>1. QED
      BY <2>2, <2>4
  <2>6. QED
    BY <2>1, <2>5, Zenon
<1>7. ASSUME NEW c \in Statuses \union {0}
      PROVE  mergeStatuses(shards)[c] = SumFunction([k \in 1..m |-> st.shards[k - 1].statuses[c]])
  <2>1. mergeStatuses(shards)[c] = SumFunction([k \in DOMAIN shards |-> shards[k].statuses[c]])
    BY Zenon DEF mergeStatuses
  <2>2. [k \in DOMAIN shards |-> shards[k].statuses[c]] = [k \in 1..m |-> st.shards[k - 1].statuses[c]]
    BY <1>3
  <2>3. QED
    BY <2>1, <2>2, Zenon
<1> HIDE DEF shards, oks, faileds, good, sent, unsent, errors, message, iterations, protocols, ok, all
<1>8. /\ s.Requests = ok.n + failures /\ s.Successes = ok.n /\ s.Failures = failures /\ s.Sent = all.n
      /\ s.ScriptErrors = errors /\ s.FirstScriptError = message /\ s.Iterations = iterations
      /\ s.Protocols = protocols /\ s.Checks = mergeChecks(st) /\ s.StatusCodes = mergeStatuses(shards)
  <2> HIDE DEF s, failures
  <2>1. QED
    BY <1>1
<1>9. failures = unsent + (sent - good)
  BY <1>5, <1>6, Zenon
<1> HIDE DEF failures, s
<1>10. /\ s.Requests = good + failures /\ s.Successes = good /\ s.Failures = failures /\ s.Sent = sent
       /\ \A c \in Statuses \union {0} :
            s.StatusCodes[c] = SumFunction([k \in 1..m |-> st.shards[k - 1].statuses[c]])
  BY <1>5, <1>6, <1>7, <1>8, <1>9, Zenon
<1>11. GoodTotal(st, m) = good /\ SentTotal(st, m) = sent /\ UnsentTotal(st) = unsent
  BY Zenon DEF GoodTotal, SentTotal, UnsentTotal, good, sent, unsent
<1>12. \A c \in Statuses \union {0} : s.StatusCodes[c] = StatusTotal(st, m, c)
  BY <1>10, Zenon DEF StatusTotal
<1>13. QED
  BY <1>2, <1>8, <1>9, <1>10, <1>11, <1>12, Zenon DEF s, errors, message, iterations

\* The counters of the families of a store, added up over their shards.
CountTotal(st, c)  == SumFunction([j \in FamShards |-> st.fams[c][j].count])
TrueTotal(st, c)   == SumFunction([j \in FamShards |-> st.fams[c][j].trues])
TimedTotal(st)     == SumFunction([k \in 1..(2 * NumShards) |->
                                     IF k <= NumShards THEN st.fams["graphql_req_duration"][k - 1].ok.n
                                     ELSE st.fams["graphql_req_duration"][k - NumShards - 1].failed.n])
FailedTotal(st)    == SumFunction([j \in FamShards |-> st.fams["graphql_req_duration"][j].failed.n])

\* What the families of the module count.
LEMMA SummarizeIs ==
    ASSUME NEW st \in StoreType, FamiliesTyped(st)
    PROVE  LET f == Summarize(st)
           IN  /\ \A c \in {"graphql_reqs", "graphql_req_failed", "graphql_errors"} :
                    f[c].Count = CountTotal(st, c) /\ f[c].Trues = TrueTotal(st, c)
               /\ f["graphql_req_duration"].Count = TimedTotal(st)
               /\ f["graphql_req_duration"].Failed = FailedTotal(st)
<1> DEFINE D == "graphql_req_duration"
           f == Summarize(st)
           of(c) == LET sh  == st.fams[c]
                        all == combine([k \in 1..(2 * NumShards) |->
                                          IF k <= NumShards THEN sh[k - 1].ok ELSE sh[k - NumShards - 1].failed])
                    IN  IF FamilyKind[c] = "trend"
                        THEN [Count |-> all.n,
                              Failed |-> SumFunction([j \in DOMAIN sh |-> sh[j].failed.n]),
                              Latency |-> Latency(all, ShownPercentiles), latency |-> all]
                        ELSE [Count |-> SumFunction([j \in DOMAIN sh |-> sh[j].count]),
                              Trues |-> SumFunction([j \in DOMAIN sh |-> sh[j].trues])]
<1>1. f = [c \in DOMAIN FamilyKind |-> of(c)]
  BY Zenon DEF Summarize
<1>2. /\ FamilyKind[D] = "trend" /\ FamilyKind["graphql_reqs"] = "counter"
      /\ FamilyKind["graphql_req_failed"] = "rate" /\ FamilyKind["graphql_errors"] = "counter"
  <2>1. \A c \in DOMAIN GraphQLFamilies : FamilyKind[c] = GraphQLFamilies[c]
    BY OutcomesAssumption
  <2>2. QED
    BY <2>1 DEF GraphQLFamilies
<1>3. \A c \in {D, "graphql_reqs", "graphql_req_failed", "graphql_errors"} : f[c] = of(c) /\ DOMAIN st.fams[c] = FamShards
  <2>1. \A c \in DOMAIN FamilyKind : f[c] = of(c)
    <3> HIDE DEF of
    <3>1. QED
      BY <1>1
  <2> HIDE DEF of, f
  <2>2. QED
    BY <2>1, FamiliesDeclared DEF FamiliesTyped
<1>4. ASSUME NEW c \in {"graphql_reqs", "graphql_req_failed", "graphql_errors"}
      PROVE  /\ f[c].Count = SumFunction([j \in FamShards |-> st.fams[c][j].count])
             /\ f[c].Trues = SumFunction([j \in FamShards |-> st.fams[c][j].trues])
  <2> DEFINE x == SumFunction([j \in DOMAIN st.fams[c] |-> st.fams[c][j].count])
             y == SumFunction([j \in DOMAIN st.fams[c] |-> st.fams[c][j].trues])
  <2>1. FamilyKind[c] # "trend"
    BY <1>2
  <2>2. of(c) = [Count |-> x, Trues |-> y]
    BY <2>1, Zenon
  <2>3. x = SumFunction([j \in FamShards |-> st.fams[c][j].count]) /\ y = SumFunction([j \in FamShards |-> st.fams[c][j].trues])
    BY <1>3
  <2> HIDE DEF x, y, of, f
  <2>4. f[c].Count = x /\ f[c].Trues = y
    BY <1>3, <2>2
  <2>5. QED
    BY <2>3, <2>4
<1>5. /\ f[D].Count = SumFunction([k \in 1..(2 * NumShards) |->
                                     IF k <= NumShards THEN st.fams[D][k - 1].ok.n
                                     ELSE st.fams[D][k - NumShards - 1].failed.n])
      /\ f[D].Failed = SumFunction([j \in FamShards |-> st.fams[D][j].failed.n])
  <2> DEFINE hs == [k \in 1..(2 * NumShards) |->
                      IF k <= NumShards THEN st.fams[D][k - 1].ok ELSE st.fams[D][k - NumShards - 1].failed]
             all == combine(hs)
             x == SumFunction([j \in DOMAIN st.fams[D] |-> st.fams[D][j].failed.n])
  <2>1. of(D) = [Count |-> all.n, Failed |-> x, Latency |-> Latency(all, ShownPercentiles), latency |-> all]
    BY <1>2, Zenon
  <2>2. x = SumFunction([j \in FamShards |-> st.fams[D][j].failed.n])
    BY <1>3
  <2>3. all.n = SumFunction([k \in 1..(2 * NumShards) |->
                               IF k <= NumShards THEN st.fams[D][k - 1].ok.n
                               ELSE st.fams[D][k - NumShards - 1].failed.n])
    <3>1. all.n = SumFunction([i \in DOMAIN hs |-> hs[i].n])
      BY Zenon DEF combine
    <3>2. [i \in DOMAIN hs |-> hs[i].n] = [k \in 1..(2 * NumShards) |->
                                             IF k <= NumShards THEN st.fams[D][k - 1].ok.n
                                             ELSE st.fams[D][k - NumShards - 1].failed.n]
      OBVIOUS
    <3>3. QED
      BY <3>1, <3>2, Zenon
  <2> HIDE DEF x, all, of, f
  <2>4. f[D].Count = all.n /\ f[D].Failed = x
    BY <1>3, <2>1
  <2>5. QED
    BY <2>2, <2>3, <2>4
<1>6. \A c \in {"graphql_reqs", "graphql_req_failed", "graphql_errors"} :
         f[c].Count = CountTotal(st, c) /\ f[c].Trues = TrueTotal(st, c)
  BY <1>4, Zenon DEF CountTotal, TrueTotal
<1>7. f[D].Count = TimedTotal(st) /\ f[D].Failed = FailedTotal(st)
  BY <1>5, Zenon DEF TimedTotal, FailedTotal
<1>8. QED
  BY <1>6, <1>7

\* How the checks of the store are listed.
LEMMA ChecksMerged ==
    ASSUME NEW st, NEW k \in DOMAIN st.names
    PROVE  LET c == mergeChecks(st)[k]
           IN  /\ DOMAIN mergeChecks(st) = DOMAIN st.names /\ c.name = st.names[k]
               /\ c.passes = SumFunction([v \in VUs |-> TallyOf(st, v, k).passes])
               /\ c.fails = SumFunction([v \in VUs |-> TallyOf(st, v, k).fails])
               /\ c.firstError = FirstMessage([v \in VUs |-> TallyOf(st, v, k).firstError])
<1> DEFINE of(i) == [name |-> st.names[i],
                     passes |-> SumFunction([v \in VUs |-> TallyOf(st, v, i).passes]),
                     fails |-> SumFunction([v \in VUs |-> TallyOf(st, v, i).fails]),
                     firstError |-> FirstMessage([v \in VUs |-> TallyOf(st, v, i).firstError])]
<1>1. mergeChecks(st) = [i \in DOMAIN st.names |-> of(i)]
  BY Zenon DEF mergeChecks, TallyOf
<1>2. mergeChecks(st)[k] = of(k) /\ DOMAIN mergeChecks(st) = DOMAIN st.names
  <2> HIDE DEF of
  <2>1. QED
    BY <1>1
<1>3. QED
  BY <1>2

\* A set has as many elements as a subset and the rest.
LEMMA CountSplit ==
    ASSUME NEW A, IsFiniteSet(A), NEW B \in SUBSET A
    PROVE  /\ Count(A) \in Nat /\ Count(B) \in Nat /\ Count(A \ B) \in Nat
           /\ Count(A) = Count(B) + Count(A \ B)
<1>1. IsFiniteSet(B) /\ IsFiniteSet(A \ B)
  BY FS_Subset
<1>2. Cardinality(A) \in Nat /\ Cardinality(B) \in Nat /\ Cardinality(A \ B) \in Nat
  BY <1>1, FS_CardinalityType
<1>3. Cardinality(A \ B) = Cardinality(A) - Cardinality(A \cap B) /\ A \cap B = B
  BY FS_Difference
<1>4. Cardinality(A \ B) = Cardinality(A) - Cardinality(B)
  BY <1>3
<1>5. QED
  BY <1>2, <1>4 DEF Count

\* What the report is about, in terms of the entries recorded.
LEMMA ReportedSets ==
    ASSUME WorkloadInv, report.over
    PROVE  /\ Sent = SentOf(First)
           /\ Succeeded = {i \in SentOf(First) : OK(First[i].op)}
           /\ Answered = {i \in SentOf(First) : First[i].op.proto # Blank}
           /\ Requests \ Sent = {i \in DOMAIN First : First[i].op.kind = "http" /\ ~First[i].op.sent}
           /\ Succeeded \subseteq Sent /\ Sent \subseteq Requests /\ IsFiniteSet(Requests)
           /\ {i \in Entries("iteration") : E(i).second} = {i \in DOMAIN Second : Second[i].op.kind = "iteration" /\ Second[i].good}
           /\ {i \in Entries("iteration") : E(i).op.err /\ E(i).first} =
                {i \in DOMAIN First : First[i].op.kind = "iteration" /\ First[i].op.err /\ First[i].good}
           /\ Operations = {i \in DOMAIN First : First[i].op.kind = "graphql" /\ First[i].good}
           /\ Transmitted = {i \in Operations : First[i].op.sent}
           /\ Wrong = {i \in Operations : Code(First[i].op) # Blank}
           /\ {i \in Entries("graphql") : E(i).op.errors /\ E(i).second} =
                {i \in DOMAIN Second : Second[i].op.kind = "graphql" /\ Second[i].good /\ Second[i].op.errors}
<1>1. /\ IsFiniteSet(EntriesOf(log)) /\ DOMAIN First = EntriesOf(log) /\ DOMAIN Second = EntriesOf(log)
      /\ \A i \in EntriesOf(log) :
           /\ i[1] \in VUs /\ E(i).op \in Ops /\ E(i).first \in BOOLEAN /\ E(i).second \in BOOLEAN
           /\ First[i].op = E(i).op /\ First[i].good = E(i).first
           /\ Second[i].op = E(i).op /\ Second[i].good = E(i).second
      /\ \A kind : Entries(kind) = {i \in EntriesOf(log) : E(i).op.kind = kind}
  BY AllRecorded
<1>2. \A i \in EntriesOf(log) : E(i).op.kind = "http" => E(i).op.sent \in BOOLEAN
  BY <1>1, OpsAre DEF Outcome
<1>3. Sent = SentOf(First)
  BY <1>1, <1>2 DEF Sent, Requests, SentOf
<1>4. Requests \ Sent = {i \in DOMAIN First : First[i].op.kind = "http" /\ ~First[i].op.sent}
  BY <1>1, <1>2 DEF Sent, Requests
<1>5. Sent \subseteq EntriesOf(log)
  BY <1>1 DEF Sent, Requests
<1>6. Succeeded = {i \in SentOf(First) : OK(First[i].op)}
  <2>1. \A i \in Sent : First[i].op = E(i).op
    BY <1>1, <1>5
  <2>2. QED
    BY <1>3, <2>1 DEF Succeeded, OK
<1>7. Answered = {i \in SentOf(First) : First[i].op.proto # Blank}
  <2>1. Answered = {i \in Sent : E(i).op.proto # Blank}
    BY Zenon DEF Answered, Blank
  <2>2. QED
    BY <1>1, <1>3, <1>5, <2>1
<1>8. IsFiniteSet(Requests)
  <2>1. Requests \subseteq EntriesOf(log)
    BY <1>1 DEF Requests
  <2>2. QED
    BY <1>1, <2>1, FS_Subset
<1>9. Succeeded \subseteq Sent /\ Sent \subseteq Requests
  BY DEF Succeeded, Sent
<1>10. /\ {i \in Entries("iteration") : E(i).second} = {i \in DOMAIN Second : Second[i].op.kind = "iteration" /\ Second[i].good}
       /\ {i \in Entries("iteration") : E(i).op.err /\ E(i).first} =
            {i \in DOMAIN First : First[i].op.kind = "iteration" /\ First[i].op.err /\ First[i].good}
  BY <1>1
<1>11. Operations = {i \in DOMAIN First : First[i].op.kind = "graphql" /\ First[i].good}
  BY <1>1 DEF Operations
<1>12. Operations \subseteq EntriesOf(log)
  BY <1>1, <1>11
<1>13. Transmitted = {i \in Operations : First[i].op.sent}
  BY <1>1, <1>12 DEF Transmitted
<1>14. Wrong = {i \in Operations : Code(First[i].op) # Blank}
  <2>1. Wrong = {i \in Operations : Code(E(i).op) # Blank}
    BY Zenon DEF Wrong, Blank
  <2>2. \A i \in Operations : First[i].op = E(i).op
    BY <1>1, <1>12
  <2>3. QED
    BY <2>1, <2>2
<1>15. {i \in Entries("graphql") : E(i).op.errors /\ E(i).second} =
         {i \in DOMAIN Second : Second[i].op.kind = "graphql" /\ Second[i].good /\ Second[i].op.errors}
  BY <1>1
<1>16. QED
  BY <1>3, <1>4, <1>6, <1>7, <1>8, <1>9, <1>10, <1>11, <1>13, <1>14, <1>15

\* The answers by protocols p, the answers of status class c and the runs of a check.
ByProtos(h, p)           == {i \in SentOf(h) : h[i].op.proto # Blank /\ h[i].op.proto \in p}
ByStatus(h, c)           == {i \in SentOf(h) : h[i].op.proto # Blank /\ StatusClass(h[i].op.status) = c}
RunsIn(h, name, results) == {i \in DOMAIN h : /\ h[i].op.kind = "check" /\ h[i].op.name = name
                                              /\ h[i].op.result \in results}

\* How many answers by protocols p each VU has had, and how often each VU ran a check.
ProtoCounts(h, p)           == [v \in VUs |-> Count(ProtoOf(h, v, p))]
RunCounts(h, name, results) == [v \in VUs |-> Count(RunsOf(h, v, name, results))]

\* What the recorders' counters of VUs add up to.
LEMMA ByVU ==
    ASSUME NEW h, IsFiniteSet(DOMAIN h), \A i \in DOMAIN h : i[1] \in VUs
    PROVE  /\ SumFunction([v \in VUs |-> Count(UnsentOf(h, v))]) =
                Count({i \in DOMAIN h : h[i].op.kind = "http" /\ ~h[i].op.sent})
           /\ \A p : SumFunction(ProtoCounts(h, p)) = Count(ByProtos(h, p))
           /\ SumFunction([v \in VUs |-> Count(IterationsOf(h, v))]) =
                Count({i \in DOMAIN h : h[i].op.kind = "iteration" /\ h[i].good})
           /\ SumFunction([v \in VUs |-> Count(ErrorsOf(h, v))]) =
                Count({i \in DOMAIN h : h[i].op.kind = "iteration" /\ h[i].op.err /\ h[i].good})
<1> DEFINE Of(A, v) == {i \in A : i[1] = v}
<1>1. ASSUME NEW A \in SUBSET DOMAIN h
      PROVE  SumFunction([v \in VUs |-> Count(Of(A, v))]) = Count(A)
  <2> DEFINE P == [v \in VUs |-> Of(A, v)]
  <2>1. IsFiniteSet(VUs) /\ IsFiniteSet(A)
    BY ShardsTyped, FS_Subset
  <2>2. /\ \A v \in VUs : P[v] \in SUBSET A
        /\ \A a \in A : \E v \in VUs : a \in P[v]
        /\ \A v, w \in VUs : \A a \in A : a \in P[v] /\ a \in P[w] => v = w
    OBVIOUS
  <2>3. PartCounts(VUs, P) = [v \in VUs |-> Count(Of(A, v))]
    BY Zenon DEF PartCounts
  <2> HIDE DEF P
  <2>4. SumFunction(PartCounts(VUs, P)) = Count(A)
    BY <2>1, <2>2, PartsCounted
  <2>5. QED
    BY <2>3, <2>4, Zenon
<1>2. SumFunction([v \in VUs |-> Count(UnsentOf(h, v))]) =
        Count({i \in DOMAIN h : h[i].op.kind = "http" /\ ~h[i].op.sent})
  <2> DEFINE A == {i \in DOMAIN h : h[i].op.kind = "http" /\ ~h[i].op.sent}
  <2>1. \A v : UnsentOf(h, v) = Of(A, v)
    BY DEF UnsentOf
  <2>2. A \in SUBSET DOMAIN h
    OBVIOUS
  <2> HIDE DEF Of, A
  <2>3. SumFunction([v \in VUs |-> Count(Of(A, v))]) = Count(A)
    BY <1>1, <2>2
  <2>4. QED
    BY <2>1, <2>3 DEF A
<1>3. ASSUME NEW p
      PROVE  SumFunction(ProtoCounts(h, p)) = Count(ByProtos(h, p))
  <2> DEFINE A == ByProtos(h, p)
  <2>1. \A v : ProtoOf(h, v, p) = Of(A, v)
    BY DEF ProtoOf, ByProtos
  <2>2. A \in SUBSET DOMAIN h
    BY DEF SentOf, ByProtos
  <2> HIDE DEF Of, A
  <2>3. SumFunction([v \in VUs |-> Count(Of(A, v))]) = Count(A)
    BY <1>1, <2>2
  <2>4. QED
    BY <2>1, <2>3 DEF A, ProtoCounts
<1>4. SumFunction([v \in VUs |-> Count(IterationsOf(h, v))]) =
        Count({i \in DOMAIN h : h[i].op.kind = "iteration" /\ h[i].good})
  <2> DEFINE A == {i \in DOMAIN h : h[i].op.kind = "iteration" /\ h[i].good}
  <2>1. \A v : IterationsOf(h, v) = Of(A, v)
    BY DEF IterationsOf
  <2>2. A \in SUBSET DOMAIN h
    OBVIOUS
  <2> HIDE DEF Of, A
  <2>3. SumFunction([v \in VUs |-> Count(Of(A, v))]) = Count(A)
    BY <1>1, <2>2
  <2>4. QED
    BY <2>1, <2>3 DEF A
<1>5. SumFunction([v \in VUs |-> Count(ErrorsOf(h, v))]) =
        Count({i \in DOMAIN h : h[i].op.kind = "iteration" /\ h[i].op.err /\ h[i].good})
  <2> DEFINE A == {i \in DOMAIN h : h[i].op.kind = "iteration" /\ h[i].op.err /\ h[i].good}
  <2>1. \A v : ErrorsOf(h, v) = Of(A, v)
    BY DEF ErrorsOf
  <2>2. A \in SUBSET DOMAIN h
    OBVIOUS
  <2> HIDE DEF Of, A
  <2>3. SumFunction([v \in VUs |-> Count(Of(A, v))]) = Count(A)
    BY <1>1, <2>2
  <2>4. QED
    BY <2>1, <2>3 DEF A
<1>6. QED
  BY <1>2, <1>3, <1>4, <1>5

\* Likewise the runs of a check.
LEMMA RunsByVU ==
    ASSUME NEW h, IsFiniteSet(DOMAIN h), \A i \in DOMAIN h : i[1] \in VUs, NEW name, NEW results
    PROVE  SumFunction(RunCounts(h, name, results)) = Count(RunsIn(h, name, results))
<1> DEFINE A == RunsIn(h, name, results)
           P == [v \in VUs |-> RunsOf(h, v, name, results)]
<1>1. IsFiniteSet(VUs) /\ IsFiniteSet(A)
  <2>1. A \subseteq DOMAIN h
    BY DEF RunsIn
  <2>2. QED
    BY <2>1, ShardsTyped, FS_Subset
<1>2. /\ \A v \in VUs : P[v] \in SUBSET A
      /\ \A a \in A : a[1] \in VUs /\ a \in P[a[1]]
      /\ \A v, w \in VUs : \A a \in A : a \in P[v] /\ a \in P[w] => v = w
  BY DEF RunsIn, RunsOf
<1>3. PartCounts(VUs, P) = RunCounts(h, name, results)
  BY Zenon DEF PartCounts, RunCounts
<1> HIDE DEF P, A
<1>4. SumFunction(PartCounts(VUs, P)) = Count(A)
  BY <1>1, <1>2, PartsCounted
<1>5. QED
  BY <1>3, <1>4, Zenon DEF A

\* How many elements of B each shard has, of m shards at gives them; and how many of
\* B and of the rest of A, one after the other.
ShardCounts(m, B, at) == [j \in 0..(m - 1) |-> Count({a \in B : at[a] = j})]
HalfCounts(m, B, at)  == [k \in 1..m |-> Count({a \in B : at[a] = k - 1})]
BothCounts(m, A, B, at) ==
    [k \in 1..(m + m) |-> IF k <= m THEN Count({a \in B : at[a] = k - 1}) ELSE Count({a \in A \ B : at[a] = k - m - 1})]

\* The shards have all elements of B,
LEMMA HalvesCounted ==
    ASSUME NEW m \in Nat, NEW A, IsFiniteSet(A), NEW B \in SUBSET A, NEW at, \A a \in A : at[a] \in 0..(m - 1)
    PROVE  /\ SumFunction(HalfCounts(m, B, at)) = Count(B)
           /\ SumFunction(ShardCounts(m, B, at)) = Count(B)
<1>1. IsFiniteSet(B) /\ IsFiniteSet(1..m) /\ IsFiniteSet(0..(m - 1)) /\ IsFiniteSet(1..(m + m))
  <2>1. IsFiniteSet(B)
    BY FS_Subset
  <2>2. \A a, b \in Int : IsFiniteSet(a..b)
    BY FS_Interval
  <2>3. m - 1 \in Int /\ m + m \in Int /\ m \in Int
    OBVIOUS
  <2>4. QED
    BY <2>1, <2>2, <2>3
<1>2. SumFunction(HalfCounts(m, B, at)) = Count(B)
  <2> DEFINE J == 1..m
             P == [k \in 1..m |-> {a \in B : at[a] = k - 1}]
  <2>1. /\ \A k \in J : P[k] \in SUBSET B
        /\ \A a \in B : at[a] + 1 \in 1..m /\ a \in P[at[a] + 1]
        /\ \A j, k \in J : \A a \in B : a \in P[j] /\ a \in P[k] => j = k
    OBVIOUS
  <2>2. PartCounts(J, P) = HalfCounts(m, B, at)
    BY Zenon DEF HalfCounts, PartCounts
  <2>0. IsFiniteSet(J) /\ \A a \in B : at[a] + 1 \in J
    BY <1>1, <2>1
  <2> HIDE DEF P, J
  <2>3. SumFunction(PartCounts(J, P)) = Count(B)
    BY <1>1, <2>0, <2>1, PartsCounted
  <2>4. QED
    BY <2>2, <2>3, Zenon
<1>3. SumFunction(ShardCounts(m, B, at)) = Count(B)
  <2> DEFINE J == 0..(m - 1)
             P == [j \in 0..(m - 1) |-> {a \in B : at[a] = j}]
  <2>1. /\ \A j \in J : P[j] \in SUBSET B
        /\ \A a \in B : at[a] \in 0..(m - 1) /\ a \in P[at[a]]
        /\ \A j, k \in J : \A a \in B : a \in P[j] /\ a \in P[k] => j = k
    OBVIOUS
  <2>2. PartCounts(J, P) = ShardCounts(m, B, at)
    BY Zenon DEF ShardCounts, PartCounts
  <2>0. IsFiniteSet(J) /\ \A a \in B : at[a] \in J
    BY <1>1, <2>1
  <2> HIDE DEF P, J
  <2>3. SumFunction(PartCounts(J, P)) = Count(B)
    BY <1>1, <2>0, <2>1, PartsCounted
  <2>4. QED
    BY <2>2, <2>3, Zenon
<1>4. QED
  BY <1>2, <1>3

\* and B and the rest of A together all of A.
LEMMA BothCounted ==
    ASSUME NEW m \in Nat, NEW A, IsFiniteSet(A), NEW B \in SUBSET A, NEW at, \A a \in A : at[a] \in 0..(m - 1)
    PROVE  SumFunction(BothCounts(m, A, B, at)) = Count(A)
<1>1. IsFiniteSet(B) /\ IsFiniteSet(1..m) /\ IsFiniteSet(0..(m - 1)) /\ IsFiniteSet(1..(m + m))
  <2>1. IsFiniteSet(B)
    BY FS_Subset
  <2>2. \A a, b \in Int : IsFiniteSet(a..b)
    BY FS_Interval
  <2>3. m - 1 \in Int /\ m + m \in Int /\ m \in Int
    OBVIOUS
  <2>4. QED
    BY <2>1, <2>2, <2>3
<1>2. SumFunction(BothCounts(m, A, B, at)) = Count(A)
  <2> DEFINE J == 1..(m + m)
             L(k) == {a \in B : at[a] = k - 1}
             R(k) == {a \in A \ B : at[a] = k - m - 1}
             P == [k \in 1..(m + m) |-> IF k <= m THEN L(k) ELSE R(k)]
  <2>1. \A k \in J : P[k] \in SUBSET A
    OBVIOUS
  <2>2. ASSUME NEW a \in A
        PROVE  \E k \in J : a \in P[k]
    <3>1. CASE a \in B
      <4>1. at[a] + 1 \in 1..(m + m) /\ at[a] + 1 <= m /\ a \in P[at[a] + 1]
        BY <3>1
      <4>2. QED
        BY <4>1
    <3>2. CASE a \notin B
      <4>1. at[a] + 1 + m \in 1..(m + m) /\ ~(at[a] + 1 + m <= m) /\ (at[a] + 1 + m) - m - 1 = at[a]
        OBVIOUS
      <4>2. a \in P[at[a] + 1 + m]
        BY <3>2, <4>1
      <4>3. QED
        BY <4>1, <4>2
    <3>3. QED
      BY <3>1, <3>2
  <2>3. ASSUME NEW j \in J, NEW k \in J, NEW a \in A, a \in P[j], a \in P[k]
        PROVE  j = k
    <3>1. at[a] \in Int
      OBVIOUS
    <3>2. CASE a \in B
      <4>1. j <= m /\ k <= m /\ at[a] = j - 1 /\ at[a] = k - 1
        BY <2>3, <3>2
      <4>2. QED
        BY <3>1, <4>1
    <3>3. CASE a \notin B
      <4>1. ~(j <= m) /\ ~(k <= m) /\ at[a] = j - m - 1 /\ at[a] = k - m - 1
        BY <2>3, <3>3
      <4>2. QED
        BY <3>1, <4>1
    <3>4. QED
      BY <3>2, <3>3
  <2>4. PartCounts(J, P) = BothCounts(m, A, B, at)
    <3>1. [k \in J |-> Count(P[k])] = [k \in J |-> IF k <= m THEN Count(L(k)) ELSE Count(R(k))]
      <4> HIDE DEF L, R
      <4>1. QED
        OBVIOUS
    <3>2. [k \in J |-> IF k <= m THEN Count(L(k)) ELSE Count(R(k))] = BothCounts(m, A, B, at)
      BY Zenon DEF BothCounts
    <3>3. QED
      BY <3>1, <3>2, Zenon DEF PartCounts
  <2>0. IsFiniteSet(J)
    BY <1>1
  <2> HIDE DEF P, J
  <2>5. SumFunction(PartCounts(J, P)) = Count(A)
    BY <1>1, <2>0, <2>1, <2>2, <2>3, PartsCounted
  <2>6. QED
    BY <2>4, <2>5, Zenon
<1>3. QED
  BY <1>2

\* How many answers of status class c each shard has.
StatusCounts(m, h, c) == [k \in 1..m |-> Count(StatusIn(h, k - 1, c))]

\* What the shards' counters of HTTP requests add up to.
LEMMA ByShard ==
    ASSUME NEW h, IsFiniteSet(DOMAIN h), \A i \in DOMAIN h : i[1] \in VUs,
           NEW m \in Nat \ {0}, HTTPShards = 0..(m - 1)
    PROVE  /\ SumFunction([k \in 1..m |-> Count(GoodIn(h, k - 1))]) = Count({i \in SentOf(h) : OK(h[i].op)})
           /\ SumFunction([k \in 1..(m + m) |-> IF k <= m THEN Count(GoodIn(h, k - 1)) ELSE Count(BadIn(h, k - m - 1))])
                = Count(SentOf(h))
           /\ \A c : SumFunction(StatusCounts(m, h, c)) = Count(ByStatus(h, c))
<1> DEFINE A == SentOf(h)
           at == [i \in A |-> ShardOf(i[1])]
           B == {i \in A : OK(h[i].op)}
           S(c) == ByStatus(h, c)
<1>1. A \subseteq DOMAIN h
  BY DEF SentOf
<1>2. IsFiniteSet(A) /\ \A a \in A : at[a] \in 0..(m - 1)
  BY <1>1, FS_Subset, ShardsTyped
<1>3. B \in SUBSET A /\ \A c : S(c) \in SUBSET A
  BY DEF ByStatus
<1>4. \A j : /\ GoodIn(h, j) = {a \in B : at[a] = j} /\ BadIn(h, j) = {a \in A \ B : at[a] = j}
             /\ \A c : StatusIn(h, j, c) = {a \in S(c) : at[a] = j}
  BY DEF GoodIn, BadIn, StatusIn, ByStatus
<1> HIDE DEF A, at, B, S
<1>5. SumFunction([k \in 1..m |-> Count(GoodIn(h, k - 1))]) = Count(B)
  <2>1. SumFunction(HalfCounts(m, B, at)) = Count(B)
    BY <1>2, <1>3, HalvesCounted
  <2>2. HalfCounts(m, B, at) = [k \in 1..m |-> Count(GoodIn(h, k - 1))]
    BY <1>4 DEF HalfCounts
  <2>3. QED
    BY <2>1, <2>2, Zenon
<1>6. SumFunction([k \in 1..(m + m) |-> IF k <= m THEN Count(GoodIn(h, k - 1)) ELSE Count(BadIn(h, k - m - 1))]) = Count(A)
  <2>1. SumFunction(BothCounts(m, A, B, at)) = Count(A)
    BY <1>2, <1>3, BothCounted
  <2>2. BothCounts(m, A, B, at) = [k \in 1..(m + m) |-> IF k <= m THEN Count(GoodIn(h, k - 1))
                                                        ELSE Count(BadIn(h, k - m - 1))]
    BY <1>4 DEF BothCounts
  <2>3. QED
    BY <2>1, <2>2, Zenon
<1>7. ASSUME NEW c
      PROVE  SumFunction(StatusCounts(m, h, c)) = Count(S(c))
  <2>1. SumFunction(HalfCounts(m, S(c), at)) = Count(S(c))
    BY <1>2, <1>3, HalvesCounted
  <2> DEFINE Sc == S(c)
  <2>0. \A j : StatusIn(h, j, c) = {a \in Sc : at[a] = j}
    BY <1>4
  <2> HIDE DEF Sc
  <2>2. HalfCounts(m, Sc, at) = StatusCounts(m, h, c)
    BY <2>0 DEF HalfCounts, StatusCounts
  <2>3. QED
    BY <2>1, <2>2, Zenon DEF Sc
<1>8. QED
  BY <1>5, <1>6, <1>7 DEF A, B, S

\* What the shards of the families add up to.
LEMMA ByFamilyShard ==
    ASSUME NEW h, IsFiniteSet(DOMAIN h), \A i \in DOMAIN h : i[1] \in VUs
    PROVE  LET A == {i \in DOMAIN h : h[i].op.kind = "graphql" /\ h[i].good}
           IN  /\ SumFunction([j \in FamShards |-> Count(OpsIn(h, j))]) = Count(A)
               /\ SumFunction([j \in FamShards |-> Count(WrongIn(h, j))]) = Count({i \in A : Code(h[i].op) # Blank})
               /\ SumFunction([j \in FamShards |-> Count(TimedWrongIn(h, j))]) =
                    Count({i \in A : h[i].op.sent /\ Code(h[i].op) # Blank})
               /\ SumFunction([k \in 1..(NumShards + NumShards) |->
                                 IF k <= NumShards THEN Count(TimedIn(h, k - 1))
                                 ELSE Count(TimedWrongIn(h, k - NumShards - 1))]) = Count({i \in A : h[i].op.sent})
               /\ SumFunction([j \in FamShards |-> Count(AnswersIn(h, j))]) = Count({i \in A : h[i].op.errors})
<1> DEFINE A == {i \in DOMAIN h : h[i].op.kind = "graphql" /\ h[i].good}
           at == [i \in A |-> FamShard(i[1])]
           W == {i \in A : Code(h[i].op) # Blank}
           T == {i \in A : h[i].op.sent}
           TW == {i \in A : h[i].op.sent /\ Code(h[i].op) # Blank}
           TR == {i \in A : h[i].op.sent /\ Code(h[i].op) = Blank}
           X == {i \in A : h[i].op.errors}
<1>1. IsFiniteSet(A) /\ NumShards \in Nat /\ FamShards = 0..(NumShards - 1)
  <2>1. A \subseteq DOMAIN h
    OBVIOUS
  <2>2. QED
    BY <2>1, FS_Subset, StoreAssumption DEF FamShards
<1>2. \A a \in A : at[a] \in 0..(NumShards - 1)
  BY <1>1, ShardsTyped
<1>3. A \in SUBSET A /\ W \in SUBSET A /\ TW \in SUBSET A /\ X \in SUBSET A /\ T \in SUBSET A /\ TR \in SUBSET T
  OBVIOUS
<1>4. T \ TR = TW
  OBVIOUS
<1>5. \A j : /\ OpsIn(h, j) = {a \in A : at[a] = j} /\ WrongIn(h, j) = {a \in W : at[a] = j}
             /\ TimedIn(h, j) = {a \in TR : at[a] = j} /\ TimedWrongIn(h, j) = {a \in TW : at[a] = j}
             /\ AnswersIn(h, j) = {a \in X : at[a] = j}
  BY DEF OpsIn, WrongIn, TimedIn, TimedWrongIn, AnswersIn
<1>6. IsFiniteSet(T) /\ \A a \in T : at[a] \in 0..(NumShards - 1)
  BY <1>1, <1>2, <1>3, FS_Subset
<1> HIDE DEF A, at, W, T, TW, TR, X
<1>7. ASSUME NEW B \in SUBSET A
      PROVE  SumFunction(ShardCounts(NumShards, B, at)) = Count(B)
  BY <1>1, <1>2, HalvesCounted
<1>8. /\ SumFunction([j \in FamShards |-> Count(OpsIn(h, j))]) = Count(A)
      /\ SumFunction([j \in FamShards |-> Count(WrongIn(h, j))]) = Count(W)
      /\ SumFunction([j \in FamShards |-> Count(TimedWrongIn(h, j))]) = Count(TW)
      /\ SumFunction([j \in FamShards |-> Count(AnswersIn(h, j))]) = Count(X)
  <2>1. /\ ShardCounts(NumShards, A, at) = [j \in FamShards |-> Count(OpsIn(h, j))]
        /\ ShardCounts(NumShards, W, at) = [j \in FamShards |-> Count(WrongIn(h, j))]
        /\ ShardCounts(NumShards, TW, at) = [j \in FamShards |-> Count(TimedWrongIn(h, j))]
        /\ ShardCounts(NumShards, X, at) = [j \in FamShards |-> Count(AnswersIn(h, j))]
    BY <1>1, <1>5, Zenon DEF ShardCounts
  <2>2. /\ SumFunction(ShardCounts(NumShards, A, at)) = Count(A)
        /\ SumFunction(ShardCounts(NumShards, W, at)) = Count(W)
        /\ SumFunction(ShardCounts(NumShards, TW, at)) = Count(TW)
        /\ SumFunction(ShardCounts(NumShards, X, at)) = Count(X)
    BY <1>3, <1>7
  <2>3. QED
    BY <2>1, <2>2, Zenon
<1>9. SumFunction([k \in 1..(NumShards + NumShards) |->
                     IF k <= NumShards THEN Count(TimedIn(h, k - 1))
                     ELSE Count(TimedWrongIn(h, k - NumShards - 1))]) = Count(T)
  <2>1. SumFunction(BothCounts(NumShards, T, TR, at)) = Count(T)
    BY <1>1, <1>3, <1>6, BothCounted
  <2>2. BothCounts(NumShards, T, TR, at) = [k \in 1..(NumShards + NumShards) |->
               IF k <= NumShards THEN Count(TimedIn(h, k - 1))
               ELSE Count(TimedWrongIn(h, k - NumShards - 1))]
    BY <1>4, <1>5, Zenon DEF BothCounts
  <2>3. QED
    BY <2>1, <2>2, Zenon
<1>10. QED
  BY <1>8, <1>9 DEF A, W, T, TW, X

\* The report is that of the store, whose counters stand for the whole history.
LEMMA WhatIsReported ==
    ASSUME WorkloadInv, report.over
    PROVE  /\ report.summary = Merge(store) /\ report.families = Summarize(store)
           /\ store \in StoreType /\ FamiliesTyped(store)
           /\ StoreMatches(store, First, Second, order)
           /\ IsFiniteSet(DOMAIN First) /\ \A i \in DOMAIN First : i[1] \in VUs
           /\ IsFiniteSet(DOMAIN Second) /\ \A i \in DOMAIN Second : i[1] \in VUs
<1>1. report.summary = Merge(store) /\ report.families = Summarize(store)
  BY DEF WorkloadInv, StoreReported
<1>2. store \in StoreType /\ FamiliesTyped(store) /\ StoreMatches(store, First, Second, order)
  BY DEF WorkloadInv, WorkloadTypeOK
<1>3. /\ IsFiniteSet(DOMAIN First) /\ \A i \in DOMAIN First : i[1] \in VUs
      /\ IsFiniteSet(DOMAIN Second) /\ \A i \in DOMAIN Second : i[1] \in VUs
  BY AllRecorded
<1>4. QED
  BY <1>1, <1>2, <1>3

\* Every HTTP request is in the summary once, except those cut short.
LEMMA RequestsCounted ==
    ASSUME WorkloadInv, report.over
    PROVE  RequestsExact(report.summary)
<1> DEFINE s == report.summary
<1>1. PICK m \in Nat \ {0} : HTTPShards = 0..(m - 1) /\ Cardinality(HTTPShards) = m
  BY ShardsTyped
<1>2. /\ s = Merge(store) /\ store \in StoreType /\ RequestsMatch(store, First)
      /\ IsFiniteSet(DOMAIN First) /\ \A i \in DOMAIN First : i[1] \in VUs
  BY WhatIsReported DEF StoreMatches
<1>3. /\ Sent = SentOf(First) /\ Succeeded = {i \in SentOf(First) : OK(First[i].op)}
      /\ Answered = {i \in SentOf(First) : First[i].op.proto # Blank}
      /\ Requests \ Sent = {i \in DOMAIN First : First[i].op.kind = "http" /\ ~First[i].op.sent}
      /\ Succeeded \subseteq Sent /\ Sent \subseteq Requests /\ IsFiniteSet(Requests)
  BY ReportedSets, Zenon
<1>4. \A i \in Answered : First[i].op = E(i).op
  <2>1. \A i \in DOMAIN First : First[i].op = E(i).op
    BY AllRecorded
  <2>2. QED
    BY <1>3, <2>1 DEF SentOf
<1> DEFINE good == GoodTotal(store, m)
           sent == SentTotal(store, m)
           unsent == UnsentTotal(store)
<1>5. good = Count(Succeeded)
  <2>1. \A k \in 1..m : store.shards[k - 1].ok.n = Count(GoodIn(First, k - 1))
    BY <1>1, <1>2 DEF RequestsMatch
  <2>2. [k \in 1..m |-> store.shards[k - 1].ok.n] = [k \in 1..m |-> Count(GoodIn(First, k - 1))]
    BY <2>1
  <2>3. SumFunction([k \in 1..m |-> Count(GoodIn(First, k - 1))]) = Count({i \in SentOf(First) : OK(First[i].op)})
    BY <1>1, <1>2, ByShard
  <2>4. QED
    BY <1>3, <2>2, <2>3, Zenon DEF GoodTotal
<1>6. sent = Count(Sent)
  <2>1. \A k \in 1..(m + m) : (IF k <= m THEN store.shards[k - 1].ok.n ELSE store.shards[k - m - 1].failed.n)
                              = (IF k <= m THEN Count(GoodIn(First, k - 1)) ELSE Count(BadIn(First, k - m - 1)))
    <3>1. ASSUME NEW k \in 1..(m + m), k <= m
          PROVE  store.shards[k - 1].ok.n = Count(GoodIn(First, k - 1))
      BY <1>1, <1>2, <3>1 DEF RequestsMatch
    <3>2. ASSUME NEW k \in 1..(m + m), ~(k <= m)
          PROVE  store.shards[k - m - 1].failed.n = Count(BadIn(First, k - m - 1))
      BY <1>1, <1>2, <3>2 DEF RequestsMatch
    <3>3. QED
      BY <3>1, <3>2
  <2>2. [k \in 1..(m + m) |-> IF k <= m THEN store.shards[k - 1].ok.n ELSE store.shards[k - m - 1].failed.n]
        = [k \in 1..(m + m) |-> IF k <= m THEN Count(GoodIn(First, k - 1)) ELSE Count(BadIn(First, k - m - 1))]
    BY <2>1
  <2>3. SumFunction([k \in 1..(m + m) |-> IF k <= m THEN Count(GoodIn(First, k - 1)) ELSE Count(BadIn(First, k - m - 1))])
        = Count(SentOf(First))
    BY <1>1, <1>2, ByShard
  <2>4. QED
    BY <1>3, <2>2, <2>3, Zenon DEF SentTotal
<1>7. unsent = Count(Requests \ Sent)
  <2>1. \A v \in VUs : store.recs[v].unsent = Count(UnsentOf(First, v))
    BY <1>2 DEF RequestsMatch
  <2>2. [v \in VUs |-> store.recs[v].unsent] = [v \in VUs |-> Count(UnsentOf(First, v))]
    BY <2>1
  <2>3. SumFunction([v \in VUs |-> Count(UnsentOf(First, v))])
        = Count({i \in DOMAIN First : First[i].op.kind = "http" /\ ~First[i].op.sent})
    BY <1>2, ByVU
  <2>4. QED
    BY <1>3, <2>2, <2>3, Zenon DEF UnsentTotal
<1>8. /\ s.Requests = good + (unsent + (sent - good)) /\ s.Successes = good
      /\ s.Failures = unsent + (sent - good) /\ s.Sent = sent
  BY <1>1, <1>2, MergeIs
<1>9. /\ s.Requests = Count(Requests) /\ s.Sent = Count(Sent)
      /\ s.Successes = Count(Succeeded) /\ s.Failures = Count(Requests \ Succeeded)
  <2> DEFINE r == Count(Requests)
             t == Count(Sent)
             g == Count(Succeeded)
             u == Count(Requests \ Sent)
             f == Count(Requests \ Succeeded)
  <2>1. IsFiniteSet(Sent) /\ Succeeded \subseteq Requests
    BY <1>3, FS_Subset
  <2>2. r \in Nat /\ t \in Nat /\ u \in Nat /\ r = t + u
    BY <1>3, CountSplit
  <2>3. g \in Nat /\ f \in Nat /\ r = g + f
    BY <1>3, <2>1, CountSplit
  <2>4. good = g /\ sent = t /\ unsent = u
    BY <1>5, <1>6, <1>7, Zenon
  <2> HIDE DEF r, t, g, u, f, good, sent, unsent, s
  <2>5. s.Requests = r /\ s.Sent = t /\ s.Successes = g /\ s.Failures = f
    BY <1>8, <2>2, <2>3, <2>4
  <2>6. QED
    BY <2>5, Zenon DEF r, t, g, f
<1>10. ASSUME NEW c \in Statuses
       PROVE  s.StatusCodes[StatusClass(c)] = Count({i \in Answered : StatusClass(E(i).op.status) = StatusClass(c)})
  <2> DEFINE d == StatusClass(c)
             answers == ByStatus(First, d)
  <2>1. d \in Statuses \union {0}
    BY ClassTyped
  <2>2. s.StatusCodes[d] = StatusTotal(store, m, d)
    <3> HIDE DEF d
    <3>1. QED
      BY <1>1, <1>2, <2>1, MergeIs
  <2>3. \A k \in 1..m : store.shards[k - 1].statuses[d] = Count(StatusIn(First, k - 1, d))
    <3> HIDE DEF d
    <3>1. QED
      BY <1>1, <1>2, <2>1 DEF RequestsMatch
  <2>4. [k \in 1..m |-> store.shards[k - 1].statuses[d]] = StatusCounts(m, First, d)
    <3> HIDE DEF d
    <3>1. QED
      BY <2>3 DEF StatusCounts
  <2>5. SumFunction(StatusCounts(m, First, d)) = Count(answers)
    BY <1>1, <1>2, ByShard
  <2>6. answers = {i \in Answered : StatusClass(E(i).op.status) = d}
    BY <1>3, <1>4 DEF ByStatus
  <2>7. QED
    BY <2>2, <2>4, <2>5, <2>6, Zenon DEF StatusTotal
<1>11. /\ s.Protocols["HTTP2"] = Count({i \in Answered : E(i).op.proto = "HTTP/2.0"})
       /\ s.Protocols["HTTP1"] = Count({i \in Answered : E(i).op.proto \in {"HTTP/1.1", "HTTP/1.0"}})
  <2>1. ASSUME NEW k, NEW p, \A v \in VUs : store.recs[v].protocols[k] = Count(ProtoOf(First, v, p))
        PROVE  SumFunction([v \in VUs |-> store.recs[v].protocols[k]])
               = Count(ByProtos(First, p))
    <3>1. [v \in VUs |-> store.recs[v].protocols[k]] = ProtoCounts(First, p)
      BY <2>1 DEF ProtoCounts
    <3>2. SumFunction(ProtoCounts(First, p))
          = Count(ByProtos(First, p))
      BY <1>2, ByVU
    <3>3. QED
      BY <3>1, <3>2, Zenon
  <2>2. /\ \A v \in VUs : store.recs[v].protocols["HTTP2"] = Count(ProtoOf(First, v, HTTP2))
        /\ \A v \in VUs : store.recs[v].protocols["HTTP1"] = Count(ProtoOf(First, v, HTTP1))
    BY <1>2 DEF RequestsMatch
  <2>3. /\ s.Protocols["HTTP2"] = SumFunction([v \in VUs |-> store.recs[v].protocols["HTTP2"]])
        /\ s.Protocols["HTTP1"] = SumFunction([v \in VUs |-> store.recs[v].protocols["HTTP1"]])
    BY <1>1, <1>2, MergeIs
  <2>4. ByProtos(First, HTTP2)
        = {i \in Answered : E(i).op.proto = "HTTP/2.0"}
    BY <1>3, <1>4 DEF HTTP2, ByProtos
  <2>5. ByProtos(First, HTTP1)
        = {i \in Answered : E(i).op.proto \in {"HTTP/1.1", "HTTP/1.0"}}
    BY <1>3, <1>4 DEF HTTP1, ByProtos
  <2>6. /\ SumFunction([v \in VUs |-> store.recs[v].protocols["HTTP2"]])
           = Count(ByProtos(First, HTTP2))
        /\ SumFunction([v \in VUs |-> store.recs[v].protocols["HTTP1"]])
           = Count(ByProtos(First, HTTP1))
    BY <2>1, <2>2
  <2>7. QED
    BY <2>3, <2>4, <2>5, <2>6, Zenon
<1>12. QED
  BY <1>9, <1>10, <1>11, Zenon DEF RequestsExact

\* Only the empty set has none.
LEMMA CountZero ==
    ASSUME NEW A, IsFiniteSet(A)
    PROVE  Count(A) = 0 <=> A = {}
  BY FS_EmptySet, Zenon DEF Count

\* Iterations and script errors count as long as the test goes on.
LEMMA IterationsCounted ==
    ASSUME WorkloadInv, report.over
    PROVE  IterationsExact(report.summary)
<1> DEFINE s == report.summary
           ran == {i \in DOMAIN Second : Second[i].op.kind = "iteration" /\ Second[i].good}
           erred == {i \in DOMAIN First : First[i].op.kind = "iteration" /\ First[i].op.err /\ First[i].good}
           msg == [v \in VUs |-> store.recs[v].firstScriptError]
<1>1. PICK m \in Nat \ {0} : HTTPShards = 0..(m - 1) /\ Cardinality(HTTPShards) = m
  BY ShardsTyped
<1>2. /\ s = Merge(store) /\ store \in StoreType /\ ErrorsMatch(store, First) /\ IterationsMatch(store, Second)
      /\ IsFiniteSet(DOMAIN First) /\ \A i \in DOMAIN First : i[1] \in VUs
      /\ IsFiniteSet(DOMAIN Second) /\ \A i \in DOMAIN Second : i[1] \in VUs
  BY WhatIsReported DEF StoreMatches
<1>3. /\ s.ScriptErrors = SumFunction([v \in VUs |-> store.recs[v].scriptErrors])
      /\ s.FirstScriptError = FirstMessage(msg)
      /\ s.Iterations = SumFunction([v \in VUs |-> store.recs[v].iterations])
  BY <1>1, <1>2, MergeIs
<1>4. s.Iterations = Count(ran)
  <2>1. [v \in VUs |-> store.recs[v].iterations] = [v \in VUs |-> Count(IterationsOf(Second, v))]
    BY <1>2 DEF IterationsMatch
  <2>2. SumFunction([v \in VUs |-> Count(IterationsOf(Second, v))]) = Count(ran)
    BY <1>2, ByVU
  <2>3. QED
    BY <1>3, <2>1, <2>2, Zenon
<1>5. s.ScriptErrors = Count(erred)
  <2>1. [v \in VUs |-> store.recs[v].scriptErrors] = [v \in VUs |-> Count(ErrorsOf(First, v))]
    BY <1>2 DEF ErrorsMatch
  <2>2. SumFunction([v \in VUs |-> Count(ErrorsOf(First, v))]) = Count(erred)
    BY <1>2, ByVU
  <2>3. QED
    BY <1>3, <2>1, <2>2, Zenon
<1>6. Count(erred) = 0 <=> \A v \in VUs : Count(ErrorsOf(First, v)) = 0
  <2>1. erred \subseteq DOMAIN First /\ \A v \in VUs : ErrorsOf(First, v) \subseteq DOMAIN First
    BY DEF ErrorsOf
  <2>2. IsFiniteSet(erred) /\ \A v \in VUs : IsFiniteSet(ErrorsOf(First, v))
    BY <1>2, <2>1, FS_Subset
  <2>3. erred = {} <=> \A v \in VUs : ErrorsOf(First, v) = {}
    BY <1>2 DEF ErrorsOf
  <2> HIDE DEF erred
  <2>4. (Count(erred) = 0 <=> erred = {}) /\ \A v \in VUs : Count(ErrorsOf(First, v)) = 0 <=> ErrorsOf(First, v) = {}
    BY <2>2, CountZero
  <2>5. QED
    BY <2>3, <2>4
<1>7. \A v \in VUs : msg[v] = None <=> Count(ErrorsOf(First, v)) = 0
  BY <1>2 DEF ErrorsMatch
<1>8. (s.FirstScriptError = None) <=> (s.ScriptErrors = 0)
  <2> HIDE DEF msg, erred, s
  <2>1. (\A v \in VUs : msg[v] = None) => FirstMessage(msg) = None
    BY FirstMessageIs
  <2>2. (\E v \in VUs : msg[v] # None) => FirstMessage(msg) # None
    <3>1. (\E v \in VUs : msg[v] # None) => \E v \in VUs : msg[v] # None /\ FirstMessage(msg) = msg[v]
      BY FirstMessageIs
    <3>2. QED
      BY <3>1
  <2>3. QED
    BY <1>3, <1>5, <1>6, <1>7, <2>1, <2>2
<1>9. /\ {i \in Entries("iteration") : E(i).second} = ran
      /\ {i \in Entries("iteration") : E(i).op.err /\ E(i).first} = erred
  BY ReportedSets
<1>10. QED
  BY <1>4, <1>5, <1>8, <1>9, Zenon DEF IterationsExact

\* Every run of a check is counted in the slot of its name.
LEMMA ChecksCounted ==
    ASSUME WorkloadInv, report.over
    PROVE  ChecksExact(report.summary.Checks)
<1> DEFINE cs == report.summary.Checks
<1>1. PICK m \in Nat \ {0} : HTTPShards = 0..(m - 1) /\ Cardinality(HTTPShards) = m
  BY ShardsTyped
<1>2. /\ report.summary = Merge(store) /\ store \in StoreType
      /\ store.names = order /\ ChecksMatch(store, First, order)
      /\ IsFiniteSet(DOMAIN First) /\ \A i \in DOMAIN First : i[1] \in VUs
      /\ order \in Seq(CheckNames)
  BY WhatIsReported DEF StoreMatches, NamesMatch, WorkloadInv, WorkloadTypeOK
<1>3. cs = mergeChecks(store)
  BY <1>1, <1>2, MergeIs
<1>4. DOMAIN cs = DOMAIN order /\ \A k \in DOMAIN order : cs[k].name = order[k]
  <2>1. \A k \in DOMAIN store.names : DOMAIN mergeChecks(store) = DOMAIN store.names
                                      /\ mergeChecks(store)[k].name = store.names[k]
    BY ChecksMerged
  <2>2. DOMAIN mergeChecks(store) = DOMAIN store.names
    BY DEF mergeChecks
  <2>3. QED
    BY <1>2, <1>3, <2>1, <2>2
<1>5. [k \in DOMAIN cs |-> cs[k].name] = order
  <2>1. order = [k \in DOMAIN order |-> order[k]]
    BY <1>2
  <2>2. QED
    BY <1>4, <2>1
<1>6. \A name, results : CheckRuns(name, results) = RunsIn(First, name, results)
  <2>1. /\ DOMAIN First = EntriesOf(log) /\ \A i \in EntriesOf(log) : First[i].op = E(i).op
        /\ Entries("check") = {i \in EntriesOf(log) : E(i).op.kind = "check"}
    BY AllRecorded
  <2>2. QED
    BY <2>1 DEF CheckRuns, RunsIn
<1>7. ASSUME NEW k \in DOMAIN cs
      PROVE  LET thrown == CheckRuns(cs[k].name, {"throw"})
             IN  /\ cs[k].passes = Count(CheckRuns(cs[k].name, {"pass"}))
                 /\ cs[k].fails = Count(CheckRuns(cs[k].name, {"fail", "throw"}))
                 /\ IF thrown = {} THEN cs[k].firstError = None
                    ELSE cs[k].firstError \in {i[1] : i \in thrown}
  <2> DEFINE name == order[k]
             tally == [v \in VUs |-> TallyOf(store, v, k)]
             msg == [v \in VUs |-> TallyOf(store, v, k).firstError]
             thrown == RunsIn(First, name, {"throw"})
  <2>1. cs[k].name = name /\ k \in DOMAIN store.names
    BY <1>2, <1>4
  <2>2. \A v \in VUs : TallyMatches(TallyOf(store, v, k), First, v, name)
    BY <1>2, <2>1 DEF ChecksMatch
  <2>3. /\ cs[k].passes = SumFunction([v \in VUs |-> TallyOf(store, v, k).passes])
        /\ cs[k].fails = SumFunction([v \in VUs |-> TallyOf(store, v, k).fails])
        /\ cs[k].firstError = FirstMessage(msg)
    BY <1>3, <2>1, ChecksMerged
  <2> HIDE DEF cs
  <2>4. cs[k].passes = Count(RunsIn(First, name, {"pass"}))
    <3>1. [v \in VUs |-> TallyOf(store, v, k).passes] = RunCounts(First, name, {"pass"})
      BY <2>2 DEF TallyMatches, RunCounts
    <3>2. SumFunction(RunCounts(First, name, {"pass"})) = Count(RunsIn(First, name, {"pass"}))
      BY <1>2, RunsByVU
    <3>3. QED
      BY <2>3, <3>1, <3>2, Zenon
  <2>5. cs[k].fails = Count(RunsIn(First, name, {"fail", "throw"}))
    <3>1. [v \in VUs |-> TallyOf(store, v, k).fails] = RunCounts(First, name, {"fail", "throw"})
      BY <2>2 DEF TallyMatches, RunCounts
    <3>2. SumFunction(RunCounts(First, name, {"fail", "throw"})) = Count(RunsIn(First, name, {"fail", "throw"}))
      BY <1>2, RunsByVU
    <3>3. QED
      BY <2>3, <3>1, <3>2, Zenon
  <2>6. \A v \in VUs : msg[v] = IF RunsOf(First, v, name, {"throw"}) = {} THEN None ELSE v
    BY <2>2 DEF TallyMatches
  <2>7. \A v : RunsOf(First, v, name, {"throw"}) = {i \in thrown : i[1] = v}
    BY DEF RunsOf, RunsIn
  <2>8. \A i \in thrown : i[1] \in VUs
    BY <1>2 DEF RunsIn
  <2>9. \A v \in VUs : v # None
    BY ShardsTyped DEF None
  <2> HIDE DEF msg, thrown, name
  <2>10. CASE thrown = {}
    <3>1. \A v \in VUs : msg[v] = None
      BY <2>6, <2>7, <2>10
    <3>2. cs[k].firstError = None
      BY <2>3, <3>1, FirstMessageIs
    <3>3. QED
      BY <1>6, <2>1, <2>4, <2>5, <2>10, <3>2, Zenon DEF thrown
  <2>11. CASE thrown # {}
    <3>1. \E v \in VUs : msg[v] # None
      BY <2>6, <2>7, <2>8, <2>9, <2>11
    <3>2. PICK w \in VUs : msg[w] # None /\ FirstMessage(msg) = msg[w]
      BY <3>1, FirstMessageIs
    <3>3. RunsOf(First, w, name, {"throw"}) # {} /\ msg[w] = w
      BY <2>6, <3>2
    <3>4. PICK i \in thrown : i[1] = w
      BY <2>7, <3>3
    <3>5. cs[k].firstError \in {j[1] : j \in thrown}
      BY <2>3, <3>2, <3>3, <3>4
    <3>6. QED
      BY <1>6, <2>1, <2>4, <2>5, <2>11, <3>5, Zenon DEF thrown
  <2>12. QED
    BY <2>10, <2>11
<1>8. QED
  BY <1>5, <1>7, Zenon DEF ChecksExact

\* Every GraphQL operation is in each family of the module once.
LEMMA OperationsCounted ==
    ASSUME WorkloadInv, report.over
    PROVE  OperationsExact(report.families)
<1> DEFINE f == report.families
           A == {i \in DOMAIN First : First[i].op.kind = "graphql" /\ First[i].good}
           X == {i \in DOMAIN Second : Second[i].op.kind = "graphql" /\ Second[i].good}
<1>1. /\ f = Summarize(store) /\ store \in StoreType /\ FamiliesTyped(store)
      /\ OperationsMatch(store, First) /\ AnswersMatch(store, Second)
      /\ IsFiniteSet(DOMAIN First) /\ \A i \in DOMAIN First : i[1] \in VUs
      /\ IsFiniteSet(DOMAIN Second) /\ \A i \in DOMAIN Second : i[1] \in VUs
  BY WhatIsReported DEF StoreMatches
<1>2. /\ f["graphql_reqs"].Count = CountTotal(store, "graphql_reqs")
      /\ f["graphql_req_failed"].Count = CountTotal(store, "graphql_req_failed")
      /\ f["graphql_req_failed"].Trues = TrueTotal(store, "graphql_req_failed")
      /\ f["graphql_errors"].Count = CountTotal(store, "graphql_errors")
      /\ f["graphql_req_duration"].Count = TimedTotal(store)
      /\ f["graphql_req_duration"].Failed = FailedTotal(store)
  BY <1>1, SummarizeIs
<1>3. /\ SumFunction([j \in FamShards |-> Count(OpsIn(First, j))]) = Count(A)
      /\ SumFunction([j \in FamShards |-> Count(WrongIn(First, j))]) = Count({i \in A : Code(First[i].op) # Blank})
      /\ SumFunction([j \in FamShards |-> Count(TimedWrongIn(First, j))]) =
           Count({i \in A : First[i].op.sent /\ Code(First[i].op) # Blank})
      /\ SumFunction([k \in 1..(NumShards + NumShards) |->
                        IF k <= NumShards THEN Count(TimedIn(First, k - 1))
                        ELSE Count(TimedWrongIn(First, k - NumShards - 1))]) = Count({i \in A : First[i].op.sent})
      /\ SumFunction([j \in FamShards |-> Count(AnswersIn(Second, j))]) = Count({i \in X : Second[i].op.errors})
  BY <1>1, ByFamilyShard
<1>4. /\ Operations = A /\ Wrong = {i \in A : Code(First[i].op) # Blank}
      /\ Transmitted = {i \in A : First[i].op.sent}
      /\ Wrong \intersect Transmitted = {i \in A : First[i].op.sent /\ Code(First[i].op) # Blank}
      /\ {i \in Entries("graphql") : E(i).op.errors /\ E(i).second} = {i \in X : Second[i].op.errors}
  <2>1. /\ Operations = A /\ Wrong = {i \in Operations : Code(First[i].op) # Blank}
        /\ Transmitted = {i \in Operations : First[i].op.sent}
    BY ReportedSets, Zenon
  <2>2. {i \in Entries("graphql") : E(i).op.errors /\ E(i).second} =
          {i \in DOMAIN Second : Second[i].op.kind = "graphql" /\ Second[i].good /\ Second[i].op.errors}
    BY ReportedSets, Zenon
  <2>3. QED
    BY <2>1, <2>2
<1>5. \A j \in FamShards :
        /\ store.fams["graphql_reqs"][j].count = Count(OpsIn(First, j))
        /\ store.fams["graphql_req_failed"][j].count = Count(OpsIn(First, j))
        /\ store.fams["graphql_req_failed"][j].trues = Count(WrongIn(First, j))
        /\ store.fams["graphql_req_duration"][j].ok.n = Count(TimedIn(First, j))
        /\ store.fams["graphql_req_duration"][j].failed.n = Count(TimedWrongIn(First, j))
        /\ store.fams["graphql_errors"][j].count = Count(AnswersIn(Second, j))
  BY <1>1 DEF OperationsMatch, AnswersMatch
<1> HIDE DEF f, A, X
<1>6. CountTotal(store, "graphql_reqs") = Count(Operations)
  <2>1. [j \in FamShards |-> store.fams["graphql_reqs"][j].count] = [j \in FamShards |-> Count(OpsIn(First, j))]
    BY <1>5
  <2>2. QED
    BY <1>3, <1>4, <2>1, Zenon DEF CountTotal
<1>7. /\ CountTotal(store, "graphql_req_failed") = Count(Operations)
      /\ TrueTotal(store, "graphql_req_failed") = Count(Wrong)
  <2>1. /\ [j \in FamShards |-> store.fams["graphql_req_failed"][j].count] = [j \in FamShards |-> Count(OpsIn(First, j))]
        /\ [j \in FamShards |-> store.fams["graphql_req_failed"][j].trues] = [j \in FamShards |-> Count(WrongIn(First, j))]
    BY <1>5
  <2>2. QED
    BY <1>3, <1>4, <2>1, Zenon DEF CountTotal, TrueTotal
<1>8. CountTotal(store, "graphql_errors") = Count({i \in Entries("graphql") : E(i).op.errors /\ E(i).second})
  <2>1. [j \in FamShards |-> store.fams["graphql_errors"][j].count] = [j \in FamShards |-> Count(AnswersIn(Second, j))]
    BY <1>5
  <2>2. QED
    BY <1>3, <1>4, <2>1, Zenon DEF CountTotal
<1>9. FailedTotal(store) = Count(Wrong \intersect Transmitted)
  <2>1. [j \in FamShards |-> store.fams["graphql_req_duration"][j].failed.n] = [j \in FamShards |-> Count(TimedWrongIn(First, j))]
    BY <1>5
  <2>2. QED
    BY <1>3, <1>4, <2>1, Zenon DEF FailedTotal
<1>10. TimedTotal(store) = Count(Transmitted)
  <2> DEFINE D == store.fams["graphql_req_duration"]
  <2>1. NumShards \in Nat /\ 2 * NumShards = NumShards + NumShards /\ FamShards = 0..(NumShards - 1)
    BY StoreAssumption DEF FamShards
  <2>2. ASSUME NEW k \in 1..(NumShards + NumShards)
        PROVE  (IF k <= NumShards THEN D[k - 1].ok.n ELSE D[k - NumShards - 1].failed.n)
               = (IF k <= NumShards THEN Count(TimedIn(First, k - 1)) ELSE Count(TimedWrongIn(First, k - NumShards - 1)))
    <3>1. CASE k <= NumShards
      <4>1. k - 1 \in FamShards
        BY <2>1, <3>1
      <4>2. QED
        BY <1>5, <3>1, <4>1
    <3>2. CASE ~(k <= NumShards)
      <4>1. k - NumShards - 1 \in FamShards
        BY <2>1, <3>2
      <4>2. QED
        BY <1>5, <3>2, <4>1
    <3>3. QED
      BY <3>1, <3>2
  <2>3. [k \in 1..(2 * NumShards) |-> IF k <= NumShards THEN D[k - 1].ok.n ELSE D[k - NumShards - 1].failed.n]
        = [k \in 1..(NumShards + NumShards) |->
             IF k <= NumShards THEN Count(TimedIn(First, k - 1)) ELSE Count(TimedWrongIn(First, k - NumShards - 1))]
    BY <2>1, <2>2
  <2>4. QED
    BY <1>3, <1>4, <2>3, Zenon DEF TimedTotal
<1>11. QED
  BY <1>2, <1>6, <1>7, <1>8, <1>9, <1>10, Zenon DEF OperationsExact, f

\* The report counts what the history has: CountsExact holds of every run.
THEOREM ReportsExact == Spec => []CountsExact
<1>1. WorkloadInv => CountsExact
  <2>1. SUFFICES ASSUME WorkloadInv, report.done
                 PROVE  /\ RequestsExact(report.summary) /\ IterationsExact(report.summary)
                        /\ ChecksExact(report.summary.Checks) /\ OperationsExact(report.families)
    BY Zenon DEF CountsExact
  <2>2. report.over
    BY <2>1 DEF WorkloadInv, StoreReported, NoReport
  <2>3. QED
    BY <2>1, <2>2, RequestsCounted, IterationsCounted, ChecksCounted, OperationsCounted
<1>2. QED
  BY <1>1, WorkloadInvariant, PTL
=============================================================================
