---------------------------- MODULE EngineProofs ----------------------------
(***************************************************************************)
(* Proofs about a run from its settings to its Result (modules Options,    *)
(* Startup, Form and Engine): for any settings, any number of scenarios of *)
(* any kind and length, and any sampling interval, the load phase          *)
(* implements TestRun, nobody leaves work undone, and the series covers    *)
(* the run.                                                                *)
(***************************************************************************)
EXTENDS Engine, Form, NaturalsInduction, SequenceTheorems, FiniteSetTheorems, TLAPS

-----------------------------------------------------------------------------
(* The inductive invariant *)

Kinds  == {"constant-vus", "ramping-vus", "constant-arrival-rate"}
Places == {"options", "setup", "validate", "create", "running", "failed",
           "driving", "waiting", "returned", "stopped", "over"}

\* The options were accepted; the load phase has begun; all goroutines but the
\* sampler's have returned.
Planned  == pc \in Places \ {"options", "failed"}
Begun    == pc \in {"driving", "waiting", "returned", "stopped", "over"}
Returned == pc \in {"returned", "stopped", "over"}

\* The plan is the one that the settings resolve to.
PlanIs == /\ in \in Inputs /\ Runnable /\ cfg = Resolved
          /\ plan = engineScenarios(Resolved.scenarios)

\* The scenarios before cur have all their VUs, numbered on from base.
Created ==
    /\ cur \in 1..(Len(plan) + 1)
    /\ iters \in Seq(Seq(Int)) /\ Len(iters) = IF pc = "create" THEN cur ELSE cur - 1
    /\ \A i \in 1..(cur - 1) : Len(iters[i]) = Needs(plan[i].executor)
    /\ pc = "create" => cur <= Len(plan) /\ Len(iters[cur]) <= Needs(plan[cur].executor)
    /\ \A i \in 1..Len(iters) : \A j \in 1..Len(iters[i]) : iters[i][j] = plan[i].base + j - 1
    /\ pc = "running" \/ Begun => cur = Len(plan) + 1

\* The recorders, cut into slices.
Slices == [i \in DOMAIN plan |->
              LET next == SumSeq([j \in 1..(i - 1) |-> Len(iters[j])])
              IN  [j \in DOMAIN iters[i] |-> next + j]]

\* What startup has done so far.
StartInv ==
    /\ in \in Inputs /\ pc \in Places
    /\ pc = "options" => cur = 1 /\ iters = <<>>
    /\ Planned => PlanIs /\ warned = Warnings /\ Created
    /\ pc = "running" => recs = Slices

\* Nothing of the load phase has happened before it.
Idle == /\ now = 0 /\ driven = 0 /\ ended = {} /\ vu = <<>> /\ wake = <<>> /\ requests = 0
        /\ sched = <<>> /\ starts = <<>> /\ spc = "none" /\ series = <<>>
IdleInv == ~Begun => Idle

TypeInv ==
    Begun =>
        /\ now \in Nat /\ driven \in 0..Len(plan) /\ ended \subseteq 1..driven
        /\ DOMAIN vu = VUIds /\ DOMAIN wake = VUIds
        /\ sched \in [DOMAIN plan -> {"none", "waiting", "on", "gone"}]
        /\ starts \in [DOMAIN plan -> Nat]
        /\ requests \in Nat
        /\ pc # "driving" => driven = Len(plan)

\* Where the goroutine of a VU of each kind can be.
VUPlaces(kind) == IF kind = "constant-arrival-rate" THEN {"receiving", "iterating", "returned", "gone"}
                  ELSE {"waiting", "loop", "iterating", "returned", "gone"}

\* VUs wait for their scenario's goroutines, and those of constant-vus for its
\* start; no iteration begins before it.
VUInv ==
    Begun => \A v \in DOMAIN vu :
        /\ v[1] > driven => vu[v] = "new"
        /\ v[1] <= driven => vu[v] \in VUPlaces(Kind(v[1]))
        /\ Kind(v[1]) = "constant-vus" =>
             /\ vu[v] = "waiting" => wake[v] = Starts(v[1])
             /\ vu[v] \in {"loop", "iterating", "returned"} => now >= Starts(v[1])

\* A scheduler that returned while its context was live had no start left.
SchedInv ==
    Begun => \A i \in DOMAIN plan :
        /\ sched[i] # "none" => i <= driven /\ Kind(i) = "constant-arrival-rate"
        /\ sched[i] = "gone" /\ i \notin ended => Due(i) >= StopsAt(i)

\* A context ends with the test's or at its deadline.
EndedInv == Begun /\ ~cancelled => \A i \in ended : now >= Ends(i)

AllConstant == \A i \in DOMAIN plan : Kind(i) = "constant-vus"

JoinInv ==
    Returned =>
        /\ AllGone /\ elapsed \in Nat /\ elapsed <= now
        /\ ~cancelled /\ AllConstant => elapsed >= cfg.Duration

SamplerInv ==
    Begun =>
        /\ pc = "driving" => spc = "none" /\ series = <<>>
        /\ pc \in {"waiting", "returned"} => spc = "on"
        /\ pc = "stopped" => spc \in {"on", "sending"}
        /\ pc = "over" => spc = "gone"

Points == [at : Nat, vus : Int, requests : Int]

\* The points are in order, before the ticks to come.
SeriesInv ==
    Begun =>
        /\ series \in Seq(Points)
        /\ \A k \in 1..Len(series) : series[k].vus \in 0..cfg.VUs
        /\ \A k \in 2..Len(series) : series[k - 1].at < series[k].at \/ (k = Len(series) /\ spc # "on")
        /\ spc = "on" =>
             /\ ticker \in [next : Nat, at : Nat \cup {NoTick}]
             /\ \A k \in 1..Len(series) : series[k].at < ticker.next
             /\ ticker.at # NoTick => /\ ticker.at <= now /\ ticker.at < ticker.next
                                      /\ \A k \in 1..Len(series) : series[k].at < ticker.at

\* The last point holds what was left.
LastInv ==
    Begun /\ spc \in {"sending", "gone"} =>
        /\ series # <<>> /\ Requested(series) = requests
        /\ series[Len(series)].at >= elapsed
        /\ ~cancelled /\ AllConstant => series[Len(series)].vus = 0

ResultInv ==
    pc = "over" => result.series = series /\ result.requests = requests /\ result.elapsed = elapsed
                   /\ result.iterations = iterations /\ result.dropped = dropped

-----------------------------------------------------------------------------
(* Natural numbers and sums *)

\* A set of natural numbers has a least one.
LEMMA LeastNatural ==
    ASSUME NEW S \in SUBSET Nat, S # {}
    PROVE  \E m \in S : \A n \in S : m <= n
<1> DEFINE Less == {ss \in Nat \X Nat : ss[1] < ss[2]}
<1>1. IsWellFoundedOn(Less, Nat)
  BY NatLessThanWellFounded, Zenon DEF OpToRel
<1>2. PICK m \in S : \A n \in S : ~(<<n, m>> \in Less)
  <2> HIDE DEF Less
  <2> QED BY <1>1, WFMin, Zenon
<1>3. \A n \in S : ~(n < m)
  BY <1>2
<1>4. QED
  BY <1>3

\* Induction up to a bound, on a set.
LEMMA UpTo ==
    ASSUME NEW N \in Nat, NEW S, 0 \in S, \A k \in 0..(N - 1) : k \in S => k + 1 \in S
    PROVE  \A k \in 0..N : k \in S
<1> DEFINE Bad == {k \in 0..N : k \notin S}
<1>1. SUFFICES ASSUME Bad # {} PROVE FALSE
  OBVIOUS
<1>2. Bad \in SUBSET Nat
  OBVIOUS
<1>3. PICK m \in Bad : \A n \in Bad : m <= n
  <2> HIDE DEF Bad
  <2> QED BY <1>1, <1>2, LeastNatural
<1>4. m \in 1..N /\ m \notin S
  BY <1>3
<1>5. m - 1 \in 0..(N - 1) /\ m - 1 \in S
  BY <1>3, <1>4
<1>6. (m - 1) + 1 \in S /\ (m - 1) + 1 = m
  BY <1>4, <1>5
<1>7. QED
  BY <1>4, <1>6

\* The partial sums of a list.
IsPartial(f, s) == /\ f \in [0..Len(s) -> Int] /\ f[0] = 0
                   /\ \A n \in 1..Len(s) : f[n] = f[n - 1] + s[n]

\* Partial sums exist.
LEMMA PartialExists ==
    ASSUME NEW s \in Seq(Int)
    PROVE  \E f : IsPartial(f, s)
<1> DEFINE N == Len(s)
           S == {k \in 0..N : \E f \in [0..k -> Int] : f[0] = 0 /\ \A n \in 1..k : f[n] = f[n-1] + s[n]}
<1>0. N \in Nat /\ \A n \in 1..N : s[n] \in Int
  BY LenProperties, ElementOfSeq
<1>1. 0 \in S
  <2> DEFINE g == [n \in 0..0 |-> 0]
  <2>1. g \in [0..0 -> Int] /\ g[0] = 0 /\ \A n \in 1..0 : g[n] = g[n-1] + s[n]
    OBVIOUS
  <2> HIDE DEF g
  <2>2. \E f \in [0..0 -> Int] : f[0] = 0 /\ \A n \in 1..0 : f[n] = f[n-1] + s[n]
    BY <2>1
  <2>3. 0 \in 0..N
    BY <1>0
  <2>4. QED
    BY <2>2, <2>3, Zenon
<1>2. ASSUME NEW k \in 0..(N - 1), k \in S PROVE k + 1 \in S
  <2>1. PICK f \in [0..k -> Int] : f[0] = 0 /\ \A n \in 1..k : f[n] = f[n-1] + s[n]
    BY <1>2
  <2> DEFINE g == [n \in 0..(k + 1) |-> IF n <= k THEN f[n] ELSE f[k] + s[k + 1]]
  <2>2. k + 1 \in 1..N /\ k \in 0..k /\ f[k] + s[k + 1] \in Int
    BY <1>0, <2>1
  <2>3. g \in [0..(k + 1) -> Int] /\ g[0] = 0
    BY <2>1, <2>2
  <2>4. ASSUME NEW n \in 1..(k + 1) PROVE g[n] = g[n - 1] + s[n]
    <3>1. CASE n = k + 1
      BY <2>2, <3>1
    <3>2. CASE n \in 1..k
      BY <2>1, <3>2
    <3>3. QED
      BY <3>1, <3>2
  <2> HIDE DEF g
  <2>5. \E h \in [0..(k + 1) -> Int] : h[0] = 0 /\ \A n \in 1..(k + 1) : h[n] = h[n-1] + s[n]
    BY <2>3, <2>4
  <2>6. k + 1 \in 0..N
    BY <2>2
  <2>7. QED
    BY <2>5, <2>6, Zenon
<1>3. N \in S
  <2> HIDE DEF S, N
  <2>1. \A k \in 0..N : k \in S
    BY <1>0, <1>1, <1>2, UpTo
  <2>2. QED
    BY <1>0, <2>1
<1>4. QED
  BY <1>3 DEF IsPartial

\* They are unique.
LEMMA PartialUnique ==
    ASSUME NEW s \in Seq(Int), NEW f, IsPartial(f, s), NEW g, IsPartial(g, s)
    PROVE  \A k \in 0..Len(s) : f[k] = g[k]
<1> DEFINE N == Len(s)
           S == {k \in 0..N : f[k] = g[k]}
<1>1. N \in Nat
  BY LenProperties
<1>2. 0 \in S
  BY <1>1 DEF IsPartial
<1>3. ASSUME NEW k \in 0..(N - 1), k \in S PROVE k + 1 \in S
  <2>1. k + 1 \in 1..N /\ (k + 1) - 1 = k
    BY <1>1
  <2>2. f[k + 1] = f[k] + s[k + 1] /\ g[k + 1] = g[k] + s[k + 1]
    BY <2>1 DEF IsPartial
  <2>3. QED
    BY <1>3, <2>1, <2>2
<1>4. \A k \in 0..N : k \in S
  <2> HIDE DEF S, N
  <2> QED BY <1>1, <1>2, <1>3, UpTo
<1>5. QED
  BY <1>4

\* SumSeq is the last of them.
LEMMA SumIs ==
    ASSUME NEW s \in Seq(Int), NEW g, IsPartial(g, s)
    PROVE  SumSeq(s) = g[Len(s)] /\ SumSeq(s) \in Int
<1>0. Len(s) \in Nat
  BY LenProperties
<1>1. g = [n \in 0..Len(s) |-> IF n = 0 THEN 0 ELSE g[n-1] + s[n]]
  BY <1>0 DEF IsPartial
<1> DEFINE Rec(f) == f = [n \in 0..Len(s) |-> IF n = 0 THEN 0 ELSE f[n-1] + s[n]]
           h == CHOOSE f : Rec(f)
<1>2. Rec(h)
  BY <1>1, Zenon
<1>3. SumSeq(s) = h[Len(s)]
  BY Zenon DEF SumSeq
<1> HIDE DEF h
<1>4. h[0] = 0 /\ \A n \in 1..Len(s) : h[n] = h[n-1] + s[n]
  <2>1. \A n \in 0..Len(s) : h[n] = IF n = 0 THEN 0 ELSE h[n-1] + s[n]
    BY <1>2
  <2> HIDE DEF Rec
  <2>2. QED
    BY <1>0, <2>1
<1> DEFINE S == {k \in 0..Len(s) : h[k] = g[k]}
<1>5. 0 \in S
  BY <1>0, <1>4 DEF IsPartial
<1>6. ASSUME NEW k \in 0..(Len(s) - 1), k \in S PROVE k + 1 \in S
  <2>1. k + 1 \in 1..Len(s) /\ (k + 1) - 1 = k
    BY <1>0
  <2>2. h[k + 1] = h[k] + s[k + 1] /\ g[k + 1] = g[k] + s[k + 1]
    BY <1>4, <2>1 DEF IsPartial
  <2>3. QED
    BY <1>6, <2>1, <2>2
<1>7. Len(s) \in S
  <2> HIDE DEF S
  <2>1. \A k \in 0..Len(s) : k \in S
    BY <1>0, <1>5, <1>6, UpTo
  <2>2. QED
    BY <1>0, <2>1
<1>8. QED
  BY <1>0, <1>3, <1>7 DEF IsPartial

\* A list of numbers that is given by its elements.
LEMMA ListOf ==
    ASSUME NEW n \in Nat, NEW s, DOMAIN s = 1..n, s = [i \in 1..n |-> s[i]], \A i \in 1..n : s[i] \in Int
    PROVE  s \in Seq(Int) /\ Len(s) = n
<1>1. s \in [1..n -> Int]
  OBVIOUS
<1>2. QED
  BY <1>1, SeqDef, LenProperties

\* One more element.
LEMMA SumAppend ==
    ASSUME NEW s \in Seq(Int), NEW e \in Int
    PROVE  SumSeq(Append(s, e)) = SumSeq(s) + e
<1>1. PICK f : IsPartial(f, s)
  BY PartialExists
<1> DEFINE n == Len(s)
           a == Append(s, e)
           g == [k \in 0..(n + 1) |-> IF k <= n THEN f[k] ELSE f[n] + e]
<1>2. n \in Nat /\ Len(a) = n + 1 /\ a \in Seq(Int) /\ a[n + 1] = e /\ \A k \in 1..n : a[k] = s[k]
  BY LenProperties, AppendProperties
<1>3. f[n] \in Int
  BY <1>1, <1>2 DEF IsPartial
<1>4. IsPartial(g, a)
  <2> HIDE DEF a, n
  <2>0. \A k \in 0..n : f[k] \in Int
    BY <1>1 DEF IsPartial, n
  <2>1. g \in [0..(n + 1) -> Int] /\ g[0] = 0
    BY <1>1, <1>2, <1>3, <2>0 DEF IsPartial
  <2>2. ASSUME NEW k \in 1..(n + 1) PROVE g[k] = g[k - 1] + a[k]
    <3>1. CASE k = n + 1
      BY <1>2, <3>1
    <3>2. CASE k \in 1..n
      <4>1. f[k] = f[k - 1] + s[k]
        BY <1>1, <3>2 DEF IsPartial, n
      <4>2. QED
        BY <1>2, <3>2, <4>1
    <3>3. QED
      BY <1>2, <3>1, <3>2
  <2>3. QED
    BY <1>2, <2>1, <2>2 DEF IsPartial
<1>5. SumSeq(a) = g[n + 1] /\ SumSeq(s) = f[n]
  <2> HIDE DEF a, g
  <2> QED BY <1>1, <1>2, <1>4, SumIs
<1>6. QED
  BY <1>2, <1>5

\* Sums of smaller numbers are smaller; those of zeros are zero.
LEMMA SumBounds ==
    ASSUME NEW s \in Seq(Int), NEW t \in Seq(Int), Len(s) = Len(t),
           \A k \in 1..Len(s) : 0 <= s[k] /\ s[k] <= t[k]
    PROVE  0 <= SumSeq(s) /\ SumSeq(s) <= SumSeq(t) /\ SumSeq(s) \in Int /\ SumSeq(t) \in Int
<1>1. PICK f : IsPartial(f, s)
  BY PartialExists
<1>2. PICK g : IsPartial(g, t)
  BY PartialExists
<1> DEFINE N == Len(s)
           S == {k \in 0..N : 0 <= f[k] /\ f[k] <= g[k]}
<1>3. N \in Nat /\ \A k \in 1..N : s[k] \in Int /\ t[k] \in Int
  BY LenProperties, ElementOfSeq
<1>4. /\ \A k \in 0..N : f[k] \in Int /\ g[k] \in Int
      /\ f[0] = 0 /\ g[0] = 0
      /\ \A k \in 1..N : f[k] = f[k-1] + s[k] /\ g[k] = g[k-1] + t[k]
  BY <1>1, <1>2 DEF IsPartial
<1>5. 0 \in S
  BY <1>3, <1>4
<1>6. ASSUME NEW k \in 0..(N - 1), k \in S PROVE k + 1 \in S
  <2>1. k + 1 \in 1..N /\ (k + 1) - 1 = k /\ k \in 0..N
    BY <1>3
  <2>2. /\ f[k + 1] = f[k] + s[k + 1] /\ g[k + 1] = g[k] + t[k + 1] /\ f[k] \in Int /\ g[k] \in Int
        /\ 0 <= s[k + 1] /\ s[k + 1] <= t[k + 1] /\ s[k + 1] \in Int /\ t[k + 1] \in Int
    BY <1>3, <1>4, <2>1
  <2>3. 0 <= f[k] /\ f[k] <= g[k] /\ g[k] \in Int
    BY <1>4, <1>6, <2>1
  <2>4. 0 <= f[k + 1]
    BY <2>2, <2>3
  <2>5. f[k + 1] <= g[k + 1]
    BY <2>2, <2>3
  <2>6. k + 1 \in 0..N
    BY <1>3, <2>1
  <2>7. QED
    BY <2>4, <2>5, <2>6
<1>7. N \in S
  <2> HIDE DEF S, N
  <2>1. \A k \in 0..N : k \in S
    BY <1>3, <1>5, <1>6, UpTo
  <2>2. QED
    BY <1>3, <2>1
<1>8. SumSeq(s) = f[N] /\ SumSeq(t) = g[N]
  BY <1>1, <1>2, SumIs
<1>9. QED
  BY <1>3, <1>4, <1>7, <1>8

LEMMA SumZeros ==
    ASSUME NEW s \in Seq(Int), \A k \in 1..Len(s) : s[k] = 0
    PROVE  SumSeq(s) = 0
<1>1. Len(s) \in Nat
  BY LenProperties
<1>2. \A k \in 1..Len(s) : 0 <= s[k] /\ s[k] <= 0
  BY SMT
<1> DEFINE g == [k \in 0..Len(s) |-> 0]
<1>3. IsPartial(g, s)
  BY <1>1 DEF IsPartial
<1>4. g[Len(s)] = 0
  BY <1>1
<1> HIDE DEF g
<1>5. QED
  BY <1>3, <1>4, SumIs

\* The largest of a finite set.
LEMMA MaxIsLargest ==
    ASSUME NEW S \in SUBSET Int, IsFiniteSet(S), S # {}
    PROVE  Max(S) \in S /\ \A y \in S : y <= Max(S)
<1> DEFINE Sizes == {n \in Nat : \A X \in SUBSET Int : IsFiniteSet(X) /\ X # {} /\ Cardinality(X) = n + 1 =>
                                     \E x \in X : \A y \in X : x >= y}
<1>1. 0 \in Sizes
  <2>1. SUFFICES ASSUME NEW X \in SUBSET Int, IsFiniteSet(X), Cardinality(X) = 1 PROVE \E x \in X : \A y \in X : x >= y
    OBVIOUS
  <2>2. PICK x : X = {x}
    BY <2>1, FS_Singleton
  <2>3. QED
    BY <2>1, <2>2
<1>2. ASSUME NEW n \in Nat, n \in Sizes PROVE n + 1 \in Sizes
  <2>1. SUFFICES ASSUME NEW X \in SUBSET Int, IsFiniteSet(X), X # {}, Cardinality(X) = (n + 1) + 1
                 PROVE \E x \in X : \A y \in X : x >= y
    OBVIOUS
  <2>2. PICK z \in X : TRUE
    BY <2>1
  <2>3. IsFiniteSet(X \ {z}) /\ Cardinality(X \ {z}) = n + 1
    BY <2>1, <2>2, FS_RemoveElement
  <2>4. X \ {z} # {}
    BY <2>3, FS_EmptySet
  <2>5. PICK w \in X \ {z} : \A y \in X \ {z} : w >= y
    BY <1>2, <2>3, <2>4
  <2>6. CASE w >= z
    BY <2>5, <2>6
  <2>7. CASE z >= w
    <3>1. \A y \in X : z >= y
      BY <2>1, <2>5, <2>7
    <3>2. QED
      BY <3>1
  <2>8. QED
    BY <2>1, <2>5, <2>6, <2>7
<1>3. Cardinality(S) \in Nat /\ Cardinality(S) # 0
  BY FS_CardinalityType, FS_EmptySet
<1> DEFINE c == Cardinality(S) - 1
<1>4. c \in Nat /\ Cardinality(S) = c + 1
  BY <1>3
<1>5. c \in Sizes
  <2> HIDE DEF c, Sizes
  <2>1. \A k \in 0..(c - 1) : k \in Sizes => k + 1 \in Sizes
    BY <1>2, <1>4
  <2>2. \A k \in 0..c : k \in Sizes
    BY <1>1, <1>4, <2>1, UpTo
  <2>3. QED
    BY <1>4, <2>2
<1>6. \E x \in S : \A y \in S : x >= y
  BY <1>4, <1>5
<1>7. Max(S) \in S /\ \A y \in S : Max(S) >= y
  BY <1>6, Zenon DEF Max
<1>8. QED
  BY <1>7

\* The values of a list are finitely many.
LEMMA ValuesFinite ==
    ASSUME NEW n \in Nat, NEW f
    PROVE  IsFiniteSet({f[i] : i \in 1..n})
<1> DEFINE V(k) == {f[i] : i \in 1..k}
           S == {k \in 0..n : IsFiniteSet(V(k))}
<1>1. 0 \in S
  <2>1. V(0) = {}
    OBVIOUS
  <2>2. QED
    BY <2>1, FS_EmptySet
<1>2. ASSUME NEW k \in 0..(n - 1), k \in S PROVE k + 1 \in S
  <2>1. V(k + 1) = V(k) \cup {f[k + 1]}
    <3>1. 1..(k + 1) = (1..k) \cup {k + 1}
      OBVIOUS
    <3>2. QED
      BY <3>1
  <2>2. IsFiniteSet(V(k))
    BY <1>2
  <2> HIDE DEF V
  <2>3. IsFiniteSet(V(k) \cup {f[k + 1]})
    BY <2>2, FS_AddElement
  <2>4. QED
    BY <2>1, <2>3
<1>3. n \in S
  <2> HIDE DEF S
  <2>1. \A k \in 0..n : k \in S
    BY <1>1, <1>2, UpTo
  <2>2. QED
    BY <2>1
<1>4. QED
  BY <1>3

\* The sums of numbers that are not negative grow.
LEMMA PartialGrows ==
    ASSUME NEW s \in Seq(Int), \A k \in 1..Len(s) : s[k] >= 0, NEW g, IsPartial(g, s),
           NEW a \in 0..Len(s), NEW b \in 0..Len(s), a <= b
    PROVE  g[a] <= g[b] /\ g[a] \in Nat
<1> DEFINE N == Len(s)
           S == {k \in 0..N : g[k] >= 0 /\ (k >= a => g[a] <= g[k])}
<1>1. /\ N \in Nat /\ g[0] = 0 /\ \A k \in 0..N : g[k] \in Int
      /\ \A n \in 1..N : g[n] = g[n-1] + s[n] /\ s[n] \in Nat
  <2>1. N \in Nat /\ \A n \in 1..N : s[n] \in Int
    BY LenProperties
  <2>2. \A n \in 1..N : s[n] \in Nat
    BY <2>1
  <2>3. QED
    BY <2>1, <2>2 DEF IsPartial
<1>2. 0 \in S
  BY <1>1
<1>3. ASSUME NEW k \in 0..(N - 1), k \in S PROVE k + 1 \in S
  <2>1. k + 1 \in 1..N /\ k \in 0..N /\ (k + 1) - 1 = k
    BY <1>1
  <2>2. g[k + 1] = g[k] + s[k + 1] /\ s[k + 1] \in Nat /\ g[a] \in Int /\ g[k] \in Int
    BY <1>1, <2>1
  <2>3. g[k] >= 0 /\ (k >= a => g[a] <= g[k])
    BY <1>3
  <2>4. g[k + 1] >= 0 /\ g[k] <= g[k + 1] /\ g[k + 1] \in Int
    BY <2>2, <2>3
  <2>5. CASE a = k + 1
    BY <2>1, <2>2, <2>4, <2>5
  <2>6. CASE a # k + 1
    <3>1. k + 1 >= a => k >= a
      BY <2>1, <2>6
    <3>2. k + 1 >= a => g[a] <= g[k + 1]
      BY <2>2, <2>3, <2>4, <3>1
    <3>3. QED
      BY <2>1, <2>4, <3>2
  <2>7. QED
    BY <2>5, <2>6
<1>4. a \in S /\ b \in S
  <2> HIDE DEF S, N
  <2>1. \A k \in 0..N : k \in S
    BY <1>1, <1>2, <1>3, UpTo
  <2>2. QED
    BY <2>1 DEF N
<1>5. QED
  BY <1>1, <1>4
-----------------------------------------------------------------------------
(* The stages of a ramping-vus executor, in whole ticks (MicroTicks is 1) *)

StageSet  == [duration : Nat, target : Nat]
IsRamp(p) == /\ p.stages \in Seq(StageSet) /\ p.stages # <<>> /\ p.startVUs \in Nat
             /\ R!PlanLength(p) > 0

\* RampPlan's Max and Min are those of the modules here.
LEMMA SameMax ==
    ASSUME NEW S
    PROVE  R!Max(S) = Max(S) /\ R!Min(S) = Min(S)
  BY Zenon DEF R!Max, Max, R!Min, Min

\* The durations of the stages.
Durations(p) == [j \in DOMAIN p.stages |-> p.stages[j].duration]

LEMMA StageTypes ==
    ASSUME NEW p, p.stages \in Seq(StageSet)
    PROVE  /\ Len(p.stages) \in Nat /\ DOMAIN p.stages = 1..Len(p.stages)
           /\ \A j \in 1..Len(p.stages) : p.stages[j].duration \in Nat /\ p.stages[j].target \in Nat
           /\ Durations(p) \in Seq(Int) /\ Len(Durations(p)) = Len(p.stages)
           /\ \A j \in 1..Len(p.stages) : Durations(p)[j] = p.stages[j].duration
<1> DEFINE s == p.stages
<1>1. Len(s) \in Nat /\ DOMAIN s = 1..Len(s) /\ \A j \in 1..Len(s) : s[j] \in StageSet
  BY LenProperties, ElementOfSeq
<1>2. \A j \in 1..Len(s) : s[j].duration \in Nat /\ s[j].target \in Nat
  BY <1>1 DEF StageSet
<1> DEFINE d == Durations(p)
<1>3. /\ DOMAIN d = 1..Len(s) /\ d = [i \in 1..Len(s) |-> d[i]]
      /\ \A i \in 1..Len(s) : d[i] = s[i].duration /\ d[i] \in Int
  BY <1>1, <1>2 DEF Durations
<1>4. d \in Seq(Int) /\ Len(d) = Len(s)
  <2> HIDE DEF d
  <2> QED BY <1>1, <1>3, ListOf
<1>5. QED
  BY <1>1, <1>2, <1>3, <1>4

\* Offsets grow by the durations of the stages.
LEMMA ElapsedIs ==
    ASSUME NEW p, p.stages \in Seq(StageSet)
    PROVE  IsPartial(R!Elapsed(p), Durations(p))
<1> DEFINE N == Len(p.stages)
<1>1. PICK f : IsPartial(f, Durations(p))
  BY StageTypes, PartialExists
<1>2. f = [n \in 0..N |-> IF n = 0 THEN 0 ELSE f[n-1] + p.stages[n].duration]
  BY <1>1, StageTypes DEF IsPartial
<1> DEFINE Rec(g) == g = [n \in 0..N |-> IF n = 0 THEN 0 ELSE g[n-1] + p.stages[n].duration]
           e == R!Elapsed(p)
<1>3. Rec(e)
  BY <1>2, Zenon DEF R!Elapsed
<1> HIDE DEF e
<1>4. DOMAIN e = 0..N /\ e[0] = 0 /\ \A n \in 1..N : e[n] = e[n-1] + p.stages[n].duration
  <2>1. N \in Nat
    BY StageTypes
  <2>2. \A n \in 0..N : e[n] = IF n = 0 THEN 0 ELSE e[n-1] + p.stages[n].duration
    BY <1>3
  <2>3. DOMAIN e = 0..N
    BY <1>3
  <2> HIDE DEF Rec, N
  <2>4. QED
    BY <2>1, <2>2, <2>3
<1> DEFINE S == {k \in 0..N : e[k] \in Int}
<1>5. \A k \in 0..N : k \in S
  <2>1. 0 \in S /\ N \in Nat
    BY <1>4, StageTypes
  <2>2. ASSUME NEW k \in 0..(N - 1), k \in S PROVE k + 1 \in S
    <3>1. k + 1 \in 1..N /\ (k + 1) - 1 = k
      BY <2>1
    <3>2. e[k + 1] = e[k] + p.stages[k + 1].duration /\ p.stages[k + 1].duration \in Nat
      BY <1>4, <3>1, StageTypes
    <3>3. QED
      BY <2>2, <3>1, <3>2
  <2> HIDE DEF S, N
  <2>3. QED
    BY <2>1, <2>2, UpTo
<1>6. e \in [0..N -> Int]
  BY <1>3, <1>5
<1>7. QED
  BY <1>4, <1>6, StageTypes DEF IsPartial, e

\* Offsets are natural numbers, and later stages start later.
LEMMA ElapsedGrows ==
    ASSUME NEW p, p.stages \in Seq(StageSet), NEW a \in 0..Len(p.stages), NEW b \in 0..Len(p.stages), a <= b
    PROVE  R!Elapsed(p)[a] <= R!Elapsed(p)[b] /\ R!Elapsed(p)[a] \in Nat
<1>1. IsPartial(R!Elapsed(p), Durations(p))
  BY ElapsedIs
<1>2. /\ Durations(p) \in Seq(Int) /\ Len(Durations(p)) = Len(p.stages)
      /\ \A n \in 1..Len(p.stages) : Durations(p)[n] >= 0
  BY StageTypes
<1>3. QED
  BY <1>1, <1>2, PartialGrows

\* Where a stage starts and ends.
LEMMA Segments ==
    ASSUME NEW p, IsRamp(p)
    PROVE  /\ Len(p.stages) \in Nat \ {0} /\ R!StageIds(p) = 1..Len(p.stages)
           /\ R!PlanLength(p) \in Nat \ {0} /\ R!PlanLength(p) = SumSeq(Durations(p))
           /\ \A j \in 1..Len(p.stages) :
                /\ R!SegStart(p, j) \in Nat /\ R!SegEnd(p, j) \in Nat /\ R!SegEnd(p, j) <= R!PlanLength(p)
                /\ R!SegEnd(p, j) = R!SegStart(p, j) + p.stages[j].duration
                /\ p.stages[j].duration \in Nat /\ p.stages[j].target \in Nat /\ R!FromVUs(p, j) \in Nat
           /\ \A j \in 1..Len(p.stages) : j # 1 => R!SegStart(p, j) = R!SegEnd(p, j - 1)
           /\ R!SegStart(p, 1) = 0
<1> DEFINE N == Len(p.stages)
           e == R!Elapsed(p)
<1>1. p.stages \in Seq(StageSet) /\ p.stages # <<>> /\ p.startVUs \in Nat /\ R!PlanLength(p) > 0
  BY DEF IsRamp
<1>2. N \in Nat /\ N # 0 /\ DOMAIN p.stages = 1..N
  BY <1>1, EmptySeq, LenProperties
<1>3. \A j \in 1..N : p.stages[j].duration \in Nat /\ p.stages[j].target \in Nat
  BY <1>1, StageTypes
<1>4. /\ e[0] = 0 /\ \A k \in 0..N : e[k] \in Int
      /\ \A n \in 1..N : e[n] = e[n-1] + p.stages[n].duration
  BY <1>1, ElapsedIs, StageTypes DEF IsPartial
<1>5. \A k \in 0..N : e[k] \in Nat /\ e[k] <= e[N]
  <2> TAKE k \in 0..N
  <2>1. N \in 0..N /\ k <= N
    BY <1>2
  <2>2. QED
    BY <1>1, <2>1, ElapsedGrows
<1>6. ASSUME NEW j \in 1..N
      PROVE  /\ R!SegStart(p, j) = e[j-1] /\ R!SegEnd(p, j) = e[j] /\ e[j] \in Nat /\ e[j-1] \in Nat
             /\ R!SegEnd(p, j) = R!SegStart(p, j) + p.stages[j].duration /\ e[j] <= e[N]
  <2>1. j - 1 \in 0..N /\ j \in 0..N
    BY <1>2
  <2>2. R!SegStart(p, j) = e[j-1] /\ R!SegEnd(p, j) = e[j-1] + p.stages[j].duration
    BY DEF R!SegStart, R!SegEnd
  <2> HIDE DEF e
  <2>3. QED
    BY <1>4, <1>5, <2>1, <2>2
<1>7. R!PlanLength(p) = e[N]
  <2>1. N \in 1..N
    BY <1>2
  <2>2. QED
    BY <1>6, <2>1 DEF R!PlanLength
<1>8. R!PlanLength(p) \in Nat \ {0}
  <2> HIDE DEF e
  <2> QED BY <1>1, <1>2, <1>5, <1>7
<1>9. SumSeq(Durations(p)) = e[N]
  BY <1>1, ElapsedIs, SumIs, StageTypes
<1>10. \A j \in 1..N : R!FromVUs(p, j) \in Nat
  <2> TAKE j \in 1..N
  <2>1. CASE j = 1
    BY <1>1, <2>1 DEF R!FromVUs
  <2>2. CASE j # 1
    <3>1. j - 1 \in 1..N
      BY <1>2, <2>2
    <3>2. QED
      BY <1>3, <2>2, <3>1 DEF R!FromVUs
  <2>3. QED
    BY <2>1, <2>2
<1>11. \A j \in 1..N : j # 1 => R!SegStart(p, j) = R!SegEnd(p, j - 1)
  <2> TAKE j \in 1..N
  <2>1. ASSUME j # 1 PROVE R!SegStart(p, j) = R!SegEnd(p, j - 1)
    <3>1. j - 1 \in 1..N
      BY <1>2, <2>1
    <3>2. R!SegEnd(p, j - 1) = e[j - 1] /\ R!SegStart(p, j) = e[j - 1]
      BY <1>6, <3>1
    <3>3. QED
      BY <3>2
  <2>2. QED
    BY <2>1
<1>12. R!SegStart(p, 1) = 0
  <2>1. 1 \in 1..N /\ 1 - 1 = 0
    BY <1>2
  <2>2. R!SegStart(p, 1) = e[1 - 1]
    BY <1>6, <2>1
  <2>3. QED
    BY <1>4, <2>1, <2>2
<1>13. QED
  <2> HIDE DEF e
  <2> QED BY <1>2, <1>3, <1>6, <1>7, <1>8, <1>9, <1>10, <1>11, <1>12 DEF R!StageIds

\* The most VUs of a plan: no stage has more, and they are as many as config counts.
LEMMA MaxVUsIs ==
    ASSUME NEW p, IsRamp(p)
    PROVE  /\ R!MaxVUs(p) \in Nat
           /\ \A j \in 1..Len(p.stages) : p.stages[j].target <= R!MaxVUs(p) /\ R!FromVUs(p, j) <= R!MaxVUs(p)
<1> DEFINE N == Len(p.stages)
           tgt == [j \in 1..N |-> p.stages[j].target]
           S == {p.startVUs} \cup {tgt[j] : j \in 1..N}
<1>1. /\ N \in Nat /\ \A j \in 1..N : p.stages[j].target \in Nat
      /\ R!StageIds(p) = 1..N /\ p.startVUs \in Nat
  BY Segments DEF IsRamp
<1>2. R!MaxVUs(p) = Max(S)
  <2>1. {p.stages[j].target : j \in R!StageIds(p)} = {tgt[j] : j \in 1..N}
    BY <1>1
  <2>2. QED
    BY <2>1, SameMax, Zenon DEF R!MaxVUs
<1>3. S \in SUBSET Nat /\ S # {}
  BY <1>1
<1>4. IsFiniteSet(S)
  <2> HIDE DEF tgt
  <2>1. IsFiniteSet({tgt[j] : j \in 1..N})
    BY <1>1, ValuesFinite
  <2>2. IsFiniteSet({p.startVUs})
    BY FS_Singleton
  <2>3. QED
    BY <2>1, <2>2, FS_Union
<1>5. Max(S) \in S /\ \A y \in S : y <= Max(S)
  <2>1. S \in SUBSET Int
    BY <1>3
  <2> HIDE DEF S
  <2>2. QED
    BY <1>3, <1>4, <2>1, MaxIsLargest
<1>6. \A j \in 1..N : p.stages[j].target \in S
  OBVIOUS
<1>7. \A j \in 1..N : R!FromVUs(p, j) \in S
  <2> TAKE j \in 1..N
  <2>1. CASE j = 1
    BY <2>1 DEF R!FromVUs
  <2>2. CASE j # 1
    <3>1. j - 1 \in 1..N
      BY <1>1, <2>2
    <3>2. R!FromVUs(p, j) = p.stages[j - 1].target
      BY <2>2 DEF R!FromVUs
    <3> HIDE DEF S
    <3>3. QED
      BY <1>6, <3>1, <3>2
  <2>3. QED
    BY <2>1, <2>2
<1>8. Max(S) \in Nat
  <2> HIDE DEF S
  <2> QED BY <1>3, <1>5
<1>9. QED
  <2> HIDE DEF S
  <2> QED BY <1>2, <1>5, <1>6, <1>7, <1>8

\* The least of a set of natural numbers.
LEMMA MinIsLeast ==
    ASSUME NEW S \in SUBSET Nat, S # {}
    PROVE  Min(S) \in S /\ \A n \in S : Min(S) <= n
<1>1. \E m \in S : \A n \in S : m <= n
  BY LeastNatural
<1>2. QED
  BY <1>1, Zenon DEF Min

\* What division rounds to.
LEMMA DivIsFloor ==
    ASSUME NEW a \in Int, NEW b \in Nat \ {0}, NEW q \in Int
    PROVE  a \div b \in Int /\ (q <= a \div b <=> q * b <= a)
  OBVIOUS

LEMMA MicrosIs ==
    ASSUME NEW x \in Int
    PROVE  R!Micros(x) = x
  BY DEF R!Micros

\* A line between two numbers of VUs stays between them.
LEMMA LineBounds ==
    ASSUME NEW from \in Nat, NEW to \in Nat, NEW d \in Nat \ {0}, NEW x \in 0..d, NEW M \in Nat, from <= M, to <= M
    PROVE  (from * d + (to - from) * x) \div d \in 0..M
<1> DEFINE y == d - x
           a == from * d + (to - from) * x
<1>1. y \in Nat /\ x \in Nat /\ d = x + y
  OBVIOUS
<1>2. a = from * y + to * x
  <2>1. from * d = from * x + from * y
    <3> HIDE DEF y
    <3> QED BY <1>1
  <2>2. (to - from) * x = to * x - from * x
    BY <1>1
  <2> HIDE DEF y
  <2>3. QED
    BY <1>1, <2>1, <2>2
<1>3. from * y \in Nat /\ to * x \in Nat /\ from * y <= M * y /\ to * x <= M * x
  <2> HIDE DEF y
  <2> QED BY <1>1
<1>4. M * y + M * x = M * d
  <2> HIDE DEF y
  <2> QED BY <1>1
<1>5. a \in Int /\ 0 * d <= a /\ a <= M * d
  <2>1. M * y \in Int /\ M * x \in Int
    <3> HIDE DEF y
    <3> QED BY <1>1
  <2> HIDE DEF y, a
  <2>2. QED
    BY <1>2, <1>3, <1>4, <2>1
<1>6. (M + 1) * d > a
  <2>1. (M + 1) * d = M * d + d /\ M * d \in Int
    OBVIOUS
  <2> HIDE DEF a
  <2>2. QED
    BY <1>5, <2>1
<1> HIDE DEF a
<1>7. /\ a \div d \in Int /\ (0 <= a \div d <=> 0 * d <= a)
      /\ (M + 1 <= a \div d <=> (M + 1) * d <= a)
  BY <1>5, DivIsFloor
<1>8. ~((M + 1) * d <= a)
  <2>1. (M + 1) * d \in Int
    OBVIOUS
  <2>2. QED
    BY <1>5, <1>6, <2>1
<1> DEFINE n == a \div d
<1>9. n \in Int /\ 0 <= n /\ ~(M + 1 <= n)
  BY <1>5, <1>7, <1>8
<1>10. n \in 0..M
  <2> HIDE DEF n
  <2> QED BY <1>9
<1>11. QED
  BY <1>10 DEF a

\* The stages tell how many VUs are active: never more than the executor has.
LEMMA ActiveAtBounds ==
    ASSUME NEW p, IsRamp(p), NEW t \in Nat
    PROVE  R!activeAt(p, t) \in 0..R!MaxVUs(p)
<1> DEFINE N == Len(p.stages)
           live == {k \in 1..N : p.stages[k].duration > 0 /\ t < R!SegEnd(p, k)}
           M == R!MaxVUs(p)
<1>1. /\ N \in Nat \ {0} /\ R!StageIds(p) = 1..N /\ R!SegStart(p, 1) = 0
      /\ \A k \in 1..N : /\ R!SegStart(p, k) \in Nat /\ R!SegEnd(p, k) \in Nat
                         /\ R!SegEnd(p, k) = R!SegStart(p, k) + p.stages[k].duration
                         /\ p.stages[k].duration \in Nat /\ p.stages[k].target \in Nat /\ R!FromVUs(p, k) \in Nat
      /\ \A k \in 1..N : k # 1 => R!SegStart(p, k) = R!SegEnd(p, k - 1)
  BY Segments
<1>2. M \in Nat /\ \A k \in 1..N : p.stages[k].target <= M /\ R!FromVUs(p, k) <= M
  BY MaxVUsIs
<1>3. R!activeAt(p, t) =
        LET k  == R!Min(live)
            dd == R!Micros(p.stages[k].duration)
            x  == R!Micros(t - R!SegStart(p, k))
        IN  IF live = {} THEN 0
            ELSE IF dd = 0 THEN R!Panic
            ELSE (R!FromVUs(p, k) * dd + (p.stages[k].target - R!FromVUs(p, k)) * x) \div dd
  BY <1>1, Zenon DEF R!activeAt
<1>4. CASE live = {}
  <2>1. R!activeAt(p, t) = 0
    <3> HIDE DEF live
    <3> QED BY <1>3, <1>4
  <2>2. QED
    BY <1>2, <2>1
<1>5. CASE live # {}
  <2> DEFINE after == {k \in 1..N : t < R!SegEnd(p, k)}
             j == Min(live)
  <2>1. after \in SUBSET Nat /\ after # {} /\ live \in SUBSET Nat /\ live \in SUBSET after
    BY <1>1, <1>5
  <2>2. PICK m \in after : \A n \in after : m <= n
    <3> HIDE DEF after
    <3> QED BY <2>1, LeastNatural
  <2>3. R!SegStart(p, m) <= t
    <3>1. CASE m = 1
      BY <1>1, <3>1
    <3>2. CASE m # 1
      <4>1. m - 1 \in 1..N /\ m \in 1..N
        BY <1>1, <2>2, <3>2
      <4>2. m - 1 \notin after
        <5> HIDE DEF after
        <5> QED BY <1>1, <2>2, <4>1
      <4>3. R!SegStart(p, m) = R!SegEnd(p, m - 1) /\ R!SegEnd(p, m - 1) \in Nat
        BY <1>1, <3>2, <4>1
      <4>4. QED
        BY <1>1, <4>1, <4>2, <4>3
    <3>3. QED
      BY <3>1, <3>2
  <2>4. m \in live
    BY <1>1, <2>2, <2>3
  <2>5. j \in live /\ \A n \in live : j <= n
    <3> HIDE DEF live
    <3> QED BY <1>5, <2>1, MinIsLeast
  <2>6. j = m
    <3> HIDE DEF live, after, j
    <3> QED BY <2>1, <2>2, <2>4, <2>5
  <2>7. j \in 1..N /\ p.stages[j].duration > 0 /\ t < R!SegEnd(p, j) /\ R!SegStart(p, j) <= t
    <3>1. j \in live
      BY <2>5
    <3> HIDE DEF j
    <3>2. QED
      BY <2>3, <2>6, <3>1
  <2>8. R!Min(live) = j
    BY SameMax
  <2> HIDE DEF live, j
  <2> DEFINE d == p.stages[j].duration
             x == t - R!SegStart(p, j)
             from == R!FromVUs(p, j)
             to == p.stages[j].target
  <2>9. d \in Nat \ {0} /\ x \in 0..d /\ from \in Nat /\ to \in Nat /\ from <= M /\ to <= M
    <3>1. /\ d \in Nat /\ from \in Nat /\ to \in Nat /\ R!SegStart(p, j) \in Nat /\ R!SegEnd(p, j) = R!SegStart(p, j) + d
      BY <1>1, <2>7
    <3>2. from <= M /\ to <= M
      BY <1>2, <2>7
    <3>3. d > 0 /\ t < R!SegEnd(p, j) /\ R!SegStart(p, j) <= t
      BY <2>7
    <3> HIDE DEF d, from, to, M
    <3>4. QED
      BY <3>1, <3>2, <3>3
  <2>10. R!Micros(d) = d /\ R!Micros(x) = x
    <3> HIDE DEF d, x
    <3> QED BY <2>9, MicrosIs
  <2>11. R!activeAt(p, t) =
          IF R!Micros(d) = 0 THEN R!Panic ELSE (from * R!Micros(d) + (to - from) * R!Micros(x)) \div R!Micros(d)
    BY <1>3, <1>5, <2>8, Zenon
  <2>12. R!activeAt(p, t) = (from * d + (to - from) * x) \div d
    <3> HIDE DEF d, x, from, to
    <3> QED BY <2>9, <2>10, <2>11
  <2>13. (from * d + (to - from) * x) \div d \in 0..M
    <3> HIDE DEF d, x, from, to, M
    <3> QED BY <1>2, <2>9, LineBounds
  <2>14. QED
    BY <2>12, <2>13
<1>6. QED
  BY <1>4, <1>5

-----------------------------------------------------------------------------
(* When a VU is next active *)

\* The line of a stage of d ticks is at the level after q of them.
AtLevel(from, to, level, d, q) == from * d + (to - from) * q >= level * d

\* Where the line rises, or falls.
LEMMA LineMonotone ==
    ASSUME NEW from \in Nat, NEW to \in Nat, NEW level \in Nat, NEW d \in Nat, NEW q \in Nat, NEW r \in Nat, q <= r
    PROVE  /\ to >= from /\ AtLevel(from, to, level, d, q) => AtLevel(from, to, level, d, r)
           /\ to <= from /\ AtLevel(from, to, level, d, r) => AtLevel(from, to, level, d, q)
<1>1. to >= from => (to - from) * q <= (to - from) * r
  OBVIOUS
<1>2. to <= from => (to - from) * q >= (to - from) * r
  OBVIOUS
<1>3. QED
  BY <1>1, <1>2 DEF AtLevel

\* At its end the line is at its target.
LEMMA LineEnds ==
    ASSUME NEW from \in Nat, NEW to \in Nat, NEW level \in Nat, NEW d \in Nat \ {0}
    PROVE  AtLevel(from, to, level, d, d) <=> to >= level
<1>1. from * d + (to - from) * d = to * d
  OBVIOUS
<1>2. to * d >= level * d <=> to >= level
  OBVIOUS
<1>3. QED
  BY <1>1, <1>2 DEF AtLevel

\* The crossing of a rising line is the first tick at which it is at the level.
LEMMA Rising ==
    ASSUME NEW from \in Nat, NEW to \in Nat, NEW level \in Nat, NEW d \in Nat \ {0}, from < to, NEW q \in Int
    PROVE  /\ R!CeilDiv((level - from) * d, to - from) \in Int
           /\ R!CeilDiv((level - from) * d, to - from) <= q <=> AtLevel(from, to, level, d, q)
<1> DEFINE a == (level - from) * d
           b == to - from
<1>1. a \in Int /\ b \in Nat \ {0}
  OBVIOUS
<1>2. R!CeilDiv(a, b) \in Int /\ (R!CeilDiv(a, b) <= q <=> a <= q * b)
  <2> HIDE DEF a, b
  <2> QED BY <1>1 DEF R!CeilDiv
<1>3. a <= q * b <=> from * d + (to - from) * q >= level * d
  OBVIOUS
<1>4. QED
  BY <1>2, <1>3 DEF AtLevel

\* The tick that CrossingMicro gives on the way up to the level.
UpMicro(from, to, level, d) == IF to >= level THEN R!CeilDiv((level - from) * d, to - from) ELSE -1

\* From a tick at which the line is below the level, the crossing is a later one
\* at which it is not; without a crossing it stays below in this stage.
LEMMA CrossingUp ==
    ASSUME NEW from \in Nat, NEW to \in Nat, NEW level \in Nat, NEW d \in Nat \ {0}, NEW x \in 0..(d - 1),
           ~AtLevel(from, to, level, d, x),
           NEW dx, dx = UpMicro(from, to, level, d)
    PROVE  /\ dx \in Int /\ dx # -2
           /\ dx \in 0..(d - 1) => x < dx /\ AtLevel(from, to, level, d, dx)
           /\ dx \notin 0..(d - 1) => \A q \in x..(d - 1) : ~AtLevel(from, to, level, d, q)
<1>1. x \in Nat /\ x <= d /\ d \in Nat
  OBVIOUS
<1>2. CASE to >= level
  <2>1. from < to
    <3>1. SUFFICES ASSUME to <= from PROVE FALSE
      OBVIOUS
    <3>2. AtLevel(from, to, level, d, d)
      BY <1>2, LineEnds
    <3>3. AtLevel(from, to, level, d, x)
      BY <1>1, <3>1, <3>2, LineMonotone
    <3>4. QED
      BY <3>3
  <2>2. dx = R!CeilDiv((level - from) * d, to - from)
    BY <1>2, <2>1 DEF UpMicro
  <2>3. dx \in Int /\ \A q \in Int : dx <= q <=> AtLevel(from, to, level, d, q)
    <3>1. dx \in Int
      BY <2>1, <2>2, Rising
    <3>2. ASSUME NEW q \in Int PROVE dx <= q <=> AtLevel(from, to, level, d, q)
      BY <2>1, <2>2, Rising
    <3>3. QED
      BY <3>1, <3>2
  <2>4. ~(dx <= x)
    BY <1>1, <2>3
  <2>5. x < dx /\ dx # -2
    BY <1>1, <2>3, <2>4
  <2>6. AtLevel(from, to, level, d, dx)
    BY <2>3
  <2>7. \A q \in Int : q < dx => ~AtLevel(from, to, level, d, q)
    BY <2>3
  <2>8. dx \notin 0..(d - 1) => \A q \in x..(d - 1) : q < dx
    BY <1>1, <2>3, <2>5
  <2>9. QED
    BY <1>1, <2>3, <2>5, <2>6, <2>7, <2>8
<1>3. CASE to < level
  <2>1. dx = -1
    BY <1>3 DEF UpMicro
  <2>2. ~AtLevel(from, to, level, d, d)
    BY <1>3, LineEnds
  <2>3. ASSUME NEW q \in x..(d - 1) PROVE ~AtLevel(from, to, level, d, q)
    <3>1. q \in Nat /\ x <= q /\ q <= d
      BY <1>1
    <3>2. CASE to >= from
      BY <1>1, <2>2, <3>1, <3>2, LineMonotone
    <3>3. CASE to <= from
      BY <1>1, <2>2, <3>1, <3>3, LineMonotone
    <3>4. QED
      BY <3>2, <3>3
  <2>4. QED
    BY <2>1, <2>3
<1>4. QED
  BY <1>2, <1>3

\* The line of stage j is at the level of VU v at tick u.
Line(p, j, v, u) == AtLevel(R!FromVUs(p, j), p.stages[j].target, v + 1, p.stages[j].duration, u - R!SegStart(p, j))

\* Within stage j, r is a tick from t on at which VU v is active, or NoOffset and
\* there is none.
OnInStage(p, j, v, t, r) ==
    \/ /\ r = R!NoOffset
       /\ \A u \in Nat : t <= u /\ R!SegStart(p, j) <= u /\ u < R!SegEnd(p, j) => ~Line(p, j, v, u)
    \/ r \in Nat /\ t <= r /\ R!SegStart(p, j) <= r /\ r < R!SegEnd(p, j) /\ Line(p, j, v, r)

\* InStage looking for when VU v is active.
OnOffset(p, j, v, t) ==
    LET from == R!FromVUs(p, j)
        to   == p.stages[j].target
        S    == R!SegStart(p, j)
        d    == R!Micros(p.stages[j].duration)
        lo   == R!Max({t, S})
        dx   == UpMicro(from, to, v + 1, d)
    IN  IF p.stages[j].duration = 0 \/ R!SegEnd(p, j) <= t THEN R!NoOffset
        ELSE IF AtLevel(from, to, v + 1, d, R!Micros(lo - S)) THEN lo
        ELSE IF dx = R!Panic THEN R!Panic
        ELSE IF dx \in 0..(d - 1) THEN S + dx * 1
        ELSE R!NoOffset

LEMMA OnOffsetIs ==
    ASSUME NEW p, NEW v, NEW j, NEW t
    PROVE  R!InStage(p, j, v, t, TRUE) = OnOffset(p, j, v, t)
  BY DEF R!InStage, R!CrossingMicro, AtLevel, OnOffset, UpMicro

\* The larger of two.
LEMMA MaxOfTwo ==
    ASSUME NEW a \in Int, NEW b \in Int
    PROVE  Max({a, b}) \in Int /\ Max({a, b}) = IF a >= b THEN a ELSE b
<1> DEFINE m == IF a >= b THEN a ELSE b
<1>1. m \in {a, b} /\ \A y \in {a, b} : m >= y
  OBVIOUS
<1>2. Max({a, b}) \in {a, b} /\ \A y \in {a, b} : Max({a, b}) >= y
  <2> HIDE DEF m
  <2> QED BY <1>1, Zenon DEF Max
<1>3. QED
  BY <1>2

\* And that is what it finds.
LEMMA OnFound ==
    ASSUME NEW p, IsRamp(p), NEW v \in Nat, NEW j \in 1..Len(p.stages), NEW t \in Nat
    PROVE  OnInStage(p, j, v, t, OnOffset(p, j, v, t))
<1> DEFINE from == R!FromVUs(p, j)
           to   == p.stages[j].target
           S    == R!SegStart(p, j)
           E    == R!SegEnd(p, j)
           d    == p.stages[j].duration
           lo   == R!Max({t, S})
           x    == lo - S
           dx   == UpMicro(from, to, v + 1, d)
           r    == OnOffset(p, j, v, t)
<1>1. from \in Nat /\ to \in Nat /\ S \in Nat /\ E \in Nat /\ d \in Nat /\ E = S + d
  BY Segments
<1>2. lo \in Nat /\ lo = IF t >= S THEN t ELSE S
  BY <1>1, MaxOfTwo, SameMax
<1>3. R!Micros(d) = d /\ R!Micros(x) = x /\ x \in Int
  <2> HIDE DEF d, lo, S
  <2> QED BY <1>1, <1>2, MicrosIs
<1>4. r = IF d = 0 \/ E <= t THEN -1
          ELSE IF AtLevel(from, to, v + 1, d, x) THEN lo
          ELSE IF dx = -2 THEN -2
          ELSE IF dx \in 0..(d - 1) THEN S + dx * 1
          ELSE -1
  BY <1>3 DEF OnOffset, R!NoOffset, R!Panic
<1>5. \A u \in Nat : Line(p, j, v, u) <=> AtLevel(from, to, v + 1, d, u - S)
  BY DEF Line
<1>6. OnInStage(p, j, v, t, r) <=>
        \/ r = -1 /\ \A u \in Nat : t <= u /\ S <= u /\ u < E => ~Line(p, j, v, u)
        \/ r \in Nat /\ t <= r /\ S <= r /\ r < E /\ Line(p, j, v, r)
  BY DEF OnInStage, R!NoOffset
<1> DEFINE level == v + 1
<1>7. level \in Nat
  OBVIOUS
<1> HIDE DEF r, from, to, S, E, d, lo, dx, level
<1>8. CASE d = 0 \/ E <= t
  <2>1. r = -1
    BY <1>4, <1>8
  <2>2. \A u \in Nat : ~(t <= u /\ S <= u /\ u < E)
    BY <1>1, <1>8
  <2>3. QED
    BY <1>6, <2>1, <2>2 DEF r
<1>9. CASE d # 0 /\ E > t
  <2>1. lo \in Nat /\ S <= lo /\ lo < E /\ t <= lo /\ d \in Nat \ {0} /\ x \in 0..(d - 1)
    BY <1>1, <1>2, <1>9
  <2>2. CASE AtLevel(from, to, v + 1, d, x)
    <3>1. r = lo
      BY <1>1, <1>4, <1>9, <2>2
    <3>2. Line(p, j, v, r)
      BY <1>5, <2>1, <2>2, <3>1
    <3>3. QED
      BY <1>6, <2>1, <3>1, <3>2 DEF r
  <2>3. CASE ~AtLevel(from, to, v + 1, d, x)
    <3>1. /\ dx \in Int /\ dx # -2
          /\ dx \in 0..(d - 1) => x < dx /\ AtLevel(from, to, level, d, dx)
          /\ dx \notin 0..(d - 1) => \A q \in x..(d - 1) : ~AtLevel(from, to, level, d, q)
      <4>1. dx = UpMicro(from, to, level, d) /\ ~AtLevel(from, to, level, d, x)
        BY <2>3 DEF level, dx
      <4> HIDE DEF x
      <4>2. QED
        BY <1>1, <1>7, <2>1, <4>1, CrossingUp
    <3>2. r = IF dx \in 0..(d - 1) THEN S + dx * 1 ELSE -1
      BY <1>1, <1>4, <1>9, <2>3, <3>1
    <3>3. CASE dx \in 0..(d - 1)
      <4>1. r = S + dx /\ dx \in Nat /\ dx < d /\ r - S = dx
        BY <1>1, <3>2, <3>3
      <4>2. r \in Nat /\ S <= r /\ r < E /\ lo < r
        BY <1>1, <2>1, <3>1, <3>3, <4>1
      <4>3. Line(p, j, v, r)
        BY <1>5, <3>1, <3>3, <4>1, <4>2 DEF level
      <4>4. t <= r
        BY <1>1, <2>1, <4>2
      <4>5. QED
        BY <1>6, <4>2, <4>3, <4>4 DEF r
    <3>4. CASE dx \notin 0..(d - 1)
      <4>1. r = -1
        BY <3>2, <3>4
      <4>2. ASSUME NEW u \in Nat, t <= u, S <= u, u < E PROVE ~Line(p, j, v, u)
        <5>1. u - S \in x..(d - 1)
          BY <1>1, <1>2, <2>1, <4>2
        <5>2. ~AtLevel(from, to, level, d, u - S)
          BY <3>1, <3>4, <5>1
        <5>3. QED
          BY <1>5, <5>2 DEF level
      <4>3. QED
        BY <1>6, <4>1, <4>2 DEF r
    <3>5. QED
      BY <3>3, <3>4
  <2>4. QED
    BY <2>2, <2>3
<1>10. QED
  BY <1>1, <1>8, <1>9 DEF r

\* next looking for when VU v is active.
NextOn(p, v, t) == R!next(p, v, t, TRUE)
CrossOn(p, v, t) == R!crossing(p, v, t, TRUE)

\* It finds a tick from t on, or no stage has one.
LEMMA NextOnIs ==
    ASSUME NEW p, IsRamp(p), NEW v \in Nat, NEW t \in Nat
    PROVE  \/ NextOn(p, v, t) = R!NoOffset /\ \A j \in 1..Len(p.stages) : OnOffset(p, j, v, t) = R!NoOffset
           \/ /\ NextOn(p, v, t) \in Nat /\ t <= NextOn(p, v, t)
              /\ \E j \in 1..Len(p.stages) : OnOffset(p, j, v, t) # R!NoOffset
<1> DEFINE N == Len(p.stages)
           hits == {j \in 1..N : OnOffset(p, j, v, t) # R!NoOffset}
           m == Min(hits)
           c == CrossOn(p, v, t)
           n == NextOn(p, v, t)
<1>1. /\ N \in Nat /\ R!StageIds(p) = 1..N /\ R!PlanLength(p) \in Nat
      /\ \A j \in 1..N : R!SegEnd(p, j) \in Nat /\ R!SegEnd(p, j) <= R!PlanLength(p)
  BY Segments
<1>2. \A j : R!InStage(p, j, v, t, TRUE) = OnOffset(p, j, v, t)
  BY OnOffsetIs
<1>3. {j \in R!StageIds(p) : R!InStage(p, j, v, t, TRUE) # R!NoOffset} = hits
  <2> DEFINE found == {j \in R!StageIds(p) : R!InStage(p, j, v, t, TRUE) # R!NoOffset}
  <2>1. \A j : j \in found <=> j \in R!StageIds(p) /\ R!InStage(p, j, v, t, TRUE) # R!NoOffset
    BY Zenon
  <2>2. \A j : j \in hits <=> j \in 1..N /\ OnOffset(p, j, v, t) # R!NoOffset
    BY Zenon
  <2>3. \A j : j \in found <=> j \in hits
    <3> HIDE DEF found, hits, N
    <3> QED BY <1>1, <1>2, <2>1, <2>2, Zenon
  <2>4. found = hits
    <3> HIDE DEF found, hits
    <3> QED BY <2>3, Zenon
  <2>5. QED
    BY <2>4
<1>4. c = IF hits = {} THEN R!NoOffset ELSE OnOffset(p, m, v, t)
  <2>1. c = IF hits = {} THEN R!NoOffset ELSE R!InStage(p, R!Min(hits), v, t, TRUE)
    <3> HIDE DEF hits
    <3> QED BY <1>3, Zenon DEF R!crossing, CrossOn
  <2>2. R!InStage(p, R!Min(hits), v, t, TRUE) = OnOffset(p, R!Min(hits), v, t)
    BY <1>2, Zenon
  <2>3. R!Min(hits) = m
    BY SameMax, Zenon
  <2>4. QED
    BY <2>1, <2>2, <2>3, Zenon
<1>5. n = IF c >= R!PlanLength(p) THEN R!NoOffset ELSE c
  BY Zenon DEF R!next, NextOn, CrossOn
<1>6. CASE hits = {}
  <2>1. c = R!NoOffset
    BY <1>4, <1>6, Zenon
  <2>2. n = R!NoOffset
    <3> HIDE DEF n, c
    <3> QED BY <1>5, <2>1
  <2>3. QED
    BY <1>6, <2>2
<1>7. CASE hits # {}
  <2>1. m \in hits
    <3>1. hits \in SUBSET Nat
      BY <1>1
    <3> HIDE DEF hits
    <3>2. QED
      BY <1>7, <3>1, MinIsLeast
  <2>2. m \in 1..N /\ OnOffset(p, m, v, t) # R!NoOffset
    BY <2>1
  <2>3. c = OnOffset(p, m, v, t)
    BY <1>4, <1>7, Zenon
  <2> HIDE DEF m
  <2>4. OnInStage(p, m, v, t, c)
    BY <2>2, <2>3, OnFound
  <2>5. c \in Nat /\ t <= c /\ c < R!SegEnd(p, m)
    BY <2>2, <2>3, <2>4 DEF OnInStage
  <2>6. ~(c >= R!PlanLength(p))
    <3> HIDE DEF c
    <3> QED BY <1>1, <2>2, <2>5
  <2>7. n = c
    BY <1>5, <2>6, Zenon
  <2> HIDE DEF n, c
  <2>8. n \in Nat /\ t <= n
    BY <2>5, <2>7
  <2>9. QED
    BY <2>2, <2>8 DEF n
<1>8. QED
  BY <1>6, <1>7, Zenon

\* A VU that is never active again at one tick is not at a later one.
LEMMA NeverAgain ==
    ASSUME NEW p, IsRamp(p), NEW v \in Nat, NEW t \in Nat, NEW u \in Nat, t <= u,
           NextOn(p, v, t) = R!NoOffset
    PROVE  NextOn(p, v, u) = R!NoOffset
<1>1. \A j \in 1..Len(p.stages) : OnOffset(p, j, v, t) = R!NoOffset
  <2>1. R!NoOffset \notin Nat
    BY DEF R!NoOffset
  <2>2. QED
    BY <2>1, NextOnIs
<1>2. ASSUME NEW j \in 1..Len(p.stages) PROVE OnOffset(p, j, v, u) = R!NoOffset
  <2> DEFINE r == OnOffset(p, j, v, u)
  <2>1. R!NoOffset \notin Nat
    BY DEF R!NoOffset
  <2>2. OnInStage(p, j, v, t, R!NoOffset)
    BY <1>1, OnFound
  <2>3. \A w \in Nat : t <= w /\ R!SegStart(p, j) <= w /\ w < R!SegEnd(p, j) => ~Line(p, j, v, w)
    BY <2>1, <2>2 DEF OnInStage
  <2>4. OnInStage(p, j, v, u, r)
    BY OnFound
  <2> HIDE DEF r
  <2>5. ~(r \in Nat /\ u <= r /\ R!SegStart(p, j) <= r /\ r < R!SegEnd(p, j) /\ Line(p, j, v, r))
    BY <2>3
  <2>6. QED
    BY <2>4, <2>5 DEF OnInStage, r
<1>3. QED
  BY <1>2, NextOnIs

-----------------------------------------------------------------------------
(* What the options resolve to *)

\* A scenario as the engine gets it.
GoodScenario(s) ==
    /\ s.executor \in Kinds /\ s.startTime \in Nat /\ s.gracefulStop \in Nat
    /\ s.executor = "constant-vus" => s.vus \in Nat \ {0} /\ s.duration \in Nat \ {0}
    /\ s.executor = "ramping-vus" =>
         /\ s.startVUs \in Nat /\ s.stages \in Seq(StageSet) /\ s.stages # <<>>
         /\ s.gracefulRampDown \in Nat /\ Length(s) > 0 /\ MaxVUs(s) >= 1
    /\ s.executor = "constant-arrival-rate" =>
         /\ s.rate \in Nat \ {0} /\ s.timeUnit \in Nat \ {0}
         /\ s.duration \in Nat \ {0} /\ s.preAllocatedVUs \in Nat \ {0}

\* The fields of the executors, one by one.
LEMMA FieldsAre ==
    /\ DOMAIN Allowed = Kinds
    /\ Allowed["constant-vus"] = {"vus", "duration"}
    /\ Allowed["ramping-vus"] = {"startVUs", "stages", "gracefulRampDown"}
    /\ Allowed["constant-arrival-rate"] = {"rate", "timeUnit", "duration", "preAllocatedVUs", "maxVUs"}
    /\ ExecutorFields = {"vus", "duration", "startVUs", "stages", "gracefulRampDown",
                         "rate", "timeUnit", "preAllocatedVUs", "maxVUs"}
<1>1. /\ DOMAIN Allowed = Kinds
      /\ Allowed["constant-vus"] = {"vus", "duration"}
      /\ Allowed["ramping-vus"] = {"startVUs", "stages", "gracefulRampDown"}
      /\ Allowed["constant-arrival-rate"] = {"rate", "timeUnit", "duration", "preAllocatedVUs", "maxVUs"}
  BY DEF Allowed, Kinds
<1>2. ExecutorFields = Allowed["constant-vus"] \cup Allowed["ramping-vus"] \cup Allowed["constant-arrival-rate"]
  BY <1>1 DEF ExecutorFields, Kinds
<1>3. QED
  BY <1>1, <1>2

LEMMA OptionalElse ==
    ASSUME NEW x, NEW S, OptionalOf(x, S), NEW def \in S
    PROVE  OrElse(x, def) \in S
  BY DEF OptionalOf, OrElse

\* The fields of a completed scenario.
LEMMA CompleteFields ==
    ASSUME NEW name, NEW o
    PROVE  LET s == Complete(name, o)
           IN  /\ s.executor = o.executor /\ s.startTime = OrElse(o.startTime, 0) /\ s.exec = OrElse(o.exec, "default")
               /\ s.gracefulStop = OrElse(o.gracefulStop, DefaultGracefulStop)
               /\ s.vus = IF o.executor = "constant-vus" THEN OrElse(o.vus, 1) ELSE 0
               /\ s.duration = OrElse(o.duration, 0)
               /\ s.startVUs = IF o.executor = "ramping-vus" THEN OrElse(o.startVUs, 1) ELSE 0
               /\ s.stages = OrElse(o.stages, <<>>)
               /\ s.gracefulRampDown = IF o.executor = "ramping-vus"
                                       THEN OrElse(o.gracefulRampDown, DefaultGracefulRampDown) ELSE 0
               /\ s.rate = OrElse(o.rate, 0)
               /\ s.timeUnit = IF o.executor = "constant-arrival-rate" THEN OrElse(o.timeUnit, DefaultTimeUnit) ELSE 0
               /\ s.preAllocatedVUs = OrElse(o.preAllocatedVUs, 0)
  BY DEF Complete

LEMMA CompleteTypes ==
    ASSUME NEW name, NEW o, ScenarioTyped(o)
    PROVE  LET s == Complete(name, o)
           IN  /\ s.startTime \in Int /\ s.gracefulStop \in Int /\ s.duration \in Int
               /\ s.rate \in Int /\ s.preAllocatedVUs \in Int /\ s.stages \in Stages
               /\ o.executor = "constant-vus" => s.vus \in Int
               /\ o.executor = "ramping-vus" => s.startVUs \in Int /\ s.gracefulRampDown \in Int
               /\ o.executor = "constant-arrival-rate" => s.timeUnit \in Int
<1> DEFINE s == Complete(name, o)
<1>1. /\ OptionalOf(o.stages, Stages) /\ OptionalOf(o.startTime, Int) /\ OptionalOf(o.gracefulStop, Int)
      /\ OptionalOf(o.vus, Int) /\ OptionalOf(o.duration, Int) /\ OptionalOf(o.startVUs, Int)
      /\ OptionalOf(o.gracefulRampDown, Int) /\ OptionalOf(o.rate, Int) /\ OptionalOf(o.timeUnit, Int)
      /\ OptionalOf(o.preAllocatedVUs, Int)
  BY FieldsAre DEF ScenarioTyped
<1>2. <<>> \in Stages
  BY EmptySeq DEF Stages
<1>3. /\ OrElse(o.startTime, 0) \in Int /\ OrElse(o.gracefulStop, DefaultGracefulStop) \in Int
      /\ OrElse(o.vus, 1) \in Int /\ OrElse(o.duration, 0) \in Int /\ OrElse(o.startVUs, 1) \in Int
      /\ OrElse(o.stages, <<>>) \in Stages
      /\ OrElse(o.gracefulRampDown, DefaultGracefulRampDown) \in Int /\ OrElse(o.rate, 0) \in Int
      /\ OrElse(o.timeUnit, DefaultTimeUnit) \in Int /\ OrElse(o.preAllocatedVUs, 0) \in Int
  <2>1. OrElse(o.stages, <<>>) \in Stages
    BY <1>1, <1>2, OptionalElse
  <2>2. \A x : \A def \in Int : OptionalOf(x, Int) => OrElse(x, def) \in Int
    BY OptionalElse
  <2>3. DefaultGracefulStop \in Int /\ DefaultGracefulRampDown \in Int /\ DefaultTimeUnit \in Int
    BY DEF DefaultGracefulStop, DefaultGracefulRampDown, DefaultTimeUnit
  <2>4. QED
    BY <1>1, <2>1, <2>2, <2>3
<1>4. QED
  BY <1>3, CompleteFields

\* Stages that are not negative.
LEMMA NatStages ==
    ASSUME NEW st \in Stages, \A j \in DOMAIN st : st[j].duration >= 0 /\ st[j].target >= 0
    PROVE  st \in Seq(StageSet)
<1> DEFINE Any == [duration : Int, target : Int]
<1>1. st \in Seq(Any)
  BY DEF Stages
<1>2. Len(st) \in Nat /\ DOMAIN st = 1..Len(st) /\ st \in [1..Len(st) -> Any]
  BY <1>1, LenProperties
<1>3. \A j \in 1..Len(st) : st[j] \in StageSet
  <2> TAKE j \in 1..Len(st)
  <2>1. st[j] \in Any
    BY <1>2
  <2>2. st[j].duration \in Nat /\ st[j].target \in Nat
    BY <1>2, <2>1
  <2>3. QED
    BY <2>1, <2>2 DEF StageSet
<1>4. st \in [1..Len(st) -> StageSet]
  BY <1>2, <1>3
<1>5. QED
  BY <1>2, <1>4, SeqDef

\* MaxVUs and Length go by what they need, not by the scenario's name.
LEMMA SameMeasures ==
    ASSUME NEW s, NEW t, s.executor = t.executor, s.startVUs = t.startVUs, s.stages = t.stages,
           s.preAllocatedVUs = t.preAllocatedVUs, s.vus = t.vus, s.duration = t.duration
    PROVE  MaxVUs(s) = MaxVUs(t) /\ Length(s) = Length(t)
  BY DEF MaxVUs, Length

\* resolveScenario's checks are what the engine needs.
LEMMA CompleteGood ==
    ASSUME NEW name, NEW o, ScenarioTyped(o), ScenarioValid(o)
    PROVE  GoodScenario(Complete(name, o)) /\ o.executor \in Kinds
<1> DEFINE s == Complete(0, o)
           t == Complete(name, o)
<1>1. /\ s.startTime >= 0 /\ s.gracefulStop >= 0 /\ o.executor \in Kinds /\ ExecutorValid(s, o)
  BY FieldsAre DEF ScenarioValid
<1>2. /\ s.executor = o.executor /\ t.executor = o.executor
      /\ s.startTime = t.startTime /\ s.gracefulStop = t.gracefulStop /\ s.vus = t.vus /\ s.duration = t.duration
      /\ s.startVUs = t.startVUs /\ s.stages = t.stages /\ s.gracefulRampDown = t.gracefulRampDown
      /\ s.rate = t.rate /\ s.timeUnit = t.timeUnit /\ s.preAllocatedVUs = t.preAllocatedVUs
  <2>1. s.executor = o.executor /\ t.executor = o.executor
    BY CompleteFields
  <2>2. s.startTime = t.startTime /\ s.gracefulStop = t.gracefulStop /\ s.vus = t.vus /\ s.duration = t.duration
    BY CompleteFields
  <2>3. s.startVUs = t.startVUs /\ s.stages = t.stages /\ s.gracefulRampDown = t.gracefulRampDown
    BY CompleteFields
  <2>4. s.rate = t.rate /\ s.timeUnit = t.timeUnit /\ s.preAllocatedVUs = t.preAllocatedVUs
    BY CompleteFields
  <2>5. QED
    BY <2>1, <2>2, <2>3, <2>4
<1>3. /\ t.startTime \in Int /\ t.gracefulStop \in Int /\ t.duration \in Int
      /\ t.rate \in Int /\ t.preAllocatedVUs \in Int /\ t.stages \in Stages
      /\ o.executor = "constant-vus" => t.vus \in Int
      /\ o.executor = "ramping-vus" => t.startVUs \in Int /\ t.gracefulRampDown \in Int
      /\ o.executor = "constant-arrival-rate" => t.timeUnit \in Int
  BY CompleteTypes
<1>4. MaxVUs(s) = MaxVUs(t) /\ Length(s) = Length(t)
  <2> HIDE DEF s, t
  <2> QED BY <1>2, SameMeasures
<1> HIDE DEF s, t
<1>5. t.startTime \in Nat /\ t.gracefulStop \in Nat
  BY <1>1, <1>2, <1>3
<1>6. CASE o.executor = "constant-vus"
  <2>1. t.vus \in Nat \ {0} /\ t.duration \in Nat \ {0}
    BY <1>1, <1>2, <1>3, <1>6 DEF ExecutorValid
  <2>2. QED
    BY <1>1, <1>2, <1>5, <1>6, <2>1 DEF GoodScenario, t
<1>7. CASE o.executor = "ramping-vus"
  <2>1. RampingValid(s)
    BY <1>1, <1>2, <1>7 DEF ExecutorValid
  <2>2. /\ t.startVUs >= 0 /\ t.gracefulRampDown >= 0 /\ t.stages # <<>>
        /\ \A j \in DOMAIN t.stages : t.stages[j].duration >= 0 /\ t.stages[j].target >= 0
        /\ Length(t) > 0 /\ MaxVUs(t) >= 1
    BY <1>2, <1>4, <2>1 DEF RampingValid
  <2>3. t.stages \in Seq(StageSet)
    BY <1>3, <2>2, NatStages
  <2>4. t.startVUs \in Nat /\ t.gracefulRampDown \in Nat
    BY <1>3, <1>7, <2>2
  <2>5. QED
    BY <1>1, <1>2, <1>5, <1>7, <2>2, <2>3, <2>4 DEF GoodScenario, t
<1>8. CASE o.executor = "constant-arrival-rate"
  <2>1. s.rate >= 1 /\ s.duration > 0 /\ s.preAllocatedVUs >= 1 /\ s.timeUnit > 0
    BY <1>1, <1>2, <1>8 DEF ExecutorValid
  <2>2. QED
    BY <1>1, <1>2, <1>3, <1>5, <1>8, <2>1 DEF GoodScenario, t
<1>9. QED
  BY <1>1, <1>6, <1>7, <1>8 DEF Kinds

\* No field is set.
LEMMA NoFieldsAre ==
    /\ DOMAIN NoFields = ExecutorFields \cup {"executor", "exec", "startTime", "gracefulStop", "unknown"}
    /\ \A f \in ExecutorFields \cup {"exec", "startTime", "gracefulStop"} : NoFields[f] = <<>>
  BY FieldsAre DEF NoFields

LEMMA ShorthandFields ==
    ASSUME NEW vus, NEW dur, NEW gs
    PROVE  LET s == Shorthand(vus, dur, gs)
           IN  /\ s.executor = "constant-vus" /\ s.vus = vus /\ s.duration = dur /\ s.gracefulStop = gs
               /\ s.startTime = 0 /\ s.exec = "default"
<1> DEFINE o == [NoFields EXCEPT !.executor = "constant-vus", !.vus = <<vus>>,
                                 !.duration = <<dur>>, !.gracefulStop = <<gs>>]
<1>1. /\ o.executor = "constant-vus" /\ o.vus = <<vus>> /\ o.duration = <<dur>> /\ o.gracefulStop = <<gs>>
      /\ o.startTime = <<>> /\ o.exec = <<>>
  BY NoFieldsAre, FieldsAre
<1>2. Shorthand(vus, dur, gs) = Complete("default", o)
  BY DEF Shorthand
<1> HIDE DEF o
<1>3. <<vus>> # <<>> /\ <<dur>> # <<>> /\ <<gs>> # <<>>
  OBVIOUS
<1>4. QED
  BY <1>1, <1>2, <1>3, CompleteFields DEF OrElse

LEMMA ShorthandGood ==
    ASSUME NEW vus \in Int, vus >= 1, NEW dur \in Int, dur > 0, NEW gs \in Int, gs >= 0
    PROVE  GoodScenario(Shorthand(vus, dur, gs))
<1> DEFINE s == Shorthand(vus, dur, gs)
<1>1. /\ s.executor = "constant-vus" /\ s.vus = vus /\ s.duration = dur /\ s.gracefulStop = gs
      /\ s.startTime = 0
  BY ShorthandFields
<1> HIDE DEF s
<1>2. QED
  BY <1>1 DEF GoodScenario, Kinds, s

\* The scenario that options.stages stands for.
LEMMA RampFields ==
    ASSUME NEW scr, NEW vus, NEW gs
    PROVE  LET o == StagesScenario(scr, vus, gs)
           IN  /\ o.executor = "ramping-vus" /\ o.startVUs = <<vus>> /\ o.stages = scr.stages
               /\ o.gracefulStop = <<gs>> /\ o.startTime = <<>> /\ o.exec = <<>>
               /\ \A f \in ExecutorFields \ {"startVUs", "stages"} : o[f] = <<>>
  BY NoFieldsAre, FieldsAre DEF StagesScenario

LEMMA RampTyped ==
    ASSUME NEW scr, OptionalOf(scr.stages, Stages), NEW vus \in Int, NEW gs \in Int
    PROVE  ScenarioTyped(StagesScenario(scr, vus, gs))
<1> DEFINE o == StagesScenario(scr, vus, gs)
<1>1. /\ o.startVUs = <<vus>> /\ o.stages = scr.stages
      /\ o.gracefulStop = <<gs>> /\ o.startTime = <<>>
      /\ \A f \in ExecutorFields \ {"startVUs", "stages"} : o[f] = <<>>
  BY RampFields
<1>2. o["startVUs"] = <<vus>> /\ o["gracefulStop"] = <<gs>> /\ o["startTime"] = <<>>
  BY <1>1
<1> HIDE DEF o
<1>3. OptionalOf(<<>>, Int) /\ OptionalOf(<<vus>>, Int) /\ OptionalOf(<<gs>>, Int)
  BY DEF OptionalOf
<1>4. ASSUME NEW f \in (ExecutorFields \ {"stages"}) \cup {"startTime", "gracefulStop"} PROVE OptionalOf(o[f], Int)
  <2>1. f \in ExecutorFields \ {"startVUs", "stages"} \/ f = "startVUs" \/ f = "startTime" \/ f = "gracefulStop"
    BY <1>4
  <2>2. o[f] = <<>> \/ o[f] = <<vus>> \/ o[f] = <<gs>>
    BY <1>1, <1>2, <2>1
  <2>3. QED
    BY <1>3, <2>2
<1>5. OptionalOf(o.stages, Stages)
  BY <1>1
<1>6. QED
  BY <1>4, <1>5 DEF ScenarioTyped, o

\* The values of vus and duration, whoever sets them.
ScriptOf(x)   == ParseOptions(x.options)
VUsOf(x)      == Choose(x.cli.vus, x.env.vus, ScriptOf(x).vus, DefaultVUs).value
DurationOf(x) == Choose(x.cli.duration, x.env.duration, ScriptOf(x).duration, DefaultDuration).value
ResolvedOf(x) == Resolve(x.cli, x.env, ScriptOf(x), x.gracefulStop)

ShorthandOf(x) == <<Shorthand(VUsOf(x), DurationOf(x), x.gracefulStop)>>
RampOf(x)      == StagesScenario(ScriptOf(x), VUsOf(x), x.gracefulStop)
ListedOf(x)    == ScriptOf(x).scenarios[1]

\* What the script sets is of its type.
LEMMA ScriptTyped ==
    ASSUME NEW x, InputTyped(x), ~ParseFails(x.options)
    PROVE  /\ OptionalOf(ScriptOf(x).vus, Int) /\ OptionalOf(ScriptOf(x).duration, Int)
           /\ OptionalOf(ScriptOf(x).stages, Stages)
           /\ IsSet(ScriptOf(x).scenarios) =>
                /\ Len(ListedOf(x)) \in Nat /\ DOMAIN ListedOf(x) = 1..Len(ListedOf(x))
                /\ ListedOf(x) = [i \in 1..Len(ListedOf(x)) |-> ListedOf(x)[i]]
                /\ \A i \in DOMAIN ListedOf(x) : ScenarioTyped(ListedOf(x)[i])
<1> DEFINE o == x.options
           sc == ScriptOf(x)
<1>1. /\ "vus" \in KnownOptions /\ "duration" \in KnownOptions /\ "stages" \in KnownOptions /\ "scenarios" \in KnownOptions
      /\ "duration" \in RejectsNull /\ "scenarios" \in RejectsNull
  BY DEF KnownOptions, RejectsNull
<1>2. /\ o.vus.is # "wrong" /\ o.duration.is \notin {"wrong", "null"} /\ o.stages.is # "wrong"
      /\ o.scenarios.is \notin {"wrong", "null"}
      /\ o.scenarios.is = "given" => \A i \in DOMAIN o.scenarios.value : o.scenarios.value[i].is = "given"
  BY <1>1 DEF ParseFails
<1>3. /\ o.vus.is \in {"absent", "null", "given"} /\ o.stages.is \in {"absent", "null", "given"}
      /\ o.duration.is \in {"absent", "given"} /\ o.scenarios.is \in {"absent", "given"}
  BY <1>1, <1>2 DEF InputTyped
<1>4. /\ sc.vus = IF o.vus.is = "absent" THEN <<>> ELSE IF o.vus.is = "null" THEN <<0>> ELSE <<o.vus.value>>
      /\ sc.duration = IF o.duration.is = "absent" THEN <<>> ELSE <<o.duration.value>>
      /\ sc.stages = IF o.stages.is = "absent" THEN <<>> ELSE IF o.stages.is = "null" THEN <<<<>>>> ELSE <<o.stages.value>>
  <2>1. sc.vus = IF o.vus.is = "absent" THEN <<>> ELSE IF o.vus.is = "null" THEN <<0>> ELSE <<o.vus.value>>
    BY <1>1 DEF ScriptOf, ParseOptions, Zero
  <2>2. sc.duration = IF o.duration.is = "absent" THEN <<>> ELSE <<o.duration.value>>
    BY <1>1, <1>3 DEF ScriptOf, ParseOptions
  <2>3. sc.stages = IF o.stages.is = "absent" THEN <<>> ELSE IF o.stages.is = "null" THEN <<<<>>>> ELSE <<o.stages.value>>
    BY <1>1 DEF ScriptOf, ParseOptions, Zero
  <2>4. QED
    BY <2>1, <2>2, <2>3
<1>5. sc.scenarios = IF o.scenarios.is = "absent" THEN <<>>
                     ELSE <<[i \in DOMAIN o.scenarios.value |-> o.scenarios.value[i].value]>>
  BY <1>1, <1>3 DEF ScriptOf, ParseOptions
<1>6. /\ o.vus.is = "given" => o.vus.value \in Int
      /\ o.duration.is = "given" => o.duration.value \in Int
      /\ o.stages.is = "given" => o.stages.value \in Stages
  BY DEF InputTyped
<1>7. OptionalOf(sc.vus, Int) /\ OptionalOf(sc.duration, Int)
  <2> HIDE DEF sc
  <2> QED BY <1>3, <1>4, <1>6 DEF OptionalOf
<1>8. OptionalOf(sc.stages, Stages)
  <2>1. <<>> \in Stages
    BY EmptySeq DEF Stages
  <2> HIDE DEF sc
  <2>2. QED
    BY <1>3, <1>4, <1>6, <2>1 DEF OptionalOf
<1>9. ASSUME IsSet(sc.scenarios)
      PROVE  /\ Len(ListedOf(x)) \in Nat /\ DOMAIN ListedOf(x) = 1..Len(ListedOf(x))
             /\ ListedOf(x) = [i \in 1..Len(ListedOf(x)) |-> ListedOf(x)[i]]
             /\ \A i \in DOMAIN ListedOf(x) : ScenarioTyped(ListedOf(x)[i])
  <2> DEFINE raw == o.scenarios.value
             l == [i \in DOMAIN raw |-> raw[i].value]
  <2>1. o.scenarios.is = "given"
    BY <1>3, <1>5, <1>9 DEF IsSet
  <2>2. ListedOf(x) = l
    BY <1>5, <2>1 DEF ListedOf
  <2>3. /\ Len(raw) \in Nat /\ DOMAIN raw = 1..Len(raw)
        /\ \A i \in DOMAIN raw : raw[i].is = "given" => ScenarioTyped(raw[i].value)
    BY <2>1 DEF InputTyped
  <2>4. DOMAIN l = 1..Len(raw) /\ l = [i \in 1..Len(raw) |-> l[i]] /\ \A i \in DOMAIN l : ScenarioTyped(l[i])
    BY <1>2, <2>1, <2>3
  <2> HIDE DEF l, raw
  <2>5. l \in Seq({l[i] : i \in 1..Len(raw)}) /\ Len(l) = Len(raw)
    <3>1. l \in [1..Len(raw) -> {l[i] : i \in 1..Len(raw)}]
      BY <2>4
    <3>2. QED
      BY <2>3, <3>1, SeqDef, LenProperties
  <2>6. QED
    BY <2>2, <2>3, <2>4, <2>5
<1>10. QED
  BY <1>7, <1>8, <1>9

LEMMA ChooseTyped ==
    ASSUME NEW flag, OptionalOf(flag, Int), NEW env, env.is = "given" => env.value \in Int,
           NEW option, OptionalOf(option, Int), NEW def \in Int
    PROVE  Choose(flag, env, option, def).value \in Int
  BY DEF Choose, OptionalOf, IsSet

\* What Resolve gives when it accepts: the shorthand alone or in place of what the
\* script had, the stages, or the script's scenarios.
Outcome(x, sc, rep) ==
    \/ /\ sc = ShorthandOf(x) /\ rep = FALSE
       /\ ~IsSet(ScriptOf(x).scenarios) /\ ~IsSet(ScriptOf(x).stages)
    \/ /\ sc = ShorthandOf(x) /\ rep = TRUE /\ Override(x.cli, x.env)
       /\ IsSet(ScriptOf(x).scenarios) \/ IsSet(ScriptOf(x).stages)
    \/ /\ sc = <<Complete("default", RampOf(x))>> /\ rep = FALSE /\ ~Override(x.cli, x.env)
       /\ ~IsSet(ScriptOf(x).scenarios) /\ IsSet(ScriptOf(x).stages) /\ ScenarioValid(RampOf(x))
    \/ /\ sc = [i \in DOMAIN ListedOf(x) |-> Complete(i, ListedOf(x)[i])] /\ rep = FALSE /\ ~Override(x.cli, x.env)
       /\ IsSet(ScriptOf(x).scenarios) /\ ListedOf(x) # <<>>
       /\ \A i \in DOMAIN ListedOf(x) : ScenarioValid(ListedOf(x)[i])

LEMMA ResolveOutcome ==
    ASSUME NEW x, ResolvedOf(x).ok = TRUE
    PROVE  LET r == ResolvedOf(x)
           IN  /\ Outcome(x, r.scenarios, r.replaced)
               /\ VUsOf(x) >= 1 /\ DurationOf(x) > 0 /\ x.gracefulStop >= 0
               /\ r.VUs = SumSeq([i \in DOMAIN r.scenarios |-> MaxVUs(r.scenarios[i])])
               /\ r.Duration = Max({r.scenarios[i].startTime + Length(r.scenarios[i]) : i \in DOMAIN r.scenarios})
<1> DEFINE scr == ScriptOf(x)
           vus == Choose(x.cli.vus, x.env.vus, scr.vus, DefaultVUs)
           dur == Choose(x.cli.duration, x.env.duration, scr.duration, DefaultDuration)
           q   == resolveScenarios(scr, Override(x.cli, x.env), vus.value, dur.value, x.gracefulStop)
           c   == [ok |-> TRUE, scenarios |-> q.scenarios, replaced |-> q.replaced,
                   VUs       |-> SumSeq([i \in DOMAIN q.scenarios |-> MaxVUs(q.scenarios[i])]),
                   Duration  |-> Max({q.scenarios[i].startTime + Length(q.scenarios[i]) : i \in DOMAIN q.scenarios}),
                   discardResponseBodies |-> OrElse(scr.discardResponseBodies, TRUE),
                   noCookiesReset        |-> OrElse(scr.noCookiesReset, FALSE),
                   noConnectionReuse     |-> OrElse(scr.noConnectionReuse, FALSE),
                   httpVersion           |-> OrElse(scr.httpVersion, "auto"),
                   setupTimeout          |-> OrElse(scr.setupTimeout, DefaultLifecycleTimeout),
                   teardownTimeout       |-> OrElse(scr.teardownTimeout, DefaultLifecycleTimeout)]
           cond == /\ vus.value >= 1 /\ dur.value > 0
                   /\ q.ok
                   /\ c.setupTimeout > 0 /\ c.teardownTimeout > 0
                   /\ Validate(c, x.gracefulStop)
           r == ResolvedOf(x)
<1>1. r = IF cond THEN c ELSE Rejected
  BY Zenon DEF ResolvedOf, Resolve
<1>2. Rejected.ok # TRUE
  BY DEF Rejected
<1>3. cond /\ r = c
  <2> HIDE DEF cond, c, r
  <2>1. r.ok = TRUE
    BY DEF r
  <2>2. QED
    BY <1>1, <1>2, <2>1, Zenon
<1>4. vus.value >= 1 /\ dur.value > 0 /\ q.ok /\ Validate(c, x.gracefulStop)
  <2> HIDE DEF c, q, vus, dur
  <2> QED BY <1>3, Zenon
<1>5. x.gracefulStop >= 0
  <2> HIDE DEF c
  <2> QED BY <1>4, Zenon DEF Validate
<1>6. /\ c.scenarios = q.scenarios /\ c.replaced = q.replaced
      /\ c.VUs = SumSeq([i \in DOMAIN q.scenarios |-> MaxVUs(q.scenarios[i])])
      /\ c.Duration = Max({q.scenarios[i].startTime + Length(q.scenarios[i]) : i \in DOMAIN q.scenarios})
  <2> HIDE DEF q
  <2> QED OBVIOUS
<1>7. Outcome(x, q.scenarios, q.replaced)
  <2> DEFINE l == scr.scenarios[1]
             ramp == StagesScenario(scr, vus.value, x.gracefulStop)
             short == <<Shorthand(vus.value, dur.value, x.gracefulStop)>>
  <2>1. \/ q = Rejected
        \/ q = Accepted(short) /\ ~IsSet(scr.scenarios) /\ ~IsSet(scr.stages)
        \/ q = Replaced(short) /\ Override(x.cli, x.env) /\ (IsSet(scr.scenarios) \/ IsSet(scr.stages))
        \/ /\ q = Accepted(<<Complete("default", ramp)>>) /\ ~Override(x.cli, x.env)
           /\ ~IsSet(scr.scenarios) /\ IsSet(scr.stages) /\ ScenarioValid(ramp)
        \/ /\ q = Accepted([i \in DOMAIN l |-> Complete(i, l[i])]) /\ ~Override(x.cli, x.env)
           /\ IsSet(scr.scenarios) /\ l # <<>> /\ \A i \in DOMAIN l : ScenarioValid(l[i])
    <3> HIDE DEF vus, dur, scr
    <3> QED BY Zenon DEF resolveScenarios
  <2> HIDE DEF q
  <2>2. \A y : /\ Accepted(y).scenarios = y /\ Accepted(y).replaced = FALSE
               /\ Replaced(y).scenarios = y /\ Replaced(y).replaced = TRUE
    BY DEF Accepted, Replaced
  <2>3. q # Rejected
    BY <1>4 DEF Rejected
  <2>4. l = ListedOf(x) /\ ramp = RampOf(x) /\ short = ShorthandOf(x)
    BY DEF ListedOf, RampOf, ShorthandOf, VUsOf, DurationOf
  <2> HIDE DEF l, ramp, short
  <2>5. QED
    BY <2>1, <2>2, <2>3, <2>4, Zenon DEF Outcome
<1>8. vus.value = VUsOf(x) /\ dur.value = DurationOf(x)
  BY DEF VUsOf, DurationOf
<1>9. QED
  <2> HIDE DEF c, q, vus, dur
  <2> QED BY <1>3, <1>4, <1>5, <1>6, <1>7, <1>8, Zenon DEF r

\* The scenarios of an accepted configuration are what the engine needs.
LEMMA ResolveGood ==
    ASSUME NEW x, InputTyped(x), ~ParseFails(x.options), ResolvedOf(x).ok = TRUE
    PROVE  LET sc == ResolvedOf(x).scenarios
           IN  /\ Len(sc) \in Nat \ {0} /\ DOMAIN sc = 1..Len(sc)
               /\ \A i \in 1..Len(sc) : GoodScenario(sc[i])
<1> DEFINE r == ResolvedOf(x)
           sc == r.scenarios
<1>1. /\ Outcome(x, sc, r.replaced) /\ VUsOf(x) >= 1 /\ DurationOf(x) > 0 /\ x.gracefulStop >= 0
  BY ResolveOutcome
<1>2. /\ OptionalOf(ScriptOf(x).vus, Int) /\ OptionalOf(ScriptOf(x).duration, Int)
      /\ OptionalOf(ScriptOf(x).stages, Stages)
      /\ IsSet(ScriptOf(x).scenarios) =>
           /\ Len(ListedOf(x)) \in Nat /\ DOMAIN ListedOf(x) = 1..Len(ListedOf(x))
           /\ ListedOf(x) = [i \in 1..Len(ListedOf(x)) |-> ListedOf(x)[i]]
           /\ \A i \in DOMAIN ListedOf(x) : ScenarioTyped(ListedOf(x)[i])
  BY ScriptTyped
<1>3. VUsOf(x) \in Int /\ DurationOf(x) \in Int /\ x.gracefulStop \in Int
  <2>1. /\ OptionalOf(x.cli.vus, Int) /\ OptionalOf(x.cli.duration, Int) /\ x.gracefulStop \in Int
        /\ x.env.vus.is = "given" => x.env.vus.value \in Int
        /\ x.env.duration.is = "given" => x.env.duration.value \in Int
    BY DEF InputTyped
  <2>2. DefaultVUs \in Int /\ DefaultDuration \in Int
    BY DEF DefaultVUs, DefaultDuration
  <2>3. QED
    BY <1>2, <2>1, <2>2, ChooseTyped DEF VUsOf, DurationOf
<1> HIDE DEF r, sc
<1>4. ASSUME NEW s, sc = <<s>>, GoodScenario(s)
      PROVE  Len(sc) \in Nat \ {0} /\ DOMAIN sc = 1..Len(sc) /\ \A i \in 1..Len(sc) : GoodScenario(sc[i])
  <2>1. Len(<<s>>) = 1 /\ DOMAIN <<s>> = 1..1 /\ <<s>>[1] = s
    OBVIOUS
  <2>2. \A i \in 1..1 : i = 1
    OBVIOUS
  <2>3. QED
    BY <1>4, <2>1, <2>2
<1>5. CASE sc = ShorthandOf(x)
  <2>1. GoodScenario(Shorthand(VUsOf(x), DurationOf(x), x.gracefulStop))
    BY <1>1, <1>3, ShorthandGood
  <2>2. QED
    BY <1>4, <1>5, <2>1 DEF ShorthandOf, sc, r
<1>6. CASE sc = <<Complete("default", RampOf(x))>> /\ ScenarioValid(RampOf(x))
  <2>1. ScenarioTyped(RampOf(x))
    BY <1>2, <1>3, RampTyped DEF RampOf
  <2>2. GoodScenario(Complete("default", RampOf(x)))
    BY <1>6, <2>1, CompleteGood
  <2>3. QED
    BY <1>4, <1>6, <2>2 DEF sc, r
<1>7. CASE /\ sc = [i \in DOMAIN ListedOf(x) |-> Complete(i, ListedOf(x)[i])]
           /\ IsSet(ScriptOf(x).scenarios) /\ ListedOf(x) # <<>>
           /\ \A i \in DOMAIN ListedOf(x) : ScenarioValid(ListedOf(x)[i])
  <2> DEFINE l == ListedOf(x)
             n == Len(l)
  <2>1. n \in Nat /\ DOMAIN l = 1..n /\ l = [i \in 1..n |-> l[i]] /\ \A i \in 1..n : ScenarioTyped(l[i])
    BY <1>2, <1>7
  <2>2. n # 0
    <3>1. SUFFICES ASSUME n = 0 PROVE FALSE
      OBVIOUS
    <3> HIDE DEF l, n
    <3>2. l = [i \in 1..0 |-> l[i]] /\ 1..0 = {}
      BY <2>1, <3>1
    <3>3. l \in Seq({})  /\ Len(l) = 0
      <4>1. l \in [1..0 -> {}]
        BY <3>2
      <4>2. QED
        BY <3>1, <4>1, SeqDef, LenProperties
    <3>4. l = <<>>
      BY <3>3, EmptySeq
    <3>5. QED
      BY <1>7, <3>4 DEF l
  <2>3. ASSUME NEW i \in 1..n PROVE GoodScenario(Complete(i, l[i]))
    BY <1>7, <2>1, CompleteGood
  <2> HIDE DEF l
  <2>4. sc = [i \in 1..n |-> Complete(i, l[i])]
    BY <1>7, <2>1 DEF l
  <2>5. sc \in [1..n -> {sc[i] : i \in 1..n}]
    BY <2>4
  <2>6. Len(sc) = n
    BY <2>1, <2>5, SeqDef, LenProperties
  <2>7. QED
    BY <2>1, <2>2, <2>3, <2>4, <2>6 DEF sc, r
<1>8. QED
  BY <1>1, <1>5, <1>6, <1>7, Zenon DEF Outcome, sc, r


-----------------------------------------------------------------------------
(* The plan of the engine *)

\* An executor as the engine's loops and the sampler use it.
GoodExecutor(e) ==
    /\ e.kind \in Kinds /\ Needs(e) \in Nat \ {0} /\ Lasts(e) \in Nat \ {0}
    /\ e.kind = "ramping-vus" => IsRamp(e) /\ e.gracefulRampDown \in Nat
    /\ e.kind # "ramping-vus" => e.duration = Lasts(e)
    /\ e.kind = "constant-arrival-rate" => e.rate \in Nat \ {0} /\ e.timeUnit \in Nat \ {0}
    /\ e.kind = "constant-arrival-rate" => e.preAllocatedVUs = Needs(e)
    /\ e.kind = "constant-vus" => e.vus = Needs(e)

\* The engine counts VUs and time as config does (executor, maxVUs, length).
LEMMA ExecutorFits ==
    ASSUME NEW s, GoodScenario(s)
    PROVE  /\ GoodExecutor(executor(s)) /\ executor(s).kind = s.executor
           /\ Needs(executor(s)) = MaxVUs(s) /\ Lasts(executor(s)) = Length(s)
<1> DEFINE e == executor(s)
<1>1. CASE s.executor = "constant-vus"
  <2>1. e = [kind |-> s.executor, vus |-> s.vus, duration |-> s.duration]
    BY <1>1 DEF executor
  <2>2. e.kind = "constant-vus" /\ e.vus = s.vus /\ e.duration = s.duration
    BY <1>1, <2>1
  <2> HIDE DEF e
  <2>3. Needs(e) = s.vus /\ Lasts(e) = s.duration /\ MaxVUs(s) = s.vus /\ Length(s) = s.duration
    BY <1>1, <2>2 DEF Needs, Lasts, MaxVUs, Length
  <2>4. s.vus \in Nat \ {0} /\ s.duration \in Nat \ {0}
    BY <1>1 DEF GoodScenario
  <2>5. QED
    BY <1>1, <2>2, <2>3, <2>4 DEF GoodExecutor, Kinds, e
<1>2. CASE s.executor = "constant-arrival-rate"
  <2>1. e = [kind |-> s.executor, rate |-> s.rate, timeUnit |-> s.timeUnit, duration |-> s.duration,
             preAllocatedVUs |-> s.preAllocatedVUs]
    BY <1>2 DEF executor
  <2>2. /\ e.kind = "constant-arrival-rate" /\ e.rate = s.rate /\ e.timeUnit = s.timeUnit /\ e.duration = s.duration
        /\ e.preAllocatedVUs = s.preAllocatedVUs
    BY <1>2, <2>1
  <2> HIDE DEF e
  <2>3. /\ Needs(e) = s.preAllocatedVUs /\ Lasts(e) = s.duration
        /\ MaxVUs(s) = s.preAllocatedVUs /\ Length(s) = s.duration
    BY <1>2, <2>2 DEF Needs, Lasts, MaxVUs, Length
  <2>4. /\ s.rate \in Nat \ {0} /\ s.timeUnit \in Nat \ {0}
        /\ s.duration \in Nat \ {0} /\ s.preAllocatedVUs \in Nat \ {0}
    BY <1>2 DEF GoodScenario
  <2>5. QED
    BY <1>2, <2>2, <2>3, <2>4 DEF GoodExecutor, Kinds, e
<1>3. CASE s.executor = "ramping-vus"
  <2>1. e = [kind |-> s.executor, startVUs |-> s.startVUs, stages |-> s.stages, gracefulRampDown |-> s.gracefulRampDown]
    BY <1>3 DEF executor
  <2>2. /\ e.kind = "ramping-vus" /\ e.startVUs = s.startVUs /\ e.stages = s.stages
        /\ e.gracefulRampDown = s.gracefulRampDown
    BY <1>3, <2>1
  <2> HIDE DEF e
  <2>3. /\ s.startVUs \in Nat /\ s.stages \in Seq(StageSet) /\ s.stages # <<>>
        /\ s.gracefulRampDown \in Nat /\ Length(s) > 0 /\ MaxVUs(s) >= 1
    BY <1>3 DEF GoodScenario
  <2>4. MaxVUs(s) = Max({s.startVUs} \cup {s.stages[j].target : j \in DOMAIN s.stages})
    BY <1>3 DEF MaxVUs
  <2>5. R!MaxVUs(e) = MaxVUs(s)
    BY <2>2, <2>4, SameMax DEF R!MaxVUs, R!StageIds
  <2>6. Length(s) = SumSeq(Durations(e))
    BY <1>3, <2>2 DEF Length, Durations
  <2>7. R!PlanLength(e) = SumSeq(Durations(e))
    <3>1. e.stages \in Seq(StageSet) /\ e.stages # <<>>
      BY <2>2, <2>3
    <3>2. /\ Len(e.stages) \in Nat /\ DOMAIN e.stages = 1..Len(e.stages)
          /\ Durations(e) \in Seq(Int) /\ Len(Durations(e)) = Len(e.stages)
          /\ \A j \in 1..Len(e.stages) : Durations(e)[j] = e.stages[j].duration
      BY <3>1, StageTypes
    <3>3. Len(e.stages) # 0
      BY <3>1, EmptySeq
    <3>4. IsPartial(R!Elapsed(e), Durations(e))
      BY <3>1, ElapsedIs
    <3>5. SumSeq(Durations(e)) = R!Elapsed(e)[Len(e.stages)]
      BY <3>2, <3>4, SumIs
    <3>6. R!PlanLength(e) = R!Elapsed(e)[Len(e.stages) - 1] + e.stages[Len(e.stages)].duration
      BY DEF R!PlanLength, R!SegEnd, R!SegStart
    <3>7. Len(e.stages) \in 1..Len(e.stages)
      BY <3>2, <3>3
    <3>8. QED
      BY <3>2, <3>4, <3>5, <3>6, <3>7 DEF IsPartial
  <2>8. IsRamp(e)
    BY <2>2, <2>3, <2>6, <2>7 DEF IsRamp
  <2>9. R!MaxVUs(e) \in Nat /\ R!PlanLength(e) \in Nat \ {0}
    BY <2>8, MaxVUsIs, Segments
  <2>10. Needs(e) = R!MaxVUs(e) /\ Lasts(e) = R!PlanLength(e)
    BY <2>2 DEF Needs, Lasts
  <2>11. Needs(e) \in Nat \ {0} /\ Lasts(e) \in Nat \ {0}
    BY <2>3, <2>5, <2>9, <2>10
  <2>12. QED
    BY <1>3, <2>2, <2>3, <2>5, <2>6, <2>7, <2>8, <2>10, <2>11 DEF GoodExecutor, Kinds, e
<1>4. QED
  BY <1>1, <1>2, <1>3 DEF GoodScenario, Kinds

\* What the load phase relies on in the plan.
GoodPlan ==
    /\ Len(plan) \in Nat \ {0} /\ DOMAIN plan = 1..Len(plan)
    /\ \A i \in 1..Len(plan) :
         /\ GoodExecutor(plan[i].executor) /\ Starts(i) \in Nat /\ plan[i].gracefulStop \in Nat
         /\ StopsAt(i) \in Nat /\ Starts(i) < StopsAt(i) /\ Ends(i) \in Nat /\ StopsAt(i) <= Ends(i)
         /\ StopsAt(i) <= cfg.Duration
    /\ \E i \in 1..Len(plan) : StopsAt(i) = cfg.Duration
    /\ cfg.VUs = SumSeq([i \in 1..Len(plan) |-> Needs(plan[i].executor)])

LEMMA PlanShape ==
    ASSUME PlanIs
    PROVE  LET sc == Resolved.scenarios
           IN  /\ Resolved = ResolvedOf(in) /\ InputTyped(in) /\ ~ParseFails(in.options) /\ Resolved.ok = TRUE
               /\ Len(sc) \in Nat \ {0} /\ DOMAIN sc = 1..Len(sc)
               /\ Len(plan) = Len(sc) /\ DOMAIN plan = 1..Len(sc)
               /\ \A i \in 1..Len(sc) :
                    /\ GoodScenario(sc[i])
                    /\ plan[i].executor = executor(sc[i]) /\ plan[i].startTime = sc[i].startTime
                    /\ plan[i].gracefulStop = sc[i].gracefulStop /\ plan[i].exec = sc[i].exec
                    /\ plan[i].base = 1 + SumSeq([j \in 1..(i - 1) |-> MaxVUs(sc[j])])
<1> DEFINE sc == Resolved.scenarios
           n  == Len(sc)
<1>1. Resolved = ResolvedOf(in) /\ InputTyped(in) /\ ~ParseFails(in.options)
  BY InputsAssumption DEF PlanIs, Runnable, Resolved, ResolvedOf, ScriptOf
<1>2. Resolved.ok = TRUE
  <2>1. Resolved.ok
    BY DEF PlanIs, Runnable
  <2>2. ResolvedOf(in).ok \in BOOLEAN
    BY Zenon DEF ResolvedOf, Resolve, Rejected
  <2>3. QED
    BY <1>1, <2>1, <2>2
<1>3. n \in Nat \ {0} /\ DOMAIN sc = 1..n /\ \A i \in 1..n : GoodScenario(sc[i])
  BY <1>1, <1>2, ResolveGood
<1> HIDE DEF sc, n
<1>4. plan = [i \in 1..n |-> [executor |-> executor(sc[i]), startTime |-> sc[i].startTime,
                              gracefulStop |-> sc[i].gracefulStop, exec |-> sc[i].exec,
                              base |-> 1 + SumSeq([j \in 1..(i - 1) |-> MaxVUs(sc[j])])]]
  BY <1>3, Zenon DEF PlanIs, engineScenarios, sc
<1>5. DOMAIN plan = 1..n
  BY <1>4
<1>6. ASSUME NEW i \in 1..n
      PROVE  /\ plan[i].executor = executor(sc[i]) /\ plan[i].startTime = sc[i].startTime
             /\ plan[i].gracefulStop = sc[i].gracefulStop /\ plan[i].exec = sc[i].exec
             /\ plan[i].base = 1 + SumSeq([j \in 1..(i - 1) |-> MaxVUs(sc[j])])
  <2> DEFINE b == 1 + SumSeq([j \in 1..(i - 1) |-> MaxVUs(sc[j])])
  <2>1. plan[i] = [executor |-> executor(sc[i]), startTime |-> sc[i].startTime,
                   gracefulStop |-> sc[i].gracefulStop, exec |-> sc[i].exec, base |-> b]
    BY <1>4
  <2> HIDE DEF b
  <2>2. QED
    BY <2>1 DEF b
<1>7. Len(plan) = n
  <2>1. plan \in [1..n -> {plan[i] : i \in 1..n}]
    BY <1>4, <1>5
  <2>2. QED
    BY <1>3, <2>1, SeqDef, LenProperties
<1>8. QED
  BY <1>1, <1>2, <1>3, <1>5, <1>6, <1>7 DEF sc, n

LEMMA PlanGood ==
    ASSUME PlanIs
    PROVE  GoodPlan
<1> DEFINE sc == Resolved.scenarios
           n  == Len(sc)
<1>1. /\ Resolved = ResolvedOf(in) /\ Resolved.ok = TRUE
      /\ n \in Nat \ {0} /\ DOMAIN sc = 1..n /\ Len(plan) = n /\ DOMAIN plan = 1..n
      /\ \A i \in 1..n : /\ GoodScenario(sc[i])
                         /\ plan[i].executor = executor(sc[i]) /\ plan[i].startTime = sc[i].startTime
                         /\ plan[i].gracefulStop = sc[i].gracefulStop
  BY PlanShape
<1>2. cfg = Resolved
  BY DEF PlanIs
<1>3. /\ cfg.VUs = SumSeq([i \in DOMAIN sc |-> MaxVUs(sc[i])])
      /\ cfg.Duration = Max({sc[i].startTime + Length(sc[i]) : i \in DOMAIN sc})
  <2>1. ResolvedOf(in).ok = TRUE
    BY <1>1, Zenon
  <2>2. LET r == ResolvedOf(in)
        IN  /\ r.VUs = SumSeq([i \in DOMAIN r.scenarios |-> MaxVUs(r.scenarios[i])])
            /\ r.Duration = Max({r.scenarios[i].startTime + Length(r.scenarios[i]) : i \in DOMAIN r.scenarios})
    BY <2>1, ResolveOutcome, Zenon
  <2>3. ResolvedOf(in) = cfg /\ sc = ResolvedOf(in).scenarios
    BY <1>1, <1>2, Zenon
  <2>4. QED
    BY <2>2, <2>3, Zenon
<1> HIDE DEF sc, n
<1>4. ASSUME NEW i \in 1..n
      PROVE  /\ GoodExecutor(plan[i].executor) /\ Starts(i) \in Nat /\ plan[i].gracefulStop \in Nat
             /\ StopsAt(i) \in Nat /\ Starts(i) < StopsAt(i) /\ Ends(i) \in Nat /\ StopsAt(i) <= Ends(i)
             /\ StopsAt(i) = sc[i].startTime + Length(sc[i])
             /\ Needs(plan[i].executor) = MaxVUs(sc[i])
  <2>1. /\ GoodExecutor(executor(sc[i])) /\ Needs(executor(sc[i])) = MaxVUs(sc[i])
        /\ Lasts(executor(sc[i])) = Length(sc[i])
    BY <1>1, ExecutorFits
  <2>2. sc[i].startTime \in Nat /\ sc[i].gracefulStop \in Nat
    BY <1>1 DEF GoodScenario
  <2>3. Lasts(executor(sc[i])) \in Nat \ {0}
    BY <2>1 DEF GoodExecutor
  <2>4. QED
    BY <1>1, <2>1, <2>2, <2>3 DEF Starts, StopsAt, Ends
<1>5. cfg.VUs = SumSeq([i \in 1..n |-> Needs(plan[i].executor)])
  <2>1. [i \in DOMAIN sc |-> MaxVUs(sc[i])] = [i \in 1..n |-> Needs(plan[i].executor)]
    BY <1>1, <1>4
  <2>2. QED
    BY <1>3, <2>1
<1>6. /\ \A i \in 1..n : StopsAt(i) <= cfg.Duration
      /\ \E i \in 1..n : StopsAt(i) = cfg.Duration
  <2> DEFINE f == [i \in 1..n |-> StopsAt(i)]
             S == {f[i] : i \in 1..n}
  <2>1. \A i \in 1..n : f[i] = sc[i].startTime + Length(sc[i]) /\ f[i] = StopsAt(i) /\ f[i] \in Nat
    BY <1>4
  <2> HIDE DEF f
  <2>2. {sc[i].startTime + Length(sc[i]) : i \in DOMAIN sc} = S
    BY <1>1, <2>1
  <2>3. IsFiniteSet(S)
    BY <1>1, ValuesFinite
  <2>4. S \in SUBSET Int /\ S # {}
    BY <1>1, <2>1
  <2> HIDE DEF S
  <2>5. Max(S) \in S /\ \A y \in S : y <= Max(S)
    BY <2>3, <2>4, MaxIsLargest
  <2>6. cfg.Duration = Max(S)
    BY <1>3, <2>2
  <2>7. QED
    BY <2>1, <2>5, <2>6 DEF S
<1>7. QED
  BY <1>1, <1>4, <1>5, <1>6 DEF GoodPlan

\* The sum of the first numbers of a list.
LEMMA PrefixSum ==
    ASSUME NEW s \in Seq(Int), NEW g, IsPartial(g, s), NEW i \in 1..Len(s), NEW t, t = [j \in 1..(i - 1) |-> s[j]]
    PROVE  SumSeq(t) = g[i - 1] /\ g[i] = g[i - 1] + s[i] /\ g[i - 1] \in Int
<1> DEFINE h == [k \in 0..(i - 1) |-> g[k]]
<1>1. /\ Len(s) \in Nat /\ DOMAIN s = 1..Len(s) /\ \A j \in 1..Len(s) : s[j] \in Int
      /\ g \in [0..Len(s) -> Int] /\ g[0] = 0 /\ \A k \in 1..Len(s) : g[k] = g[k - 1] + s[k]
  BY LenProperties DEF IsPartial
<1>2. i - 1 \in Nat /\ i - 1 \in 0..Len(s)
  BY <1>1
<1>3. DOMAIN t = 1..(i - 1) /\ t = [j \in 1..(i - 1) |-> t[j]] /\ \A j \in 1..(i - 1) : t[j] \in Int /\ t[j] = s[j]
  BY <1>1
<1>4. t \in Seq(Int) /\ Len(t) = i - 1
  BY <1>2, <1>3, ListOf
<1>5. h \in [0..(i - 1) -> Int] /\ \A k \in 0..(i - 1) : h[k] = g[k]
  <2>1. \A k \in 0..(i - 1) : k \in 0..Len(s)
    BY <1>1
  <2>2. QED
    BY <1>1, <2>1
<1> HIDE DEF h
<1>6. IsPartial(h, t)
  <2>1. h[0] = 0
    BY <1>1, <1>2, <1>5
  <2>2. ASSUME NEW k \in 1..(i - 1) PROVE h[k] = h[k - 1] + t[k]
    BY <1>1, <1>3, <1>5
  <2>3. QED
    BY <1>4, <1>5, <2>1, <2>2 DEF IsPartial
<1>7. SumSeq(t) = h[i - 1]
  BY <1>4, <1>6, SumIs
<1>8. QED
  BY <1>1, <1>2, <1>5, <1>7

\* How many VUs each scenario needs, and the sums up to each scenario.
NeedsList == [i \in 1..Len(plan) |-> Needs(plan[i].executor)]

LEMMA NeedsAre ==
    ASSUME GoodPlan
    PROVE  /\ NeedsList \in Seq(Int) /\ Len(NeedsList) = Len(plan)
           /\ \A i \in 1..Len(plan) : NeedsList[i] = Needs(plan[i].executor) /\ NeedsList[i] \in Nat \ {0}
<1> DEFINE s == NeedsList
<1>1. /\ Len(plan) \in Nat /\ DOMAIN s = 1..Len(plan) /\ s = [i \in 1..Len(plan) |-> s[i]]
      /\ \A i \in 1..Len(plan) : s[i] = Needs(plan[i].executor) /\ s[i] \in Nat \ {0}
  BY DEF GoodPlan, GoodExecutor, NeedsList
<1> HIDE DEF s
<1>2. s \in Seq(Int) /\ Len(s) = Len(plan)
  BY <1>1, ListOf
<1>3. QED
  BY <1>1, <1>2 DEF s

\* Each scenario's VUs are numbered on from those of the scenarios before.
LEMMA BasesAre ==
    ASSUME PlanIs
    PROVE  \E g : /\ IsPartial(g, NeedsList) /\ cfg.VUs = g[Len(plan)]
                  /\ \A i \in 1..Len(plan) : plan[i].base = 1 + g[i - 1] /\ plan[i].base \in Int
<1> DEFINE sc == Resolved.scenarios
<1>1. GoodPlan
  BY PlanGood
<1>2. /\ NeedsList \in Seq(Int) /\ Len(NeedsList) = Len(plan)
      /\ \A i \in 1..Len(plan) : NeedsList[i] = Needs(plan[i].executor) /\ NeedsList[i] \in Nat \ {0}
  BY <1>1, NeedsAre
<1>3. PICK g : IsPartial(g, NeedsList)
  BY <1>2, PartialExists
<1>4. cfg.VUs = g[Len(plan)]
  <2>1. SumSeq(NeedsList) = g[Len(NeedsList)]
    BY <1>2, <1>3, SumIs
  <2>2. QED
    BY <1>1, <1>2, <2>1 DEF GoodPlan, NeedsList
<1>5. /\ Len(plan) = Len(sc) /\ Len(plan) \in Nat
      /\ \A i \in 1..Len(plan) : /\ GoodScenario(sc[i]) /\ plan[i].executor = executor(sc[i])
                                 /\ plan[i].base = 1 + SumSeq([j \in 1..(i - 1) |-> MaxVUs(sc[j])])
  BY PlanShape
<1> HIDE DEF sc
<1>6. ASSUME NEW i \in 1..Len(plan) PROVE plan[i].base = 1 + g[i - 1] /\ plan[i].base \in Int
  <2> DEFINE t == [j \in 1..(i - 1) |-> MaxVUs(sc[j])]
  <2>1. \A j \in 1..Len(plan) : MaxVUs(sc[j]) = NeedsList[j]
    BY <1>2, <1>5, ExecutorFits
  <2>2. t = [j \in 1..(i - 1) |-> NeedsList[j]]
    BY <1>5, <2>1
  <2> HIDE DEF t
  <2>3. SumSeq(t) = g[i - 1] /\ g[i - 1] \in Int
    BY <1>2, <1>3, <2>2, PrefixSum
  <2>4. plan[i].base = 1 + SumSeq(t)
    BY <1>5 DEF t
  <2>5. QED
    BY <2>3, <2>4
<1>7. QED
  BY <1>3, <1>4, <1>6

-----------------------------------------------------------------------------
(* Startup keeps its invariant *)

LEMMA PlanImplies == PlanIs => GoodPlan
  BY PlanGood

LEMMA PlanImpliesNext == PlanIs' => GoodPlan'
  BY PlanImplies, PTL

\* What depends on the settings and the plan alone stays as they stay.
LEMMA SamePlan ==
    ASSUME UNCHANGED <<in, cfg, plan>>
    PROVE  /\ PlanIs' = PlanIs /\ Warnings' = Warnings /\ GoodPlan' = GoodPlan
           /\ \A i : Kind(i)' = Kind(i) /\ Starts(i)' = Starts(i) /\ StopsAt(i)' = StopsAt(i) /\ Ends(i)' = Ends(i)
<1>1. Resolved' = Resolved
  BY DEF Resolved
<1>2. Runnable' = Runnable
  BY <1>1, Zenon DEF Runnable, prepareExecs
<1>3. PlanIs' = PlanIs
  BY <1>1, <1>2, Zenon DEF PlanIs
<1>4. Warnings' = Warnings
  <2>1. Unknown' = Unknown
    BY Zenon DEF Unknown
  <2>2. QED
    BY <1>1, <2>1, Zenon DEF Warnings
<1>5. \A i : Kind(i)' = Kind(i) /\ Starts(i)' = Starts(i) /\ StopsAt(i)' = StopsAt(i) /\ Ends(i)' = Ends(i)
  BY Zenon DEF Kind, Starts, StopsAt, Ends
<1>6. GoodPlan' = GoodPlan
  BY <1>5, Zenon DEF GoodPlan
<1>7. QED
  BY <1>3, <1>4, <1>5, <1>6

\* The load phase leaves the plan alone.
LEMMA StartKept ==
    ASSUME StartInv, UNCHANGED planVars,
           pc' = pc \/ ((pc = "running" \/ Begun) /\ Begun')
    PROVE  StartInv'
<1>1. UNCHANGED <<in, cfg, plan>> /\ warned' = warned /\ cur' = cur /\ iters' = iters /\ recs' = recs
  BY DEF planVars
<1>2. PlanIs' = PlanIs /\ Warnings' = Warnings
  BY <1>1, SamePlan
<1>3. CASE pc' = pc
  <2>1. Created' = Created /\ Slices' = Slices /\ Planned' = Planned
    BY <1>1, <1>3, Zenon DEF Created, Begun, Slices, Planned
  <2>2. QED
    BY <1>1, <1>2, <1>3, <2>1 DEF StartInv
<1>4. CASE (pc = "running" \/ Begun) /\ Begun'
  <2>1. Planned /\ Planned' /\ pc' \in Places /\ pc' # "running" /\ pc' # "options" /\ pc' # "create" /\ pc # "create"
    BY <1>4 DEF Planned, Begun, Places
  <2>2. Created
    BY <2>1 DEF StartInv
  <2>3. Created'
    BY <1>1, <1>4, <2>1, <2>2 DEF Created
  <2>4. QED
    BY <1>1, <1>2, <2>1, <2>3 DEF StartInv
<1>5. QED
  BY <1>3, <1>4

\* A step of startup that leaves iters and cur alone and does not reach the end.
LEMMA StartMoves ==
    ASSUME StartInv, UNCHANGED <<in, cfg, warned, plan, cur, iters>>,
           pc' = "failed" \/ (pc = "setup" /\ pc' = "validate")
    PROVE  StartInv'
<1>1. PlanIs' = PlanIs /\ Warnings' = Warnings
  BY SamePlan
<1>2. CASE pc' = "failed"
  BY <1>2 DEF StartInv, Places, Planned
<1>3. CASE pc = "setup" /\ pc' = "validate"
  <2>1. Planned /\ Planned' /\ ~Begun /\ ~Begun'
    BY <1>3 DEF Planned, Begun, Places
  <2>2. Created
    BY <2>1 DEF StartInv
  <2>3. Created'
    BY <1>3, <2>1, <2>2 DEF Created
  <2>4. QED
    BY <1>1, <1>3, <2>1, <2>3 DEF StartInv, Places
<1>4. QED
  BY <1>2, <1>3

LEMMA StartAccepts ==
    ASSUME StartInv, AcceptOptions
    PROVE  StartInv'
<1>1. /\ pc = "options" /\ Runnable /\ in' = in /\ cfg' = Resolved /\ warned' = Warnings
      /\ plan' = engineScenarios(Resolved.scenarios) /\ pc' = "setup" /\ cur' = cur /\ iters' = iters
  BY DEF AcceptOptions
<1>2. cur = 1 /\ iters = <<>> /\ in \in Inputs
  BY <1>1 DEF StartInv
<1>3. Resolved' = Resolved
  BY <1>1 DEF Resolved
<1>4. Runnable' = Runnable /\ Warnings' = Warnings
  <2>1. Unknown' = Unknown
    BY <1>1, Zenon DEF Unknown
  <2>2. QED
    BY <1>1, <1>3, <2>1, Zenon DEF Runnable, prepareExecs, Warnings
<1>5. PlanIs'
  BY <1>1, <1>2, <1>3, <1>4, Zenon DEF PlanIs
<1>6. Len(plan') \in Nat \ {0}
  BY <1>5, PlanImpliesNext DEF GoodPlan
<1>7. Created'
  <2>1. iters' \in Seq(Seq(Int)) /\ Len(iters') = 0
    BY <1>1, <1>2, EmptySeq
  <2>2. cur' = 1 /\ pc' = "setup"
    BY <1>1, <1>2
  <2>3. 1..0 = {}
    OBVIOUS
  <2>4. QED
    BY <1>6, <2>1, <2>2, <2>3 DEF Created, Begun
<1>8. QED
  BY <1>1, <1>2, <1>4, <1>5, <1>7 DEF StartInv, Places

LEMMA StartValidates ==
    ASSUME StartInv, ValidateScenario
    PROVE  StartInv'
<1>1. pc = "validate" /\ cur <= Len(plan) /\ UNCHANGED <<in, cfg, warned, plan, cur>>
  BY DEF ValidateScenario
<1>2. \/ pc' = "failed" /\ iters' = iters
      \/ pc' = "create" /\ iters' = Append(iters, <<>>)
  BY DEF ValidateScenario, Fail
<1>3. CASE pc' = "failed" /\ iters' = iters
  BY <1>1, <1>3, StartMoves
<1>4. CASE pc' = "create" /\ iters' = Append(iters, <<>>)
  <2>1. Planned /\ Planned' /\ ~Begun' /\ pc' \in Places
    BY <1>1, <1>4 DEF Planned, Begun, Places
  <2>2. PlanIs /\ Created /\ warned = Warnings
    BY <2>1 DEF StartInv
  <2>3. PlanIs' /\ Warnings' = Warnings
    BY <1>1, <2>2, SamePlan
  <2>4. GoodPlan
    BY <2>2, PlanGood
  <2>5. /\ Len(plan) \in Nat /\ cur \in 1..Len(plan) /\ iters \in Seq(Seq(Int)) /\ Len(iters) = cur - 1
        /\ Needs(plan[cur].executor) \in Nat
    <3>1. Len(plan) \in Nat /\ \A i \in 1..Len(plan) : GoodExecutor(plan[i].executor)
      BY <2>4, Zenon DEF GoodPlan
    <3>2. cur \in 1..(Len(plan) + 1) /\ iters \in Seq(Seq(Int)) /\ Len(iters) = cur - 1
      <4>1. pc # "create"
        BY <1>1
      <4>2. QED
        BY <2>2, <4>1, Zenon DEF Created
    <3>3. cur \in 1..Len(plan)
      BY <1>1, <3>1, <3>2
    <3>4. Needs(plan[cur].executor) \in Nat
      BY <3>1, <3>3 DEF GoodExecutor
    <3>5. QED
      BY <3>1, <3>2, <3>3, <3>4
  <2>6. <<>> \in Seq(Int) /\ Len(<<>>) = 0
    BY EmptySeq
  <2>7. /\ iters' \in Seq(Seq(Int)) /\ Len(iters') = cur /\ iters'[cur] = <<>>
        /\ \A i \in 1..(cur - 1) : iters'[i] = iters[i]
    BY <1>4, <2>5, <2>6, AppendProperties
  <2>8. \A i \in 1..(cur - 1) : \A j \in 1..Len(iters'[i]) : iters'[i][j] = plan[i].base + j - 1
    <3>1. \A i \in 1..Len(iters) : \A j \in 1..Len(iters[i]) : iters[i][j] = plan[i].base + j - 1
      BY <2>2, Zenon DEF Created
    <3>2. \A i \in 1..(cur - 1) : i \in 1..Len(iters) /\ iters'[i] = iters[i]
      BY <2>5, <2>7
    <3>3. QED
      BY <3>1, <3>2, Zenon
  <2>9. \A j \in 1..Len(iters'[cur]) : FALSE
    BY <2>6, <2>7
  <2>10. \A i \in 1..cur : i = cur \/ i \in 1..(cur - 1)
    BY <2>5
  <2>11. \A i \in 1..(cur - 1) : Len(iters'[i]) = Needs(plan[i].executor)
    BY <2>2, <2>7 DEF Created
  <2>12. Created'
    <3>1. cur' = cur /\ plan' = plan
      BY <1>1
    <3>2. \A i \in 1..cur : \A j \in 1..Len(iters'[i]) : iters'[i][j] = plan[i].base + j - 1
      BY <2>8, <2>9, <2>10
    <3>3. Len(iters'[cur]) <= Needs(plan[cur].executor)
      BY <2>5, <2>6, <2>7
    <3>4. QED
      BY <1>4, <2>1, <2>5, <2>7, <2>11, <3>1, <3>2, <3>3 DEF Created
  <2>13. QED
    BY <1>1, <1>4, <2>1, <2>2, <2>3, <2>12 DEF StartInv
<1>5. QED
  BY <1>2, <1>3, <1>4

LEMMA StartCreates ==
    ASSUME StartInv, NewVU
    PROVE  StartInv'
<1>1. /\ pc = "create" /\ pc' = pc /\ UNCHANGED <<in, cfg, warned, plan, cur>>
      /\ Len(iters[cur]) < Needs(plan[cur].executor)
      /\ iters' = [iters EXCEPT ![cur] = Append(@, plan[cur].base + Len(@))]
  BY DEF NewVU
<1>2. Planned /\ Planned' /\ ~Begun' /\ pc' \in Places
  BY <1>1 DEF Planned, Begun, Places
<1>3. PlanIs /\ Created /\ warned = Warnings
  BY <1>2 DEF StartInv
<1>4. PlanIs' /\ Warnings' = Warnings
  BY <1>1, <1>3, SamePlan
<1>5. GoodPlan
  BY <1>3, PlanGood
<1>6. /\ Len(plan) \in Nat /\ cur \in 1..Len(plan) /\ iters \in Seq(Seq(Int)) /\ Len(iters) = cur
      /\ Needs(plan[cur].executor) \in Nat
  <2>1. Len(plan) \in Nat /\ \A i \in 1..Len(plan) : Needs(plan[i].executor) \in Nat
    BY <1>5 DEF GoodPlan, GoodExecutor
  <2>2. cur \in 1..(Len(plan) + 1) /\ cur <= Len(plan) /\ iters \in Seq(Seq(Int)) /\ Len(iters) = cur
    BY <1>1, <1>3 DEF Created
  <2>3. QED
    BY <2>1, <2>2
<1>7. plan[cur].base \in Int
  BY <1>3, <1>6, BasesAre
<1> DEFINE old == iters[cur]
           new == Append(old, plan[cur].base + Len(old))
<1>8. old \in Seq(Int) /\ Len(old) \in Nat
  <2>1. cur \in 1..Len(iters)
    BY <1>6
  <2>2. QED
    BY <1>6, <2>1, ElementOfSeq, LenProperties
<1>9. new \in Seq(Int) /\ Len(new) = Len(old) + 1 /\ new[Len(old) + 1] = plan[cur].base + Len(old)
      /\ \A j \in 1..Len(old) : new[j] = old[j]
  BY <1>7, <1>8, AppendProperties
<1> HIDE DEF old, new
<1>10. /\ iters' \in Seq(Seq(Int)) /\ Len(iters') = cur /\ iters'[cur] = new
       /\ \A i \in 1..(cur - 1) : iters'[i] = iters[i]
  <2>1. iters' = [iters EXCEPT ![cur] = new]
    BY <1>1 DEF old, new
  <2>2. /\ iters' \in Seq(Seq(Int)) /\ Len(iters') = Len(iters)
        /\ \A i \in 1..Len(iters) : iters'[i] = IF i = cur THEN new ELSE iters[i]
    BY <1>6, <1>9, <2>1, ExceptSeq
  <2>3. QED
    BY <1>6, <2>2
<1>11. \A j \in 1..Len(new) : new[j] = plan[cur].base + j - 1
  <2> TAKE j \in 1..Len(new)
  <2>1. CASE j \in 1..Len(old)
    <3>1. \A k \in 1..Len(iters[cur]) : iters[cur][k] = plan[cur].base + k - 1
      BY <1>3, <1>6 DEF Created
    <3>2. QED
      BY <1>9, <2>1, <3>1 DEF old
  <2>2. CASE j = Len(old) + 1
    BY <1>7, <1>8, <1>9, <2>2
  <2>3. QED
    BY <1>8, <1>9, <2>1, <2>2
<1>12. \A i \in 1..cur : \A j \in 1..Len(iters'[i]) : iters'[i][j] = plan[i].base + j - 1
  <2>1. \A i \in 1..(cur - 1) : \A j \in 1..Len(iters[i]) : iters[i][j] = plan[i].base + j - 1
    BY <1>3, <1>6 DEF Created
  <2>2. \A i \in 1..cur : i = cur \/ i \in 1..(cur - 1)
    BY <1>6
  <2>3. ASSUME NEW i \in 1..cur PROVE \A j \in 1..Len(iters'[i]) : iters'[i][j] = plan[i].base + j - 1
    <3>1. CASE i = cur
      BY <1>10, <1>11, <3>1
    <3>2. CASE i \in 1..(cur - 1)
      BY <1>10, <2>1, <3>2
    <3>3. QED
      BY <2>2, <3>1, <3>2
  <2>4. QED
    BY <2>3
<1>13. Created'
  <2>1. Len(new) <= Needs(plan[cur].executor)
    BY <1>1, <1>6, <1>8, <1>9 DEF old
  <2>2. \A i \in 1..(cur - 1) : Len(iters'[i]) = Needs(plan[i].executor)
    BY <1>3, <1>10 DEF Created
  <2>3. cur' = cur /\ plan' = plan
    BY <1>1
  <2>4. cur \in 1..(Len(plan) + 1) /\ cur <= Len(plan)
    BY <1>6
  <2>5. pc' = "create" /\ pc' # "running"
    BY <1>1
  <2>6. Len(iters'[cur]) <= Needs(plan[cur].executor)
    BY <1>10, <2>1
  <2>7. iters' \in Seq(Seq(Int)) /\ Len(iters') = cur
    BY <1>10
  <2>8. QED
    BY <1>2, <1>12, <2>2, <2>3, <2>4, <2>5, <2>6, <2>7, Zenon DEF Created
<1>14. QED
  BY <1>1, <1>2, <1>3, <1>4, <1>13 DEF StartInv

LEMMA StartCompletes ==
    ASSUME StartInv, VUsCreated
    PROVE  StartInv'
<1>1. /\ pc = "create" /\ pc' = "validate" /\ UNCHANGED <<in, cfg, warned, plan, iters>> /\ cur' = cur + 1
      /\ Len(iters[cur]) = Needs(plan[cur].executor)
  BY DEF VUsCreated
<1>2. Planned /\ Planned' /\ ~Begun' /\ pc' \in Places
  BY <1>1 DEF Planned, Begun, Places
<1>3. PlanIs /\ Created /\ warned = Warnings
  BY <1>2 DEF StartInv
<1>4. PlanIs' /\ Warnings' = Warnings
  BY <1>1, <1>3, SamePlan
<1>5. GoodPlan
  BY <1>3, PlanGood
<1>6. Len(plan) \in Nat /\ cur \in 1..Len(plan) /\ Len(iters) = cur
  BY <1>1, <1>3, <1>5 DEF Created, GoodPlan
<1>7. \A i \in 1..cur : Len(iters[i]) = Needs(plan[i].executor)
  <2>1. \A i \in 1..cur : i = cur \/ i \in 1..(cur - 1)
    BY <1>6
  <2>2. QED
    BY <1>1, <1>3, <2>1 DEF Created
<1>8. Created'
  <2>1. cur' - 1 = cur /\ cur' \in 1..(Len(plan) + 1)
    BY <1>1, <1>6
  <2>2. plan' = plan /\ iters' = iters
    BY <1>1
  <2>3. QED
    BY <1>1, <1>2, <1>3, <1>6, <1>7, <2>1, <2>2 DEF Created
<1>9. QED
  BY <1>1, <1>2, <1>3, <1>4, <1>8 DEF StartInv

LEMMA StartStarts ==
    ASSUME StartInv, StartClock
    PROVE  StartInv'
<1>1. /\ pc = "validate" /\ pc' = "running" /\ UNCHANGED <<in, cfg, warned, plan, cur, iters>> /\ cur > Len(plan)
  BY DEF StartClock
<1>2. recs' = Slices'
  BY <1>1, Zenon DEF StartClock, Slices
<1>3. Planned /\ Planned' /\ ~Begun' /\ pc' \in Places
  BY <1>1 DEF Planned, Begun, Places
<1>4. PlanIs /\ Created /\ warned = Warnings
  BY <1>3 DEF StartInv
<1>5. PlanIs' /\ Warnings' = Warnings
  BY <1>1, <1>4, SamePlan
<1>6. GoodPlan
  BY <1>4, PlanGood
<1>7. cur = Len(plan) + 1
  <2>1. Len(plan) \in Nat
    BY <1>6 DEF GoodPlan
  <2>2. cur \in 1..(Len(plan) + 1)
    BY <1>4 DEF Created
  <2>3. QED
    BY <1>1, <2>1, <2>2
<1>8. Created'
  BY <1>1, <1>3, <1>4, <1>7 DEF Created
<1>9. QED
  BY <1>1, <1>2, <1>3, <1>4, <1>5, <1>8 DEF StartInv

\* Every step of startup keeps StartInv.
LEMMA StartStep ==
    ASSUME StartInv, StartsUp
    PROVE  StartInv'
<1>1. CASE AcceptOptions
  BY <1>1, StartAccepts
<1>2. CASE RejectOptions
  BY <1>2 DEF RejectOptions, Fail, StartInv, Places, Planned
<1>3. CASE Setup
  BY <1>3, StartMoves DEF Setup, Fail
<1>4. CASE ValidateScenario
  BY <1>4, StartValidates
<1>5. CASE NewVU
  BY <1>5, StartCreates
<1>6. CASE NewVUFails
  BY <1>6, StartMoves DEF NewVUFails, Fail
<1>7. CASE VUsCreated
  BY <1>7, StartCompletes
<1>8. CASE StartClock
  BY <1>8, StartStarts
<1>9. CASE Cancel
  BY <1>9, StartKept DEF Cancel, planVars
<1>10. QED
  BY <1>1, <1>2, <1>3, <1>4, <1>5, <1>6, <1>7, <1>8, <1>9 DEF StartsUp

-----------------------------------------------------------------------------
(* The VUs of the plan *)

\* The sums of what the scenarios need lie between 0 and all VUs, and every
\* scenario has a VU.
LEMMA SumsOfNeeds ==
    ASSUME PlanIs, NEW g, IsPartial(g, NeedsList)
    PROVE  /\ cfg.VUs = g[Len(plan)] /\ cfg.VUs \in Nat
           /\ \A i \in 1..Len(plan) :
                /\ g[i - 1] \in Nat /\ g[i] \in Nat /\ g[i] = g[i - 1] + Needs(plan[i].executor) /\ g[i] <= cfg.VUs
                /\ Needs(plan[i].executor) \in 1..cfg.VUs
<1>1. GoodPlan
  BY PlanGood
<1>2. /\ NeedsList \in Seq(Int) /\ Len(NeedsList) = Len(plan) /\ Len(plan) \in Nat
      /\ \A i \in 1..Len(plan) : NeedsList[i] = Needs(plan[i].executor) /\ NeedsList[i] \in Nat \ {0}
  BY <1>1, NeedsAre DEF GoodPlan
<1>3. cfg.VUs = g[Len(plan)]
  <2>1. SumSeq(NeedsList) = g[Len(NeedsList)]
    BY <1>2, SumIs
  <2>2. QED
    BY <1>1, <1>2, <2>1 DEF GoodPlan, NeedsList
<1>4. \A a, b \in 0..Len(plan) : a <= b => g[a] <= g[b] /\ g[a] \in Nat
  <2>1. \A k \in 1..Len(NeedsList) : NeedsList[k] >= 0
    BY <1>2
  <2>2. QED
    BY <1>2, <2>1, PartialGrows
<1>5. cfg.VUs \in Nat
  BY <1>2, <1>3, <1>4
<1>6. ASSUME NEW i \in 1..Len(plan)
      PROVE  /\ g[i - 1] \in Nat /\ g[i] \in Nat /\ g[i] = g[i - 1] + Needs(plan[i].executor) /\ g[i] <= cfg.VUs
             /\ Needs(plan[i].executor) \in 1..cfg.VUs
  <2>1. i \in 0..Len(plan) /\ i - 1 \in 0..Len(plan) /\ Len(plan) \in 0..Len(plan) /\ i <= Len(plan)
    BY <1>2
  <2>2. g[i - 1] \in Nat /\ g[i] \in Nat /\ g[i] <= g[Len(plan)]
    BY <1>4, <2>1
  <2>3. g[i] = g[i - 1] + NeedsList[i]
    BY <1>2 DEF IsPartial
  <2>4. NeedsList[i] = Needs(plan[i].executor) /\ NeedsList[i] \in Nat \ {0}
    BY <1>2
  <2>5. QED
    BY <1>3, <1>5, <2>2, <2>3, <2>4
<1>7. QED
  BY <1>3, <1>5, <1>6

\* The VUs of the load phase: as many in each scenario as it needs.
LEMMA VUsAre ==
    ASSUME StartInv, pc = "running" \/ Begun
    PROVE  /\ GoodPlan /\ cfg.VUs \in Nat
           /\ \A i \in 1..Len(plan) : <<i, 1>> \in VUIds
           /\ \A v \in VUIds : v[1] \in 1..Len(plan) /\ v[2] \in Nat \ {0} /\ v = <<v[1], v[2]>>
                               /\ v[2] <= Needs(plan[v[1]].executor)
<1>1. PlanIs /\ Created
  BY DEF StartInv, Planned, Begun, Places
<1>2. GoodPlan
  BY <1>1, PlanGood
<1>3. DOMAIN plan = 1..Len(plan) /\ Len(plan) \in Nat
  BY <1>2 DEF GoodPlan
<1>4. cfg.VUs \in Nat /\ \A i \in 1..Len(plan) : Needs(plan[i].executor) \in 1..cfg.VUs
  <2>1. PICK g : IsPartial(g, NeedsList)
    BY <1>1, BasesAre
  <2>2. QED
    BY <1>1, <2>1, SumsOfNeeds
<1>5. \A i \in 1..Len(plan) : DOMAIN iters[i] = 1..Needs(plan[i].executor)
  <2> TAKE i \in 1..Len(plan)
  <2>1. cur = Len(plan) + 1 /\ iters \in Seq(Seq(Int)) /\ Len(iters) = Len(plan)
    <3>1. pc # "create"
      BY DEF Begun
    <3>2. cur = Len(plan) + 1 /\ iters \in Seq(Seq(Int)) /\ Len(iters) = cur - 1
      BY <1>1, <3>1 DEF Created
    <3>3. QED
      BY <1>3, <3>2
  <2>2. iters[i] \in Seq(Int)
    BY <2>1, ElementOfSeq
  <2>3. Len(iters[i]) = Needs(plan[i].executor)
    BY <1>1, <1>3, <2>1 DEF Created
  <2>4. QED
    BY <2>2, <2>3, LenProperties
<1>6. ASSUME NEW i \in 1..Len(plan) PROVE <<i, 1>> \in VUIds
  <2>1. 1 \in 1..cfg.VUs /\ 1 \in DOMAIN iters[i]
    BY <1>4, <1>5
  <2>2. QED
    BY <1>3, <2>1 DEF VUIds
<1>7. ASSUME NEW v \in VUIds
      PROVE  /\ v[1] \in 1..Len(plan) /\ v[2] \in Nat \ {0} /\ v = <<v[1], v[2]>>
             /\ v[2] <= Needs(plan[v[1]].executor)
  <2>1. v \in (1..Len(plan)) \X (1..cfg.VUs) /\ v[2] \in DOMAIN iters[v[1]]
    BY <1>3 DEF VUIds
  <2>2. v[2] \in 1..Needs(plan[v[1]].executor)
    BY <1>5, <2>1
  <2>3. QED
    BY <1>4, <2>1, <2>2
<1>8. QED
  BY <1>2, <1>4, <1>6, <1>7

-----------------------------------------------------------------------------
(* The load phase keeps the invariant: what most steps have in common *)

LoadInv == /\ IdleInv /\ TypeInv /\ VUInv /\ SchedInv /\ EndedInv /\ NobodyLeavesEarly
           /\ JoinInv /\ SamplerInv /\ SeriesInv /\ LastInv /\ ResultInv

\* What NobodyLeavesEarly asks of a VU that has left.
Excused(v) == CASE Kind(v[1]) = "constant-vus" -> now >= StopsAt(v[1])
                [] Kind(v[1]) = "ramping-vus"  -> now >= StopsAt(v[1]) \/ NextActive(v) = R!NoOffset
                [] OTHER                       -> sched[v[1]] = "gone" /\ Due(v[1]) >= StopsAt(v[1])

LEMMA LeftIs == NobodyLeavesEarly <=> \A v \in DOMAIN vu : vu[v] = "gone" /\ Live(v) => Excused(v)
  BY Zenon DEF NobodyLeavesEarly, Excused

LEMMA LeftIsNext == NobodyLeavesEarly' <=> \A v \in DOMAIN vu' : vu'[v] = "gone" /\ v[1] \notin ended' => Excused(v)'
  BY Zenon DEF NobodyLeavesEarly, Excused, Live

\* The instant for which a ramping VU asks when it is next active.
Offset(v) == Max({now - Starts(v[1]), 0})

LEMMA OffsetIs ==
    ASSUME NEW v, Starts(v[1]) \in Int, now \in Int
    PROVE  /\ Offset(v) \in Nat /\ Offset(v) = IF now >= Starts(v[1]) THEN now - Starts(v[1]) ELSE 0
           /\ NextActive(v) = NextOn(plan[v[1]].executor, v[2] - 1, Offset(v))
<1>1. Offset(v) \in Int /\ Offset(v) = IF now - Starts(v[1]) >= 0 THEN now - Starts(v[1]) ELSE 0
  BY MaxOfTwo DEF Offset
<1>2. NextActive(v) = NextOn(plan[v[1]].executor, v[2] - 1, Offset(v))
  BY Zenon DEF NextActive, NextOn, Offset
<1>3. QED
  BY <1>1, <1>2

LEMMA OffsetIsNext ==
    ASSUME NEW v, Starts(v[1])' \in Int, now' \in Int
    PROVE  /\ Offset(v)' \in Nat /\ Offset(v)' = IF now' >= Starts(v[1])' THEN now' - Starts(v[1])' ELSE 0
           /\ NextActive(v)' = NextOn(plan'[v[1]].executor, v[2] - 1, Offset(v)')
<1>1. Offset(v)' \in Int /\ Offset(v)' = IF now' - Starts(v[1])' >= 0 THEN now' - Starts(v[1])' ELSE 0
  BY MaxOfTwo DEF Offset
<1>2. NextActive(v)' = NextOn(plan'[v[1]].executor, v[2] - 1, Offset(v)')
  BY Zenon DEF NextActive, NextOn, Offset
<1>3. QED
  BY <1>1, <1>2

\* Who may be gone may stay gone: time only adds to the reasons.
LEMMA ExcusedKept ==
    ASSUME NEW v, GoodPlan, v[1] \in 1..Len(plan), v[2] \in Nat \ {0}, UNCHANGED <<in, cfg, plan>>,
           now \in Nat, now' \in Nat, now <= now',
           sched[v[1]] = "gone" => sched'[v[1]] = "gone" /\ starts'[v[1]] = starts[v[1]],
           Excused(v)
    PROVE  Excused(v)'
<1> DEFINE i == v[1]
<1>1. /\ Kind(i) \in Kinds /\ Starts(i) \in Nat /\ StopsAt(i) \in Nat
      /\ Kind(i) = "ramping-vus" => IsRamp(plan[i].executor)
  BY DEF GoodPlan, GoodExecutor, Kind
<1>2. Kind(i)' = Kind(i) /\ Starts(i)' = Starts(i) /\ StopsAt(i)' = StopsAt(i)
  BY SamePlan
<1> HIDE DEF i
<1>3. CASE Kind(i) = "constant-vus"
  <2>1. now >= StopsAt(i)
    BY <1>3 DEF Excused, i
  <2>2. now' >= StopsAt(i)'
    BY <1>1, <1>2, <2>1
  <2>3. Kind(i)' = "constant-vus"
    BY <1>2, <1>3
  <2>4. QED
    BY <2>2, <2>3, Zenon DEF Excused, i
<1>4. CASE Kind(i) = "ramping-vus"
  <2>1. Kind(i)' = "ramping-vus" /\ IsRamp(plan[i].executor) /\ plan' = plan
    BY <1>1, <1>2, <1>4
  <2>2. CASE now >= StopsAt(i)
    <3>1. now' >= StopsAt(i)'
      BY <1>1, <1>2, <2>2
    <3>2. QED
      BY <2>1, <3>1, Zenon DEF Excused, i
  <2>3. CASE NextActive(v) = R!NoOffset
    <3>1. /\ Offset(v) \in Nat /\ Offset(v) = IF now >= Starts(i) THEN now - Starts(i) ELSE 0
          /\ NextActive(v) = NextOn(plan[i].executor, v[2] - 1, Offset(v))
      BY <1>1, OffsetIs DEF i
    <3>2. /\ Offset(v)' \in Nat /\ Offset(v)' = IF now' >= Starts(i)' THEN now' - Starts(i)' ELSE 0
          /\ NextActive(v)' = NextOn(plan[i].executor, v[2] - 1, Offset(v)')
      BY <1>1, <1>2, <2>1, OffsetIsNext DEF i
    <3>3. Offset(v) <= Offset(v)'
      BY <1>1, <1>2, <3>1, <3>2
    <3>4. v[2] - 1 \in Nat
      OBVIOUS
    <3>5. NextOn(plan[i].executor, v[2] - 1, Offset(v)') = R!NoOffset
      BY <2>1, <2>3, <3>1, <3>2, <3>3, <3>4, NeverAgain
    <3>6. NextActive(v)' = R!NoOffset
      BY <3>2, <3>5
    <3>7. QED
      BY <2>1, <3>6, Zenon DEF Excused, i
  <2>4. QED
    BY <1>4, <2>2, <2>3, Zenon DEF Excused, i
<1>5. CASE Kind(i) = "constant-arrival-rate"
  <2>1. sched[i] = "gone" /\ Due(i) >= StopsAt(i)
    BY <1>5 DEF Excused, i
  <2>2. sched'[i] = "gone" /\ starts'[i] = starts[i]
    BY <2>1 DEF i
  <2>3. Due(i)' = Due(i)
    BY <1>2, <2>2 DEF Due
  <2>4. Kind(i)' = "constant-arrival-rate" /\ Due(i)' >= StopsAt(i)'
    BY <1>2, <1>5, <2>1, <2>3
  <2>5. QED
    BY <2>2, <2>4, Zenon DEF Excused, i
<1>6. QED
  BY <1>1, <1>3, <1>4, <1>5 DEF Kinds

\* What the invariant says of the load phase before everybody has returned.
LEMMA Ongoing ==
    ASSUME StartInv, LoadInv, Begun, ~Returned
    PROVE  pc \in {"driving", "waiting"} /\ spc \in {"none", "on"} /\ (pc = "driving" => series = <<>> /\ spc = "none")
<1>1. pc \in {"driving", "waiting"}
  BY DEF Begun, Returned
<1>2. QED
  BY <1>1 DEF LoadInv, SamplerInv

\* Once everybody has returned there is no VU or scheduler that could move.
LEMMA Busy ==
    ASSUME LoadInv, \/ \E v \in DOMAIN vu : vu[v] # "gone"
                    \/ \E i \in DOMAIN sched : sched[i] \notin {"none", "gone"}
    PROVE  ~Returned
  BY DEF LoadInv, JoinInv, AllGone

\* Steps of VUs and schedulers leave the clock, the contexts and the sampler
\* alone.
LEMMA QuietStep ==
    ASSUME StartInv, LoadInv, Begun, ~Returned,
           UNCHANGED <<planVars, pc, cancelled, clockVars, sampVars, elapsed, result>>
    PROVE  StartInv' /\ IdleInv' /\ EndedInv' /\ JoinInv' /\ SamplerInv' /\ SeriesInv' /\ LastInv' /\ ResultInv'
<1>1. pc \in {"driving", "waiting"} /\ spc \in {"none", "on"}
  BY Ongoing
<1>2. /\ pc' = pc /\ cancelled' = cancelled /\ now' = now /\ driven' = driven /\ ended' = ended
      /\ spc' = spc /\ ticker' = ticker /\ series' = series /\ UNCHANGED <<in, cfg, plan>>
  BY DEF planVars, clockVars, sampVars
<1>3. StartInv'
  BY <1>2, StartKept
<1>4. Begun' /\ ~Returned'
  BY <1>1, <1>2 DEF Begun, Returned
<1>5. IdleInv' /\ JoinInv' /\ LastInv' /\ ResultInv'
  BY <1>1, <1>2, <1>4 DEF IdleInv, JoinInv, LastInv, ResultInv
<1>6. EndedInv'
  <2>1. \A i : Ends(i)' = Ends(i)
    BY <1>2, SamePlan
  <2>2. QED
    BY <1>2, <2>1 DEF LoadInv, EndedInv, Begun
<1>7. SamplerInv'
  BY <1>2 DEF LoadInv, SamplerInv, Begun
<1>8. SeriesInv'
  BY <1>2, Zenon DEF LoadInv, SeriesInv, Begun
<1>9. QED
  BY <1>3, <1>5, <1>6, <1>7, <1>8

\* Where VU v is and what it is entitled to.
VUWell(v) ==
    /\ v[1] > driven => vu[v] = "new"
    /\ v[1] <= driven => vu[v] \in VUPlaces(Kind(v[1]))
    /\ Kind(v[1]) = "constant-vus" =>
         /\ vu[v] = "waiting" => wake[v] = Starts(v[1])
         /\ vu[v] \in {"loop", "iterating", "returned"} => now >= Starts(v[1])

LEMMA WellIs == VUInv <=> (Begun => \A v \in DOMAIN vu : VUWell(v))
  BY Zenon DEF VUInv, VUWell

LEMMA WellIsNext == VUInv' <=> (Begun' => \A v \in DOMAIN vu' : VUWell(v)')
  BY Zenon DEF VUInv, VUWell

\* A step of one VU.
LEMMA VUStep ==
    ASSUME StartInv, LoadInv, Begun, NEW v \in DOMAIN vu, vu[v] # "gone", NEW place,
           vu' = [vu EXCEPT ![v] = place], DOMAIN wake' = DOMAIN wake,
           \A w \in DOMAIN vu : w # v => wake'[w] = wake[w],
           requests' \in Nat, OnlyVU,
           v[1] <= driven, place \in VUPlaces(Kind(v[1])),
           Kind(v[1]) = "constant-vus" =>
              /\ place = "waiting" => wake'[v] = Starts(v[1])
              /\ place \in {"loop", "iterating", "returned"} => now >= Starts(v[1]),
           place = "gone" /\ Live(v) => Excused(v)
    PROVE  StartInv' /\ LoadInv'
<1>1. ~Returned
  BY Busy
<1>2. UNCHANGED <<planVars, pc, cancelled, clockVars, sampVars, elapsed, result>> /\ UNCHANGED schedVars
  BY DEF OnlyVU
<1>3. StartInv' /\ IdleInv' /\ EndedInv' /\ JoinInv' /\ SamplerInv' /\ SeriesInv' /\ LastInv' /\ ResultInv'
  BY <1>1, <1>2, QuietStep
<1>4. /\ pc' = pc /\ now' = now /\ driven' = driven /\ ended' = ended /\ sched' = sched /\ starts' = starts
      /\ UNCHANGED <<in, cfg, plan>> /\ iters' = iters
  BY <1>2 DEF planVars, clockVars, schedVars
<1>5. GoodPlan /\ \A w \in VUIds : w[1] \in 1..Len(plan) /\ w[2] \in Nat \ {0}
  BY VUsAre
<1>6. /\ Kind(v[1])' = Kind(v[1]) /\ Starts(v[1])' = Starts(v[1])
      /\ \A i : Kind(i)' = Kind(i) /\ Starts(i)' = Starts(i) /\ StopsAt(i)' = StopsAt(i)
  BY <1>4, SamePlan
<1>7. Begun' /\ VUIds' = VUIds
  BY <1>4 DEF Begun, VUIds
<1>8. /\ DOMAIN vu = VUIds /\ DOMAIN wake = VUIds /\ DOMAIN vu' = VUIds /\ vu'[v] = place
      /\ \A w \in VUIds : w # v => vu'[w] = vu[w]
  BY DEF LoadInv, TypeInv
<1>9. TypeInv'
  BY <1>4, <1>7, <1>8 DEF LoadInv, TypeInv
<1>10. SchedInv'
  <2>1. \A i : Due(i)' = Due(i)
    BY <1>4, <1>6 DEF Due
  <2>2. QED
    BY <1>4, <1>6, <2>1 DEF LoadInv, SchedInv, Begun
<1>11. VUInv'
  <2>1. ASSUME NEW w \in VUIds, w # v PROVE VUWell(w)'
    <3>1. VUWell(w)
      BY <1>8, WellIs DEF LoadInv
    <3>2. vu'[w] = vu[w] /\ wake'[w] = wake[w]
      BY <1>8, <2>1
    <3>3. QED
      BY <1>4, <1>6, <3>1, <3>2 DEF VUWell
  <2>2. VUWell(v)'
    <3>1. v[1] <= driven /\ ~(v[1] > driven)
      <4>1. v[1] \in Int /\ driven \in Int
        BY <1>5, <1>8 DEF LoadInv, TypeInv, GoodPlan
      <4>2. QED
        BY <4>1
    <3>2. QED
      BY <1>4, <1>6, <1>8, <3>1 DEF VUWell
  <2>3. QED
    BY <1>8, <2>1, <2>2, WellIsNext
<1>12. NobodyLeavesEarly'
  <2>1. ASSUME NEW w \in VUIds, vu'[w] = "gone", w[1] \notin ended' PROVE Excused(w)'
    <3>1. Excused(w)
      <4>1. CASE w = v
        BY <1>4, <1>8, <2>1, <4>1 DEF Live
      <4>2. CASE w # v
        BY <1>4, <1>8, <2>1, <4>2, LeftIs DEF Live, LoadInv
      <4>3. QED
        BY <4>1, <4>2
    <3>2. now \in Nat
      BY DEF LoadInv, TypeInv
    <3>3. QED
      BY <1>4, <1>5, <3>1, <3>2, ExcusedKept
  <2>2. QED
    BY <1>8, <2>1, LeftIsNext
<1>13. QED
  BY <1>3, <1>9, <1>10, <1>11, <1>12 DEF LoadInv

-----------------------------------------------------------------------------
(* The steps of the VUs *)

LEMMA InMotion ==
    ASSUME StartInv, LoadInv, NEW v \in DOMAIN vu
    PROVE  /\ Begun /\ GoodPlan /\ v \in VUIds /\ DOMAIN wake = DOMAIN vu /\ now \in Nat /\ requests \in Nat
           /\ v[1] \in 1..Len(plan) /\ v[2] \in Nat \ {0} /\ Kind(v[1]) \in Kinds
           /\ Starts(v[1]) \in Nat /\ StopsAt(v[1]) \in Nat /\ Starts(v[1]) < StopsAt(v[1])
           /\ VUWell(v)
           /\ vu[v] # "new" => v[1] <= driven /\ vu[v] \in VUPlaces(Kind(v[1]))
<1>1. Begun
  <2>1. SUFFICES ASSUME ~Begun PROVE FALSE
    OBVIOUS
  <2>2. vu = <<>>
    BY <2>1 DEF LoadInv, IdleInv, Idle
  <2>3. QED
    BY <2>2
<1>2. /\ DOMAIN vu = VUIds /\ DOMAIN wake = VUIds /\ now \in Nat /\ requests \in Nat /\ driven \in Int
  BY <1>1, VUsAre DEF LoadInv, TypeInv, GoodPlan
<1>3. GoodPlan /\ v[1] \in 1..Len(plan) /\ v[2] \in Nat \ {0}
  BY <1>1, <1>2, VUsAre
<1>4. Kind(v[1]) \in Kinds /\ Starts(v[1]) \in Nat /\ StopsAt(v[1]) \in Nat /\ Starts(v[1]) < StopsAt(v[1])
  BY <1>3 DEF GoodPlan, GoodExecutor, Kind
<1>5. VUWell(v)
  BY <1>1, WellIs DEF LoadInv
<1>6. vu[v] # "new" => v[1] <= driven /\ vu[v] \in VUPlaces(Kind(v[1]))
  BY <1>2, <1>3, <1>5 DEF VUWell
<1>7. QED
  BY <1>1, <1>2, <1>3, <1>4, <1>5, <1>6

LEMMA WakeUpKeeps ==
    ASSUME StartInv, LoadInv, NEW v \in DOMAIN vu, WakeUp(v)
    PROVE  StartInv' /\ LoadInv'
<1>1. /\ vu[v] = "waiting" /\ wake' = wake /\ requests' = requests /\ OnlyVU
      /\ \/ now >= wake[v] /\ Live(v) /\ vu' = [vu EXCEPT ![v] = "loop"]
         \/ ~Live(v) /\ vu' = [vu EXCEPT ![v] = "gone"]
  BY DEF WakeUp, Goto
<1>2. /\ Begun /\ requests' \in Nat /\ v[1] <= driven /\ vu[v] \in VUPlaces(Kind(v[1])) /\ VUWell(v)
      /\ Kind(v[1]) \in Kinds
  BY <1>1, InMotion
<1>3. "loop" \in VUPlaces(Kind(v[1])) /\ "gone" \in VUPlaces(Kind(v[1]))
  BY <1>1, <1>2 DEF VUPlaces
<1>4. CASE now >= wake[v] /\ Live(v) /\ vu' = [vu EXCEPT ![v] = "loop"]
  <2>1. Kind(v[1]) = "constant-vus" => now >= Starts(v[1])
    BY <1>1, <1>2, <1>4 DEF VUWell
  <2>2. QED
    BY <1>1, <1>2, <1>3, <1>4, <2>1, VUStep
<1>5. CASE ~Live(v) /\ vu' = [vu EXCEPT ![v] = "gone"]
  BY <1>1, <1>2, <1>3, <1>5, VUStep
<1>6. QED
  BY <1>1, <1>4, <1>5

LEMMA ConstantLoopKeeps ==
    ASSUME StartInv, LoadInv, NEW v \in DOMAIN vu, ConstantLoop(v)
    PROVE  StartInv' /\ LoadInv'
<1>1. /\ vu[v] = "loop" /\ Kind(v[1]) = "constant-vus" /\ wake' = wake /\ requests' = requests /\ OnlyVU
      /\ \/ vu' = [vu EXCEPT ![v] = "iterating"]
         \/ ~(Live(v) /\ now < StopsAt(v[1])) /\ vu' = [vu EXCEPT ![v] = "gone"]
  BY Zenon DEF ConstantLoop, BeginIteration, Goto
<1>2. /\ Begun /\ requests' \in Nat /\ v[1] <= driven /\ VUWell(v) /\ now \in Nat /\ StopsAt(v[1]) \in Nat
  BY <1>1, InMotion
<1>3. "iterating" \in VUPlaces(Kind(v[1])) /\ "gone" \in VUPlaces(Kind(v[1]))
  BY <1>1 DEF VUPlaces
<1>4. CASE vu' = [vu EXCEPT ![v] = "iterating"]
  <2>1. now >= Starts(v[1])
    BY <1>1, <1>2 DEF VUWell
  <2>2. QED
    BY <1>1, <1>2, <1>3, <1>4, <2>1, VUStep
<1>5. CASE ~(Live(v) /\ now < StopsAt(v[1])) /\ vu' = [vu EXCEPT ![v] = "gone"]
  <2>1. Live(v) => now >= StopsAt(v[1])
    BY <1>2, <1>5
  <2>2. Live(v) => Excused(v)
    BY <1>1, <2>1, Zenon DEF Excused
  <2>3. QED
    BY <1>1, <1>2, <1>3, <1>5, <2>2, VUStep
<1>6. QED
  BY <1>1, <1>4, <1>5

LEMMA RampingLoopKeeps ==
    ASSUME StartInv, LoadInv, NEW v \in DOMAIN vu, RampingLoop(v)
    PROVE  StartInv' /\ LoadInv'
<1>1. /\ vu[v] = "loop" /\ Kind(v[1]) = "ramping-vus" /\ requests' = requests /\ OnlyVU
      /\ \/ /\ ~Live(v) \/ now >= StopsAt(v[1]) \/ NextActive(v) = R!NoOffset
            /\ vu' = [vu EXCEPT ![v] = "gone"] /\ wake' = wake
         \/ vu' = [vu EXCEPT ![v] = "waiting"] /\ wake' = [wake EXCEPT ![v] = Starts(v[1]) + NextActive(v)]
         \/ vu' = [vu EXCEPT ![v] = "iterating"] /\ wake' = wake
  BY Zenon DEF RampingLoop, BeginIteration, Goto
<1>2. /\ Begun /\ requests' \in Nat /\ v[1] <= driven /\ DOMAIN wake = DOMAIN vu
  BY <1>1, InMotion
<1>3. \A place \in {"gone", "waiting", "iterating"} : place \in VUPlaces(Kind(v[1]))
  BY <1>1 DEF VUPlaces
<1>4. Kind(v[1]) # "constant-vus"
  BY <1>1
<1>5. DOMAIN wake' = DOMAIN wake /\ \A w \in DOMAIN vu : w # v => wake'[w] = wake[w]
  BY <1>1, <1>2, Zenon
<1>6. CASE /\ ~Live(v) \/ now >= StopsAt(v[1]) \/ NextActive(v) = R!NoOffset
           /\ vu' = [vu EXCEPT ![v] = "gone"]
  <2>1. Live(v) => Excused(v)
    BY <1>1, <1>6, Zenon DEF Excused
  <2>2. QED
    BY <1>1, <1>2, <1>3, <1>4, <1>5, <1>6, <2>1, VUStep
<1>7. CASE vu' = [vu EXCEPT ![v] = "waiting"]
  BY <1>1, <1>2, <1>3, <1>4, <1>5, <1>7, VUStep
<1>8. CASE vu' = [vu EXCEPT ![v] = "iterating"]
  BY <1>1, <1>2, <1>3, <1>4, <1>5, <1>8, VUStep
<1>9. QED
  BY <1>1, <1>6, <1>7, <1>8

LEMMA ReturnKeeps ==
    ASSUME StartInv, LoadInv, NEW v \in DOMAIN vu, Return(v)
    PROVE  StartInv' /\ LoadInv'
<1>1. vu[v] = "iterating" /\ vu' = [vu EXCEPT ![v] = "returned"] /\ wake' = wake /\ OnlyVU
  BY DEF Return, Goto
<1>2. PICK n \in {0, 1} : requests' = requests + n
  BY DEF Return
<1>3. /\ Begun /\ v[1] <= driven /\ vu[v] \in VUPlaces(Kind(v[1])) /\ VUWell(v) /\ requests \in Nat
  BY <1>1, InMotion
<1>4. requests' \in Nat /\ "returned" \in VUPlaces(Kind(v[1]))
  BY <1>2, <1>3 DEF VUPlaces
<1>5. Kind(v[1]) = "constant-vus" => now >= Starts(v[1])
  BY <1>1, <1>3 DEF VUWell
<1>6. QED
  BY <1>1, <1>3, <1>4, <1>5, VUStep

LEMMA CountKeeps ==
    ASSUME StartInv, LoadInv, NEW v \in DOMAIN vu, Count(v)
    PROVE  StartInv' /\ LoadInv'
<1> DEFINE place == IF Kind(v[1]) = "constant-arrival-rate" THEN "receiving" ELSE "loop"
<1>1. vu[v] = "returned" /\ vu' = [vu EXCEPT ![v] = place] /\ wake' = wake /\ requests' = requests /\ OnlyVU
  BY DEF Count, Goto
<1>2. /\ Begun /\ v[1] <= driven /\ VUWell(v) /\ requests' \in Nat
  BY <1>1, InMotion
<1>3. place \in VUPlaces(Kind(v[1])) /\ place # "gone" /\ place # "waiting"
  BY DEF VUPlaces
<1>4. Kind(v[1]) = "constant-vus" => now >= Starts(v[1])
  BY <1>1, <1>2 DEF VUWell
<1> HIDE DEF place
<1>5. QED
  BY <1>1, <1>2, <1>3, <1>4, VUStep

LEMMA StopReceivingKeeps ==
    ASSUME StartInv, LoadInv, NEW v \in DOMAIN vu, StopReceiving(v)
    PROVE  StartInv' /\ LoadInv'
<1>1. /\ vu[v] = "receiving" /\ (~Live(v) \/ sched[v[1]] = "gone") /\ vu' = [vu EXCEPT ![v] = "gone"]
      /\ wake' = wake /\ requests' = requests /\ OnlyVU
  BY DEF StopReceiving, Goto
<1>2. /\ Begun /\ v[1] <= driven /\ vu[v] \in VUPlaces(Kind(v[1])) /\ requests' \in Nat
      /\ GoodPlan /\ v[1] \in 1..Len(plan)
  BY <1>1, InMotion
<1>3. Kind(v[1]) = "constant-arrival-rate" /\ "gone" \in VUPlaces(Kind(v[1]))
  BY <1>1, <1>2 DEF VUPlaces
<1>4. Live(v) => sched[v[1]] = "gone" /\ Due(v[1]) >= StopsAt(v[1])
  BY <1>1, <1>2 DEF LoadInv, SchedInv, Live, GoodPlan
<1>5. Live(v) => Excused(v)
  BY <1>3, <1>4, Zenon DEF Excused
<1>6. QED
  BY <1>1, <1>2, <1>3, <1>5, VUStep

-----------------------------------------------------------------------------
(* The steps of the schedulers *)

\* The scheduler of i moves and leaves the VUs alone, or makes one of them
\* iterate.
LEMMA SchedStep ==
    ASSUME StartInv, LoadInv, Begun, NEW i \in DOMAIN sched, sched[i] \in {"waiting", "on"}, NEW place \in {"waiting", "on", "gone"},
           sched' = [sched EXCEPT ![i] = place], DOMAIN starts' = DOMAIN starts, starts'[i] \in Nat,
           \A k \in DOMAIN starts : k # i => starts'[k] = starts[k],
           place = "gone" /\ i \notin ended => Due(i)' >= StopsAt(i),
           starts' \in [DOMAIN plan -> Nat],
           \/ vu' = vu
           \/ \E v \in DOMAIN vu : v[1] = i /\ vu[v] # "gone" /\ vu' = [vu EXCEPT ![v] = "iterating"],
           wake' = wake, requests' = requests, OnlySched
    PROVE  StartInv' /\ LoadInv'
<1>1. ~Returned
  BY Busy
<1>2. UNCHANGED <<planVars, pc, cancelled, clockVars, sampVars, elapsed, result>>
  BY DEF OnlySched
<1>3. StartInv' /\ IdleInv' /\ EndedInv' /\ JoinInv' /\ SamplerInv' /\ SeriesInv' /\ LastInv' /\ ResultInv'
  BY <1>1, <1>2, QuietStep
<1>4. /\ pc' = pc /\ now' = now /\ driven' = driven /\ ended' = ended
      /\ UNCHANGED <<in, cfg, plan>> /\ iters' = iters
  BY <1>2 DEF planVars, clockVars
<1>5. GoodPlan /\ \A w \in VUIds : w[1] \in 1..Len(plan) /\ w[2] \in Nat \ {0}
  BY VUsAre
<1>6. \A k : Kind(k)' = Kind(k) /\ Starts(k)' = Starts(k) /\ StopsAt(k)' = StopsAt(k)
  BY <1>4, SamePlan
<1>7. Begun' /\ VUIds' = VUIds
  BY <1>4 DEF Begun, VUIds
<1>8. /\ DOMAIN vu = VUIds /\ DOMAIN wake = VUIds /\ DOMAIN vu' = VUIds /\ now \in Nat
      /\ sched \in [DOMAIN plan -> {"none", "waiting", "on", "gone"}] /\ DOMAIN sched = DOMAIN plan
      /\ DOMAIN starts = DOMAIN plan
  BY DEF LoadInv, TypeInv
<1>9. sched' \in [DOMAIN plan -> {"none", "waiting", "on", "gone"}]
  BY <1>8
<1>10. TypeInv'
  BY <1>4, <1>7, <1>8, <1>9 DEF LoadInv, TypeInv
<1>11. i <= driven /\ Kind(i) = "constant-arrival-rate"
  BY <1>8 DEF LoadInv, SchedInv
<1>12. \A k \in DOMAIN plan : k # i => sched'[k] = sched[k] /\ starts'[k] = starts[k] /\ Due(k)' = Due(k)
  <2>1. \A k \in DOMAIN plan : k # i => sched'[k] = sched[k] /\ starts'[k] = starts[k]
    BY <1>8
  <2>2. QED
    BY <1>4, <1>6, <2>1 DEF Due
<1>13. sched'[i] = place
  BY <1>8
<1>14. SchedInv'
  <2>1. ASSUME NEW k \in DOMAIN plan
        PROVE  /\ sched'[k] # "none" => k <= driven /\ Kind(k) = "constant-arrival-rate"
               /\ sched'[k] = "gone" /\ k \notin ended => Due(k)' >= StopsAt(k)
    <3>1. CASE k = i
      BY <1>11, <1>13, <3>1
    <3>2. CASE k # i
      BY <1>12, <3>2 DEF LoadInv, SchedInv
    <3>3. QED
      BY <3>1, <3>2
  <2>2. QED
    BY <1>4, <1>6, <2>1, Zenon DEF SchedInv
<1>15. VUInv'
  <2>1. ASSUME NEW w \in VUIds PROVE VUWell(w)'
    <3>1. VUWell(w) /\ wake'[w] = wake[w]
      BY <1>8, WellIs DEF LoadInv
    <3>2. CASE vu'[w] = vu[w]
      BY <1>4, <1>6, <3>1, <3>2 DEF VUWell
    <3>3. CASE w[1] = i /\ vu'[w] = "iterating"
      <4>1. Kind(w[1])' = "constant-arrival-rate" /\ w[1] <= driven' /\ w[1] \in Int /\ driven' \in Int
        BY <1>4, <1>5, <1>6, <1>11, <3>3 DEF LoadInv, TypeInv, GoodPlan
      <4>2. QED
        BY <3>3, <4>1 DEF VUWell, VUPlaces
    <3>4. vu'[w] = vu[w] \/ (w[1] = i /\ vu'[w] = "iterating")
      BY <1>8
    <3>5. QED
      BY <3>2, <3>3, <3>4
  <2>2. QED
    BY <1>8, <2>1, WellIsNext
<1>16. NobodyLeavesEarly'
  <2>1. ASSUME NEW w \in VUIds, vu'[w] = "gone", w[1] \notin ended' PROVE Excused(w)'
    <3>1. vu[w] = "gone"
      BY <1>8, <2>1
    <3>2. Excused(w)
      BY <1>4, <1>8, <2>1, <3>1, LeftIs DEF Live, LoadInv
    <3>3. w[1] \in DOMAIN plan
      BY <1>5 DEF GoodPlan
    <3>4. sched[w[1]] = "gone" => sched'[w[1]] = "gone" /\ starts'[w[1]] = starts[w[1]]
      BY <1>12, <3>3
    <3>5. now' \in Nat /\ now <= now'
      BY <1>4, <1>8
    <3>6. QED
      BY <1>4, <1>5, <1>8, <3>2, <3>4, <3>5, ExcusedKept
  <2>2. QED
    BY <1>8, <2>1, LeftIsNext
<1>17. QED
  BY <1>3, <1>10, <1>14, <1>15, <1>16 DEF LoadInv

LEMMA Scheduling ==
    ASSUME StartInv, LoadInv, NEW i \in DOMAIN sched
    PROVE  /\ Begun /\ i \in DOMAIN plan /\ DOMAIN sched = DOMAIN plan /\ starts \in [DOMAIN plan -> Nat]
           /\ UNCHANGED <<in, cfg, plan>> => StopsAt(i)' = StopsAt(i)
<1>1. Begun
  <2>1. SUFFICES ASSUME ~Begun PROVE FALSE
    OBVIOUS
  <2>2. sched = <<>>
    BY <2>1 DEF LoadInv, IdleInv, Idle
  <2>3. QED
    BY <2>2
<1>2. QED
  BY <1>1, SamePlan DEF LoadInv, TypeInv

LEMMA SchedulerWakesKeeps ==
    ASSUME StartInv, LoadInv, NEW i \in DOMAIN sched, SchedulerWakes(i)
    PROVE  StartInv' /\ LoadInv'
<1>1. /\ sched[i] = "waiting" /\ UNCHANGED <<vuVars, starts>> /\ OnlySched
      /\ \/ sched' = [sched EXCEPT ![i] = "on"]
         \/ i \in ended /\ sched' = [sched EXCEPT ![i] = "gone"]
  BY DEF SchedulerWakes
<1>2. vu' = vu /\ wake' = wake /\ requests' = requests /\ starts' = starts
  BY <1>1 DEF vuVars
<1>3. Begun /\ i \in DOMAIN plan /\ starts \in [DOMAIN plan -> Nat]
  BY Scheduling
<1>4. starts'[i] \in Nat
  BY <1>2, <1>3
<1>5. CASE sched' = [sched EXCEPT ![i] = "on"]
  BY <1>1, <1>2, <1>3, <1>4, <1>5, SchedStep
<1>6. CASE i \in ended /\ sched' = [sched EXCEPT ![i] = "gone"]
  BY <1>1, <1>2, <1>3, <1>4, <1>6, SchedStep
<1>7. QED
  BY <1>1, <1>5, <1>6

LEMMA SchedulerReturnsKeeps ==
    ASSUME StartInv, LoadInv, NEW i \in DOMAIN sched, SchedulerReturns(i)
    PROVE  StartInv' /\ LoadInv'
<1>1. /\ sched[i] = "on" /\ UNCHANGED <<vuVars, starts>> /\ OnlySched
      /\ Due(i) >= StopsAt(i) \/ i \in ended
      /\ sched' = [sched EXCEPT ![i] = "gone"]
  BY DEF SchedulerReturns
<1>2. vu' = vu /\ wake' = wake /\ requests' = requests /\ starts' = starts /\ plan' = plan
  BY <1>1 DEF vuVars, OnlySched, planVars
<1>3. Begun /\ i \in DOMAIN plan /\ starts \in [DOMAIN plan -> Nat]
  BY Scheduling
<1>4. starts'[i] \in Nat
  BY <1>2, <1>3
<1>5. Due(i)' = Due(i)
  BY <1>2 DEF Due, Starts
<1>6. QED
  BY <1>1, <1>2, <1>3, <1>4, <1>5, SchedStep

LEMMA HandOverKeeps ==
    ASSUME StartInv, LoadInv, NEW i \in DOMAIN sched, HandOver(i)
    PROVE  StartInv' /\ LoadInv'
<1>1. sched[i] = "on" /\ sched' = sched /\ OnlySched /\ starts' = [starts EXCEPT ![i] = @ + 1]
  BY DEF HandOver
<1>2. PICK v \in Pool(i) : vu[v] = "receiving" /\ vu' = [vu EXCEPT ![v] = "iterating"] /\ wake' = wake /\ requests' = requests
  BY DEF HandOver, BeginIteration, Goto
<1>3. Begun /\ i \in DOMAIN plan /\ starts \in [DOMAIN plan -> Nat] /\ DOMAIN sched = DOMAIN plan
  BY Scheduling
<1>4. starts' \in [DOMAIN plan -> Nat] /\ starts'[i] \in Nat /\ DOMAIN starts' = DOMAIN starts
      /\ \A k \in DOMAIN starts : k # i => starts'[k] = starts[k]
  BY <1>1, <1>3
<1>5. sched' = [sched EXCEPT ![i] = "on"]
  BY <1>1, <1>3 DEF LoadInv, TypeInv
<1>6. v \in DOMAIN vu /\ v[1] = i
  BY DEF Pool
<1>7. QED
  BY <1>1, <1>2, <1>3, <1>4, <1>5, <1>6, SchedStep

LEMMA DropStartKeeps ==
    ASSUME StartInv, LoadInv, NEW i \in DOMAIN sched, DropStart(i)
    PROVE  StartInv' /\ LoadInv'
<1>1. /\ sched[i] = "on" /\ sched' = sched /\ UNCHANGED vuVars /\ OnlySched
      /\ starts' = [starts EXCEPT ![i] = @ + 1]
  BY DEF DropStart
<1>2. vu' = vu /\ wake' = wake /\ requests' = requests
  BY <1>1 DEF vuVars
<1>3. Begun /\ i \in DOMAIN plan /\ starts \in [DOMAIN plan -> Nat] /\ DOMAIN sched = DOMAIN plan
  BY Scheduling
<1>4. starts' \in [DOMAIN plan -> Nat] /\ starts'[i] \in Nat /\ DOMAIN starts' = DOMAIN starts
      /\ \A k \in DOMAIN starts : k # i => starts'[k] = starts[k]
  BY <1>1, <1>3
<1>5. sched' = [sched EXCEPT ![i] = "on"]
  BY <1>1, <1>3 DEF LoadInv, TypeInv
<1>6. QED
  BY <1>1, <1>2, <1>3, <1>4, <1>5, SchedStep

-----------------------------------------------------------------------------
(* The steps of the engine and of the sampler *)

\* The VUs and schedulers do not move, and no context comes to life again.
LEMMA StillStep ==
    ASSUME StartInv, LoadInv, Begun, Begun', UNCHANGED <<planVars, vuVars, schedVars, driven>>,
           now' \in Nat, now <= now', ended \subseteq ended', ended' \subseteq 1..driven,
           pc' # "driving" => driven = Len(plan)
    PROVE  StartInv' /\ IdleInv' /\ TypeInv' /\ VUInv' /\ SchedInv' /\ NobodyLeavesEarly'
<1>1. StartInv'
  BY StartKept
<1>2. /\ UNCHANGED <<in, cfg, plan>> /\ iters' = iters /\ vu' = vu /\ wake' = wake /\ requests' = requests
      /\ sched' = sched /\ starts' = starts /\ driven' = driven
  BY DEF planVars, vuVars, schedVars
<1>3. \A k : Kind(k)' = Kind(k) /\ Starts(k)' = Starts(k) /\ StopsAt(k)' = StopsAt(k)
  BY <1>2, SamePlan
<1>4. VUIds' = VUIds
  BY <1>2 DEF VUIds
<1>5. IdleInv'
  BY DEF IdleInv
<1>6. TypeInv'
  BY <1>2, <1>4 DEF LoadInv, TypeInv
<1>7. GoodPlan /\ DOMAIN vu = VUIds /\ \A w \in VUIds : w[1] \in 1..Len(plan) /\ w[2] \in Nat \ {0}
  BY VUsAre DEF LoadInv, TypeInv
<1>8. now \in Nat /\ \A w \in VUIds : Starts(w[1]) \in Nat
  BY <1>7 DEF LoadInv, TypeInv, GoodPlan
<1>9. VUInv'
  <2>1. ASSUME NEW w \in VUIds PROVE VUWell(w)'
    <3>1. VUWell(w)
      BY <1>7, WellIs DEF LoadInv
    <3>2. now >= Starts(w[1]) => now' >= Starts(w[1])
      BY <1>8
    <3>3. QED
      BY <1>2, <1>3, <3>1, <3>2 DEF VUWell
  <2>2. QED
    BY <1>2, <1>7, <2>1, WellIsNext
<1>10. SchedInv'
  <2>1. \A k : Due(k)' = Due(k)
    BY <1>2, <1>3 DEF Due
  <2>2. QED
    BY <1>2, <1>3, <2>1 DEF LoadInv, SchedInv
<1>11. NobodyLeavesEarly'
  <2>1. ASSUME NEW w \in VUIds, vu'[w] = "gone", w[1] \notin ended' PROVE Excused(w)'
    <3>1. Excused(w)
      BY <1>2, <1>7, <2>1, LeftIs DEF Live, LoadInv
    <3>2. QED
      BY <1>2, <1>7, <1>8, <3>1, ExcusedKept
  <2>2. QED
    BY <1>2, <1>7, <2>1, LeftIsNext
<1>12. QED
  BY <1>1, <1>5, <1>6, <1>9, <1>10, <1>11

\* Time passes and contexts end, which the sampler does not notice.
LEMMA ClockStep ==
    ASSUME StartInv, LoadInv, Begun, pc' = pc, cancelled => cancelled',
           UNCHANGED <<planVars, vuVars, schedVars, sampVars, driven, elapsed, result>>,
           iterations' = iterations, now' \in Nat, now <= now', ended \subseteq ended', ended' \subseteq 1..driven,
           EndedInv'
    PROVE  StartInv' /\ LoadInv'
<1>1. Begun' /\ (pc' # "driving" => driven = Len(plan)) /\ now \in Nat
  BY DEF Begun, LoadInv, TypeInv
<1>2. StartInv' /\ IdleInv' /\ TypeInv' /\ VUInv' /\ SchedInv' /\ NobodyLeavesEarly'
  BY <1>1, StillStep
<1>3. /\ UNCHANGED <<in, cfg, plan>> /\ vu' = vu /\ sched' = sched /\ spc' = spc /\ ticker' = ticker /\ series' = series
      /\ requests' = requests /\ dropped' = dropped /\ elapsed' = elapsed /\ result' = result
  BY DEF planVars, vuVars, schedVars, sampVars
<1>4. AllGone' = AllGone /\ AllConstant' = AllConstant
  <2>1. \A k : Kind(k)' = Kind(k)
    BY <1>3, SamePlan
  <2>2. QED
    BY <1>3, <2>1 DEF AllGone, AllConstant
<1>5. JoinInv'
  BY <1>1, <1>3, <1>4 DEF LoadInv, JoinInv, Returned
<1>6. SamplerInv'
  BY <1>3 DEF LoadInv, SamplerInv, Begun
<1>7. SeriesInv'
  <2>1. SeriesInv
    BY DEF LoadInv
  <2>2. spc = "on" /\ ticker.at # NoTick => ticker.at <= now'
    <3>1. spc = "on" /\ ticker.at # NoTick => ticker.at \in Nat /\ ticker.at <= now
      BY <2>1 DEF SeriesInv
    <3>2. QED
      BY <1>1, <3>1
  <2>3. QED
    BY <1>3, <2>1, <2>2 DEF SeriesInv
<1>8. LastInv'
  BY <1>3, <1>4 DEF LoadInv, LastInv, Begun, Requested
<1>9. ResultInv'
  BY <1>3 DEF LoadInv, ResultInv
<1>10. QED
  BY <1>2, <1>5, <1>6, <1>7, <1>8, <1>9 DEF LoadInv

LEMMA TickKeeps ==
    ASSUME StartInv, LoadInv, Tick
    PROVE  StartInv' /\ LoadInv'
<1>1. Begun
  BY DEF Tick, Loading, Begun
<1>2. /\ now' = now + 1 /\ pc' = pc /\ cancelled' = cancelled /\ driven' = driven /\ ended' = ended
      /\ UNCHANGED <<planVars, vuVars, schedVars, sampVars, elapsed, result>>
  BY DEF Tick
<1>3. now \in Nat /\ now' \in Nat /\ now <= now' /\ ended \subseteq 1..driven
  BY <1>1, <1>2 DEF LoadInv, TypeInv
<1>4. EndedInv'
  <2>1. GoodPlan /\ \A i : Ends(i)' = Ends(i)
    BY <1>1, <1>2, VUsAre, SamePlan DEF planVars
  <2>2. driven \in 0..Len(plan)
    BY <1>1 DEF LoadInv, TypeInv
  <2>3. \A i \in ended : Ends(i) \in Nat
    <3>1. Len(plan) \in Nat /\ \A i \in 1..Len(plan) : Ends(i) \in Nat
      BY <2>1 DEF GoodPlan
    <3>2. \A i \in 1..driven : i \in 1..Len(plan)
      BY <2>2, <3>1
    <3>3. QED
      BY <1>3, <3>1, <3>2
  <2>4. QED
    BY <1>1, <1>2, <1>3, <2>1, <2>3 DEF LoadInv, EndedInv
<1>5. iterations' = iterations
  BY <1>2 DEF vuVars
<1>6. QED
  BY <1>1, <1>2, <1>3, <1>4, <1>5, ClockStep

LEMMA ExpireKeeps ==
    ASSUME StartInv, LoadInv, Expire
    PROVE  StartInv' /\ LoadInv'
<1>1. Begun
  BY DEF Expire, Loading, Begun
<1>2. PICK i \in (1..driven) \ ended : now >= Ends(i) /\ ended' = ended \cup {i}
  BY DEF Expire
<1>3. /\ now' = now /\ pc' = pc /\ cancelled' = cancelled /\ driven' = driven
      /\ UNCHANGED <<planVars, vuVars, schedVars, sampVars, elapsed, result>>
  BY DEF Expire
<1>4. now \in Nat /\ now' \in Nat /\ now <= now' /\ ended \subseteq 1..driven
  BY <1>1, <1>3 DEF LoadInv, TypeInv
<1>5. EndedInv'
  <2>1. \A k : Ends(k)' = Ends(k)
    BY <1>3, SamePlan DEF planVars
  <2>2. QED
    BY <1>1, <1>2, <1>3, <2>1 DEF LoadInv, EndedInv
<1>6. iterations' = iterations
  BY <1>3 DEF vuVars
<1>7. QED
  BY <1>1, <1>2, <1>3, <1>4, <1>5, <1>6, ClockStep

LEMMA InterruptKeeps ==
    ASSUME StartInv, LoadInv, Interrupt
    PROVE  StartInv' /\ LoadInv'
<1>1. Begun
  BY DEF Interrupt, Loading, Begun
<1>2. /\ now' = now /\ pc' = pc /\ cancelled' = TRUE /\ driven' = driven /\ ended' = 1..driven
      /\ UNCHANGED <<planVars, vuVars, schedVars, sampVars, elapsed, result>>
  BY DEF Interrupt
<1>3. now \in Nat /\ now' \in Nat /\ now <= now' /\ ended \subseteq 1..driven
  BY <1>1, <1>2 DEF LoadInv, TypeInv
<1>4. EndedInv'
  BY <1>2 DEF EndedInv
<1>5. iterations' = iterations
  BY <1>2 DEF vuVars
<1>6. QED
  BY <1>1, <1>2, <1>3, <1>4, <1>5, ClockStep

LEMMA StartLoadKeeps ==
    ASSUME StartInv, LoadInv, StartLoad
    PROVE  StartInv' /\ LoadInv'
<1>1. /\ pc = "running" /\ pc' = "driving" /\ UNCHANGED <<planVars, cancelled, clockVars, requests, sampVars, elapsed, result>>
      /\ vu' = [v \in VUIds |-> "new"] /\ wake' = [v \in VUIds |-> 0]
      /\ sched' = [i \in DOMAIN plan |-> "none"] /\ starts' = [i \in DOMAIN plan |-> 0]
  BY DEF StartLoad
<1>2. Idle
  BY <1>1 DEF LoadInv, IdleInv, Begun
<1>3. /\ UNCHANGED <<in, cfg, plan>> /\ iters' = iters /\ now' = 0 /\ driven' = 0 /\ ended' = {}
      /\ spc' = "none" /\ series' = <<>> /\ requests' = 0
  BY <1>1, <1>2 DEF Idle, planVars, clockVars, sampVars
<1>4. Begun' /\ ~Returned' /\ StartInv'
  <2>1. Begun' /\ ~Returned'
    BY <1>1 DEF Begun, Returned
  <2>2. QED
    BY <1>1, <2>1, StartKept
<1>5. /\ GoodPlan /\ \A w \in VUIds : w[1] \in 1..Len(plan)
  BY <1>1, VUsAre
<1>6. VUIds' = VUIds
  BY <1>3 DEF VUIds
<1>7. Len(plan) \in Nat
  BY <1>5 DEF GoodPlan
<1>8. TypeInv'
  <2>1. /\ now' \in Nat /\ driven' \in 0..Len(plan) /\ ended' \subseteq 1..driven'
        /\ DOMAIN vu' = VUIds /\ DOMAIN wake' = VUIds /\ requests' \in Nat
    BY <1>1, <1>3, <1>7
  <2>2. sched' \in [DOMAIN plan -> {"none", "waiting", "on", "gone"}] /\ starts' \in [DOMAIN plan -> Nat]
    BY <1>1
  <2>3. QED
    BY <1>1, <1>3, <1>6, <2>1, <2>2 DEF TypeInv
<1>9. VUInv'
  <2>1. ASSUME NEW w \in VUIds PROVE VUWell(w)'
    <3>1. vu'[w] = "new" /\ w[1] \in 1..Len(plan) /\ driven' = 0
      BY <1>1, <1>3, <1>5
    <3>2. ~(w[1] <= driven')
      BY <1>7, <3>1
    <3>3. QED
      BY <3>1, <3>2 DEF VUWell
  <2>2. QED
    BY <1>1, <2>1, WellIsNext
<1>10. SchedInv'
  BY <1>1, <1>3 DEF SchedInv
<1>11. NobodyLeavesEarly'
  BY <1>1 DEF NobodyLeavesEarly
<1>12. IdleInv' /\ EndedInv' /\ JoinInv' /\ ResultInv'
  BY <1>1, <1>3, <1>4 DEF IdleInv, EndedInv, JoinInv, ResultInv
<1>13. SamplerInv' /\ LastInv'
  BY <1>1, <1>3 DEF SamplerInv, LastInv
<1>14. SeriesInv'
  <2>1. series' \in Seq(Points) /\ Len(series') = 0
    BY <1>3, EmptySeq
  <2>2. QED
    BY <1>3, <2>1 DEF SeriesInv
<1>15. QED
  BY <1>4, <1>8, <1>9, <1>10, <1>11, <1>12, <1>13, <1>14 DEF LoadInv

LEMMA DriveKeeps ==
    ASSUME StartInv, LoadInv, Drive
    PROVE  StartInv' /\ LoadInv'
<1> DEFINE d == driven + 1
<1>1. /\ pc = "driving" /\ driven < Len(plan) /\ driven' = d
      /\ ended' = IF cancelled THEN ended \cup {d} ELSE ended
      /\ vu' = [v \in DOMAIN vu |-> IF v[1] = d THEN FirstStep(d) ELSE vu[v]]
      /\ wake' = [v \in DOMAIN vu |-> IF v[1] = d THEN Starts(d) ELSE wake[v]]
      /\ sched' = [sched EXCEPT ![d] = IF Kind(d) = "constant-arrival-rate" THEN "waiting" ELSE "none"]
      /\ UNCHANGED <<planVars, pc, cancelled, now, requests, starts, sampVars, elapsed, result>>
  BY DEF Drive
<1>2. Begun /\ ~Returned /\ Begun' /\ ~Returned'
  BY <1>1 DEF Begun, Returned
<1>3. /\ UNCHANGED <<in, cfg, plan>> /\ iters' = iters /\ spc' = spc /\ series' = series /\ now' = now
      /\ cancelled' = cancelled /\ pc' = pc
  BY <1>1 DEF planVars, sampVars
<1>4. StartInv'
  BY <1>1, StartKept
<1>5. /\ GoodPlan /\ \A w \in VUIds : w[1] \in 1..Len(plan) /\ w[2] \in Nat \ {0}
  BY <1>2, VUsAre
<1>6. /\ DOMAIN vu = VUIds /\ DOMAIN wake = VUIds /\ now \in Nat /\ driven \in 0..Len(plan) /\ ended \subseteq 1..driven
      /\ sched \in [DOMAIN plan -> {"none", "waiting", "on", "gone"}] /\ starts \in [DOMAIN plan -> Nat] /\ requests \in Nat
  BY <1>2 DEF LoadInv, TypeInv
<1>7. VUIds' = VUIds /\ \A k : Kind(k)' = Kind(k) /\ Starts(k)' = Starts(k) /\ StopsAt(k)' = StopsAt(k) /\ Ends(k)' = Ends(k)
  BY <1>3, SamePlan DEF VUIds
<1>8. Len(plan) \in Nat /\ DOMAIN plan = 1..Len(plan) /\ d \in 1..Len(plan) /\ Kind(d) \in Kinds
  <2>1. Len(plan) \in Nat /\ DOMAIN plan = 1..Len(plan)
    BY <1>5 DEF GoodPlan
  <2>2. d \in 1..Len(plan)
    BY <1>1, <1>6, <2>1
  <2>3. QED
    BY <1>5, <2>1, <2>2 DEF GoodPlan, GoodExecutor, Kind
<1>9. FirstStep(d) = IF Kind(d) = "constant-vus" THEN "waiting" ELSE IF Kind(d) = "ramping-vus" THEN "loop" ELSE "receiving"
  BY DEF FirstStep
<1> DEFINE first == IF Kind(d) = "constant-vus" THEN "waiting" ELSE IF Kind(d) = "ramping-vus" THEN "loop" ELSE "receiving"
           order == IF Kind(d) = "constant-arrival-rate" THEN "waiting" ELSE "none"
<1>10. /\ DOMAIN vu' = VUIds /\ DOMAIN wake' = VUIds
       /\ \A w \in VUIds : vu'[w] = (IF w[1] = d THEN first ELSE vu[w]) /\ wake'[w] = (IF w[1] = d THEN Starts(d) ELSE wake[w])
  BY <1>1, <1>6, <1>7, <1>9
<1>11. sched' = [sched EXCEPT ![d] = order]
  BY <1>1, <1>7
<1>12. first \in VUPlaces(Kind(d)) /\ first # "gone" /\ order \in {"none", "waiting"} /\ (order # "none" => Kind(d) = "constant-arrival-rate")
       /\ (Kind(d) = "constant-vus" => first = "waiting")
  BY <1>8 DEF VUPlaces, Kinds
<1> HIDE DEF first, order
<1>13. \A k \in DOMAIN plan : sched'[k] = IF k = d THEN order ELSE sched[k]
  BY <1>6, <1>8, <1>11
<1>14. sched[d] = "none"
  <2>1. ~(d <= driven)
    BY <1>6
  <2>2. QED
    BY <1>2, <1>8, <2>1 DEF LoadInv, SchedInv
<1>15. TypeInv'
  <2>1. driven' \in 0..Len(plan) /\ ended' \subseteq 1..driven'
    <3>1. driven' = d /\ (ended' = ended \/ ended' = ended \cup {d})
      BY <1>1
    <3>2. d \in 1..d /\ \A k \in 1..driven : k \in 1..d
      BY <1>6, <1>8
    <3>3. d \in 0..Len(plan)
      BY <1>8
    <3> HIDE DEF d
    <3>4. QED
      BY <1>6, <3>1, <3>2, <3>3
  <2>2. sched' \in [DOMAIN plan -> {"none", "waiting", "on", "gone"}]
    BY <1>6, <1>11, <1>12
  <2>3. QED
    BY <1>1, <1>3, <1>6, <1>7, <1>10, <2>1, <2>2 DEF TypeInv
<1>16. VUInv'
  <2>1. ASSUME NEW w \in VUIds PROVE VUWell(w)'
    <3>1. VUWell(w) /\ w[1] \in Int /\ driven \in Int /\ d \in Int /\ driven' = d
      BY <1>1, <1>2, <1>5, <1>6, WellIs DEF LoadInv
    <3>2. CASE w[1] = d
      <4>1. vu'[w] = first /\ wake'[w] = Starts(d)
        BY <1>10, <3>2
      <4>2. /\ Kind(w[1])' = Kind(d) /\ Starts(w[1])' = Starts(d) /\ ~(w[1] > driven')
        BY <1>7, <3>1, <3>2
      <4>3. QED
        BY <1>12, <4>1, <4>2 DEF VUWell
    <3>3. CASE w[1] # d
      <4>1. vu'[w] = vu[w] /\ wake'[w] = wake[w]
        BY <1>10, <3>3
      <4>2. (w[1] > driven' => w[1] > driven) /\ (w[1] <= driven' => w[1] <= driven)
        BY <3>1, <3>3
      <4>3. QED
        BY <1>3, <1>7, <3>1, <4>1, <4>2 DEF VUWell
    <3>4. QED
      BY <3>2, <3>3
  <2>2. QED
    BY <1>10, <2>1, WellIsNext
<1>17. SchedInv'
  <2>1. \A k : Due(k)' = Due(k)
    BY <1>1, <1>3, <1>7 DEF Due
  <2>2. ASSUME NEW k \in DOMAIN plan
        PROVE  /\ sched'[k] # "none" => k <= driven' /\ Kind(k) = "constant-arrival-rate"
               /\ sched'[k] = "gone" /\ k \notin ended' => Due(k) >= StopsAt(k)
    <3>1. CASE k = d
      BY <1>1, <1>8, <1>12, <1>13, <3>1
    <3>2. CASE k # d
      <4>1. sched'[k] = sched[k]
        BY <1>13, <3>2
      <4>2. /\ sched[k] # "none" => k <= driven /\ Kind(k) = "constant-arrival-rate"
            /\ sched[k] = "gone" /\ k \notin ended => Due(k) >= StopsAt(k)
        BY <1>2 DEF LoadInv, SchedInv
      <4>3. k \in Int /\ driven \in Int /\ driven' = driven + 1 /\ ended \subseteq ended'
        BY <1>1, <1>6, <1>8
      <4>4. QED
        BY <4>1, <4>2, <4>3
    <3>3. QED
      BY <3>1, <3>2
  <2>3. QED
    BY <1>3, <1>7, <2>1, <2>2, Zenon DEF SchedInv
<1>18. NobodyLeavesEarly'
  <2>1. ASSUME NEW w \in VUIds, vu'[w] = "gone", w[1] \notin ended' PROVE Excused(w)'
    <3>1. w[1] # d /\ vu[w] = "gone"
      BY <1>10, <1>12, <2>1
    <3>2. w[1] \notin ended
      BY <1>1, <2>1
    <3>3. Excused(w)
      BY <1>6, <3>1, <3>2, LeftIs DEF Live, LoadInv
    <3>4. sched'[w[1]] = sched[w[1]] /\ starts'[w[1]] = starts[w[1]]
      BY <1>1, <1>5, <1>8, <1>13, <3>1
    <3>5. now' \in Nat /\ now <= now'
      BY <1>3, <1>6
    <3>6. QED
      BY <1>3, <1>5, <1>6, <3>3, <3>4, <3>5, ExcusedKept
  <2>2. QED
    BY <1>10, <2>1, LeftIsNext
<1>19. EndedInv'
  <2>1. ~cancelled' => ended' = ended
    BY <1>1, <1>3
  <2>2. QED
    BY <1>2, <1>3, <1>7, <2>1 DEF LoadInv, EndedInv
<1>20. spc = "none" /\ series = <<>>
  BY <1>1, <1>2 DEF LoadInv, SamplerInv
<1>21. IdleInv' /\ JoinInv' /\ ResultInv' /\ SamplerInv' /\ LastInv'
  BY <1>1, <1>2, <1>3, <1>20 DEF IdleInv, JoinInv, ResultInv, SamplerInv, LastInv
<1>22. SeriesInv'
  <2>1. series' \in Seq(Points) /\ Len(series') = 0
    BY <1>3, <1>20, EmptySeq
  <2>2. QED
    BY <1>3, <1>20, <2>1 DEF SeriesInv
<1>23. QED
  BY <1>4, <1>15, <1>16, <1>17, <1>18, <1>19, <1>21, <1>22 DEF LoadInv

\* Without Ctrl+C nobody in constant-vus scenarios returns before the end.
LEMMA NotBeforeTheEnd ==
    ASSUME StartInv, LoadInv, Begun, AllGone, ~cancelled, AllConstant
    PROVE  now >= cfg.Duration
<1>1. GoodPlan /\ \A i \in 1..Len(plan) : <<i, 1>> \in VUIds
  BY VUsAre
<1>2. PICK i \in 1..Len(plan) : StopsAt(i) = cfg.Duration
  BY <1>1 DEF GoodPlan
<1>3. /\ StopsAt(i) \in Nat /\ Ends(i) \in Nat /\ StopsAt(i) <= Ends(i) /\ i \in DOMAIN plan /\ now \in Nat
  BY <1>1 DEF GoodPlan, LoadInv, TypeInv
<1> DEFINE v == <<i, 1>>
<1>4. v \in DOMAIN vu /\ v[1] = i /\ vu[v] = "gone"
  BY <1>1 DEF LoadInv, TypeInv, AllGone
<1>5. CASE i \in ended
  <2>1. now >= Ends(i)
    BY <1>5 DEF LoadInv, EndedInv
  <2>2. QED
    BY <1>2, <1>3, <2>1
<1>6. CASE i \notin ended
  <2>1. Excused(v)
    BY <1>4, <1>6, LeftIs DEF Live, LoadInv
  <2>2. Kind(v[1]) = "constant-vus"
    BY <1>3, <1>4 DEF AllConstant
  <2>3. now >= StopsAt(v[1])
    BY <2>1, <2>2 DEF Excused
  <2>4. QED
    BY <1>2, <1>4, <2>3
<1>7. QED
  BY <1>5, <1>6

LEMMA StartSamplerKeeps ==
    ASSUME StartInv, LoadInv, StartSampler
    PROVE  StartInv' /\ LoadInv'
<1>1. /\ pc = "driving" /\ driven = Len(plan) /\ pc' = "waiting" /\ spc' = "on"
      /\ ticker' = [next |-> now + SampleInterval, at |-> NoTick]
      /\ UNCHANGED <<planVars, cancelled, clockVars, vuVars, schedVars, series, elapsed, result>>
  BY DEF StartSampler
<1>2. Begun /\ Begun' /\ ~Returned' /\ now' = now /\ driven' = driven /\ ended' = ended /\ series' = series
      /\ cancelled' = cancelled
  BY <1>1 DEF Begun, Returned, clockVars
<1>3. now \in Nat /\ ended \subseteq 1..driven /\ series = <<>>
  BY <1>1, <1>2 DEF LoadInv, TypeInv, SamplerInv
<1>4. StartInv' /\ IdleInv' /\ TypeInv' /\ VUInv' /\ SchedInv' /\ NobodyLeavesEarly'
  <2>1. now' \in Nat /\ now <= now' /\ ended \subseteq ended' /\ ended' \subseteq 1..driven
    BY <1>2, <1>3
  <2>2. QED
    BY <1>1, <1>2, <2>1, StillStep
<1>5. EndedInv'
  <2>1. \A k : Ends(k)' = Ends(k)
    BY <1>1, SamePlan DEF planVars
  <2>2. QED
    BY <1>2, <2>1 DEF LoadInv, EndedInv
<1>6. JoinInv' /\ SamplerInv' /\ LastInv' /\ ResultInv'
  BY <1>1, <1>2 DEF JoinInv, SamplerInv, LastInv, ResultInv
<1>7. SeriesInv'
  <2>1. series' \in Seq(Points) /\ Len(series') = 0
    BY <1>2, <1>3, EmptySeq
  <2>2. ticker' \in [next : Nat, at : Nat \cup {NoTick}] /\ ticker'.at = NoTick
    BY <1>1, <1>3, SampleIntervalAssumption
  <2>3. QED
    BY <2>1, <2>2 DEF SeriesInv
<1>8. QED
  BY <1>4, <1>5, <1>6, <1>7 DEF LoadInv

\* Steps of the main goroutine after everybody has returned; the sampler's
\* series stays.
LEMMA MainStep ==
    ASSUME StartInv, LoadInv, Begun, pc # "driving", Returned',
           UNCHANGED <<planVars, cancelled, clockVars, vuVars, schedVars, ticker, series>>,
           spc' = spc \/ spc # "on"
    PROVE  /\ StartInv' /\ IdleInv' /\ TypeInv' /\ VUInv' /\ SchedInv' /\ NobodyLeavesEarly' /\ EndedInv'
           /\ (spc' = "on" => spc = "on") => SeriesInv'
           /\ AllGone' = AllGone /\ AllConstant' = AllConstant
<1>1. Begun' /\ now' = now /\ driven' = driven /\ ended' = ended /\ series' = series /\ ticker' = ticker
      /\ cancelled' = cancelled
  BY DEF Begun, Returned, clockVars
<1>2. now \in Nat /\ ended \subseteq 1..driven /\ driven = Len(plan)
  BY <1>1 DEF LoadInv, TypeInv
<1>3. StartInv' /\ IdleInv' /\ TypeInv' /\ VUInv' /\ SchedInv' /\ NobodyLeavesEarly'
  <2>1. now' \in Nat /\ now <= now' /\ ended \subseteq ended' /\ ended' \subseteq 1..driven
    BY <1>1, <1>2
  <2>2. QED
    BY <1>1, <1>2, <2>1, StillStep
<1>4. UNCHANGED <<in, cfg, plan>> /\ vu' = vu /\ sched' = sched
  BY DEF planVars, vuVars, schedVars
<1>5. EndedInv'
  <2>1. \A k : Ends(k)' = Ends(k)
    BY <1>4, SamePlan
  <2>2. QED
    BY <1>1, <2>1 DEF LoadInv, EndedInv
<1>6. AllGone' = AllGone /\ AllConstant' = AllConstant
  <2>1. \A k : Kind(k)' = Kind(k)
    BY <1>4, SamePlan
  <2>2. QED
    BY <1>4, <2>1 DEF AllGone, AllConstant
<1>7. ASSUME spc' = "on" => spc = "on" PROVE SeriesInv'
  BY <1>1, <1>4, <1>7 DEF LoadInv, SeriesInv
<1>8. QED
  BY <1>3, <1>5, <1>6, <1>7

LEMMA JoinKeeps ==
    ASSUME StartInv, LoadInv, Join
    PROVE  StartInv' /\ LoadInv'
<1>1. /\ pc = "waiting" /\ AllGone /\ pc' = "returned" /\ elapsed' = now
      /\ UNCHANGED <<planVars, cancelled, clockVars, vuVars, schedVars, sampVars, result>>
  BY DEF Join
<1>2. Begun /\ Returned' /\ spc' = spc /\ ticker' = ticker /\ series' = series /\ now' = now /\ cancelled' = cancelled
      /\ cfg' = cfg
  BY <1>1 DEF Begun, Returned, sampVars, clockVars, planVars
<1>3. spc = "on" /\ now \in Nat
  BY <1>1, <1>2 DEF LoadInv, SamplerInv, TypeInv
<1>4. /\ StartInv' /\ IdleInv' /\ TypeInv' /\ VUInv' /\ SchedInv' /\ NobodyLeavesEarly' /\ EndedInv' /\ SeriesInv'
      /\ AllGone' = AllGone /\ AllConstant' = AllConstant
  BY <1>1, <1>2, MainStep
<1>5. JoinInv'
  <2>1. ~cancelled /\ AllConstant => now >= cfg.Duration
    BY <1>1, <1>2, NotBeforeTheEnd
  <2>2. QED
    BY <1>1, <1>2, <1>3, <1>4, <2>1 DEF JoinInv
<1>6. SamplerInv' /\ LastInv' /\ ResultInv'
  BY <1>1, <1>2, <1>3 DEF SamplerInv, LastInv, ResultInv
<1>7. QED
  BY <1>4, <1>5, <1>6 DEF LoadInv

LEMMA CloseStopKeeps ==
    ASSUME StartInv, LoadInv, CloseStop
    PROVE  StartInv' /\ LoadInv'
<1>1. pc = "returned" /\ pc' = "stopped" /\ UNCHANGED <<planVars, cancelled, loadVars>>
  BY DEF CloseStop
<1>2. UNCHANGED <<planVars, cancelled, clockVars, vuVars, schedVars, sampVars, elapsed, result>>
  BY <1>1 DEF loadVars
<1>3. /\ Begun /\ Returned /\ Returned' /\ spc' = spc /\ ticker' = ticker /\ series' = series /\ now' = now
      /\ cancelled' = cancelled /\ cfg' = cfg /\ elapsed' = elapsed
  BY <1>1, <1>2 DEF Begun, Returned, sampVars, clockVars, planVars
<1>4. spc = "on"
  BY <1>1, <1>3 DEF LoadInv, SamplerInv
<1>5. /\ StartInv' /\ IdleInv' /\ TypeInv' /\ VUInv' /\ SchedInv' /\ NobodyLeavesEarly' /\ EndedInv' /\ SeriesInv'
      /\ AllGone' = AllGone /\ AllConstant' = AllConstant
  BY <1>1, <1>2, <1>3, MainStep
<1>6. JoinInv'
  BY <1>3, <1>5 DEF LoadInv, JoinInv
<1>7. SamplerInv' /\ LastInv' /\ ResultInv'
  BY <1>1, <1>3, <1>4 DEF SamplerInv, LastInv, ResultInv
<1>8. QED
  BY <1>5, <1>6, <1>7 DEF LoadInv

LEMMA CollectKeeps ==
    ASSUME StartInv, LoadInv, Collect
    PROVE  StartInv' /\ LoadInv'
<1>1. /\ pc = "stopped" /\ spc = "sending" /\ pc' = "over" /\ spc' = "gone"
      /\ result' = [iterations |-> iterations, dropped |-> dropped, requests |-> requests,
                    elapsed |-> elapsed, series |-> series]
      /\ UNCHANGED <<planVars, cancelled, clockVars, vuVars, schedVars, ticker, series, elapsed>>
  BY DEF Collect
<1>2. /\ Begun /\ Returned /\ Returned' /\ ticker' = ticker /\ series' = series /\ now' = now
      /\ cancelled' = cancelled /\ cfg' = cfg /\ elapsed' = elapsed /\ requests' = requests
      /\ iterations' = iterations /\ dropped' = dropped
  BY <1>1 DEF Begun, Returned, clockVars, planVars, vuVars, schedVars
<1>3. /\ StartInv' /\ IdleInv' /\ TypeInv' /\ VUInv' /\ SchedInv' /\ NobodyLeavesEarly' /\ EndedInv' /\ SeriesInv'
      /\ AllGone' = AllGone /\ AllConstant' = AllConstant
  BY <1>1, <1>2, MainStep
<1>4. JoinInv'
  BY <1>2, <1>3 DEF LoadInv, JoinInv
<1>5. SamplerInv'
  BY <1>1 DEF SamplerInv
<1>6. LastInv'
  BY <1>1, <1>2, <1>3 DEF LoadInv, LastInv, Requested
<1>7. ResultInv'
  BY <1>1, <1>2 DEF ResultInv
<1>8. QED
  BY <1>3, <1>4, <1>5, <1>6, <1>7 DEF LoadInv

-----------------------------------------------------------------------------
(* The points of the series *)

\* The sampler's ticks go on after now.
LEMMA NextTick ==
    ASSUME NEW n \in Nat, NEW x \in Nat, x <= n, NEW next, next = x + SampleInterval * (1 + (n - x) \div SampleInterval)
    PROVE  next \in Nat /\ n < next
<1> DEFINE q == (n - x) \div SampleInterval
<1>1. SampleInterval \in Nat \ {0} /\ n - x \in Int
  BY SampleIntervalAssumption
<1>2. q \in Int /\ \A r \in Int : r <= q <=> r * SampleInterval <= n - x
  BY <1>1, DivIsFloor
<1>3. next = x + SampleInterval * (1 + q)
  OBVIOUS
<1> HIDE DEF q
<1>4. ~((q + 1) * SampleInterval <= n - x)
  BY <1>2
<1>5. q >= 0
  <2>1. 0 * SampleInterval <= n - x
    BY <1>1
  <2>2. QED
    BY <1>2, <2>1
<1>6. (q + 1) * SampleInterval \in Int /\ SampleInterval * (1 + q) = (q + 1) * SampleInterval
  BY <1>1, <1>2
<1> DEFINE m == (q + 1) * SampleInterval
<1>7. m \in Int /\ ~(m <= n - x) /\ next = x + m
  BY <1>3, <1>4, <1>6
<1> HIDE DEF m
<1>8. QED
  BY <1>7

\* A point shows between none and all of the VUs, and none once all scenarios of
\* a test with constant VUs are over.
LEMMA ActiveBounds ==
    ASSUME GoodPlan, NEW at \in Nat
    PROVE  /\ activeVUs(at) \in 0..cfg.VUs
           /\ AllConstant /\ at >= cfg.Duration => activeVUs(at) = 0
<1> DEFINE one(i) == IF at >= Starts(i) THEN executorActiveAt(plan[i].executor, at - Starts(i)) ELSE 0
           s == [i \in 1..Len(plan) |-> one(i)]
<1>1. Len(plan) \in Nat /\ DOMAIN plan = 1..Len(plan) /\ cfg.VUs = SumSeq(NeedsList)
  BY DEF GoodPlan, NeedsList
<1>2. activeVUs(at) = SumSeq(s)
  BY <1>1, Zenon DEF activeVUs
<1>3. ASSUME NEW i \in 1..Len(plan)
      PROVE  /\ one(i) \in 0..Needs(plan[i].executor)
             /\ Kind(i) = "constant-vus" /\ at >= StopsAt(i) => one(i) = 0
  <2> DEFINE e == plan[i].executor
  <2>1. /\ GoodExecutor(e) /\ Starts(i) \in Nat /\ StopsAt(i) = Starts(i) + Lasts(e)
    BY DEF GoodPlan, StopsAt, Starts
  <2>2. /\ Needs(e) \in Nat /\ Lasts(e) \in Nat /\ (e.kind = "ramping-vus" => IsRamp(e))
        /\ (e.kind # "ramping-vus" => e.duration = Lasts(e)) /\ Kind(i) = e.kind
    BY <2>1 DEF GoodExecutor, Kind
  <2> HIDE DEF e
  <2>3. CASE at < Starts(i)
    <3>1. one(i) = 0
      BY <2>1, <2>3 DEF e
    <3>2. QED
      BY <2>2, <3>1 DEF e
  <2>4. CASE at >= Starts(i)
    <3> DEFINE t == at - Starts(i)
    <3>1. t \in Nat /\ one(i) = executorActiveAt(e, t)
      BY <2>1, <2>4 DEF e
    <3>2. at >= StopsAt(i) <=> t >= Lasts(e)
      BY <2>1, <2>2
    <3> HIDE DEF t
    <3>3. CASE e.kind = "ramping-vus"
      <4>1. executorActiveAt(e, t) = R!activeAt(e, t) /\ Needs(e) = R!MaxVUs(e)
        BY <3>3 DEF executorActiveAt, Needs
      <4>2. R!activeAt(e, t) \in 0..R!MaxVUs(e)
        BY <2>2, <3>1, <3>3, ActiveAtBounds
      <4>3. QED
        BY <2>2, <3>1, <3>3, <4>1, <4>2 DEF e
    <3>4. CASE e.kind # "ramping-vus"
      <4>1. executorActiveAt(e, t) = IF t < Lasts(e) THEN Needs(e) ELSE 0
        BY <2>2, <3>4 DEF executorActiveAt
      <4>2. one(i) \in 0..Needs(e) /\ (t >= Lasts(e) => one(i) = 0)
        <5> HIDE DEF one
        <5> QED BY <2>2, <3>1, <4>1
      <4>3. QED
        BY <3>2, <4>2 DEF e
    <3>5. QED
      BY <3>3, <3>4
  <2>5. QED
    BY <2>1, <2>3, <2>4
<1> HIDE DEF one
<1>4. /\ NeedsList \in Seq(Int) /\ Len(NeedsList) = Len(plan)
      /\ \A i \in 1..Len(plan) : NeedsList[i] = Needs(plan[i].executor) /\ NeedsList[i] \in Nat \ {0}
  BY NeedsAre
<1>5. \A i \in 1..Len(plan) : s[i] = one(i) /\ s[i] \in Int /\ 0 <= s[i] /\ s[i] <= NeedsList[i]
  BY <1>3, <1>4
<1>6. s \in Seq(Int) /\ Len(s) = Len(plan)
  <2>1. DOMAIN s = 1..Len(plan) /\ s = [i \in 1..Len(plan) |-> s[i]]
    BY <1>5
  <2> HIDE DEF s
  <2>2. QED
    BY <1>1, <1>5, <2>1, ListOf
<1> HIDE DEF s
<1>7. 0 <= SumSeq(s) /\ SumSeq(s) <= SumSeq(NeedsList) /\ SumSeq(s) \in Int /\ SumSeq(NeedsList) \in Int
  BY <1>4, <1>5, <1>6, SumBounds
<1>8. ASSUME AllConstant, at >= cfg.Duration PROVE SumSeq(s) = 0
  <2>1. \A i \in 1..Len(plan) : Kind(i) = "constant-vus" /\ StopsAt(i) \in Nat /\ StopsAt(i) <= cfg.Duration
    BY <1>1, <1>8 DEF AllConstant, GoodPlan
  <2>2. cfg.Duration \in Nat
    BY DEF GoodPlan
  <2>3. \A i \in 1..Len(plan) : at >= StopsAt(i)
    BY <1>8, <2>1, <2>2
  <2>4. \A k \in 1..Len(s) : s[k] = 0
    BY <1>3, <1>5, <1>6, <2>1, <2>3
  <2>5. QED
    BY <1>6, <2>4, SumZeros
<1>9. QED
  BY <1>1, <1>2, <1>7, <1>8

\* A point takes what was recorded since the one before it.
LEMMA PointIs ==
    ASSUME GoodPlan, series \in Seq(Points), requests \in Nat, NEW at \in Nat, NEW after, after = Append(series, Point(at))
    PROVE  /\ Point(at) \in Points /\ Point(at).at = at /\ Point(at).vus = activeVUs(at)
           /\ after \in Seq(Points) /\ Len(after) = Len(series) + 1 /\ after # <<>>
           /\ after[Len(series) + 1] = Point(at) /\ \A k \in 1..Len(series) : after[k] = series[k]
           /\ Requested(after) = requests
<1> DEFINE req  == [k \in DOMAIN series |-> series[k].requests]
           left == requests - SumSeq(req)
           p    == Point(at)
<1>1. Len(series) \in Nat /\ DOMAIN series = 1..Len(series) /\ \A k \in 1..Len(series) : series[k] \in Points
  BY LenProperties
<1>2. req \in Seq(Int) /\ Len(req) = Len(series) /\ \A k \in 1..Len(series) : req[k] = series[k].requests
  <2>1. DOMAIN req = 1..Len(series) /\ req = [k \in 1..Len(series) |-> req[k]]
        /\ \A k \in 1..Len(series) : req[k] \in Int /\ req[k] = series[k].requests
    BY <1>1 DEF Points
  <2> HIDE DEF req
  <2>2. QED
    BY <1>1, <2>1, ListOf
<1>3. SumSeq(req) \in Int
  <2>1. PICK g : IsPartial(g, req)
    BY <1>2, PartialExists
  <2>2. QED
    BY <1>2, <2>1, SumIs
<1>4. p = [at |-> at, vus |-> activeVUs(at), requests |-> left]
  BY Zenon DEF Point
<1> HIDE DEF req, p
<1>5. left \in Int /\ activeVUs(at) \in Int
  <2>1. activeVUs(at) \in 0..cfg.VUs
    BY ActiveBounds
  <2>2. QED
    BY <1>3, <2>1
<1>6. p \in Points /\ p.at = at /\ p.vus = activeVUs(at) /\ p.requests = left
  BY <1>4, <1>5 DEF Points
<1>7. /\ after \in Seq(Points) /\ Len(after) = Len(series) + 1
      /\ after[Len(series) + 1] = p /\ \A k \in 1..Len(series) : after[k] = series[k]
  BY <1>6, AppendProperties DEF p
<1>8. after # <<>>
  BY <1>1, <1>7, EmptySeq
<1>9. Requested(after) = requests
  <2> DEFINE all == [k \in DOMAIN after |-> after[k].requests]
  <2>1. DOMAIN after = 1..(Len(series) + 1)
    BY <1>7, LenProperties
  <2>2. /\ Append(req, left) \in Seq(Int) /\ Len(Append(req, left)) = Len(series) + 1
        /\ Append(req, left)[Len(series) + 1] = left
        /\ \A k \in 1..Len(series) : Append(req, left)[k] = req[k]
    BY <1>2, <1>5, AppendProperties
  <2>3. \A k \in 1..(Len(series) + 1) : after[k].requests = Append(req, left)[k]
    <3> TAKE k \in 1..(Len(series) + 1)
    <3>1. CASE k = Len(series) + 1
      BY <1>6, <1>7, <2>2, <3>1
    <3>2. CASE k \in 1..Len(series)
      BY <1>2, <1>7, <2>2, <3>2
    <3>3. k = Len(series) + 1 \/ k \in 1..Len(series)
      BY <1>1
    <3>4. QED
      BY <3>1, <3>2, <3>3
  <2> DEFINE both == Append(req, left)
  <2>4. both = [k \in 1..(Len(series) + 1) |-> both[k]]
    <3>1. both \in [1..Len(both) -> Int]
      BY <2>2, LenProperties
    <3> HIDE DEF both
    <3>2. QED
      BY <2>2, <3>1 DEF both
  <2>5. all = both
    <3> HIDE DEF both
    <3> QED BY <2>1, <2>3, <2>4 DEF both
  <2>6. SumSeq(both) = SumSeq(req) + left
    BY <1>2, <1>5, SumAppend
  <2>7. Requested(after) = SumSeq(all)
    BY Zenon DEF Requested
  <2> HIDE DEF all, both
  <2>8. SumSeq(all) = requests
    <3> DEFINE total == SumSeq(req)
    <3>1. total \in Int /\ left = requests - total /\ SumSeq(all) = total + left
      BY <1>3, <2>5, <2>6
    <3> HIDE DEF total, left
    <3>2. QED
      BY <3>1
  <2>9. QED
    BY <2>7, <2>8
<1>10. QED
  BY <1>6, <1>7, <1>8, <1>9 DEF p

\* Steps of the sampler leave everything but its own state alone.
LEMMA SamplerStep ==
    ASSUME StartInv, LoadInv, Begun,
           UNCHANGED <<planVars, pc, cancelled, clockVars, vuVars, schedVars, elapsed, result>>,
           spc' = spc, spc = "on", SeriesInv'
    PROVE  StartInv' /\ LoadInv'
<1>1. /\ pc' = pc /\ now' = now /\ driven' = driven /\ ended' = ended /\ cancelled' = cancelled
      /\ UNCHANGED <<in, cfg, plan>> /\ vu' = vu /\ sched' = sched /\ elapsed' = elapsed
  BY DEF clockVars, planVars, vuVars, schedVars
<1>2. Begun' /\ pc # "over" /\ pc # "driving"
  BY <1>1 DEF Begun, LoadInv, SamplerInv
<1>3. now \in Nat /\ ended \subseteq 1..driven /\ driven = Len(plan)
  BY <1>2 DEF LoadInv, TypeInv
<1>4. StartInv' /\ IdleInv' /\ TypeInv' /\ VUInv' /\ SchedInv' /\ NobodyLeavesEarly'
  <2>1. now' \in Nat /\ now <= now' /\ ended \subseteq ended' /\ ended' \subseteq 1..driven
    BY <1>1, <1>3
  <2>2. QED
    BY <1>1, <1>2, <1>3, <2>1, StillStep
<1>5. EndedInv' /\ JoinInv'
  <2>1. \A k : Ends(k)' = Ends(k) /\ Kind(k)' = Kind(k)
    BY <1>1, SamePlan
  <2>2. AllGone' = AllGone /\ AllConstant' = AllConstant
    BY <1>1, <2>1 DEF AllGone, AllConstant
  <2>3. QED
    BY <1>1, <2>1, <2>2 DEF LoadInv, EndedInv, JoinInv, Returned, Begun
<1>6. SamplerInv' /\ LastInv' /\ ResultInv'
  BY <1>1, <1>2 DEF LoadInv, SamplerInv, LastInv, ResultInv, Begun
<1>7. QED
  BY <1>4, <1>5, <1>6 DEF LoadInv

\* What the sampler knows while it is on.
LEMMA Sampling ==
    ASSUME StartInv, LoadInv, spc = "on"
    PROVE  /\ Begun /\ GoodPlan /\ cfg.VUs \in Nat /\ now \in Nat /\ requests \in Nat
           /\ series \in Seq(Points) /\ Len(series) \in Nat /\ \A k \in 1..Len(series) : series[k].at \in Nat
           /\ \A k \in 1..Len(series) : series[k].vus \in 0..cfg.VUs
           /\ \A k \in 2..Len(series) : series[k - 1].at < series[k].at
           /\ ticker \in [next : Nat, at : Nat \cup {NoTick}]
           /\ \A k \in 1..Len(series) : series[k].at < ticker.next
           /\ ticker.at # NoTick => /\ ticker.at <= now /\ ticker.at < ticker.next
                                    /\ \A k \in 1..Len(series) : series[k].at < ticker.at
<1>1. Begun
  BY DEF LoadInv, IdleInv, Idle
<1>2. GoodPlan /\ cfg.VUs \in Nat /\ now \in Nat /\ requests \in Nat
  BY <1>1, VUsAre DEF LoadInv, TypeInv
<1>3. SeriesInv
  BY DEF LoadInv
<1>4. series \in Seq(Points)
  BY <1>1, <1>3 DEF SeriesInv
<1>5. Len(series) \in Nat /\ \A k \in 1..Len(series) : series[k] \in Points
  BY <1>4, LenProperties
<1>6. \A k \in 1..Len(series) : series[k].at \in Nat
  BY <1>5 DEF Points
<1>7. QED
  BY <1>1, <1>2, <1>3, <1>4, <1>5, <1>6 DEF SeriesInv

LEMMA TickerFiresKeeps ==
    ASSUME StartInv, LoadInv, TickerFires
    PROVE  StartInv' /\ LoadInv'
<1> DEFINE next == ticker.next + SampleInterval * (1 + (now - ticker.next) \div SampleInterval)
           at   == IF ticker.at = NoTick THEN now ELSE ticker.at
<1>1. /\ spc = "on" /\ now >= ticker.next /\ ticker' = [next |-> next, at |-> at]
      /\ UNCHANGED <<planVars, pc, cancelled, clockVars, vuVars, schedVars, elapsed, result>>
      /\ spc' = spc /\ series' = series
  BY DEF TickerFires
<1>2. /\ Begun /\ now \in Nat /\ series \in Seq(Points) /\ Len(series) \in Nat
      /\ ticker \in [next : Nat, at : Nat \cup {NoTick}]
      /\ \A k \in 1..Len(series) : series[k].at \in Nat /\ series[k].at < ticker.next
      /\ ticker.at # NoTick => ticker.at <= now /\ \A k \in 1..Len(series) : series[k].at < ticker.at
  BY <1>1, Sampling
<1>3. ticker.next \in Nat /\ ticker.at \in Nat \cup {NoTick}
  BY <1>2
<1>4. next \in Nat /\ now < next
  <2>1. ticker.next <= now
    BY <1>1, <1>2, <1>3
  <2> HIDE DEF next
  <2>2. QED
    BY <1>2, <1>3, <2>1, NextTick DEF next
<1> HIDE DEF next
<1>5. at \in Nat /\ at <= now /\ \A k \in 1..Len(series) : series[k].at < at
  <2>1. CASE ticker.at = NoTick
    <3>1. at = now
      BY <2>1
    <3>2. QED
      BY <1>1, <1>2, <1>3, <3>1
  <2>2. CASE ticker.at # NoTick
    BY <1>2, <1>3, <2>2
  <2>3. QED
    BY <2>1, <2>2
<1> HIDE DEF at
<1>6. /\ ticker' \in [next : Nat, at : Nat \cup {NoTick}] /\ ticker'.next = next /\ ticker'.at = at
      /\ at < next /\ \A k \in 1..Len(series) : series[k].at < next
  <2>1. at < next /\ \A k \in 1..Len(series) : series[k].at < next
    BY <1>2, <1>4, <1>5
  <2>2. QED
    BY <1>1, <1>4, <1>5, <2>1
<1>7. SeriesInv'
  <2>1. SeriesInv /\ cfg' = cfg /\ now' = now
    BY <1>1 DEF LoadInv, planVars, clockVars
  <2>2. QED
    BY <1>1, <1>2, <1>5, <1>6, <2>1 DEF SeriesInv
<1>8. QED
  BY <1>1, <1>2, <1>7, SamplerStep

\* A point after the others.
LEMMA Appended ==
    ASSUME NEW s \in Seq(Points), NEW t \in Seq(Points), Len(t) = Len(s) + 1, NEW n,
           \A k \in 1..Len(s) : t[k] = s[k] /\ s[k].vus \in 0..n, t[Len(s) + 1].vus \in 0..n
    PROVE  /\ \A k \in 1..Len(t) : t[k].vus \in 0..n
           /\ \A k \in 2..Len(t) : \/ k \in 2..Len(s) /\ t[k - 1] = s[k - 1] /\ t[k] = s[k]
                                   \/ k = Len(t) /\ k - 1 \in 1..Len(s) /\ t[k - 1] = s[k - 1]
<1>1. Len(s) \in Nat
  BY LenProperties
<1>2. \A k \in 1..Len(t) : k \in 1..Len(s) \/ k = Len(s) + 1
  BY <1>1
<1>3. ASSUME NEW k \in 2..Len(t)
      PROVE  \/ k \in 2..Len(s) /\ k \in 1..Len(s) /\ k - 1 \in 1..Len(s)
             \/ k = Len(t) /\ k - 1 \in 1..Len(s)
  BY <1>1
<1>4. QED
  BY <1>2, <1>3

LEMMA TakeTickKeeps ==
    ASSUME StartInv, LoadInv, TakeTick
    PROVE  StartInv' /\ LoadInv'
<1> DEFINE at == ticker.at
<1>1. /\ spc = "on" /\ at # NoTick /\ series' = Append(series, Point(at)) /\ ticker' = [ticker EXCEPT !.at = NoTick]
      /\ UNCHANGED <<planVars, pc, cancelled, clockVars, vuVars, schedVars, elapsed, result>> /\ spc' = spc
  BY DEF TakeTick
<1>2. /\ Begun /\ GoodPlan /\ cfg.VUs \in Nat /\ requests \in Nat
      /\ series \in Seq(Points) /\ Len(series) \in Nat /\ \A k \in 1..Len(series) : series[k].at \in Nat
      /\ \A k \in 1..Len(series) : series[k].vus \in 0..cfg.VUs
      /\ \A k \in 2..Len(series) : series[k - 1].at < series[k].at
      /\ ticker \in [next : Nat, at : Nat \cup {NoTick}]
      /\ at < ticker.next /\ \A k \in 1..Len(series) : series[k].at < at
  BY <1>1, Sampling
<1>3. at \in Nat /\ ticker.next \in Nat
  BY <1>1, <1>2
<1> HIDE DEF at
<1>4. /\ Point(at).at = at /\ Point(at).vus = activeVUs(at)
      /\ series' \in Seq(Points) /\ Len(series') = Len(series) + 1
      /\ series'[Len(series) + 1] = Point(at) /\ \A k \in 1..Len(series) : series'[k] = series[k]
  BY <1>1, <1>2, <1>3, PointIs
<1>5. series'[Len(series) + 1].vus \in 0..cfg.VUs /\ series'[Len(series) + 1].at = at
  BY <1>2, <1>3, <1>4, ActiveBounds
<1>6. /\ \A k \in 1..Len(series') : series'[k].vus \in 0..cfg.VUs
      /\ \A k \in 2..Len(series') : \/ k \in 2..Len(series) /\ series'[k - 1] = series[k - 1] /\ series'[k] = series[k]
                                    \/ k = Len(series') /\ k - 1 \in 1..Len(series) /\ series'[k - 1] = series[k - 1]
  BY <1>2, <1>4, <1>5, Appended
<1>7. \A k \in 2..Len(series') : series'[k - 1].at < series'[k].at
  <2> TAKE k \in 2..Len(series')
  <2>1. CASE k \in 2..Len(series) /\ series'[k - 1] = series[k - 1] /\ series'[k] = series[k]
    BY <1>2, <2>1
  <2>2. CASE k = Len(series') /\ k - 1 \in 1..Len(series) /\ series'[k - 1] = series[k - 1]
    <3>1. series'[k].at = at /\ series[k - 1].at < at
      BY <1>2, <1>4, <1>5, <2>2
    <3>2. QED
      BY <2>2, <3>1
  <2>3. QED
    BY <1>6, <2>1, <2>2
<1>8. \A k \in 1..Len(series') : series'[k].at < ticker.next
  <2>1. \A k \in 1..Len(series') : k \in 1..Len(series) \/ k = Len(series) + 1
    BY <1>2, <1>4
  <2>2. \A k \in 1..Len(series) : series[k].at < ticker.next
    BY <1>2, <1>3
  <2>3. QED
    BY <1>2, <1>4, <1>5, <2>1, <2>2
<1>9. ticker' \in [next : Nat, at : Nat \cup {NoTick}] /\ ticker'.at = NoTick /\ ticker'.next = ticker.next
  BY <1>1, <1>2
<1>10. SeriesInv'
  <2>1. cfg' = cfg
    BY <1>1 DEF planVars
  <2>2. QED
    BY <1>4, <1>6, <1>7, <1>8, <1>9, <2>1 DEF SeriesInv
<1>11. QED
  BY <1>1, <1>2, <1>10, SamplerStep

LEMMA TakeStopKeeps ==
    ASSUME StartInv, LoadInv, TakeStop
    PROVE  StartInv' /\ LoadInv'
<1>1. /\ spc = "on" /\ pc = "stopped" /\ series' = Append(series, Point(now)) /\ spc' = "sending" /\ ticker' = ticker
      /\ UNCHANGED <<planVars, pc, cancelled, clockVars, vuVars, schedVars, elapsed, result>>
  BY DEF TakeStop
<1>2. /\ Begun /\ GoodPlan /\ cfg.VUs \in Nat /\ requests \in Nat /\ now \in Nat
      /\ series \in Seq(Points) /\ Len(series) \in Nat
      /\ \A k \in 1..Len(series) : series[k].vus \in 0..cfg.VUs
      /\ \A k \in 2..Len(series) : series[k - 1].at < series[k].at
  BY <1>1, Sampling
<1>3. /\ pc' = pc /\ now' = now /\ driven' = driven /\ ended' = ended /\ cancelled' = cancelled
      /\ UNCHANGED <<in, cfg, plan>> /\ vu' = vu /\ sched' = sched /\ elapsed' = elapsed /\ requests' = requests
  BY <1>1 DEF clockVars, planVars, vuVars, schedVars
<1>4. Begun' /\ Returned /\ Returned'
  BY <1>1, <1>3 DEF Begun, Returned
<1>5. /\ elapsed \in Nat /\ elapsed <= now /\ (~cancelled /\ AllConstant => elapsed >= cfg.Duration)
      /\ ended \subseteq 1..driven /\ driven = Len(plan)
  BY <1>1, <1>2, <1>4 DEF LoadInv, JoinInv, TypeInv
<1>6. /\ Point(now).at = now /\ Point(now).vus = activeVUs(now)
      /\ series' \in Seq(Points) /\ Len(series') = Len(series) + 1 /\ series' # <<>>
      /\ series'[Len(series) + 1] = Point(now) /\ \A k \in 1..Len(series) : series'[k] = series[k]
      /\ Requested(series') = requests
  <2>1. ASSUME NEW after, after = Append(series, Point(now))
        PROVE  /\ Point(now).at = now /\ Point(now).vus = activeVUs(now)
               /\ after \in Seq(Points) /\ Len(after) = Len(series) + 1 /\ after # <<>>
               /\ after[Len(series) + 1] = Point(now) /\ \A k \in 1..Len(series) : after[k] = series[k]
               /\ Requested(after) = requests
    <3>1. GoodPlan /\ series \in Seq(Points) /\ requests \in Nat /\ now \in Nat
      BY <1>2
    <3>2. Requested(after) = requests
      BY <2>1, <3>1, PointIs
    <3>3. Point(now).at = now
      BY <2>1, <3>1, PointIs
    <3>4. after # <<>>
      BY <2>1, <3>1, PointIs
    <3>5. after[Len(series) + 1] = Point(now) /\ \A k \in 1..Len(series) : after[k] = series[k]
      BY <2>1, <3>1, PointIs
    <3>6. after \in Seq(Points) /\ Len(after) = Len(series) + 1
      BY <2>1, <3>1, PointIs
    <3>7. Point(now).vus = activeVUs(now)
      BY <2>1, <3>1, PointIs
    <3>8. QED
      BY <3>2, <3>3, <3>4, <3>5, <3>6, <3>7
  <2>2. QED
    BY <1>1, <2>1, Zenon
<1>7. activeVUs(now) \in 0..cfg.VUs /\ (~cancelled /\ AllConstant => activeVUs(now) = 0)
  <2>1. cfg.Duration \in Nat
    BY <1>2 DEF GoodPlan
  <2>2. ~cancelled /\ AllConstant => now >= cfg.Duration
    BY <1>2, <1>5, <2>1
  <2>3. QED
    BY <1>2, <2>2, ActiveBounds
<1>8. StartInv' /\ IdleInv' /\ TypeInv' /\ VUInv' /\ SchedInv' /\ NobodyLeavesEarly'
  <2>1. now' \in Nat /\ now <= now' /\ ended \subseteq ended' /\ ended' \subseteq 1..driven
    BY <1>2, <1>3, <1>5
  <2>2. QED
    BY <1>1, <1>2, <1>3, <1>4, <1>5, <2>1, StillStep
<1>9. AllGone' = AllGone /\ AllConstant' = AllConstant /\ EndedInv'
  <2>1. \A k : Kind(k)' = Kind(k) /\ Ends(k)' = Ends(k)
    BY <1>3, SamePlan
  <2>2. QED
    BY <1>2, <1>3, <2>1 DEF AllGone, AllConstant, LoadInv, EndedInv
<1>10. JoinInv'
  BY <1>3, <1>4, <1>9 DEF LoadInv, JoinInv
<1>11. SamplerInv' /\ ResultInv'
  BY <1>1, <1>3 DEF SamplerInv, ResultInv
<1>12. SeriesInv'
  <2>1. series'[Len(series) + 1].vus \in 0..cfg.VUs
    BY <1>6, <1>7
  <2>2. /\ \A k \in 1..Len(series') : series'[k].vus \in 0..cfg.VUs
        /\ \A k \in 2..Len(series') : \/ k \in 2..Len(series) /\ series'[k - 1] = series[k - 1] /\ series'[k] = series[k]
                                      \/ k = Len(series')
    BY <1>2, <1>6, <2>1, Appended
  <2>3. \A k \in 2..Len(series') : series'[k - 1].at < series'[k].at \/ k = Len(series')
    BY <1>2, <2>2
  <2>4. QED
    BY <1>1, <1>3, <1>6, <2>2, <2>3 DEF SeriesInv
<1>13. LastInv'
  <2>1. series'[Len(series')] = Point(now)
    BY <1>6
  <2>2. series'[Len(series')].at >= elapsed /\ (~cancelled /\ AllConstant => series'[Len(series')].vus = 0)
    BY <1>2, <1>5, <1>6, <1>7, <2>1
  <2>3. Requested(series)' = requests
    BY <1>6 DEF Requested
  <2>4. QED
    BY <1>3, <1>6, <1>9, <2>2, <2>3 DEF LastInv
<1>14. QED
  BY <1>8, <1>9, <1>10, <1>11, <1>12, <1>13 DEF LoadInv

-----------------------------------------------------------------------------
(* The invariant holds *)

LEMMA InitKeeps ==
    ASSUME InitLoad
    PROVE  StartInv /\ LoadInv
<1>1. /\ in \in Inputs /\ pc = "options" /\ cur = 1 /\ iters = <<>> /\ vu = <<>> /\ Idle
  BY DEF InitLoad, Init, Idle
<1>2. ~Begun /\ ~Returned /\ ~Planned /\ pc \in Places
  BY <1>1 DEF Begun, Returned, Planned, Places
<1>3. StartInv
  BY <1>1, <1>2 DEF StartInv
<1>4. NobodyLeavesEarly
  BY <1>1 DEF NobodyLeavesEarly
<1>5. QED
  BY <1>1, <1>2, <1>3, <1>4
  DEF LoadInv, IdleInv, TypeInv, VUInv, SchedInv, EndedInv, JoinInv, SamplerInv, SeriesInv, LastInv, ResultInv

\* Before the load phase there is nothing but the plan.
LEMMA StartupKeeps ==
    ASSUME StartInv, LoadInv, StartsUp, UNCHANGED loadVars
    PROVE  StartInv' /\ LoadInv'
<1>1. StartInv'
  BY StartStep
<1>2. ~Begun /\ ~Begun'
  BY DEF StartsUp, AcceptOptions, RejectOptions, Setup, ValidateScenario, NewVU, NewVUFails, VUsCreated,
         StartClock, Cancel, Fail, Begun
<1>3. ~Returned' /\ pc' # "over"
  BY <1>2 DEF Begun, Returned
<1>4. Idle /\ Idle'
  <2>1. Idle
    BY <1>2 DEF LoadInv, IdleInv
  <2>2. QED
    BY <2>1 DEF Idle, loadVars, clockVars, vuVars, schedVars, sampVars
<1>5. NobodyLeavesEarly'
  BY <1>4 DEF NobodyLeavesEarly, Idle
<1>6. QED
  BY <1>1, <1>2, <1>3, <1>4, <1>5
  DEF LoadInv, IdleInv, TypeInv, VUInv, SchedInv, EndedInv, JoinInv, SamplerInv, SeriesInv, LastInv, ResultInv

\* Nothing happens.
LEMMA StutterKeeps ==
    ASSUME StartInv, LoadInv, UNCHANGED <<vars, loadVars>>
    PROVE  StartInv' /\ LoadInv'
<1>1. /\ UNCHANGED planVars /\ pc' = pc /\ cancelled' = cancelled /\ UNCHANGED <<in, cfg, plan>> /\ iters' = iters
      /\ UNCHANGED <<now, driven, ended, vu, wake, requests, iterations, sched, starts, dropped, spc, ticker, series, elapsed, result>>
  BY DEF vars, planVars, loadVars, clockVars, vuVars, schedVars, sampVars
<1>2. StartInv'
  BY <1>1, StartKept
<1>3. CASE Begun
  <2>1. EndedInv'
    <3>1. \A k : Ends(k)' = Ends(k)
      BY <1>1, SamePlan
    <3>2. QED
      BY <1>1, <1>3, <3>1 DEF LoadInv, EndedInv
  <2>2. now \in Nat /\ now' \in Nat /\ now <= now' /\ ended \subseteq ended' /\ ended' \subseteq 1..driven
    BY <1>1, <1>3 DEF LoadInv, TypeInv
  <2>3. UNCHANGED <<planVars, vuVars, schedVars, sampVars, driven, elapsed, result>>
    BY DEF vars, planVars, loadVars, clockVars
  <2>4. QED
    BY <1>1, <1>3, <2>1, <2>2, <2>3, ClockStep
<1>4. CASE ~Begun
  <2>1. ~Begun' /\ ~Returned' /\ pc' # "over"
    BY <1>1, <1>4 DEF Begun, Returned
  <2>2. Idle'
    BY <1>1, <1>4 DEF LoadInv, IdleInv, Idle
  <2>3. NobodyLeavesEarly'
    BY <2>2 DEF NobodyLeavesEarly, Idle
  <2>4. QED
    BY <1>2, <2>1, <2>2, <2>3
    DEF LoadInv, IdleInv, TypeInv, VUInv, SchedInv, EndedInv, JoinInv, SamplerInv, SeriesInv, LastInv, ResultInv
<1>5. QED
  BY <1>3, <1>4

LEMMA ProgressKeeps ==
    ASSUME StartInv, LoadInv, Progress
    PROVE  StartInv' /\ LoadInv'
<1>1. CASE Tick \/ Expire
  BY <1>1, TickKeeps, ExpireKeeps
<1>2. CASE StartLoad \/ Drive \/ StartSampler
  BY <1>2, StartLoadKeeps, DriveKeeps, StartSamplerKeeps
<1>3. CASE Join \/ CloseStop \/ Collect
  BY <1>3, JoinKeeps, CloseStopKeeps, CollectKeeps
<1>4. CASE TickerFires \/ TakeTick \/ TakeStop
  BY <1>4, TickerFiresKeeps, TakeTickKeeps, TakeStopKeeps
<1>5. ASSUME NEW v \in DOMAIN vu, WakeUp(v) \/ ConstantLoop(v) \/ RampingLoop(v) \/ Count(v) \/ StopReceiving(v) \/ Return(v)
      PROVE  StartInv' /\ LoadInv'
  BY <1>5, WakeUpKeeps, ConstantLoopKeeps, RampingLoopKeeps, CountKeeps, StopReceivingKeeps, ReturnKeeps
<1>6. ASSUME NEW i \in DOMAIN sched, SchedulerWakes(i) \/ SchedulerReturns(i) \/ HandOver(i) \/ DropStart(i)
      PROVE  StartInv' /\ LoadInv'
  BY <1>6, SchedulerWakesKeeps, SchedulerReturnsKeeps, HandOverKeeps, DropStartKeeps
<1>7. QED
  BY <1>1, <1>2, <1>3, <1>4, <1>5, <1>6, Zenon DEF Progress

LEMMA NextKeeps ==
    ASSUME StartInv, LoadInv, [NextLoad]_<<vars, loadVars>>
    PROVE  StartInv' /\ LoadInv'
<1>1. CASE StartsUp /\ UNCHANGED loadVars
  BY <1>1, StartupKeeps
<1>2. CASE Interrupt
  BY <1>2, InterruptKeeps
<1>3. CASE Progress
  BY <1>3, ProgressKeeps
<1>4. CASE \E v \in DOMAIN vu : Live(v) /\ Return(v)
  BY <1>4, ReturnKeeps
<1>5. CASE UNCHANGED <<vars, loadVars>>
  BY <1>5, StutterKeeps
<1>6. QED
  BY <1>1, <1>2, <1>3, <1>4, <1>5, Zenon DEF NextLoad, Over

\* The plan, the goroutines, the contexts, the clock and the sampler agree in every
\* state of a run, from its settings to its Result.
THEOREM EngineInvariant == SpecLoad => [](StartInv /\ LoadInv)
<1>1. InitLoad => StartInv /\ LoadInv
  BY InitKeeps
<1>2. StartInv /\ LoadInv /\ [NextLoad]_<<vars, loadVars>> => (StartInv /\ LoadInv)'
  BY NextKeeps
<1>3. QED
  BY <1>1, <1>2, PTL DEF SpecLoad

\* NobodyLeavesEarly, for any settings, any number of scenarios and VUs and any
\* stages: while its scenario's context is live, no goroutine returns with work
\* left (ConstantVUs.drive, RampingVUs.drive, the arrival-rate scheduler and its
\* VUs in executors.go). For ramping-vus this is about the stage arithmetic: once
\* next finds no active offset it never will.
THEOREM NobodyLeaves == SpecLoad => []NobodyLeavesEarly
<1>1. LoadInv => NobodyLeavesEarly
  BY DEF LoadInv
<1>2. QED
  BY <1>1, EngineInvariant, PTL

LEMMA Covers ==
    ASSUME StartInv, LoadInv
    PROVE  SeriesCoversRun
<1>1. CASE ~Begun
  <2>1. series = <<>> /\ pc # "over"
    BY <1>1 DEF LoadInv, IdleInv, Idle, Begun
  <2>2. QED
    BY <2>1 DEF SeriesCoversRun
<1>2. CASE Begun
  <2>1. /\ series \in Seq(Points) /\ DOMAIN series = 1..Len(series)
        /\ \A k \in 1..Len(series) : series[k].vus \in 0..cfg.VUs
        /\ \A k \in 2..Len(series) : series[k - 1].at < series[k].at \/ (k = Len(series) /\ spc # "on")
    BY <1>2, LenProperties DEF LoadInv, SeriesInv
  <2>2. ASSUME pc = "over"
        PROVE  /\ Requested(result.series) = result.requests
               /\ result.series # <<>> /\ series[Len(series)].at >= result.elapsed
               /\ ~cancelled /\ (\A i \in DOMAIN plan : Kind(i) = "constant-vus") =>
                     result.elapsed >= cfg.Duration /\ series[Len(series)].vus = 0
    <3>1. Returned /\ spc = "gone"
      BY <1>2, <2>2 DEF Returned, LoadInv, SamplerInv
    <3>2. /\ series # <<>> /\ Requested(series) = requests /\ series[Len(series)].at >= elapsed
          /\ ~cancelled /\ AllConstant => series[Len(series)].vus = 0
      BY <1>2, <3>1 DEF LoadInv, LastInv
    <3>3. ~cancelled /\ AllConstant => elapsed >= cfg.Duration
      BY <3>1 DEF LoadInv, JoinInv
    <3>4. result.series = series /\ result.requests = requests /\ result.elapsed = elapsed
      BY <2>2 DEF LoadInv, ResultInv
    <3>5. QED
      BY <3>2, <3>3, <3>4 DEF AllConstant
  <2>3. QED
    BY <2>1, <2>2 DEF SeriesCoversRun
<1>3. QED
  BY <1>1, <1>2

\* SeriesCoversRun, for any settings and any sampling interval: however the ticker,
\* the sampler and the goroutines interleave, the points are in order, none shows
\* more VUs than the test has, and the series of a Result adds up to its requests
\* and reaches to its end (sample in scenario.go, Sampler.Sample).
THEOREM SeriesCovers == SpecLoad => []SeriesCoversRun
<1>1. StartInv /\ LoadInv => SeriesCoversRun
  BY Covers
<1>2. QED
  BY <1>1, EngineInvariant, PTL

-----------------------------------------------------------------------------
(* The load phase implements TestRun *)

LEMMA PhaseTyped == \A i : PhaseOf(i) \in 0..3 /\ PhaseOf(i)' \in 0..3
<1>1. \A i : PhaseOf(i) \in {0, 1, 2, 3}
  BY Zenon DEF PhaseOf
<1>2. \A i : PhaseOf(i)' \in {0, 1, 2, 3}
  BY Zenon DEF PhaseOf
<1>3. QED
  BY <1>1, <1>2

\* What TestRun sees of a state of the load phase.
LEMMA OnIs ==
    ASSUME Loading
    PROVE  TestStage = "on" /\ TestPhase = [i \in DOMAIN plan |-> PhaseOf(i)] /\ TestResult = <<>>
  BY DEF TestStage, TestPhase, TestResult, Loading

LEMMA OnIsNext ==
    ASSUME Loading'
    PROVE  TestStage' = "on" /\ TestPhase' = [i \in DOMAIN plan' |-> PhaseOf(i)'] /\ TestResult' = <<>>
  BY DEF TestStage, TestPhase, TestResult, Loading

\* Scenarios open, stop and end in that order: time does not go back, contexts do
\* not come to life again, and a scheduler runs once.
LEMMA PhaseGrows ==
    ASSUME GoodPlan, NEW i \in DOMAIN plan, UNCHANGED <<in, cfg, plan>>, now \in Nat, now' \in Nat, now <= now',
           ended \subseteq ended',
           \/ sched'[i] = sched[i]
           \/ sched[i] = "none" /\ sched'[i] = "waiting"
           \/ sched[i] = "waiting" /\ sched'[i] = "on" /\ i \notin ended
           \/ sched[i] \in {"waiting", "on"} /\ sched'[i] = "gone"
    PROVE  PhaseOf(i)' >= PhaseOf(i)
<1>1. Kind(i)' = Kind(i) /\ Starts(i)' = Starts(i) /\ StopsAt(i)' = StopsAt(i)
  BY SamePlan
<1>2. Starts(i) \in Nat /\ StopsAt(i) \in Nat
  BY DEF GoodPlan
<1>3. /\ now >= Starts(i) => now' >= Starts(i)
      /\ now >= StopsAt(i) => now' >= StopsAt(i)
      /\ now < Starts(i) \/ now >= Starts(i)
      /\ now < StopsAt(i) \/ now >= StopsAt(i)
  BY <1>2
<1>4. CASE Kind(i) = "constant-arrival-rate"
  <2>1. PhaseOf(i) = IF sched[i] = "on" THEN 1 ELSE IF i \in ended THEN 3 ELSE IF sched[i] = "gone" THEN 2 ELSE 0
    BY <1>4 DEF PhaseOf
  <2>2. PhaseOf(i)' = IF sched'[i] = "on" THEN 1 ELSE IF i \in ended' THEN 3 ELSE IF sched'[i] = "gone" THEN 2 ELSE 0
    BY <1>1, <1>4 DEF PhaseOf
  <2>3. QED
    BY <2>1, <2>2
<1>5. CASE Kind(i) # "constant-arrival-rate"
  <2>1. PhaseOf(i) = IF i \in ended THEN 3 ELSE IF now < Starts(i) THEN 0 ELSE IF now < StopsAt(i) THEN 1 ELSE 2
    BY <1>5 DEF PhaseOf
  <2>2. PhaseOf(i)' = IF i \in ended' THEN 3 ELSE IF now' < Starts(i) THEN 0 ELSE IF now' < StopsAt(i) THEN 1 ELSE 2
    BY <1>1, <1>5 DEF PhaseOf
  <2>3. QED
    BY <1>2, <1>3, <2>1, <2>2
<1>6. QED
  BY <1>4, <1>5

\* The phases stay while nothing they depend on changes.
LEMMA PhaseSame ==
    ASSUME UNCHANGED <<in, cfg, plan, now, ended, sched>>
    PROVE  \A i : PhaseOf(i)' = PhaseOf(i)
<1>1. \A i : Kind(i)' = Kind(i) /\ Starts(i)' = Starts(i) /\ StopsAt(i)' = StopsAt(i)
  BY SamePlan
<1>2. QED
  BY <1>1, Zenon DEF PhaseOf

\* Steps in which no iteration begins or ends are TestRun's Advance.
LEMMA AdvanceStep ==
    ASSUME Loading, Loading', plan' = plan, \A i \in DOMAIN plan : PhaseOf(i)' >= PhaseOf(i),
           TestBusy' = TestBusy, iterations' = iterations, dropped' = dropped
    PROVE  T!Next
<1>1. TestStage = "on" /\ TestPhase = [i \in DOMAIN plan |-> PhaseOf(i)] /\ TestResult = <<>>
  BY OnIs
<1>2. TestStage' = "on" /\ TestPhase' = [i \in DOMAIN plan |-> PhaseOf(i)'] /\ TestResult' = <<>>
  BY OnIsNext
<1>3. \A i : PhaseOf(i)' \in 0..3
  BY PhaseTyped
<1>4. DOMAIN TestPhase' = DOMAIN TestPhase /\ \A i \in DOMAIN TestPhase : TestPhase'[i] \in 0..3 /\ TestPhase'[i] >= TestPhase[i]
  BY <1>1, <1>2, <1>3
<1>5. T!Advance
  BY <1>1, <1>2, <1>4 DEF T!Advance, T!Phases
<1>6. QED
  BY <1>5 DEF T!Next

\* Steps that TestRun does not see.
LEMMA HiddenStep ==
    ASSUME UNCHANGED <<in, cfg, plan, now, ended, sched>>, Loading, Loading', TestBusy' = TestBusy,
           iterations' = iterations, dropped' = dropped
    PROVE  UNCHANGED T!vars
<1>1. TestStage' = TestStage /\ TestResult' = TestResult
  BY OnIs, OnIsNext
<1>2. \A i : PhaseOf(i)' = PhaseOf(i)
  BY PhaseSame
<1>3. TestPhase' = TestPhase
  BY <1>2, OnIs, OnIsNext
<1>4. QED
  BY <1>1, <1>3 DEF T!vars

\* An iteration begins in an open scenario.
LEMMA BeginStep ==
    ASSUME UNCHANGED <<in, cfg, plan, now, ended, sched>>, Loading, Loading', NEW v \in DOMAIN vu,
           vu[v] \notin {"iterating", "returned"}, vu' = [vu EXCEPT ![v] = "iterating"],
           v[1] \in DOMAIN plan, PhaseOf(v[1]) = 1, iterations' = iterations, dropped' = dropped
    PROVE  T!Next
<1>1. TestStage = "on" /\ TestPhase = [i \in DOMAIN plan |-> PhaseOf(i)] /\ TestResult = <<>>
  BY OnIs
<1>2. TestStage' = "on" /\ TestPhase' = [i \in DOMAIN plan |-> PhaseOf(i)'] /\ TestResult' = <<>>
  BY OnIsNext
<1>3. TestPhase' = TestPhase
  BY <1>1, <1>2, PhaseSame
<1>4. v \notin TestBusy /\ TestBusy' = TestBusy \cup {v}
  BY DEF TestBusy
<1>5. TestPhase[v[1]] = 1
  BY <1>1
<1>6. T!Begin
  BY <1>1, <1>2, <1>3, <1>4, <1>5 DEF T!Begin, T!Open
<1>7. QED
  BY <1>6 DEF T!Next

\* A step of a VU that begins and ends no iteration.
LEMMA IdleVU ==
    ASSUME NEW v \in DOMAIN vu, NEW place, vu' = [vu EXCEPT ![v] = place],
           vu[v] \in {"iterating", "returned"} <=> place \in {"iterating", "returned"}
    PROVE  TestBusy' = TestBusy
<1>1. DOMAIN vu' = DOMAIN vu /\ vu'[v] = place /\ \A w \in DOMAIN vu : w # v => vu'[w] = vu[w]
  OBVIOUS
<1>2. \A w : w \in TestBusy' <=> w \in TestBusy
  <2> TAKE w
  <2>1. w \in TestBusy' <=> w \in DOMAIN vu /\ vu'[w] \in {"iterating", "returned"}
    BY <1>1 DEF TestBusy
  <2>2. w \in TestBusy <=> w \in DOMAIN vu /\ vu[w] \in {"iterating", "returned"}
    BY DEF TestBusy
  <2>3. CASE w = v
    BY <1>1, <2>1, <2>2, <2>3
  <2>4. CASE w # v
    BY <1>1, <2>1, <2>2, <2>4
  <2>5. QED
    BY <2>3, <2>4
<1>3. QED
  BY <1>2

-----------------------------------------------------------------------------
(* TestRun sees the steps of the VUs *)

\* A VU that can move is in the load phase.
LEMMA MovingLoads ==
    ASSUME StartInv, LoadInv, NEW v \in DOMAIN vu, vu[v] # "gone"
    PROVE  Loading /\ v[1] \in DOMAIN plan
<1>1. Begun /\ GoodPlan /\ v[1] \in 1..Len(plan)
  BY InMotion
<1>2. ~Returned
  BY Busy
<1>3. QED
  BY <1>1, <1>2 DEF Begun, Returned, Loading, GoodPlan

LEMMA OnlyVUIs ==
    ASSUME OnlyVU
    PROVE  UNCHANGED <<in, cfg, plan, now, ended, sched>> /\ dropped' = dropped /\ (Loading => Loading') /\ starts' = starts
  BY DEF OnlyVU, planVars, clockVars, schedVars, Loading

LEMMA WakeUpRefines ==
    ASSUME StartInv, LoadInv, NEW v \in DOMAIN vu, WakeUp(v)
    PROVE  UNCHANGED T!vars
<1>1. /\ vu[v] = "waiting" /\ OnlyVU /\ iterations' = iterations
      /\ \E place \in {"loop", "gone"} : vu' = [vu EXCEPT ![v] = place]
  BY DEF WakeUp, Goto
<1>2. TestBusy' = TestBusy
  BY <1>1, IdleVU
<1>3. QED
  BY <1>1, <1>2, MovingLoads, OnlyVUIs, HiddenStep

LEMMA ConstantLoopRefines ==
    ASSUME StartInv, LoadInv, NEW v \in DOMAIN vu, ConstantLoop(v)
    PROVE  T!Next \/ UNCHANGED T!vars
<1>1. /\ vu[v] = "loop" /\ Kind(v[1]) = "constant-vus" /\ OnlyVU /\ iterations' = iterations
      /\ \/ Live(v) /\ now < StopsAt(v[1]) /\ vu' = [vu EXCEPT ![v] = "iterating"]
         \/ vu' = [vu EXCEPT ![v] = "gone"]
  BY Zenon DEF ConstantLoop, BeginIteration, Goto
<1>2. CASE Live(v) /\ now < StopsAt(v[1]) /\ vu' = [vu EXCEPT ![v] = "iterating"]
  <2>1. now >= Starts(v[1]) /\ now \in Nat /\ Starts(v[1]) \in Nat
    BY <1>1, InMotion DEF VUWell
  <2>2. PhaseOf(v[1]) = 1
    BY <1>1, <1>2, <2>1 DEF PhaseOf, Live
  <2>3. QED
    BY <1>1, <1>2, <2>2, MovingLoads, OnlyVUIs, BeginStep
<1>3. CASE vu' = [vu EXCEPT ![v] = "gone"]
  <2>1. TestBusy' = TestBusy
    BY <1>1, <1>3, IdleVU
  <2>2. QED
    BY <1>1, <2>1, MovingLoads, OnlyVUIs, HiddenStep
<1>4. QED
  BY <1>1, <1>2, <1>3

LEMMA RampingLoopRefines ==
    ASSUME StartInv, LoadInv, NEW v \in DOMAIN vu, RampingLoop(v)
    PROVE  T!Next \/ UNCHANGED T!vars
<1>1. /\ vu[v] = "loop" /\ Kind(v[1]) = "ramping-vus" /\ OnlyVU /\ iterations' = iterations
      /\ \/ \E place \in {"gone", "waiting"} : vu' = [vu EXCEPT ![v] = place]
         \/ /\ Live(v) /\ ~(now >= StopsAt(v[1])) /\ NextActive(v) # R!NoOffset
            /\ ~(Starts(v[1]) + NextActive(v) > now) /\ vu' = [vu EXCEPT ![v] = "iterating"]
  BY Zenon DEF RampingLoop, BeginIteration, Goto
<1>2. CASE \E place \in {"gone", "waiting"} : vu' = [vu EXCEPT ![v] = place]
  <2>1. TestBusy' = TestBusy
    BY <1>1, <1>2, IdleVU
  <2>2. QED
    BY <1>1, <2>1, MovingLoads, OnlyVUIs, HiddenStep
<1>3. CASE /\ Live(v) /\ ~(now >= StopsAt(v[1])) /\ NextActive(v) # R!NoOffset
           /\ ~(Starts(v[1]) + NextActive(v) > now) /\ vu' = [vu EXCEPT ![v] = "iterating"]
  <2>1. /\ GoodPlan /\ v[1] \in 1..Len(plan) /\ v[2] \in Nat \ {0} /\ now \in Nat
        /\ Starts(v[1]) \in Nat /\ StopsAt(v[1]) \in Nat
    BY InMotion
  <2>2. IsRamp(plan[v[1]].executor)
    BY <1>1, <2>1 DEF GoodPlan, GoodExecutor, Kind
  <2>3. Offset(v) \in Nat /\ NextActive(v) = NextOn(plan[v[1]].executor, v[2] - 1, Offset(v))
    BY <2>1, OffsetIs
  <2>4. v[2] - 1 \in Nat
    BY <2>1
  <2>5. NextActive(v) \in Nat
    BY <1>3, <2>2, <2>3, <2>4, NextOnIs
  <2>6. now >= Starts(v[1]) /\ now < StopsAt(v[1])
    BY <1>3, <2>1, <2>5
  <2>7. PhaseOf(v[1]) = 1
    BY <1>1, <1>3, <2>1, <2>6 DEF PhaseOf, Live
  <2>8. QED
    BY <1>1, <1>3, <2>7, MovingLoads, OnlyVUIs, BeginStep
<1>4. QED
  BY <1>1, <1>2, <1>3

LEMMA ReturnRefines ==
    ASSUME StartInv, LoadInv, NEW v \in DOMAIN vu, Return(v)
    PROVE  UNCHANGED T!vars
<1>1. vu[v] = "iterating" /\ OnlyVU /\ iterations' = iterations /\ vu' = [vu EXCEPT ![v] = "returned"]
  BY DEF Return, Goto
<1>2. TestBusy' = TestBusy
  BY <1>1, IdleVU
<1>3. QED
  BY <1>1, <1>2, MovingLoads, OnlyVUIs, HiddenStep

LEMMA StopReceivingRefines ==
    ASSUME StartInv, LoadInv, NEW v \in DOMAIN vu, StopReceiving(v)
    PROVE  UNCHANGED T!vars
<1>1. vu[v] = "receiving" /\ OnlyVU /\ iterations' = iterations /\ vu' = [vu EXCEPT ![v] = "gone"]
  BY DEF StopReceiving, Goto
<1>2. TestBusy' = TestBusy
  BY <1>1, IdleVU
<1>3. QED
  BY <1>1, <1>2, MovingLoads, OnlyVUIs, HiddenStep

\* An iteration counts only if the context of its scenario is live.
LEMMA CountRefines ==
    ASSUME StartInv, LoadInv, NEW v \in DOMAIN vu, Count(v)
    PROVE  T!Next
<1> DEFINE place == IF Kind(v[1]) = "constant-arrival-rate" THEN "receiving" ELSE "loop"
<1>1. /\ vu[v] = "returned" /\ OnlyVU /\ vu' = [vu EXCEPT ![v] = place]
      /\ iterations' = iterations \/ (Live(v) /\ iterations' = iterations + 1)
  BY DEF Count, Goto
<1>2. place \notin {"iterating", "returned"}
  OBVIOUS
<1> HIDE DEF place
<1>3. Loading /\ v[1] \in DOMAIN plan
  BY <1>1, MovingLoads
<1>4. UNCHANGED <<in, cfg, plan, now, ended, sched>> /\ dropped' = dropped /\ Loading'
  BY <1>1, <1>3, OnlyVUIs
<1>5. TestStage = "on" /\ TestPhase = [i \in DOMAIN plan |-> PhaseOf(i)] /\ TestResult = <<>>
  BY <1>3, OnIs
<1>6. TestStage' = "on" /\ TestPhase' = [i \in DOMAIN plan |-> PhaseOf(i)'] /\ TestResult' = <<>>
  BY <1>4, OnIsNext
<1>7. TestPhase' = TestPhase
  BY <1>4, <1>5, <1>6, PhaseSame
<1>8. v \in TestBusy /\ TestBusy' = TestBusy \ {v}
  BY <1>1, <1>2 DEF TestBusy
<1>9. Live(v) => TestPhase[v[1]] # 3
  <2>1. Live(v) => PhaseOf(v[1]) # 3
    BY DEF PhaseOf, Live
  <2>2. TestPhase[v[1]] = PhaseOf(v[1])
    BY <1>3, <1>5
  <2>3. QED
    BY <2>1, <2>2
<1>10. T!End
  BY <1>1, <1>4, <1>5, <1>6, <1>7, <1>8, <1>9 DEF T!End, T!Ended
<1>11. QED
  BY <1>10 DEF T!Next

-----------------------------------------------------------------------------
(* TestRun sees the steps of the schedulers, the clock and the engine *)

LEMMA OnlySchedIs ==
    ASSUME StartInv, LoadInv, NEW i \in DOMAIN sched, sched[i] \in {"waiting", "on"}, OnlySched
    PROVE  /\ UNCHANGED <<in, cfg, plan, now, ended>> /\ Loading /\ Loading' /\ GoodPlan
           /\ i \in DOMAIN plan /\ DOMAIN sched = DOMAIN plan /\ now \in Nat /\ Kind(i) = "constant-arrival-rate"
<1>1. Begun /\ i \in DOMAIN plan /\ DOMAIN sched = DOMAIN plan
  BY Scheduling
<1>2. ~Returned
  BY Busy
<1>3. Loading /\ Loading' /\ UNCHANGED <<in, cfg, plan, now, ended>>
  BY <1>1, <1>2 DEF Begun, Returned, Loading, OnlySched, planVars, clockVars
<1>4. GoodPlan /\ now \in Nat /\ Kind(i) = "constant-arrival-rate"
  BY <1>1, VUsAre DEF LoadInv, TypeInv, SchedInv
<1>5. QED
  BY <1>1, <1>3, <1>4

LEMMA SchedulerMovesRefines ==
    ASSUME StartInv, LoadInv, NEW i \in DOMAIN sched, SchedulerWakes(i) \/ SchedulerReturns(i)
    PROVE  T!Next
<1>1. /\ OnlySched /\ UNCHANGED vuVars /\ dropped' = dropped
      /\ \/ sched[i] = "waiting" /\ sched' = [sched EXCEPT ![i] = "on"] /\ i \notin ended
         \/ sched[i] \in {"waiting", "on"} /\ sched' = [sched EXCEPT ![i] = "gone"]
  BY DEF SchedulerWakes, SchedulerReturns
<1>2. /\ UNCHANGED <<in, cfg, plan, now, ended>> /\ Loading /\ Loading' /\ GoodPlan
      /\ DOMAIN sched = DOMAIN plan /\ now \in Nat
  BY <1>1, OnlySchedIs
<1>3. ASSUME NEW k \in DOMAIN plan PROVE PhaseOf(k)' >= PhaseOf(k)
  <2>1. now' \in Nat /\ now <= now' /\ ended \subseteq ended'
    BY <1>2
  <2>2. \/ sched'[k] = sched[k]
        \/ sched[k] = "waiting" /\ sched'[k] = "on" /\ k \notin ended
        \/ sched[k] \in {"waiting", "on"} /\ sched'[k] = "gone"
    BY <1>1, <1>2
  <2>3. QED
    BY <1>2, <2>1, <2>2, PhaseGrows
<1>4. TestBusy' = TestBusy /\ iterations' = iterations
  BY <1>1 DEF TestBusy, vuVars
<1>5. QED
  BY <1>1, <1>2, <1>3, <1>4, AdvanceStep

LEMMA HandOverRefines ==
    ASSUME StartInv, LoadInv, NEW i \in DOMAIN sched, HandOver(i)
    PROVE  T!Next
<1>1. sched[i] = "on" /\ sched' = sched /\ OnlySched /\ dropped' = dropped
  BY DEF HandOver
<1>2. PICK v \in Pool(i) : vu[v] = "receiving" /\ vu' = [vu EXCEPT ![v] = "iterating"] /\ iterations' = iterations
  BY DEF HandOver, BeginIteration, Goto
<1>3. v \in DOMAIN vu /\ v[1] = i
  BY DEF Pool
<1>4. /\ UNCHANGED <<in, cfg, plan, now, ended>> /\ Loading /\ Loading' /\ i \in DOMAIN plan
      /\ Kind(i) = "constant-arrival-rate"
  BY <1>1, OnlySchedIs
<1>5. PhaseOf(i) = 1
  BY <1>1, <1>4 DEF PhaseOf
<1>6. QED
  BY <1>1, <1>2, <1>3, <1>4, <1>5, BeginStep

LEMMA DropStartRefines ==
    ASSUME StartInv, LoadInv, NEW i \in DOMAIN sched, DropStart(i)
    PROVE  T!Next
<1>1. sched[i] = "on" /\ sched' = sched /\ OnlySched /\ dropped' = dropped + 1 /\ UNCHANGED vuVars
  BY DEF DropStart
<1>2. UNCHANGED <<in, cfg, plan, now, ended, sched>> /\ Loading /\ Loading'
  BY <1>1, OnlySchedIs
<1>3. TestStage = "on" /\ TestStage' = "on" /\ TestResult' = TestResult /\ TestPhase' = TestPhase
  BY <1>2, OnIs, OnIsNext, PhaseSame
<1>4. TestBusy' = TestBusy /\ iterations' = iterations
  BY <1>1 DEF TestBusy, vuVars
<1>5. T!Drop
  BY <1>1, <1>3, <1>4 DEF T!Drop
<1>6. QED
  BY <1>5 DEF T!Next

LEMMA LoadingBegun == Loading => Begun
  BY DEF Loading, Begun

\* Time passes or contexts end.
LEMMA ClockRefines ==
    ASSUME StartInv, LoadInv, Loading, pc' = pc, UNCHANGED <<planVars, vuVars, schedVars>>,
           now' \in Nat, now <= now', ended \subseteq ended'
    PROVE  T!Next
<1>1. Loading' /\ UNCHANGED <<in, cfg, plan>> /\ sched' = sched /\ vu' = vu /\ iterations' = iterations /\ dropped' = dropped
  BY DEF Loading, planVars, vuVars, schedVars
<1>2. GoodPlan /\ now \in Nat
  BY LoadingBegun, VUsAre DEF LoadInv, TypeInv
<1>3. \A k \in DOMAIN plan : PhaseOf(k)' >= PhaseOf(k)
  BY <1>1, <1>2, PhaseGrows
<1>4. TestBusy' = TestBusy
  BY <1>1 DEF TestBusy
<1>5. QED
  BY <1>1, <1>3, <1>4, AdvanceStep

LEMMA TickRefines ==
    ASSUME StartInv, LoadInv, Tick
    PROVE  T!Next
<1>1. Loading /\ now' = now + 1 /\ pc' = pc /\ ended' = ended /\ UNCHANGED <<planVars, vuVars, schedVars>>
  BY DEF Tick
<1>2. now \in Nat
  BY <1>1, LoadingBegun DEF LoadInv, TypeInv
<1>3. now' \in Nat /\ now <= now'
  BY <1>1, <1>2
<1>4. QED
  BY <1>1, <1>3, ClockRefines

LEMMA ContextsRefine ==
    ASSUME StartInv, LoadInv, Expire \/ Interrupt
    PROVE  T!Next
<1>1. Loading /\ now' = now /\ pc' = pc /\ UNCHANGED <<planVars, vuVars, schedVars>>
  BY DEF Expire, Interrupt
<1>2. now \in Nat /\ ended \subseteq 1..driven
  BY <1>1, LoadingBegun DEF LoadInv, TypeInv
<1>3. ended \subseteq ended'
  BY <1>2 DEF Expire, Interrupt
<1>4. now' \in Nat /\ now <= now'
  BY <1>1, <1>2
<1>5. QED
  BY <1>1, <1>3, <1>4, ClockRefines

LEMMA StartLoadRefines ==
    ASSUME StartInv, LoadInv, StartLoad
    PROVE  T!Next
<1>1. /\ pc = "running" /\ pc' = "driving" /\ iterations' = iterations /\ dropped' = dropped
      /\ vu' = [v \in VUIds |-> "new"]
  BY DEF StartLoad
<1>2. vu = <<>>
  BY <1>1 DEF LoadInv, IdleInv, Idle, Begun
<1>3. TestStage = "before" /\ TestResult = <<>> /\ Loading'
  BY <1>1 DEF TestStage, TestResult, Loading
<1>4. TestStage' = "on" /\ TestPhase' = [i \in DOMAIN plan' |-> PhaseOf(i)'] /\ TestResult' = <<>>
  BY <1>3, OnIsNext
<1>5. \A i \in DOMAIN TestPhase' : TestPhase'[i] \in 0..3
  BY <1>4, PhaseTyped
<1>6. TestBusy = {} /\ TestBusy' = {}
  BY <1>1, <1>2 DEF TestBusy
<1>7. T!Start
  BY <1>1, <1>3, <1>4, <1>5, <1>6 DEF T!Start, T!Phases
<1>8. QED
  BY <1>7 DEF T!Next

LEMMA DriveRefines ==
    ASSUME StartInv, LoadInv, Drive
    PROVE  T!Next
<1> DEFINE d == driven + 1
           order == IF Kind(d) = "constant-arrival-rate" THEN "waiting" ELSE "none"
<1>1. /\ pc = "driving" /\ pc' = pc /\ driven < Len(plan) /\ (ended' = ended \/ ended' = ended \cup {d})
      /\ vu' = [v \in DOMAIN vu |-> IF v[1] = d THEN FirstStep(d) ELSE vu[v]]
      /\ sched' = [sched EXCEPT ![d] = order]
      /\ UNCHANGED planVars /\ now' = now /\ iterations' = iterations /\ dropped' = dropped
  BY DEF Drive
<1>2. Loading /\ Loading' /\ Begun
  BY <1>1 DEF Loading, Begun
<1>3. UNCHANGED <<in, cfg, plan>>
  BY <1>1 DEF planVars
<1>4. /\ GoodPlan /\ now \in Nat /\ driven \in 0..Len(plan) /\ DOMAIN vu = VUIds
      /\ sched \in [DOMAIN plan -> {"none", "waiting", "on", "gone"}] /\ \A w \in VUIds : w[1] \in 1..Len(plan)
  BY <1>2, VUsAre DEF LoadInv, TypeInv
<1>5. order = "none" \/ order = "waiting"
  OBVIOUS
<1>6. d \in DOMAIN plan /\ d > driven /\ ~(d <= driven)
  BY <1>1, <1>4 DEF GoodPlan
<1>7. sched[d] = "none"
  BY <1>2, <1>6 DEF LoadInv, SchedInv
<1> HIDE DEF order, d
<1>8. ASSUME NEW k \in DOMAIN plan PROVE PhaseOf(k)' >= PhaseOf(k)
  <2>1. sched'[k] = sched[k] \/ (sched[k] = "none" /\ sched'[k] = "waiting")
    BY <1>1, <1>4, <1>5, <1>7
  <2>2. now' \in Nat /\ now <= now' /\ ended \subseteq ended'
    BY <1>1, <1>4
  <2>3. QED
    BY <1>3, <1>4, <2>1, <2>2, PhaseGrows
<1>9. TestBusy' = TestBusy
  <2>1. FirstStep(d) \notin {"iterating", "returned"}
    BY DEF FirstStep
  <2>2. \A w \in VUIds : w[1] = d => vu[w] = "new"
    BY <1>2, <1>4, <1>6 DEF LoadInv, VUInv
  <2>3. QED
    BY <1>1, <1>4, <2>1, <2>2 DEF TestBusy
<1>10. QED
  BY <1>1, <1>2, <1>3, <1>8, <1>9, AdvanceStep

\* Starting the sampler, waiting, closing stop, and the sampler's own steps.
LEMMA EngineHidden ==
    ASSUME StartInv, LoadInv, StartSampler \/ Join \/ CloseStop \/ TickerFires \/ TakeTick \/ TakeStop
    PROVE  UNCHANGED T!vars
<1>1. UNCHANGED <<planVars, clockVars, vuVars, schedVars>>
  BY DEF StartSampler, Join, CloseStop, TickerFires, TakeTick, TakeStop, loadVars
<1>2. Loading /\ Loading'
  <2>1. CASE StartSampler \/ Join \/ CloseStop
    BY <2>1 DEF StartSampler, Join, CloseStop, Loading
  <2>2. CASE TickerFires \/ TakeTick \/ TakeStop
    <3>1. spc = "on" /\ pc' = pc
      BY <2>2 DEF TickerFires, TakeTick, TakeStop
    <3>2. Begun /\ pc # "over"
      BY <3>1, Sampling DEF LoadInv, SamplerInv
    <3>3. QED
      BY <3>1, <3>2 DEF Begun, Loading
  <2>3. QED
    BY <2>1, <2>2
<1>3. UNCHANGED <<in, cfg, plan, now, ended, sched>> /\ vu' = vu /\ iterations' = iterations /\ dropped' = dropped
  BY <1>1 DEF planVars, clockVars, vuVars, schedVars
<1>4. TestBusy' = TestBusy
  BY <1>3 DEF TestBusy
<1>5. QED
  BY <1>2, <1>3, <1>4, HiddenStep

\* The Result comes when nobody iterates any more.
LEMMA CollectRefines ==
    ASSUME StartInv, LoadInv, Collect
    PROVE  T!Next
<1>1. /\ pc = "stopped" /\ pc' = "over"
      /\ result' = [iterations |-> iterations, dropped |-> dropped, requests |-> requests,
                    elapsed |-> elapsed, series |-> series]
      /\ UNCHANGED <<planVars, clockVars, vuVars, schedVars>>
  BY DEF Collect
<1>2. UNCHANGED <<in, cfg, plan, now, ended, sched>> /\ vu' = vu /\ iterations' = iterations /\ dropped' = dropped
  BY <1>1 DEF planVars, clockVars, vuVars, schedVars
<1>3. AllGone
  BY <1>1 DEF LoadInv, JoinInv, Returned
<1>4. TestBusy = {} /\ TestBusy' = {}
  BY <1>2, <1>3 DEF TestBusy, AllGone
<1>5. Loading /\ TestStage = "on" /\ TestPhase = [i \in DOMAIN plan |-> PhaseOf(i)]
  BY <1>1, OnIs DEF Loading
<1>6. TestStage' = "over" /\ TestPhase' = [i \in DOMAIN plan' |-> PhaseOf(i)'] /\ TestResult' = <<result'.iterations, result'.dropped>>
  BY <1>1 DEF TestStage, TestPhase, TestResult, Loading
<1>7. TestPhase' = TestPhase
  BY <1>2, <1>5, <1>6, PhaseSame
<1>8. TestResult' = <<iterations, dropped>>
  BY <1>1, <1>6
<1>9. T!Finish
  BY <1>2, <1>4, <1>5, <1>6, <1>7, <1>8 DEF T!Finish
<1>10. QED
  BY <1>9 DEF T!Next

\* Before the load phase TestRun sees whether the run is refused.
LEMMA StartupRefines ==
    ASSUME StartInv, LoadInv, StartsUp, UNCHANGED loadVars
    PROVE  T!Next \/ UNCHANGED T!vars
<1>1. /\ pc \in {"options", "setup", "validate", "create"}
      /\ pc' \in {"options", "setup", "validate", "create", "running", "failed"}
  BY DEF StartsUp, AcceptOptions, RejectOptions, Setup, ValidateScenario, NewVU, NewVUFails, VUsCreated,
         StartClock, Cancel, Fail
<1>2. TestStage = "before" /\ TestPhase = <<>> /\ TestResult = <<>>
  BY <1>1 DEF TestStage, TestPhase, TestResult, Loading
<1>3. /\ TestStage' = (IF pc' = "failed" THEN "refused" ELSE "before") /\ TestPhase' = <<>> /\ TestResult' = <<>>
  BY <1>1 DEF TestStage, TestPhase, TestResult, Loading
<1>4. TestBusy' = TestBusy /\ iterations' = iterations /\ dropped' = dropped
  BY DEF TestBusy, loadVars, vuVars, schedVars
<1>5. CASE pc' = "failed"
  <2>1. T!Refuse
    BY <1>2, <1>3, <1>4, <1>5 DEF T!Refuse
  <2>2. QED
    BY <2>1 DEF T!Next
<1>6. CASE pc' # "failed"
  BY <1>2, <1>3, <1>4, <1>6 DEF T!vars
<1>7. QED
  BY <1>5, <1>6

LEMMA StutterRefines ==
    ASSUME UNCHANGED <<vars, loadVars>>
    PROVE  UNCHANGED T!vars
<1>1. UNCHANGED <<in, cfg, plan, now, ended, sched>> /\ pc' = pc /\ vu' = vu /\ iterations' = iterations /\ dropped' = dropped
      /\ result' = result
  BY DEF vars, loadVars, clockVars, vuVars, schedVars
<1>2. \A i : PhaseOf(i)' = PhaseOf(i)
  BY <1>1, PhaseSame
<1>3. TestPhase' = TestPhase
  BY <1>1, <1>2 DEF TestPhase, Loading
<1>4. TestStage' = TestStage /\ TestBusy' = TestBusy /\ TestResult' = TestResult
  BY <1>1 DEF TestStage, TestBusy, TestResult, Loading
<1>5. QED
  BY <1>1, <1>3, <1>4 DEF T!vars

LEMMA ProgressRefines ==
    ASSUME StartInv, LoadInv, Progress
    PROVE  T!Next \/ UNCHANGED T!vars
<1>1. CASE Tick \/ Expire \/ StartLoad \/ Drive \/ Collect
  BY <1>1, TickRefines, ContextsRefine, StartLoadRefines, DriveRefines, CollectRefines
<1>2. CASE StartSampler \/ Join \/ CloseStop \/ TickerFires \/ TakeTick \/ TakeStop
  BY <1>2, EngineHidden
<1>3. ASSUME NEW v \in DOMAIN vu, WakeUp(v) \/ ConstantLoop(v) \/ RampingLoop(v) \/ Count(v) \/ StopReceiving(v) \/ Return(v)
      PROVE  T!Next \/ UNCHANGED T!vars
  BY <1>3, WakeUpRefines, ConstantLoopRefines, RampingLoopRefines, CountRefines, StopReceivingRefines, ReturnRefines
<1>4. ASSUME NEW i \in DOMAIN sched, SchedulerWakes(i) \/ SchedulerReturns(i) \/ HandOver(i) \/ DropStart(i)
      PROVE  T!Next \/ UNCHANGED T!vars
  BY <1>4, SchedulerMovesRefines, HandOverRefines, DropStartRefines
<1>5. QED
  BY <1>1, <1>2, <1>3, <1>4, Zenon DEF Progress

LEMMA NextRefines ==
    ASSUME StartInv, LoadInv, [NextLoad]_<<vars, loadVars>>
    PROVE  T!Next \/ UNCHANGED T!vars
<1>1. CASE StartsUp /\ UNCHANGED loadVars
  BY <1>1, StartupRefines
<1>2. CASE Interrupt
  BY <1>2, ContextsRefine
<1>3. CASE Progress
  BY <1>3, ProgressRefines
<1>4. CASE \E v \in DOMAIN vu : Live(v) /\ Return(v)
  BY <1>4, ReturnRefines
<1>5. CASE UNCHANGED <<vars, loadVars>>
  BY <1>5, StutterRefines
<1>6. QED
  BY <1>1, <1>2, <1>3, <1>4, <1>5, Zenon DEF NextLoad, Over

LEMMA InitRefines ==
    ASSUME InitLoad
    PROVE  T!Init
<1>1. pc = "options" /\ vu = <<>> /\ iterations = 0 /\ dropped = 0
  BY DEF InitLoad, Init
<1>2. TestStage = "before" /\ TestPhase = <<>> /\ TestResult = <<>>
  BY <1>1 DEF TestStage, TestPhase, TestResult, Loading
<1>3. TestBusy = {}
  BY <1>1 DEF TestBusy
<1>4. QED
  BY <1>1, <1>2, <1>3 DEF T!Init, T!NoResult

\* IsTestRun, for any settings, scenarios, VUs and stages: the load phase implements
\* module TestRun (RunScenariosSampled and the executors' drive functions). Iterations
\* begin only in open scenarios, count only if their scenario has not ended when they
\* return, and the Result comes after the last of them and holds exactly what counted.
THEOREM EngineRefines == SpecLoad => IsTestRun
<1>1. InitLoad => T!Init
  BY InitRefines
<1>2. StartInv /\ LoadInv /\ [NextLoad]_<<vars, loadVars>> => [T!Next]_(T!vars)
  BY NextRefines
<1>3. QED
  BY <1>1, <1>2, EngineInvariant, PTL DEF SpecLoad, IsTestRun, T!Spec
-----------------------------------------------------------------------------
(* The plan that was announced *)

\* The lists of f hold the numbers 1 to cfg.VUs, and have that many places.
Numbered(f) == /\ SumSeq([i \in DOMAIN f |-> Len(f[i])]) = cfg.VUs
               /\ {f[p[1]][p[2]] : p \in Pairs(f)} = 1..cfg.VUs

\* Lists of the plan's lengths that are numbered on from one to the next hold each
\* number from 1 to the sum of the lengths, and hold no other.
LEMMA Numbering ==
    ASSUME GoodPlan, NEW g, IsPartial(g, NeedsList), cfg.VUs = g[Len(plan)],
           NEW f, DOMAIN f = 1..Len(plan),
           \A i \in 1..Len(plan) :
              /\ f[i] \in Seq(Int) /\ Len(f[i]) = Needs(plan[i].executor)
              /\ \A j \in 1..Len(f[i]) : f[i][j] = g[i - 1] + j
    PROVE  Numbered(f)
<1> DEFINE n == Len(plan)
<1>0. n \in Nat \ {0}
    BY DEF GoodPlan
<1>1. /\ NeedsList \in Seq(Int) /\ Len(NeedsList) = n
      /\ \A i \in 1..n : NeedsList[i] = Needs(plan[i].executor) /\ NeedsList[i] \in Nat \ {0}
    BY NeedsAre
<1>2. [i \in DOMAIN f |-> Len(f[i])] = NeedsList
    BY DEF NeedsList
<1>3. SumSeq([i \in DOMAIN f |-> Len(f[i])]) = cfg.VUs
  <2>1. SumSeq(NeedsList) = g[Len(NeedsList)]
    BY <1>1, SumIs
  <2>2. QED
    BY <1>1, <1>2, <2>1, Zenon
<1>4. /\ g \in [0..n -> Int] /\ g[0] = 0
      /\ \A i \in 1..n : g[i] = g[i - 1] + NeedsList[i]
    BY <1>1 DEF IsPartial
<1>5. \A a \in 0..n, b \in 0..n : a <= b => g[a] <= g[b] /\ g[a] \in Nat
  <2> SUFFICES ASSUME NEW a \in 0..n, NEW b \in 0..n, a <= b
               PROVE  g[a] <= g[b] /\ g[a] \in Nat
    OBVIOUS
  <2>1. \A k \in 1..Len(NeedsList) : NeedsList[k] >= 0
    BY <1>1
  <2>2. a \in 0..Len(NeedsList) /\ b \in 0..Len(NeedsList)
    BY <1>1
  <2> QED BY <1>1, <2>1, <2>2, PartialGrows
<1>6. \A i \in 1..n : Len(f[i]) = NeedsList[i] /\ DOMAIN f[i] = 1..NeedsList[i]
    BY <1>1
<1>7. ASSUME NEW p \in Pairs(f)
      PROVE  f[p[1]][p[2]] \in 1..cfg.VUs
  <2>1. p[1] \in 1..n /\ p[2] \in DOMAIN f[p[1]]
    BY DEF Pairs
  <2> DEFINE i == p[1]
             j == p[2]
  <2>2. j \in 1..NeedsList[i] /\ f[i][j] = g[i - 1] + j
    BY <2>1, <1>6
  <2>3. i - 1 \in 0..n /\ i \in 0..n /\ n \in 0..n
    BY <2>1, <1>0
  <2>a. g[i] = g[i - 1] + NeedsList[i] /\ g[n] \in Int /\ g[i] \in Int
    BY <2>1, <2>3, <1>4
  <2>b. i - 1 <= i /\ i <= n
    BY <2>1, <1>0
  <2>c. g[i] <= g[n]
    BY <2>b, <2>3, <1>5
  <2>d. g[i - 1] \in Nat
    BY <2>b, <2>3, <1>5
  <2>4. g[i - 1] \in Nat /\ g[i] <= g[n] /\ g[i] = g[i - 1] + NeedsList[i] /\ g[n] \in Int /\ g[i] \in Int
    BY <2>a, <2>c, <2>d
  <2>5. NeedsList[i] \in Nat
    BY <2>1, <1>1
  <2> HIDE DEF i, j
  <2>6. g[i - 1] + j \in 1..g[n]
    BY <2>2, <2>4, <2>5
  <2> QED BY <2>2, <2>6 DEF i, j
<1>8. ASSUME NEW k \in 1..cfg.VUs
      PROVE  \E p \in Pairs(f) : k = f[p[1]][p[2]]
  <2> DEFINE S == {i \in 0..n : g[i] >= k}
  <2>0. n \in S /\ S \in SUBSET Nat
    BY <1>0, <1>4
  <2>1. PICK i \in S : \A m \in S : i <= m
    BY <2>0, LeastNatural
  <2>2. i \in 0..n /\ g[i] >= k
    BY <2>1
  <2>3. i # 0
    BY <2>2, <1>4
  <2>4. i \in 1..n /\ i - 1 \in 0..n /\ i - 1 \notin S
    BY <2>1, <2>2, <2>3, <1>0
  <2>5. g[i - 1] \in Nat /\ ~(g[i - 1] >= k)
    <3>1. ~(g[i - 1] >= k)
      BY <2>4
    <3>2. \A a \in 0..n : g[a] \in Nat
      BY <1>0, <1>5
    <3>3. QED
      BY <2>4, <3>1, <3>2
  <2> HIDE DEF S
  <2> DEFINE j == k - g[i - 1]
  <2>6. g[i] = g[i - 1] + NeedsList[i] /\ NeedsList[i] \in Nat /\ g[i] <= cfg.VUs /\ g[i] \in Int /\ cfg.VUs \in Int
    <3>1. g[i] = g[i - 1] + NeedsList[i] /\ NeedsList[i] \in Nat
      BY <2>4, <1>1, <1>4
    <3>2. i \in 0..n /\ n \in 0..n /\ i <= n
      BY <2>2, <1>0
    <3>3. g[i] <= g[n]
      BY <3>2, <1>5
    <3>4. g[i] \in Int /\ g[n] \in Int
      BY <3>2, <1>4
    <3>5. QED
      BY <3>1, <3>3, <3>4
  <2>7. j \in 1..NeedsList[i] /\ j \in 1..cfg.VUs /\ g[i - 1] + j = k
    BY <2>2, <2>5, <2>6
  <2> HIDE DEF j
  <2>8. j \in DOMAIN f[i] /\ f[i][j] = k
    BY <2>4, <2>7, <1>6
  <2>9. <<i, j>> \in Pairs(f)
    BY <2>4, <2>7, <2>8 DEF Pairs
  <2> QED BY <2>8, <2>9
<1>9. \A k : k \in {f[p[1]][p[2]] : p \in Pairs(f)} <=> k \in 1..cfg.VUs
    BY <1>7, <1>8
<1>10. {f[p[1]][p[2]] : p \in Pairs(f)} = 1..cfg.VUs
    BY <1>9
<1> QED BY <1>3, <1>10 DEF Numbered

\* What the plan announces is what was created, when the clock starts.
LEMMA StartedAsAnnounced ==
    ASSUME StartInv
    PROVE  AnnouncedPlanRuns
<1> SUFFICES ASSUME pc = "running"
             PROVE  /\ \A f \in {iters, recs} : Numbered(f)
                    /\ \A i \in DOMAIN plan : Len(recs[i]) = Len(iters[i])
                    /\ {StopsAt(i) : i \in DOMAIN plan} \subseteq 0..cfg.Duration
                    /\ \E i \in DOMAIN plan : StopsAt(i) = cfg.Duration
    BY DEF AnnouncedPlanRuns, Numbered
<1> DEFINE n == Len(plan)
<1>0. PlanIs /\ Created /\ recs = Slices
    BY DEF StartInv, Planned, Places
<1>1. GoodPlan
    BY <1>0, PlanGood
<1>2. n \in Nat \ {0} /\ DOMAIN plan = 1..n
    BY <1>1 DEF GoodPlan
<1>3. PICK g : /\ IsPartial(g, NeedsList) /\ cfg.VUs = g[n]
               /\ \A i \in 1..n : plan[i].base = 1 + g[i - 1] /\ plan[i].base \in Int
    BY <1>0, BasesAre
<1>4. /\ NeedsList \in Seq(Int) /\ Len(NeedsList) = n
      /\ \A i \in 1..n : NeedsList[i] = Needs(plan[i].executor) /\ NeedsList[i] \in Nat \ {0}
    BY <1>1, NeedsAre
<1>5. /\ g \in [0..n -> Int] /\ g[0] = 0
      /\ \A i \in 1..n : g[i] = g[i - 1] + NeedsList[i]
    BY <1>3, <1>4 DEF IsPartial
<1>6. cur = n + 1 /\ iters \in Seq(Seq(Int)) /\ Len(iters) = n
    BY <1>0, <1>2 DEF Created
<1>7. DOMAIN iters = 1..n /\ \A i \in 1..n : iters[i] \in Seq(Int) /\ Len(iters[i]) = Needs(plan[i].executor)
    BY <1>0, <1>2, <1>6 DEF Created
<1>8. \A i \in 1..n : \A j \in 1..Len(iters[i]) : iters[i][j] = plan[i].base + j - 1
    BY <1>0, <1>6 DEF Created
<1>9. \A i \in 1..n : g[i - 1] \in Int
    BY <1>2, <1>5
<1>10. \A i \in 1..n : \A j \in 1..Len(iters[i]) : iters[i][j] = g[i - 1] + j
    BY <1>3, <1>8, <1>9
<1>11. ASSUME NEW i \in 1..n
       PROVE  SumSeq([j \in 1..(i - 1) |-> Len(iters[j])]) = g[i - 1]
  <2>1. \A j \in 1..(i - 1) : Len(iters[j]) = NeedsList[j]
    BY <1>2, <1>4, <1>7
  <2>2. [j \in 1..(i - 1) |-> Len(iters[j])] = [j \in 1..(i - 1) |-> NeedsList[j]]
    BY <2>1
  <2>3. SumSeq([j \in 1..(i - 1) |-> NeedsList[j]]) = g[i - 1]
    BY <1>3, <1>4, PrefixSum
  <2> QED BY <2>2, <2>3
<1>12. \A i \in 1..n : recs[i] = [j \in DOMAIN iters[i] |-> g[i - 1] + j]
    BY <1>0, <1>2, <1>11 DEF Slices
<1>13. DOMAIN recs = 1..n
    BY <1>0, <1>2 DEF Slices
<1>14. ASSUME NEW i \in 1..n
       PROVE  /\ recs[i] \in Seq(Int) /\ Len(recs[i]) = Len(iters[i])
              /\ \A j \in 1..Len(recs[i]) : recs[i][j] = g[i - 1] + j
  <2> DEFINE m == Len(iters[i])
  <2>1. m \in Nat /\ DOMAIN iters[i] = 1..m
    BY <1>7
  <2>2. recs[i] = [j \in 1..m |-> g[i - 1] + j] /\ g[i - 1] \in Int
    BY <1>9, <1>12, <2>1
  <2> HIDE DEF m
  <2>3. recs[i] \in Seq(Int) /\ Len(recs[i]) = m
    BY <2>1, <2>2
  <2>4. \A j \in 1..m : recs[i][j] = g[i - 1] + j
    BY <2>2
  <2> QED BY <2>3, <2>4 DEF m
<1>15. ASSUME NEW f \in {iters, recs}
       PROVE  Numbered(f)
  <2>1. DOMAIN f = 1..Len(plan)
    BY <1>7, <1>13
  <2>2. \A i \in 1..Len(plan) :
              /\ f[i] \in Seq(Int) /\ Len(f[i]) = Needs(plan[i].executor)
              /\ \A j \in 1..Len(f[i]) : f[i][j] = g[i - 1] + j
    <3>1. CASE f = iters
        BY <3>1, <1>7, <1>10
    <3>2. CASE f = recs
        BY <3>2, <1>7, <1>14
    <3> QED BY <3>1, <3>2
  <2> QED BY <1>1, <1>3, <2>1, <2>2, Numbering
<1>16. \A i \in 1..n : StopsAt(i) \in Nat /\ StopsAt(i) <= cfg.Duration
    BY <1>1 DEF GoodPlan
<1>17. \E i \in 1..n : StopsAt(i) = cfg.Duration
    BY <1>1 DEF GoodPlan
<1>18. cfg.Duration \in Int
    BY <1>16, <1>17
<1>19. {StopsAt(i) : i \in DOMAIN plan} \subseteq 0..cfg.Duration
    BY <1>2, <1>16, <1>18
<1> QED BY <1>2, <1>14, <1>15, <1>17, <1>19

\* The plan that the report announces, and that the connection pool is sized for,
\* is the one that runs (AnnouncedPlanRuns), for every input: VUs are numbered
\* without a gap, each has its recorder, and the last scenario ends when announced.
THEOREM PlanAnnounced == SpecLoad => []AnnouncedPlanRuns
<1>1. StartInv /\ LoadInv => AnnouncedPlanRuns
    BY StartedAsAnnounced
<1> QED BY <1>1, EngineInvariant, PTL

-----------------------------------------------------------------------------
(* What was asked for *)

\* Choose takes the highest source that sets the value; a variable that does not
\* parse counts as 0.
LEMMA ChooseRanks ==
    ASSUME NEW flag, NEW env, NEW option, NEW def
    PROVE  LET c == Choose(flag, env, option, def).value
           IN  /\ Ranked(flag, env) # <<>> => c = Ranked(flag, env)[1]
               /\ ~IsSet(flag) /\ ~hasEnv(env) => c = OrElse(option, def)
               /\ Ranked(flag, env) = <<>> /\ (IsSet(flag) \/ hasEnv(env)) => c = 0
<1> DEFINE c == Choose(flag, env, option, def).value
<1>1. ASSUME Ranked(flag, env) # <<>> PROVE c = Ranked(flag, env)[1]
  <2>1. CASE flag # <<>>
    BY <2>1 DEF Choose, Ranked, IsSet
  <2>2. CASE flag = <<>>
    <3>1. env.is = "given" /\ Ranked(flag, env) = <<env.value>>
      BY <1>1, <2>2 DEF Ranked
    <3>2. c = env.value
      BY <2>2, <3>1 DEF Choose, IsSet, hasEnv
    <3>3. QED
      BY <3>1, <3>2
  <2>3. QED
    BY <2>1, <2>2
<1>2. ASSUME ~IsSet(flag), ~hasEnv(env) PROVE c = OrElse(option, def)
  <2>1. CASE option = <<>>
    BY <1>2, <2>1 DEF Choose, OrElse, IsSet
  <2>2. CASE option # <<>>
    BY <1>2, <2>2 DEF Choose, OrElse, IsSet
  <2>3. QED
    BY <2>1, <2>2
<1>3. ASSUME Ranked(flag, env) = <<>>, IsSet(flag) \/ hasEnv(env) PROVE c = 0
  <2>1. flag = <<>> /\ env.is # "given"
    BY <1>3 DEF Ranked
  <2>2. hasEnv(env)
    BY <1>3, <2>1 DEF IsSet
  <2>3. QED
    BY <2>1, <2>2 DEF Choose, IsSet
<1>4. QED
  BY <1>1, <1>2, <1>3

\* A source that ranks is one that overrides.
LEMMA RankedOverrides ==
    ASSUME NEW flag, NEW env, Ranked(flag, env) # <<>>
    PROVE  IsSet(flag) \/ hasEnv(env)
  BY DEF Ranked, IsSet, hasEnv

\* The plan of the shorthand.
LEMMA ShorthandPlan ==
    ASSUME PlanIs, Resolved.scenarios = ShorthandOf(in)
    PROVE  /\ Len(plan) = 1 /\ plan[1].executor.kind = "constant-vus"
           /\ plan[1].executor.vus = VUsOf(in) /\ plan[1].executor.duration = DurationOf(in)
           /\ plan[1].gracefulStop = in.gracefulStop /\ plan[1].startTime = 0
<1> DEFINE s == Shorthand(VUsOf(in), DurationOf(in), in.gracefulStop)
           sc == Resolved.scenarios
<1>1. /\ s.executor = "constant-vus" /\ s.vus = VUsOf(in) /\ s.duration = DurationOf(in)
      /\ s.gracefulStop = in.gracefulStop /\ s.startTime = 0
  BY ShorthandFields
<1> HIDE DEF s
<1>2. sc = <<s>> /\ Len(sc) = 1 /\ sc[1] = s
  BY DEF ShorthandOf, s
<1>3. 1 \in 1..Len(sc)
  BY <1>2
<1>4. Len(plan) = Len(sc) /\ plan[1].executor = executor(sc[1]) /\ plan[1].startTime = sc[1].startTime
      /\ plan[1].gracefulStop = sc[1].gracefulStop
  BY <1>3, PlanShape
<1>5. executor(s) = [kind |-> s.executor, vus |-> s.vus, duration |-> s.duration]
  BY <1>1 DEF executor
<1>6. executor(s).kind = s.executor /\ executor(s).vus = s.vus /\ executor(s).duration = s.duration
  BY <1>5
<1>7. QED
  BY <1>1, <1>2, <1>4, <1>6

\* The user is told of what flags replaced and of unknown keys.
LEMMA Told ==
    ASSUME PlanIs
    PROVE  /\ Outcome(in, Resolved.scenarios, Resolved.replaced)
           /\ "replaced" \in Warnings <=> Resolved.replaced = TRUE
           /\ Unknown => "unknown" \in Warnings
           /\ VUsOf(in) >= 1 /\ DurationOf(in) > 0
<1>1. Resolved = ResolvedOf(in) /\ Resolved.ok = TRUE
  BY PlanShape
<1>2. ResolvedOf(in).ok = TRUE
  BY <1>1
<1>3. /\ Outcome(in, ResolvedOf(in).scenarios, ResolvedOf(in).replaced)
      /\ VUsOf(in) >= 1 /\ DurationOf(in) > 0
  BY <1>2, ResolveOutcome
<1>4. Outcome(in, Resolved.scenarios, Resolved.replaced)
  BY <1>1, <1>3, Zenon
<1>5. Resolved.replaced = TRUE \/ Resolved.replaced = FALSE
  BY <1>4, Zenon DEF Outcome
<1>6. "replaced" # "unknown"
  OBVIOUS
<1>7. "replaced" \in Warnings <=> Resolved.replaced = TRUE
  BY <1>1, <1>5, <1>6, Zenon DEF Warnings
<1>8. Unknown => "unknown" \in Warnings
  BY Zenon DEF Warnings
<1>9. QED
  BY <1>3, <1>4, <1>7, <1>8, Zenon

\* Flags and variables win, in their order.
LEMMA FlagsWin ==
    ASSUME PlanIs, warned = Warnings
    PROVE  OverridesWin
<1> DEFINE vus == Ranked(in.cli.vus, in.env.vus)
           dur == Ranked(in.cli.duration, in.env.duration)
           told == "replaced" \in warned
           more == IsSet(script.scenarios) \/ IsSet(script.stages)
<1>0. script = ScriptOf(in)
  BY DEF script, ScriptOf
<1>1. /\ Outcome(in, Resolved.scenarios, Resolved.replaced)
      /\ told <=> Resolved.replaced = TRUE
      /\ VUsOf(in) >= 1 /\ DurationOf(in) > 0
  BY Told, Zenon
<1>2. vus # <<>> \/ dur # <<>> => Override(in.cli, in.env)
  BY RankedOverrides DEF Override
<1>3. vus # <<>> => VUsOf(in) = vus[1]
  BY ChooseRanks DEF VUsOf
<1>4. dur # <<>> => DurationOf(in) = dur[1]
  BY ChooseRanks DEF DurationOf
<1>5. IsSet(in.cli.vus) \/ hasEnv(in.env.vus) => vus # <<>>
  <2>1. SUFFICES ASSUME IsSet(in.cli.vus) \/ hasEnv(in.env.vus), vus = <<>> PROVE FALSE
    OBVIOUS
  <2>2. VUsOf(in) = 0
    BY <2>1, ChooseRanks DEF VUsOf
  <2>3. QED
    BY <1>1, <2>2
<1>6. IsSet(in.cli.duration) \/ hasEnv(in.env.duration) => dur # <<>>
  <2>1. SUFFICES ASSUME IsSet(in.cli.duration) \/ hasEnv(in.env.duration), dur = <<>> PROVE FALSE
    OBVIOUS
  <2>2. DurationOf(in) = 0
    BY <2>1, ChooseRanks DEF DurationOf
  <2>3. QED
    BY <1>1, <2>2
<1>7. Override(in.cli, in.env) => vus # <<>> \/ dur # <<>>
  BY <1>5, <1>6 DEF Override
<1>8. told <=> (vus # <<>> \/ dur # <<>>) /\ more
  <2> HIDE DEF vus, dur, told
  <2>1. told => Override(in.cli, in.env) /\ more
    BY <1>0, <1>1, Zenon DEF Outcome
  <2>2. Override(in.cli, in.env) /\ more => told
    BY <1>0, <1>1, Zenon DEF Outcome
  <2>3. QED
    BY <1>2, <1>7, <2>1, <2>2, Zenon
<1>9. Override(in.cli, in.env) => Resolved.scenarios = ShorthandOf(in)
  BY <1>1, Zenon DEF Outcome
<1>10. ASSUME vus # <<>> \/ dur # <<>>
       PROVE  /\ Len(plan) = 1 /\ plan[1].executor.kind = "constant-vus"
              /\ plan[1].gracefulStop = in.gracefulStop
              /\ vus # <<>> => plan[1].executor.vus = vus[1]
              /\ dur # <<>> => plan[1].executor.duration = dur[1]
  <2> HIDE DEF vus, dur
  <2>1. Resolved.scenarios = ShorthandOf(in)
    BY <1>2, <1>9, <1>10
  <2>2. /\ Len(plan) = 1 /\ plan[1].executor.kind = "constant-vus"
        /\ plan[1].executor.vus = VUsOf(in) /\ plan[1].executor.duration = DurationOf(in)
        /\ plan[1].gracefulStop = in.gracefulStop
    BY <2>1, ShorthandPlan
  <2>3. QED
    BY <1>3, <1>4, <2>2
<1>11. QED
  <2> HIDE DEF told, more
  <2>1. told <=> "replaced" \in warned
    BY DEF told
  <2>2. more <=> IsSet(script.scenarios) \/ IsSet(script.stages)
    BY DEF more
  <2>3. QED
    BY <1>8, <1>10, <2>1, <2>2, Zenon DEF OverridesWin

\* Each field of a scenario that the script set is what its executor works with.
LEMMA FieldsHonoured ==
    ASSUME NEW name, NEW o, ScenarioValid(o)
    PROVE  LET s == Complete(name, o)
           IN  /\ executor(s).kind = o.executor
               /\ \A f \in FieldsSet(o) : FieldHonoured(executor(s), f, o[f][1])
               /\ IsSet(o.exec) => s.exec = o.exec[1]
               /\ IsSet(o.startTime) => s.startTime = o.startTime[1]
               /\ IsSet(o.gracefulStop) => s.gracefulStop = o.gracefulStop[1]
<1> DEFINE s == Complete(name, o)
           z == Complete(0, o)
           e == executor(s)
<1>1. /\ s.executor = o.executor /\ s.startTime = OrElse(o.startTime, 0) /\ s.exec = OrElse(o.exec, "default")
      /\ s.gracefulStop = OrElse(o.gracefulStop, DefaultGracefulStop)
  BY CompleteFields
<1>2. /\ s.vus = IF o.executor = "constant-vus" THEN OrElse(o.vus, 1) ELSE 0
      /\ s.duration = OrElse(o.duration, 0)
      /\ s.startVUs = IF o.executor = "ramping-vus" THEN OrElse(o.startVUs, 1) ELSE 0
      /\ s.stages = OrElse(o.stages, <<>>)
  BY CompleteFields
<1>3. /\ s.gracefulRampDown = IF o.executor = "ramping-vus"
                              THEN OrElse(o.gracefulRampDown, DefaultGracefulRampDown) ELSE 0
      /\ s.rate = OrElse(o.rate, 0)
      /\ s.timeUnit = IF o.executor = "constant-arrival-rate" THEN OrElse(o.timeUnit, DefaultTimeUnit) ELSE 0
      /\ s.preAllocatedVUs = OrElse(o.preAllocatedVUs, 0)
  BY CompleteFields
<1>4. z.executor = o.executor /\ z.preAllocatedVUs = s.preAllocatedVUs
  BY <1>3, CompleteFields
<1> HIDE DEF s, z
<1>5. o.executor \in Kinds /\ FieldsSet(o) \subseteq Allowed[o.executor] /\ ExecutorValid(z, o)
  BY FieldsAre DEF ScenarioValid, z
<1>6. \A x, def : IsSet(x) => OrElse(x, def) = x[1]
  BY DEF IsSet, OrElse
<1>7. /\ IsSet(o.exec) => s.exec = o.exec[1]
      /\ IsSet(o.startTime) => s.startTime = o.startTime[1]
      /\ IsSet(o.gracefulStop) => s.gracefulStop = o.gracefulStop[1]
  BY <1>1, <1>6
<1>8. \A f \in FieldsSet(o) : IsSet(o[f]) /\ f \in Allowed[o.executor]
  BY <1>5 DEF FieldsSet
<1>9. CASE o.executor = "constant-vus"
  <2>1. e = [kind |-> s.executor, vus |-> s.vus, duration |-> s.duration]
    BY <1>1, <1>9 DEF executor
  <2>2. ASSUME NEW f \in FieldsSet(o) PROVE FieldHonoured(e, f, o[f][1])
    <3>1. f \in {"vus", "duration"} /\ IsSet(o[f])
      BY <1>8, <1>9, FieldsAre
    <3>2. CASE f = "vus"
      BY <1>2, <1>6, <1>9, <2>1, <3>1, <3>2 DEF FieldHonoured
    <3>3. CASE f = "duration"
      BY <1>2, <1>6, <1>9, <2>1, <3>1, <3>3 DEF FieldHonoured
    <3>4. QED
      BY <3>1, <3>2, <3>3
  <2>3. e.kind = o.executor
    BY <1>1, <2>1
  <2>4. QED
    BY <1>7, <2>2, <2>3 DEF s
<1>10. CASE o.executor = "ramping-vus"
  <2>1. e = [kind |-> s.executor, startVUs |-> s.startVUs, stages |-> s.stages, gracefulRampDown |-> s.gracefulRampDown]
    BY <1>1, <1>10 DEF executor
  <2>2. ASSUME NEW f \in FieldsSet(o) PROVE FieldHonoured(e, f, o[f][1])
    <3>1. f \in {"startVUs", "stages", "gracefulRampDown"} /\ IsSet(o[f])
      BY <1>8, <1>10, FieldsAre
    <3>2. CASE f = "startVUs"
      BY <1>2, <1>6, <1>10, <2>1, <3>1, <3>2 DEF FieldHonoured
    <3>3. CASE f = "stages"
      BY <1>2, <1>6, <1>10, <2>1, <3>1, <3>3 DEF FieldHonoured
    <3>4. CASE f = "gracefulRampDown"
      BY <1>3, <1>6, <1>10, <2>1, <3>1, <3>4 DEF FieldHonoured
    <3>5. QED
      BY <3>1, <3>2, <3>3, <3>4
  <2>3. e.kind = o.executor
    BY <1>1, <2>1
  <2>4. QED
    BY <1>7, <2>2, <2>3 DEF s
<1>11. CASE o.executor = "constant-arrival-rate"
  <2>1. e = [kind |-> s.executor, rate |-> s.rate, timeUnit |-> s.timeUnit, duration |-> s.duration,
             preAllocatedVUs |-> s.preAllocatedVUs]
    BY <1>1, <1>11 DEF executor
  <2>2. IsSet(o.maxVUs) => o.maxVUs[1] = s.preAllocatedVUs
    BY <1>4, <1>5, <1>11 DEF ExecutorValid
  <2>3. ASSUME NEW f \in FieldsSet(o) PROVE FieldHonoured(e, f, o[f][1])
    <3>1. f \in {"rate", "timeUnit", "duration", "preAllocatedVUs", "maxVUs"} /\ IsSet(o[f])
      BY <1>8, <1>11, FieldsAre
    <3>2. CASE f = "rate"
      BY <1>3, <1>6, <1>11, <2>1, <3>1, <3>2 DEF FieldHonoured
    <3>3. CASE f = "timeUnit"
      BY <1>3, <1>6, <1>11, <2>1, <3>1, <3>3 DEF FieldHonoured
    <3>4. CASE f = "duration"
      BY <1>2, <1>6, <1>11, <2>1, <3>1, <3>4 DEF FieldHonoured
    <3>5. CASE f = "preAllocatedVUs"
      BY <1>3, <1>6, <1>11, <2>1, <3>1, <3>5 DEF FieldHonoured
    <3>6. CASE f = "maxVUs"
      BY <2>1, <2>2, <3>1, <3>6 DEF FieldHonoured
    <3>7. QED
      BY <3>1, <3>2, <3>3, <3>4, <3>5, <3>6
  <2>4. e.kind = o.executor
    BY <1>1, <2>1
  <2>5. QED
    BY <1>7, <2>3, <2>4 DEF s
<1>12. QED
  BY <1>5, <1>9, <1>10, <1>11 DEF Kinds

\* A scenario that the script has an unknown key in.
LEMMA ListedUnknown ==
    ASSUME PlanIs, IsSet(ScriptOf(in).scenarios), NEW i \in DOMAIN ListedOf(in), ListedOf(in)[i].unknown
    PROVE  Unknown
<1> DEFINE o == in.options
<1>1. "scenarios" \in KnownOptions /\ "scenarios" \in RejectsNull
  BY DEF KnownOptions, RejectsNull
<1>2. InputTyped(in) /\ ~ParseFails(o)
  BY PlanShape
<1>3. o.scenarios.is \in {"absent", "given"}
  BY <1>1, <1>2 DEF ParseFails, InputTyped
<1>4. ScriptOf(in).scenarios = IF o.scenarios.is = "absent" THEN <<>>
                               ELSE <<[k \in DOMAIN o.scenarios.value |-> o.scenarios.value[k].value]>>
  BY <1>1, <1>3 DEF ScriptOf, ParseOptions
<1>5. o.scenarios.is = "given"
  BY <1>3, <1>4 DEF IsSet
<1>6. ListedOf(in) = [k \in DOMAIN o.scenarios.value |-> o.scenarios.value[k].value]
  BY <1>4, <1>5 DEF ListedOf
<1>7. i \in DOMAIN o.scenarios.value /\ ListedOf(in)[i] = o.scenarios.value[i].value
  BY <1>6
<1>8. QED
  BY <1>5, <1>7, Zenon DEF Unknown

\* The scenarios of the script are in the plan with all their fields.
LEMMA ListedKept ==
    ASSUME PlanIs, warned = Warnings, IsSet(ScriptOf(in).scenarios),
           Resolved.scenarios = [i \in DOMAIN ListedOf(in) |-> Complete(i, ListedOf(in)[i])],
           \A i \in DOMAIN ListedOf(in) : ScenarioValid(ListedOf(in)[i])
    PROVE  LET listed == ListedOf(in)
           IN  /\ Len(plan) = Len(listed)
               /\ \A i \in DOMAIN listed :
                       /\ plan[i].executor.kind = listed[i].executor
                       /\ \A f \in FieldsSet(listed[i]) : FieldHonoured(plan[i].executor, f, listed[i][f][1])
                       /\ \A f \in {"exec", "startTime", "gracefulStop"} :
                             IsSet(listed[i][f]) => plan[i][f] = listed[i][f][1]
                       /\ listed[i].unknown => "unknown" \in warned
<1> DEFINE listed == ListedOf(in)
           sc == Resolved.scenarios
<1>1. InputTyped(in) /\ ~ParseFails(in.options)
  BY PlanShape
<1>2. Len(listed) \in Nat /\ DOMAIN listed = 1..Len(listed)
  BY <1>1, ScriptTyped
<1>3. Len(plan) = Len(sc) /\ DOMAIN sc = 1..Len(sc) /\ Len(sc) \in Nat
  BY PlanShape
<1>4. DOMAIN sc = 1..Len(listed)
  BY <1>2
<1>5. Len(plan) = Len(listed)
  <2> HIDE DEF listed, sc
  <2>1. 1..Len(sc) = 1..Len(listed)
    BY <1>3, <1>4
  <2>2. Len(sc) = Len(listed)
    BY <1>2, <1>3, <2>1
  <2>3. QED
    BY <1>3, <2>2
<1>6. ASSUME NEW i \in DOMAIN listed
      PROVE  /\ plan[i].executor.kind = listed[i].executor
             /\ \A f \in FieldsSet(listed[i]) : FieldHonoured(plan[i].executor, f, listed[i][f][1])
             /\ \A f \in {"exec", "startTime", "gracefulStop"} :
                   IsSet(listed[i][f]) => plan[i][f] = listed[i][f][1]
  <2> DEFINE o == listed[i]
             s == Complete(i, o)
  <2>1. ScenarioValid(o) /\ sc[i] = s
    OBVIOUS
  <2>2. i \in 1..Len(sc)
    BY <1>2, <1>3, <1>4
  <2>3. /\ plan[i].executor = executor(sc[i]) /\ plan[i].startTime = sc[i].startTime
        /\ plan[i].gracefulStop = sc[i].gracefulStop /\ plan[i].exec = sc[i].exec
    BY <2>2, PlanShape
  <2> HIDE DEF o, sc
  <2>4. /\ executor(s).kind = o.executor
        /\ \A f \in FieldsSet(o) : FieldHonoured(executor(s), f, o[f][1])
        /\ IsSet(o.exec) => s.exec = o.exec[1]
        /\ IsSet(o.startTime) => s.startTime = o.startTime[1]
        /\ IsSet(o.gracefulStop) => s.gracefulStop = o.gracefulStop[1]
    BY <2>1, FieldsHonoured
  <2> HIDE DEF s
  <2>5. \A f \in {"exec", "startTime", "gracefulStop"} : IsSet(o[f]) => plan[i][f] = o[f][1]
    BY <2>1, <2>3, <2>4
  <2>6. plan[i].executor.kind = o.executor /\ \A f \in FieldsSet(o) : FieldHonoured(plan[i].executor, f, o[f][1])
    BY <2>1, <2>3, <2>4, Zenon
  <2>7. QED
    BY <2>5, <2>6, Zenon DEF o
<1>7. ASSUME NEW i \in DOMAIN listed, listed[i].unknown PROVE "unknown" \in warned
  <2>1. Unknown
    BY <1>7, ListedUnknown
  <2>2. QED
    BY <2>1, Told, Zenon
<1>8. QED
  <2> HIDE DEF listed
  <2>1. QED BY <1>5, <1>6, <1>7, Zenon DEF listed

\* The stages of the script are in the plan.
LEMMA StagesKept ==
    ASSUME PlanIs, Resolved.scenarios = <<Complete("default", RampOf(in))>>, IsSet(ScriptOf(in).stages),
           ~Override(in.cli, in.env)
    PROVE  /\ Len(plan) = 1
           /\ plan[1].executor.stages = ScriptOf(in).stages[1]
           /\ plan[1].executor.startVUs = OrElse(ScriptOf(in).vus, DefaultVUs)
<1> DEFINE o == RampOf(in)
           s == Complete("default", o)
           sc == Resolved.scenarios
<1>1. o.executor = "ramping-vus" /\ o.startVUs = <<VUsOf(in)>> /\ o.stages = ScriptOf(in).stages
  BY RampFields DEF RampOf
<1> HIDE DEF o
<1>2. /\ s.executor = o.executor /\ s.stages = OrElse(o.stages, <<>>)
      /\ s.startVUs = IF o.executor = "ramping-vus" THEN OrElse(o.startVUs, 1) ELSE 0
  BY CompleteFields
<1> HIDE DEF s
<1>3. s.stages = ScriptOf(in).stages[1]
  BY <1>1, <1>2 DEF OrElse, IsSet
<1>4. s.startVUs = VUsOf(in)
  BY <1>1, <1>2 DEF OrElse
<1>5. VUsOf(in) = OrElse(ScriptOf(in).vus, DefaultVUs)
  BY ChooseRanks DEF Override, VUsOf
<1>6. sc = <<s>> /\ Len(sc) = 1 /\ sc[1] = s
  BY DEF s, o
<1>7. 1 \in 1..Len(sc)
  BY <1>6
<1>8. Len(plan) = Len(sc) /\ plan[1].executor = executor(sc[1])
  BY <1>7, PlanShape
<1>9. executor(s) = [kind |-> s.executor, startVUs |-> s.startVUs, stages |-> s.stages,
                     gracefulRampDown |-> s.gracefulRampDown]
  BY <1>1, <1>2 DEF executor
<1>10. executor(s).stages = s.stages /\ executor(s).startVUs = s.startVUs
  BY <1>9
<1>11. QED
  BY <1>3, <1>4, <1>5, <1>6, <1>8, <1>10

\* Nothing of the script is dropped in silence.
LEMMA NothingDropped ==
    ASSUME PlanIs, warned = Warnings
    PROVE  NothingSilentlyDropped
<1> DEFINE scr == ScriptOf(in)
<1>0. script = scr
  BY DEF script, ScriptOf
<1>1. SUFFICES ASSUME "replaced" \notin warned PROVE NothingSilentlyDropped
  BY DEF NothingSilentlyDropped
<1>2. /\ Outcome(in, Resolved.scenarios, Resolved.replaced)
      /\ "replaced" \in warned <=> Resolved.replaced = TRUE
  BY Told, Zenon
<1>3. CASE IsSet(scr.scenarios)
  <2>1. /\ Resolved.scenarios = [i \in DOMAIN ListedOf(in) |-> Complete(i, ListedOf(in)[i])]
        /\ \A i \in DOMAIN ListedOf(in) : ScenarioValid(ListedOf(in)[i])
    BY <1>1, <1>2, <1>3, Zenon DEF Outcome
  <2>2. script.scenarios[1] = ListedOf(in)
    BY <1>0 DEF ListedOf
  <2>3. /\ Len(plan) = Len(ListedOf(in))
        /\ \A i \in DOMAIN ListedOf(in) :
                       /\ plan[i].executor.kind = ListedOf(in)[i].executor
                       /\ \A f \in FieldsSet(ListedOf(in)[i]) : FieldHonoured(plan[i].executor, f, ListedOf(in)[i][f][1])
                       /\ \A f \in {"exec", "startTime", "gracefulStop"} :
                             IsSet(ListedOf(in)[i][f]) => plan[i][f] = ListedOf(in)[i][f][1]
                       /\ ListedOf(in)[i].unknown => "unknown" \in warned
    BY <1>3, <2>1, ListedKept, Zenon
  <2>4. QED
    BY <1>0, <1>3, <2>2, <2>3, Zenon DEF NothingSilentlyDropped
<1>4. CASE ~IsSet(scr.scenarios) /\ IsSet(scr.stages)
  <2>1. Resolved.scenarios = <<Complete("default", RampOf(in))>> /\ ~Override(in.cli, in.env)
    BY <1>1, <1>2, <1>4, Zenon DEF Outcome
  <2>2. /\ Len(plan) = 1 /\ plan[1].executor.stages = scr.stages[1]
        /\ plan[1].executor.startVUs = OrElse(scr.vus, DefaultVUs)
    BY <1>4, <2>1, StagesKept
  <2>3. QED
    BY <1>0, <1>4, <2>2, Zenon DEF NothingSilentlyDropped
<1>5. CASE ~IsSet(scr.scenarios) /\ ~IsSet(scr.stages)
  <2>1. Resolved.scenarios = ShorthandOf(in)
    BY <1>2, <1>5, Zenon DEF Outcome
  <2>2. /\ Len(plan) = 1
        /\ plan[1].executor.vus = VUsOf(in) /\ plan[1].executor.duration = DurationOf(in)
    BY <2>1, ShorthandPlan
  <2>3. \A env \in {Absent, Blank} : ~hasEnv(env)
    BY DEF Absent, Blank, hasEnv
  <2>4. ASSUME IsSet(scr.vus), ~IsSet(in.cli.vus), in.env.vus \in {Absent, Blank}
        PROVE  plan[1].executor.vus = scr.vus[1]
    <3>1. ~hasEnv(in.env.vus)
      BY <2>3, <2>4
    <3>2. VUsOf(in) = OrElse(scr.vus, DefaultVUs)
      BY <2>4, <3>1, ChooseRanks DEF VUsOf
    <3>3. QED
      BY <2>2, <2>4, <3>2 DEF OrElse, IsSet
  <2>5. ASSUME IsSet(scr.duration), ~IsSet(in.cli.duration), in.env.duration \in {Absent, Blank}
        PROVE  plan[1].executor.duration = scr.duration[1]
    <3>1. ~hasEnv(in.env.duration)
      BY <2>3, <2>5
    <3>2. DurationOf(in) = OrElse(scr.duration, DefaultDuration)
      BY <2>5, <3>1, ChooseRanks DEF DurationOf
    <3>3. QED
      BY <2>2, <2>5, <3>2 DEF OrElse, IsSet
  <2> HIDE DEF scr
  <2>6. QED
    BY <1>0, <1>5, <2>2, <2>4, <2>5, Zenon DEF NothingSilentlyDropped
<1>6. QED
  BY <1>3, <1>4, <1>5

\* What was asked for is what runs, or the user is told (AskedForRuns), for any flags,
\* variables and script: no scenario, stage or field is dropped in silence, and flags
\* and variables win over the script in their order (Resolve, resolveScenarios).
THEOREM AskedFor == SpecLoad => []AskedForRuns
<1>1. ASSUME StartInv PROVE AskedForRuns
  <2>1. SUFFICES ASSUME pc = "running" PROVE NothingSilentlyDropped /\ OverridesWin
    BY DEF AskedForRuns
  <2>2. PlanIs /\ warned = Warnings
    BY <1>1, <2>1 DEF StartInv, Planned, Places
  <2>3. QED
    BY <2>2, FlagsWin, NothingDropped
<1>2. QED
  BY <1>1, EngineInvariant, PTL

-----------------------------------------------------------------------------
(* What was accepted *)

\* What config asks of an executor is what its validate asks, apart from the upper
\* limits of ramping-vus.
LEMMA GoodIsValid ==
    ASSUME NEW e, GoodExecutor(e)
    PROVE  validate(e) \/ ExceedsLimits(e)
<1>1. e.kind \in Kinds /\ Needs(e) \in Nat \ {0} /\ Lasts(e) \in Nat \ {0}
  BY DEF GoodExecutor
<1>2. CASE e.kind = "constant-vus"
  <2>1. e.vus = Needs(e) /\ e.duration = Lasts(e)
    BY <1>2 DEF GoodExecutor
  <2>2. e.vus >= 1 /\ e.duration > 0
    BY <1>1, <2>1
  <2>3. QED
    BY <1>2, <2>2 DEF validate
<1>3. CASE e.kind = "constant-arrival-rate"
  <2>1. /\ e.preAllocatedVUs = Needs(e) /\ e.duration = Lasts(e)
        /\ e.rate \in Nat \ {0} /\ e.timeUnit \in Nat \ {0}
    BY <1>3 DEF GoodExecutor
  <2>2. e.rate >= 1 /\ e.timeUnit > 0 /\ e.duration > 0 /\ e.preAllocatedVUs >= 1
    BY <1>1, <2>1
  <2>3. QED
    BY <1>3, <2>2 DEF validate
<1>4. CASE e.kind = "ramping-vus"
  <2>1. IsRamp(e) /\ e.gracefulRampDown \in Nat
    BY <1>4 DEF GoodExecutor
  <2>2. Needs(e) = R!MaxVUs(e) /\ Lasts(e) = R!PlanLength(e)
    BY <1>4 DEF Needs, Lasts
  <2>3. /\ R!StageIds(e) = 1..Len(e.stages)
        /\ \A j \in 1..Len(e.stages) : e.stages[j].duration \in Nat /\ e.stages[j].target \in Nat
    BY <2>1, Segments
  <2>4. e.stages # <<>> /\ e.startVUs \in Nat
    BY <2>1 DEF IsRamp
  <2>5. R!PlanLength(e) > 0 /\ R!MaxVUs(e) >= 1
    BY <1>1, <2>2
  <2>6. R!ValidPlan(e)
    BY <2>3, <2>4, <2>5 DEF R!ValidPlan
  <2>7. MaxRampingVUs \in Nat /\ MaxRampingLength \in Nat
    BY RampingLimitsAssumption
  <2>8. e.gracefulRampDown >= 0
    BY <2>1
  <2>9. CASE Needs(e) <= MaxRampingVUs /\ Lasts(e) <= MaxRampingLength
    BY <1>4, <2>6, <2>8, <2>9 DEF validate
  <2>10. CASE Needs(e) > MaxRampingVUs \/ Lasts(e) > MaxRampingLength
    BY <1>4, <2>10 DEF ExceedsLimits
  <2>11. QED
    BY <1>1, <2>7, <2>9, <2>10
<1>5. QED
  BY <1>1, <1>2, <1>3, <1>4 DEF Kinds

\* What a form that was accepted, and whose thresholds print plainly, asks of the
\* runner: its flags, and a script that sets nothing else.
IsForm(x) ==
    /\ x.cli.vus # <<>> /\ x.cli.vus[1] \in 1..MaxFormVUs
    /\ x.cli.duration # <<>> /\ x.cli.duration[1] \in 1..MaxFormDuration
    /\ x.gracefulStop = RequestTimeout /\ x.exports = {"default"}
    /\ \A o \in KnownOptions \ {"thresholds"} : x.options[o].is = "absent"
    /\ x.options.thresholds.is = "given"

LEMMA FormGives ==
    ASSUME NEW x \in FormInputs, x.options.thresholds # Wrong
    PROVE  IsForm(x)
<1>1. PICK f \in Forms : validateForm(f) /\ x = runPlan(f)
  BY DEF FormInputs
<1>2. f.vus \in 1..MaxFormVUs /\ f.duration \in 1..MaxFormDuration
  BY <1>1 DEF validateForm
<1> DEFINE plain == \A y \in limits(f) : PrintsPlainly(y)
           given == Given(limits(f))
           opts == [o \in KnownOptions |-> IF o # "thresholds" THEN Absent ELSE IF plain THEN given ELSE Wrong]
<1>3. x = [cli |-> [vus |-> <<f.vus>>, duration |-> <<f.duration>>],
           env |-> [vus |-> Absent, duration |-> Absent],
           options |-> opts,
           gracefulStop |-> RequestTimeout, exports |-> {"default"}, unknown |-> FALSE]
  BY <1>1, Zenon DEF runPlan
<1>4. Absent.is = "absent" /\ given.is = "given"
  BY DEF Absent, Given
<1> HIDE DEF plain, given, opts
<1>5. /\ x.cli.vus = <<f.vus>> /\ x.cli.duration = <<f.duration>> /\ x.options = opts
      /\ x.gracefulStop = RequestTimeout /\ x.exports = {"default"}
  BY <1>3
<1>6. "thresholds" \in KnownOptions
  BY DEF KnownOptions
<1>7. \A o \in KnownOptions \ {"thresholds"} : opts[o] = Absent
  BY DEF opts
<1>8. opts["thresholds"] = given \/ opts["thresholds"] = Wrong
  BY <1>6 DEF opts
<1>9. QED
  BY <1>2, <1>4, <1>5, <1>7, <1>8 DEF IsForm

\* Its script sets none of what the runner resolves.
LEMMA FormScript ==
    ASSUME NEW x, IsForm(x)
    PROVE  /\ ~ParseFails(x.options)
           /\ \A o \in KnownOptions \ {"thresholds"} : ScriptOf(x)[o] = <<>>
<1>1. \A o \in KnownOptions : x.options[o].is \in {"absent", "given"}
  BY DEF IsForm
<1>2. "scenarios" \in KnownOptions \ {"thresholds"}
  BY DEF KnownOptions
<1>3. x.options.scenarios.is = "absent"
  BY <1>2 DEF IsForm
<1>4. ~ParseFails(x.options)
  BY <1>1, <1>3 DEF ParseFails
<1>5. ASSUME NEW o \in KnownOptions \ {"thresholds"} PROVE ScriptOf(x)[o] = <<>>
  <2>1. x.options[o].is = "absent"
    BY DEF IsForm
  <2>2. QED
    BY <2>1 DEF ScriptOf, ParseOptions
<1>6. QED
  BY <1>4, <1>5

\* The VUs and the duration are the form's.
LEMMA FormValues ==
    ASSUME NEW x, IsForm(x)
    PROVE  /\ VUsOf(x) \in 1..MaxFormVUs /\ DurationOf(x) \in 1..MaxFormDuration
           /\ x.gracefulStop \in Nat
<1>1. VUsOf(x) = x.cli.vus[1]
  BY DEF IsForm, VUsOf, Choose, IsSet
<1>2. DurationOf(x) = x.cli.duration[1]
  BY DEF IsForm, DurationOf, Choose, IsSet
<1>3. x.gracefulStop \in Nat
  BY FormLimitsAssumption DEF IsForm
<1>4. QED
  BY <1>1, <1>2, <1>3 DEF IsForm

\* The sum and the largest of one number.
LEMMA OneOnly ==
    ASSUME NEW a \in Int
    PROVE  SumSeq(<<a>>) = a /\ Max({a}) = a
<1>1. SumSeq(<<a>>) = a
  <2>1. <<>> \in Seq(Int) /\ Append(<<>>, a) = <<a>>
    OBVIOUS
  <2>2. SumSeq(<<>>) = 0
    <3> DEFINE n == <<>>
    <3>1. n \in Seq(Int) /\ \A k \in 1..Len(n) : n[k] = 0
      OBVIOUS
    <3> HIDE DEF n
    <3>2. SumSeq(n) = 0
      BY <3>1, SumZeros
    <3>3. QED
      BY <3>2 DEF n
  <2>3. SumSeq(Append(<<>>, a)) = 0 + a
    BY <2>1, <2>2, SumAppend
  <2>4. QED
    BY <2>1, <2>3
<1>2. Max({a}) = a
  <2>1. {a} \in SUBSET Int /\ {a} # {}
    OBVIOUS
  <2>2. IsFiniteSet({a})
    BY FS_Singleton
  <2>3. Max({a}) \in {a}
    BY <2>1, <2>2, MaxIsLargest
  <2>4. QED
    BY <2>3
<1>3. QED
  BY <1>1, <1>2

\* Resolve takes what the form sets.
LEMMA FormResolves ==
    ASSUME NEW x, IsForm(x)
    PROVE  ResolvedOf(x).ok = TRUE
<1> DEFINE scr == ScriptOf(x)
           vus == Choose(x.cli.vus, x.env.vus, scr.vus, DefaultVUs)
           dur == Choose(x.cli.duration, x.env.duration, scr.duration, DefaultDuration)
           q   == resolveScenarios(scr, Override(x.cli, x.env), vus.value, dur.value, x.gracefulStop)
           c   == [ok |-> TRUE, scenarios |-> q.scenarios, replaced |-> q.replaced,
                   VUs       |-> SumSeq([i \in DOMAIN q.scenarios |-> MaxVUs(q.scenarios[i])]),
                   Duration  |-> Max({q.scenarios[i].startTime + Length(q.scenarios[i]) : i \in DOMAIN q.scenarios}),
                   discardResponseBodies |-> OrElse(scr.discardResponseBodies, TRUE),
                   noCookiesReset        |-> OrElse(scr.noCookiesReset, FALSE),
                   noConnectionReuse     |-> OrElse(scr.noConnectionReuse, FALSE),
                   httpVersion           |-> OrElse(scr.httpVersion, "auto"),
                   setupTimeout          |-> OrElse(scr.setupTimeout, DefaultLifecycleTimeout),
                   teardownTimeout       |-> OrElse(scr.teardownTimeout, DefaultLifecycleTimeout)]
           cond == /\ vus.value >= 1 /\ dur.value > 0
                   /\ q.ok
                   /\ c.setupTimeout > 0 /\ c.teardownTimeout > 0
                   /\ Validate(c, x.gracefulStop)
           s == Shorthand(vus.value, dur.value, x.gracefulStop)
<1>1. ResolvedOf(x) = IF cond THEN c ELSE Rejected
  BY Zenon DEF ResolvedOf, Resolve
<1>2. vus.value \in Nat \ {0} /\ dur.value \in Nat \ {0} /\ x.gracefulStop \in Nat
  BY FormValues, FormLimitsAssumption DEF VUsOf, DurationOf
<1>3. /\ ~IsSet(scr.scenarios) /\ ~IsSet(scr.stages)
      /\ scr.setupTimeout = <<>> /\ scr.teardownTimeout = <<>>
  BY FormScript DEF KnownOptions, IsSet
<1>4. q = Accepted(<<s>>)
  <2> HIDE DEF vus, dur, scr
  <2> QED BY <1>3, Zenon DEF resolveScenarios, s
<1>5. /\ s.executor = "constant-vus" /\ s.vus = vus.value /\ s.duration = dur.value /\ s.startTime = 0
  BY ShorthandFields
<1> HIDE DEF s
<1>6. MaxVUs(s) = vus.value /\ Length(s) = dur.value
  BY <1>5 DEF MaxVUs, Length
<1>7. q.ok = TRUE /\ q.scenarios = <<s>>
  BY <1>4 DEF Accepted
<1> HIDE DEF q
<1>8. /\ c.VUs = SumSeq([i \in DOMAIN q.scenarios |-> MaxVUs(q.scenarios[i])])
      /\ c.Duration = Max({q.scenarios[i].startTime + Length(q.scenarios[i]) : i \in DOMAIN q.scenarios})
      /\ c.setupTimeout = OrElse(scr.setupTimeout, DefaultLifecycleTimeout)
      /\ c.teardownTimeout = OrElse(scr.teardownTimeout, DefaultLifecycleTimeout)
      /\ c.ok = TRUE
  <2> HIDE DEF scr
  <2> QED OBVIOUS
<1> HIDE DEF c, vus, dur, scr
<1>9. DOMAIN q.scenarios = {1} /\ q.scenarios[1] = s
  BY <1>7
<1>10. [i \in DOMAIN q.scenarios |-> MaxVUs(q.scenarios[i])] = <<vus.value>>
  BY <1>2, <1>6, <1>9
<1>11. {q.scenarios[i].startTime + Length(q.scenarios[i]) : i \in DOMAIN q.scenarios} = {dur.value}
  BY <1>2, <1>5, <1>6, <1>9
<1>12. c.VUs = vus.value /\ c.Duration = dur.value
  <2>1. vus.value \in Int /\ dur.value \in Int
    BY <1>2
  <2>2. SumSeq(<<vus.value>>) = vus.value
    BY <2>1, OneOnly, Zenon
  <2>3. Max({dur.value}) = dur.value
    BY <2>1, OneOnly, Zenon
  <2>4. QED
    BY <1>8, <1>10, <1>11, <2>2, <2>3, Zenon
<1>13. c.setupTimeout > 0 /\ c.teardownTimeout > 0
  BY <1>3, <1>8 DEF OrElse, DefaultLifecycleTimeout
<1>14. vus.value >= 1 /\ dur.value > 0
  BY <1>2
<1>15. Validate(c, x.gracefulStop)
  BY <1>2, <1>12 DEF Validate
<1>16. cond
  BY <1>7, <1>13, <1>14, <1>15, Zenon
<1> HIDE DEF cond
<1>17. QED
  BY <1>1, <1>8, <1>16, Zenon

\* The runner can run it.
LEMMA FormRunnable ==
    ASSUME IsForm(in)
    PROVE  /\ Runnable
           /\ Resolved.scenarios = ShorthandOf(in)
<1>1. Resolved = ResolvedOf(in)
  BY DEF Resolved, ResolvedOf, ScriptOf
<1>2. Resolved.ok = TRUE
  BY <1>1, FormResolves
<1>3. Outcome(in, ResolvedOf(in).scenarios, ResolvedOf(in).replaced)
  BY FormResolves, ResolveOutcome
<1>4. ~IsSet(ScriptOf(in).scenarios) /\ ~IsSet(ScriptOf(in).stages)
  BY FormScript DEF KnownOptions, IsSet
<1>5. ResolvedOf(in).scenarios = ShorthandOf(in)
  BY <1>3, <1>4, Zenon DEF Outcome
<1>6. Resolved.scenarios = ShorthandOf(in)
  BY <1>1, <1>5
<1>7. prepareExecs(Resolved.scenarios)
  <2> DEFINE s == Shorthand(VUsOf(in), DurationOf(in), in.gracefulStop)
  <2>1. s.exec = "default"
    BY ShorthandFields
  <2> HIDE DEF s
  <2>2. Resolved.scenarios = <<s>>
    BY <1>6 DEF ShorthandOf, s
  <2>3. in.exports = {"default"}
    BY DEF IsForm
  <2>4. QED
    BY <2>1, <2>2, <2>3 DEF prepareExecs
<1>8. ~ParseFails(in.options)
  BY FormScript
<1>9. QED
  BY <1>2, <1>6, <1>7, <1>8, Zenon DEF Runnable

\* And runs it within the controller's limits.
LEMMA FormWithinLimits ==
    ASSUME PlanIs, IsForm(in)
    PROVE  /\ cfg.VUs <= MaxFormVUs /\ Len(plan) = 1
           /\ StopsAt(1) + plan[1].gracefulStop <= MaxFormDuration + RequestTimeout
<1>1. Resolved.scenarios = ShorthandOf(in)
  BY FormRunnable
<1>2. /\ Len(plan) = 1 /\ plan[1].executor.kind = "constant-vus"
      /\ plan[1].executor.vus = VUsOf(in) /\ plan[1].executor.duration = DurationOf(in)
      /\ plan[1].gracefulStop = in.gracefulStop /\ plan[1].startTime = 0
  BY <1>1, ShorthandPlan
<1>3. VUsOf(in) \in 1..MaxFormVUs /\ DurationOf(in) \in 1..MaxFormDuration
  BY FormValues
<1>4. MaxFormVUs \in Nat /\ MaxFormDuration \in Nat /\ RequestTimeout \in Nat /\ in.gracefulStop = RequestTimeout
  BY FormLimitsAssumption DEF IsForm
<1>5. Needs(plan[1].executor) = VUsOf(in) /\ Lasts(plan[1].executor) = DurationOf(in)
  BY <1>2 DEF Needs, Lasts
<1>6. StopsAt(1) = DurationOf(in)
  BY <1>2, <1>3, <1>4, <1>5 DEF StopsAt
<1>7. GoodPlan
  BY PlanGood
<1>8. cfg.VUs = SumSeq([i \in 1..Len(plan) |-> Needs(plan[i].executor)])
  BY <1>7 DEF GoodPlan
<1>9. [i \in 1..Len(plan) |-> Needs(plan[i].executor)] = <<VUsOf(in)>>
  <2>1. 1..Len(plan) = {1}
    BY <1>2
  <2>2. \A i \in {1} : Needs(plan[i].executor) = VUsOf(in)
    BY <1>5
  <2>3. QED
    BY <2>1, <2>2
<1>10. cfg.VUs = VUsOf(in)
  <2>1. VUsOf(in) \in Int
    BY <1>3, <1>4
  <2>2. SumSeq(<<VUsOf(in)>>) = VUsOf(in)
    BY <2>1, OneOnly, Zenon
  <2>3. QED
    BY <1>8, <1>9, <2>2, Zenon
<1>11. QED
  BY <1>2, <1>3, <1>4, <1>6, <1>10

\* What was accepted stays accepted (AcceptedStaysAccepted), for any form and any
\* settings: the runner runs what the form's validate let through, within its limits,
\* and the engine's validate takes what resolveScenario took, apart from the upper
\* limits of ramping-vus.
THEOREM AcceptedStays == SpecLoad => []AcceptedStaysAccepted
<1>1. ASSUME StartInv PROVE AcceptedStaysAccepted
  <2>1. ASSUME in \in FormInputs, in.options.thresholds # Wrong PROVE IsForm(in)
    BY <2>1, FormGives
  <2>2. ASSUME in \in FormInputs, in.options.thresholds # Wrong, pc = "options" PROVE Runnable
    BY <2>1, <2>2, FormRunnable
  <2>3. ASSUME in \in FormInputs, in.options.thresholds # Wrong, pc = "running"
        PROVE  /\ cfg.VUs <= MaxFormVUs /\ Len(plan) = 1
               /\ StopsAt(1) + plan[1].gracefulStop <= MaxFormDuration + RequestTimeout
    <3>1. PlanIs
      BY <1>1, <2>3 DEF StartInv, Planned, Places
    <3>2. QED
      BY <2>1, <2>3, <3>1, FormWithinLimits
  <2>4. ASSUME pc = "validate", cur <= Len(plan)
        PROVE  validate(plan[cur].executor) \/ ExceedsLimits(plan[cur].executor)
    <3>1. PlanIs /\ Created
      BY <1>1, <2>4 DEF StartInv, Planned, Places
    <3>2. GoodPlan
      BY <3>1, PlanGood
    <3>3. Len(plan) \in Nat /\ cur \in 1..(Len(plan) + 1)
      BY <3>1, <3>2 DEF GoodPlan, Created
    <3>4. cur \in 1..Len(plan)
      BY <2>4, <3>3
    <3>5. GoodExecutor(plan[cur].executor)
      BY <3>2, <3>4 DEF GoodPlan
    <3>6. QED
      BY <3>5, GoodIsValid
  <2>5. QED
    BY <2>2, <2>3, <2>4, Zenon DEF AcceptedStaysAccepted
<1>2. QED
  BY <1>1, EngineInvariant, PTL
=============================================================================
