-------------------------- MODULE RampingVUProofs ---------------------------
(***************************************************************************)
(* Proofs about RampingVU and the stage arithmetic of RampPlan, for plans  *)
(* with any number of stages, of any whole number of microseconds and any  *)
(* targets, and any tick, graceful times and start.                        *)
(***************************************************************************)
EXTENDS RampingVU, NaturalsInduction, SequenceTheorems, FiniteSetTheorems, TLAPS

\* A plan that validate accepts, with its stages in whole microseconds.
StageSet == [duration : Nat, target : Nat]
IsPlan(p) == /\ ValidPlan(p) /\ p.stages \in Seq(StageSet)
             /\ \A j \in 1..Len(p.stages) : p.stages[j].duration % MicroTicks = 0

-----------------------------------------------------------------------------
(* Natural numbers *)

\* A set of natural numbers has a least one.
LEMMA LeastNatural ==
    ASSUME NEW T \in SUBSET Nat, T # {}
    PROVE  \E m \in T : \A n \in T : m <= n
<1> DEFINE R == {ss \in Nat \X Nat : ss[1] < ss[2]}
<1>1. IsWellFoundedOn(R, Nat)
  BY NatLessThanWellFounded, Zenon DEF OpToRel
<1>2. PICK m \in T : \A n \in T : ~(<<n, m>> \in R)
  <2> HIDE DEF R
  <2> QED BY <1>1, WFMin, Zenon
<1>3. \A n \in T : ~(n < m)
  BY <1>2
<1>4. QED
  BY <1>3

\* Induction up to a bound, on a set.
LEMMA UpTo ==
    ASSUME NEW N \in Nat, NEW S, 0 \in S, \A k \in 0..(N - 1) : k \in S => k + 1 \in S
    PROVE  \A k \in 0..N : k \in S
<1> DEFINE T == {k \in 0..N : k \notin S}
<1>1. SUFFICES ASSUME T # {} PROVE FALSE
  OBVIOUS
<1>2. T \in SUBSET Nat
  OBVIOUS
<1>3. PICK m \in T : \A n \in T : m <= n
  <2> HIDE DEF T
  <2> QED BY <1>1, <1>2, LeastNatural
<1>4. m \in 1..N /\ m \notin S
  BY <1>3
<1>5. m - 1 \in 0..(N - 1) /\ m - 1 \in S
  BY <1>3, <1>4
<1>6. (m - 1) + 1 \in S /\ (m - 1) + 1 = m
  BY <1>4, <1>5
<1>7. QED
  BY <1>4, <1>6

\* The least of a set of natural numbers.
LEMMA MinIsLeast ==
    ASSUME NEW T \in SUBSET Nat, T # {}
    PROVE  Min(T) \in T /\ \A n \in T : Min(T) <= n
<1>1. \E m \in T : \A n \in T : m <= n
  BY LeastNatural
<1>2. QED
  BY <1>1, Zenon DEF Min

\* What division rounds to.
LEMMA DivIsFloor ==
    ASSUME NEW a \in Int, NEW b \in Nat \ {0}, NEW q \in Int
    PROVE  a \div b \in Int /\ (q <= a \div b <=> q * b <= a)
  OBVIOUS

\* And ceilDiv.
LEMMA CeilDivIsCeil ==
    ASSUME NEW a \in Int, NEW b \in Nat \ {0}, NEW q \in Int
    PROVE  CeilDiv(a, b) \in Int /\ (CeilDiv(a, b) <= q <=> a <= q * b)
  BY DEF CeilDiv

\* A whole number of microseconds.
LEMMA Rounded ==
    ASSUME NEW x \in Nat
    PROVE  /\ Micros(x) \in Nat /\ x - (x % MicroTicks) = Micros(x) * MicroTicks
           /\ Micros(x) * MicroTicks <= x /\ x < Micros(x) * MicroTicks + MicroTicks
  BY MicroTicksAssumption DEF Micros

\* Factors cancel.
LEMMA Cancel1 ==
    ASSUME NEW a \in Int, NEW b \in Int, NEW c \in Nat \ {0}
    PROVE  a * c >= b * c <=> a >= b
  OBVIOUS

-----------------------------------------------------------------------------
(* The stages *)

\* The sum of the durations of the first stages exists.
LEMMA SumExists ==
    ASSUME NEW N \in Nat, NEW dur \in [1..N -> Nat]
    PROVE  \E f \in [0..N -> Nat] : f = [n \in 0..N |-> IF n = 0 THEN 0 ELSE f[n-1] + dur[n]]
<1> DEFINE S == {k \in 0..N : \E f \in [0..k -> Nat] : f[0] = 0 /\ \A n \in 1..k : f[n] = f[n-1] + dur[n]}
<1>1. 0 \in S
  <2> DEFINE g == [n \in 0..0 |-> 0]
  <2>1. g \in [0..0 -> Nat] /\ g[0] = 0 /\ \A n \in 1..0 : g[n] = g[n-1] + dur[n]
    OBVIOUS
  <2> HIDE DEF g
  <2>2. \E f \in [0..0 -> Nat] : f[0] = 0 /\ \A n \in 1..0 : f[n] = f[n-1] + dur[n]
    BY <2>1
  <2>3. QED
    BY <2>2
<1>2. ASSUME NEW k \in 0..(N - 1), k \in S PROVE k + 1 \in S
  <2>1. PICK f \in [0..k -> Nat] : f[0] = 0 /\ \A n \in 1..k : f[n] = f[n-1] + dur[n]
    BY <1>2
  <2> DEFINE g == [n \in 0..(k + 1) |-> IF n <= k THEN f[n] ELSE f[k] + dur[k + 1]]
  <2>2. k + 1 \in 1..N /\ k \in 0..k /\ f[k] + dur[k + 1] \in Nat
    BY <2>1
  <2>3. g \in [0..(k + 1) -> Nat] /\ g[0] = 0
    BY <2>1, <2>2
  <2>4. ASSUME NEW n \in 1..(k + 1) PROVE g[n] = g[n - 1] + dur[n]
    <3>1. CASE n = k + 1
      BY <2>2, <3>1
    <3>2. CASE n \in 1..k
      BY <2>1, <3>2
    <3>3. QED
      BY <3>1, <3>2
  <2> HIDE DEF g
  <2>5. \E h \in [0..(k + 1) -> Nat] : h[0] = 0 /\ \A n \in 1..(k + 1) : h[n] = h[n-1] + dur[n]
    BY <2>3, <2>4
  <2>6. k + 1 \in 0..N
    BY <2>2
  <2>7. QED
    BY <2>5, <2>6, Zenon
<1>3. N \in S
  <2> HIDE DEF S
  <2>1. \A k \in 0..N : k \in S
    BY <1>1, <1>2, UpTo
  <2>2. QED
    BY <2>1
<1>4. PICK f \in [0..N -> Nat] : f[0] = 0 /\ \A n \in 1..N : f[n] = f[n-1] + dur[n]
  BY <1>3
<1>5. f = [n \in 0..N |-> IF n = 0 THEN 0 ELSE f[n-1] + dur[n]]
  BY <1>4
<1>6. QED
  BY <1>5

\* Offsets grow by the durations of the stages.
LEMMA ElapsedIs ==
    ASSUME NEW p, p.stages \in Seq(StageSet)
    PROVE  /\ Len(p.stages) \in Nat /\ Elapsed(p) \in [0..Len(p.stages) -> Nat]
           /\ Elapsed(p)[0] = 0
           /\ \A n \in 1..Len(p.stages) : Elapsed(p)[n] = Elapsed(p)[n-1] + p.stages[n].duration
<1> DEFINE N == Len(p.stages)
           dur == [n \in 1..N |-> p.stages[n].duration]
<1>1. N \in Nat /\ \A n \in 1..N : p.stages[n].duration \in Nat
  <2>1. N \in Nat /\ \A n \in 1..N : p.stages[n] \in StageSet
    BY LenProperties, ElementOfSeq
  <2>2. QED
    BY <2>1 DEF StageSet
<1>2. dur \in [1..N -> Nat]
  BY <1>1
<1>3. PICK f \in [0..N -> Nat] : f = [n \in 0..N |-> IF n = 0 THEN 0 ELSE f[n-1] + dur[n]]
  <2> HIDE DEF dur, N
  <2> QED BY <1>1, <1>2, SumExists
<1>4. f = [n \in 0..N |-> IF n = 0 THEN 0 ELSE f[n-1] + p.stages[n].duration]
  <2>1. \A n \in 0..N : n # 0 => dur[n] = p.stages[n].duration
    BY <1>1
  <2> HIDE DEF N, dur
  <2>2. QED
    BY <1>3, <2>1
<1>5. Elapsed(p) = [n \in 0..N |-> IF n = 0 THEN 0 ELSE Elapsed(p)[n-1] + p.stages[n].duration]
  BY <1>4, Zenon DEF Elapsed
<1>6. /\ Elapsed(p)[0] = 0
      /\ \A n \in 1..N : Elapsed(p)[n] = Elapsed(p)[n-1] + p.stages[n].duration
  <2> DEFINE e == Elapsed(p)
  <2>1. \A n \in 0..N : e[n] = IF n = 0 THEN 0 ELSE e[n-1] + p.stages[n].duration
    BY <1>1, <1>5
  <2> HIDE DEF e
  <2>2. e[0] = 0 /\ \A n \in 1..N : e[n] = e[n-1] + p.stages[n].duration
    BY <1>1, <2>1
  <2>3. QED
    BY <2>2 DEF e
<1>7. \A k \in 0..N : Elapsed(p)[k] \in Nat
  <2> DEFINE S == {k \in 0..N : Elapsed(p)[k] \in Nat}
  <2>1. 0 \in S
    BY <1>1, <1>6
  <2>2. \A k \in 0..(N - 1) : k \in S => k + 1 \in S
    <3> TAKE k \in 0..(N - 1)
    <3>1. k + 1 \in 1..N /\ (k + 1) - 1 = k
      BY <1>1
    <3>2. Elapsed(p)[k + 1] = Elapsed(p)[k] + p.stages[k + 1].duration /\ p.stages[k + 1].duration \in Nat
      BY <1>1, <1>6, <3>1
    <3>3. QED
      BY <3>1, <3>2
  <2>3. \A k \in 0..N : k \in S
    <3> HIDE DEF S, N
    <3> QED BY <1>1, <2>1, <2>2, UpTo
  <2>4. QED
    BY <2>3
<1>8. Elapsed(p) \in [0..N -> Nat]
  BY <1>5, <1>7
<1>9. QED
  BY <1>1, <1>6, <1>8

\* Later stages start later.
LEMMA ElapsedGrows ==
    ASSUME NEW p, p.stages \in Seq(StageSet), NEW a \in 0..Len(p.stages), NEW b \in 0..Len(p.stages), a <= b
    PROVE  Elapsed(p)[a] <= Elapsed(p)[b]
<1> DEFINE N == Len(p.stages)
           S == {k \in 0..N : k >= a => Elapsed(p)[a] <= Elapsed(p)[k]}
<1>1. /\ N \in Nat /\ \A k \in 0..N : Elapsed(p)[k] \in Nat
      /\ \A n \in 1..N : Elapsed(p)[n] = Elapsed(p)[n-1] + p.stages[n].duration /\ p.stages[n].duration \in Nat
  <2>1. \A n \in 1..N : p.stages[n] \in StageSet
    BY ElementOfSeq
  <2>2. QED
    BY <2>1, ElapsedIs DEF StageSet
<1>2. 0 \in S
  BY <1>1
<1>3. ASSUME NEW k \in 0..(N - 1), k \in S PROVE k + 1 \in S
  <2>1. /\ k + 1 \in 1..N /\ k \in 0..N /\ (k + 1) - 1 = k
    BY <1>1
  <2>2. /\ Elapsed(p)[k + 1] = Elapsed(p)[k] + p.stages[k + 1].duration /\ p.stages[k + 1].duration \in Nat
        /\ Elapsed(p)[a] \in Nat /\ Elapsed(p)[k] \in Nat
    BY <1>1, <2>1
  <2>3. QED
    BY <1>3, <2>1, <2>2
<1>4. b \in S
  <2> HIDE DEF S, N
  <2>1. \A k \in 0..N : k \in S
    BY <1>1, <1>2, <1>3, UpTo
  <2>2. QED
    BY <2>1 DEF N
<1>5. QED
  BY <1>1, <1>4

\* Where a stage starts and ends.
LEMMA Segments ==
    ASSUME NEW p, IsPlan(p)
    PROVE  /\ Len(p.stages) \in Nat \ {0} /\ StageIds(p) = 1..Len(p.stages)
           /\ PlanLength(p) \in Nat \ {0}
           /\ \A j \in 1..Len(p.stages) :
                /\ SegStart(p, j) \in Nat /\ SegEnd(p, j) \in Nat /\ SegEnd(p, j) <= PlanLength(p)
                /\ SegEnd(p, j) = SegStart(p, j) + p.stages[j].duration
                /\ p.stages[j].duration \in Nat /\ p.stages[j].target \in Nat /\ FromVUs(p, j) \in Nat
           /\ \A j, k \in 1..Len(p.stages) : j < k => SegEnd(p, j) <= SegStart(p, k)
<1> DEFINE N == Len(p.stages)
<1>1. p.stages \in Seq(StageSet) /\ p.stages # <<>> /\ p.startVUs \in Nat /\ PlanLength(p) > 0
  BY DEF IsPlan, ValidPlan
<1>2. N \in Nat /\ N # 0 /\ DOMAIN p.stages = 1..N /\ \A j \in 1..N : p.stages[j] \in StageSet
  BY <1>1, EmptySeq, LenProperties, ElementOfSeq
<1>3. \A j \in 1..N : p.stages[j].duration \in Nat /\ p.stages[j].target \in Nat
  BY <1>2 DEF StageSet
<1>4. /\ \A k \in 0..N : Elapsed(p)[k] \in Nat
      /\ \A n \in 1..N : Elapsed(p)[n] = Elapsed(p)[n-1] + p.stages[n].duration
  BY <1>1, ElapsedIs
<1>5. ASSUME NEW j \in 1..N
      PROVE  /\ SegStart(p, j) = Elapsed(p)[j-1] /\ SegEnd(p, j) = Elapsed(p)[j]
             /\ SegEnd(p, j) = SegStart(p, j) + p.stages[j].duration
             /\ SegStart(p, j) \in Nat /\ SegEnd(p, j) \in Nat
  <2>1. j - 1 \in 0..N /\ j \in 0..N
    BY <1>2
  <2>2. QED
    BY <1>4, <2>1 DEF SegStart, SegEnd
<1>6. PlanLength(p) = Elapsed(p)[N] /\ PlanLength(p) \in Nat
  <2>1. N \in 1..N
    BY <1>2
  <2>2. QED
    BY <1>5, <2>1 DEF PlanLength
<1>7. \A j \in 1..N : SegEnd(p, j) <= PlanLength(p)
  <2> TAKE j \in 1..N
  <2>1. j \in 0..N /\ N \in 0..N /\ j <= N
    BY <1>2
  <2>2. QED
    BY <1>1, <1>5, <1>6, <2>1, ElapsedGrows
<1>8. ASSUME NEW j \in 1..N, NEW k \in 1..N, j < k PROVE SegEnd(p, j) <= SegStart(p, k)
  <2>1. j \in 0..N /\ k - 1 \in 0..N /\ j <= k - 1
    BY <1>2, <1>8
  <2>2. QED
    BY <1>1, <1>5, <2>1, ElapsedGrows
<1>9. \A j \in 1..N : FromVUs(p, j) \in Nat
  <2> TAKE j \in 1..N
  <2>1. CASE j = 1
    BY <1>1, <2>1 DEF FromVUs
  <2>2. CASE j # 1
    <3>1. j - 1 \in 1..N
      BY <1>2, <2>2
    <3>2. QED
      BY <1>3, <2>2, <3>1 DEF FromVUs
  <2>3. QED
    BY <2>1, <2>2
<1>10. QED
  BY <1>1, <1>2, <1>3, <1>5, <1>6, <1>7, <1>8, <1>9 DEF StageIds

\* Every tick of the plan lies in one stage.
LEMMA InOneStage ==
    ASSUME NEW p, IsPlan(p), NEW u \in 0..(PlanLength(p) - 1)
    PROVE  /\ \E j \in 1..Len(p.stages) : SegStart(p, j) <= u /\ u < SegEnd(p, j)
           /\ \A j, k \in 1..Len(p.stages) :
                SegStart(p, j) <= u /\ u < SegEnd(p, j) /\ SegStart(p, k) <= u /\ u < SegEnd(p, k) => j = k
<1> DEFINE N == Len(p.stages)
           T == {k \in 1..N : u < SegEnd(p, k)}
<1>1. /\ N \in Nat \ {0} /\ PlanLength(p) \in Nat
      /\ \A j \in 1..N : /\ SegStart(p, j) \in Nat /\ SegEnd(p, j) \in Nat
                         /\ SegEnd(p, j) = SegStart(p, j) + p.stages[j].duration
      /\ \A j, k \in 1..N : j < k => SegEnd(p, j) <= SegStart(p, k)
  BY Segments
<1>2. N \in T
  <2>1. PlanLength(p) = SegEnd(p, N)
    BY DEF PlanLength
  <2>2. QED
    BY <1>1, <2>1
<1>3. PICK j \in T : \A n \in T : j <= n
  <2>1. T \in SUBSET Nat /\ T # {}
    BY <1>1, <1>2
  <2> HIDE DEF T
  <2>2. QED
    BY <2>1, LeastNatural
<1>4. SegStart(p, j) <= u
  <2>1. CASE j = 1
    <3>1. SegStart(p, 1) = Elapsed(p)[0] /\ Elapsed(p)[0] = 0
      BY ElapsedIs DEF SegStart, IsPlan
    <3>2. QED
      BY <1>1, <2>1, <3>1
  <2>2. CASE j # 1
    <3>1. j - 1 \in 1..N /\ j \in 1..N
      BY <1>1, <1>3, <2>2
    <3>2. ~(u < SegEnd(p, j - 1))
      BY <1>1, <1>3, <3>1
    <3>3. SegStart(p, j) = SegEnd(p, j - 1)
      <4>1. SegEnd(p, j - 1) = Elapsed(p)[(j - 1) - 1] + p.stages[j - 1].duration
        BY DEF SegEnd, SegStart
      <4>2. Elapsed(p)[j - 1] = Elapsed(p)[(j - 1) - 1] + p.stages[j - 1].duration
        BY <3>1, ElapsedIs DEF IsPlan
      <4>3. QED
        BY <4>1, <4>2 DEF SegStart
    <3>4. QED
      BY <1>1, <3>1, <3>2, <3>3
  <2>3. QED
    BY <2>1, <2>2
<1>5. ASSUME NEW k \in 1..N, NEW l \in 1..N, k < l, u < SegEnd(p, k), SegStart(p, l) <= u PROVE FALSE
  BY <1>1, <1>5
<1>6. \A k, l \in 1..N : SegStart(p, k) <= u /\ u < SegEnd(p, k) /\ SegStart(p, l) <= u /\ u < SegEnd(p, l) => k = l
  BY <1>1, <1>5
<1>7. QED
  BY <1>3, <1>4, <1>6

-----------------------------------------------------------------------------
(* One stage *)

\* The line from one number of VUs to another in d microseconds is at the level
\* after q of them.
AtLevel(from, to, level, d, q) == from * d + (to - from) * q >= level * d

\* Where the line rises, or falls.
LEMMA LineMonotone ==
    ASSUME NEW from \in Nat, NEW to \in Nat, NEW level \in Nat, NEW d \in Nat, NEW q \in Nat, NEW r \in Nat, q <= r
    PROVE  /\ to >= from /\ AtLevel(from, to, level, d, q) => AtLevel(from, to, level, d, r)
           /\ to <= from /\ AtLevel(from, to, level, d, r) => AtLevel(from, to, level, d, q)
<1>1. to >= from => (to - from) * q <= (to - from) * r
  OBVIOUS
<1>2. to <= from => (to - from) * q >= (to - from) * r
  OBVIOUS
<1>3. QED
  BY <1>1, <1>2 DEF AtLevel

\* At its end the line is at its target.
LEMMA LineEnds ==
    ASSUME NEW from \in Nat, NEW to \in Nat, NEW level \in Nat, NEW d \in Nat \ {0}
    PROVE  /\ AtLevel(from, to, level, d, d) <=> to >= level
           /\ AtLevel(from, to, level, d, 0) <=> from >= level
<1>1. from * d + (to - from) * d = to * d /\ from * d + (to - from) * 0 = from * d
  OBVIOUS
<1>2. (to * d >= level * d <=> to >= level) /\ (from * d >= level * d <=> from >= level)
  BY Cancel1
<1>3. QED
  BY <1>1, <1>2 DEF AtLevel

\* The crossing of a rising line is the first microsecond at which it is at
\* the level.
LEMMA Rising ==
    ASSUME NEW from \in Nat, NEW to \in Nat, NEW level \in Nat, NEW d \in Nat \ {0}, from < to, NEW q \in Int
    PROVE  /\ CeilDiv((level - from) * d, to - from) \in Int
           /\ CeilDiv((level - from) * d, to - from) <= q <=> AtLevel(from, to, level, d, q)
<1> DEFINE a == (level - from) * d
           b == to - from
<1>1. a \in Int /\ b \in Nat \ {0}
  OBVIOUS
<1>2. CeilDiv(a, b) \in Int /\ (CeilDiv(a, b) <= q <=> a <= q * b)
  <2> HIDE DEF a, b
  <2> QED BY <1>1, CeilDivIsCeil
<1>3. a <= q * b <=> from * d + (to - from) * q >= level * d
  OBVIOUS
<1>4. QED
  BY <1>2, <1>3 DEF AtLevel

\* That of a falling line is the first at which it is below.
LEMMA Falling ==
    ASSUME NEW from \in Nat, NEW to \in Nat, NEW level \in Nat, NEW d \in Nat \ {0}, to < from, NEW q \in Int
    PROVE  /\ ((from - level) * d) \div (from - to) + 1 \in Int
           /\ ((from - level) * d) \div (from - to) + 1 <= q <=> ~AtLevel(from, to, level, d, q)
<1> DEFINE a == (from - level) * d
           b == from - to
<1>1. a \in Int /\ b \in Nat \ {0}
  OBVIOUS
<1>2. a \div b \in Int /\ (q <= a \div b <=> q * b <= a)
  <2> HIDE DEF a, b
  <2> QED BY <1>1, DivIsFloor
<1>3. q * b <= a <=> from * d + (to - from) * q >= level * d
  OBVIOUS
<1>4. a \div b + 1 <= q <=> ~(q <= a \div b)
  <2> HIDE DEF a, b
  <2> QED BY <1>2
<1>5. QED
  BY <1>2, <1>3, <1>4 DEF AtLevel

\* The microsecond that CrossingMicro gives: up to the level, and down from it.
UpMicro(from, to, level, d) == IF to >= level THEN CeilDiv((level - from) * d, to - from) ELSE -1
DownMicro(from, to, level, d) ==
    IF to < level THEN IF from = to THEN Panic ELSE ((from - level) * d) \div (from - to) + 1 ELSE -1

\* From a microsecond at which the line is below the level, the crossing is the
\* first at which it is not; without one it stays below in this stage.
LEMMA CrossingUp ==
    ASSUME NEW from \in Nat, NEW to \in Nat, NEW level \in Nat, NEW d \in Nat \ {0}, NEW x \in 0..(d - 1),
           ~AtLevel(from, to, level, d, x),
           NEW dx, dx = UpMicro(from, to, level, d)
    PROVE  /\ dx \in Int /\ dx # Panic
           /\ dx \in 0..(d - 1) => /\ x < dx /\ AtLevel(from, to, level, d, dx)
                                   /\ \A q \in x..(dx - 1) : ~AtLevel(from, to, level, d, q)
           /\ dx \notin 0..(d - 1) => \A q \in x..(d - 1) : ~AtLevel(from, to, level, d, q)
<1>1. x \in Nat /\ x <= d /\ d \in Nat
  OBVIOUS
<1>2. CASE to >= level
  <2>1. from < to
    <3>1. SUFFICES ASSUME to <= from PROVE FALSE
      OBVIOUS
    <3>2. AtLevel(from, to, level, d, d)
      BY <1>2, LineEnds
    <3>3. AtLevel(from, to, level, d, x)
      BY <1>1, <3>1, <3>2, LineMonotone
    <3>4. QED
      BY <3>3
  <2>2. dx = CeilDiv((level - from) * d, to - from)
    BY <1>2, <2>1 DEF UpMicro
  <2>3. dx \in Int /\ \A q \in Int : dx <= q <=> AtLevel(from, to, level, d, q)
    <3>1. dx \in Int
      BY <2>1, <2>2, Rising
    <3>2. ASSUME NEW q \in Int PROVE dx <= q <=> AtLevel(from, to, level, d, q)
      BY <2>1, <2>2, Rising
    <3>3. QED
      BY <3>1, <3>2
  <2>4. ~(dx <= x)
    BY <1>1, <2>3
  <2>5. x < dx /\ dx # Panic
    BY <1>1, <2>3, <2>4 DEF Panic
  <2>6. AtLevel(from, to, level, d, dx)
    BY <2>3
  <2>7. \A q \in Int : q < dx => ~AtLevel(from, to, level, d, q)
    BY <2>3
  <2>8. dx \notin 0..(d - 1) => \A q \in x..(d - 1) : q < dx
    BY <1>1, <2>3, <2>5
  <2>9. QED
    BY <1>1, <2>3, <2>5, <2>6, <2>7, <2>8
<1>3. CASE to < level
  <2>1. dx = -1
    BY <1>3 DEF UpMicro
  <2>2. ~AtLevel(from, to, level, d, d)
    BY <1>3, LineEnds
  <2>3. ASSUME NEW q \in x..(d - 1) PROVE ~AtLevel(from, to, level, d, q)
    <3>1. q \in Nat /\ x <= q /\ q <= d
      BY <1>1
    <3>2. CASE to >= from
      BY <1>1, <2>2, <3>1, <3>2, LineMonotone
    <3>3. CASE to <= from
      BY <1>1, <2>2, <3>1, <3>3, LineMonotone
    <3>4. QED
      BY <3>2, <3>3
  <2>4. QED
    BY <2>1, <2>3 DEF Panic
<1>4. QED
  BY <1>2, <1>3

\* And from one at which it is at the level, the first at which it is below.
LEMMA CrossingDown ==
    ASSUME NEW from \in Nat, NEW to \in Nat, NEW level \in Nat, NEW d \in Nat \ {0}, NEW x \in 0..(d - 1),
           AtLevel(from, to, level, d, x),
           NEW dx, dx = DownMicro(from, to, level, d)
    PROVE  /\ dx \in Int /\ dx # Panic
           /\ dx \in 0..(d - 1) => /\ x < dx /\ ~AtLevel(from, to, level, d, dx)
                                   /\ \A q \in x..(dx - 1) : AtLevel(from, to, level, d, q)
           /\ dx \notin 0..(d - 1) => \A q \in x..(d - 1) : AtLevel(from, to, level, d, q)
<1>1. x \in Nat /\ x <= d /\ d \in Nat
  OBVIOUS
<1>2. CASE to < level
  <2>1. to < from
    <3>1. SUFFICES ASSUME from <= to PROVE FALSE
      OBVIOUS
    <3>2. ~AtLevel(from, to, level, d, d)
      BY <1>2, LineEnds
    <3>3. ~AtLevel(from, to, level, d, x)
      BY <1>1, <3>1, <3>2, LineMonotone
    <3>4. QED
      BY <3>3
  <2>2. dx = ((from - level) * d) \div (from - to) + 1
    BY <1>2, <2>1 DEF DownMicro
  <2>3. dx \in Int /\ \A q \in Int : dx <= q <=> ~AtLevel(from, to, level, d, q)
    <3>1. dx \in Int
      BY <2>1, <2>2, Falling
    <3>2. ASSUME NEW q \in Int PROVE dx <= q <=> ~AtLevel(from, to, level, d, q)
      BY <2>1, <2>2, Falling
    <3>3. QED
      BY <3>1, <3>2
  <2>4. ~(dx <= x)
    BY <1>1, <2>3
  <2>5. x < dx /\ dx # Panic
    BY <1>1, <2>3, <2>4 DEF Panic
  <2>6. ~AtLevel(from, to, level, d, dx)
    BY <2>3
  <2>7. \A q \in Int : q < dx => AtLevel(from, to, level, d, q)
    BY <2>3
  <2>8. dx \notin 0..(d - 1) => \A q \in x..(d - 1) : q < dx
    BY <1>1, <2>3, <2>5
  <2>9. QED
    BY <1>1, <2>3, <2>5, <2>6, <2>7, <2>8
<1>3. CASE to >= level
  <2>1. dx = -1
    BY <1>3 DEF DownMicro
  <2>2. AtLevel(from, to, level, d, d)
    BY <1>3, LineEnds
  <2>3. ASSUME NEW q \in x..(d - 1) PROVE AtLevel(from, to, level, d, q)
    <3>1. q \in Nat /\ x <= q /\ q <= d
      BY <1>1
    <3>2. CASE to >= from
      BY <1>1, <2>2, <3>1, <3>2, LineMonotone
    <3>3. CASE to <= from
      BY <1>1, <2>2, <3>1, <3>3, LineMonotone
    <3>4. QED
      BY <3>2, <3>3
  <2>4. QED
    BY <2>1, <2>3 DEF Panic
<1>4. QED
  BY <1>2, <1>3

-----------------------------------------------------------------------------
(* Ticks of a stage *)

\* The line of stage j is at the level of VU v in the microsecond of tick u.
Line(p, j, v, u) == AtLevel(FromVUs(p, j), p.stages[j].target, v + 1, Micros(p.stages[j].duration),
                            Micros(u - SegStart(p, j)))

\* The larger of two.
LEMMA MaxOfTwo ==
    ASSUME NEW a \in Int, NEW b \in Int
    PROVE  Max({a, b}) \in Int /\ Max({a, b}) = IF a >= b THEN a ELSE b
<1> DEFINE m == IF a >= b THEN a ELSE b
<1>1. m \in {a, b} /\ \A y \in {a, b} : m >= y
  OBVIOUS
<1>2. Max({a, b}) \in {a, b} /\ \A y \in {a, b} : Max({a, b}) >= y
  <2> HIDE DEF m
  <2> QED BY <1>1, Zenon DEF Max
<1>3. QED
  BY <1>2

\* Stages in whole microseconds.
LEMMA WholeStage ==
    ASSUME NEW p, IsPlan(p), NEW j \in 1..Len(p.stages)
    PROVE  /\ Micros(p.stages[j].duration) \in Nat
           /\ p.stages[j].duration = Micros(p.stages[j].duration) * MicroTicks
           /\ p.stages[j].duration > 0 => Micros(p.stages[j].duration) \in Nat \ {0}
<1> DEFINE D == p.stages[j].duration
<1>1. D \in Nat /\ D % MicroTicks = 0
  BY Segments DEF IsPlan
<1> HIDE DEF D
<1>2. Micros(D) \in Nat /\ D = Micros(D) * MicroTicks
  BY <1>1, Rounded
<1>3. D > 0 => Micros(D) # 0
  BY <1>2, MicroTicksAssumption
<1>4. QED
  BY <1>2, <1>3 DEF D

\* The microseconds of a stage in their order.
LEMMA MicrosInStage ==
    ASSUME NEW d \in Nat, NEW x \in Nat, NEW y \in Nat
    PROVE  /\ x <= y => Micros(x) <= Micros(y)
           /\ x < d * MicroTicks <=> Micros(x) < d
           /\ Micros(d * MicroTicks) = d /\ d * MicroTicks \in Nat
<1>1. MicroTicks \in Nat \ {0}
  BY MicroTicksAssumption
<1>2. /\ Micros(x) \in Nat /\ Micros(x) * MicroTicks <= x /\ x < Micros(x) * MicroTicks + MicroTicks
      /\ Micros(y) \in Nat /\ Micros(y) * MicroTicks <= y /\ y < Micros(y) * MicroTicks + MicroTicks
  BY Rounded
<1>3. x < d * MicroTicks <=> Micros(x) < d
  <2>1. ASSUME Micros(x) < d PROVE x < d * MicroTicks
    <3>1. (Micros(x) + 1) * MicroTicks <= d * MicroTicks
      BY <1>1, <1>2, <2>1
    <3>2. QED
      BY <1>1, <1>2, <3>1
  <2>2. ASSUME d <= Micros(x) PROVE d * MicroTicks <= x
    <3>1. d * MicroTicks <= Micros(x) * MicroTicks
      BY <1>1, <1>2, <2>2
    <3>2. QED
      BY <1>1, <1>2, <3>1
  <2>3. QED
    BY <1>1, <1>2, <2>1, <2>2
<1>4. x <= y => Micros(x) <= Micros(y)
  <2>1. SUFFICES ASSUME x <= y, Micros(y) + 1 <= Micros(x) PROVE FALSE
    BY <1>2
  <2>2. (Micros(y) + 1) * MicroTicks <= Micros(x) * MicroTicks
    BY <1>1, <1>2, <2>1
  <2>3. QED
    BY <1>1, <1>2, <2>1, <2>2
<1>5. d * MicroTicks \in Nat /\ (d * MicroTicks) \div MicroTicks = d
  BY <1>1
<1>6. QED
  BY <1>3, <1>4, <1>5 DEF Micros

\* A VU is active where the line of the stage says so.
LEMMA ActiveIsLine ==
    ASSUME NEW p, IsPlan(p), NEW v \in Nat, NEW j \in 1..Len(p.stages), NEW u \in Nat,
           SegStart(p, j) <= u, u < SegEnd(p, j)
    PROVE  Active(p, v, u) <=> Line(p, j, v, u)
<1> DEFINE Cond(k) == FromVUs(p, k) * p.stages[k].duration
                        + (p.stages[k].target - FromVUs(p, k))
                            * ((u - SegStart(p, k)) - ((u - SegStart(p, k)) % MicroTicks))
                        >= (v + 1) * p.stages[k].duration
<1>1. /\ StageIds(p) = 1..Len(p.stages) /\ PlanLength(p) \in Nat
      /\ \A k \in 1..Len(p.stages) : SegStart(p, k) \in Nat /\ SegEnd(p, k) \in Nat /\ SegEnd(p, k) <= PlanLength(p)
  BY Segments
<1>2. Active(p, v, u) <=> \E k \in 1..Len(p.stages) : u - SegStart(p, k) >= 0 /\ u < SegEnd(p, k) /\ Cond(k)
  BY <1>1 DEF Active
<1>3. \A k \in 1..Len(p.stages) : u - SegStart(p, k) >= 0 /\ u < SegEnd(p, k) => k = j
  <2>1. u \in 0..(PlanLength(p) - 1)
    BY <1>1
  <2> HIDE DEF Cond
  <2>2. ASSUME NEW k \in 1..Len(p.stages), u - SegStart(p, k) >= 0, u < SegEnd(p, k) PROVE k = j
    <3>1. SegStart(p, k) <= u
      BY <1>1, <2>2
    <3>2. QED
      BY <2>1, <2>2, <3>1, InOneStage
  <2>3. QED
    BY <2>2
<1>4. u - SegStart(p, j) \in Nat
  BY <1>1
<1>5. Active(p, v, u) <=> Cond(j)
  <2> HIDE DEF Cond
  <2> QED BY <1>2, <1>3, <1>4
<1>6. Cond(j) <=> Line(p, j, v, u)
  <2> DEFINE f == FromVUs(p, j)
             t == p.stages[j].target
             D == p.stages[j].duration
             x == u - SegStart(p, j)
  <2>1. /\ f \in Nat /\ t \in Nat /\ x \in Nat /\ MicroTicks \in Nat \ {0}
        /\ Micros(D) \in Nat /\ D = Micros(D) * MicroTicks
        /\ Micros(x) \in Nat /\ x - (x % MicroTicks) = Micros(x) * MicroTicks
    <3>1. f \in Nat /\ t \in Nat /\ x \in Nat
      BY <1>4, Segments
    <3>2. Micros(D) \in Nat /\ D = Micros(D) * MicroTicks
      BY WholeStage
    <3>3. Micros(x) \in Nat /\ x - (x % MicroTicks) = Micros(x) * MicroTicks
      BY <3>1, Rounded
    <3>4. QED
      BY <3>1, <3>2, <3>3, MicroTicksAssumption
  <2>2. Cond(j) <=> f * D + (t - f) * (x - (x % MicroTicks)) >= (v + 1) * D
    OBVIOUS
  <2>3. Line(p, j, v, u) <=> f * Micros(D) + (t - f) * Micros(x) >= (v + 1) * Micros(D)
    BY DEF Line, AtLevel
  <2> HIDE DEF f, t, D, x, Cond
  <2> DEFINE m == Micros(D)
             q == Micros(x)
  <2>4. /\ f * (m * MicroTicks) + (t - f) * (q * MicroTicks) = (f * m + (t - f) * q) * MicroTicks
        /\ (v + 1) * (m * MicroTicks) = ((v + 1) * m) * MicroTicks
        /\ f * m + (t - f) * q \in Int /\ (v + 1) * m \in Int
    <3>1. m \in Nat /\ q \in Nat
      BY <2>1
    <3> HIDE DEF m, q
    <3>2. QED
      BY <2>1, <3>1
  <2>5. (f * m + (t - f) * q) * MicroTicks >= ((v + 1) * m) * MicroTicks <=> f * m + (t - f) * q >= (v + 1) * m
    <3> HIDE DEF m, q
    <3> QED BY <2>1, <2>4, Cancel1
  <2>6. /\ f * D + (t - f) * (x - (x % MicroTicks)) = (f * m + (t - f) * q) * MicroTicks
        /\ (v + 1) * D = ((v + 1) * m) * MicroTicks
    BY <2>1, <2>4
  <2>7. QED
    BY <2>2, <2>3, <2>5, <2>6
<1>7. QED
  BY <1>5, <1>6

-----------------------------------------------------------------------------
(* What a stage finds *)

\* Within stage j, r is the first tick from t on at which VU v is active, or
\* NoOffset if it has none.
OnInStage(p, j, v, t, r) ==
    \/ /\ r = NoOffset
       /\ \A u \in Nat : t <= u /\ SegStart(p, j) <= u /\ u < SegEnd(p, j) => ~Line(p, j, v, u)
    \/ /\ r \in Nat /\ t <= r /\ SegStart(p, j) <= r /\ r < SegEnd(p, j) /\ Line(p, j, v, r)
       /\ \A u \in Nat : t <= u /\ SegStart(p, j) <= u /\ u < r => ~Line(p, j, v, u)

\* InStage looking for when VU v is active.
OnOffset(p, j, v, t) ==
    LET from == FromVUs(p, j)
        to   == p.stages[j].target
        S    == SegStart(p, j)
        d    == Micros(p.stages[j].duration)
        lo   == Max({t, S})
        dx   == UpMicro(from, to, v + 1, d)
    IN  IF p.stages[j].duration = 0 \/ SegEnd(p, j) <= t THEN NoOffset
        ELSE IF AtLevel(from, to, v + 1, d, Micros(lo - S)) THEN lo
        ELSE IF dx = Panic THEN Panic
        ELSE IF dx \in 0..(d - 1) THEN S + dx * MicroTicks
        ELSE NoOffset

LEMMA OnOffsetIs ==
    ASSUME NEW p, NEW v, NEW j, NEW t
    PROVE  InStage(p, j, v, t, TRUE) = OnOffset(p, j, v, t)
  BY DEF InStage, CrossingMicro, AtLevel, OnOffset, UpMicro

\* And that is the tick it finds.
LEMMA OnFound ==
    ASSUME NEW p, IsPlan(p), NEW v \in Nat, NEW j \in 1..Len(p.stages), NEW t \in Nat
    PROVE  OnInStage(p, j, v, t, OnOffset(p, j, v, t))
<1> DEFINE from == FromVUs(p, j)
           to   == p.stages[j].target
           S    == SegStart(p, j)
           E    == SegEnd(p, j)
           D    == p.stages[j].duration
           d    == Micros(D)
           lo   == Max({t, S})
           x    == Micros(lo - S)
           dx   == UpMicro(from, to, v + 1, d)
           r    == OnOffset(p, j, v, t)
<1>1. /\ from \in Nat /\ to \in Nat /\ S \in Nat /\ E \in Nat /\ D \in Nat /\ E = S + D
      /\ d \in Nat /\ D = d * MicroTicks /\ (D > 0 => d \in Nat \ {0})
  BY Segments, WholeStage
<1>2. lo \in Nat /\ lo = IF t >= S THEN t ELSE S
  BY <1>1, MaxOfTwo
<1>3. r = IF D = 0 \/ E <= t THEN NoOffset
          ELSE IF AtLevel(from, to, v + 1, d, x) THEN lo
          ELSE IF dx = Panic THEN Panic
          ELSE IF dx \in 0..(d - 1) THEN S + dx * MicroTicks
          ELSE NoOffset
  BY DEF OnOffset
<1> HIDE DEF r
<1>4. CASE D = 0 \/ E <= t
  <2>1. r = NoOffset
    <3> HIDE DEF from, to, S, E, D, d, lo, x, dx
    <3> QED BY <1>3, <1>4
  <2>2. QED
    BY <1>1, <1>4, <2>1, SMTT(30) DEF OnInStage, r
<1>5. CASE D # 0 /\ E > t
  <2>1. lo \in Nat /\ S <= lo /\ lo < E /\ t <= lo /\ d \in Nat \ {0} /\ lo - S \in Nat
    <3>1. D > 0 /\ t < E
      BY <1>1, <1>5
    <3>2. d \in Nat \ {0}
      BY <1>1, <3>1
    <3> HIDE DEF S, E, D, d, lo
    <3>3. S \in Nat /\ E \in Nat /\ E > S
      BY <1>1, <3>1
    <3>4. lo \in Nat /\ S <= lo /\ lo < E /\ t <= lo
      BY <1>2, <3>1, <3>3
    <3>5. QED
      BY <3>2, <3>3, <3>4
  <2>2. x \in 0..(d - 1)
    <3>1. x \in Nat
      BY <2>1, Rounded
    <3>2. lo - S < d * MicroTicks <=> x < d
      BY <1>1, <2>1, MicrosInStage
    <3> HIDE DEF x, d, lo
    <3>3. QED
      BY <1>1, <2>1, <3>1, <3>2
  <2>3. CASE AtLevel(from, to, v + 1, d, x)
    <3>1. r = lo
      <4> HIDE DEF from, to, S, E, D, d, lo, x, dx
      <4> QED BY <1>1, <1>3, <1>5, <2>3
    <3>2. Line(p, j, v, lo)
      BY <2>3 DEF Line
    <3>3. \A u \in Nat : t <= u /\ S <= u => ~(u < lo)
      BY <1>1, <1>2
    <3> HIDE DEF lo
    <3>4. QED
      BY <2>1, <3>1, <3>2, <3>3 DEF OnInStage, r
  <2>4. CASE ~AtLevel(from, to, v + 1, d, x)
    <3>1. /\ dx \in Int /\ dx # Panic
          /\ dx \in 0..(d - 1) => /\ x < dx /\ AtLevel(from, to, v + 1, d, dx)
                                  /\ \A q \in x..(dx - 1) : ~AtLevel(from, to, v + 1, d, q)
          /\ dx \notin 0..(d - 1) => \A q \in x..(d - 1) : ~AtLevel(from, to, v + 1, d, q)
      <4> DEFINE level == v + 1
      <4>1. /\ level \in Nat /\ dx = UpMicro(from, to, level, d) /\ ~AtLevel(from, to, level, d, x)
            /\ from \in Nat /\ to \in Nat /\ d \in Nat \ {0} /\ x \in 0..(d - 1)
        BY <1>1, <2>1, <2>2, <2>4
      <4> HIDE DEF from, to, S, E, D, d, lo, x, dx, level
      <4>2. /\ dx \in Int /\ dx # Panic
            /\ dx \in 0..(d - 1) => /\ x < dx /\ AtLevel(from, to, level, d, dx)
                                    /\ \A q \in x..(dx - 1) : ~AtLevel(from, to, level, d, q)
            /\ dx \notin 0..(d - 1) => \A q \in x..(d - 1) : ~AtLevel(from, to, level, d, q)
        BY <4>1, CrossingUp, SMTT(30)
      <4>3. QED
        BY <4>2 DEF level
    <3>2. r = IF dx \in 0..(d - 1) THEN S + dx * MicroTicks ELSE NoOffset
      <4> HIDE DEF from, to, S, E, D, d, lo, x, dx
      <4> QED BY <1>1, <1>3, <1>5, <2>4, <3>1
    <3>3. ASSUME NEW u \in Nat, t <= u, S <= u
          PROVE  /\ u - S \in Nat /\ Micros(u - S) \in Nat /\ x <= Micros(u - S)
                 /\ (u < E => Micros(u - S) < d)
      <4>1. u - S \in Nat /\ lo - S <= u - S /\ (u < E => u - S < d * MicroTicks)
        <5> HIDE DEF S, E, D, d, lo
        <5>1. lo <= u
          BY <1>1, <1>2, <3>3
        <5>2. u - S \in Nat /\ lo - S <= u - S /\ (u < E => u - S < D)
          BY <1>1, <1>2, <3>3, <5>1
        <5>3. QED
          BY <1>1, <5>2
      <4>2. Micros(u - S) \in Nat
        BY <4>1, Rounded
      <4>3. x <= Micros(u - S) /\ (u - S < d * MicroTicks <=> Micros(u - S) < d)
        <5> HIDE DEF d, lo, S, E
        <5> QED BY <1>1, <2>1, <4>1, MicrosInStage
      <4> HIDE DEF d, lo, S, E, x
      <4>4. QED
        BY <4>1, <4>2, <4>3
    <3>4. \A u \in Nat : Line(p, j, v, u) <=> AtLevel(from, to, v + 1, d, Micros(u - S))
      BY DEF Line
    <3>5. CASE dx \in 0..(d - 1)
      <4>1. /\ x < dx /\ AtLevel(from, to, v + 1, d, dx) /\ dx \in Nat /\ dx < d
            /\ \A q \in x..(dx - 1) : ~AtLevel(from, to, v + 1, d, q)
        <5> HIDE DEF from, to, S, E, D, d, lo, x, dx
        <5> QED BY <1>1, <3>1, <3>5
      <4>2. r = S + dx * MicroTicks
        <5> HIDE DEF from, to, S, E, D, d, lo, x, dx
        <5> QED BY <3>2, <3>5
      <4> HIDE DEF dx
      <4>3. dx * MicroTicks \in Nat /\ Micros(dx * MicroTicks) = dx /\ (dx * MicroTicks < d * MicroTicks <=> dx < d)
        <5>1. dx * MicroTicks \in Nat /\ Micros(dx * MicroTicks) = dx
          BY <4>1, MicrosInStage
        <5>2. dx * MicroTicks < d * MicroTicks <=> Micros(dx * MicroTicks) < d
          <6> HIDE DEF d
          <6> QED BY <1>1, <5>1, MicrosInStage
        <5>3. QED
          BY <5>1, <5>2
      <4>4. r \in Nat /\ r - S = dx * MicroTicks /\ S <= r /\ r < E
        <5> DEFINE y == dx * MicroTicks
        <5>1. y \in Nat /\ y < D /\ r = S + y
          BY <1>1, <4>1, <4>2, <4>3
        <5> HIDE DEF S, E, d, D, y
        <5>2. r \in Nat /\ r - S = y /\ S <= r /\ r < E
          BY <1>1, <5>1
        <5>3. QED
          BY <5>2 DEF y
      <4>5. Line(p, j, v, r)
        BY <3>4, <4>1, <4>3, <4>4
      <4>6. \A y \in Nat : y < dx * MicroTicks <=> Micros(y) < dx
        BY <4>1, MicrosInStage
      <4>7. lo < r
        <5> HIDE DEF lo, S, E, d, D
        <5>1. lo - S < dx * MicroTicks
          BY <2>1, <4>1, <4>6
        <5>2. QED
          BY <1>1, <2>1, <4>4, <5>1
      <4>8. ASSUME NEW u \in Nat, t <= u, S <= u, u < r PROVE ~Line(p, j, v, u)
        <5>1. u - S \in Nat /\ u - S < dx * MicroTicks
          BY <1>1, <4>4, <4>8
        <5>2. Micros(u - S) < dx /\ x <= Micros(u - S) /\ Micros(u - S) \in Nat
          BY <3>3, <4>6, <4>8, <5>1
        <5>3. Micros(u - S) \in x..(dx - 1)
          <6> HIDE DEF x, S, d
          <6> QED BY <2>2, <4>1, <5>2
        <5>4. QED
          BY <3>4, <4>1, <5>3
      <4>9. t <= r
        <5> HIDE DEF lo
        <5> QED BY <2>1, <4>4, <4>7
      <4>10. QED
        BY <4>4, <4>5, <4>8, <4>9 DEF OnInStage, r
    <3>6. CASE dx \notin 0..(d - 1)
      <4>1. r = NoOffset /\ \A q \in x..(d - 1) : ~AtLevel(from, to, v + 1, d, q)
        <5> HIDE DEF from, to, S, E, D, d, lo, x, dx
        <5> QED BY <3>1, <3>2, <3>6
      <4>2. ASSUME NEW u \in Nat, t <= u, S <= u, u < E PROVE ~Line(p, j, v, u)
        <5>1. Micros(u - S) < d /\ x <= Micros(u - S) /\ Micros(u - S) \in Nat
          BY <3>3, <4>2
        <5>2. Micros(u - S) \in x..(d - 1)
          <6> HIDE DEF x, S, d
          <6> QED BY <1>1, <2>2, <5>1
        <5>3. QED
          BY <3>4, <4>1, <5>2
      <4>3. QED
        BY <4>1, <4>2 DEF OnInStage, r
    <3>7. QED
      BY <3>5, <3>6
  <2>5. QED
    BY <2>3, <2>4
<1>6. QED
  BY <1>1, <1>4, <1>5

\* Within stage j, r is the first tick from t on at which VU v is inactive, or
\* NoOffset if it has none.
OffInStage(p, j, v, t, r) ==
    \/ /\ r = NoOffset
       /\ \A u \in Nat : t <= u /\ SegStart(p, j) <= u /\ u < SegEnd(p, j) => Line(p, j, v, u)
    \/ /\ r \in Nat /\ t <= r /\ SegStart(p, j) <= r /\ r < SegEnd(p, j) /\ ~Line(p, j, v, r)
       /\ \A u \in Nat : t <= u /\ SegStart(p, j) <= u /\ u < r => Line(p, j, v, u)

\* InStage looking for when VU v is inactive.
OffOffset(p, j, v, t) ==
    LET from == FromVUs(p, j)
        to   == p.stages[j].target
        S    == SegStart(p, j)
        d    == Micros(p.stages[j].duration)
        lo   == Max({t, S})
        dx   == DownMicro(from, to, v + 1, d)
    IN  IF p.stages[j].duration = 0 \/ SegEnd(p, j) <= t THEN NoOffset
        ELSE IF ~AtLevel(from, to, v + 1, d, Micros(lo - S)) THEN lo
        ELSE IF dx = Panic THEN Panic
        ELSE IF dx \in 0..(d - 1) THEN S + dx * MicroTicks
        ELSE NoOffset

LEMMA OffOffsetIs ==
    ASSUME NEW p, NEW v, NEW j, NEW t
    PROVE  InStage(p, j, v, t, FALSE) = OffOffset(p, j, v, t)
  BY DEF InStage, CrossingMicro, AtLevel, OffOffset, DownMicro

\* And that is the tick it finds.
LEMMA OffFound ==
    ASSUME NEW p, IsPlan(p), NEW v \in Nat, NEW j \in 1..Len(p.stages), NEW t \in Nat
    PROVE  OffInStage(p, j, v, t, OffOffset(p, j, v, t))
<1> DEFINE from == FromVUs(p, j)
           to   == p.stages[j].target
           S    == SegStart(p, j)
           E    == SegEnd(p, j)
           D    == p.stages[j].duration
           d    == Micros(D)
           lo   == Max({t, S})
           x    == Micros(lo - S)
           dx   == DownMicro(from, to, v + 1, d)
           r    == OffOffset(p, j, v, t)
<1>1. /\ from \in Nat /\ to \in Nat /\ S \in Nat /\ E \in Nat /\ D \in Nat /\ E = S + D
      /\ d \in Nat /\ D = d * MicroTicks /\ (D > 0 => d \in Nat \ {0})
  BY Segments, WholeStage
<1>2. lo \in Nat /\ lo = IF t >= S THEN t ELSE S
  BY <1>1, MaxOfTwo
<1>3. r = IF D = 0 \/ E <= t THEN NoOffset
          ELSE IF ~AtLevel(from, to, v + 1, d, x) THEN lo
          ELSE IF dx = Panic THEN Panic
          ELSE IF dx \in 0..(d - 1) THEN S + dx * MicroTicks
          ELSE NoOffset
  BY DEF OffOffset
<1> HIDE DEF r
<1>4. CASE D = 0 \/ E <= t
  <2>1. r = NoOffset
    <3> HIDE DEF from, to, S, E, D, d, lo, x, dx
    <3> QED BY <1>3, <1>4
  <2>2. QED
    BY <1>1, <1>4, <2>1, SMTT(30) DEF OffInStage, r
<1>5. CASE D # 0 /\ E > t
  <2>1. lo \in Nat /\ S <= lo /\ lo < E /\ t <= lo /\ d \in Nat \ {0} /\ lo - S \in Nat
    <3>1. D > 0 /\ t < E
      BY <1>1, <1>5
    <3>2. d \in Nat \ {0}
      BY <1>1, <3>1
    <3> HIDE DEF S, E, D, d, lo
    <3>3. S \in Nat /\ E \in Nat /\ E > S
      BY <1>1, <3>1
    <3>4. lo \in Nat /\ S <= lo /\ lo < E /\ t <= lo
      BY <1>2, <3>1, <3>3
    <3>5. QED
      BY <3>2, <3>3, <3>4
  <2>2. x \in 0..(d - 1)
    <3>1. x \in Nat
      BY <2>1, Rounded
    <3>2. lo - S < d * MicroTicks <=> x < d
      BY <1>1, <2>1, MicrosInStage
    <3> HIDE DEF x, d, lo
    <3>3. QED
      BY <1>1, <2>1, <3>1, <3>2
  <2>3. CASE ~AtLevel(from, to, v + 1, d, x)
    <3>1. r = lo
      <4> HIDE DEF from, to, S, E, D, d, lo, x, dx
      <4> QED BY <1>1, <1>3, <1>5, <2>3
    <3>2. ~Line(p, j, v, lo)
      BY <2>3 DEF Line
    <3>3. \A u \in Nat : t <= u /\ S <= u => ~(u < lo)
      BY <1>1, <1>2
    <3> HIDE DEF lo
    <3>4. QED
      BY <2>1, <3>1, <3>2, <3>3 DEF OffInStage, r
  <2>4. CASE AtLevel(from, to, v + 1, d, x)
    <3>1. /\ dx \in Int /\ dx # Panic
          /\ dx \in 0..(d - 1) => /\ x < dx /\ ~AtLevel(from, to, v + 1, d, dx)
                                  /\ \A q \in x..(dx - 1) : AtLevel(from, to, v + 1, d, q)
          /\ dx \notin 0..(d - 1) => \A q \in x..(d - 1) : AtLevel(from, to, v + 1, d, q)
      <4> DEFINE level == v + 1
      <4>1. /\ level \in Nat /\ dx = DownMicro(from, to, level, d) /\ AtLevel(from, to, level, d, x)
            /\ from \in Nat /\ to \in Nat /\ d \in Nat \ {0} /\ x \in 0..(d - 1)
        BY <1>1, <2>1, <2>2, <2>4
      <4> HIDE DEF from, to, S, E, D, d, lo, x, dx, level
      <4>2. /\ dx \in Int /\ dx # Panic
            /\ dx \in 0..(d - 1) => /\ x < dx /\ ~AtLevel(from, to, level, d, dx)
                                    /\ \A q \in x..(dx - 1) : AtLevel(from, to, level, d, q)
            /\ dx \notin 0..(d - 1) => \A q \in x..(d - 1) : AtLevel(from, to, level, d, q)
        BY <4>1, CrossingDown, SMTT(30)
      <4>3. QED
        BY <4>2 DEF level
    <3>2. r = IF dx \in 0..(d - 1) THEN S + dx * MicroTicks ELSE NoOffset
      <4> HIDE DEF from, to, S, E, D, d, lo, x, dx
      <4> QED BY <1>1, <1>3, <1>5, <2>4, <3>1
    <3>3. ASSUME NEW u \in Nat, t <= u, S <= u
          PROVE  /\ u - S \in Nat /\ Micros(u - S) \in Nat /\ x <= Micros(u - S)
                 /\ (u < E => Micros(u - S) < d)
      <4>1. u - S \in Nat /\ lo - S <= u - S /\ (u < E => u - S < d * MicroTicks)
        <5> HIDE DEF S, E, D, d, lo
        <5>1. lo <= u
          BY <1>1, <1>2, <3>3
        <5>2. u - S \in Nat /\ lo - S <= u - S /\ (u < E => u - S < D)
          BY <1>1, <1>2, <3>3, <5>1
        <5>3. QED
          BY <1>1, <5>2
      <4>2. Micros(u - S) \in Nat
        BY <4>1, Rounded
      <4>3. x <= Micros(u - S) /\ (u - S < d * MicroTicks <=> Micros(u - S) < d)
        <5> HIDE DEF d, lo, S, E
        <5> QED BY <1>1, <2>1, <4>1, MicrosInStage
      <4> HIDE DEF d, lo, S, E, x
      <4>4. QED
        BY <4>1, <4>2, <4>3
    <3>4. \A u \in Nat : Line(p, j, v, u) <=> AtLevel(from, to, v + 1, d, Micros(u - S))
      BY DEF Line
    <3>5. CASE dx \in 0..(d - 1)
      <4>1. /\ x < dx /\ ~AtLevel(from, to, v + 1, d, dx) /\ dx \in Nat /\ dx < d
            /\ \A q \in x..(dx - 1) : AtLevel(from, to, v + 1, d, q)
        <5> HIDE DEF from, to, S, E, D, d, lo, x, dx
        <5> QED BY <1>1, <3>1, <3>5
      <4>2. r = S + dx * MicroTicks
        <5> HIDE DEF from, to, S, E, D, d, lo, x, dx
        <5> QED BY <3>2, <3>5
      <4> HIDE DEF dx
      <4>3. dx * MicroTicks \in Nat /\ Micros(dx * MicroTicks) = dx /\ (dx * MicroTicks < d * MicroTicks <=> dx < d)
        <5>1. dx * MicroTicks \in Nat /\ Micros(dx * MicroTicks) = dx
          BY <4>1, MicrosInStage
        <5>2. dx * MicroTicks < d * MicroTicks <=> Micros(dx * MicroTicks) < d
          <6> HIDE DEF d
          <6> QED BY <1>1, <5>1, MicrosInStage
        <5>3. QED
          BY <5>1, <5>2
      <4>4. r \in Nat /\ r - S = dx * MicroTicks /\ S <= r /\ r < E
        <5> DEFINE y == dx * MicroTicks
        <5>1. y \in Nat /\ y < D /\ r = S + y
          BY <1>1, <4>1, <4>2, <4>3
        <5> HIDE DEF S, E, d, D, y
        <5>2. r \in Nat /\ r - S = y /\ S <= r /\ r < E
          BY <1>1, <5>1
        <5>3. QED
          BY <5>2 DEF y
      <4>5. ~Line(p, j, v, r)
        BY <3>4, <4>1, <4>3, <4>4
      <4>6. \A y \in Nat : y < dx * MicroTicks <=> Micros(y) < dx
        BY <4>1, MicrosInStage
      <4>7. lo < r
        <5> HIDE DEF lo, S, E, d, D
        <5>1. lo - S < dx * MicroTicks
          BY <2>1, <4>1, <4>6
        <5>2. QED
          BY <1>1, <2>1, <4>4, <5>1
      <4>8. ASSUME NEW u \in Nat, t <= u, S <= u, u < r PROVE Line(p, j, v, u)
        <5>1. u - S \in Nat /\ u - S < dx * MicroTicks
          BY <1>1, <4>4, <4>8
        <5>2. Micros(u - S) < dx /\ x <= Micros(u - S) /\ Micros(u - S) \in Nat
          BY <3>3, <4>6, <4>8, <5>1
        <5>3. Micros(u - S) \in x..(dx - 1)
          <6> HIDE DEF x, S, d
          <6> QED BY <2>2, <4>1, <5>2
        <5>4. QED
          BY <3>4, <4>1, <5>3
      <4>9. t <= r
        <5> HIDE DEF lo
        <5> QED BY <2>1, <4>4, <4>7
      <4>10. QED
        BY <4>4, <4>5, <4>8, <4>9 DEF OffInStage, r
    <3>6. CASE dx \notin 0..(d - 1)
      <4>1. r = NoOffset /\ \A q \in x..(d - 1) : AtLevel(from, to, v + 1, d, q)
        <5> HIDE DEF from, to, S, E, D, d, lo, x, dx
        <5> QED BY <3>1, <3>2, <3>6
      <4>2. ASSUME NEW u \in Nat, t <= u, S <= u, u < E PROVE Line(p, j, v, u)
        <5>1. Micros(u - S) < d /\ x <= Micros(u - S) /\ Micros(u - S) \in Nat
          BY <3>3, <4>2
        <5>2. Micros(u - S) \in x..(d - 1)
          <6> HIDE DEF x, S, d
          <6> QED BY <1>1, <2>2, <5>1
        <5>3. QED
          BY <3>4, <4>1, <5>2
      <4>3. QED
        BY <4>1, <4>2 DEF OffInStage, r
    <3>7. QED
      BY <3>5, <3>6
  <2>5. QED
    BY <2>3, <2>4
<1>6. QED
  BY <1>1, <1>4, <1>5

-----------------------------------------------------------------------------
(* next *)

\* r is the first tick of the plan from t on at which VU v is active, or
\* NoOffset if it has none.
FirstOn(p, v, t, r) ==
    \/ r = NoOffset /\ \A u \in t..(PlanLength(p) - 1) : ~Active(p, v, u)
    \/ /\ r \in t..(PlanLength(p) - 1) /\ Active(p, v, r)
       /\ \A u \in t..(r - 1) : ~Active(p, v, u)

LEMMA FirstOnUnique ==
    ASSUME NEW p, NEW v, NEW t \in Nat, PlanLength(p) \in Nat, NEW a, NEW b, FirstOn(p, v, t, a), FirstOn(p, v, t, b)
    PROVE  a = b
<1>1. a = NoOffset \/ b = NoOffset => a = b
  BY DEF FirstOn, NoOffset
<1>2. ASSUME a # NoOffset, b # NoOffset PROVE a = b
  <2>1. /\ a \in t..(PlanLength(p) - 1) /\ Active(p, v, a) /\ \A u \in t..(a - 1) : ~Active(p, v, u)
        /\ b \in t..(PlanLength(p) - 1) /\ Active(p, v, b) /\ \A u \in t..(b - 1) : ~Active(p, v, u)
    BY <1>2 DEF FirstOn
  <2>2. ~(a < b) /\ ~(b < a)
    BY <2>1
  <2>3. QED
    BY <2>1, <2>2
<1>3. QED
  BY <1>1, <1>2

\* next looking for when VU v is active.
NextOn(p, v, t) ==
    LET hits == {j \in StageIds(p) : OnOffset(p, j, v, t) # NoOffset}
        c    == IF hits = {} THEN NoOffset ELSE OnOffset(p, Min(hits), v, t)
    IN  IF c >= PlanLength(p) THEN NoOffset ELSE c

LEMMA NextOnIs ==
    ASSUME NEW p, NEW v, NEW t
    PROVE  next(p, v, t, TRUE) = NextOn(p, v, t)
<1>1. \A j : InStage(p, j, v, t, TRUE) = OnOffset(p, j, v, t)
  BY OnOffsetIs, Zenon
<1>2. {j \in StageIds(p) : InStage(p, j, v, t, TRUE) # NoOffset} = {j \in StageIds(p) : OnOffset(p, j, v, t) # NoOffset}
  <2> DEFINE A == {j \in StageIds(p) : InStage(p, j, v, t, TRUE) # NoOffset}
             B == {j \in StageIds(p) : OnOffset(p, j, v, t) # NoOffset}
  <2>1. \A j : j \in A <=> j \in StageIds(p) /\ InStage(p, j, v, t, TRUE) # NoOffset
    BY Zenon
  <2>2. \A j : j \in B <=> j \in StageIds(p) /\ OnOffset(p, j, v, t) # NoOffset
    BY Zenon
  <2> HIDE DEF A, B
  <2>3. \A j : j \in A <=> j \in B
    BY <1>1, <2>1, <2>2, Zenon
  <2>4. A = B
    BY <2>3, Zenon
  <2>5. QED
    BY <2>4, Zenon DEF A, B
<1>3. crossing(p, v, t, TRUE) = LET hits == {j \in StageIds(p) : OnOffset(p, j, v, t) # NoOffset}
                               IN  IF hits = {} THEN NoOffset ELSE OnOffset(p, Min(hits), v, t)
  BY <1>1, <1>2, Zenon DEF crossing
<1>4. QED
  BY <1>3, Zenon DEF next, NextOn

\* It finds the first such tick.
LEMMA NextOnExact ==
    ASSUME NEW p, IsPlan(p), NEW v \in Nat, NEW t \in Nat
    PROVE  FirstOn(p, v, t, NextOn(p, v, t))
<1> DEFINE N    == Len(p.stages)
           L    == PlanLength(p)
           hits == {j \in 1..N : OnOffset(p, j, v, t) # NoOffset}
           k    == Min(hits)
           c    == IF hits = {} THEN NoOffset ELSE OnOffset(p, k, v, t)
<1>1. /\ N \in Nat \ {0} /\ StageIds(p) = 1..N /\ L \in Nat \ {0}
      /\ \A j \in 1..N : SegStart(p, j) \in Nat /\ SegEnd(p, j) \in Nat /\ SegEnd(p, j) <= L
      /\ \A j, n \in 1..N : j < n => SegEnd(p, j) <= SegStart(p, n)
  BY Segments
<1>2. NextOn(p, v, t) = IF c >= L THEN NoOffset ELSE c
  BY <1>1, Zenon DEF NextOn
<1>3. \A j \in 1..N : OnInStage(p, j, v, t, OnOffset(p, j, v, t))
  BY OnFound
<1>4. ASSUME NEW u \in Nat, u < L PROVE \E j \in 1..N : SegStart(p, j) <= u /\ u < SegEnd(p, j)
  <2>1. u \in 0..(L - 1)
    BY <1>1, <1>4
  <2>2. QED
    BY <2>1, InOneStage
<1>5. \A j \in 1..N, u \in Nat : SegStart(p, j) <= u /\ u < SegEnd(p, j) => (Active(p, v, u) <=> Line(p, j, v, u))
  BY ActiveIsLine
<1>6. ASSUME NEW j \in 1..N, j \notin hits, NEW u \in Nat, t <= u, SegStart(p, j) <= u, u < SegEnd(p, j)
      PROVE  ~Active(p, v, u)
  <2>1. OnOffset(p, j, v, t) = NoOffset
    BY <1>6
  <2>2. ~Line(p, j, v, u)
    BY <1>3, <1>6, <2>1 DEF OnInStage, NoOffset
  <2>3. QED
    BY <1>5, <1>6, <2>2
<1>7. CASE hits = {}
  <2>1. NextOn(p, v, t) = NoOffset
    BY <1>2, <1>7
  <2>2. ASSUME NEW u \in t..(L - 1) PROVE ~Active(p, v, u)
    <3>1. u \in Nat /\ u < L /\ t <= u
      BY <1>1
    <3> HIDE DEF hits
    <3>2. PICK j \in 1..N : SegStart(p, j) <= u /\ u < SegEnd(p, j)
      BY <1>4, <3>1
    <3>3. QED
      BY <1>6, <1>7, <3>1, <3>2
  <2>3. QED
    BY <2>1, <2>2 DEF FirstOn
<1>8. CASE hits # {}
  <2> DEFINE r == OnOffset(p, k, v, t)
  <2>1. k \in hits /\ \A j \in hits : k <= j
    <3>1. hits \in SUBSET Nat
      BY <1>1
    <3> HIDE DEF hits
    <3>2. QED
      BY <1>8, <3>1, MinIsLeast
  <2>2. k \in 1..N /\ r # NoOffset
    BY <2>1
  <2> HIDE DEF k
  <2>3. /\ r \in Nat /\ t <= r /\ SegStart(p, k) <= r /\ r < SegEnd(p, k) /\ Line(p, k, v, r)
        /\ \A u \in Nat : t <= u /\ SegStart(p, k) <= u /\ u < r => ~Line(p, k, v, u)
    BY <1>3, <2>2 DEF OnInStage
  <2>4. c = r
    BY <1>8
  <2> HIDE DEF r, c, hits
  <2>5. r \in t..(L - 1) /\ NextOn(p, v, t) = r
    BY <1>1, <1>2, <2>2, <2>3, <2>4
  <2>6. Active(p, v, r)
    BY <1>5, <2>2, <2>3
  <2>7. ASSUME NEW u \in t..(r - 1) PROVE ~Active(p, v, u)
    <3>1. u \in Nat /\ u < L /\ t <= u /\ u < r
      BY <1>1, <2>3, <2>5
    <3>2. PICK j \in 1..N : SegStart(p, j) <= u /\ u < SegEnd(p, j)
      BY <1>4, <3>1
    <3>3. CASE j < k
      <4>1. j \notin hits
        BY <1>1, <2>1, <2>2, <3>3
      <4>2. QED
        BY <1>6, <3>1, <3>2, <4>1
    <3>4. CASE j = k
      BY <1>5, <2>3, <3>1, <3>2, <3>4
    <3>5. CASE k < j
      BY <1>1, <2>2, <2>3, <3>1, <3>2, <3>5
    <3>6. QED
      BY <1>1, <2>2, <3>3, <3>4, <3>5
  <2>8. QED
    BY <2>5, <2>6, <2>7 DEF FirstOn
<1>9. QED
  BY <1>7, <1>8

\* So next is the reference.
LEMMA TickOn ==
    ASSUME NEW p, PlanLength(p) \in Nat, NEW v, NEW t \in Nat
    PROVE  FirstOn(p, v, t, FirstTick(p, v, t, TRUE))
<1> DEFINE ticks == {u \in t..(PlanLength(p) - 1) : Active(p, v, u)}
           r     == IF ticks = {} THEN NoOffset ELSE Min(ticks)
<1>1. {u \in t..(PlanLength(p) - 1) : Active(p, v, u) = TRUE} = ticks
  <2>1. \A u : Active(p, v, u) \in BOOLEAN
    BY Zenon DEF Active
  <2>2. \A u : (Active(p, v, u) = TRUE) <=> Active(p, v, u)
    BY <2>1, Zenon
  <2>3. QED
    BY <2>2, Zenon
<1>2. FirstTick(p, v, t, TRUE) = r
  BY <1>1, Zenon DEF FirstTick
<1>3. FirstOn(p, v, t, r)
  <2>1. CASE ticks = {}
    BY <2>1 DEF FirstOn
  <2>2. CASE ticks # {}
    <3>1. ticks \in SUBSET Nat
      OBVIOUS
    <3>2. Min(ticks) \in ticks /\ \A u \in ticks : Min(ticks) <= u
      <4> HIDE DEF ticks
      <4> QED BY <2>2, <3>1, MinIsLeast
    <3> DEFINE m == Min(ticks)
    <3>3. m \in t..(PlanLength(p) - 1) /\ Active(p, v, m) /\ r = m /\ \A u \in ticks : m <= u
      BY <2>2, <3>2
    <3> HIDE DEF m, r
    <3>4. \A u \in t..(m - 1) : ~Active(p, v, u)
      BY <3>3
    <3>5. QED
      BY <3>3, <3>4 DEF FirstOn
  <2>3. QED
    BY <2>1, <2>2
<1>4. QED
  BY <1>2, <1>3, Zenon

LEMMA NextOnIsTick ==
    ASSUME NEW p, IsPlan(p), NEW v \in Nat, NEW t \in Nat
    PROVE  next(p, v, t, TRUE) = FirstTick(p, v, t, TRUE)
<1>1. PlanLength(p) \in Nat
  BY Segments
<1>2. FirstOn(p, v, t, NextOn(p, v, t))
  BY NextOnExact
<1>3. FirstOn(p, v, t, FirstTick(p, v, t, TRUE))
  BY <1>1, TickOn, Zenon
<1>4. NextOn(p, v, t) = FirstTick(p, v, t, TRUE)
  BY <1>1, <1>2, <1>3, FirstOnUnique, Zenon
<1>5. QED
  BY <1>4, NextOnIs, Zenon

\* r is the first tick of the plan from t on at which VU v is inactive, or
\* NoOffset if it has none.
FirstOff(p, v, t, r) ==
    \/ r = NoOffset /\ \A u \in t..(PlanLength(p) - 1) : Active(p, v, u)
    \/ /\ r \in t..(PlanLength(p) - 1) /\ ~Active(p, v, r)
       /\ \A u \in t..(r - 1) : Active(p, v, u)

LEMMA FirstOffUnique ==
    ASSUME NEW p, NEW v, NEW t \in Nat, PlanLength(p) \in Nat, NEW a, NEW b, FirstOff(p, v, t, a), FirstOff(p, v, t, b)
    PROVE  a = b
<1>1. a = NoOffset \/ b = NoOffset => a = b
  BY DEF FirstOff, NoOffset
<1>2. ASSUME a # NoOffset, b # NoOffset PROVE a = b
  <2>1. /\ a \in t..(PlanLength(p) - 1) /\ ~Active(p, v, a) /\ \A u \in t..(a - 1) : Active(p, v, u)
        /\ b \in t..(PlanLength(p) - 1) /\ ~Active(p, v, b) /\ \A u \in t..(b - 1) : Active(p, v, u)
    BY <1>2 DEF FirstOff
  <2>2. ~(a < b) /\ ~(b < a)
    BY <2>1
  <2>3. QED
    BY <2>1, <2>2
<1>3. QED
  BY <1>1, <1>2

\* next looking for when VU v is inactive.
NextOff(p, v, t) ==
    LET hits == {j \in StageIds(p) : OffOffset(p, j, v, t) # NoOffset}
        c    == IF hits = {} THEN NoOffset ELSE OffOffset(p, Min(hits), v, t)
    IN  IF c >= PlanLength(p) THEN NoOffset ELSE c

LEMMA NextOffIs ==
    ASSUME NEW p, NEW v, NEW t
    PROVE  next(p, v, t, FALSE) = NextOff(p, v, t)
<1>1. \A j : InStage(p, j, v, t, FALSE) = OffOffset(p, j, v, t)
  BY OffOffsetIs, Zenon
<1>2. {j \in StageIds(p) : InStage(p, j, v, t, FALSE) # NoOffset} = {j \in StageIds(p) : OffOffset(p, j, v, t) # NoOffset}
  <2> DEFINE A == {j \in StageIds(p) : InStage(p, j, v, t, FALSE) # NoOffset}
             B == {j \in StageIds(p) : OffOffset(p, j, v, t) # NoOffset}
  <2>1. \A j : j \in A <=> j \in StageIds(p) /\ InStage(p, j, v, t, FALSE) # NoOffset
    BY Zenon
  <2>2. \A j : j \in B <=> j \in StageIds(p) /\ OffOffset(p, j, v, t) # NoOffset
    BY Zenon
  <2> HIDE DEF A, B
  <2>3. \A j : j \in A <=> j \in B
    BY <1>1, <2>1, <2>2, Zenon
  <2>4. A = B
    BY <2>3, Zenon
  <2>5. QED
    BY <2>4, Zenon DEF A, B
<1>3. crossing(p, v, t, FALSE) = LET hits == {j \in StageIds(p) : OffOffset(p, j, v, t) # NoOffset}
                               IN  IF hits = {} THEN NoOffset ELSE OffOffset(p, Min(hits), v, t)
  BY <1>1, <1>2, Zenon DEF crossing
<1>4. QED
  BY <1>3, Zenon DEF next, NextOff

\* It finds the first such tick.
LEMMA NextOffExact ==
    ASSUME NEW p, IsPlan(p), NEW v \in Nat, NEW t \in Nat
    PROVE  FirstOff(p, v, t, NextOff(p, v, t))
<1> DEFINE N    == Len(p.stages)
           L    == PlanLength(p)
           hits == {j \in 1..N : OffOffset(p, j, v, t) # NoOffset}
           k    == Min(hits)
           c    == IF hits = {} THEN NoOffset ELSE OffOffset(p, k, v, t)
<1>1. /\ N \in Nat \ {0} /\ StageIds(p) = 1..N /\ L \in Nat \ {0}
      /\ \A j \in 1..N : SegStart(p, j) \in Nat /\ SegEnd(p, j) \in Nat /\ SegEnd(p, j) <= L
      /\ \A j, n \in 1..N : j < n => SegEnd(p, j) <= SegStart(p, n)
  BY Segments
<1>2. NextOff(p, v, t) = IF c >= L THEN NoOffset ELSE c
  BY <1>1, Zenon DEF NextOff
<1>3. \A j \in 1..N : OffInStage(p, j, v, t, OffOffset(p, j, v, t))
  BY OffFound
<1>4. ASSUME NEW u \in Nat, u < L PROVE \E j \in 1..N : SegStart(p, j) <= u /\ u < SegEnd(p, j)
  <2>1. u \in 0..(L - 1)
    BY <1>1, <1>4
  <2>2. QED
    BY <2>1, InOneStage
<1>5. \A j \in 1..N, u \in Nat : SegStart(p, j) <= u /\ u < SegEnd(p, j) => (Active(p, v, u) <=> Line(p, j, v, u))
  BY ActiveIsLine
<1>6. ASSUME NEW j \in 1..N, j \notin hits, NEW u \in Nat, t <= u, SegStart(p, j) <= u, u < SegEnd(p, j)
      PROVE  Active(p, v, u)
  <2>1. OffOffset(p, j, v, t) = NoOffset
    BY <1>6
  <2>2. Line(p, j, v, u)
    BY <1>3, <1>6, <2>1 DEF OffInStage, NoOffset
  <2>3. QED
    BY <1>5, <1>6, <2>2
<1>7. CASE hits = {}
  <2>1. NextOff(p, v, t) = NoOffset
    BY <1>2, <1>7
  <2>2. ASSUME NEW u \in t..(L - 1) PROVE Active(p, v, u)
    <3>1. u \in Nat /\ u < L /\ t <= u
      BY <1>1
    <3> HIDE DEF hits
    <3>2. PICK j \in 1..N : SegStart(p, j) <= u /\ u < SegEnd(p, j)
      BY <1>4, <3>1
    <3>3. QED
      BY <1>6, <1>7, <3>1, <3>2
  <2>3. QED
    BY <2>1, <2>2 DEF FirstOff
<1>8. CASE hits # {}
  <2> DEFINE r == OffOffset(p, k, v, t)
  <2>1. k \in hits /\ \A j \in hits : k <= j
    <3>1. hits \in SUBSET Nat
      BY <1>1
    <3> HIDE DEF hits
    <3>2. QED
      BY <1>8, <3>1, MinIsLeast
  <2>2. k \in 1..N /\ r # NoOffset
    BY <2>1
  <2> HIDE DEF k
  <2>3. /\ r \in Nat /\ t <= r /\ SegStart(p, k) <= r /\ r < SegEnd(p, k) /\ ~Line(p, k, v, r)
        /\ \A u \in Nat : t <= u /\ SegStart(p, k) <= u /\ u < r => Line(p, k, v, u)
    BY <1>3, <2>2 DEF OffInStage
  <2>4. c = r
    BY <1>8
  <2> HIDE DEF r, c, hits
  <2>5. r \in t..(L - 1) /\ NextOff(p, v, t) = r
    BY <1>1, <1>2, <2>2, <2>3, <2>4
  <2>6. ~Active(p, v, r)
    BY <1>5, <2>2, <2>3
  <2>7. ASSUME NEW u \in t..(r - 1) PROVE Active(p, v, u)
    <3>1. u \in Nat /\ u < L /\ t <= u /\ u < r
      BY <1>1, <2>3, <2>5
    <3>2. PICK j \in 1..N : SegStart(p, j) <= u /\ u < SegEnd(p, j)
      BY <1>4, <3>1
    <3>3. CASE j < k
      <4>1. j \notin hits
        BY <1>1, <2>1, <2>2, <3>3
      <4>2. QED
        BY <1>6, <3>1, <3>2, <4>1
    <3>4. CASE j = k
      BY <1>5, <2>3, <3>1, <3>2, <3>4
    <3>5. CASE k < j
      BY <1>1, <2>2, <2>3, <3>1, <3>2, <3>5
    <3>6. QED
      BY <1>1, <2>2, <3>3, <3>4, <3>5
  <2>8. QED
    BY <2>5, <2>6, <2>7 DEF FirstOff
<1>9. QED
  BY <1>7, <1>8

\* So next is the reference.
LEMMA TickOff ==
    ASSUME NEW p, PlanLength(p) \in Nat, NEW v, NEW t \in Nat
    PROVE  FirstOff(p, v, t, FirstTick(p, v, t, FALSE))
<1> DEFINE ticks == {u \in t..(PlanLength(p) - 1) : ~Active(p, v, u)}
           r     == IF ticks = {} THEN NoOffset ELSE Min(ticks)
<1>1. {u \in t..(PlanLength(p) - 1) : Active(p, v, u) = FALSE} = ticks
  <2>1. \A u : Active(p, v, u) \in BOOLEAN
    BY Zenon DEF Active
  <2>2. \A u : (Active(p, v, u) = FALSE) <=> ~Active(p, v, u)
    BY <2>1, Zenon
  <2>3. QED
    BY <2>2, Zenon
<1>2. FirstTick(p, v, t, FALSE) = r
  BY <1>1, Zenon DEF FirstTick
<1>3. FirstOff(p, v, t, r)
  <2>1. CASE ticks = {}
    BY <2>1 DEF FirstOff
  <2>2. CASE ticks # {}
    <3>1. ticks \in SUBSET Nat
      OBVIOUS
    <3>2. Min(ticks) \in ticks /\ \A u \in ticks : Min(ticks) <= u
      <4> HIDE DEF ticks
      <4> QED BY <2>2, <3>1, MinIsLeast
    <3> DEFINE m == Min(ticks)
    <3>3. m \in t..(PlanLength(p) - 1) /\ ~Active(p, v, m) /\ r = m /\ \A u \in ticks : m <= u
      BY <2>2, <3>2
    <3> HIDE DEF m, r
    <3>4. \A u \in t..(m - 1) : Active(p, v, u)
      BY <3>3
    <3>5. QED
      BY <3>3, <3>4 DEF FirstOff
  <2>3. QED
    BY <2>1, <2>2
<1>4. QED
  BY <1>2, <1>3, Zenon

LEMMA NextOffIsTick ==
    ASSUME NEW p, IsPlan(p), NEW v \in Nat, NEW t \in Nat
    PROVE  next(p, v, t, FALSE) = FirstTick(p, v, t, FALSE)
<1>1. PlanLength(p) \in Nat
  BY Segments
<1>2. FirstOff(p, v, t, NextOff(p, v, t))
  BY NextOffExact
<1>3. FirstOff(p, v, t, FirstTick(p, v, t, FALSE))
  BY <1>1, TickOff, Zenon
<1>4. NextOff(p, v, t) = FirstTick(p, v, t, FALSE)
  BY <1>1, <1>2, <1>3, FirstOffUnique, Zenon
<1>5. QED
  BY <1>4, NextOffIs, Zenon

-----------------------------------------------------------------------------
(* activeAt *)

\* A bounded set of natural numbers has a largest.
LEMMA MaxIsLargest ==
    ASSUME NEW T \in SUBSET Nat, T # {}, NEW b \in Nat, \A n \in T : n <= b
    PROVE  Max(T) \in T /\ \A n \in T : Max(T) >= n
<1> DEFINE U == {c \in Nat : \A n \in T : n <= c}
<1>1. PICK m \in U : \A c \in U : m <= c
  <2>1. U \in SUBSET Nat /\ U # {}
    OBVIOUS
  <2> HIDE DEF U
  <2>2. QED
    BY <2>1, LeastNatural
<1>2. m \in T
  <2>1. SUFFICES ASSUME m \notin T PROVE FALSE
    OBVIOUS
  <2>2. m \in Nat /\ \A n \in T : n < m
    BY <1>1, <2>1
  <2>3. m - 1 \in U
    <3>1. PICK n0 \in T : TRUE
      OBVIOUS
    <3>2. m - 1 \in Nat /\ \A n \in T : n <= m - 1
      BY <2>2, <3>1
    <3>3. QED
      BY <3>2
  <2>4. QED
    BY <1>1, <2>2, <2>3
<1>3. \A n \in T : m >= n
  BY <1>1
<1>4. QED
  BY <1>2, <1>3, Zenon DEF Max

\* No target is above MaxVUs.
LEMMA MaxVUsIs ==
    ASSUME NEW p, IsPlan(p)
    PROVE  /\ MaxVUs(p) \in Nat
           /\ \A j \in 1..Len(p.stages) : FromVUs(p, j) <= MaxVUs(p) /\ p.stages[j].target <= MaxVUs(p)
<1> DEFINE N == Len(p.stages)
           tgt(j) == p.stages[j].target
           T == {p.startVUs} \cup {tgt(j) : j \in 1..N}
           S == {k \in 0..N : \E b \in Nat : \A j \in 1..k : tgt(j) <= b}
<1>1. N \in Nat /\ StageIds(p) = 1..N /\ p.startVUs \in Nat /\ \A j \in 1..N : tgt(j) \in Nat
  BY Segments DEF IsPlan, ValidPlan
<1> HIDE DEF tgt
<1>2. 0 \in S
  <2>1. 0 \in Nat /\ \A j \in 1..0 : tgt(j) <= 0
    OBVIOUS
  <2>2. QED
    BY <1>1, <2>1
<1>3. ASSUME NEW k \in 0..(N - 1), k \in S PROVE k + 1 \in S
  <2>1. PICK b \in Nat : \A j \in 1..k : tgt(j) <= b
    BY <1>3
  <2>2. k + 1 \in 1..N /\ k + 1 \in 0..N /\ tgt(k + 1) \in Nat
    BY <1>1
  <2>3. b + tgt(k + 1) \in Nat /\ \A j \in 1..(k + 1) : tgt(j) <= b + tgt(k + 1)
    <3>1. ASSUME NEW j \in 1..(k + 1) PROVE tgt(j) <= b + tgt(k + 1)
      <4>1. CASE j = k + 1
        BY <2>2, <4>1
      <4>2. CASE j \in 1..k
        <5>1. tgt(j) \in Nat /\ tgt(j) <= b
          BY <1>1, <2>1, <4>2
        <5>2. QED
          BY <2>2, <5>1
      <4>3. QED
        BY <4>1, <4>2
    <3>2. QED
      BY <2>2, <3>1
  <2>4. QED
    BY <2>2, <2>3
<1>4. PICK b \in Nat : \A j \in 1..N : tgt(j) <= b
  <2>1. N \in S
    <3> HIDE DEF S, N
    <3>1. \A k \in 0..N : k \in S
      BY <1>1, <1>2, <1>3, UpTo
    <3>2. QED
      BY <1>1, <3>1
  <2>2. QED
    BY <2>1
<1>5. T \in SUBSET Nat /\ T # {} /\ b + p.startVUs \in Nat
  BY <1>1
<1>6. \A n \in T : n <= b + p.startVUs
  BY <1>1, <1>4
<1>7. Max(T) \in T /\ \A n \in T : Max(T) >= n
  <2> HIDE DEF T
  <2> QED BY <1>5, <1>6, MaxIsLargest
<1>8. MaxVUs(p) = Max(T)
  BY <1>1 DEF MaxVUs, tgt
<1>9. /\ MaxVUs(p) \in Nat /\ p.startVUs <= MaxVUs(p)
      /\ \A j \in 1..N : tgt(j) <= MaxVUs(p)
  <2> DEFINE M == Max(T)
  <2>1. M \in Nat /\ \A n \in T : n \in Nat /\ M >= n
    BY <1>5, <1>7
  <2> HIDE DEF M
  <2>2. M >= p.startVUs /\ \A j \in 1..N : M >= tgt(j)
    BY <2>1
  <2>3. QED
    BY <1>1, <1>8, <2>1, <2>2 DEF M
<1>10. ASSUME NEW j \in 1..N PROVE FromVUs(p, j) <= MaxVUs(p)
  <2>1. CASE j = 1
    BY <1>9, <2>1 DEF FromVUs
  <2>2. CASE j # 1
    <3>1. j - 1 \in 1..N /\ FromVUs(p, j) = tgt(j - 1)
      BY <1>1, <2>2 DEF FromVUs, tgt
    <3>2. QED
      BY <1>9, <3>1
  <2>3. QED
    BY <2>1, <2>2
<1>11. QED
  BY <1>9, <1>10 DEF tgt

\* How many VUs a line is at the level of.
LEMMA LineCounts ==
    ASSUME NEW from \in Nat, NEW to \in Nat, NEW M \in Nat, from <= M, to <= M, NEW d \in Nat \ {0}, NEW q \in 0..d
    PROVE  /\ (from * d + (to - from) * q) \div d \in 0..M
           /\ \A v \in Nat : AtLevel(from, to, v + 1, d, q) <=> v + 1 <= (from * d + (to - from) * q) \div d
<1> DEFINE a == from * d + (to - from) * q
<1>1. a \in Int /\ 0 <= a /\ a <= M * d
  <2>1. a = from * (d - q) + to * q /\ d - q \in Nat /\ q \in Nat
    OBVIOUS
  <2>2. /\ from * (d - q) >= 0 /\ from * (d - q) <= M * (d - q)
        /\ to * q >= 0 /\ to * q <= M * q
    BY <2>1
  <2>3. M * (d - q) + M * q = M * d
    OBVIOUS
  <2>4. from * (d - q) \in Int /\ to * q \in Int /\ M * (d - q) \in Int /\ M * q \in Int /\ M * d \in Int
    BY <2>1
  <2>5. QED
    BY <2>1, <2>2, <2>3, <2>4
<1> HIDE DEF a
<1>2. a \div d \in Int /\ \A n \in Int : n <= a \div d <=> n * d <= a
  BY <1>1, DivIsFloor
<1>3. a \div d >= 0
  <2>1. 0 * d <= a
    BY <1>1
  <2>2. QED
    BY <1>2, <2>1
<1>4. a \div d <= M
  <2>1. SUFFICES ASSUME M + 1 <= a \div d PROVE FALSE
    BY <1>2
  <2>2. (M + 1) * d <= a
    BY <1>2, <2>1
  <2>3. (M + 1) * d = M * d + d /\ M * d \in Int
    OBVIOUS
  <2>4. QED
    BY <1>1, <2>2, <2>3
<1>5. \A v \in Nat : AtLevel(from, to, v + 1, d, q) <=> (v + 1) * d <= a
  BY DEF AtLevel, a
<1>6. QED
  BY <1>2, <1>3, <1>4, <1>5 DEF a

\* The first so many natural numbers.
LEMMA CountBelow ==
    ASSUME NEW M \in Nat, NEW n \in 0..M
    PROVE  Cardinality({v \in 0..(M - 1) : v + 1 <= n}) = n
<1>1. {v \in 0..(M - 1) : v + 1 <= n} = 0..(n - 1)
  OBVIOUS
<1>2. Cardinality(0..(n - 1)) = n
  <2>1. 0 \in Int /\ n - 1 \in Int
    OBVIOUS
  <2>2. Cardinality(0..(n - 1)) = IF 0 > n - 1 THEN 0 ELSE (n - 1) - 0 + 1
    BY <2>1, FS_Interval
  <2>3. QED
    BY <2>2
<1>3. QED
  BY <1>1, <1>2

\* activeAt counts the active VUs.
LEMMA ActiveAtCounts ==
    ASSUME NEW p, IsPlan(p), NEW t \in 0..(PlanLength(p) - 1)
    PROVE  activeAt(p, t) = Cardinality({v \in 0..(MaxVUs(p) - 1) : Active(p, v, t)})
<1> DEFINE N == Len(p.stages)
           live == {k \in 1..N : p.stages[k].duration > 0 /\ t < SegEnd(p, k)}
<1>1. /\ N \in Nat \ {0} /\ StageIds(p) = 1..N /\ t \in Nat
      /\ \A k \in 1..N : SegStart(p, k) \in Nat /\ SegEnd(p, k) \in Nat
      /\ \A k, l \in 1..N : k < l => SegEnd(p, k) <= SegStart(p, l)
  BY Segments
<1>2. PICK j \in 1..N : SegStart(p, j) <= t /\ t < SegEnd(p, j)
  BY InOneStage
<1> DEFINE from == FromVUs(p, j)
           to   == p.stages[j].target
           D    == p.stages[j].duration
           S    == SegStart(p, j)
           d    == Micros(D)
           q    == Micros(t - S)
           M    == MaxVUs(p)
           n    == (from * d + (to - from) * q) \div d
<1>3. /\ from \in Nat /\ to \in Nat /\ D \in Nat /\ D > 0 /\ S \in Nat /\ SegEnd(p, j) = S + D
      /\ t - S \in Nat /\ t - S < D
  <2>1. from \in Nat /\ to \in Nat /\ D \in Nat /\ S \in Nat /\ SegEnd(p, j) = S + D
    BY Segments
  <2>2. QED
    BY <1>1, <1>2, <2>1, SMTT(30)
<1>4. d \in Nat \ {0} /\ D = d * MicroTicks
  BY <1>3, WholeStage
<1>5. q \in 0..d
  <2>1. q \in Nat /\ (t - S < d * MicroTicks <=> q < d)
    BY <1>3, <1>4, MicrosInStage, Rounded
  <2> HIDE DEF q, d, S, D
  <2>2. QED
    BY <1>3, <1>4, <2>1
<1>6. M \in Nat /\ from <= M /\ to <= M
  BY MaxVUsIs
<1>7. Min(live) = j
  <2>1. j \in live /\ live \in SUBSET Nat
    BY <1>1, <1>2, <1>3
  <2>2. \A k \in live : j <= k
    BY <1>1, <1>2
  <2>3. Min(live) \in live /\ \A k \in live : Min(live) <= k
    <3> HIDE DEF live
    <3> QED BY <2>1, MinIsLeast
  <2> HIDE DEF live
  <2> DEFINE m == Min(live)
  <2>4. m \in Nat /\ j \in Nat /\ m <= j /\ j <= m
    BY <2>1, <2>2, <2>3
  <2> HIDE DEF m
  <2>5. m = j
    BY <2>4
  <2>6. QED
    BY <2>5 DEF m
<1>8. activeAt(p, t) = n
  <2>1. live # {} /\ d # 0
    BY <1>1, <1>2, <1>3, <1>4
  <2>2. activeAt(p, t) =
          LET k  == Min(live)
              dd == Micros(p.stages[k].duration)
              x  == Micros(t - SegStart(p, k))
          IN  IF live = {} THEN 0
              ELSE IF dd = 0 THEN Panic
              ELSE (FromVUs(p, k) * dd + (p.stages[k].target - FromVUs(p, k)) * x) \div dd
    BY <1>1, Zenon DEF activeAt
  <2> HIDE DEF live
  <2>3. activeAt(p, t) = IF live = {} THEN 0 ELSE IF d = 0 THEN Panic ELSE n
    BY <1>7, <2>2, Zenon
  <2> HIDE DEF n, d
  <2>4. QED
    BY <2>1, <2>3
<1>9. n \in 0..M /\ \A v \in Nat : AtLevel(from, to, v + 1, d, q) <=> v + 1 <= n
  <2> HIDE DEF from, to, d, q, M
  <2> QED BY <1>3, <1>4, <1>5, <1>6, LineCounts
<1>10. \A v \in Nat : Active(p, v, t) <=> AtLevel(from, to, v + 1, d, q)
  BY <1>1, <1>2, ActiveIsLine DEF Line
<1>11. {v \in 0..(M - 1) : Active(p, v, t)} = {v \in 0..(M - 1) : v + 1 <= n}
  <2> HIDE DEF n, M, from, to, d, q
  <2>1. \A v \in Nat : Active(p, v, t) <=> v + 1 <= n
    BY <1>9, <1>10
  <2>2. \A v \in 0..(M - 1) : v \in Nat
    BY <1>6
  <2>3. QED
    BY <2>1, <2>2
<1>12. Cardinality({v \in 0..(M - 1) : v + 1 <= n}) = n
  <2> HIDE DEF n, M
  <2> QED BY <1>6, <1>9, CountBelow
<1>13. QED
  <2> HIDE DEF n
  <2> QED BY <1>8, <1>11, <1>12

-----------------------------------------------------------------------------
(* The VU *)

\* The stages of every plan last whole microseconds. validate does not ask for
\* it: a stage of less makes crossing and activeAt divide by zero.
WholePlans == \A p \in Plans : \A j \in 1..Len(p.stages) : p.stages[j].duration % MicroTicks = 0

Places == {"loop", "asleep", "begin", "script", "blocked", "returned", "stopped", "after", "exited"}

TypeOK ==
    /\ plan \in Plans /\ i \in 0..(MaxVUs(plan) - 1) /\ now \in Int /\ ctxDone \in BOOLEAN
    /\ pc \in Places /\ wake \in Nat /\ startedAt \in Nat /\ deadline \in Nat \cup {NoOffset} /\ iterDone \in BOOLEAN
    /\ hook \in BOOLEAN /\ flying \in Nat /\ interrupt \in BOOLEAN /\ calls \in 0..MaxCalls
    /\ outcome \in {"none", "ok", "threw", "interrupted"}
    /\ begun \in 0..MaxIterations /\ iterations \in Nat /\ errors \in Nat

\* The deadline of an iteration that VU v begins at an offset.
DeadlineOf(p, v, at) ==
    LET off == NextOff(p, v, at)
    IN  IF off # NoOffset /\ off < PlanLength(p) /\ off + GracefulRampDown < PlanLength(p) + GracefulStop
          THEN off + GracefulRampDown ELSE NoOffset

\* The iteration began while the VU was active, and has its deadline from then.
IterationInv ==
    InIteration => /\ startedAt \in 0..(PlanLength(plan) - 1) /\ startedAt <= now
                   /\ Active(plan, i, startedAt)
                   /\ deadline = DeadlineOf(plan, i, startedAt)

\* It sleeps until it is active.
SleepInv == pc = "asleep" => wake \in 0..(PlanLength(plan) - 1) /\ Active(plan, i, wake)

\* A hook is registered only where an iteration runs.
HookInv == hook => pc \in {"script", "blocked", "returned"} /\ ~iterDone

RampInv == TypeOK /\ IterationInv /\ SleepInv /\ HookInv

\* What the assumptions say of a plan.
LEMMA PlansAre ==
    ASSUME WholePlans, NEW p \in Plans
    PROVE  IsPlan(p) /\ PlanLength(p) \in Nat \ {0} /\ MaxVUs(p) \in Nat
<1>1. IsPlan(p)
  BY ScenarioAssumption DEF WholePlans, IsPlan, StageSet
<1>2. QED
  BY <1>1, Segments, MaxVUsIs

LEMMA ConstantsAre ==
    /\ StartTime \in Nat /\ GracefulRampDown \in Nat /\ GracefulStop \in Nat
    /\ MaxIterations \in Nat /\ MaxCalls \in Nat
  BY ScenarioAssumption

\* The model's deadline.
LEMMA DeadlineIs ==
    ASSUME NEW at
    PROVE  IterationDeadline(at) = DeadlineOf(plan, i, at)
<1>1. next(plan, i, at, FALSE) = NextOff(plan, i, at)
  BY NextOffIs, Zenon
<1>2. QED
  BY <1>1, Zenon DEF IterationDeadline, DeadlineOf, Length, HardStop

\* A deadline is an offset.
LEMMA DeadlineType ==
    ASSUME NEW p, IsPlan(p), NEW v \in Nat, NEW at \in Nat
    PROVE  DeadlineOf(p, v, at) \in Nat \cup {NoOffset}
<1> DEFINE off == NextOff(p, v, at)
<1>1. FirstOff(p, v, at, off)
  BY NextOffExact
<1>2. off = NoOffset \/ off \in Nat
  <2>1. PlanLength(p) \in Nat
    BY Segments
  <2> HIDE DEF off
  <2>2. QED
    BY <1>1, <2>1 DEF FirstOff
<1>3. (DeadlineOf(p, v, at) = off + GracefulRampDown /\ off # NoOffset) \/ DeadlineOf(p, v, at) = NoOffset
  BY DEF DeadlineOf
<1> HIDE DEF off
<1>4. QED
  BY <1>2, <1>3, ConstantsAre

\* The deadline of an iteration cuts it as RampDownCuts asks.
LEMMA DeadlineCuts ==
    ASSUME NEW p, IsPlan(p), NEW v \in Nat, NEW at \in Nat, NEW u \in at..(PlanLength(p) - 1),
           ~Active(p, v, u), u + GracefulRampDown < PlanLength(p) + GracefulStop
    PROVE  DeadlineOf(p, v, at) # NoOffset /\ DeadlineOf(p, v, at) \in Nat /\ DeadlineOf(p, v, at) <= u + GracefulRampDown
<1> DEFINE off == NextOff(p, v, at)
<1>1. PlanLength(p) \in Nat
  BY Segments
<1>2. FirstOff(p, v, at, off)
  BY NextOffExact
<1>3. DeadlineOf(p, v, at) = IF off # NoOffset /\ off < PlanLength(p) /\ off + GracefulRampDown < PlanLength(p) + GracefulStop
                               THEN off + GracefulRampDown ELSE NoOffset
  BY DEF DeadlineOf
<1> HIDE DEF off
<1>4. off \in at..(PlanLength(p) - 1) /\ off <= u
  <2>1. off # NoOffset
    BY <1>2 DEF FirstOff, NoOffset
  <2>2. off \in at..(PlanLength(p) - 1) /\ \A w \in at..(off - 1) : Active(p, v, w)
    BY <1>2, <2>1 DEF FirstOff
  <2>3. QED
    BY <1>1, <2>2
<1>5. off \in Nat /\ off < PlanLength(p) /\ off + GracefulRampDown < PlanLength(p) + GracefulStop /\ off # NoOffset
  BY <1>1, <1>4, ConstantsAre DEF NoOffset
<1>6. QED
  BY <1>1, <1>3, <1>4, <1>5, ConstantsAre DEF NoOffset

\* What a pass of the loop knows when it runs an iteration, or sleeps.
LEMMA LoopFinds ==
    ASSUME WholePlans, TypeOK, NEW on, on = NextOn(plan, i, Max({now, 0})), on # NoOffset, now < PlanLength(plan)
    PROVE  /\ on \in 0..(PlanLength(plan) - 1) /\ Active(plan, i, on)
           /\ on <= now => on = now /\ now >= 0
<1>1. /\ plan \in Plans /\ IsPlan(plan) /\ PlanLength(plan) \in Nat /\ MaxVUs(plan) \in Nat /\ i \in Nat /\ now \in Int
  BY PlansAre DEF TypeOK
<1> DEFINE t == Max({now, 0})
<1>2. t \in Nat /\ t = IF now >= 0 THEN now ELSE 0
  BY <1>1, MaxOfTwo
<1> HIDE DEF t
<1>3. FirstOn(plan, i, t, on)
  BY <1>1, <1>2, NextOnExact DEF t
<1>4. on \in t..(PlanLength(plan) - 1) /\ Active(plan, i, on)
  BY <1>3 DEF FirstOn
<1>5. QED
  BY <1>1, <1>2, <1>4

\* The loop, in the words of the lemmas.
LEMMA LoopIs ==
    ASSUME Loop
    PROVE  /\ pc = "loop" /\ UNCHANGED clock
           /\ \E on : /\ on = NextOn(plan, i, Max({now, 0}))
                      /\ \/ Exit
                         \/ /\ on # NoOffset /\ now < PlanLength(plan) /\ on > now /\ pc' = "asleep" /\ wake' = on
                            /\ UNCHANGED <<ctxVars, jsVars, recVars>>
                         \/ on # NoOffset /\ now < PlanLength(plan) /\ on <= now /\ StartIteration
<1>1. next(plan, i, Max({now, 0}), TRUE) = NextOn(plan, i, Max({now, 0}))
  BY NextOnIs, Zenon
<1>2. QED
  BY <1>1, Zenon DEF Loop, Length

LEMMA StartIs ==
    ASSUME StartIteration
    PROVE  /\ begun < MaxIterations /\ pc' = "begin" /\ startedAt' = now /\ deadline' = DeadlineOf(plan, i, now)
           /\ iterDone' = FALSE /\ calls' = 0 /\ outcome' = "none" /\ begun' = begun + 1
           /\ UNCHANGED <<wake, hook, flying, interrupt, iterations, errors>>
  BY DeadlineIs, Zenon DEF StartIteration

LEMMA InitInv ==
    ASSUME WholePlans, Init
    PROVE  RampInv
<1>1. plan \in Plans /\ i \in 0..(MaxVUs(plan) - 1)
  BY DEF Init
<1>2. now \in Int /\ calls \in 0..MaxCalls /\ begun \in 0..MaxIterations /\ flying \in Nat
  BY ConstantsAre DEF Init
<1>3. TypeOK
  BY <1>1, <1>2 DEF Init, TypeOK, Places
<1>4. QED
  BY <1>3 DEF Init, RampInv, IterationInv, SleepInv, HookInv, InIteration

LEMMA TickInv ==
    ASSUME RampInv, Tick
    PROVE  RampInv'
<1> USE DEF clock, ctxVars, jsVars, recVars
<1>1. TypeOK'
  BY ConstantsAre DEF RampInv, TypeOK, Places, HookInv, Tick
<1>2. IterationInv'
  BY DEF RampInv, TypeOK, IterationInv, InIteration, Tick
<1>3. SleepInv'
  BY DEF RampInv, SleepInv, Tick
<1>4. HookInv'
  BY DEF RampInv, TypeOK, HookInv, InIteration, Tick
<1>5. QED
  BY <1>1, <1>2, <1>3, <1>4 DEF RampInv

LEMMA CancelInv ==
    ASSUME RampInv, Cancel
    PROVE  RampInv'
<1> USE DEF clock, ctxVars, jsVars, recVars
<1>1. TypeOK'
  <2>1. flying' \in Nat /\ hook' \in BOOLEAN /\ iterDone' \in BOOLEAN /\ ctxDone' \in BOOLEAN
    <3>1. flying \in Nat /\ hook \in BOOLEAN /\ iterDone \in BOOLEAN /\ ctxDone \in BOOLEAN
      BY DEF RampInv, TypeOK
    <3>2. flying' = flying \/ flying' = flying + 1
      BY Zenon DEF Cancel, EndIterationContext
    <3>3. hook' \in BOOLEAN /\ iterDone' \in BOOLEAN /\ ctxDone' \in BOOLEAN
      BY <3>1, Zenon DEF Cancel, EndIterationContext
    <3>4. QED
      BY <3>1, <3>2, <3>3
  <2>2. UNCHANGED <<plan, i, now, pc, wake, startedAt, deadline, interrupt, calls, outcome, recVars>>
    BY DEF Cancel, EndIterationContext
  <2>3. QED
    BY <2>1, <2>2 DEF RampInv, TypeOK
<1>2. IterationInv'
  BY DEF RampInv, TypeOK, IterationInv, InIteration, Cancel, EndIterationContext
<1>3. SleepInv'
  BY DEF RampInv, SleepInv, Cancel, EndIterationContext
<1>4. HookInv'
  BY DEF RampInv, TypeOK, HookInv, InIteration, Cancel, EndIterationContext
<1>5. QED
  BY <1>1, <1>2, <1>3, <1>4 DEF RampInv

LEMMA ExpireInv ==
    ASSUME RampInv, Expire
    PROVE  RampInv'
<1> USE DEF clock, ctxVars, jsVars, recVars
<1>1. TypeOK'
  <2>1. flying' \in Nat /\ hook' \in BOOLEAN /\ iterDone' \in BOOLEAN /\ ctxDone' \in BOOLEAN
    <3>1. flying \in Nat /\ hook \in BOOLEAN /\ iterDone \in BOOLEAN /\ ctxDone \in BOOLEAN
      BY DEF RampInv, TypeOK
    <3>2. flying' = flying \/ flying' = flying + 1
      BY Zenon DEF Expire, Cancel, EndIterationContext
    <3>3. hook' \in BOOLEAN /\ iterDone' \in BOOLEAN /\ ctxDone' \in BOOLEAN
      BY <3>1, Zenon DEF Expire, Cancel, EndIterationContext
    <3>4. QED
      BY <3>1, <3>2, <3>3
  <2>2. UNCHANGED <<plan, i, now, pc, wake, startedAt, deadline, interrupt, calls, outcome, recVars>>
    BY DEF Expire, Cancel, EndIterationContext
  <2>3. QED
    BY <2>1, <2>2 DEF RampInv, TypeOK
<1>2. IterationInv'
  BY DEF RampInv, TypeOK, IterationInv, InIteration, Expire, Cancel, EndIterationContext
<1>3. SleepInv'
  BY DEF RampInv, SleepInv, Expire, Cancel, EndIterationContext
<1>4. HookInv'
  BY DEF RampInv, TypeOK, HookInv, InIteration, Expire, Cancel, EndIterationContext
<1>5. QED
  BY <1>1, <1>2, <1>3, <1>4 DEF RampInv

LEMMA RampDownDeadlineInv ==
    ASSUME RampInv, RampDownDeadline
    PROVE  RampInv'
<1> USE DEF clock, ctxVars, jsVars, recVars
<1>1. TypeOK'
  <2>1. flying' \in Nat /\ hook' \in BOOLEAN /\ iterDone' \in BOOLEAN /\ ctxDone' \in BOOLEAN
    <3>1. flying \in Nat /\ hook \in BOOLEAN /\ iterDone \in BOOLEAN /\ ctxDone \in BOOLEAN
      BY DEF RampInv, TypeOK
    <3>2. flying' = flying \/ flying' = flying + 1
      BY Zenon DEF RampDownDeadline, EndIterationContext
    <3>3. hook' \in BOOLEAN /\ iterDone' \in BOOLEAN /\ ctxDone' \in BOOLEAN
      BY <3>1, Zenon DEF RampDownDeadline, EndIterationContext
    <3>4. QED
      BY <3>1, <3>2, <3>3
  <2>2. UNCHANGED <<plan, i, now, pc, wake, startedAt, deadline, interrupt, calls, outcome, recVars>>
    BY DEF RampDownDeadline, EndIterationContext
  <2>3. QED
    BY <2>1, <2>2 DEF RampInv, TypeOK
<1>2. IterationInv'
  BY DEF RampInv, TypeOK, IterationInv, InIteration, RampDownDeadline, EndIterationContext
<1>3. SleepInv'
  BY DEF RampInv, SleepInv, RampDownDeadline, EndIterationContext
<1>4. HookInv'
  BY DEF RampInv, TypeOK, HookInv, InIteration, RampDownDeadline, EndIterationContext
<1>5. QED
  BY <1>1, <1>2, <1>3, <1>4 DEF RampInv

LEMMA WakeUpInv ==
    ASSUME RampInv, WakeUp
    PROVE  RampInv'
<1> USE DEF clock, ctxVars, jsVars, recVars
<1>1. TypeOK'
  BY ConstantsAre DEF RampInv, TypeOK, Places, HookInv, WakeUp, Exit
<1>2. IterationInv'
  BY DEF RampInv, TypeOK, IterationInv, InIteration, WakeUp, Exit
<1>3. SleepInv'
  BY DEF RampInv, SleepInv, WakeUp, Exit
<1>4. HookInv'
  BY DEF RampInv, TypeOK, HookInv, InIteration, WakeUp, Exit
<1>5. QED
  BY <1>1, <1>2, <1>3, <1>4 DEF RampInv

LEMMA BeginInv ==
    ASSUME RampInv, Begin
    PROVE  RampInv'
<1> USE DEF clock, ctxVars, jsVars, recVars
<1>1. TypeOK'
  BY ConstantsAre DEF RampInv, TypeOK, Places, HookInv, Begin
<1>2. IterationInv'
  BY DEF RampInv, TypeOK, IterationInv, InIteration, Begin
<1>3. SleepInv'
  BY DEF RampInv, SleepInv, Begin
<1>4. HookInv'
  BY DEF RampInv, TypeOK, HookInv, InIteration, Begin
<1>5. QED
  BY <1>1, <1>2, <1>3, <1>4 DEF RampInv

LEMMA CallInv ==
    ASSUME RampInv, Call
    PROVE  RampInv'
<1> USE DEF clock, ctxVars, jsVars, recVars
<1>1. TypeOK'
  BY ConstantsAre DEF RampInv, TypeOK, Places, HookInv, Call
<1>2. IterationInv'
  BY DEF RampInv, TypeOK, IterationInv, InIteration, Call
<1>3. SleepInv'
  BY DEF RampInv, SleepInv, Call
<1>4. HookInv'
  BY DEF RampInv, TypeOK, HookInv, InIteration, Call
<1>5. QED
  BY <1>1, <1>2, <1>3, <1>4 DEF RampInv

LEMMA CallReturnsInv ==
    ASSUME RampInv, CallReturns
    PROVE  RampInv'
<1> USE DEF clock, ctxVars, jsVars, recVars
<1>1. TypeOK'
  BY ConstantsAre DEF RampInv, TypeOK, Places, HookInv, CallReturns
<1>2. IterationInv'
  BY DEF RampInv, TypeOK, IterationInv, InIteration, CallReturns
<1>3. SleepInv'
  BY DEF RampInv, SleepInv, CallReturns
<1>4. HookInv'
  BY DEF RampInv, TypeOK, HookInv, InIteration, CallReturns
<1>5. QED
  BY <1>1, <1>2, <1>3, <1>4 DEF RampInv

LEMMA ScriptEndsInv ==
    ASSUME RampInv, ScriptEnds
    PROVE  RampInv'
<1> USE DEF clock, ctxVars, jsVars, recVars
<1>1. TypeOK'
  BY ConstantsAre DEF RampInv, TypeOK, Places, HookInv, ScriptEnds
<1>2. IterationInv'
  BY DEF RampInv, TypeOK, IterationInv, InIteration, ScriptEnds
<1>3. SleepInv'
  BY DEF RampInv, SleepInv, ScriptEnds
<1>4. HookInv'
  BY DEF RampInv, TypeOK, HookInv, InIteration, ScriptEnds
<1>5. QED
  BY <1>1, <1>2, <1>3, <1>4 DEF RampInv

LEMMA AbortInv ==
    ASSUME RampInv, Abort
    PROVE  RampInv'
<1> USE DEF clock, ctxVars, jsVars, recVars
<1>1. TypeOK'
  BY ConstantsAre DEF RampInv, TypeOK, Places, HookInv, Abort
<1>2. IterationInv'
  BY DEF RampInv, TypeOK, IterationInv, InIteration, Abort
<1>3. SleepInv'
  BY DEF RampInv, SleepInv, Abort
<1>4. HookInv'
  BY DEF RampInv, TypeOK, HookInv, InIteration, Abort
<1>5. QED
  BY <1>1, <1>2, <1>3, <1>4 DEF RampInv

LEMMA InterruptInv ==
    ASSUME RampInv, Interrupt
    PROVE  RampInv'
<1> USE DEF clock, ctxVars, jsVars, recVars
<1>1. TypeOK'
  BY ConstantsAre DEF RampInv, TypeOK, Places, HookInv, Interrupt
<1>2. IterationInv'
  BY DEF RampInv, TypeOK, IterationInv, InIteration, Interrupt
<1>3. SleepInv'
  BY DEF RampInv, SleepInv, Interrupt
<1>4. HookInv'
  BY DEF RampInv, TypeOK, HookInv, InIteration, Interrupt
<1>5. QED
  BY <1>1, <1>2, <1>3, <1>4 DEF RampInv

LEMMA StopHookInv ==
    ASSUME RampInv, StopHook
    PROVE  RampInv'
<1> USE DEF clock, ctxVars, jsVars, recVars
<1>1. TypeOK'
  BY ConstantsAre DEF RampInv, TypeOK, Places, HookInv, StopHook
<1>2. IterationInv'
  BY DEF RampInv, TypeOK, IterationInv, InIteration, StopHook
<1>3. SleepInv'
  BY DEF RampInv, SleepInv, StopHook
<1>4. HookInv'
  BY DEF RampInv, TypeOK, HookInv, InIteration, StopHook
<1>5. QED
  BY <1>1, <1>2, <1>3, <1>4 DEF RampInv

LEMMA ReportInv ==
    ASSUME RampInv, Report
    PROVE  RampInv'
<1> USE DEF clock, ctxVars, jsVars, recVars
<1>1. TypeOK'
  BY ConstantsAre DEF RampInv, TypeOK, Places, HookInv, Report
<1>2. IterationInv'
  BY DEF RampInv, TypeOK, IterationInv, InIteration, Report
<1>3. SleepInv'
  BY DEF RampInv, SleepInv, Report
<1>4. HookInv'
  BY DEF RampInv, TypeOK, HookInv, InIteration, Report
<1>5. QED
  BY <1>1, <1>2, <1>3, <1>4 DEF RampInv

LEMMA CountInv ==
    ASSUME RampInv, Count
    PROVE  RampInv'
<1> USE DEF clock, ctxVars, jsVars, recVars
<1>1. TypeOK'
  BY ConstantsAre DEF RampInv, TypeOK, Places, HookInv, Count
<1>2. IterationInv'
  BY DEF RampInv, TypeOK, IterationInv, InIteration, Count
<1>3. SleepInv'
  BY DEF RampInv, SleepInv, Count
<1>4. HookInv'
  BY DEF RampInv, TypeOK, HookInv, InIteration, Count
<1>5. QED
  BY <1>1, <1>2, <1>3, <1>4 DEF RampInv

LEMMA ExitedInv ==
    ASSUME RampInv, Exited
    PROVE  RampInv'
<1> USE DEF clock, ctxVars, jsVars, recVars
<1>1. TypeOK'
  BY ConstantsAre DEF RampInv, TypeOK, Places, HookInv, Exited, vars
<1>2. IterationInv'
  BY DEF RampInv, TypeOK, IterationInv, InIteration, Exited, vars
<1>3. SleepInv'
  BY DEF RampInv, SleepInv, Exited, vars
<1>4. HookInv'
  BY DEF RampInv, TypeOK, HookInv, InIteration, Exited, vars
<1>5. QED
  BY <1>1, <1>2, <1>3, <1>4 DEF RampInv

LEMMA LoopInv ==
    ASSUME WholePlans, RampInv, Loop
    PROVE  RampInv'
<1> USE DEF clock, ctxVars, jsVars, recVars
<1>1. /\ TypeOK /\ plan \in Plans /\ IsPlan(plan) /\ PlanLength(plan) \in Nat /\ MaxVUs(plan) \in Nat /\ i \in Nat
      /\ now \in Int /\ plan' = plan /\ i' = i /\ now' = now /\ ctxDone' = ctxDone /\ pc = "loop"
  BY PlansAre, LoopIs DEF RampInv, TypeOK
<1>2. PICK on : /\ on = NextOn(plan, i, Max({now, 0}))
                /\ \/ Exit
                   \/ /\ on # NoOffset /\ now < PlanLength(plan) /\ on > now /\ pc' = "asleep" /\ wake' = on
                      /\ UNCHANGED <<ctxVars, jsVars, recVars>>
                   \/ on # NoOffset /\ now < PlanLength(plan) /\ on <= now /\ StartIteration
  BY LoopIs, Zenon
<1>3. CASE Exit
  <2>1. TypeOK'
    BY <1>1, <1>3 DEF TypeOK, Places, Exit
  <2>2. HookInv'
    BY <1>1, <1>3 DEF RampInv, HookInv, Exit
  <2>3. QED
    BY <1>1, <1>3, <2>1, <2>2 DEF RampInv, IterationInv, SleepInv, InIteration, Exit
<1>4. CASE /\ on # NoOffset /\ now < PlanLength(plan) /\ on > now /\ pc' = "asleep" /\ wake' = on
           /\ UNCHANGED <<ctxVars, jsVars, recVars>>
  <2>1. on \in 0..(PlanLength(plan) - 1) /\ Active(plan, i, on)
    BY <1>1, <1>2, <1>4, LoopFinds
  <2>2. TypeOK'
    BY <1>1, <1>4, <2>1 DEF TypeOK, Places
  <2>3. SleepInv'
    BY <1>1, <1>4, <2>1 DEF SleepInv
  <2>4. HookInv'
    BY <1>1, <1>4 DEF RampInv, HookInv
  <2>5. QED
    BY <1>4, <2>2, <2>3, <2>4 DEF RampInv, IterationInv, InIteration
<1>5. CASE on # NoOffset /\ now < PlanLength(plan) /\ on <= now /\ StartIteration
  <2>1. now \in 0..(PlanLength(plan) - 1) /\ Active(plan, i, now)
    BY <1>1, <1>2, <1>5, LoopFinds
  <2>2. /\ begun < MaxIterations /\ pc' = "begin" /\ startedAt' = now /\ deadline' = DeadlineOf(plan, i, now)
        /\ iterDone' = FALSE /\ calls' = 0 /\ outcome' = "none" /\ begun' = begun + 1
        /\ UNCHANGED <<wake, hook, flying, interrupt, iterations, errors>>
    BY <1>5, StartIs
  <2>3. DeadlineOf(plan, i, now) \in Nat \cup {NoOffset}
    BY <1>1, <2>1, DeadlineType
  <2>4. begun' \in 0..MaxIterations /\ calls' \in 0..MaxCalls /\ startedAt' \in Nat
    BY <1>1, <2>1, <2>2, ConstantsAre DEF TypeOK
  <2>5. TypeOK'
    BY <1>1, <2>2, <2>3, <2>4 DEF TypeOK, Places
  <2>6. IterationInv'
    BY <1>1, <2>1, <2>2 DEF IterationInv
  <2>7. HookInv'
    BY <1>1, <2>2 DEF RampInv, HookInv
  <2>8. QED
    BY <2>2, <2>5, <2>6, <2>7 DEF RampInv, SleepInv
<1>6. QED
  BY <1>2, <1>3, <1>4, <1>5

LEMMA StutterInv ==
    ASSUME RampInv, UNCHANGED vars
    PROVE  RampInv'
  BY DEF RampInv, TypeOK, IterationInv, SleepInv, HookInv, InIteration, vars, clock, ctxVars, jsVars, recVars

\* RampInv is inductive.
THEOREM RampInvariance ==
    ASSUME WholePlans
    PROVE  Spec => []RampInv
<1>1. Init => RampInv
  BY InitInv
<1>2. RampInv /\ [Next]_vars => RampInv'
  <2> SUFFICES ASSUME RampInv, [Next]_vars PROVE RampInv'
    OBVIOUS
  <2>1. CASE Tick
    BY <2>1, TickInv
  <2>2. CASE Cancel
    BY <2>2, CancelInv
  <2>3. CASE Expire
    BY <2>3, ExpireInv
  <2>4. CASE RampDownDeadline
    BY <2>4, RampDownDeadlineInv
  <2>5. CASE Loop
    BY <2>5, LoopInv
  <2>6. CASE WakeUp
    BY <2>6, WakeUpInv
  <2>7. CASE Begin
    BY <2>7, BeginInv
  <2>8. CASE Call
    BY <2>8, CallInv
  <2>9. CASE CallReturns
    BY <2>9, CallReturnsInv
  <2>10. CASE ScriptEnds
    BY <2>10, ScriptEndsInv
  <2>11. CASE Abort
    BY <2>11, AbortInv
  <2>12. CASE Interrupt
    BY <2>12, InterruptInv
  <2>13. CASE StopHook
    BY <2>13, StopHookInv
  <2>14. CASE Report
    BY <2>14, ReportInv
  <2>15. CASE Count
    BY <2>15, CountInv
  <2>16. CASE Exited
    BY <2>16, ExitedInv
  <2>17. CASE UNCHANGED vars
    BY <2>17, StutterInv
  <2>18. QED
    BY <2>1, <2>2, <2>3, <2>4, <2>5, <2>6, <2>7, <2>8, <2>9, <2>10, <2>11, <2>12, <2>13, <2>14, <2>15, <2>16, <2>17 DEF Next
<1>3. QED
  BY <1>1, <1>2, PTL DEF Spec

\* The types of the goroutine's state.
THEOREM TypeCorrect ==
    ASSUME WholePlans
    PROVE  Spec => []TypeOK
<1>1. RampInv => TypeOK
  BY DEF RampInv
<1>2. QED
  BY <1>1, RampInvariance, PTL

\* next and activeAt are exact at every tick of every plan (executors.go:118
\* and 168): the offsets are those of the reference line, and the time series
\* counts the VUs that next lets run.
THEOREM StagesAreExact ==
    ASSUME WholePlans
    PROVE  Spec => []StagesExact
<1>1. RampInv => StagesExact
  <2> SUFFICES ASSUME RampInv, now \in 0..(PlanLength(plan) - 1)
               PROVE  /\ \A j \in 0..(MaxVUs(plan) - 1), want \in BOOLEAN :
                           next(plan, j, now, want) = FirstTick(plan, j, now, want)
                      /\ activeAt(plan, now) = Cardinality({j \in 0..(MaxVUs(plan) - 1) : next(plan, j, now, TRUE) = now})
    BY Zenon DEF StagesExact, Length
  <2> DEFINE members == 0..(MaxVUs(plan) - 1)
  <2>1. /\ IsPlan(plan) /\ PlanLength(plan) \in Nat /\ now \in Nat /\ \A j \in members : j \in Nat
    BY PlansAre DEF RampInv, TypeOK
  <2> HIDE DEF members
  <2>2. ASSUME NEW j \in members, NEW want \in BOOLEAN PROVE next(plan, j, now, want) = FirstTick(plan, j, now, want)
    <3>1. j \in Nat
      BY <2>1
    <3>2. next(plan, j, now, TRUE) = FirstTick(plan, j, now, TRUE)
      BY <2>1, <3>1, NextOnIsTick, Zenon
    <3>3. next(plan, j, now, FALSE) = FirstTick(plan, j, now, FALSE)
      BY <2>1, <3>1, NextOffIsTick, Zenon
    <3>4. want = TRUE \/ want = FALSE
      BY Zenon
    <3>5. QED
      BY <3>2, <3>3, <3>4, Zenon
  <2>3. ASSUME NEW j \in members PROVE NextOn(plan, j, now) = now <=> Active(plan, j, now)
    <3> DEFINE r == NextOn(plan, j, now)
    <3>1. FirstOn(plan, j, now, r)
      BY <2>1, NextOnExact
    <3> HIDE DEF r
    <3>2. now \in now..(PlanLength(plan) - 1)
      BY <2>1
    <3>3. r = now => Active(plan, j, now)
      BY <2>1, <3>1 DEF FirstOn, NoOffset
    <3>4. Active(plan, j, now) => r = now
      BY <2>1, <3>1, <3>2 DEF FirstOn
    <3>5. QED
      BY <3>3, <3>4 DEF r
  <2>4. {j \in members : NextOn(plan, j, now) = now} = {j \in members : Active(plan, j, now)}
    BY <2>3
  <2>5. activeAt(plan, now) = Cardinality({j \in members : Active(plan, j, now)})
    BY <2>1, ActiveAtCounts DEF members
  <2>6. {j \in members : next(plan, j, now, TRUE) = now} = {j \in members : NextOn(plan, j, now) = now}
    <3> DEFINE A == {j \in members : next(plan, j, now, TRUE) = now}
               B == {j \in members : NextOn(plan, j, now) = now}
    <3>1. \A j : j \in A <=> j \in members /\ next(plan, j, now, TRUE) = now
      BY Zenon
    <3>2. \A j : j \in B <=> j \in members /\ NextOn(plan, j, now) = now
      BY Zenon
    <3>3. \A j : next(plan, j, now, TRUE) = NextOn(plan, j, now)
      BY NextOnIs, Zenon
    <3> HIDE DEF A, B
    <3>4. A = B
      <4>1. \A j : j \in A <=> j \in B
        BY <3>1, <3>2, <3>3, Zenon
      <4>2. QED
        BY <4>1, Zenon
    <3>5. QED
      BY <3>4, Zenon DEF A, B
  <2>7. activeAt(plan, now) = Cardinality({j \in members : next(plan, j, now, TRUE) = now})
    BY <2>4, <2>5, <2>6, Zenon
  <2>8. QED
    BY <2>2, <2>7, Zenon DEF members
<1>2. QED
  BY <1>1, RampInvariance, PTL

\* An iteration that outlasts the deactivation of its VU by GracefulRampDown
\* has ended or its timer is due, in every plan (RampingVUs.runIteration).
THEOREM RampDownIsCut ==
    ASSUME WholePlans
    PROVE  Spec => []RampDownCuts
<1>1. RampInv => RampDownCuts
  <2> SUFFICES ASSUME RampInv, InIteration, NEW u \in startedAt..(PlanLength(plan) - 1),
                      ~Active(plan, i, u), u + GracefulRampDown < PlanLength(plan) + GracefulStop,
                      ~(now < u + GracefulRampDown)
               PROVE  deadline # NoOffset /\ deadline <= now
    BY DEF RampDownCuts, Length, HardStop
  <2>1. /\ IsPlan(plan) /\ PlanLength(plan) \in Nat /\ i \in Nat /\ now \in Int /\ startedAt \in Nat
        /\ deadline = DeadlineOf(plan, i, startedAt)
    BY PlansAre DEF RampInv, TypeOK, IterationInv
  <2>2. deadline # NoOffset /\ deadline \in Nat /\ deadline <= u + GracefulRampDown
    BY <2>1, DeadlineCuts
  <2>3. QED
    BY <2>1, <2>2, ConstantsAre
<1>2. QED
  BY <1>1, RampInvariance, PTL

\* No iteration begins while its VU is inactive, before the start or after the
\* stages (RampingVUs.drive).
THEOREM BeginsWhenActive ==
    ASSUME WholePlans
    PROVE  Spec => BeginsOnlyActive
<1>1. RampInv /\ [Next]_vars => [begun' > begun => now >= 0 /\ Active(plan, i, now)]_vars
  <2> SUFFICES ASSUME RampInv, [Next]_vars, begun' > begun PROVE now >= 0 /\ Active(plan, i, now)
    OBVIOUS
  <2>1. begun \in Int
    BY DEF RampInv, TypeOK
  <2>2. Loop
    BY <2>1 DEF Next, vars, clock, ctxVars, jsVars, recVars, Tick, Cancel, Expire, RampDownDeadline, WakeUp, Begin, Call, CallReturns, ScriptEnds, Abort, Interrupt, StopHook, Report, Count, Exited, Exit
  <2>3. PICK on : /\ on = NextOn(plan, i, Max({now, 0}))
                  /\ \/ Exit
                     \/ /\ on # NoOffset /\ now < PlanLength(plan) /\ on > now /\ pc' = "asleep" /\ wake' = on
                        /\ UNCHANGED <<ctxVars, jsVars, recVars>>
                     \/ on # NoOffset /\ now < PlanLength(plan) /\ on <= now /\ StartIteration
    BY <2>2, LoopIs, Zenon
  <2>4. on # NoOffset /\ now < PlanLength(plan) /\ on <= now
    BY <2>1, <2>3 DEF Exit, recVars
  <2>5. QED
    BY <2>3, <2>4, LoopFinds DEF RampInv
<1>2. QED
  BY <1>1, RampInvariance, PTL DEF BeginsOnlyActive, Spec

=============================================================================
