------------------------- MODULE Recurrence_proofs -------------------------
(* That the series of Recurrence list what their edits asked for, for every  *)
(* rule, window and length of the day, and whatever is cut, moved, excluded  *)
(* and completed.                                                            *)
EXTENDS Recurrence, FiniteSetTheorems, TLAPS

-----------------------------------------------------------------------------
(* Integers.                                                                 *)

\* A set of naturals that holds zero and each successor holds them all.
LEMMA Naturally ==
    ASSUME NEW S \in SUBSET Nat, 0 \in S, \A n \in S : n + 1 \in S
    PROVE  S = Nat
<1> SUFFICES ASSUME NEW n \in Nat, n \notin S  PROVE  FALSE
  OBVIOUS
<1> DEFINE T == 0..n
           Bad == {t \in SUBSET T : \E m \in T \ S : t = 0..m}
<1>1. IsFiniteSet(T) /\ T \in Bad
  BY FS_Interval
<1>2. IsWellFoundedOn(StrictSubsetOrdering(T), SUBSET T)
  BY <1>1, FS_StrictSubsetOrderingWellFounded, FS_FiniteSubsetsOfFinite
<1>3. PICK t \in Bad : \A u \in Bad : ~(<<u, t>> \in StrictSubsetOrdering(T))
  BY <1>1, <1>2, WFMin, Zenon
<1>4. PICK m \in T \ S : t = 0..m
  BY <1>3
<1>5. m # 0 /\ m - 1 \in T \ S
  BY <1>4
<1>6. 0..(m - 1) \in Bad
  BY <1>4, <1>5
<1>7. <<0..(m - 1), t>> \in StrictSubsetOrdering(T)
  BY <1>3, <1>4, <1>5, <1>6 DEF StrictSubsetOrdering
<1> QED
  BY <1>3, <1>6, <1>7

LEMMA Products ==
    ASSUME NEW j \in Int, NEW k \in Int, NEW s \in Nat
    PROVE  /\ j * s \in Int
           /\ j <= k => j * s <= k * s
           /\ j < k => j * s + s <= k * s
           /\ (j + k) * s = j * s + k * s
           /\ (j - k) * s = j * s - k * s
  OBVIOUS

LEMMA Quotients ==
    ASSUME NEW a \in Int, NEW b \in Nat, b > 0
    PROVE  /\ a \div b \in Int
           /\ (a \div b) * b <= a /\ a < (a \div b) * b + b
           /\ a % b = 0 => a = (a \div b) * b
           /\ \A q \in Int : q * b <= a /\ a < q * b + b => a \div b = q
<1>1. a \div b \in Int /\ (a \div b) * b <= a /\ a < (a \div b) * b + b
  OBVIOUS
<1>2. a % b = 0 => a = (a \div b) * b
  OBVIOUS
<1>3. ASSUME NEW q \in Int, q * b <= a, a < q * b + b
      PROVE  a \div b = q
  <2>1. ~(q < a \div b)
    BY <1>1, <1>3, Products
  <2>2. ~(a \div b < q)
    BY <1>1, <1>3, Products
  <2> QED
    BY <1>1, <2>1, <2>2
<1> QED
  BY <1>1, <1>2, <1>3

-----------------------------------------------------------------------------
(* The clock.                                                                *)

LEMMA Extremes ==
    /\ \A x \in Int : Min({x}) = x /\ Max({x}) = x
    /\ \A x, y \in Int : x < y => /\ Min({x, y}) = x /\ Min({y, x}) = x
                                  /\ Max({x, y}) = y /\ Max({y, x}) = y
  BY DEF Min, Max

LEMMA Changes ==
    SeriesAssumption => /\ GapAt \in Nat /\ FoldAt \in Nat /\ GapAt + DayLength <= FoldAt
                        /\ GapAt = GapDay * DayLength /\ FoldAt = FoldDay * DayLength
                        /\ DayLength \in Nat /\ DayLength >= 6
  BY Products DEF SeriesAssumption, GapAt, FoldAt, Hour, Winter, Summer

LEMMA Walls ==
    ASSUME SeriesAssumption, NEW t \in Int
    PROVE  Wall(t) = IF GapAt <= t /\ t < FoldAt THEN t + 4 ELSE t + 2
  BY Changes DEF Wall, ZoneOffset, Hour, Winter, Summer

LEMMA Names ==
    ASSUME SeriesAssumption, NEW w \in Int
    PROVE  /\ w < GapAt + 2 => Named(w) = {w - 2}
           /\ GapAt + 2 <= w /\ w < GapAt + 4 => Named(w) = {}
           /\ GapAt + 4 <= w /\ w < FoldAt + 2 => Named(w) = {w - 4}
           /\ FoldAt + 2 <= w /\ w < FoldAt + 4 => Named(w) = {w - 2, w - 4}
           /\ FoldAt + 4 <= w => Named(w) = {w - 2}
  BY Changes, Walls DEF Named, Hour, Winter, Summer

LEMMA Resolved ==
    ASSUME SeriesAssumption, NEW w \in Int
    PROVE  /\ Resolve(w) = IF GapAt + 4 <= w /\ w < FoldAt + 4 THEN w - 4 ELSE w - 2
           /\ Wall(Resolve(w)) = IF GapAt + 2 <= w /\ w < GapAt + 4 THEN w + 2 ELSE w
<1>1. Resolve(w) = IF GapAt + 4 <= w /\ w < FoldAt + 4 THEN w - 4 ELSE w - 2
  <2>1. Min({w - 2}) = w - 2 /\ Min({w - 4}) = w - 4
    <3>1. w - 2 \in Int /\ w - 4 \in Int
      OBVIOUS
    <3> QED
      BY <3>1, Extremes, Zenon
  <2>2. Min({w - 2, w - 4}) = w - 4
    <3>1. w - 2 \in Int /\ w - 4 \in Int /\ w - 4 < w - 2
      OBVIOUS
    <3> QED
      BY <3>1, Extremes, Zenon
  <2>3. /\ Named(w) = {} => Resolve(w) = w - 2
        /\ Named(w) # {} => Resolve(w) = Min(Named(w))
    BY DEF Resolve, Winter, Hour
  <2>4. GapAt \in Nat /\ FoldAt \in Nat /\ GapAt + 6 <= FoldAt
    BY Changes
  <2>5. CASE w < GapAt + 2 \/ FoldAt + 4 <= w
    <3>1. Named(w) = {w - 2}
      BY <2>4, <2>5, Names
    <3>2. Resolve(w) = Min({w - 2})
      BY <2>3, <3>1
    <3> QED
      BY <2>1, <2>4, <2>5, <3>2
  <2>6. CASE GapAt + 2 <= w /\ w < GapAt + 4
    BY <2>3, <2>4, <2>6, Names
  <2>7. CASE GapAt + 4 <= w /\ w < FoldAt + 2
    <3>1. Named(w) = {w - 4}
      BY <2>4, <2>7, Names
    <3>2. Resolve(w) = Min({w - 4})
      BY <2>3, <3>1
    <3> QED
      BY <2>1, <2>4, <2>7, <3>2
  <2>8. CASE FoldAt + 2 <= w /\ w < FoldAt + 4
    <3>1. Named(w) = {w - 2, w - 4}
      BY <2>4, <2>8, Names
    <3>2. Resolve(w) = Min({w - 2, w - 4})
      BY <2>3, <3>1
    <3> QED
      BY <2>2, <2>4, <2>8, <3>2
  <2> QED
    BY <2>4, <2>5, <2>6, <2>7, <2>8
<1> QED
  BY <1>1, Walls, Changes

LEMMA Passes ==
    ASSUME SeriesAssumption, NEW t \in Int
    PROVE  /\ IsSecondPass(t) <=> FoldAt <= t /\ t < FoldAt + 2
           /\ FirstPass(t) = IF FoldAt <= t /\ t < FoldAt + 2 THEN t - 2 ELSE t
           /\ SecondPass(t) = IF FoldAt - 2 <= t /\ t < FoldAt THEN t + 2 ELSE t
           /\ FollowsSkippedHour(t) <=> GapAt <= t /\ t < GapAt + 2
<1> DEFINE w == Wall(t)
<1>1. w \in Int /\ w = IF GapAt <= t /\ t < FoldAt THEN t + 4 ELSE t + 2
  BY Walls
<1>2. GapAt \in Nat /\ FoldAt \in Nat /\ GapAt + 6 <= FoldAt
  BY Changes
<1> HIDE DEF w
<1>3. Min({w - 2}) = w - 2 /\ Min({w - 4}) = w - 4 /\ Max({w - 2}) = w - 2 /\ Max({w - 4}) = w - 4
  <2>1. w - 2 \in Int /\ w - 4 \in Int
    BY <1>1
  <2> QED
    BY <2>1, Extremes, Zenon
<1>4. Min({w - 2, w - 4}) = w - 4 /\ Max({w - 2, w - 4}) = w - 2
  <2>1. w - 2 \in Int /\ w - 4 \in Int /\ w - 4 < w - 2
    BY <1>1
  <2> QED
    BY <2>1, Extremes, Zenon
<1>5. /\ Min(Named(w)) = IF FoldAt <= t /\ t < FoldAt + 2 THEN t - 2 ELSE t
      /\ Max(Named(w)) = IF FoldAt - 2 <= t /\ t < FoldAt THEN t + 2 ELSE t
  <2>1. CASE t < GapAt
    <3>1. Named(w) = {w - 2}
      BY <1>1, <1>2, <2>1, Names
    <3> QED
      BY <1>1, <1>2, <1>3, <2>1, <3>1
  <2>2. CASE GapAt <= t /\ t < FoldAt - 2
    <3>1. Named(w) = {w - 4}
      BY <1>1, <1>2, <2>2, Names
    <3> QED
      BY <1>1, <1>2, <1>3, <2>2, <3>1
  <2>3. CASE FoldAt - 2 <= t /\ t < FoldAt
    <3>1. Named(w) = {w - 2, w - 4}
      BY <1>1, <1>2, <2>3, Names
    <3> QED
      BY <1>1, <1>2, <1>4, <2>3, <3>1
  <2>4. CASE FoldAt <= t /\ t < FoldAt + 2
    <3>1. Named(w) = {w - 2, w - 4}
      BY <1>1, <1>2, <2>4, Names
    <3> QED
      BY <1>1, <1>2, <1>4, <2>4, <3>1
  <2>5. CASE FoldAt + 2 <= t
    <3>1. Named(w) = {w - 2}
      BY <1>1, <1>2, <2>5, Names
    <3> QED
      BY <1>1, <1>2, <1>3, <2>5, <3>1
  <2> QED
    BY <1>2, <2>1, <2>2, <2>3, <2>4, <2>5
<1>6. FollowsSkippedHour(t) <=> GapAt <= t /\ t < GapAt + 2
  <2>1. w - 2 \in Int /\ (FollowsSkippedHour(t) <=> Named(w - 2) = {})
    BY <1>1 DEF FollowsSkippedHour, Hour, w
  <2> QED
    BY <1>1, <1>2, <2>1, Names
<1>7. /\ IsSecondPass(t) <=> t # Min(Named(w))
      /\ FirstPass(t) = Min(Named(w)) /\ SecondPass(t) = Max(Named(w))
  BY DEF IsSecondPass, FirstPass, SecondPass, w
<1> QED
  BY <1>2, <1>5, <1>6, <1>7

\* The midnights of Paris are on neither hour that changes.
LEMMA Days ==
    ASSUME SeriesAssumption, NEW d \in Int
    PROVE  /\ d * DayLength \in Int
           /\ d <= GapDay => d * DayLength <= GapAt
           /\ d > GapDay => GapAt + 6 <= d * DayLength
           /\ d <= FoldDay => d * DayLength <= FoldAt
           /\ d > FoldDay => FoldAt + 6 <= d * DayLength
           /\ StartOfDay(d) = Resolve(d * DayLength)
           /\ Wall(StartOfDay(d)) = d * DayLength
           /\ Date(StartOfDay(d)) = d
           /\ StartOfDay(d) \in Int
<1>1. GapDay \in Nat /\ FoldDay \in Nat /\ DayLength \in Nat /\ DayLength >= 6
  BY DEF SeriesAssumption
<1>2. GapAt = GapDay * DayLength /\ FoldAt = FoldDay * DayLength /\ GapAt \in Nat /\ FoldAt \in Nat
      /\ GapAt + 6 <= FoldAt
  BY Changes
<1>3. d * DayLength \in Int
  BY <1>1
<1>4. /\ d <= GapDay => d * DayLength <= GapAt
      /\ d > GapDay => GapAt + 6 <= d * DayLength
  BY <1>1, <1>2, Products
<1>5. /\ d <= FoldDay => d * DayLength <= FoldAt
      /\ d > FoldDay => FoldAt + 6 <= d * DayLength
  BY <1>1, <1>2, Products
<1> DEFINE w == d * DayLength
<1>6. w \in Int /\ ~(GapAt + 2 <= w /\ w < GapAt + 4)
  BY <1>1, <1>2, <1>3, <1>4
<1> HIDE DEF w
<1>7. Named(w) # {}
  <2>1. w - 2 \in {w - 2} /\ w - 4 \in {w - 4} /\ w - 2 \in {w - 2, w - 4}
    OBVIOUS
  <2> QED
    BY <1>2, <1>6, <2>1, Names
<1>8. StartOfDay(d) = Min(Named(w)) /\ Resolve(w) = Min(Named(w))
  BY <1>7 DEF StartOfDay, Resolve, w
<1>9. Wall(Resolve(w)) = w /\ Resolve(w) \in Int
  BY <1>6, Resolved
<1>10. Date(Resolve(w)) = d
  <2>1. d * DayLength <= w /\ w < d * DayLength + DayLength
    BY <1>1, <1>3 DEF w
  <2>2. w \div DayLength = d
    BY <1>1, <1>6, <2>1, Quotients
  <2> QED
    BY <1>9, <2>2 DEF Date
<1> QED
  BY <1>3, <1>4, <1>5, <1>8, <1>9, <1>10 DEF w

LEMMA DaysInOrder ==
    ASSUME SeriesAssumption, NEW d \in Int, NEW e \in Int
    PROVE  /\ d < e => StartOfDay(d) + 3 < StartOfDay(e)
           /\ d <= e <=> StartOfDay(d) <= StartOfDay(e)
           /\ d = e <=> StartOfDay(d) = StartOfDay(e)
<1>1. ASSUME NEW i \in Int, NEW j \in Int, i < j
      PROVE  StartOfDay(i) + 3 < StartOfDay(j)
  <2>1. DayLength \in Nat /\ DayLength >= 6 /\ GapAt \in Nat /\ FoldAt \in Nat
    BY Changes
  <2>2. i * DayLength \in Int /\ j * DayLength \in Int /\ i * DayLength + 6 <= j * DayLength
    BY <1>1, <2>1, Products
  <2>3. Resolve(i * DayLength) + 3 < Resolve(j * DayLength)
    BY <2>1, <2>2, Resolved
  <2> QED
    BY <2>3, Days
<1>2. StartOfDay(d) \in Int /\ StartOfDay(e) \in Int
  BY Days
<1> QED
  BY <1>1, <1>2

-----------------------------------------------------------------------------
(* The place of an instant among others.                                     *)

Below(S, t) == {u \in S : u < t}
Before(S, t) == Cardinality(Below(S, t))
\* Nothing is preceded by infinitely many.
Discrete(S) == S \subseteq Int /\ \A t \in S : IsFiniteSet(Below(S, t))

LEMMA Places ==
    ASSUME NEW S, Discrete(S), NEW t \in S, NEW u \in S
    PROVE  /\ Before(S, t) \in Nat
           /\ t < u <=> Before(S, t) < Before(S, u)
           /\ t = u <=> Before(S, t) = Before(S, u)
<1>1. ASSUME NEW x \in S, NEW y \in S, x < y
      PROVE  Before(S, x) < Before(S, y)
  <2>1. x \in Int /\ y \in Int /\ IsFiniteSet(Below(S, x)) /\ IsFiniteSet(Below(S, y))
    BY DEF Discrete
  <2>2. x \in Below(S, y) /\ x \notin Below(S, x)
    BY <1>1, <2>1 DEF Below
  <2>3. Below(S, x) \subseteq Below(S, y)
    <3> SUFFICES ASSUME NEW z \in S, z < x  PROVE  z < y
      BY DEF Below
    <3>1. z \in Int
      BY DEF Discrete
    <3> QED
      BY <1>1, <2>1, <3>1
  <2>4. Before(S, x) \in Nat /\ Before(S, y) \in Nat /\ Before(S, x) <= Before(S, y)
    BY <2>1, <2>3, FS_Subset, FS_CardinalityType DEF Before
  <2>5. Before(S, x) # Before(S, y)
    BY <2>1, <2>2, <2>3, FS_Subset DEF Before
  <2> QED
    BY <2>4, <2>5
<1>2. /\ Before(S, t) \in Nat /\ Before(S, u) \in Nat
      /\ t \in Int /\ u \in Int
  BY FS_CardinalityType DEF Before, Discrete
<1>3. t < u \/ u < t \/ t = u
  BY <1>2
<1> QED
  BY <1>1, <1>2, <1>3

LEMMA Ascent ==
    ASSUME NEW f \in [Nat -> Int], \A k \in Nat : f[k] <= f[k + 1]
    PROVE  \A j, k \in Nat : j <= k => f[j] <= f[k]
<1> SUFFICES ASSUME NEW j \in Nat
             PROVE  \A k \in Nat : j <= k => f[j] <= f[k]
  OBVIOUS
<1> DEFINE S == {k \in Nat : j <= k => f[j] <= f[k]}
<1>1. 0 \in S
  OBVIOUS
<1>2. ASSUME NEW k \in S  PROVE  k + 1 \in S
  BY <1>2
<1>3. S = Nat
  <2> HIDE DEF S
  <2>1. S \in SUBSET Nat
    BY DEF S
  <2> QED
    BY <1>1, <1>2, <2>1, Naturally
<1> QED
  BY <1>3

LEMMA PlacesOfAscent ==
    ASSUME NEW f \in [Nat -> Int], NEW g \in [Nat -> Nat], g[0] = 0,
           \A k \in Nat : f[k] <= f[k + 1],
           \A k \in Nat : g[k + 1] = IF f[k] < f[k + 1] THEN g[k] + 1 ELSE g[k],
           NEW S, S = {f[k] : k \in Nat}
    PROVE  Discrete(S) /\ \A k \in Nat : Before(S, f[k]) = g[k]
<1>1. \A j, k \in Nat : j <= k => f[j] <= f[k]
  BY Ascent
<1> DEFINE B(k) == Below(S, f[k])
           P == {k \in Nat : IsFiniteSet(B(k)) /\ Cardinality(B(k)) = g[k]}
<1>2. 0 \in P
  <2>1. B(0) = {}
    BY <1>1 DEF Below
  <2> QED
    BY <2>1, FS_EmptySet
<1>3. ASSUME NEW k \in P  PROVE  k + 1 \in P
  <2>1. k \in Nat /\ k + 1 \in Nat /\ f[k] \in Int /\ f[k + 1] \in Int /\ f[k] <= f[k + 1]
    BY <1>3
  <2>2. CASE f[k] = f[k + 1]
    BY <1>3, <2>1, <2>2
  <2>3. CASE f[k] < f[k + 1]
    <3>1. \A j \in Nat : j <= k \/ k + 1 <= j
      BY <2>1
    <3>2. \A j \in Nat : f[j] < f[k + 1] <=> f[j] < f[k] \/ f[j] = f[k]
      <4> SUFFICES ASSUME NEW j \in Nat
                   PROVE  f[j] < f[k + 1] <=> f[j] < f[k] \/ f[j] = f[k]
        OBVIOUS
      <4>1. f[j] \in Int /\ f[k] \in Int /\ f[k + 1] \in Int /\ f[k] < f[k + 1]
        BY <2>1, <2>3
      <4>2. CASE j <= k
        <5>1. f[j] <= f[k]
          BY <1>1, <2>1, <4>2
        <5> QED
          BY <4>1, <5>1
      <4>3. CASE k + 1 <= j
        <5>1. f[k + 1] <= f[j]
          BY <1>1, <2>1, <4>3
        <5> QED
          BY <4>1, <5>1
      <4> QED
        BY <3>1, <4>2, <4>3
    <3>3. B(k + 1) = B(k) \cup {f[k]}
      BY <2>1, <3>2 DEF Below
    <3>4. f[k] \notin B(k)
      BY <2>1 DEF Below
    <3>5. IsFiniteSet(B(k + 1)) /\ Cardinality(B(k + 1)) = Cardinality(B(k)) + 1
      BY <1>3, <3>3, <3>4, FS_AddElement
    <3> QED
      BY <1>3, <2>1, <2>3, <3>5
  <2> QED
    BY <2>1, <2>2, <2>3
<1>4. P = Nat
  <2> HIDE DEF P
  <2>1. P \in SUBSET Nat
    BY DEF P
  <2> QED
    BY <1>2, <1>3, <2>1, Naturally
<1> QED
  BY <1>4 DEF Before, Discrete

-----------------------------------------------------------------------------
(* The occurrences of a rule.                                                *)

\* The rule of an event, or of a plan.
Timing(p) ==
    /\ p.start \in Int /\ p.allDay \in BOOLEAN /\ p.step \in Nat /\ p.step >= 2
    /\ p.allDay => p.start = StartOfDay(Date(p.start)) /\ p.step % DayLength = 0

Clock(p, k) == Wall(p.start) + k * p.step
At(p, k) == Resolve(Clock(p, k))
Firsts(p) == {At(p, k) : k \in Nat}
\* The occurrence an hourly rule loses to the skipped hour.
Lost(p, k) == IF p.step = 2 /\ Clock(p, 0) < GapAt + 4 /\ Clock(p, k) >= GapAt + 4 THEN 1 ELSE 0

LEMMA Clocks ==
    ASSUME NEW p, Timing(p), SeriesAssumption, NEW k \in Nat
    PROVE  /\ Clock(p, k) \in Int /\ Clock(p, 0) = Wall(p.start)
           /\ Clock(p, k + 1) = Clock(p, k) + p.step
           /\ Clock(p, 0) <= Clock(p, k)
           /\ k > 0 => Clock(p, 0) + p.step <= Clock(p, k)
<1>1. p.start \in Int /\ Wall(p.start) \in Int /\ p.step \in Nat /\ p.step >= 2
  BY Walls, Changes DEF Timing
<1>2. k * p.step \in Nat /\ (k + 1) * p.step = k * p.step + p.step /\ 0 * p.step = 0
      /\ (k > 0 => p.step <= k * p.step)
  BY <1>1
<1>3. /\ Clock(p, k) = Wall(p.start) + k * p.step /\ Clock(p, 0) = Wall(p.start) + 0 * p.step
      /\ Clock(p, k + 1) = Wall(p.start) + (k + 1) * p.step
  BY DEF Clock
<1> DEFINE a == k * p.step
           b == (k + 1) * p.step
           c == 0 * p.step
<1> HIDE DEF a, b, c
<1>4. /\ Clock(p, k) = Wall(p.start) + a /\ Clock(p, 0) = Wall(p.start) + c
      /\ Clock(p, k + 1) = Wall(p.start) + b
      /\ a \in Nat /\ b = a + p.step /\ c = 0 /\ (k > 0 => p.step <= a)
  BY <1>2, <1>3 DEF a, b, c
<1> QED
  BY <1>1, <1>4

LEMMA Ats ==
    ASSUME NEW p, Timing(p), SeriesAssumption, NEW k \in Nat
    PROVE  /\ At(p, k) \in Int /\ At(p, k) <= At(p, k + 1)
           /\ At(p, k) = At(p, k + 1) <=>
                p.step = 2 /\ GapAt + 2 <= Clock(p, k) /\ Clock(p, k) < GapAt + 4
           /\ FirstPass(At(p, k)) = At(p, k) /\ ~IsSecondPass(At(p, k))
           /\ At(p, 0) = FirstPass(p.start)
           /\ Clock(p, k) - 4 <= At(p, k)
<1>1. p.start \in Int /\ p.step \in Nat /\ p.step >= 2
  BY DEF Timing
<1>2. GapAt \in Nat /\ FoldAt \in Nat /\ GapAt + 6 <= FoldAt
  BY Changes
<1> DEFINE w == Clock(p, k)
           R(x) == IF GapAt + 4 <= x /\ x < FoldAt + 4 THEN x - 4 ELSE x - 2
<1>3. w \in Int /\ Clock(p, k + 1) = w + p.step /\ Clock(p, 0) = Wall(p.start)
  BY Clocks
<1>4. At(p, k) = R(w) /\ At(p, k + 1) = R(w + p.step)
  BY <1>1, <1>3, Resolved DEF At
<1> HIDE DEF w
<1>5. /\ R(w) \in Int /\ R(w) <= R(w + p.step)
      /\ R(w) = R(w + p.step) <=> p.step = 2 /\ GapAt + 2 <= w /\ w < GapAt + 4
      /\ ~(FoldAt <= R(w) /\ R(w) < FoldAt + 2) /\ w - 4 <= R(w)
  BY <1>1, <1>2, <1>3
<1>6. FirstPass(At(p, k)) = At(p, k) /\ ~IsSecondPass(At(p, k))
  BY <1>4, <1>5, Passes
<1>7. At(p, 0) = FirstPass(p.start)
  <2>1. Wall(p.start) = IF GapAt <= p.start /\ p.start < FoldAt THEN p.start + 4 ELSE p.start + 2
    BY <1>1, Walls
  <2>2. At(p, 0) = R(Wall(p.start))
    BY <1>1, <1>3, <2>1, Resolved DEF At
  <2> QED
    BY <1>1, <1>2, <2>1, <2>2, Passes
<1> QED
  BY <1>4, <1>5, <1>6, <1>7 DEF w

\* All-day occurrences start at midnight.
LEMMA AllDayAts ==
    ASSUME NEW p, Timing(p), SeriesAssumption, p.allDay, NEW k \in Nat
    PROVE  /\ Date(p.start) + k * (p.step \div DayLength) \in Int
           /\ At(p, k) = StartOfDay(Date(p.start) + k * (p.step \div DayLength))
           /\ Clock(p, k) = (Date(p.start) + k * (p.step \div DayLength)) * DayLength
           /\ ~IsSecondPass(p.start)
<1> DEFINE d == Date(p.start)
           m == p.step \div DayLength
<1>1. p.start \in Int /\ p.step \in Nat /\ p.start = StartOfDay(d) /\ p.step % DayLength = 0
      /\ DayLength \in Nat /\ DayLength >= 6
  BY DEF Timing, SeriesAssumption
<1>2. m \in Int /\ p.step = m * DayLength
  BY <1>1, Quotients
<1>3. d \in Int
  BY <1>1, Walls, Changes, Quotients DEF Date
<1> HIDE DEF d, m
<1>4. k * p.step = (k * m) * DayLength
  BY <1>1, <1>2
<1>5. Wall(p.start) = d * DayLength
  BY <1>1, <1>3, Days
<1>6. d + k * m \in Int /\ (d + k * m) * DayLength = d * DayLength + (k * m) * DayLength
  BY <1>1, <1>2, <1>3
<1>7. Clock(p, k) = (d + k * m) * DayLength
  BY <1>4, <1>5, <1>6 DEF Clock
<1>8. At(p, k) = StartOfDay(d + k * m)
  BY <1>6, <1>7, Days DEF At
<1>9. ~IsSecondPass(p.start)
  <2>1. /\ d <= FoldDay => d * DayLength <= FoldAt
        /\ d > FoldDay => FoldAt + 6 <= d * DayLength
    BY <1>3, Days
  <2>2. FoldDay \in Int /\ FoldAt \in Int /\ d * DayLength \in Int
    BY <1>1, <1>3, Changes DEF SeriesAssumption
  <2>3. Wall(p.start) = IF GapAt <= p.start /\ p.start < FoldAt THEN p.start + 4 ELSE p.start + 2
    BY <1>1, Walls
  <2>4. ~(FoldAt <= p.start /\ p.start < FoldAt + 2)
    BY <1>1, <1>3, <1>5, <2>1, <2>2, <2>3
  <2> QED
    BY <1>1, <2>4, Passes
<1> QED
  BY <1>6, <1>7, <1>8, <1>9 DEF d, m

LEMMA Kths ==
    ASSUME NEW p, Timing(p), SeriesAssumption, NEW k \in Nat
    PROVE  /\ Kth(p, k) = IF k = 0 THEN p.start ELSE At(p, k)
           /\ Kth(p, k) \in Int /\ Kth(p, k) <= Kth(p, k + 1)
           /\ FirstPass(Kth(p, k)) = At(p, k)
           /\ Kth(p, k) = Kth(p, k + 1) <=> At(p, k) = At(p, k + 1)
           /\ At(p, k) <= Kth(p, k) /\ Kth(p, k) <= At(p, k) + 2
           /\ Kth(p, k) = IF IsSecondPass(p.start) THEN SecondPass(At(p, k)) ELSE At(p, k)
           /\ IsSecondPass(p.start) => ~p.allDay
<1>1. p.start \in Int /\ p.step \in Nat /\ p.step >= 2 /\ p.allDay \in BOOLEAN
  BY DEF Timing
<1>2. GapAt \in Nat /\ FoldAt \in Nat /\ GapAt + 6 <= FoldAt
  BY Changes
<1>3. Kth(p, k) = IF IsSecondPass(p.start) THEN SecondPass(At(p, k)) ELSE At(p, k)
  BY AllDayAts DEF Kth, At, Clock
<1>4. At(p, k) \in Int /\ At(p, k + 1) \in Int /\ At(p, 0) \in Int /\ At(p, 0) = FirstPass(p.start)
      /\ At(p, k) <= At(p, k + 1) /\ FirstPass(At(p, k)) = At(p, k)
  BY Ats
<1>5. IsSecondPass(p.start) => ~p.allDay
  BY AllDayAts
<1>6. CASE ~IsSecondPass(p.start)
  <2>1. At(p, 0) = p.start
    BY <1>1, <1>4, <1>6, Passes
  <2>2. Kth(p, k) = At(p, k) /\ Kth(p, k + 1) = At(p, k + 1)
    BY <1>3, <1>6, AllDayAts DEF Kth, At, Clock
  <2> QED
    BY <1>3, <1>4, <1>5, <2>1, <2>2
<1>7. CASE IsSecondPass(p.start)
  <2>1. FoldAt <= p.start /\ p.start < FoldAt + 2 /\ At(p, 0) = p.start - 2
    BY <1>1, <1>4, <1>7, Passes
  <2>2. Wall(p.start) = p.start + 2
    BY <1>1, <1>2, <2>1, Walls
  <2>3. ASSUME NEW i \in Nat, i > 0
        PROVE  /\ At(p, i) = Clock(p, i) - 2 /\ At(p, i) >= p.start + 2 /\ At(p, i) \in Int
               /\ SecondPass(At(p, i)) = At(p, i)
    <3>1. Clock(p, i) \in Int /\ Clock(p, i) >= p.start + 4
      BY <1>1, <2>2, <2>3, Clocks
    <3>2. At(p, i) = Clock(p, i) - 2
      BY <1>1, <1>2, <2>1, <3>1, Resolved DEF At
    <3> QED
      BY <1>1, <1>2, <2>1, <3>1, <3>2, Passes
  <2>4. SecondPass(At(p, 0)) = p.start
    BY <1>1, <1>2, <2>1, Passes
  <2>5. Kth(p, k + 1) = At(p, k + 1) /\ At(p, k + 1) >= p.start + 2
    <3>1. k + 1 \in Nat /\ k + 1 > 0
      OBVIOUS
    <3>2. Kth(p, k + 1) = SecondPass(At(p, k + 1))
      BY <1>5, <1>7 DEF Kth, At, Clock
    <3> QED
      BY <2>3, <3>1, <3>2
  <2>6. CASE k = 0
    <3>1. FirstPass(p.start) = p.start - 2
      BY <1>4, <2>1
    <3> QED
      BY <1>1, <1>3, <1>4, <1>5, <1>7, <2>1, <2>4, <2>5, <2>6, <3>1
  <2>7. CASE k > 0
    BY <1>3, <1>4, <1>5, <1>7, <2>3, <2>5, <2>7
  <2> QED
    BY <2>6, <2>7
<1> QED
  BY <1>6, <1>7

\* What a plan has, ends aside.
All(p) == IF p.step = Unset THEN {p.start} ELSE {Kth(p, k) : k \in Nat}

LEMMA Losses ==
    ASSUME NEW p, Timing(p), SeriesAssumption, NEW k \in Nat
    PROVE  /\ Lost(p, k) \in {0, 1} /\ k - Lost(p, k) \in Nat /\ Lost(p, 0) = 0
           /\ k + 1 - Lost(p, k + 1) = IF At(p, k) < At(p, k + 1) THEN k - Lost(p, k) + 1
                                       ELSE k - Lost(p, k)
<1>1. Clock(p, k) \in Int /\ Clock(p, 0) \in Int /\ Clock(p, k + 1) = Clock(p, k) + p.step
      /\ Clock(p, 0) <= Clock(p, k)
  BY Clocks
<1>2. GapAt \in Nat /\ p.step \in Nat /\ p.step >= 2
  BY Changes DEF Timing
<1>3. At(p, k) \in Int /\ At(p, k) <= At(p, k + 1)
      /\ (At(p, k) = At(p, k + 1) <=>
            p.step = 2 /\ GapAt + 2 <= Clock(p, k) /\ Clock(p, k) < GapAt + 4)
      /\ At(p, k + 1) \in Int
  BY Ats
<1>4. Lost(p, 0) = 0 /\ Lost(p, k) \in {0, 1} /\ (Lost(p, k) = 1 => k # 0)
  BY <1>1, <1>2 DEF Lost
<1>5. At(p, k) < At(p, k + 1) => Lost(p, k + 1) = Lost(p, k)
  BY <1>1, <1>2, <1>3 DEF Lost
<1>6. At(p, k) = At(p, k + 1) => Lost(p, k + 1) = 1 /\ Lost(p, k) = 0
  BY <1>1, <1>2, <1>3 DEF Lost
<1> QED
  BY <1>3, <1>4, <1>5, <1>6

LEMMA Sequence ==
    ASSUME NEW p, Timing(p), SeriesAssumption
    PROVE  /\ All(p) = {Kth(p, k) : k \in Nat} /\ Discrete(All(p)) /\ Discrete(Firsts(p))
           /\ \A k \in Nat : /\ Before(All(p), Kth(p, k)) = k - Lost(p, k)
                             /\ Before(Firsts(p), At(p, k)) = k - Lost(p, k)
           /\ \A j, k \in Nat : j <= k => Kth(p, j) <= Kth(p, k) /\ At(p, j) <= At(p, k)
           /\ \A o \in Nat : \E x \in All(p) : Before(All(p), x) = o
<1> DEFINE f == [k \in Nat |-> Kth(p, k)]
           h == [k \in Nat |-> At(p, k)]
           g == [k \in Nat |-> k - Lost(p, k)]
<1>1. p.step # Unset
  BY DEF Timing, SeriesAssumption
<1>2. All(p) = {Kth(p, k) : k \in Nat}
  BY <1>1 DEF All
<1>3. /\ f \in [Nat -> Int] /\ \A k \in Nat : f[k] <= f[k + 1]
      /\ h \in [Nat -> Int] /\ \A k \in Nat : h[k] <= h[k + 1]
      /\ \A k \in Nat : f[k] < f[k + 1] <=> h[k] < h[k + 1]
  BY Kths, Ats
<1>4. /\ g \in [Nat -> Nat] /\ g[0] = 0
      /\ \A k \in Nat : g[k + 1] = IF h[k] < h[k + 1] THEN g[k] + 1 ELSE g[k]
  BY Losses
<1>5. All(p) = {f[k] : k \in Nat} /\ Firsts(p) = {h[k] : k \in Nat}
  BY <1>2 DEF Firsts
<1>6. /\ \A k \in Nat : f[k] = Kth(p, k) /\ h[k] = At(p, k) /\ g[k] = k - Lost(p, k)
  OBVIOUS
<1> HIDE DEF f, g, h
<1>7. Discrete(All(p)) /\ \A k \in Nat : Before(All(p), f[k]) = g[k]
  <2>1. \A k \in Nat : g[k + 1] = IF f[k] < f[k + 1] THEN g[k] + 1 ELSE g[k]
    BY <1>3, <1>4
  <2> QED
    BY <1>3, <1>4, <1>5, <2>1, PlacesOfAscent
<1>8. Discrete(Firsts(p)) /\ \A k \in Nat : Before(Firsts(p), h[k]) = g[k]
  BY <1>3, <1>4, <1>5, PlacesOfAscent
<1>9. /\ \A j, k \in Nat : j <= k => f[j] <= f[k]
      /\ \A j, k \in Nat : j <= k => h[j] <= h[k]
  BY <1>3, Ascent
<1>10. ASSUME NEW o \in Nat  PROVE  \E x \in All(p) : Before(All(p), x) = o
  <2>1. Lost(p, o) \in {0, 1} /\ Lost(p, o + 1) \in {0, 1}
    BY Losses
  <2>2. CASE Lost(p, o) = 0
    <3>1. Before(All(p), f[o]) = o /\ f[o] \in All(p)
      <4>1. Before(All(p), f[o]) = g[o] /\ f[o] \in All(p)
        BY <1>5, <1>7
      <4> QED
        BY <1>6, <2>2, <4>1
    <3> QED
      BY <3>1
  <2>3. CASE Lost(p, o) = 1
    <3>1. Lost(p, o + 1) = 1
      <4>1. /\ Clock(p, o) \in Int /\ Clock(p, o + 1) = Clock(p, o) + p.step
            /\ GapAt \in Nat /\ p.step \in Nat
        BY Clocks, Changes DEF Timing
      <4> QED
        BY <2>3, <4>1 DEF Lost
    <3>2. Before(All(p), f[o + 1]) = o /\ f[o + 1] \in All(p)
      <4>1. o + 1 \in Nat
        OBVIOUS
      <4>2. Before(All(p), f[o + 1]) = g[o + 1] /\ f[o + 1] \in All(p)
        BY <1>5, <1>7, <4>1, Zenon
      <4>3. g[o + 1] = (o + 1) - Lost(p, o + 1)
        BY <1>6, <4>1, Zenon
      <4> QED
        BY <3>1, <4>2, <4>3
    <3> QED
      BY <3>2
  <2> QED
    BY <2>1, <2>2, <2>3
<1> QED
  BY <1>2, <1>6, <1>7, <1>8, <1>9, <1>10

-----------------------------------------------------------------------------
(* The unroll.                                                               *)

Walks(rule, anchor, after, before, n, f) ==
    f = [k \in 0..n |->
           IF k = 0 THEN NotWalked
           ELSE Walked(f[k - 1], rule, Resolve(Wall(anchor) + (k - 1) * rule.step), after, before)]

LEMMA WalkExists ==
    ASSUME NEW rule, NEW anchor, NEW after, NEW before
    PROVE  \A n \in Nat : \E f : Walks(rule, anchor, after, before, n, f)
<1> DEFINE W(n, f) == Walks(rule, anchor, after, before, n, f)
           S == {n \in Nat : \E f : W(n, f)}
           next(k, w) == Walked(w, rule, Resolve(Wall(anchor) + (k - 1) * rule.step), after, before)
<1>1. 0 \in S
  <2> DEFINE f == [k \in 0..0 |-> NotWalked]
  <2>1. f = [k \in 0..0 |-> IF k = 0 THEN NotWalked ELSE next(k, f[k - 1])]
    OBVIOUS
  <2> QED
    BY <2>1 DEF Walks
<1>2. ASSUME NEW n \in S  PROVE  n + 1 \in S
  <2>1. n \in Nat
    BY <1>2
  <2>2. PICK f : W(n, f)
    BY <1>2
  <2>3. f = [k \in 0..n |-> IF k = 0 THEN NotWalked ELSE next(k, f[k - 1])]
    BY <2>2 DEF Walks
  <2> DEFINE h == [k \in 0..(n + 1) |-> IF k = n + 1 THEN next(n + 1, f[n]) ELSE f[k]]
  <2> HIDE DEF next
  <2>4. ASSUME NEW k \in 0..(n + 1)
        PROVE  h[k] = IF k = 0 THEN NotWalked ELSE next(k, h[k - 1])
    <3>1. CASE k = n + 1
      <4>1. k # 0 /\ k - 1 = n /\ n \in 0..(n + 1) /\ n # n + 1
        BY <2>1, <3>1
      <4>2. h[k] = next(n + 1, f[n]) /\ h[n] = f[n]
        BY <3>1, <4>1
      <4> QED
        BY <3>1, <4>1, <4>2
    <3>2. CASE k # n + 1 /\ k = 0
      <4>1. 0 \in 0..n
        BY <2>1
      <4> QED
        BY <2>3, <3>2, <4>1
    <3>3. CASE k # n + 1 /\ k # 0
      <4>1. k \in 0..n /\ k - 1 \in 0..(n + 1) /\ k - 1 # n + 1
        BY <2>1, <3>3
      <4>2. f[k] = next(k, f[k - 1])
        BY <2>3, <3>3, <4>1
      <4> QED
        BY <3>3, <4>1, <4>2
    <3> QED
      BY <3>1, <3>2, <3>3
  <2>5. h = [k \in 0..(n + 1) |-> IF k = 0 THEN NotWalked ELSE next(k, h[k - 1])]
    <3>1. h = [k \in 0..(n + 1) |-> h[k]]
      OBVIOUS
    <3> HIDE DEF h
    <3> QED
      BY <2>4, <3>1
  <2>6. W(n + 1, h)
    <3> HIDE DEF h
    <3> QED
      BY <2>5 DEF Walks, next
  <2> QED
    BY <2>1, <2>6
<1>3. S = Nat
  <2> HIDE DEF S
  <2>1. S \in SUBSET Nat
    BY DEF S
  <2> QED
    BY <1>1, <1>2, <2>1, Naturally
<1> QED
  BY <1>3

LEMMA WalkChosen ==
    ASSUME NEW rule, NEW anchor, NEW after, NEW before, Steps(anchor, rule.step) \in Nat
    PROVE  \E f : /\ Walks(rule, anchor, after, before, Steps(anchor, rule.step), f)
                  /\ OccurrencesIn(rule, anchor, after, before) = f[Steps(anchor, rule.step)].dates
<1> DEFINE n == Steps(anchor, rule.step)
           f == CHOOSE f : Walks(rule, anchor, after, before, n, f)
<1>1. Walks(rule, anchor, after, before, n, f)
  BY WalkExists
<1>2. OccurrencesIn(rule, anchor, after, before) = f[n].dates
  BY DEF OccurrencesIn, Walks
<1> QED
  BY <1>1, <1>2

\* The unroll goes past the last day.
Far == (LastDay + 1) * DayLength + 3

LEMMA Horizon ==
    ASSUME NEW p, Timing(p), SeriesAssumption, NEW anchor \in Int, Wall(anchor) = Wall(p.start)
    PROVE  /\ Steps(anchor, p.step) \in Nat
           /\ \A k \in Nat : At(p, k) <= Far => k < Steps(anchor, p.step)
<1> DEFINE end == (LastDay + 2) * DayLength
           q == (end - anchor) \div p.step
<1>1. p.step \in Nat /\ p.step >= 2 /\ DayLength \in Nat /\ DayLength >= 6 /\ LastDay \in Nat
  BY DEF Timing, SeriesAssumption
<1>2. end \in Int /\ Far \in Int /\ Far + 3 <= end
  BY <1>1 DEF Far
<1>3. Steps(anchor, p.step) = IF q + 1 > 0 THEN q + 1 ELSE 0
  BY DEF Steps
<1> HIDE DEF end
<1>4. q \in Int /\ end - anchor < (q * p.step) + p.step
  <2>1. end - anchor \in Int /\ p.step > 0
    BY <1>1, <1>2
  <2> QED
    BY <1>1, <2>1, Quotients
<1>5. ASSUME NEW k \in Nat, At(p, k) <= Far
      PROVE  k < Steps(anchor, p.step)
  <2>1. Clock(p, k) = Wall(anchor) + k * p.step /\ k * p.step \in Nat
    BY <1>1 DEF Clock
  <2>2. Clock(p, k) - 4 <= At(p, k) /\ At(p, k) \in Int /\ Clock(p, k) \in Int
    BY Ats, Clocks
  <2>3. Wall(anchor) \in Int /\ anchor + 2 <= Wall(anchor)
    BY Walls, Changes
  <2> DEFINE a == k * p.step
             b == q * p.step
  <2>4. b \in Int
    BY <1>1, <1>4
  <2> HIDE DEF a, b, q
  <2>5. a < b + p.step
    <3>1. a \in Int /\ Clock(p, k) = Wall(anchor) + a /\ end - anchor < b + p.step
      BY <1>4, <2>1 DEF a, b
    <3> QED
      BY <1>1, <1>2, <1>5, <2>2, <2>3, <2>4, <3>1
  <2>6. ~(q < k)
    BY <1>1, <1>4, <2>4, <2>5, Products DEF a, b
  <2> QED
    BY <1>3, <1>4, <2>6
<1> QED
  BY <1>3, <1>4, <1>5

\* What the unroll of a rule returns.
Reached(p, rule, after, before, t) ==
    /\ rule.until # Unset => t <= rule.until
    /\ rule.count # Unset => Before(Firsts(p), t) < rule.count
    /\ \A u \in Firsts(p) : u < t => u <= before
    /\ Cardinality({u \in Below(Firsts(p), t) : after <= u}) < MaxOccurrences
Rule(r) ==
    /\ r \in [step : Nat, count : (Nat \ {0}) \cup {Unset}, until : Int \cup {Unset}]
    /\ r.step >= 2

\* What has been walked before the k-th, and what of it was kept.
Past(p, k) == {At(p, j) : j \in 0..(k - 1)}
Taken(p, rule, after, before, k) == {u \in Past(p, k) : Reached(p, rule, after, before, u)}
\* The walk goes no further, wherever the rule ends.
Stuck(w, rule) ==
    \/ w.past
    \/ Cardinality(w.dates) >= MaxOccurrences
    \/ rule.count # Unset /\ w.distinct >= rule.count
Tracks(p, rule, after, before, k, w) ==
    LET kept == Taken(p, rule, after, before, k) IN
    /\ IsFiniteSet(kept) /\ w.distinct = Cardinality(kept)
    /\ w.dates = kept \cap (after..before)
    /\ w.past <=> \E u \in kept : u > before
    /\ w.seen \subseteq Past(p, k)
    /\ k > 0 /\ Reached(p, rule, after, before, At(p, k - 1)) /\ FollowsSkippedHour(At(p, k - 1))
         => At(p, k - 1) \in w.seen
    /\ \A u \in Past(p, k) :
         ~Reached(p, rule, after, before, u) /\ (rule.until # Unset => u <= rule.until) => Stuck(w, rule)

LEMMA Pasts ==
    ASSUME NEW p, Timing(p), SeriesAssumption, NEW k \in Nat
    PROVE  /\ Past(p, 0) = {} /\ Past(p, k + 1) = Past(p, k) \cup {At(p, k)}
           /\ Past(p, k) \subseteq Firsts(p) /\ Past(p, k) \subseteq Int
           /\ At(p, k) \in Past(p, k) => k > 0 /\ At(p, k - 1) = At(p, k) /\ FollowsSkippedHour(At(p, k))
           /\ At(p, k) \notin Past(p, k) => Past(p, k) = Below(Firsts(p), At(p, k))
<1>1. \A j \in Nat : At(p, j) \in Int
  BY Ats
<1>2. \A i, j \in Nat : i <= j => At(p, i) <= At(p, j)
  BY Sequence
<1>3. Past(p, 0) = {} /\ Past(p, k + 1) = Past(p, k) \cup {At(p, k)}
  <2>1. 0..(0 - 1) = {} /\ 0..((k + 1) - 1) = (0..(k - 1)) \cup {k}
    OBVIOUS
  <2> QED
    BY <2>1 DEF Past
<1>4. Past(p, k) \subseteq Firsts(p) /\ Past(p, k) \subseteq Int
  BY <1>1 DEF Past, Firsts
<1>5. ASSUME At(p, k) \in Past(p, k)
      PROVE  k > 0 /\ At(p, k - 1) = At(p, k) /\ FollowsSkippedHour(At(p, k))
  <2>1. PICK j \in 0..(k - 1) : At(p, j) = At(p, k)
    BY <1>5 DEF Past
  <2>2. k - 1 \in Nat /\ j \in Nat /\ j <= k - 1 /\ k - 1 <= k /\ (k - 1) + 1 = k
    BY <2>1
  <2>3. At(p, j) <= At(p, k - 1) /\ At(p, k - 1) <= At(p, k)
    BY <1>2, <2>2
  <2>4. At(p, k - 1) = At(p, k)
    BY <1>1, <2>1, <2>2, <2>3
  <2>5. GapAt + 2 <= Clock(p, k - 1) /\ Clock(p, k - 1) < GapAt + 4 /\ Clock(p, k - 1) \in Int
    BY <2>2, <2>4, Ats, Clocks
  <2>6. At(p, k - 1) = Clock(p, k - 1) - 2
    BY <2>5, Resolved, Changes DEF At
  <2>7. FollowsSkippedHour(At(p, k - 1))
    BY <1>1, <2>2, <2>5, <2>6, Passes, Changes
  <2> QED
    BY <2>2, <2>4, <2>7
<1>6. ASSUME At(p, k) \notin Past(p, k)
      PROVE  Past(p, k) = Below(Firsts(p), At(p, k))
  <2>1. ASSUME NEW u \in Past(p, k)  PROVE  u \in Below(Firsts(p), At(p, k))
    <3>1. PICK j \in 0..(k - 1) : u = At(p, j)
      BY <2>1 DEF Past
    <3>2. j \in Nat /\ j <= k
      BY <3>1
    <3>3. u <= At(p, k) /\ u # At(p, k)
      BY <1>2, <1>6, <2>1, <3>1, <3>2
    <3> QED
      BY <1>1, <1>4, <2>1, <3>3 DEF Below
  <2>2. ASSUME NEW u \in Below(Firsts(p), At(p, k))  PROVE  u \in Past(p, k)
    <3>1. PICK j \in Nat : u = At(p, j) /\ u < At(p, k)
      BY <2>2 DEF Below, Firsts
    <3>2. ~(k <= j)
      BY <1>1, <1>2, <3>1
    <3> QED
      BY <3>1, <3>2 DEF Past
  <2> QED
    BY <2>1, <2>2
<1> QED
  BY <1>3, <1>4, <1>5, <1>6

LEMMA WalkStep ==
    ASSUME SeriesAssumption, NEW p, Timing(p), NEW rule, Rule(rule),
           NEW after \in Int, NEW before \in Int, NEW k \in Nat,
           NEW w, Tracks(p, rule, after, before, k, w),
           w = [seen |-> w.seen, distinct |-> w.distinct, past |-> w.past, dates |-> w.dates]
    PROVE  LET next == Walked(w, rule, At(p, k), after, before) IN
           /\ Tracks(p, rule, after, before, k + 1, next)
           /\ next = [seen |-> next.seen, distinct |-> next.distinct,
                      past |-> next.past, dates |-> next.dates]
<1> DEFINE t == At(p, k)
           next == Walked(w, rule, t, after, before)
           G(u) == Reached(p, rule, after, before, u)
           kept == Taken(p, rule, after, before, k)
           keptNext == Taken(p, rule, after, before, k + 1)
           Stop == Stuck(w, rule) \/ (rule.until # Unset /\ t > rule.until)
           fine(v) == v = [seen |-> v.seen, distinct |-> v.distinct,
                           past |-> v.past, dates |-> v.dates]
<1>1. /\ Past(p, k + 1) = Past(p, k) \cup {t} /\ Past(p, k) \subseteq Int /\ t \in Int
      /\ t \in Firsts(p) /\ Past(p, k) \subseteq Firsts(p)
      /\ t \in Past(p, k) => k > 0 /\ At(p, k - 1) = t /\ FollowsSkippedHour(t)
      /\ t \notin Past(p, k) => Past(p, k) = Below(Firsts(p), t)
      /\ (k + 1) - 1 = k /\ k + 1 > 0
  <2>1. t \in Int
    BY Ats
  <2>2. t \in Firsts(p) /\ (k + 1) - 1 = k /\ k + 1 > 0
    BY DEF Firsts
  <2> QED
    BY <2>1, <2>2, Pasts
<1>2. /\ IsFiniteSet(kept) /\ w.distinct = Cardinality(kept)
      /\ w.dates = kept \cap (after..before)
      /\ w.past <=> \E u \in kept : u > before
      /\ w.seen \subseteq Past(p, k)
      /\ k > 0 /\ G(At(p, k - 1)) /\ FollowsSkippedHour(At(p, k - 1)) => At(p, k - 1) \in w.seen
      /\ \A u \in Past(p, k) :
           ~G(u) /\ (rule.until # Unset => u <= rule.until) => Stuck(w, rule)
  BY DEF Tracks
<1>3. /\ Stop => next = w
      /\ ~Stop /\ ~FirstTime(w.seen, t) => next = [w EXCEPT !.seen = SeenAfter(@, t)]
      /\ ~Stop /\ FirstTime(w.seen, t) =>
           next = [seen |-> SeenAfter(w.seen, t), distinct |-> w.distinct + 1,
                   past |-> t > before, dates |-> w.dates \cup ({t} \cap (after..before))]
  BY DEF Walked, Stuck
<1>4. kept = {u \in Past(p, k) : G(u)} /\ keptNext = {u \in Past(p, k + 1) : G(u)}
  BY DEF Taken
<1>5. /\ rule.count \in Nat \ {0} \/ rule.count = Unset
      /\ rule.until \in Int \/ rule.until = Unset
      /\ Unset \notin Int /\ MaxOccurrences \in Nat \ {0}
  BY DEF Rule, SeriesAssumption
<1>6. Cardinality(kept) \in Nat
  BY <1>2, FS_CardinalityType
<1>7. SUFFICES Tracks(p, rule, after, before, k + 1, next) /\ fine(next)
  OBVIOUS
<1> HIDE DEF t, next, kept, keptNext
<1>8. ASSUME /\ IsFiniteSet(keptNext) /\ next.distinct = Cardinality(keptNext)
             /\ next.dates = keptNext \cap (after..before)
             /\ next.past <=> \E u \in keptNext : u > before
             /\ next.seen \subseteq Past(p, k + 1)
             /\ G(t) /\ FollowsSkippedHour(t) => t \in next.seen
             /\ \A u \in Past(p, k + 1) :
                  ~G(u) /\ (rule.until # Unset => u <= rule.until) => Stuck(next, rule)
      PROVE  Tracks(p, rule, after, before, k + 1, next)
  BY <1>1, <1>8 DEF Tracks, keptNext, t
<1>9. CASE t \in Past(p, k)
  <2>1. Past(p, k + 1) = Past(p, k) /\ keptNext = kept
    BY <1>1, <1>4, <1>9
  <2>2. CASE Stop
    <3>1. next = w
      BY <1>3, <2>2
    <3> QED
      BY <1>1, <1>2, <1>8, <1>9, <2>1, <3>1
  <2>3. CASE ~Stop
    <3>1. G(t)
      BY <1>1, <1>2, <1>5, <1>9, <2>3
    <3>2. t \in w.seen /\ FollowsSkippedHour(t)
      BY <1>1, <1>2, <1>9, <3>1
    <3>3. next = [w EXCEPT !.seen = w.seen \cup {t}]
      BY <1>3, <2>3, <3>2 DEF FirstTime, SeenAfter
    <3>4. /\ next.seen = w.seen \cup {t} /\ next.distinct = w.distinct
          /\ next.past = w.past /\ next.dates = w.dates /\ fine(next)
      BY <3>3
    <3>5. Stuck(next, rule) <=> Stuck(w, rule)
      BY <3>4 DEF Stuck
    <3> QED
      BY <1>1, <1>2, <1>8, <1>9, <2>1, <3>4, <3>5
  <2> QED
    BY <2>2, <2>3
<1>10. CASE t \notin Past(p, k)
  <2>1. Past(p, k) = Below(Firsts(p), t) /\ \A u \in Past(p, k) : u < t
    BY <1>1, <1>10 DEF Below
  <2>2. /\ IsFiniteSet(Below(Firsts(p), t)) /\ Before(Firsts(p), t) = Cardinality(Past(p, k))
        /\ Before(Firsts(p), t) \in Nat
    BY <1>1, <2>1, Sequence, FS_CardinalityType DEF Discrete, Before
  <2>3. CASE Stop
    <3>1. ~G(t)
      <4>1. CASE rule.until # Unset /\ t > rule.until
        BY <1>1, <1>5, <4>1 DEF Reached
      <4>2. CASE w.past
        <5>1. PICK u \in kept : u > before
          BY <1>2, <4>2
        <5>2. u \in Firsts(p) /\ u < t /\ u \in Int
          BY <1>1, <1>4, <2>1, <5>1
        <5> QED
          BY <5>1, <5>2 DEF Reached
      <4>3. CASE Cardinality(w.dates) >= MaxOccurrences
        <5> DEFINE X == {u \in Below(Firsts(p), t) : after <= u}
        <5>1. w.dates \subseteq X
          BY <1>2, <1>4, <2>1
        <5>2. IsFiniteSet(X)
          BY <2>2, FS_Subset
        <5>3. Cardinality(w.dates) <= Cardinality(X) /\ Cardinality(X) \in Nat
              /\ Cardinality(w.dates) \in Nat
          BY <5>1, <5>2, FS_Subset, FS_CardinalityType
        <5>4. ~(Cardinality(X) < MaxOccurrences)
          BY <1>5, <4>3, <5>3
        <5> QED
          BY <5>4 DEF Reached
      <4>4. CASE rule.count # Unset /\ w.distinct >= rule.count
        <5>1. kept \subseteq Below(Firsts(p), t)
          BY <1>4, <2>1
        <5>2. Cardinality(kept) <= Before(Firsts(p), t)
          BY <2>2, <5>1, FS_Subset DEF Before
        <5> QED
          BY <1>2, <1>5, <1>6, <2>2, <4>4, <5>2 DEF Reached
      <4> QED
        BY <2>3, <4>1, <4>2, <4>3, <4>4 DEF Stuck
    <3>2. next = w /\ keptNext = kept
      BY <1>1, <1>3, <1>4, <2>3, <3>1
    <3>3. (rule.until # Unset => t <= rule.until) => Stuck(w, rule)
      BY <1>1, <1>5, <2>3
    <3> QED
      BY <1>1, <1>2, <1>8, <3>1, <3>2, <3>3
  <2>4. CASE ~Stop
    <3>1. ~w.past /\ ~(Cardinality(w.dates) >= MaxOccurrences)
          /\ ~(rule.count # Unset /\ w.distinct >= rule.count) /\ ~Stuck(w, rule)
          /\ (rule.until # Unset => t <= rule.until)
      BY <1>1, <1>5, <2>4 DEF Stuck
    <3>2. \A u \in Past(p, k) : G(u)
      BY <1>1, <1>2, <1>5, <2>1, <3>1
    <3>3. kept = Below(Firsts(p), t) /\ kept = Past(p, k)
      BY <1>4, <2>1, <3>2
    <3>4. \A u \in kept : u <= before
      BY <1>1, <1>2, <3>1, <3>3
    <3>5. G(t)
      <4>1. w.dates = {u \in Below(Firsts(p), t) : after <= u}
        BY <1>1, <1>2, <3>3, <3>4
      <4>2. Cardinality(w.dates) < MaxOccurrences
        <5>1. IsFiniteSet(w.dates)
          BY <1>2, FS_Subset
        <5> QED
          BY <1>5, <3>1, <5>1, FS_CardinalityType
      <4>3. rule.count # Unset => Before(Firsts(p), t) < rule.count
        BY <1>2, <1>5, <1>6, <2>2, <3>1, <3>3
      <4>4. \A u \in Firsts(p) : u < t => u <= before
        BY <3>3, <3>4 DEF Below
      <4> QED
        BY <3>1, <4>1, <4>2, <4>3, <4>4 DEF Reached
    <3>6. keptNext = kept \cup {t} /\ t \notin kept
      BY <1>1, <1>4, <1>10, <3>5
    <3>7. t \notin w.seen
      BY <1>2, <1>10
    <3>8. /\ next.seen = SeenAfter(w.seen, t) /\ next.distinct = w.distinct + 1
          /\ next.past = (t > before) /\ next.dates = w.dates \cup ({t} \cap (after..before))
          /\ fine(next)
      BY <1>3, <2>4, <3>7 DEF FirstTime
    <3>9. IsFiniteSet(keptNext) /\ Cardinality(keptNext) = Cardinality(kept) + 1
      BY <1>2, <3>6, FS_AddElement
    <3>10. next.dates = keptNext \cap (after..before)
      BY <1>2, <3>6, <3>8
    <3>11. next.past <=> \E u \in keptNext : u > before
      BY <1>2, <3>1, <3>6, <3>8
    <3>12. /\ next.seen \subseteq Past(p, k + 1)
           /\ FollowsSkippedHour(t) => t \in next.seen
      BY <1>1, <1>2, <3>8 DEF SeenAfter
    <3>13. \A u \in Past(p, k + 1) : G(u)
      BY <1>1, <3>2, <3>5
    <3> QED
      BY <1>2, <1>8, <3>8, <3>9, <3>10, <3>11, <3>12, <3>13
  <2> QED
    BY <2>3, <2>4
<1> QED
  BY <1>7, <1>9, <1>10

\* occurrences_in: what it returns, in a closed form.
LEMMA Unrolled ==
    ASSUME SeriesAssumption, NEW p, Timing(p), NEW rule, Rule(rule), rule.step = p.step,
           NEW anchor \in Int, Wall(anchor) = Wall(p.start),
           NEW after \in Int, NEW before \in Int
    PROVE  /\ OccurrencesIn(rule, anchor, after, before) \subseteq Firsts(p) \cap (after..before)
           /\ \A t \in Firsts(p) : t <= Far =>
                (t \in OccurrencesIn(rule, anchor, after, before) <=>
                   /\ after <= t /\ t <= before
                   /\ rule.until # Unset => t <= rule.until
                   /\ rule.count # Unset => Before(Firsts(p), t) < rule.count
                   /\ Cardinality({u \in Below(Firsts(p), t) : after <= u}) < MaxOccurrences)
<1> DEFINE n == Steps(anchor, rule.step)
           found == OccurrencesIn(rule, anchor, after, before)
           fine(v) == v = [seen |-> v.seen, distinct |-> v.distinct,
                           past |-> v.past, dates |-> v.dates]
<1>1. n \in Nat /\ \A k \in Nat : At(p, k) <= Far => k < n
  BY Horizon
<1>2. PICK f : Walks(rule, anchor, after, before, n, f) /\ found = f[n].dates
  BY <1>1, WalkChosen
<1> HIDE DEF found
<1>3. \A k \in Nat : Resolve(Wall(anchor) + k * rule.step) = At(p, k)
  BY DEF At, Clock
<1>4. ASSUME NEW k \in Nat, k < n
      PROVE  f[0] = NotWalked /\ f[k + 1] = Walked(f[k], rule, At(p, k), after, before)
  <2>1. k + 1 \in 0..n /\ 0 \in 0..n /\ k + 1 # 0 /\ (k + 1) - 1 = k
    BY <1>1, <1>4
  <2>2. f[0] = NotWalked
    BY <1>2, <2>1 DEF Walks
  <2>3. f[k + 1] = Walked(f[(k + 1) - 1], rule,
                          Resolve(Wall(anchor) + ((k + 1) - 1) * rule.step), after, before)
    BY <1>2, <2>1, Zenon DEF Walks
  <2> QED
    BY <1>3, <2>1, <2>2, <2>3
<1> DEFINE S == {k \in Nat : k <= n => Tracks(p, rule, after, before, k, f[k]) /\ fine(f[k])}
<1>5. 0 \in S
  <2>1. f[0] = NotWalked
    BY <1>1, <1>2 DEF Walks
  <2>2. Past(p, 0) = {}
    BY Pasts
  <2>3. Taken(p, rule, after, before, 0) = {}
    BY <2>2 DEF Taken
  <2>4. Tracks(p, rule, after, before, 0, NotWalked)
    BY <2>2, <2>3, FS_EmptySet DEF Tracks, NotWalked
  <2> QED
    BY <2>1, <2>4 DEF NotWalked
<1>6. ASSUME NEW k \in S  PROVE  k + 1 \in S
  <2>1. k \in Nat
    BY <1>6
  <2>2. CASE k + 1 <= n
    <3>1. Tracks(p, rule, after, before, k, f[k]) /\ fine(f[k]) /\ k < n
      BY <1>1, <1>6, <2>1, <2>2
    <3>2. f[k + 1] = Walked(f[k], rule, At(p, k), after, before)
      BY <1>4, <2>1, <3>1
    <3>3. Tracks(p, rule, after, before, k + 1, f[k + 1]) /\ fine(f[k + 1])
      BY <2>1, <3>1, <3>2, WalkStep
    <3> QED
      BY <2>1, <3>3
  <2> QED
    BY <2>1, <2>2
<1>7. S = Nat
  <2> HIDE DEF S
  <2>1. S \in SUBSET Nat
    BY DEF S
  <2> QED
    BY <1>5, <1>6, <2>1, Naturally
<1>8. found = Taken(p, rule, after, before, n) \cap (after..before)
  <2>1. Tracks(p, rule, after, before, n, f[n])
    <3>1. n \in S
      BY <1>1, <1>7
    <3> HIDE DEF n
    <3> QED
      BY <3>1
  <2> QED
    BY <1>2, <2>1 DEF Tracks
<1>9. Past(p, n) \subseteq Firsts(p)
  BY <1>1, Pasts
<1>10. ASSUME NEW t \in Firsts(p), t <= Far
       PROVE  t \in found <=>
                /\ after <= t /\ t <= before
                /\ rule.until # Unset => t <= rule.until
                /\ rule.count # Unset => Before(Firsts(p), t) < rule.count
                /\ Cardinality({u \in Below(Firsts(p), t) : after <= u}) < MaxOccurrences
  <2>1. PICK k \in Nat : t = At(p, k)
    BY DEF Firsts
  <2>2. t \in Int /\ k < n
    BY <1>1, <1>10, <2>1, Ats
  <2>3. t \in Past(p, n)
    BY <1>1, <2>1, <2>2 DEF Past
  <2>4. t <= before => \A u \in Firsts(p) : u < t => u <= before
    BY <2>2, Sequence DEF Discrete
  <2>5. t \in found <=> Reached(p, rule, after, before, t) /\ t \in after..before
    BY <1>8, <2>3 DEF Taken
  <2>6. t \in after..before <=> after <= t /\ t <= before
    BY <2>2
  <2> QED
    BY <2>4, <2>5, <2>6, Zenon DEF Reached
<1> QED
  BY <1>8, <1>9, <1>10 DEF Taken, found

-----------------------------------------------------------------------------
(* The listing of a series.                                                  *)

\* The rule produces it, as planned.
Produced(p, t) ==
    /\ t \in All(p) /\ Within(p, t)
    /\ p.count # Unset => Before(All(p), t) < p.count
\* What a listing allows either side of its window, and its unroll.
Slack(p) == IF p.allDay \/ IsSecondPass(p.start) THEN 0 ELSE 1
Reach(p) == IF p.allDay THEN 0 ELSE IF IsSecondPass(p.start) THEN 3 ELSE 1
\* What the cap is spent on before an occurrence.
Spent(p, from, t) == {u \in Below(Firsts(p), FirstPass(t)) : from - Reach(p) <= u}

\* The rule of the row is the one planned.
SameRule(s, p) ==
    /\ s.start = p.start /\ s.allDay = p.allDay
    /\ Timing(p) /\ Rule(s.rule)
    /\ s.rule.step = p.step /\ s.rule.count = p.count /\ s.rule.until = p.until

Lists(p, from, to, found) ==
    /\ found \subseteq All(p) \cap ((from - 1)..(to + 1))
    /\ \A t \in All(p) : t <= Far =>
         (t \in found <=> /\ Produced(p, t)
                          /\ from - Slack(p) <= t /\ t <= to + Slack(p)
                          /\ Cardinality(Spent(p, from, t)) < MaxOccurrences)

LEMMA Occurrences ==
    ASSUME SeriesAssumption, NEW p, Timing(p), NEW k \in Nat
    PROVE  /\ Kth(p, k) \in All(p) /\ At(p, k) \in Firsts(p)
           /\ Kth(p, k) \in Int /\ At(p, k) \in Int
           /\ FirstPass(Kth(p, k)) = At(p, k) /\ FirstPass(At(p, k)) = At(p, k)
           /\ Before(All(p), Kth(p, k)) = k - Lost(p, k)
           /\ Before(Firsts(p), At(p, k)) = k - Lost(p, k)
           /\ At(p, k) <= Kth(p, k) /\ Kth(p, k) <= At(p, k) + 2
           /\ Kth(p, k) = IF IsSecondPass(p.start) THEN SecondPass(At(p, k)) ELSE At(p, k)
           /\ p.start \in Int /\ p.allDay \in BOOLEAN
           /\ IsSecondPass(p.start) => ~p.allDay
<1>1. Kth(p, k) \in All(p) /\ At(p, k) \in Firsts(p)
  BY Sequence DEF Firsts
<1>2. Before(All(p), Kth(p, k)) = k - Lost(p, k) /\ Before(Firsts(p), At(p, k)) = k - Lost(p, k)
  BY Sequence
<1>3. p.start \in Int /\ p.allDay \in BOOLEAN
  BY DEF Timing
<1> QED
  BY <1>1, <1>2, <1>3, Kths, Ats, Zenon

LEMMA ExpandTimedIs ==
    ASSUME SeriesAssumption, NEW s, NEW p, SameRule(s, p), ~p.allDay,
           NEW from \in Int, NEW to \in Int
    PROVE  Lists(p, from, to, ExpandTimed(s.rule, s.start, from, to))
<1> DEFINE rule == s.rule
           found == ExpandTimed(s.rule, s.start, from, to)
<1>1. Timing(p) /\ Rule(rule) /\ rule.step = p.step /\ rule.count = p.count /\ rule.until = p.until
      /\ s.start = p.start
  BY DEF SameRule
<1>2. p.start \in Int /\ All(p) = {Kth(p, k) : k \in Nat}
  BY <1>1, Sequence DEF Timing
<1>3. \A k \in Nat : Within(p, Kth(p, k)) <=> (rule.until # Unset => At(p, k) <= rule.until)
  BY <1>1, Occurrences DEF Within
<1>4. \A k \in Nat : Produced(p, Kth(p, k)) <=>
        /\ rule.until # Unset => At(p, k) <= rule.until
        /\ rule.count # Unset => Before(Firsts(p), At(p, k)) < rule.count
  BY <1>1, <1>3, Occurrences DEF Produced
<1>5. CASE ~IsSecondPass(p.start)
  <2> DEFINE a == from - 1
             b == to + 1
             o == OccurrencesIn(rule, p.start, a, b)
  <2>1. a \in Int /\ b \in Int /\ found = o /\ Slack(p) = 1 /\ Reach(p) = 1
    BY <1>1, <1>5 DEF ExpandTimed, Slack, Reach, Second
  <2>2. /\ o \subseteq Firsts(p) \cap (a..b)
        /\ \A t \in Firsts(p) : t <= Far =>
             (t \in o <=> /\ a <= t /\ t <= b
                          /\ rule.until # Unset => t <= rule.until
                          /\ rule.count # Unset => Before(Firsts(p), t) < rule.count
                          /\ Cardinality({u \in Below(Firsts(p), t) : a <= u}) < MaxOccurrences)
    <3> HIDE DEF a, b
    <3> QED
      BY <1>1, <1>2, <2>1, Unrolled
  <2>3. \A k \in Nat : Kth(p, k) = At(p, k)
    BY <1>1, <1>5, Occurrences
  <2>4. Firsts(p) = All(p)
    BY <1>2, <2>3 DEF Firsts
  <2>5. ASSUME NEW t \in All(p), t <= Far
        PROVE  t \in found <=> /\ Produced(p, t)
                               /\ from - Slack(p) <= t /\ t <= to + Slack(p)
                               /\ Cardinality(Spent(p, from, t)) < MaxOccurrences
    <3>1. PICK k \in Nat : t = Kth(p, k) /\ t = At(p, k)
      BY <1>2, <2>3
    <3>2. Spent(p, from, t) = {u \in Below(Firsts(p), t) : a <= u}
      BY <1>1, <2>1, <3>1, Ats DEF Spent
    <3>3. Produced(p, t) <=> /\ rule.until # Unset => t <= rule.until
                             /\ rule.count # Unset => Before(Firsts(p), t) < rule.count
      BY <1>4, <3>1
    <3>4. from - Slack(p) = a /\ to + Slack(p) = b
      BY <2>1
    <3> HIDE DEF a, b, o, found
    <3> QED
      BY <2>1, <2>2, <2>4, <2>5, <3>2, <3>3, <3>4, Zenon
  <2> QED
    BY <2>1, <2>2, <2>4, <2>5 DEF Lists
<1>6. CASE IsSecondPass(p.start)
  <2> DEFINE anchor == FirstPass(p.start)
             a == from - 3
             b == to + 3
             o == OccurrencesIn(rule, anchor, a, b)
  <2>1. a \in Int /\ b \in Int /\ Slack(p) = 0 /\ Reach(p) = 3
        /\ found = {SecondPass(t) : t \in o} \cap (from..to)
    BY <1>1, <1>6 DEF ExpandTimed, Slack, Reach, Second, Hour
  <2>2. anchor \in Int /\ Wall(anchor) = Wall(p.start)
    <3>1. GapAt \in Nat /\ FoldAt \in Nat /\ GapAt + 6 <= FoldAt
      BY Changes
    <3>2. FoldAt <= p.start /\ p.start < FoldAt + 2 /\ anchor = p.start - 2
      BY <1>2, <1>6, Passes
    <3>3. anchor \in Int
      BY <1>2, <3>2
    <3> HIDE DEF anchor
    <3>4. Wall(anchor) = anchor + 4 /\ Wall(p.start) = p.start + 2
      BY <1>2, <3>1, <3>2, <3>3, Walls
    <3> QED
      BY <1>2, <3>2, <3>3, <3>4
  <2>3. /\ o \subseteq Firsts(p) \cap (a..b)
        /\ \A t \in Firsts(p) : t <= Far =>
             (t \in o <=> /\ a <= t /\ t <= b
                          /\ rule.until # Unset => t <= rule.until
                          /\ rule.count # Unset => Before(Firsts(p), t) < rule.count
                          /\ Cardinality({u \in Below(Firsts(p), t) : a <= u}) < MaxOccurrences)
    <3> HIDE DEF a, b, anchor
    <3> QED
      BY <1>1, <2>1, <2>2, Unrolled
  <2>4. \A k \in Nat : Kth(p, k) = SecondPass(At(p, k))
    BY <1>1, <1>6, Occurrences
  <2>5. found \subseteq All(p) \cap ((from - 1)..(to + 1))
    <3>1. ASSUME NEW t \in found  PROVE  t \in All(p)
      <4>1. PICK u \in o : t = SecondPass(u)
        BY <2>1
      <4>2. PICK k \in Nat : u = At(p, k)
        BY <2>3, <4>1 DEF Firsts
      <4> QED
        BY <1>2, <2>4, <4>1, <4>2
    <3>2. from..to \subseteq (from - 1)..(to + 1)
      OBVIOUS
    <3> QED
      BY <2>1, <3>1, <3>2
  <2>6. ASSUME NEW t \in All(p), t <= Far
        PROVE  t \in found <=> /\ Produced(p, t)
                               /\ from - Slack(p) <= t /\ t <= to + Slack(p)
                               /\ Cardinality(Spent(p, from, t)) < MaxOccurrences
    <3>1. PICK k \in Nat : t = Kth(p, k)
      BY <1>2
    <3> DEFINE u == At(p, k)
    <3>2. u \in Int /\ t \in Int /\ u <= t /\ t <= u + 2 /\ FirstPass(t) = u /\ u \in Firsts(p)
          /\ t = SecondPass(u)
      BY <1>1, <2>4, <3>1, Occurrences
    <3>3. u <= Far
      BY <2>6, <3>2 DEF Far, SeriesAssumption
    <3>4. Spent(p, from, t) = {v \in Below(Firsts(p), u) : a <= v}
      BY <2>1, <3>2 DEF Spent
    <3>5. Produced(p, t) <=> /\ rule.until # Unset => u <= rule.until
                             /\ rule.count # Unset => Before(Firsts(p), u) < rule.count
      BY <1>4, <3>1
    <3>6. from <= t /\ t <= to => a <= u /\ u <= b
      BY <3>2
    <3>7. t \in found <=> u \in o /\ from <= t /\ t <= to
      <4>1. ASSUME t \in found  PROVE  u \in o /\ from <= t /\ t <= to
        <5>1. PICK v \in o : t = SecondPass(v)
          BY <2>1, <4>1
        <5>2. PICK j \in Nat : v = At(p, j)
          BY <2>3, <5>1 DEF Firsts
        <5>3. FirstPass(t) = v
          BY <1>1, <2>4, <5>1, <5>2, Occurrences
        <5> QED
          BY <2>1, <3>2, <4>1, <5>1, <5>3
      <4>2. ASSUME u \in o, from <= t, t <= to  PROVE  t \in found
        BY <2>1, <3>2, <4>2
      <4> QED
        BY <4>1, <4>2
    <3>8. from - Slack(p) = from /\ to + Slack(p) = to
      BY <2>1
    <3>9. u \in o <=> /\ a <= u /\ u <= b /\ Produced(p, t)
                      /\ Cardinality(Spent(p, from, t)) < MaxOccurrences
      <4> HIDE DEF a, b, o, u
      <4> QED
        BY <2>3, <3>2, <3>3, <3>4, <3>5, Zenon
    <3> HIDE DEF a, b, o, found, u
    <3> QED
      BY <3>6, <3>7, <3>8, <3>9
  <2> QED
    BY <2>5, <2>6 DEF Lists
<1> QED
  BY <1>5, <1>6

LEMMA ExpandAllDayIs ==
    ASSUME SeriesAssumption, NEW s, NEW p, SameRule(s, p), p.allDay,
           NEW from \in Int, NEW to \in Int
    PROVE  Lists(p, from, to, ExpandAllDay(s.rule, s.start, from, to))
<1> DEFINE rule == AllDayRule(s.rule)
           o == OccurrencesIn(rule, p.start, from, to)
           day(k) == Date(p.start) + k * (p.step \div DayLength)
           found == ExpandAllDay(s.rule, s.start, from, to)
<1>1. /\ Timing(p) /\ Rule(s.rule) /\ s.rule.step = p.step
      /\ s.rule.count = p.count /\ s.rule.until = p.until /\ s.start = p.start
  BY DEF SameRule
<1>2. /\ p.start \in Int /\ All(p) = {Kth(p, k) : k \in Nat} /\ p.start = StartOfDay(Date(p.start))
      /\ DayLength \in Nat /\ DayLength > 0 /\ Unset \notin Int
  <2>1. p.start \in Int /\ p.start = StartOfDay(Date(p.start))
    BY <1>1 DEF Timing
  <2>2. DayLength \in Nat /\ DayLength > 0 /\ Unset \notin Int
    BY DEF SeriesAssumption
  <2> QED
    BY <1>1, <2>1, <2>2, Sequence
<1>3. \A k \in Nat : /\ day(k) \in Int /\ At(p, k) = StartOfDay(day(k)) /\ Kth(p, k) = At(p, k)
                     /\ Date(At(p, k)) = day(k)
  <2>1. \A k \in Nat : day(k) \in Int /\ At(p, k) = StartOfDay(day(k)) /\ ~IsSecondPass(p.start)
    BY <1>1, AllDayAts
  <2>2. \A k \in Nat : Kth(p, k) = At(p, k)
    BY <1>1, <2>1, Occurrences
  <2>3. \A k \in Nat : Date(At(p, k)) = day(k)
    <3> HIDE DEF day
    <3> QED
      BY <2>1, Days
  <2> QED
    BY <2>1, <2>2, <2>3
<1> HIDE DEF day
<1>4. All(p) = Firsts(p)
  BY <1>2, <1>3 DEF Firsts
<1>5. rule.step = p.step /\ rule.count = p.count /\ Rule(rule)
      /\ rule.until = IF p.until = Unset THEN Unset ELSE StartOfDay(p.until \div DayLength)
  <2>1. p.until # Unset => p.until \in Int /\ p.until \div DayLength \in Int
    BY <1>1, <1>2, Quotients DEF Rule
  <2>2. p.until # Unset => StartOfDay(p.until \div DayLength) \in Int
    BY <2>1, Days
  <2> QED
    BY <1>1, <2>2 DEF Rule, AllDayRule
<1> HIDE DEF rule
<1>6. /\ o \subseteq Firsts(p) \cap (from..to)
      /\ \A t \in Firsts(p) : t <= Far =>
           (t \in o <=> /\ from <= t /\ t <= to
                        /\ rule.until # Unset => t <= rule.until
                        /\ rule.count # Unset => Before(Firsts(p), t) < rule.count
                        /\ Cardinality({u \in Below(Firsts(p), t) : from <= u}) < MaxOccurrences)
  BY <1>1, <1>2, <1>5, Unrolled
<1>7. found = o
  <2>1. found = {StartOfDay(Date(t)) : t \in o}
    BY <1>1, <1>2 DEF ExpandAllDay, rule
  <2>2. \A t \in o : StartOfDay(Date(t)) = t
    BY <1>3, <1>6 DEF Firsts
  <2> QED
    BY <2>1, <2>2
<1>8. ASSUME NEW k \in Nat
      PROVE  Within(p, At(p, k)) <=> (rule.until # Unset => At(p, k) <= rule.until)
  <2>1. CASE p.until = Unset
    BY <1>5, <2>1 DEF Within
  <2>2. CASE p.until # Unset
    <3> DEFINE e == p.until \div DayLength
    <3>1. p.until \in Int /\ e \in Int
      BY <1>1, <1>2, <2>2, Quotients DEF Rule
    <3>2. Within(p, At(p, k)) <=> day(k) <= e
      BY <1>3, <2>2 DEF Within
    <3>3. rule.until = StartOfDay(e) /\ rule.until # Unset
      BY <1>2, <1>5, <2>2, <3>1, Days
    <3> HIDE DEF e
    <3> QED
      BY <1>3, <3>1, <3>2, <3>3, DaysInOrder
  <2> QED
    BY <2>1, <2>2
<1>9. ASSUME NEW t \in All(p), t <= Far
      PROVE  t \in found <=> /\ Produced(p, t)
                             /\ from - Slack(p) <= t /\ t <= to + Slack(p)
                             /\ Cardinality(Spent(p, from, t)) < MaxOccurrences
  <2>1. PICK k \in Nat : t = At(p, k) /\ t = Kth(p, k)
    BY <1>2, <1>3
  <2>2. FirstPass(t) = t /\ t \in Firsts(p) /\ Slack(p) = 0 /\ Reach(p) = 0 /\ t \in Int
    BY <1>1, <1>4, <2>1, Occurrences DEF Slack, Reach
  <2>3. Spent(p, from, t) = {u \in Below(Firsts(p), t) : from <= u}
    BY <2>2 DEF Spent
  <2>4. Produced(p, t) <=> /\ rule.until # Unset => t <= rule.until
                           /\ rule.count # Unset => Before(Firsts(p), t) < rule.count
    BY <1>4, <1>5, <1>8, <2>1 DEF Produced
  <2>5. from - Slack(p) = from /\ to + Slack(p) = to
    BY <2>2
  <2> HIDE DEF o, found
  <2> QED
    BY <1>6, <1>7, <1>9, <2>2, <2>3, <2>4, <2>5, Zenon
<1>10. from..to \subseteq (from - 1)..(to + 1)
  OBVIOUS
<1> HIDE DEF o, found
<1> QED
  BY <1>4, <1>6, <1>7, <1>9, <1>10 DEF Lists, found

LEMMA ExpandIs ==
    ASSUME SeriesAssumption, NEW s, NEW p, SameRule(s, p), NEW from \in Int, NEW to \in Int
    PROVE  Lists(p, from, to, Expand(s, from, to))
  BY ExpandTimedIs, ExpandAllDayIs DEF Expand, SameRule

\* The ends of a plan.
Bounds(p) == p.until \in Int \cup {Unset} /\ p.count \in (Nat \ {0}) \cup {Unset}

LEMMA Orders ==
    ASSUME SeriesAssumption, NEW p, Timing(p), Bounds(p), NEW t \in All(p), NEW u \in All(p)
    PROVE  /\ t \in Int /\ FirstPass(t) \in Int /\ FirstPass(t) \in Firsts(p)
           /\ FirstPass(t) <= t /\ t <= FirstPass(t) + 2
           /\ p.start <= t /\ p.start \in All(p) /\ p.start - 2 <= FirstPass(t)
           /\ t < u <=> FirstPass(t) < FirstPass(u)
           /\ Before(All(p), t) = Before(Firsts(p), FirstPass(t))
           /\ p.allDay => Date(t) \in Int /\ t = StartOfDay(Date(t)) /\ FirstPass(t) = t
           /\ t < u /\ Within(p, u) => Within(p, t)
<1>1. PICK i \in Nat : t = Kth(p, i)
  BY Sequence
<1>2. PICK j \in Nat : u = Kth(p, j)
  BY Sequence
<1>3. /\ FirstPass(t) = At(p, i) /\ FirstPass(u) = At(p, j)
      /\ At(p, i) \in Firsts(p) /\ At(p, j) \in Firsts(p) /\ At(p, i) \in Int /\ At(p, j) \in Int
      /\ t \in Int /\ u \in Int /\ At(p, i) <= t /\ t <= At(p, i) + 2
  BY <1>1, <1>2, Occurrences
<1>4. /\ Before(All(p), t) = Before(Firsts(p), At(p, i))
      /\ Before(All(p), u) = Before(Firsts(p), At(p, j))
  BY <1>1, <1>2, Occurrences
<1>5. Discrete(All(p)) /\ Discrete(Firsts(p))
  BY Sequence
<1>6. t < u <=> At(p, i) < At(p, j)
  <2>1. t < u <=> Before(All(p), t) < Before(All(p), u)
    BY <1>5, Places
  <2>2. At(p, i) < At(p, j) <=> Before(Firsts(p), At(p, i)) < Before(Firsts(p), At(p, j))
    BY <1>3, <1>5, Places
  <2> QED
    BY <1>4, <2>1, <2>2
<1>7. p.start <= t /\ p.start \in All(p) /\ p.start - 2 <= FirstPass(t)
  <2>1. Kth(p, 0) = p.start /\ Kth(p, 0) \in All(p) /\ p.start \in Int
    BY Kths, Occurrences
  <2>2. Kth(p, 0) <= Kth(p, i)
    BY Sequence
  <2> QED
    BY <1>1, <1>3, <2>1, <2>2
<1>8. p.allDay => Date(t) \in Int /\ t = StartOfDay(Date(t)) /\ FirstPass(t) = t
                  /\ Date(u) \in Int /\ u = StartOfDay(Date(u))
  <2> SUFFICES ASSUME p.allDay, NEW k \in Nat
               PROVE  /\ Date(Kth(p, k)) \in Int /\ Kth(p, k) = StartOfDay(Date(Kth(p, k)))
                      /\ Kth(p, k) = At(p, k)
    BY <1>1, <1>2, <1>3
  <2> DEFINE d == Date(p.start) + k * (p.step \div DayLength)
  <2>1. d \in Int /\ At(p, k) = StartOfDay(d) /\ ~IsSecondPass(p.start)
    BY AllDayAts
  <2>2. Kth(p, k) = At(p, k)
    BY <2>1, Occurrences
  <2> HIDE DEF d
  <2>3. Date(StartOfDay(d)) = d
    BY <2>1, Days
  <2> QED
    BY <2>1, <2>2, <2>3
<1>9. ASSUME t < u, Within(p, u)  PROVE  Within(p, t)
  <2>1. CASE p.until = Unset
    BY <2>1 DEF Within
  <2>2. CASE p.until # Unset /\ p.allDay
    <3>1. ~(Date(u) <= Date(t))
      BY <1>3, <1>8, <1>9, <2>2, DaysInOrder
    <3>2. Date(u) <= p.until \div DayLength
      BY <1>9, <2>2 DEF Within
    <3>3. p.until \div DayLength \in Int
      BY <2>2, Quotients, Changes DEF Bounds
    <3> QED
      BY <1>8, <2>2, <3>1, <3>2, <3>3 DEF Within
  <2>3. CASE p.until # Unset /\ ~p.allDay
    BY <1>3, <1>6, <1>9, <2>3 DEF Within, Bounds
  <2> QED
    BY <2>1, <2>2, <2>3
<1> QED
  BY <1>3, <1>4, <1>6, <1>7, <1>8, <1>9

LEMMA PlannedIs ==
    ASSUME SeriesAssumption, NEW p, Timing(p), Bounds(p), NEW t \in All(p), t <= Far
    PROVE  /\ t \in Every(p) <=> Within(p, t)
           /\ Within(p, t) => Ordinal(p, t) = Before(All(p), t) + 1
           /\ t \in Planned(p) <=> Produced(p, t)
           /\ Before(All(p), t) \in Nat
<1>1. p.step # Unset /\ p.start \in Int /\ Far \in Int
  BY DEF Timing, SeriesAssumption, Far
<1>2. Steps(p.start, p.step) \in Nat /\ \A k \in Nat : At(p, k) <= Far => k < Steps(p.start, p.step)
  BY <1>1, Horizon
<1>3. Every(p) = {u \in {Kth(p, k) : k \in 0..Steps(p.start, p.step)} : Within(p, u)}
  BY <1>1 DEF Every
<1>4. ASSUME NEW u \in All(p), u <= Far  PROVE  u \in Every(p) <=> Within(p, u)
  <2>1. PICK k \in Nat : u = Kth(p, k)
    BY Sequence
  <2>2. At(p, k) \in Int /\ At(p, k) <= u /\ u \in Int
    BY <2>1, Occurrences
  <2>3. k \in 0..Steps(p.start, p.step)
    BY <1>1, <1>2, <1>4, <2>2
  <2> QED
    BY <1>3, <2>1, <2>3
<1>5. Every(p) \subseteq All(p)
  BY <1>2, <1>3, Sequence
<1>6. All(p) \subseteq Int /\ IsFiniteSet(Below(All(p), t))
  BY Sequence DEF Discrete
<1>7. Before(All(p), t) \in Nat
  BY <1>6, FS_CardinalityType DEF Before
<1>8. ASSUME Within(p, t)  PROVE  Ordinal(p, t) = Before(All(p), t) + 1
  <2>1. {u \in Every(p) : u <= t} = Below(All(p), t) \cup {t}
    <3>1. ASSUME NEW u \in Below(All(p), t)  PROVE  u \in Every(p) /\ u <= t
      <4>1. u \in All(p) /\ u < t /\ u \in Int /\ t \in Int
        BY <1>6, <3>1 DEF Below
      <4>2. Within(p, u)
        BY <1>8, <4>1, Orders
      <4> QED
        BY <1>1, <1>4, <4>1, <4>2
    <3>2. ASSUME NEW u \in Every(p), u <= t  PROVE  u \in Below(All(p), t) \cup {t}
      BY <1>5, <1>6, <3>2 DEF Below
    <3>3. t \in Every(p) /\ t <= t
      BY <1>4, <1>6, <1>8
    <3> QED
      BY <3>1, <3>2, <3>3
  <2>2. t \notin Below(All(p), t)
    BY <1>6 DEF Below
  <2> QED
    BY <1>6, <2>1, <2>2, FS_AddElement DEF Ordinal, Before
<1>9. t \in Planned(p) <=> Produced(p, t)
  <2>1. p.count # Unset => p.count \in Nat
    BY DEF Bounds
  <2> QED
    BY <1>4, <1>7, <1>8, <2>1 DEF Planned, Produced
<1> QED
  BY <1>4, <1>7, <1>8, <1>9

\* locate_occurrence: what can be located, and what it counts before it.
LEMMA LocatedIs ==
    ASSUME SeriesAssumption, NEW s, NEW p, SameRule(s, p), NEW t \in Located(s)
    PROVE  /\ Timing(p) /\ Bounds(p) /\ t \in All(p) /\ t \in Int /\ t <= Far
           /\ Produced(p, t) /\ ~Excludes(s, t)
           /\ Before(All(p), t) \in Nat /\ Ordinal(p, t) = Before(All(p), t) + 1
           /\ ProducedBefore(s, t) = Before(All(p), t)
<1>1. /\ Timing(p) /\ Bounds(p) /\ s.start = p.start /\ p.start \in Int
      /\ DayLength \in Nat /\ DayLength >= 6 /\ LastDay \in Nat /\ MaxOccurrences \in Nat
  BY DEF SameRule, Timing, Bounds, Rule, SeriesAssumption
<1> DEFINE a == p.start - DayLength
           end == (LastDay + 1) * DayLength
           whole == Expand(s, a, end)
           close == Expand(s, a, t + DayLength)
<1>2. a \in Int /\ end \in Int /\ Far = end + 3
  BY <1>1 DEF Far
<1>3. t \in whole /\ ~Excludes(s, t)
  BY <1>1 DEF Located
<1>4. Lists(p, a, end, whole)
  <2> HIDE DEF a, end
  <2> QED
    BY <1>2, ExpandIs
<1>5. All(p) \subseteq Int /\ Discrete(All(p))
  BY <1>1, Sequence DEF Discrete
<1>6. t \in All(p) /\ t \in Int /\ t <= end + 1 /\ t <= Far
  <2> HIDE DEF a, end, whole
  <2>1. t \in All(p) /\ t \in (a - 1)..(end + 1)
    BY <1>3, <1>4 DEF Lists
  <2> QED
    BY <1>2, <1>5, <2>1
<1>7. Slack(p) \in {0, 1} /\ Reach(p) \in {0, 1, 3}
  BY DEF Slack, Reach
<1>8. ASSUME NEW u \in All(p)
      PROVE  Cardinality(Spent(p, a, u)) = Before(All(p), u)
  <2>1. \A v \in Firsts(p) : v \in Int /\ p.start - 2 <= v
    <3> SUFFICES ASSUME NEW k \in Nat  PROVE  At(p, k) \in Int /\ p.start - 2 <= At(p, k)
      BY DEF Firsts
    <3>1. Kth(p, k) \in All(p) /\ FirstPass(Kth(p, k)) = At(p, k) /\ At(p, k) \in Int
      BY <1>1, Occurrences
    <3> QED
      BY <1>1, <3>1, Orders
  <2>2. Spent(p, a, u) = Below(Firsts(p), FirstPass(u))
    BY <1>1, <1>7, <2>1 DEF Spent, Below
  <2> QED
    BY <1>1, <2>2, Orders DEF Before
<1>9. Produced(p, t) /\ Before(All(p), t) < MaxOccurrences
  <2> HIDE DEF a, end, whole
  <2> QED
    BY <1>3, <1>4, <1>6, <1>8 DEF Lists
<1>10. Before(All(p), t) \in Nat /\ Ordinal(p, t) = Before(All(p), t) + 1
  BY <1>1, <1>6, <1>9, PlannedIs DEF Produced
<1>11. {u \in close : u < t} = Below(All(p), t)
  <2> DEFINE b == t + DayLength
  <2>1. b \in Int
    BY <1>1, <1>6
  <2>2. Lists(p, a, b, close)
    <3> HIDE DEF a, b
    <3> QED
      BY <1>2, <2>1, ExpandIs DEF b
  <2>3. close \subseteq All(p)
    BY <2>2 DEF Lists
  <2>4. ASSUME NEW u \in All(p), u < t  PROVE  u \in close
    <3>1. u \in Int /\ u <= Far
      BY <1>2, <1>5, <1>6, <2>4
    <3>2. Before(All(p), u) \in Nat /\ Before(All(p), u) < Before(All(p), t)
      BY <1>5, <1>6, <2>4, Places
    <3>3. Within(p, u)
      BY <1>1, <1>6, <1>9, <2>4, Orders DEF Produced
    <3>4. Produced(p, u)
      BY <1>1, <1>9, <1>10, <3>2, <3>3 DEF Produced, Bounds
    <3>5. Cardinality(Spent(p, a, u)) < MaxOccurrences
      BY <1>1, <1>8, <1>9, <1>10, <3>2
    <3>6. p.start <= u
      BY <1>1, Orders
    <3>7. a - Slack(p) <= u /\ u <= b + Slack(p)
      BY <1>1, <1>6, <1>7, <2>4, <3>1, <3>6
    <3> HIDE DEF a, b, close
    <3> QED
      BY <2>2, <3>1, <3>4, <3>5, <3>7 DEF Lists
  <2> QED
    BY <1>5, <2>3, <2>4 DEF Below
<1>12. ProducedBefore(s, t) = Before(All(p), t)
  BY <1>1, <1>11 DEF ProducedBefore, Before
<1> QED
  BY <1>1, <1>3, <1>6, <1>9, <1>10, <1>12

-----------------------------------------------------------------------------
(* A series whose rule is its plan's and whose marks are where the plan has  *)
(* them keeps its plan.                                                      *)

\* The instants of some ordinals.
Of(p, ordinals) == {t \in All(p) : Before(All(p), t) + 1 \in ordinals}
Marks(s, p) == s.exdates = Of(p, p.skipped) /\ s.done = Of(p, p.done)
OneOff(s, p) ==
    /\ s.rule = Unset /\ p.step = Unset /\ s.start = p.start /\ p.start \in Int
    /\ p.skipped = {} /\ Bounds(p)
Follows(s, p) == s.rule # Unset /\ SameRule(s, p) /\ Unrolls(s)

LEMMA ExcludesIs ==
    ASSUME SeriesAssumption, NEW s, NEW p, SameRule(s, p), s.exdates \subseteq All(p), NEW t \in All(p)
    PROVE  Excludes(s, t) <=> t \in s.exdates
<1>1. Timing(p) /\ Bounds(p) /\ s.allDay = p.allDay
  BY DEF SameRule, Bounds, Rule
<1>2. p.allDay => \A x \in s.exdates : Date(x) = Date(t) <=> x = t
  BY <1>1, Orders
<1> QED
  BY <1>1, <1>2 DEF Excludes

LEMMA Spendings ==
    ASSUME SeriesAssumption, NEW p, Timing(p), Bounds(p), NEW from \in Int, NEW to \in Int, to <= Far,
           NEW margin \in Int, margin = (IF IsSecondPass(p.start) THEN 3 ELSE 1),
           Cardinality({FirstPass(u) : u \in Planned(p)} \cap ((from - margin)..(to + margin)))
             <= MaxOccurrences,
           NEW t \in All(p), Produced(p, t), from <= t, t <= to
    PROVE  Cardinality(Spent(p, from, t)) < MaxOccurrences
<1> DEFINE a == from - margin
           b == to + margin
           P == {FirstPass(u) : u \in Planned(p)} \cap (a..b)
           X == Spent(p, from, t)
<1>1. a \in Int /\ b \in Int /\ MaxOccurrences \in Nat /\ Far \in Int
  BY DEF SeriesAssumption, Far
<1>2. IsFiniteSet(P)
  <2>1. IsFiniteSet(a..b)
    BY <1>1, FS_Interval
  <2> QED
    BY <2>1, FS_Subset
<1>3. t \in Int /\ FirstPass(t) \in Int /\ FirstPass(t) <= t /\ t <= FirstPass(t) + 2
  BY Orders
<1>4. ~IsSecondPass(p.start) => FirstPass(t) = t
  BY Occurrences, Sequence
<1>5. FirstPass(t) \in P
  <2>1. t \in Planned(p)
    BY <1>1, <1>3, PlannedIs
  <2>2. a <= FirstPass(t) /\ FirstPass(t) <= b
    BY <1>3, <1>4
  <2> QED
    BY <1>1, <1>3, <2>1, <2>2
<1>6. FirstPass(t) \notin X
  BY <1>3 DEF Spent, Below
<1>7. ASSUME NEW v \in X  PROVE  v \in P
  <2>1. v \in Firsts(p) /\ v < FirstPass(t) /\ from - Reach(p) <= v
    BY <1>7 DEF Spent, Below
  <2>2. PICK k \in Nat : v = At(p, k)
    BY <2>1 DEF Firsts
  <2> DEFINE u == Kth(p, k)
  <2>3. u \in All(p) /\ FirstPass(u) = v /\ v \in Int /\ u \in Int
    BY <2>2, Occurrences
  <2>4. u < t
    BY <2>1, <2>3, Orders
  <2>5. Within(p, u) /\ Before(All(p), u) \in Nat /\ Before(All(p), u) < Before(All(p), t)
        /\ Before(All(p), t) \in Nat
    BY <2>3, <2>4, Orders, Places, Sequence DEF Produced
  <2>6. Produced(p, u)
    BY <2>3, <2>5 DEF Produced, Bounds
  <2>7. u \in Planned(p)
    BY <1>1, <1>3, <2>3, <2>4, <2>6, PlannedIs
  <2>8. Reach(p) <= margin /\ Reach(p) \in Int
    BY DEF Reach
  <2>9. a <= v /\ v <= b
    BY <1>3, <2>1, <2>3, <2>8
  <2> QED
    BY <1>1, <2>3, <2>7, <2>9
<1> HIDE DEF P, X
<1>8. X \cup {FirstPass(t)} \subseteq P
  BY <1>5, <1>7
<1>9. IsFiniteSet(X) /\ Cardinality(X \cup {FirstPass(t)}) = Cardinality(X) + 1
  <2>1. IsFiniteSet(X)
    BY <1>2, <1>8, FS_Subset
  <2> QED
    BY <1>6, <2>1, FS_AddElement
<1>10. Cardinality(X) + 1 <= Cardinality(P) /\ Cardinality(P) \in Nat /\ Cardinality(X) \in Nat
  BY <1>2, <1>8, <1>9, FS_Subset, FS_CardinalityType
<1>11. Cardinality(P) <= MaxOccurrences
  BY DEF P
<1> QED
  BY <1>1, <1>10, <1>11 DEF X

LEMMA KeptOneOff ==
    ASSUME SeriesAssumption, NEW i, OneOff(repeating[i], plan[i]), Marks(repeating[i], plan[i])
    PROVE  Kept(i)
<1> DEFINE s == repeating[i]
           p == plan[i]
<1>1. /\ s.rule = Unset /\ p.step = Unset /\ s.start = p.start /\ p.start \in Int /\ p.skipped = {}
      /\ p.count \in Nat \ {0} \/ p.count = Unset
      /\ s.done = Of(p, p.done)
  BY DEF OneOff, Bounds, Marks
<1>2. \A from, to : Listed(s, from, to) = {p.start} \cap (from..to)
  BY <1>1 DEF Listed
<1>3. Every(p) = {p.start} /\ All(p) = {p.start}
  BY <1>1 DEF Every, All
<1>4. Ordinal(p, p.start) = 1 /\ Before(All(p), p.start) = 0
  <2>1. {u \in Every(p) : u <= p.start} = {p.start} /\ Below(All(p), p.start) = {}
    BY <1>1, <1>3 DEF Below
  <2> QED
    BY <2>1, FS_Singleton, FS_EmptySet DEF Ordinal, Before
<1>5. Planned(p) = {p.start}
  BY <1>1, <1>3, <1>4 DEF Planned
<1>6. s.done = {t \in {p.start} : 1 \in p.done}
  BY <1>1, <1>3, <1>4 DEF Of
<1>7. {t \in Planned(p) : Ordinal(p, t) \notin p.skipped} = {p.start}
      /\ {t \in Planned(p) : Ordinal(p, t) \in p.done} = s.done
  BY <1>1, <1>4, <1>5, <1>6
<1> HIDE DEF s, p
<1>8. ASSUME NEW w \in Windows
      PROVE  /\ Listed(s, w[1], w[2]) \subseteq {p.start} \cap ((w[1] - Second)..(w[2] + Second))
             /\ {p.start} \cap (w[1]..w[2]) \subseteq Listed(s, w[1], w[2])
  <2>1. w[1] \in Int /\ w[2] \in Int
    BY DEF SeriesAssumption
  <2>2. (w[1]..w[2]) \subseteq ((w[1] - Second)..(w[2] + Second))
    BY <2>1 DEF Second
  <2> QED
    BY <1>2, <2>2
<1> QED
  BY <1>7, <1>8 DEF Kept, s, p

LEMMA KeptSeries ==
    ASSUME SeriesAssumption, NEW i, Follows(repeating[i], plan[i]), Marks(repeating[i], plan[i])
    PROVE  Kept(i)
<1> DEFINE s == repeating[i]
           p == plan[i]
           end == (LastDay + 1) * DayLength
           planned == Planned(p)
           kept == {t \in planned : Ordinal(p, t) \notin p.skipped}
           margin == IF IsSecondPass(p.start) THEN 3 ELSE 1
<1>1. /\ s.rule # Unset /\ SameRule(s, p) /\ Unrolls(s) /\ Timing(p) /\ Bounds(p)
      /\ s.exdates = Of(p, p.skipped) /\ s.done = Of(p, p.done)
  BY DEF Follows, Marks, SameRule, Bounds, Rule
<1> HIDE DEF s, p
<1>2. DayLength \in Nat /\ LastDay \in Nat /\ end \in Int /\ -DayLength \in Int /\ Far = end + 3
  BY DEF SeriesAssumption, Far
<1> HIDE DEF end
<1>3. s.exdates \subseteq All(p) /\ All(p) \subseteq Int
  BY <1>1, Sequence DEF Of, Discrete
<1>4. ASSUME NEW from \in Int, NEW to \in Int, to <= end
      PROVE  /\ Listed(s, from, to) = {t \in Expand(s, from, to) : t \notin s.exdates}
             /\ \A t \in Expand(s, from, to) :
                  /\ t \in All(p) /\ t \in Int /\ t <= Far /\ Produced(p, t)
                  /\ t \in planned /\ Ordinal(p, t) = Before(All(p), t) + 1
                  /\ from - 1 <= t /\ t <= to + 1
  <2>1. Lists(p, from, to, Expand(s, from, to))
    BY <1>1, ExpandIs
  <2>2. Expand(s, from, to) \subseteq All(p)
    BY <2>1 DEF Lists
  <2>3. Listed(s, from, to) = {t \in Expand(s, from, to) : t \notin s.exdates}
    BY <1>1, <1>3, <2>2, ExcludesIs DEF Listed
  <2>4. ASSUME NEW t \in Expand(s, from, to)
        PROVE  /\ t \in All(p) /\ t \in Int /\ t <= Far /\ Produced(p, t)
               /\ t \in planned /\ Ordinal(p, t) = Before(All(p), t) + 1
               /\ from - 1 <= t /\ t <= to + 1
    <3>1. t \in All(p) /\ t \in Int /\ from - 1 <= t /\ t <= to + 1
      BY <1>3, <2>1 DEF Lists
    <3>2. t <= Far
      BY <1>2, <1>4, <3>1
    <3>3. Produced(p, t)
      BY <2>1, <3>1, <3>2 DEF Lists
    <3>4. t \in planned /\ Ordinal(p, t) = Before(All(p), t) + 1
      BY <1>1, <3>1, <3>2, <3>3, PlannedIs DEF Produced
    <3> QED
      BY <3>1, <3>2, <3>3, <3>4
  <2> QED
    BY <2>3, <2>4
<1>5. ASSUME NEW w \in Windows,
             Cardinality({FirstPass(t) : t \in planned} \cap ((w[1] - margin)..(w[2] + margin)))
               <= MaxOccurrences
      PROVE  /\ Listed(s, w[1], w[2]) \subseteq kept \cap ((w[1] - 1)..(w[2] + 1))
             /\ kept \cap (w[1]..w[2]) \subseteq Listed(s, w[1], w[2])
  <2> DEFINE from == w[1]
             to == w[2]
  <2>1. from \in Int /\ to \in Int /\ to <= end
    BY DEF SeriesAssumption, end
  <2>2. Cardinality({FirstPass(t) : t \in planned} \cap ((from - margin)..(to + margin)))
          <= MaxOccurrences
    BY <1>5
  <2> HIDE DEF from, to
  <2>3. /\ Listed(s, from, to) = {t \in Expand(s, from, to) : t \notin s.exdates}
        /\ \A t \in Expand(s, from, to) :
             /\ t \in All(p) /\ t \in Int /\ t <= Far /\ Produced(p, t)
             /\ t \in planned /\ Ordinal(p, t) = Before(All(p), t) + 1
             /\ from - 1 <= t /\ t <= to + 1
    BY <1>4, <2>1
  <2>4. ASSUME NEW t \in Listed(s, from, to)  PROVE  t \in kept \cap ((from - 1)..(to + 1))
    BY <1>1, <2>1, <2>3, <2>4 DEF Of
  <2>5. ASSUME NEW t \in kept, from <= t, t <= to, t \in Int
        PROVE  t \in Listed(s, from, to)
    <3>1. t \in All(p)
      <4>1. p.step # Unset /\ p.start \in Int
        BY <1>1 DEF Timing, SeriesAssumption
      <4>2. Steps(p.start, p.step) \in Nat
        BY <1>1, <4>1, Horizon
      <4>3. Every(p) \subseteq All(p)
        BY <1>1, <4>1, <4>2, Sequence DEF Every
      <4> QED
        BY <4>3 DEF Planned
    <3>2. t <= Far /\ to <= Far
      BY <1>2, <2>1, <2>5
    <3>3. Produced(p, t) /\ Ordinal(p, t) = Before(All(p), t) + 1
      BY <1>1, <2>5, <3>1, <3>2, PlannedIs DEF Produced
    <3>4. t \notin s.exdates
      BY <1>1, <2>5, <3>3 DEF Of
    <3>5. Cardinality(Spent(p, from, t)) < MaxOccurrences
      <4>1. margin \in Int
        OBVIOUS
      <4> QED
        BY <1>1, <2>1, <2>2, <2>5, <3>1, <3>2, <3>3, <4>1, Spendings
    <3>6. t \in Expand(s, from, to)
      <4>1. Lists(p, from, to, Expand(s, from, to))
        BY <1>1, <2>1, ExpandIs
      <4>2. from - Slack(p) <= t /\ t <= to + Slack(p)
        BY <2>1, <2>5 DEF Slack
      <4> QED
        BY <3>1, <3>2, <3>3, <3>5, <4>1, <4>2 DEF Lists
    <3> QED
      BY <2>3, <3>4, <3>6
  <2>6. ASSUME NEW t \in kept \cap (from..to)  PROVE  t \in Listed(s, from, to)
    BY <2>1, <2>5, <2>6
  <2> QED
    BY <2>4, <2>6 DEF from, to
<1>6. LET whole == Listed(s, -DayLength, end) IN
      s.done \cap whole = {t \in planned : Ordinal(p, t) \in p.done} \cap whole
  <2> DEFINE whole == Listed(s, -DayLength, end)
  <2>1. end <= end
    BY <1>2
  <2>2. \A t \in whole : t \in All(p) /\ t \in planned /\ Ordinal(p, t) = Before(All(p), t) + 1
    BY <1>2, <1>4, <2>1
  <2>3. \A t \in whole : t \in s.done <=> t \in planned /\ Ordinal(p, t) \in p.done
    BY <1>1, <2>2 DEF Of
  <2> HIDE DEF whole
  <2> QED
    BY <2>3 DEF whole
<1> QED
  <2>1. margin = IF IsSecondPass(p.start) THEN Second + Hour ELSE Second
    BY DEF Second, Hour
  <2> QED
    BY <1>5, <1>6, <2>1 DEF Kept, s, p, end, Second, Hour

-----------------------------------------------------------------------------
(* The series that carries on after a cut.                                   *)

LEMMA CarriedMarks ==
    ASSUME SeriesAssumption, NEW s, NEW p, NEW q, Timing(p), Timing(q), NEW t \in All(p), NEW to,
           NEW n \in Nat, n = Before(All(p), t), NEW O \in SUBSET Nat,
           \A x \in Of(p, O) : x >= t =>
             /\ Moved(s, x, t, to) \in All(q)
             /\ Before(All(q), Moved(s, x, t, to)) = Before(All(p), x) - n
    PROVE  {Moved(s, x, t, to) : x \in {y \in Of(p, O) : y >= t}} = Of(q, From(O, n))
<1>1. Discrete(All(p)) /\ Discrete(All(q)) /\ All(p) \subseteq Int
  BY Sequence DEF Discrete
<1>2. ASSUME NEW x \in Of(p, O), x >= t
      PROVE  Moved(s, x, t, to) \in Of(q, From(O, n))
  <2>1. x \in All(p) /\ Before(All(p), x) \in Nat /\ Before(All(p), x) + 1 \in O
    BY <1>1, Places DEF Of
  <2>2. ~(Before(All(p), x) < n)
    BY <1>1, <1>2, <2>1, Places
  <2>3. Before(All(p), x) + 1 > n /\ (Before(All(p), x) + 1) - n = (Before(All(p), x) - n) + 1
    BY <2>1, <2>2
  <2>4. (Before(All(p), x) + 1) - n \in From(O, n)
    BY <2>1, <2>3 DEF From
  <2> QED
    BY <1>2, <2>3, <2>4 DEF Of
<1>3. ASSUME NEW y \in Of(q, From(O, n))
      PROVE  \E x \in Of(p, O) : x >= t /\ y = Moved(s, x, t, to)
  <2>1. y \in All(q) /\ Before(All(q), y) \in Nat /\ Before(All(q), y) + 1 \in From(O, n)
    BY <1>1, <1>3, Places DEF Of
  <2>2. PICK o \in O : o > n /\ Before(All(q), y) + 1 = o - n
    BY <2>1 DEF From
  <2>3. o \in Nat /\ o - 1 \in Nat
    BY <2>2
  <2>4. PICK x \in All(p) : Before(All(p), x) = o - 1
    BY <2>3, Sequence
  <2>5. x \in Of(p, O)
    BY <2>2, <2>3, <2>4 DEF Of
  <2>6. x >= t
    <3>1. ~(Before(All(p), x) < Before(All(p), t))
      BY <2>2, <2>3, <2>4
    <3> QED
      BY <1>1, <3>1, Places
  <2>7. /\ Moved(s, x, t, to) \in All(q)
        /\ Before(All(q), Moved(s, x, t, to)) = Before(All(q), y)
    BY <2>1, <2>2, <2>3, <2>4, <2>5, <2>6
  <2> QED
    BY <1>1, <2>1, <2>5, <2>6, <2>7, Places
<1> QED
  BY <1>2, <1>3

\* Two occurrences are on the same side of the skipped hour as where they go.
SameSide(p, m, j, delta) ==
    p.step = 2 => /\ Clock(p, m) >= GapAt + 4 <=> Clock(p, m) + delta >= GapAt + 4
                  /\ Clock(p, j) >= GapAt + 4 <=> Clock(p, j) + delta >= GapAt + 4

LEMMA Tails ==
    ASSUME SeriesAssumption, NEW p, NEW q, Timing(p), Timing(q), q.step = p.step,
           ~IsSecondPass(q.start), NEW m \in Nat, NEW j \in Nat, m <= j,
           NEW delta \in Int, Clock(q, 0) = Clock(p, m) + delta,
           SameSide(p, m, j, delta)
    PROVE  /\ j - m \in Nat /\ Kth(q, j - m) \in All(q)
           /\ Kth(q, j - m) = Resolve(Clock(p, j) + delta)
           /\ Before(All(q), Kth(q, j - m)) = Before(All(p), Kth(p, j)) - Before(All(p), Kth(p, m))
<1> DEFINE k == j - m
<1>1. k \in Nat /\ p.step \in Nat /\ Wall(p.start) \in Int /\ GapAt \in Nat
  BY Walls, Changes DEF Timing
<1>2. Clock(q, k) = Clock(p, j) + delta /\ Clock(p, m) <= Clock(p, j)
      /\ Clock(p, j) \in Int /\ Clock(p, m) \in Int /\ Clock(p, 0) \in Int
      /\ Clock(p, 0) <= Clock(p, m)
  <2> DEFINE a == j * p.step
             b == m * p.step
             c == k * p.step
  <2>1. a \in Int /\ b \in Int /\ c = a - b /\ b <= a
    BY <1>1, Products
  <2>2. Clock(p, j) = Wall(p.start) + a /\ Clock(p, m) = Wall(p.start) + b
        /\ Clock(q, k) = Wall(q.start) + c
    BY DEF Clock
  <2>3. Clock(q, 0) = Wall(q.start)
    BY Clocks
  <2>4. Clock(p, 0) \in Int /\ Clock(p, 0) <= Clock(p, m)
    BY Clocks
  <2> HIDE DEF a, b, c
  <2> QED
    BY <1>1, <2>1, <2>2, <2>3, <2>4
<1> HIDE DEF k
<1>3. Kth(q, k) \in All(q) /\ Kth(q, k) = At(q, k)
  BY <1>1, Occurrences
<1>4. Lost(q, k) = Lost(p, j) - Lost(p, m)
  BY <1>1, <1>2 DEF Lost, SameSide
<1>5. /\ Before(All(q), Kth(q, k)) = k - Lost(q, k)
      /\ Before(All(p), Kth(p, j)) = j - Lost(p, j)
      /\ Before(All(p), Kth(p, m)) = m - Lost(p, m)
      /\ Lost(p, j) \in Int /\ Lost(p, m) \in Int
  BY <1>1, Occurrences, Losses
<1>6. Before(All(q), Kth(q, k)) = Before(All(p), Kth(p, j)) - Before(All(p), Kth(p, m))
  BY <1>4, <1>5 DEF k
<1> QED
  BY <1>1, <1>2, <1>3, <1>6 DEF k, At

\* Where the wall clock of an occurrence that is not displaced is the rule's.
LEMMA CutAt ==
    ASSUME SeriesAssumption, NEW p, Timing(p), NEW t \in All(p), t # p.start, ~Displaced(p, t)
    PROVE  \E m \in Nat : m > 0 /\ t = Kth(p, m) /\ t = At(p, m) /\ Wall(t) = Clock(p, m)
<1>1. PICK k \in Nat : t = Kth(p, k)
  BY Sequence
<1>2. k > 0 /\ t = At(p, k) /\ t \in Int
  BY <1>1, Kths
<1>3. p.step \in Nat /\ p.step >= 2 /\ Clock(p, k) \in Int /\ Clock(p, k + 1) = Clock(p, k) + p.step
      /\ p.start \in Int /\ p.allDay \in BOOLEAN /\ GapAt \in Nat
  BY Clocks, Changes DEF Timing
<1>4. CASE ~(GapAt + 2 <= Clock(p, k) /\ Clock(p, k) < GapAt + 4)
  <2>1. Wall(t) = Clock(p, k)
    BY <1>2, <1>3, <1>4, Resolved DEF At
  <2> QED
    BY <1>1, <1>2, <2>1
<1>5. CASE GapAt + 2 <= Clock(p, k) /\ Clock(p, k) < GapAt + 4
  <2>1. Wall(t) = Clock(p, k) + 2
    BY <1>2, <1>3, <1>5, Resolved DEF At
  <2>2. ~p.allDay
    <3> SUFFICES ASSUME p.allDay  PROVE  FALSE
      BY <1>3
    <3> DEFINE d == Date(p.start) + k * (p.step \div DayLength)
    <3>1. d \in Int /\ Clock(p, k) = d * DayLength
      BY AllDayAts
    <3> HIDE DEF d
    <3>2. GapDay \in Int
      BY DEF SeriesAssumption
    <3> QED
      BY <1>3, <1>5, <3>1, <3>2, Days
  <2> DEFINE b == Wall(t) - Wall(p.start)
             q == b \div p.step
             a == k * p.step
             c == q * p.step
  <2>3. Clock(p, k) = Wall(p.start) + a /\ a \in Int /\ Wall(p.start) \in Int
    BY <1>3, Walls DEF Clock
  <2>4. b \in Int /\ b = a + 2
    BY <2>1, <2>3
  <2>5. b % p.step = 0
    BY <2>2 DEF Displaced
  <2>6. q \in Int /\ b = c
    <3> HIDE DEF b
    <3> QED
      BY <1>3, <2>4, <2>5, Quotients
  <2>7. q > k
    <3> HIDE DEF b, q
    <3> SUFFICES ASSUME q <= k  PROVE  FALSE
      BY <2>6
    <3>1. c <= a
      BY <1>3, <2>6, Products
    <3> QED
      BY <2>3, <2>4, <2>6, <3>1
  <2>8. a + p.step <= c
    <3> HIDE DEF b, q
    <3> QED
      BY <1>3, <2>6, <2>7, Products
  <2>9. p.step = 2
    <3> HIDE DEF a, b, c, q
    <3> QED
      BY <1>3, <2>3, <2>4, <2>6, <2>8
  <2>10. At(p, k + 1) = At(p, k) /\ Clock(p, k + 1) = Wall(t)
    BY <1>3, <1>5, <2>1, <2>9, Ats
  <2>11. k + 1 \in Nat /\ k + 1 > 0 /\ Kth(p, k + 1) = At(p, k + 1)
    <3>1. k + 1 \in Nat /\ k + 1 > 0
      BY <1>2
    <3> QED
      BY <3>1, Kths
  <2> QED
    BY <1>2, <2>10, <2>11
<1> QED
  BY <1>4, <1>5

\* A wall clock of a day that does not change hour.
LEMMA Quiet ==
    ASSUME SeriesAssumption, NEW w \in Int, ~ChangesOn(w \div DayLength)
    PROVE  /\ w < GapAt \/ w >= GapAt + DayLength
           /\ w < FoldAt \/ w >= FoldAt + DayLength
<1> DEFINE d == w \div DayLength
<1>1. /\ GapDay \in Nat /\ FoldDay \in Nat /\ DayLength \in Nat /\ DayLength > 0
      /\ GapAt = GapDay * DayLength /\ FoldAt = FoldDay * DayLength
  BY Changes DEF SeriesAssumption
<1>2. d \in Int /\ (d * DayLength) <= w /\ w < (d * DayLength) + DayLength
  BY <1>1, Quotients
<1>3. d # GapDay /\ d # FoldDay
  BY DEF ChangesOn
<1> HIDE DEF d
<1>4. ASSUME NEW c \in Nat, d # c
      PROVE  w < c * DayLength \/ w >= (c * DayLength) + DayLength
  <2>1. CASE d < c
    <3>1. (d * DayLength) + DayLength <= c * DayLength
      BY <1>1, <1>2, <2>1, Products
    <3> QED
      BY <1>1, <1>2, <3>1
  <2>2. CASE c < d
    <3>1. (c * DayLength) + DayLength <= d * DayLength
      BY <1>1, <1>2, <2>2, Products
    <3> QED
      BY <1>1, <1>2, <3>1
  <2> QED
    BY <1>2, <1>4, <2>1, <2>2
<1>5. w < GapDay * DayLength \/ w >= (GapDay * DayLength) + DayLength
  BY <1>1, <1>3, <1>4
<1>6. w < FoldDay * DayLength \/ w >= (FoldDay * DayLength) + DayLength
  BY <1>1, <1>3, <1>4
<1> QED
  BY <1>1, <1>5, <1>6

\* What is moved less than a day between days that do not change hour keeps its
\* wall clock.
LEMMA QuietMove ==
    ASSUME SeriesAssumption, NEW v \in Int, NEW delta \in Int,
           -DayLength < delta, delta < DayLength,
           ~ChangesOn(v \div DayLength), ~ChangesOn((v + delta) \div DayLength)
    PROVE  /\ Resolve(v + delta) = Resolve(v) + delta
           /\ v >= GapAt + 4 <=> v + delta >= GapAt + 4
<1> DEFINE u == v + delta
<1>1. DayLength \in Nat /\ DayLength >= 6 /\ GapAt \in Nat /\ FoldAt \in Nat
  BY Changes
<1>2. u \in Int
  OBVIOUS
<1>3. v < GapAt \/ v >= GapAt + DayLength
  BY Quiet
<1>4. v < FoldAt \/ v >= FoldAt + DayLength
  BY Quiet
<1>5. (u < GapAt \/ u >= GapAt + DayLength) /\ (u < FoldAt \/ u >= FoldAt + DayLength)
  <2>1. ~ChangesOn(u \div DayLength)
    OBVIOUS
  <2> HIDE DEF u
  <2> QED
    BY <1>2, <2>1, Quiet
<1>6. /\ Resolve(v) = IF GapAt + 4 <= v /\ v < FoldAt + 4 THEN v - 4 ELSE v - 2
      /\ Resolve(u) = IF GapAt + 4 <= u /\ u < FoldAt + 4 THEN u - 4 ELSE u - 2
  <2> HIDE DEF u
  <2> QED
    BY <1>2, Resolved
<1>7. v - DayLength < u /\ u < v + DayLength /\ u = v + delta
  BY <1>1
<1> HIDE DEF u
<1>8. /\ GapAt + 4 <= v <=> GapAt + 4 <= u
      /\ v < FoldAt + 4 <=> u < FoldAt + 4
  BY <1>1, <1>2, <1>3, <1>4, <1>5, <1>7
<1> QED
  BY <1>1, <1>2, <1>6, <1>7, <1>8 DEF u

\* An instant of a day that does not change hour is the one its wall clock names.
LEMMA QuietInstant ==
    ASSUME SeriesAssumption, NEW t \in Int, ~ChangesOn(Date(t))
    PROVE  t = Resolve(Wall(t)) /\ Wall(t) \in Int /\ ~IsSecondPass(t)
<1> DEFINE w == Wall(t)
<1>1. DayLength \in Nat /\ DayLength >= 6 /\ GapAt \in Nat /\ FoldAt \in Nat /\ GapAt + 6 <= FoldAt
  BY Changes
<1>2. w \in Int /\ w = IF GapAt <= t /\ t < FoldAt THEN t + 4 ELSE t + 2
  BY <1>1, Walls
<1>3. ~ChangesOn(w \div DayLength)
  BY DEF Date
<1> HIDE DEF w
<1>4. /\ w < GapAt \/ w >= GapAt + DayLength
      /\ w < FoldAt \/ w >= FoldAt + DayLength
  BY <1>2, <1>3, Quiet
<1>5. t = Resolve(w)
  BY <1>1, <1>2, <1>4, Resolved
<1>6. ~IsSecondPass(t)
  BY <1>1, <1>2, <1>4, Passes
<1> QED
  BY <1>2, <1>5, <1>6 DEF w

\* Where the occurrences from the cut on are put by the new series.
Moving(s, p, t, to, x) ==
    p.allDay \/ to = t
    \/ /\ ~ChangesOn(Date(t)) /\ ~ChangesOn(Date(x)) /\ Date(to) = Date(t)
       /\ ~ChangesOn((Wall(x) + Wall(to) - Wall(t)) \div DayLength)

LEMMA Carried ==
    ASSUME SeriesAssumption, NEW s, NEW p, NEW q, Timing(p), Timing(q), Bounds(p),
           s.allDay = p.allDay, q.allDay = p.allDay, q.step = p.step,
           NEW t \in All(p), t # p.start, ~Displaced(p, t), NEW x \in All(p), x >= t,
           Moving(s, p, t, q.start, x)
    PROVE  /\ Moved(s, x, t, q.start) \in All(q)
           /\ Before(All(q), Moved(s, x, t, q.start)) = Before(All(p), x) - Before(All(p), t)
<1> DEFINE to == q.start
           delta == Wall(to) - Wall(t)
<1>1. PICK m \in Nat : m > 0 /\ t = Kth(p, m) /\ t = At(p, m) /\ Wall(t) = Clock(p, m)
  BY CutAt
<1>2. PICK j \in Nat : m <= j /\ x = Kth(p, j)
  <2>1. PICK i \in Nat : x = Kth(p, i)
    BY Sequence
  <2>2. CASE m <= i
    BY <2>1, <2>2
  <2>3. CASE i < m
    <3>1. i <= m
      BY <1>1, <2>1, <2>3
    <3>2. Kth(p, i) <= Kth(p, m)
      BY <1>1, <2>1, <3>1, Sequence
    <3>3. t \in Int /\ x \in Int
      BY Sequence DEF Discrete
    <3>4. x = t
      BY <1>1, <2>1, <3>2, <3>3
    <3>5. m <= m
      BY <1>1
    <3> QED
      BY <1>1, <3>4, <3>5
  <2> QED
    BY <2>1, <2>2, <2>3
<1>3. /\ t \in Int /\ x \in Int /\ to \in Int /\ Wall(t) \in Int /\ Wall(to) \in Int
      /\ DayLength \in Nat /\ DayLength >= 6 /\ p.step \in Nat /\ p.step >= 2
      /\ p.allDay \in BOOLEAN /\ delta \in Int
  <2>1. t \in Int /\ x \in Int
    BY <1>1, <1>2, Occurrences
  <2>2. to \in Int /\ p.step \in Nat /\ p.step >= 2 /\ p.allDay \in BOOLEAN
    BY DEF Timing
  <2>3. Wall(t) \in Int /\ Wall(to) \in Int
    BY <2>1, <2>2, Walls, Changes
  <2> QED
    BY <2>1, <2>2, <2>3, Changes
<1>4. x = At(p, j) /\ Clock(p, j) \in Int
  BY <1>1, <1>2, Kths, Clocks
<1>5. Clock(q, 0) = Clock(p, m) + delta
  BY <1>1, <1>3, Clocks
<1> HIDE DEF delta
<1>6. ASSUME ~IsSecondPass(to), Moved(s, x, t, to) = Resolve(Clock(p, j) + delta),
             SameSide(p, m, j, delta)
      PROVE  /\ Moved(s, x, t, to) \in All(q)
             /\ Before(All(q), Moved(s, x, t, to)) = Before(All(p), x) - Before(All(p), t)
  <2>1. /\ Kth(q, j - m) \in All(q)
        /\ Kth(q, j - m) = Resolve(Clock(p, j) + delta)
        /\ Before(All(q), Kth(q, j - m)) = Before(All(p), Kth(p, j)) - Before(All(p), Kth(p, m))
    <3>1. m \in Nat /\ j \in Nat /\ m <= j /\ delta \in Int
      BY <1>1, <1>2, <1>3
    <3>2. Clock(q, 0) = Clock(p, m) + delta /\ SameSide(p, m, j, delta) /\ ~IsSecondPass(q.start)
      BY <1>5, <1>6
    <3> HIDE DEF to
    <3> QED
      BY <3>1, <3>2, Tails
  <2> QED
    BY <1>1, <1>2, <1>6, <2>1
<1>7. CASE p.allDay
  <2> DEFINE e == Date(p.start) + j * (p.step \div DayLength)
             f == Date(t)
             g == Date(to)
  <2>1. e \in Int /\ x = StartOfDay(e) /\ Clock(p, j) = e * DayLength
    BY <1>4, <1>7, AllDayAts
  <2> HIDE DEF e
  <2>2. Date(x) = e
    BY <2>1, Days
  <2>3. f \in Int /\ t = StartOfDay(f)
    BY <1>7, Orders
  <2>4. g \in Int /\ to = StartOfDay(g)
    BY <1>3, <1>7, Quotients DEF Date, Timing
  <2> HIDE DEF f, g
  <2>5. Wall(t) = f * DayLength /\ Wall(to) = g * DayLength
    BY <2>3, <2>4, Days
  <2>6. delta = (g - f) * DayLength
    BY <1>3, <2>3, <2>4, <2>5, Products DEF delta
  <2>7. Clock(p, j) + delta = (e + (g - f)) * DayLength
    BY <1>3, <2>1, <2>3, <2>4, <2>6, Products
  <2>8. Moved(s, x, t, to) = StartOfDay(e + (g - f))
    BY <1>7, <2>1, <2>2, <2>3, <2>4 DEF Moved, f, g
  <2>9. Moved(s, x, t, to) = Resolve(Clock(p, j) + delta)
    <3>1. e + (g - f) \in Int
      BY <2>1, <2>3, <2>4
    <3> QED
      BY <2>7, <2>8, <3>1, Days
  <2>10. ~IsSecondPass(to)
    BY <1>7, AllDayAts
  <2>11. p.step # 2
    BY <1>3, <1>7 DEF Timing
  <2> QED
    BY <1>6, <2>9, <2>10, <2>11 DEF SameSide
<1>8. CASE ~p.allDay /\ to = t
  <2>1. delta = 0
    BY <1>3, <1>8 DEF delta
  <2>2. Moved(s, x, t, to) = x
    BY <1>3, <1>8 DEF Moved
  <2>3. Clock(p, j) + delta = Clock(p, j) /\ Clock(p, m) + delta = Clock(p, m)
    BY <1>1, <1>3, <1>4, <2>1
  <2>4. ~IsSecondPass(to)
    BY <1>1, <1>8, Ats
  <2> QED
    BY <1>4, <1>6, <2>2, <2>3, <2>4 DEF At, SameSide
<1>9. CASE ~p.allDay /\ to # t
  <2>1. /\ ~ChangesOn(Date(t)) /\ ~ChangesOn(Date(x)) /\ Date(to) = Date(t)
        /\ ~ChangesOn((Wall(x) + Wall(to) - Wall(t)) \div DayLength)
    BY <1>9 DEF Moving
  <2>2. /\ t = Resolve(Wall(t)) /\ to = Resolve(Wall(to)) /\ x = Resolve(Wall(x))
        /\ Wall(x) \in Int /\ ~IsSecondPass(to)
    BY <1>3, <2>1, QuietInstant
  <2> DEFINE d == Date(t)
             v == Wall(x)
             c == d * DayLength
  <2>3. d \in Int /\ c \in Int
    BY <1>3, Quotients DEF Date
  <2>4. /\ c <= Wall(t) /\ Wall(t) < c + DayLength
        /\ c <= Wall(to) /\ Wall(to) < c + DayLength
    <3>1. d = Wall(t) \div DayLength /\ d = Wall(to) \div DayLength
      BY <2>1 DEF Date
    <3> QED
      BY <1>3, <3>1, Quotients
  <2>5. -DayLength < delta /\ delta < DayLength
    <3> HIDE DEF c, d
    <3> QED
      BY <1>3, <2>3, <2>4 DEF delta
  <2>6. Wall(to) = Wall(t) + delta /\ (Wall(x) + Wall(to) - Wall(t)) = v + delta
    BY <1>3, <2>2 DEF delta
  <2>7. /\ ~ChangesOn(Wall(t) \div DayLength) /\ ~ChangesOn((Wall(t) + delta) \div DayLength)
        /\ ~ChangesOn(v \div DayLength) /\ ~ChangesOn((v + delta) \div DayLength)
    BY <2>1, <2>6 DEF Date
  <2>8. to = t + delta /\ (Wall(t) >= GapAt + 4 <=> Wall(t) + delta >= GapAt + 4)
    BY <1>3, <2>2, <2>5, <2>6, <2>7, QuietMove
  <2>9. Resolve(v + delta) = x + delta /\ (v >= GapAt + 4 <=> v + delta >= GapAt + 4)
    <3> HIDE DEF v
    <3> QED
      BY <1>3, <2>2, <2>5, <2>7, QuietMove DEF v
  <2>10. Clock(p, j) = v
    <3>1. v = IF GapAt + 2 <= Clock(p, j) /\ Clock(p, j) < GapAt + 4
              THEN Clock(p, j) + 2 ELSE Clock(p, j)
      BY <1>4, Resolved DEF At
    <3>2. v < GapAt \/ v >= GapAt + DayLength
      <4> HIDE DEF v
      <4> QED
        BY <2>2, <2>7, Quiet DEF v
    <3> HIDE DEF v
    <3> QED
      BY <1>3, <1>4, <3>1, <3>2, Changes
  <2>11. Moved(s, x, t, to) = x + delta
    BY <1>3, <1>9, <2>8 DEF Moved
  <2> QED
    BY <1>1, <1>6, <2>2, <2>8, <2>9, <2>10, <2>11 DEF SameSide
<1> QED
  BY <1>3, <1>7, <1>8, <1>9

-----------------------------------------------------------------------------
(* The edits.                                                                *)

RuleType == [step : Nat, count : (Nat \ {0}) \cup {Unset}, until : Int \cup {Unset}]
SeriesType ==
    [start : Int, allDay : BOOLEAN, rule : RuleType \cup {Unset}, exdates : SUBSET Int, done : SUBSET Int]
PlanType ==
    [start : Int, allDay : BOOLEAN, step : Nat \cup {Unset}, count : (Nat \ {0}) \cup {Unset},
     until : Int \cup {Unset}, skipped : SUBSET Nat, done : SUBSET Nat]

\* What every event keeps: the rule planned, and the marks unless there is a
\* reason for them not to be.
Sound(s, p, why) ==
    /\ s \in SeriesType /\ p \in PlanType
    /\ Follows(s, p) \/ OneOff(s, p)
    /\ why = {} => Marks(s, p)

LEMMA SameOccurrences ==
    ASSUME NEW p, NEW q, q.start = p.start, q.allDay = p.allDay, q.step = p.step
    PROVE  /\ All(q) = All(p) /\ Timing(q) <=> Timing(p)
           /\ \A O : Of(q, O) = Of(p, O)
<1>1. All(q) = All(p)
  BY DEF All, Kth
<1> QED
  BY <1>1 DEF Timing, Of

LEMMA Ordinals ==
    ASSUME SeriesAssumption, NEW p, Timing(p), NEW t \in All(p), NEW x \in All(p)
    PROVE  /\ Before(All(p), x) \in Nat /\ x \in Int
           /\ Before(All(p), x) + 1 = Before(All(p), t) + 1 <=> x = t
           /\ Before(All(p), x) + 1 <= Before(All(p), t) <=> x < t
<1>1. /\ Before(All(p), x) \in Nat /\ Before(All(p), t) \in Nat /\ x \in Int
      /\ Before(All(p), x) = Before(All(p), t) <=> x = t
      /\ x < t <=> Before(All(p), x) < Before(All(p), t)
  BY Sequence, Places DEF Discrete
<1> QED
  BY <1>1

LEMMA OfMarks ==
    ASSUME SeriesAssumption, NEW p, Timing(p), NEW t \in All(p), NEW O,
           NEW o, o = Before(All(p), t) + 1, NEW Q
    PROVE  /\ Q = O \cup {o} => Of(p, Q) = Of(p, O) \cup {t}
           /\ Q = O \ {o} => Of(p, Q) = Of(p, O) \ {t}
           /\ t \in Of(p, O) <=> o \in O
  BY Ordinals DEF Of

LEMMA OfHead ==
    ASSUME SeriesAssumption, NEW p, Timing(p), NEW t \in All(p), NEW O
    PROVE  Of(p, {k \in O : k <= Before(All(p), t)}) = {x \in Of(p, O) : x < t}
  BY Ordinals DEF Of

LEMMA Editable ==
    ASSUME SeriesAssumption, NEW s, NEW p, NEW why, Sound(s, p, why), s.rule # Unset,
           NEW t \in Located(s)
    PROVE  /\ Follows(s, p) /\ SameRule(s, p) /\ Timing(p) /\ Bounds(p)
           /\ t \in All(p) /\ t \in Int /\ Produced(p, t)
           /\ Before(All(p), t) \in Nat /\ Ordinal(p, t) = Before(All(p), t) + 1
           /\ ProducedBefore(s, t) = Before(All(p), t)
<1>1. Follows(s, p)
  BY DEF Sound, OneOff
<1> QED
  BY <1>1, LocatedIs DEF Follows

LEMMA CompleteSound ==
    ASSUME SeriesAssumption, NEW s, NEW p, NEW why, Sound(s, p, why), s.rule # Unset,
           NEW t \in Located(s), NEW completed \in BOOLEAN
    PROVE  Sound([s EXCEPT !.done = IF completed THEN @ \cup {t} ELSE @ \ {t}],
                 [p EXCEPT !.done = IF completed THEN @ \cup {Ordinal(p, t)}
                                    ELSE @ \ {Ordinal(p, t)}], why)
<1> DEFINE s2 == [s EXCEPT !.done = IF completed THEN @ \cup {t} ELSE @ \ {t}]
           o == Ordinal(p, t)
           p2 == [p EXCEPT !.done = IF completed THEN @ \cup {o} ELSE @ \ {o}]
<1>1. /\ Follows(s, p) /\ SameRule(s, p) /\ Timing(p) /\ t \in All(p) /\ t \in Int
      /\ o = Before(All(p), t) + 1 /\ o \in Nat
  BY Editable
<1>2. s \in SeriesType /\ p \in PlanType /\ (why = {} => Marks(s, p))
  BY DEF Sound
<1> HIDE DEF o
<1>3. /\ s2 \in SeriesType /\ p2 \in PlanType
      /\ s2.start = s.start /\ s2.allDay = s.allDay /\ s2.rule = s.rule /\ s2.exdates = s.exdates
      /\ p2.start = p.start /\ p2.allDay = p.allDay /\ p2.step = p.step
      /\ p2.count = p.count /\ p2.until = p.until /\ p2.skipped = p.skipped
      /\ s2.done = IF completed THEN s.done \cup {t} ELSE s.done \ {t}
      /\ p2.done = IF completed THEN p.done \cup {o} ELSE p.done \ {o}
  BY <1>1, <1>2 DEF SeriesType, PlanType
<1> HIDE DEF s2, p2
<1>4. Follows(s2, p2)
  BY <1>1, <1>3, SameOccurrences DEF Follows, SameRule, Unrolls, Anchor
<1>5. ASSUME why = {}  PROVE  Marks(s2, p2)
  <2>1. Marks(s, p)
    BY <1>2, <1>5
  <2>2. \A O : Of(p2, O) = Of(p, O)
    BY <1>3, SameOccurrences
  <2>3. Of(p, p2.done) = IF completed THEN Of(p, p.done) \cup {t} ELSE Of(p, p.done) \ {t}
    <3>1. CASE completed
      <4>1. p2.done = p.done \cup {o}
        BY <1>3, <3>1
      <4>2. Of(p, p2.done) = Of(p, p.done) \cup {t}
        BY <1>1, <4>1, OfMarks
      <4> QED
        BY <3>1, <4>2
    <3>2. CASE ~completed
      <4>1. p2.done = p.done \ {o}
        BY <1>3, <3>2
      <4>2. Of(p, p2.done) = Of(p, p.done) \ {t}
        BY <1>1, <4>1, OfMarks
      <4> QED
        BY <3>2, <4>2
    <3> QED
      BY <3>1, <3>2
  <2> QED
    BY <1>3, <2>1, <2>2, <2>3 DEF Marks
<1> QED
  BY <1>3, <1>4, <1>5 DEF Sound, s2, p2, o

\* An occurrence may be moved to instants only, at the start of a day when all-day.
LEMMA MovesAre ==
    ASSUME SeriesAssumption, NEW s, NEW p, Timing(p), Bounds(p), s.allDay = p.allDay,
           NEW t \in All(p), NEW to \in Moves(s, t)
    PROVE  /\ to \in Int
           /\ p.allDay => to = StartOfDay(Date(to))
           /\ ~p.allDay => Date(to) = Date(t)
<1>1. t \in Int /\ p.allDay \in BOOLEAN /\ DayLength \in Nat
      /\ (p.allDay => Date(t) \in Int /\ t = StartOfDay(Date(t)))
  BY Orders, Changes DEF Timing
<1>2. CASE p.allDay
  <2>1. to \in {t, StartOfDay(Date(t) + 1)}
    BY <1>2 DEF Moves
  <2>2. Date(t) + 1 \in Int
    BY <1>1, <1>2
  <2>3. Date(StartOfDay(Date(t) + 1)) = Date(t) + 1 /\ StartOfDay(Date(t) + 1) \in Int
    BY <2>2, Days
  <2> QED
    BY <1>1, <1>2, <2>1, <2>3
<1>3. CASE ~p.allDay
  BY <1>1, <1>3 DEF Moves
<1> QED
  BY <1>1, <1>2, <1>3

LEMMA SplitThisSound ==
    ASSUME SeriesAssumption, NEW s, NEW p, NEW why, Sound(s, p, why), s.rule # Unset,
           NEW t \in Located(s), NEW to \in Moves(s, t),
           NEW done, done = (IF t \in s.done THEN {to} ELSE {}),
           NEW wasDone, wasDone = (IF Ordinal(p, t) \in p.done THEN {1} ELSE {})
    PROVE  /\ Sound([s EXCEPT !.exdates = @ \cup {t}, !.done = @ \ {t}],
                    [p EXCEPT !.skipped = @ \cup {Ordinal(p, t)}, !.done = @ \ {Ordinal(p, t)}], why)
           /\ Sound([s EXCEPT !.start = to, !.rule = Unset, !.exdates = {}, !.done = done],
                    [p EXCEPT !.start = to, !.step = Unset, !.skipped = {}, !.done = wasDone], why)
<1> DEFINE o == Ordinal(p, t)
           s1 == [s EXCEPT !.exdates = @ \cup {t}, !.done = @ \ {t}]
           p1 == [p EXCEPT !.skipped = @ \cup {o}, !.done = @ \ {o}]
           s2 == [s EXCEPT !.start = to, !.rule = Unset, !.exdates = {}, !.done = done]
           p2 == [p EXCEPT !.start = to, !.step = Unset, !.skipped = {}, !.done = wasDone]
<1>1. /\ Follows(s, p) /\ SameRule(s, p) /\ Timing(p) /\ Bounds(p) /\ t \in All(p) /\ t \in Int
      /\ o = Before(All(p), t) + 1 /\ o \in Nat
  BY Editable
<1>2. s \in SeriesType /\ p \in PlanType /\ (why = {} => Marks(s, p))
  BY DEF Sound
<1>3. to \in Int
  BY <1>1, MovesAre DEF SameRule
<1> HIDE DEF o
<1>4. Sound(s1, p1, why)
  <2>1. /\ s1 \in SeriesType /\ p1 \in PlanType
        /\ s1.start = s.start /\ s1.allDay = s.allDay /\ s1.rule = s.rule
        /\ p1.start = p.start /\ p1.allDay = p.allDay /\ p1.step = p.step
        /\ p1.count = p.count /\ p1.until = p.until
        /\ s1.exdates = s.exdates \cup {t} /\ s1.done = s.done \ {t}
        /\ p1.skipped = p.skipped \cup {o} /\ p1.done = p.done \ {o}
    BY <1>1, <1>2 DEF SeriesType, PlanType
  <2> HIDE DEF s1, p1
  <2>2. Follows(s1, p1)
    BY <1>1, <2>1, SameOccurrences DEF Follows, SameRule, Unrolls, Anchor
  <2>3. ASSUME why = {}  PROVE  Marks(s1, p1)
    <3>1. s.exdates = Of(p, p.skipped) /\ s.done = Of(p, p.done)
      BY <1>2, <2>3 DEF Marks
    <3>2. \A O : Of(p1, O) = Of(p, O)
      BY <2>1, SameOccurrences
    <3>3. Of(p, p1.skipped) = Of(p, p.skipped) \cup {t}
      BY <1>1, <2>1, OfMarks
    <3>4. Of(p, p1.done) = Of(p, p.done) \ {t}
      BY <1>1, <2>1, OfMarks
    <3> QED
      BY <2>1, <3>1, <3>2, <3>3, <3>4 DEF Marks
  <2> QED
    BY <2>1, <2>2, <2>3 DEF Sound
<1>5. Sound(s2, p2, why)
  <2>1. /\ s2 \in SeriesType /\ p2 \in PlanType
        /\ s2.start = to /\ s2.rule = Unset /\ s2.exdates = {} /\ s2.done = done
        /\ p2.start = to /\ p2.step = Unset /\ p2.skipped = {} /\ p2.done = wasDone
        /\ p2.count = p.count /\ p2.until = p.until
    <3>1. done \in SUBSET Int /\ wasDone \in SUBSET Nat
      BY <1>3
    <3>2. s2 \in SeriesType /\ s2.start = to /\ s2.rule = Unset /\ s2.exdates = {} /\ s2.done = done
      BY <1>2, <1>3, <3>1 DEF SeriesType
    <3>3. /\ p2 \in PlanType /\ p2.start = to /\ p2.step = Unset /\ p2.skipped = {}
          /\ p2.done = wasDone /\ p2.count = p.count /\ p2.until = p.until
      BY <1>2, <1>3, <3>1 DEF PlanType
    <3> QED
      BY <3>2, <3>3
  <2> HIDE DEF s2, p2
  <2>2. OneOff(s2, p2)
    BY <1>1, <1>3, <2>1 DEF OneOff, Bounds
  <2>3. ASSUME why = {}  PROVE  Marks(s2, p2)
    <3>1. s.done = Of(p, p.done)
      BY <1>2, <2>3 DEF Marks
    <3>2. t \in s.done <=> o \in p.done
      BY <1>1, <3>1 DEF Of
    <3>3. All(p2) = {to} /\ Before(All(p2), to) = 0
      <4>1. All(p2) = {to} /\ Below(All(p2), to) = {}
        BY <1>3, <2>1 DEF All, Below
      <4> QED
        BY <4>1, FS_EmptySet DEF Before
    <3>4. Of(p2, {}) = {} /\ Of(p2, wasDone) = IF o \in p.done THEN {to} ELSE {}
      BY <3>3 DEF Of, o
    <3> QED
      BY <2>1, <3>2, <3>4 DEF Marks
  <2> QED
    BY <2>1, <2>2, <2>3 DEF Sound
<1> QED
  BY <1>4, <1>5 DEF o

\* The part before the cut, and what is done there.
DoneHead(s, t) == {x \in s.done : x < t}
AskedHead(p, n) == {k \in p.done : k <= n}

LEMMA HeadSound ==
    ASSUME SeriesAssumption, NEW s, NEW p, NEW why, Sound(s, p, why), s.rule # Unset,
           NEW t \in Located(s), ProducedBefore(s, t) > 0,
           NEW n, n = Ordinal(p, t) - 1,
           NEW until, until = (IF s.allDay THEN Date(t) * DayLength ELSE t) - Second
    PROVE  Sound([s EXCEPT !.rule = TruncatedBefore(s, t), !.done = DoneHead(s, t)],
                 [p EXCEPT !.count = Unset, !.done = AskedHead(p, n), !.until = until], why)
<1> DEFINE s1 == [s EXCEPT !.rule = TruncatedBefore(s, t), !.done = DoneHead(s, t)]
           p1 == [p EXCEPT !.count = Unset, !.done = AskedHead(p, n), !.until = until]
           rule == TruncatedBefore(s, t)
<1>1. /\ Follows(s, p) /\ SameRule(s, p) /\ Timing(p) /\ Bounds(p) /\ t \in All(p) /\ t \in Int
      /\ n = Before(All(p), t) /\ n \in Nat /\ n > 0
  BY Editable
<1>2. s \in SeriesType /\ p \in PlanType /\ (why = {} => Marks(s, p))
  BY DEF Sound
<1>3. /\ s.start = p.start /\ s.allDay = p.allDay /\ Rule(s.rule) /\ s.rule.step = p.step
      /\ p.start \in Int /\ p.allDay \in BOOLEAN /\ DayLength \in Nat /\ DayLength >= 6
  BY <1>1, Changes DEF SameRule, Timing
<1>4. p.start < t /\ FirstPass(p.start) < FirstPass(t) /\ FirstPass(p.start) \in Int
      /\ FirstPass(t) \in Int
  <2>1. p.start \in All(p) /\ p.start <= t /\ t # p.start
    <3>1. p.start \in All(p) /\ p.start <= t
      BY <1>1, Orders
    <3>2. \A u \in All(p) : u \in Int /\ p.start <= u
      BY <1>1, Orders
    <3>3. Below(All(p), p.start) = {}
      BY <1>3, <3>2 DEF Below
    <3>4. Before(All(p), p.start) = 0
      BY <3>3, FS_EmptySet DEF Before
    <3> QED
      BY <1>1, <3>1, <3>4
  <2>2. p.start < t
    BY <1>1, <1>3, <2>1
  <2> QED
    BY <1>1, <2>1, <2>2, Orders
<1>5. until \in Int /\ rule \in RuleType /\ rule.step = p.step /\ rule.count = Unset
      /\ rule.until = until
  <2>1. Date(t) \in Int
    BY <1>1, <1>3, Walls, Quotients, Changes DEF Date
  <2>2. ~s.allDay => FirstPass(t) = t
    <3>1. PICK k \in Nat : t = Kth(p, k)
      BY <1>1, Sequence
    <3>2. t = At(p, k)
      BY <1>1, <1>4, <3>1, Kths
    <3> QED
      BY <1>1, <3>2, Ats
  <2>3. Date(t) * DayLength \in Int
    BY <1>3, <2>1
  <2>4. until \in Int
    BY <1>1, <1>3, <2>3 DEF Second
  <2>5. rule = [s.rule EXCEPT !.count = Unset, !.until = until]
    BY <2>2 DEF TruncatedBefore
  <2>6. s.rule \in RuleType
    BY <1>3 DEF Rule, RuleType
  <2> HIDE DEF rule
  <2> QED
    BY <1>3, <2>4, <2>5, <2>6 DEF RuleType
<1> HIDE DEF rule
<1>6. /\ s1 \in SeriesType /\ p1 \in PlanType
      /\ s1.start = s.start /\ s1.allDay = s.allDay /\ s1.rule = rule
      /\ p1.start = p.start /\ p1.allDay = p.allDay /\ p1.step = p.step
      /\ p1.count = Unset /\ p1.until = until
      /\ s1.exdates = s.exdates /\ p1.skipped = p.skipped
      /\ s1.done = {x \in s.done : x < t} /\ p1.done = {k \in p.done : k <= n}
  <2>1. /\ s1 \in SeriesType /\ s1.start = s.start /\ s1.allDay = s.allDay /\ s1.rule = rule
        /\ s1.exdates = s.exdates /\ s1.done = {x \in s.done : x < t}
    BY <1>2, <1>5 DEF SeriesType, rule, DoneHead
  <2>2. /\ p1 \in PlanType /\ p1.start = p.start /\ p1.allDay = p.allDay /\ p1.step = p.step
        /\ p1.count = Unset /\ p1.until = until /\ p1.skipped = p.skipped
        /\ p1.done = {k \in p.done : k <= n}
    BY <1>2, <1>5 DEF PlanType, AskedHead
  <2> QED
    BY <2>1, <2>2
<1> HIDE DEF s1, p1
<1>7. Unrolls(s1)
  <2>1. CASE p.allDay
    <3> DEFINE d == Date(t)
               e == Date(p.start)
    <3>1. d \in Int /\ e \in Int /\ t = StartOfDay(d) /\ p.start = StartOfDay(e)
      BY <1>1, <2>1, Orders
    <3>2. until = d * DayLength - 1
      BY <1>3, <2>1 DEF Second
    <3>3. until \div DayLength = d - 1
      <4> HIDE DEF d
      <4>1. /\ d - 1 \in Int /\ d * DayLength \in Int
            /\ (d - 1) * DayLength = (d * DayLength) - DayLength
        <5>1. (d - 1) * DayLength = (d * DayLength) - (1 * DayLength)
          BY <1>3, <3>1, Products
        <5>2. d - 1 \in Int /\ d * DayLength \in Int /\ 1 * DayLength = DayLength
          BY <1>3, <3>1
        <5> QED
          BY <5>1, <5>2
      <4>2. ((d - 1) * DayLength) <= until /\ until < ((d - 1) * DayLength) + DayLength
        BY <1>3, <3>2, <4>1
      <4> QED
        BY <1>3, <1>5, <4>1, <4>2, Quotients
    <3>4. AllDayRule(rule).until = StartOfDay(d - 1)
      <4>1. until # Unset
        BY <1>5 DEF SeriesAssumption
      <4> QED
        BY <1>5, <3>3, <4>1 DEF AllDayRule, RuleType
    <3> HIDE DEF d, e
    <3>5. StartOfDay(e) <= StartOfDay(d - 1) /\ StartOfDay(d - 1) \in Int
      <4>1. ~(d <= e)
        BY <1>1, <1>3, <1>4, <3>1, DaysInOrder
      <4>2. e <= d - 1 /\ d - 1 \in Int
        BY <3>1, <4>1
      <4> QED
        BY <3>1, <4>2, DaysInOrder, Days
    <3>6. Anchor(s1) = StartOfDay(e)
      BY <1>3, <1>6, <2>1 DEF Anchor, e
    <3>7. StartOfDay(e) \in Int
      BY <1>3, <3>1
    <3> QED
      BY <1>3, <1>6, <2>1, <3>4, <3>5, <3>6, <3>7 DEF Unrolls, Refused
  <2>2. CASE ~p.allDay
    <3>1. until = t - 1 /\ Anchor(s1) = FirstPass(p.start)
      BY <1>3, <1>6, <2>2 DEF Anchor, Second
    <3>2. t = FirstPass(t)
      <4>1. PICK k \in Nat : t = Kth(p, k)
        BY <1>1, Sequence
      <4>2. t = At(p, k)
        BY <1>1, <1>4, <4>1, Kths
      <4> QED
        BY <1>1, <4>2, Ats
    <3>3. ~(until < FirstPass(p.start))
      BY <1>1, <1>4, <3>1, <3>2
    <3> QED
      BY <1>3, <1>5, <1>6, <2>2, <3>1, <3>3 DEF Unrolls, Refused
  <2> QED
    BY <1>3, <2>1, <2>2
<1>8. Follows(s1, p1)
  <2>1. rule # Unset
    BY <1>5 DEF SeriesAssumption, RuleType
  <2>2. Timing(p1)
    BY <1>1, <1>6, SameOccurrences
  <2>3. Rule(rule)
    BY <1>1, <1>5 DEF Rule, RuleType, Timing
  <2> QED
    BY <1>3, <1>5, <1>6, <1>7, <2>1, <2>2, <2>3 DEF Follows, SameRule
<1>9. ASSUME why = {}  PROVE  Marks(s1, p1)
  <2>1. s.exdates = Of(p, p.skipped) /\ s.done = Of(p, p.done)
    BY <1>2, <1>9 DEF Marks
  <2>2. \A O : Of(p1, O) = Of(p, O)
    BY <1>6, SameOccurrences
  <2>3. Of(p, {k \in p.done : k <= Before(All(p), t)}) = {x \in Of(p, p.done) : x < t}
    BY <1>1, OfHead
  <2> QED
    BY <1>1, <1>6, <2>1, <2>2, <2>3 DEF Marks
<1> QED
  BY <1>6, <1>8, <1>9 DEF Sound, s1, p1, rule

LEMMA CarriedOverIs ==
    ASSUME SeriesAssumption, NEW s, NEW p, Timing(p), Bounds(p), s.allDay = p.allDay,
           NEW t \in All(p), NEW to \in Int, NEW instants \in SUBSET All(p)
    PROVE  CarriedOver(s, instants, t, to) = {Moved(s, x, t, to) : x \in {y \in instants : y >= t}}
<1>1. t \in Int /\ p.allDay \in BOOLEAN
  BY Orders DEF Timing
<1>2. ASSUME NEW y \in instants
      PROVE  (IF s.allDay THEN Date(y) >= Date(t) ELSE y >= t) <=> y >= t
  <2>1. /\ y \in Int
        /\ p.allDay => /\ Date(t) \in Int /\ t = StartOfDay(Date(t))
                       /\ Date(y) \in Int /\ y = StartOfDay(Date(y))
    BY Orders
  <2>2. p.allDay => (Date(t) <= Date(y) <=> t <= y)
    BY <2>1, DaysInOrder
  <2> QED
    BY <1>1, <2>1, <2>2
<1>3. {y \in instants : IF s.allDay THEN Date(y) >= Date(t) ELSE y >= t} = {y \in instants : y >= t}
  BY <1>2
<1> QED
  BY <1>3 DEF CarriedOver

LEMMA MovedIs ==
    ASSUME SeriesAssumption, NEW s, s.allDay \in BOOLEAN, NEW x \in Int, NEW t \in Int, NEW to \in Int
    PROVE  Moved(s, x, t, to) \in Int
<1>1. /\ Wall(x) \in Int /\ Wall(t) \in Int /\ Wall(to) \in Int
      /\ DayLength \in Nat /\ DayLength > 0
  BY Walls, Changes
<1>2. Date(x) \in Int /\ Date(t) \in Int /\ Date(to) \in Int
  BY <1>1, Quotients DEF Date
<1>3. Date(x) + Date(to) - Date(t) \in Int
  BY <1>2
<1>4. StartOfDay(Date(x) + Date(to) - Date(t)) \in Int
  BY <1>3, Days
<1> QED
  BY <1>4 DEF Moved

\* The part from the cut on.
LEMMA TailSound ==
    ASSUME SeriesAssumption, NEW s, NEW p, NEW why, Sound(s, p, why), s.rule # Unset,
           NEW t \in Located(s), NEW to \in Moves(s, t),
           NEW produced, produced = ProducedBefore(s, t), produced > 0,
           NEW n, n = Ordinal(p, t) - 1,
           NEW tail, tail = [s EXCEPT !.start = to, !.rule = ContinuedAfter(@, produced),
                                      !.exdates = CarriedOver(s, @, t, to),
                                      !.done = CarriedOver(s, @, t, to)],
           Unrolls(tail),
           NEW whyTail,
           whyTail = {} =>
             /\ why = {} /\ ~Displaced(p, t)
             /\ \A x \in {y \in s.exdates \cup s.done : y >= t} : Moving(s, p, t, to, x)
    PROVE  Sound(tail,
                 [p EXCEPT !.start = to, !.count = IF @ = Unset THEN Unset ELSE @ - n,
                           !.skipped = From(@, n), !.done = From(@, n)], whyTail)
<1> DEFINE q == [p EXCEPT !.start = to, !.count = IF @ = Unset THEN Unset ELSE @ - n,
                           !.skipped = From(@, n), !.done = From(@, n)]
           rule == ContinuedAfter(s.rule, produced)
           carried(instants) == CarriedOver(s, instants, t, to)
           count == IF p.count = Unset THEN Unset ELSE p.count - n
<1>1. /\ Follows(s, p) /\ SameRule(s, p) /\ Timing(p) /\ Bounds(p) /\ t \in All(p) /\ t \in Int
      /\ n = Before(All(p), t) /\ n \in Nat /\ n > 0 /\ produced = n /\ Produced(p, t)
  BY Editable
<1>2. s \in SeriesType /\ p \in PlanType /\ (why = {} => Marks(s, p))
  BY DEF Sound
<1>3. /\ s.start = p.start /\ s.allDay = p.allDay /\ Rule(s.rule) /\ s.rule.step = p.step
      /\ s.rule.count = p.count /\ s.rule.until = p.until /\ s.rule \in RuleType
      /\ p.start \in Int /\ p.allDay \in BOOLEAN /\ Unset \notin Int
      /\ p.step \in Nat /\ p.step >= 2
      /\ s.exdates \in SUBSET Int /\ s.done \in SUBSET Int
      /\ p.skipped \in SUBSET Nat /\ p.done \in SUBSET Nat
  BY <1>1, <1>2 DEF SameRule, Timing, SeriesAssumption, Rule, RuleType, SeriesType, PlanType
<1>4. to \in Int /\ (p.allDay => to = StartOfDay(Date(to)))
  BY <1>1, <1>3, MovesAre
<1>5. count \in (Nat \ {0}) \cup {Unset} /\ (p.count = Unset <=> count = Unset)
  BY <1>1, <1>3 DEF Produced, Bounds
<1>6. rule \in RuleType /\ rule.step = p.step /\ rule.count = count /\ rule.until = p.until
  <2>1. rule = [s.rule EXCEPT !.count = count]
    BY <1>1, <1>3 DEF ContinuedAfter
  <2> HIDE DEF rule, count
  <2> QED
    BY <1>3, <1>5, <2>1 DEF RuleType
<1>7. \A O \in SUBSET Nat : From(O, n) \in SUBSET Nat
  BY <1>1 DEF From
<1>8. \A instants \in SUBSET Int : carried(instants) \in SUBSET Int
  BY <1>1, <1>3, <1>4, MovedIs DEF CarriedOver
<1> HIDE DEF rule, count, carried
<1>9. /\ tail \in SeriesType /\ tail.start = to /\ tail.allDay = p.allDay /\ tail.rule = rule
      /\ tail.exdates = carried(s.exdates) /\ tail.done = carried(s.done)
  <2>1. tail = [s EXCEPT !.start = to, !.rule = rule, !.exdates = carried(s.exdates),
                         !.done = carried(s.done)]
    BY <1>2 DEF SeriesType, rule, carried
  <2> QED
    BY <1>2, <1>3, <1>4, <1>6, <1>8, <2>1 DEF SeriesType
<1>10. /\ q \in PlanType /\ q.start = to /\ q.allDay = p.allDay /\ q.step = p.step
       /\ q.count = count /\ q.until = p.until
       /\ q.skipped = From(p.skipped, n) /\ q.done = From(p.done, n)
  <2>1. q = [p EXCEPT !.start = to, !.count = count, !.skipped = From(p.skipped, n),
                      !.done = From(p.done, n)]
    BY <1>2 DEF PlanType, count
  <2> HIDE DEF q
  <2> QED
    BY <1>2, <1>3, <1>4, <1>5, <1>7, <2>1 DEF PlanType
<1> HIDE DEF q
<1>11. Timing(q)
  BY <1>1, <1>4, <1>10 DEF Timing
<1>12. Follows(tail, q)
  <2>1. rule # Unset
    BY <1>6 DEF SeriesAssumption, RuleType
  <2>2. Rule(rule)
    BY <1>3, <1>6 DEF Rule, RuleType
  <2> QED
    BY <1>6, <1>9, <1>10, <1>11, <2>1, <2>2 DEF Follows, SameRule
<1>13. t # p.start
  <2>1. \A u \in All(p) : u \in Int /\ p.start <= u
    BY <1>1, Orders
  <2>2. Below(All(p), p.start) = {}
    BY <1>3, <2>1 DEF Below
  <2>3. Before(All(p), p.start) = 0
    BY <2>2, FS_EmptySet DEF Before
  <2>4. n = Before(All(p), t) /\ n # 0
    BY <1>1
  <2> QED
    BY <2>3, <2>4, Zenon
<1>14. ASSUME whyTail = {}  PROVE  Marks(tail, q)
  <2>1. Marks(s, p) /\ ~Displaced(p, t)
    BY <1>2, <1>14
  <2>2. s.exdates = Of(p, p.skipped) /\ s.done = Of(p, p.done)
    BY <2>1 DEF Marks
  <2>3. ASSUME NEW O \in SUBSET Nat, Of(p, O) \subseteq s.exdates \cup s.done
        PROVE  carried(Of(p, O)) = Of(q, From(O, n))
    <3>1. ASSUME NEW x \in Of(p, O), x >= t
          PROVE  /\ Moved(s, x, t, to) \in All(q)
                 /\ Before(All(q), Moved(s, x, t, to)) = Before(All(p), x) - n
      <4>1. x \in All(p) /\ Moving(s, p, t, to, x)
        BY <1>14, <2>3, <3>1 DEF Of
      <4>2. q.start = to /\ q.allDay = p.allDay /\ q.step = p.step /\ s.allDay = p.allDay
        BY <1>3, <1>10
      <4>3. Moving(s, p, t, q.start, x)
        BY <4>1, <4>2
      <4>4. /\ Moved(s, x, t, q.start) \in All(q)
            /\ Before(All(q), Moved(s, x, t, q.start)) = Before(All(p), x) - Before(All(p), t)
        <5>1. /\ Timing(p) /\ Timing(q) /\ Bounds(p) /\ t \in All(p) /\ t # p.start
              /\ ~Displaced(p, t) /\ x \in All(p) /\ x >= t
          BY <1>1, <1>11, <1>13, <2>1, <3>1, <4>1
        <5> QED
          BY <4>2, <4>3, <5>1, Carried
      <4> QED
        BY <1>1, <4>2, <4>4
    <3>2. {Moved(s, x, t, to) : x \in {y \in Of(p, O) : y >= t}} = Of(q, From(O, n))
      <4>1. \A x \in Of(p, O) : x >= t =>
              /\ Moved(s, x, t, to) \in All(q)
              /\ Before(All(q), Moved(s, x, t, to)) = Before(All(p), x) - n
        BY <3>1
      <4>2. n \in Nat /\ n = Before(All(p), t) /\ Timing(p) /\ t \in All(p)
        BY <1>1
      <4> QED
        BY <1>11, <4>1, <4>2, CarriedMarks
    <3>3. Of(p, O) \in SUBSET All(p)
      BY DEF Of
    <3>4. carried(Of(p, O)) = {Moved(s, x, t, to) : x \in {y \in Of(p, O) : y >= t}}
      BY <1>1, <1>3, <1>4, <3>3, CarriedOverIs DEF carried
    <3> QED
      BY <3>2, <3>4
  <2>4. carried(s.exdates) = Of(q, From(p.skipped, n))
    BY <1>3, <2>2, <2>3
  <2>5. carried(s.done) = Of(q, From(p.done, n))
    BY <1>3, <2>2, <2>3
  <2> QED
    BY <1>9, <1>10, <2>4, <2>5 DEF Marks
<1> QED
  BY <1>9, <1>10, <1>12, <1>14 DEF Sound, q

-----------------------------------------------------------------------------
(* The theorems.                                                             *)

Excuses == {"skipped hour", "moved"}
\* What the variables are.
SeriesTypeOK ==
    /\ repeating \in Seq(SeriesType) /\ plan \in Seq(PlanType) /\ unkept \in Seq(SUBSET Excuses)
    /\ Len(plan) = Len(repeating) /\ Len(unkept) = Len(repeating) /\ editsLeft \in Nat
SoundSeries == \A i \in DOMAIN repeating : Sound(repeating[i], plan[i], unkept[i])
IInv == SeriesTypeOK /\ SoundSeries

LEMMA InitSound == SeriesAssumption /\ SeriesInit => IInv
<1> SUFFICES ASSUME SeriesAssumption, SeriesInit  PROVE  IInv
  OBVIOUS
<1>1. PICK start \in Starts, allDay \in BOOLEAN, r \in SeriesRules :
        LET s == [start |-> start, allDay |-> allDay,
                  rule |-> [step |-> r.step, count |-> r.count, until |-> r.until],
                  exdates |-> {}, done |-> {}]
        IN
        /\ allDay => r.step % DayLength = 0 /\ start = StartOfDay(Date(start))
        /\ Unrolls(s)
        /\ repeating = <<s>> /\ unkept = <<{}>> /\ editsLeft = r.edits
        /\ plan = <<[start |-> start, allDay |-> allDay, step |-> r.step, count |-> r.count,
                     until |-> r.until, skipped |-> {}, done |-> {}]>>
  BY DEF SeriesInit
<1> DEFINE rule == [step |-> r.step, count |-> r.count, until |-> r.until]
           s == [start |-> start, allDay |-> allDay, rule |-> rule, exdates |-> {}, done |-> {}]
           p == [start |-> start, allDay |-> allDay, step |-> r.step, count |-> r.count,
                 until |-> r.until, skipped |-> {}, done |-> {}]
<1>2. /\ start \in Int /\ r.step \in Nat /\ r.step >= 2 /\ r.edits \in Nat
      /\ r.count \in (Nat \ {0}) \cup {Unset} /\ r.until \in Int \cup {Unset}
  BY DEF SeriesAssumption
<1>3. rule \in RuleType /\ s \in SeriesType /\ p \in PlanType
  BY <1>2 DEF RuleType, SeriesType, PlanType
<1>4. /\ repeating = <<s>> /\ plan = <<p>> /\ unkept = <<{}>> /\ editsLeft \in Nat /\ Unrolls(s)
      /\ allDay => r.step % DayLength = 0 /\ start = StartOfDay(Date(start))
  BY <1>1, <1>2
<1>5. Sound(s, p, {})
  <2>1. rule # Unset
    BY <1>3 DEF SeriesAssumption, RuleType
  <2>2. Timing(p)
    BY <1>2, <1>4 DEF Timing
  <2>3. Rule(rule)
    BY <1>2, <1>3 DEF Rule, RuleType
  <2>4. Follows(s, p)
    BY <1>4, <2>1, <2>2, <2>3 DEF Follows, SameRule
  <2>5. Marks(s, p)
    BY DEF Marks, Of
  <2> QED
    BY <1>3, <2>4, <2>5 DEF Sound
<1> HIDE DEF s, p
<1>6. SeriesTypeOK
  BY <1>3, <1>4 DEF SeriesTypeOK
<1>7. SoundSeries
  BY <1>4, <1>5 DEF SoundSeries
<1> QED
  BY <1>6, <1>7 DEF IInv

LEMMA NewSeriesSound ==
    ASSUME IInv, NEW i \in DOMAIN repeating, NEW s, NEW p, NEW cut, NEW planned, NEW why,
           NewSeries(i, s, p, cut, planned, why), editsLeft' \in Nat, why \in SUBSET Excuses,
           Sound(cut, planned, unkept[i]), Sound(s, p, why)
    PROVE  IInv'
<1>1. /\ repeating \in Seq(SeriesType) /\ plan \in Seq(PlanType) /\ unkept \in Seq(SUBSET Excuses)
      /\ Len(plan) = Len(repeating) /\ Len(unkept) = Len(repeating) /\ Len(repeating) \in Nat
      /\ DOMAIN repeating = 1..Len(repeating)
      /\ \A j \in 1..Len(repeating) : Sound(repeating[j], plan[j], unkept[j])
  BY DEF IInv, SeriesTypeOK, SoundSeries
<1>2. s \in SeriesType /\ cut \in SeriesType /\ p \in PlanType /\ planned \in PlanType
  BY DEF Sound
<1> DEFINE a == [repeating EXCEPT ![i] = cut]
           b == [plan EXCEPT ![i] = planned]
           n == Len(repeating)
<1>3. /\ a \in Seq(SeriesType) /\ Len(a) = n /\ b \in Seq(PlanType) /\ Len(b) = n
      /\ \A j \in 1..n : /\ a[j] = IF j = i THEN cut ELSE repeating[j]
                         /\ b[j] = IF j = i THEN planned ELSE plan[j]
  BY <1>1, <1>2
<1>4. repeating' = Append(a, s) /\ plan' = Append(b, p) /\ unkept' = Append(unkept, why)
  BY DEF NewSeries
<1> HIDE DEF a, b
<1>5. /\ repeating' \in Seq(SeriesType) /\ plan' \in Seq(PlanType) /\ unkept' \in Seq(SUBSET Excuses)
      /\ Len(repeating') = n + 1 /\ Len(plan') = n + 1 /\ Len(unkept') = n + 1
  BY <1>1, <1>2, <1>3, <1>4
<1>6. ASSUME NEW j \in 1..(n + 1)
      PROVE  Sound(repeating'[j], plan'[j], unkept'[j])
  <2>1. CASE j = n + 1
    <3>1. repeating'[j] = s /\ plan'[j] = p /\ unkept'[j] = why
      BY <1>1, <1>3, <1>4, <2>1
    <3> QED
      BY <3>1
  <2>2. CASE j # n + 1
    <3>1. j \in 1..n
      BY <1>1, <2>2
    <3>2. repeating'[j] = a[j] /\ plan'[j] = b[j] /\ unkept'[j] = unkept[j]
      BY <1>1, <1>3, <1>4, <3>1
    <3> QED
      BY <1>1, <1>3, <3>1, <3>2
  <2> QED
    BY <2>1, <2>2
<1>7. DOMAIN repeating' = 1..(n + 1)
  BY <1>5
<1> QED
  BY <1>5, <1>6, <1>7 DEF IInv, SeriesTypeOK, SoundSeries, Sound

LEMMA ReasonsSound ==
    ASSUME SeriesAssumption, NEW i, SameRule(repeating[i], plan[i]), Timing(plan[i]), Bounds(plan[i]),
           NEW t \in All(plan[i]), NEW to \in Moves(repeating[i], t), NEW carried
    PROVE  /\ Reasons(i, t, to, carried) \subseteq Excuses
           /\ Reasons(i, t, to, carried) = {} =>
                /\ ~Displaced(plan[i], t)
                /\ \A x \in carried : Moving(repeating[i], plan[i], t, to, x)
<1>1. repeating[i].allDay = plan[i].allDay
  BY DEF SameRule
<1>2. ~plan[i].allDay => Date(to) = Date(t)
  BY <1>1, MovesAre
<1>3. Reasons(i, t, to, carried) \subseteq Excuses
  BY DEF Reasons, Excuses
<1>4. ASSUME Reasons(i, t, to, carried) = {}
      PROVE  /\ ~Displaced(plan[i], t)
             /\ plan[i].allDay \/ to = t
                \/ \A x \in {t} \cup carried :
                     ~ChangesOn(Date(x)) /\ ~ChangesOn((Wall(x) + Wall(to) - Wall(t)) \div DayLength)
  BY <1>1, <1>4 DEF Reasons
<1>5. ASSUME Reasons(i, t, to, carried) = {}, NEW x \in carried
      PROVE  Moving(repeating[i], plan[i], t, to, x)
  BY <1>2, <1>4, <1>5 DEF Moving
<1> QED
  BY <1>3, <1>4, <1>5

LEMMA CompleteKeeps ==
    ASSUME SeriesAssumption, IInv, NEW i \in DOMAIN repeating, repeating[i].rule # Unset,
           NEW t \in Located(repeating[i]), Complete(i, t)
    PROVE  IInv'
<1> DEFINE n == Len(repeating)
<1>1. /\ repeating \in Seq(SeriesType) /\ plan \in Seq(PlanType) /\ unkept \in Seq(SUBSET Excuses)
      /\ Len(plan) = n /\ Len(unkept) = n /\ n \in Nat
      /\ DOMAIN repeating = 1..n /\ DOMAIN plan = 1..n /\ editsLeft \in Nat
      /\ \A j \in 1..n : Sound(repeating[j], plan[j], unkept[j])
  BY DEF IInv, SeriesTypeOK, SoundSeries
<1>2. PICK completed \in BOOLEAN :
        /\ repeating' = [repeating EXCEPT ![i].done = IF completed THEN @ \cup {t} ELSE @ \ {t}]
        /\ plan' = [plan EXCEPT ![i].done = IF completed THEN @ \cup {Ordinal(plan[i], t)}
                                            ELSE @ \ {Ordinal(plan[i], t)}]
  BY DEF Complete
<1> DEFINE s == [repeating[i] EXCEPT !.done = IF completed THEN @ \cup {t} ELSE @ \ {t}]
           p == [plan[i] EXCEPT !.done = IF completed THEN @ \cup {Ordinal(plan[i], t)}
                                         ELSE @ \ {Ordinal(plan[i], t)}]
<1>3. repeating' = [repeating EXCEPT ![i] = s] /\ plan' = [plan EXCEPT ![i] = p]
  BY <1>2
<1>4. Sound(s, p, unkept[i])
  <2>1. Sound(repeating[i], plan[i], unkept[i])
    BY <1>1
  <2> QED
    BY <2>1, CompleteSound
<1>5. s \in SeriesType /\ p \in PlanType
  BY <1>4 DEF Sound
<1> HIDE DEF s, p
<1>6. /\ repeating' \in Seq(SeriesType) /\ Len(repeating') = n /\ plan' \in Seq(PlanType) /\ Len(plan') = n
      /\ \A j \in 1..n : /\ repeating'[j] = IF j = i THEN s ELSE repeating[j]
                         /\ plan'[j] = IF j = i THEN p ELSE plan[j]
  BY <1>1, <1>3, <1>5
<1>7. unkept' = unkept /\ editsLeft' \in Nat
  BY <1>1 DEF Complete, EditLeft
<1>8. \A j \in 1..n : Sound(repeating'[j], plan'[j], unkept'[j])
  BY <1>1, <1>4, <1>6, <1>7
<1>9. DOMAIN repeating' = 1..n
  BY <1>6
<1> QED
  BY <1>1, <1>6, <1>7, <1>8, <1>9 DEF IInv, SeriesTypeOK, SoundSeries, Sound

LEMMA SplitThisKeeps ==
    ASSUME SeriesAssumption, IInv, NEW i \in DOMAIN repeating, repeating[i].rule # Unset,
           NEW t \in Located(repeating[i]), NEW to \in Moves(repeating[i], t), split_this(i, t, to)
    PROVE  IInv'
<1>1. /\ Sound(repeating[i], plan[i], unkept[i]) /\ unkept[i] \in SUBSET Excuses /\ editsLeft \in Nat
  BY DEF IInv, SeriesTypeOK, SoundSeries
<1> DEFINE s == repeating[i]
           p == plan[i]
           done == IF t \in s.done THEN {to} ELSE {}
           wasDone == IF Ordinal(p, t) \in p.done THEN {1} ELSE {}
           new == [s EXCEPT !.start = to, !.rule = Unset, !.exdates = {}, !.done = done]
           asked == [p EXCEPT !.start = to, !.step = Unset, !.skipped = {}, !.done = wasDone]
           cut == [s EXCEPT !.exdates = @ \cup {t}, !.done = @ \ {t}]
           left == [p EXCEPT !.skipped = @ \cup {Ordinal(p, t)}, !.done = @ \ {Ordinal(p, t)}]
<1>2. Sound(cut, left, unkept[i]) /\ Sound(new, asked, unkept[i])
  <2>1. Sound(s, p, unkept[i]) /\ s.rule # Unset
    BY <1>1
  <2> HIDE DEF s, p
  <2>2. t \in Located(s) /\ to \in Moves(s, t)
    BY DEF s
  <2> QED
    BY <2>1, <2>2, SplitThisSound
<1>3. NewSeries(i, new, asked, cut, left, unkept[i]) /\ editsLeft' \in Nat
  BY <1>1 DEF split_this, EditLeft
<1> HIDE DEF new, asked, cut, left
<1> QED
  BY <1>1, <1>2, <1>3, NewSeriesSound

LEMMA SplitFollowingKeeps ==
    ASSUME SeriesAssumption, IInv, NEW i \in DOMAIN repeating, repeating[i].rule # Unset,
           NEW t \in Located(repeating[i]), NEW to \in Moves(repeating[i], t), split_following(i, t, to)
    PROVE  IInv'
<1>1. /\ Sound(repeating[i], plan[i], unkept[i]) /\ unkept[i] \in SUBSET Excuses /\ editsLeft \in Nat
  BY DEF IInv, SeriesTypeOK, SoundSeries
<1> DEFINE s == repeating[i]
           p == plan[i]
           produced == ProducedBefore(s, t)
           carried == {x \in s.exdates \cup s.done : x >= t}
           n == Ordinal(p, t) - 1
           tail == [s EXCEPT !.start = to, !.rule = ContinuedAfter(@, produced),
                             !.exdates = CarriedOver(s, @, t, to), !.done = CarriedOver(s, @, t, to)]
           asked == [p EXCEPT !.start = to, !.count = IF @ = Unset THEN Unset ELSE @ - n,
                              !.skipped = From(@, n), !.done = From(@, n)]
           head == [s EXCEPT !.rule = TruncatedBefore(s, t), !.done = DoneHead(s, t)]
           until == (IF s.allDay THEN Date(t) * DayLength ELSE t) - Second
           left == [p EXCEPT !.count = Unset, !.done = AskedHead(p, n), !.until = until]
           why == unkept[i] \cup Reasons(i, t, to, carried)
<1>2. /\ NewSeries(i, tail, asked, head, left, why) /\ editsLeft' \in Nat
      /\ produced > 0 /\ Unrolls(tail)
  BY <1>1 DEF split_following, EditLeft, DoneHead, AskedHead
<1>3. SameRule(s, p) /\ Timing(p) /\ Bounds(p) /\ t \in All(p)
  <2>1. Sound(s, p, unkept[i]) /\ s.rule # Unset
    BY <1>1
  <2> HIDE DEF s, p
  <2>2. t \in Located(s)
    BY DEF s
  <2> QED
    BY <2>1, <2>2, Editable
<1>4. /\ Reasons(i, t, to, carried) \subseteq Excuses
      /\ Reasons(i, t, to, carried) = {} =>
           ~Displaced(p, t) /\ \A x \in carried : Moving(s, p, t, to, x)
  <2> HIDE DEF carried
  <2> QED
    BY <1>3, ReasonsSound
<1>5. Sound(s, p, unkept[i]) /\ s.rule # Unset /\ t \in Located(s) /\ to \in Moves(s, t)
  BY <1>1
<1>6. Sound(head, left, unkept[i])
  <2> HIDE DEF s, p, n, produced, until
  <2>1. /\ n = Ordinal(p, t) - 1 /\ produced = ProducedBefore(s, t)
        /\ until = (IF s.allDay THEN Date(t) * DayLength ELSE t) - Second
    BY DEF n, produced, until
  <2>2. ProducedBefore(s, t) > 0
    BY <1>2, <2>1
  <2> QED
    BY <1>5, <2>1, <2>2, HeadSound
<1>7. Sound(tail, asked, why)
  <2>1. why = {} =>
          /\ unkept[i] = {} /\ ~Displaced(p, t)
          /\ \A x \in {y \in s.exdates \cup s.done : y >= t} : Moving(s, p, t, to, x)
    BY <1>4
  <2> HIDE DEF s, p, n, produced, why
  <2>2. n = Ordinal(p, t) - 1 /\ produced = ProducedBefore(s, t)
    BY DEF n, produced
  <2> QED
    BY <1>2, <1>5, <2>1, <2>2, TailSound
<1>8. why \in SUBSET Excuses
  BY <1>1, <1>4
<1> HIDE DEF tail, asked, head, left, why
<1> QED
  BY <1>2, <1>6, <1>7, <1>8, NewSeriesSound

LEMMA StepSound == ASSUME SeriesAssumption, IInv, [SeriesNext]_seriesVars  PROVE IInv'
<1>1. CASE SeriesNext
  <2>1. PICK i \in DOMAIN repeating :
          /\ repeating[i].rule # Unset
          /\ \E t \in Located(repeating[i]) :
               \/ Complete(i, t)
               \/ \E to \in Moves(repeating[i], t) : split_this(i, t, to) \/ split_following(i, t, to)
    BY <1>1 DEF SeriesNext
  <2>2. PICK t \in Located(repeating[i]) :
               \/ Complete(i, t)
               \/ \E to \in Moves(repeating[i], t) : split_this(i, t, to) \/ split_following(i, t, to)
    BY <2>1
  <2>3. CASE Complete(i, t)
    BY <2>1, <2>3, CompleteKeeps
  <2>4. ASSUME NEW to \in Moves(repeating[i], t), split_this(i, t, to)
        PROVE  IInv'
    BY <2>1, <2>4, SplitThisKeeps
  <2>5. ASSUME NEW to \in Moves(repeating[i], t), split_following(i, t, to)
        PROVE  IInv'
    BY <2>1, <2>5, SplitFollowingKeeps
  <2> QED
    BY <2>2, <2>3, <2>4, <2>5
<1>2. CASE UNCHANGED seriesVars
  <2>1. repeating' = repeating /\ plan' = plan /\ unkept' = unkept /\ editsLeft' = editsLeft
    BY <1>2 DEF seriesVars
  <2> QED
    BY <2>1 DEF IInv, SeriesTypeOK, SoundSeries
<1> QED
  BY <1>1, <1>2

\* What an event keeps is what the agenda is to list.
LEMMA SoundIsKept == ASSUME SeriesAssumption, IInv  PROVE AgendaAsPlanned
<1> SUFFICES ASSUME NEW i \in DOMAIN repeating, unkept[i] = {}
             PROVE  Kept(i)
  BY DEF AgendaAsPlanned
<1>1. Sound(repeating[i], plan[i], unkept[i])
  BY DEF IInv, SoundSeries
<1>2. Marks(repeating[i], plan[i]) /\ (Follows(repeating[i], plan[i]) \/ OneOff(repeating[i], plan[i]))
  BY <1>1 DEF Sound
<1> QED
  BY <1>2, KeptSeries, KeptOneOff

(* Every event has an instant, a rule and marks, its plan and its reasons, *)
(* and there are as many of each (recurrence.rs, split_series and          *)
(* set_occurrence_completion).                                             *)
THEOREM SeriesTypesHold == SeriesAssumption => (SeriesSpec => []SeriesTypeOK)
<1> SUFFICES ASSUME SeriesAssumption  PROVE SeriesSpec => []SeriesTypeOK
  OBVIOUS
<1>1. SeriesInit => IInv
  BY InitSound
<1>2. IInv /\ [SeriesNext]_seriesVars => IInv'
  BY StepSound
<1>3. IInv => SeriesTypeOK
  BY DEF IInv
<1> QED
  BY <1>1, <1>2, <1>3, PTL DEF SeriesSpec

(* Whatever is excluded, split, moved and completed, and over both changes *)
(* of hour, the events of the group list in every window the occurrences   *)
(* asked for and no other, but for what split_series does not handle       *)
(* (expand_occurrences, locate_occurrence, split_series).                  *)
THEOREM AgendaIsAsPlanned == SeriesAssumption => (SeriesSpec => []AgendaAsPlanned)
<1> SUFFICES ASSUME SeriesAssumption  PROVE SeriesSpec => []AgendaAsPlanned
  OBVIOUS
<1>1. SeriesInit => IInv
  BY InitSound
<1>2. IInv /\ [SeriesNext]_seriesVars => IInv'
  BY StepSound
<1>3. IInv => AgendaAsPlanned
  BY SoundIsKept
<1> QED
  BY <1>1, <1>2, <1>3, PTL DEF SeriesSpec
=============================================================================
