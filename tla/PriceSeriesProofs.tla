-------------------------- MODULE PriceSeriesProofs --------------------------
(***************************************************************************)
(* Proofs about PriceSeries, for every history, every set of identities    *)
(* and actions, every window and threshold, and every number of cycles and *)
(* failures.  The three walks that are cut into pieces, batches of         *)
(* securities, weeks, chunks of days, give what one pass over the whole    *)
(* series would: what is behind a walk is already final.                   *)
(***************************************************************************)
EXTENDS PriceSeries, FiniteSetTheorems, SequenceTheorems, WellFoundedInduction, TLAPS

-----------------------------------------------------------------------------
(* The inductive invariant, in parts.                                      *)

OwnBy(map, s) == {i \in Isins : SecurityOf(i, map) = s}
DaysOf(S) == UNION {raw[i] : i \in S}

(* No table has a day or a week that has not come, nor has a walk.         *)
Bounded ==
  /\ \A s \in Isins :
       /\ DOMAIN adjusted[s] \subseteq 1 .. today
       /\ DOMAIN weekly[s] \subseteq {WeekOf(d) : d \in DOMAIN adjusted[s]}
  /\ at >= 1
  /\ pc = "rollup" => at <= WeekOf(today)
  /\ pc = "ma" => at <= today

(* STEP 4 goes by the lineage it has read, to which rows may be added.     *)
Planned ==
  /\ plan \in [lineage : [Isins -> Isins \cup {None}], batches : Seq(SUBSET Isins)]
  /\ \A i \in Isins : plan.lineage[i] # None => lineage[i] = plan.lineage[i]

(* A batch has all ISINs of each of its securities. *)
WholeBatches ==
  pc = "adjust" =>
    \A k \in DOMAIN plan.batches : \A i \in plan.batches[k] :
      /\ i \in Eligible
      /\ \A j \in Eligible : SecurityOf(j, plan.lineage) = SecurityOf(i, plan.lineage) =>
           j \in plan.batches[k]

(* A security is in a batch to come, or has been rebuilt. *)
IsBuilt(s) ==
  \A d \in DaysOf({i \in Eligible : SecurityOf(i, plan.lineage) = s}) :
    d \in DOMAIN adjusted[s] /\ adjusted[s][d] = Built(s, Eligible)[d]
Rebuilding ==
  pc = "adjust" =>
    \A i \in Eligible :
      \/ \E k \in DOMAIN plan.batches : i \in plan.batches[k]
      \/ IsBuilt(SecurityOf(i, plan.lineage))

(* A security that no other has followed has rows of its own days only. *)
OwnDays ==
  \A s \in Current : DOMAIN adjusted[s] \subseteq DaysOf(OwnBy(lineage, s))

(* A week that is behind the walk of STEP 5 is that of the series. *)
IsRolledUp(s, w) ==
  /\ w \in DOMAIN weekly[s]
  /\ weekly[s][w].close = adjusted[s][Max(InWeek(s, w))].close
  /\ weekly[s][w].prev = PriorClose(s, w)
RollingUp ==
  \A s \in Isins : \A d \in DOMAIN adjusted[s] :
    ((pc = "rollup" /\ WeekOf(d) < at) \/ "weekly" \in fresh) => IsRolledUp(s, WeekOf(d))

(* The walk of the RSI is that of the series as it is. *)
Walked == "rsi" \in fresh => \A s \in Isins : rsi[s] = Walk(s)

(* A day that is behind the chunks of the moving average has its average. *)
AverageOf(series, d) ==
  LET rows == Before(series, d + 1)
  IN IF Cardinality(rows) < Window THEN None
     ELSE {series[e].close : e \in LastOf(rows, Window)}
IsAveraged(s, d) == d \in DOMAIN ma[s] /\ ma[s][d] = AverageOf(adjusted[s], d)
Averaging ==
  \A s \in Isins : \A d \in DOMAIN adjusted[s] :
    ((pc = "ma" /\ d < at) \/ "ma" \in fresh) => IsAveraged(s, d)

IInv ==
  /\ TypeOK /\ Bounded /\ Planned
  /\ WholeBatches /\ Rebuilding /\ OwnDays /\ UnbrokenSeries
  /\ RollingUp /\ Walked /\ Averaging

-----------------------------------------------------------------------------
(* Days and weeks.                                                         *)

LEMMA DayTyped ==
  /\ LastDay \in Nat /\ LastDay >= 2
  /\ \A d \in Days : d \in Nat /\ 1 <= d /\ d <= LastDay
  BY PriceSeriesAssumption DEF PriceSeriesAssumption, Days

LEMMA LengthsTyped ==
  /\ WeekLength \in Nat /\ WeekLength > 0 /\ BatchSize \in Nat /\ BatchSize > 0
  /\ RsiPeriod \in Nat /\ RsiPeriod > 0 /\ Window \in Nat /\ Window > 0
  /\ ChunkDays \in Nat /\ ChunkDays > 0
  BY PriceSeriesAssumption DEF PriceSeriesAssumption

LEMMA Least ==
  ASSUME NEW S, S \subseteq Nat, S # {}
  PROVE  /\ Min(S) \in S /\ \A y \in S : Min(S) <= y
<1>1. IsWellFoundedOn(OpToRel(<, Nat), Nat)
  BY NatLessThanWellFounded
<1>2. PICK x \in S : \A y \in S : <<y, x>> \notin OpToRel(<, Nat)
  BY <1>1, WFMin
<1>3. \A y \in S : ~(y < x)
  BY <1>2 DEF OpToRel
<1>4. \A y \in S : x <= y
  BY <1>3
<1> QED
  BY <1>4 DEF Min

LEMMA Greatest ==
  ASSUME NEW S, S \subseteq Days, S # {}
  PROVE  Max(S) \in S /\ \A y \in S : y <= Max(S)
<1> DEFINE T == {LastDay - y : y \in S}
<1>1. T \subseteq Nat /\ T # {}
  <2>1. \A y \in S : LastDay - y \in Nat
    BY DayTyped
  <2> QED
    BY <2>1
<1>2. PICK t \in T : \A z \in T : t <= z
  <2> HIDE DEF T
  <2> QED
    BY <1>1, Least
<1>3. PICK x \in S : t = LastDay - x
  BY <1>2
<1>4. \A y \in S : x >= y
  <2> TAKE y \in S
  <2>1. LastDay - x <= LastDay - y
    BY <1>2, <1>3
  <2>2. x \in Nat /\ y \in Nat /\ LastDay \in Nat
    BY DayTyped
  <2> QED
    BY <2>1, <2>2
<1>5. Max(S) \in S /\ \A y \in S : Max(S) >= y
  BY <1>4 DEF Max
<1> QED
  BY <1>5, DayTyped

LEMMA LastOne ==
  ASSUME NEW S, S \subseteq Days, NEW x \in S, \A y \in S : y <= x
  PROVE  Max(S) = x
  BY Greatest, DayTyped

LEMMA LeastOfTwo ==
  ASSUME NEW a \in Int, NEW b \in Int
  PROVE  Min({a, b}) = IF a <= b THEN a ELSE b
  BY DEF Min

LEMMA Quotient ==
  ASSUME NEW n \in Nat, n > 0, NEW a \in Nat
  PROVE  /\ a \div n \in Nat /\ a % n \in 0 .. n - 1 /\ a = n * (a \div n) + (a % n)
         /\ a \div n <= a
<1>1. a = n * (a \div n) + (a % n)
  OBVIOUS
<1>2. a \div n \in Nat
  OBVIOUS
<1>3. a % n \in 0 .. n - 1
  OBVIOUS
<1> DEFINE q == a \div n
<1> DEFINE r == a % n
<1>4. q <= a
  <2> HIDE DEF q, r
  <2>1. a = n * q + r /\ r >= 0 /\ q \in Nat /\ r \in Int
    BY <1>1, <1>2, <1>3 DEF q, r
  <2>2. n * q >= q
    BY <2>1, Z3
  <2> QED
    BY <2>1, <2>2
<1> QED
  BY <1>1, <1>2, <1>3, <1>4

LEMMA QuotientGrows ==
  ASSUME NEW n \in Nat, n > 0, NEW a \in Nat, NEW b \in Nat, a <= b
  PROVE  a \div n <= b \div n
<1> DEFINE j == a \div n
<1> DEFINE k == b \div n
<1> DEFINE r == b % n
<1>1. j \in Nat /\ k \in Nat /\ n * j <= a /\ b = n * k + r /\ r \in Int /\ r < n
  BY Quotient
<1> HIDE DEF j, k, r
<1>2. CASE j > k
  <2>1. PICK d \in Nat : j = k + 1 + d
    <3>1. j - k - 1 \in Nat
      BY <1>1, <1>2
    <3> QED
      BY <1>1, <3>1
  <2>2. n * j = n * k + n + n * d /\ n * d >= 0
    BY <1>1, <2>1
  <2> QED
    BY <1>1, <2>2
<1> QED
  BY <1>1, <1>2 DEF j, k

LEMMA WeekTyped ==
  ASSUME NEW d \in Days
  PROVE  /\ WeekOf(d) \in Days /\ WeekOf(d) \in Nat /\ WeekOf(d) >= 1
         /\ WeekOf(d) <= d
         /\ \A e \in Days : e <= d => WeekOf(e) <= WeekOf(d)
<1>1. d - 1 \in Nat /\ d \in Nat /\ d >= 1 /\ d <= LastDay /\ LastDay \in Nat
  BY DayTyped
<1> DEFINE q == (d - 1) \div WeekLength
<1>2. q \in Nat /\ q <= d - 1
  BY <1>1, LengthsTyped, Quotient
<1>3. \A e \in Days : e <= d => WeekOf(e) <= WeekOf(d)
  <2> SUFFICES ASSUME NEW e \in Days, e <= d PROVE WeekOf(e) <= WeekOf(d)
    OBVIOUS
  <2>1. e - 1 \in Nat /\ e - 1 <= d - 1
    BY <1>1, DayTyped
  <2>2. (e - 1) \div WeekLength <= (d - 1) \div WeekLength
    BY <1>1, <2>1, LengthsTyped, QuotientGrows
  <2>3. (e - 1) \div WeekLength \in Nat
    BY <2>1, LengthsTyped, Quotient
  <2> QED
    BY <1>2, <2>2, <2>3 DEF WeekOf
<1>4. WeekOf(d) = q + 1
  BY DEF WeekOf
<1> HIDE DEF q
<1>5. WeekOf(d) \in Nat /\ WeekOf(d) >= 1 /\ WeekOf(d) <= d
  BY <1>1, <1>2, <1>4
<1> QED
  BY <1>1, <1>3, <1>5 DEF Days

-----------------------------------------------------------------------------
(* The security of an ISIN.                                                *)

Hop(map, x) == IF map[x] = None THEN x ELSE map[x]
IsWalk(h, i, map) ==
  h = [n \in 0 .. MaxHops |-> IF n = 0 THEN i ELSE Hop(map, h[n - 1])]

LEMMA SomeWalk ==
  ASSUME NEW i, NEW map
  PROVE  \E h : IsWalk(h, i, map)
<1> DEFINE n(x) == Hop(map, x)
<1> DEFINE h == [k \in 0 .. 10 |->
                   IF k = 0 THEN i
                   ELSE IF k = 1 THEN n(i)
                   ELSE IF k = 2 THEN n(n(i))
                   ELSE IF k = 3 THEN n(n(n(i)))
                   ELSE IF k = 4 THEN n(n(n(n(i))))
                   ELSE IF k = 5 THEN n(n(n(n(n(i)))))
                   ELSE IF k = 6 THEN n(n(n(n(n(n(i))))))
                   ELSE IF k = 7 THEN n(n(n(n(n(n(n(i)))))))
                   ELSE IF k = 8 THEN n(n(n(n(n(n(n(n(i))))))))
                   ELSE IF k = 9 THEN n(n(n(n(n(n(n(n(n(i)))))))))
                   ELSE n(n(n(n(n(n(n(n(n(n(i))))))))))]
<1>1. \A k \in 0 .. 10 : h[k] = IF k = 0 THEN i ELSE Hop(map, h[k - 1])
  OBVIOUS
<1>2. h = [k \in 0 .. 10 |-> h[k]]
  OBVIOUS
<1> HIDE DEF h
<1>3. h = [k \in 0 .. 10 |-> IF k = 0 THEN i ELSE Hop(map, h[k - 1])]
  BY <1>1, <1>2
<1> QED
  BY <1>3 DEF IsWalk, MaxHops

LEMMA SecurityIs ==
  ASSUME NEW i, NEW map
  PROVE  \E h : IsWalk(h, i, map) /\ SecurityOf(i, map) = h[10]
<1> DEFINE h == CHOOSE h : IsWalk(h, i, map)
<1>1. IsWalk(h, i, map)
  BY SomeWalk
<1>2. SecurityOf(i, map) = h[10]
  BY DEF SecurityOf, IsWalk, Hop, MaxHops
<1> QED
  BY <1>1, <1>2

LEMMA TenSteps ==
  ASSUME NEW S, 0 \in S, \A n \in 0 .. 9 : n \in S => n + 1 \in S
  PROVE  \A n \in 0 .. 10 : n \in S
<1>1. 0 + 1 \in S /\ 1 + 1 \in S /\ 2 + 1 \in S /\ 3 + 1 \in S /\ 4 + 1 \in S
  OBVIOUS
<1>2. 5 + 1 \in S /\ 6 + 1 \in S /\ 7 + 1 \in S /\ 8 + 1 \in S /\ 9 + 1 \in S
  BY <1>1
<1> QED
  BY <1>1, <1>2

LEMMA CountingDown ==
  /\ 0 \in 0 .. 10 /\ 10 - 0 = 10
  /\ \A n \in 0 .. 9 : n + 1 \in 0 .. 10
  /\ \A n \in 0 .. 10 : 10 - n \in 0 .. 10 /\ 10 - (10 - n) = n
  /\ \A n \in 0 .. 9 : 10 - (n + 1) \in 0 .. 9 /\ (10 - (n + 1)) + 1 = 10 - n
  OBVIOUS

LEMMA TenStepsBack ==
  ASSUME NEW S, 10 \in S, \A n \in 0 .. 9 : n + 1 \in S => n \in S
  PROVE  \A n \in 0 .. 10 : n \in S
<1> DEFINE T == {n \in 0 .. 10 : 10 - n \in S}
<1>1. \A n \in 0 .. 9 : n \in T => n + 1 \in T
  <2> SUFFICES ASSUME NEW n \in 0 .. 9, 10 - n \in S
               PROVE  n + 1 \in 0 .. 10 /\ 10 - (n + 1) \in S
    OBVIOUS
  <2>1. n + 1 \in 0 .. 10
    BY CountingDown, Zenon
  <2>2. 10 - (n + 1) \in 0 .. 9 /\ (10 - (n + 1)) + 1 \in S
    BY CountingDown
  <2> QED
    BY <2>1, <2>2
<1>2. 0 \in T
  BY CountingDown, Zenon
<1> HIDE DEF T
<1>3. \A n \in 0 .. 10 : n \in T
  BY <1>1, <1>2, TenSteps
<1>4. \A n \in 0 .. 10 : 10 - (10 - n) \in S
  BY <1>3, CountingDown DEF T
<1> QED
  BY <1>4, CountingDown

LEMMA WalkIs ==
  ASSUME NEW h, NEW i, NEW map, IsWalk(h, i, map)
  PROVE  h[0] = i /\ \A n \in 0 .. 9 : h[n + 1] = Hop(map, h[n])
<1>1. h = [n \in 0 .. 10 |-> IF n = 0 THEN i ELSE Hop(map, h[n - 1])]
  BY DEF IsWalk, MaxHops
<1>2. \A n \in 0 .. 10 : h[n] = IF n = 0 THEN i ELSE Hop(map, h[n - 1])
  BY <1>1
<1>3. \A n \in 0 .. 9 : n + 1 \in 0 .. 10 /\ n + 1 # 0 /\ n + 1 - 1 = n
  OBVIOUS
<1>4. \A n \in 0 .. 9 : h[n + 1] = Hop(map, h[n])
  BY <1>2, <1>3
<1> QED
  BY <1>2, <1>4

Lineages == [Isins -> Isins \cup {None}]

LEMMA WalkTyped ==
  ASSUME NEW map \in Lineages, NEW i \in Isins, NEW h, IsWalk(h, i, map)
  PROVE  \A n \in 0 .. 10 : h[n] \in Isins
<1> DEFINE S == {n \in 0 .. 10 : h[n] \in Isins}
<1>1. 0 \in S
  BY WalkIs
<1>2. \A n \in 0 .. 9 : n \in S => n + 1 \in S
  <2> SUFFICES ASSUME NEW n \in 0 .. 9, h[n] \in Isins PROVE n + 1 \in S
    OBVIOUS
  <2>1. h[n + 1] = Hop(map, h[n])
    BY WalkIs
  <2>2. Hop(map, h[n]) \in Isins
    BY DEF Hop, Lineages
  <2> QED
    BY <2>1, <2>2
<1> HIDE DEF S
<1>3. \A n \in 0 .. 10 : n \in S
  BY <1>1, <1>2, TenSteps
<1> QED
  BY <1>3 DEF S

LEMMA SecurityTyped ==
  ASSUME NEW map \in Lineages, NEW i \in Isins
  PROVE  SecurityOf(i, map) \in Isins
<1>1. PICK h : IsWalk(h, i, map) /\ SecurityOf(i, map) = h[10]
  BY SecurityIs
<1> QED
  BY <1>1, WalkTyped

(* A walk that comes to the end of a chain of ISINs stays there. *)
LEMMA WalkEnds ==
  ASSUME NEW map, NEW i, NEW h, IsWalk(h, i, map)
  PROVE  \A n \in 0 .. 10 : map[h[n]] = None => h[10] = h[n]
<1> DEFINE S == {n \in 0 .. 10 : map[h[n]] = None => h[10] = h[n]}
<1>1. 10 \in S
  OBVIOUS
<1>2. \A n \in 0 .. 9 : n + 1 \in S => n \in S
  <2> SUFFICES ASSUME NEW n \in 0 .. 9, n + 1 \in S, map[h[n]] = None
               PROVE  h[10] = h[n]
    OBVIOUS
  <2>1. h[n + 1] = h[n]
    BY WalkIs DEF Hop
  <2> QED
    BY <2>1
<1> HIDE DEF S
<1>3. \A n \in 0 .. 10 : n \in S
  BY <1>1, <1>2, TenStepsBack
<1> QED
  BY <1>3 DEF S

(* Rows added to the lineage do not move an ISIN away from a security that *)
(* none of them begins at.                                                 *)
LEMMA SecurityStays ==
  ASSUME NEW old \in Lineages, NEW new,
         \A x \in Isins : old[x] # None => new[x] = old[x],
         NEW i \in Isins, new[SecurityOf(i, old)] = None
  PROVE  SecurityOf(i, new) = SecurityOf(i, old)
<1>1. PICK h : IsWalk(h, i, old) /\ SecurityOf(i, old) = h[10]
  BY SecurityIs
<1>2. PICK g : IsWalk(g, i, new) /\ SecurityOf(i, new) = g[10]
  BY SecurityIs
<1>3. \A n \in 0 .. 10 : h[n] \in Isins
  BY <1>1, WalkTyped
<1> DEFINE S == {n \in 0 .. 10 : g[n] = h[n]}
<1>4. 0 \in S
  BY <1>1, <1>2, WalkIs
<1>5. \A n \in 0 .. 9 : n \in S => n + 1 \in S
  <2> SUFFICES ASSUME NEW n \in 0 .. 9, g[n] = h[n] PROVE g[n + 1] = h[n + 1]
    OBVIOUS
  <2>1. g[n + 1] = Hop(new, h[n]) /\ h[n + 1] = Hop(old, h[n]) /\ h[n] \in Isins
    BY <1>1, <1>2, <1>3, WalkIs
  <2>2. CASE old[h[n]] # None
    BY <2>1, <2>2 DEF Hop
  <2>3. CASE old[h[n]] = None
    <3>1. h[10] = h[n]
      BY <1>1, <2>3, WalkEnds
    <3>2. new[h[n]] = None
      BY <1>1, <3>1
    <3> QED
      BY <2>1, <2>3, <3>2 DEF Hop
  <2> QED
    BY <2>2, <2>3
<1> HIDE DEF S
<1>6. \A n \in 0 .. 10 : n \in S
  BY <1>4, <1>5, TenSteps
<1>7. g[10] = h[10]
  BY <1>6 DEF S
<1> QED
  BY <1>1, <1>2, <1>7

-----------------------------------------------------------------------------
(* The batches of STEP 4.                                                  *)

LEMMA QuotientIs ==
  ASSUME NEW n \in Nat, n > 0, NEW q \in Nat, NEW r \in 0 .. n - 1,
         NEW a \in Nat, a = n * q + r
  PROVE  a \div n = q
  BY Z3

LEMMA QuotientNext ==
  ASSUME NEW n \in Nat, n > 0, NEW a \in Nat
  PROVE  (a + n) \div n = (a \div n) + 1
<1> DEFINE q == a \div n
<1> DEFINE r == a % n
<1>1. q \in Nat /\ r \in 0 .. n - 1 /\ a = n * q + r
  BY Quotient
<1> HIDE DEF q, r
<1>2. a + n = n * (q + 1) + r /\ q + 1 \in Nat /\ a + n \in Nat
  BY <1>1
<1>3. (a + n) \div n = q + 1
  BY <1>1, <1>2, QuotientIs
<1> QED
  BY <1>3 DEF q

LEMMA SetToSeqIs ==
  ASSUME NEW S, IsFiniteSet(S)
  PROVE  /\ Cardinality(S) \in Nat
         /\ SetToSeq(S) \in [1 .. Cardinality(S) -> S]
         /\ \A x \in S : \E k \in 1 .. Cardinality(S) : SetToSeq(S)[k] = x
<1> DEFINE n == Cardinality(S)
<1> DEFINE f == SetToSeq(S)
<1>1. n \in Nat /\ ExistsBijection(1 .. n, S)
  BY FS_CardinalityType
<1>2. \E g \in [1 .. n -> S] : IsInjective(g)
  <2>1. PICK g \in Bijection(1 .. n, S) : TRUE
    BY <1>1 DEF ExistsBijection
  <2>2. g \in [1 .. n -> S] /\ \A a, b \in 1 .. n : g[a] = g[b] => a = b
    BY <2>1 DEF Bijection, Injection, IsInjective
  <2> QED
    BY <2>2 DEF IsInjective
<1>3. f \in [1 .. n -> S] /\ IsInjective(f)
  BY <1>2 DEF SetToSeq
<1>4. f \in Injection(1 .. n, S)
  BY <1>3 DEF Injection, IsInjective
<1>5. Cardinality(1 .. n) = n /\ IsFiniteSet(1 .. n)
  <2>1. IsFiniteSet(1 .. n) /\ Cardinality(1 .. n) = IF 1 > n THEN 0 ELSE n - 1 + 1
    BY <1>1, FS_Interval
  <2> HIDE DEF n
  <2> QED
    BY <1>1, <2>1
<1>6. f \in Surjection(1 .. n, S)
  BY <1>4, <1>5, FS_Injection
<1> QED
  BY <1>1, <1>3, <1>6 DEF Surjection

LEMMA LenIs ==
  ASSUME NEW S, NEW n \in Nat, NEW f \in [1 .. n -> S]
  PROVE  f \in Seq(S) /\ Len(f) = n /\ DOMAIN f = 1 .. n
<1>1. f \in Seq(S)
  BY SeqDef
<1>2. DOMAIN f = 1 .. n /\ DOMAIN f = 1 .. Len(f) /\ Len(f) \in Nat
  BY <1>1, LenProperties
<1>3. n = Len(f)
  BY <1>2
<1> QED
  BY <1>1, <1>2, <1>3

(* The batches have whole securities, and every ISIN is in one. *)
LEMMA ChunksIs ==
  ASSUME NEW map \in Lineages, NEW isins, isins \subseteq Isins
  PROVE  /\ Chunks(isins, map) \in Seq(SUBSET isins)
         /\ \A k \in DOMAIN Chunks(isins, map) :
              \A i \in Chunks(isins, map)[k], j \in isins :
                SecurityOf(j, map) = SecurityOf(i, map) => j \in Chunks(isins, map)[k]
         /\ \A i \in isins : \E k \in DOMAIN Chunks(isins, map) :
              i \in Chunks(isins, map)[k]
<1> DEFINE R == {SecurityOf(i, map) : i \in isins}
<1> DEFINE sq == SetToSeq(R)
<1> DEFINE n == Cardinality(R)
<1> DEFINE m == (Len(sq) + BatchSize - 1) \div BatchSize
<1> DEFINE of(k) == {sq[j] : j \in {j \in DOMAIN sq : (j - 1) \div BatchSize + 1 = k}}
<1> DEFINE batch(k) == {i \in isins : SecurityOf(i, map) \in of(k)}
<1>1. Chunks(isins, map) = [k \in 1 .. m |-> batch(k)]
  BY DEF Chunks
<1>2. IsFiniteSet(R)
  <2>1. R \subseteq Isins
    BY SecurityTyped
  <2> HIDE DEF R
  <2> QED
    BY <2>1, FS_Subset, PriceSeriesAssumption DEF PriceSeriesAssumption
<1>3. n \in Nat /\ sq \in [1 .. n -> R] /\ \A x \in R : \E j \in 1 .. n : sq[j] = x
  <2> HIDE DEF R
  <2> QED
    BY <1>2, SetToSeqIs
<1>4. Len(sq) = n /\ DOMAIN sq = 1 .. n
  <2> HIDE DEF sq, R, n
  <2> QED
    BY <1>3, LenIs
<1>5. m \in Nat
  <2>1. n + BatchSize - 1 \in Nat
    BY <1>3, LengthsTyped
  <2> QED
    BY <1>4, <2>1, LengthsTyped, Quotient
<1>6. \A k \in 1 .. m : batch(k) \in SUBSET isins
  OBVIOUS
<1>7. \A i \in isins : \E k \in 1 .. m : i \in batch(k)
  <2> SUFFICES ASSUME NEW i \in isins PROVE \E k \in 1 .. m : i \in batch(k)
    OBVIOUS
  <2>1. PICK j \in 1 .. n : sq[j] = SecurityOf(i, map)
    BY <1>3
  <2> DEFINE k == (j - 1) \div BatchSize + 1
  <2>2. j - 1 \in Nat /\ n - 1 \in Nat /\ j - 1 <= n - 1
    BY <1>3
  <2>3. /\ (j - 1) \div BatchSize \in Nat
        /\ (j - 1) \div BatchSize <= (n - 1) \div BatchSize
    BY <2>2, LengthsTyped, Quotient, QuotientGrows
  <2>4. (n - 1 + BatchSize) \div BatchSize = ((n - 1) \div BatchSize) + 1
    BY <2>2, LengthsTyped, QuotientNext
  <2>5. n - 1 + BatchSize = n + BatchSize - 1
    BY <1>3, LengthsTyped
  <2>6. (n - 1) \div BatchSize \in Nat
    BY <2>2, LengthsTyped, Quotient
  <2>7. k \in 1 .. m
    BY <1>4, <1>5, <2>3, <2>4, <2>5, <2>6
  <2>8. SecurityOf(i, map) \in of(k)
    BY <1>4, <2>1
  <2> QED
    BY <2>7, <2>8
<1>8. \A k \in 1 .. m : \A i \in batch(k), j \in isins :
        SecurityOf(j, map) = SecurityOf(i, map) => j \in batch(k)
  OBVIOUS
<1> HIDE DEF batch, m
<1>9. [k \in 1 .. m |-> batch(k)] \in [1 .. m -> SUBSET isins]
  BY <1>6
<1>10. [k \in 1 .. m |-> batch(k)] \in Seq(SUBSET isins)
  BY <1>5, <1>9, LenIs
<1>11. DOMAIN Chunks(isins, map) = 1 .. m
       /\ \A k \in 1 .. m : Chunks(isins, map)[k] = batch(k)
  BY <1>1
<1> QED
  BY <1>1, <1>7, <1>8, <1>10, <1>11

-----------------------------------------------------------------------------
(* What the steps change.                                                  *)

LEMMA Changes ==
  ASSUME [Next]_vars
  PROVE  /\ adjusted' = adjusted \/ AdjustBatch
         /\ weekly' = weekly \/ RollUp
         /\ rsi' = rsi \/ Rsi
         /\ ma' = ma \/ MaChunk
         /\ UNCHANGED <<raw, today>> \/ NewDay
         /\ calendar' = calendar
         /\ matched' = matched \/ \E a \in Actions : Match(a)
         /\ lineage' = lineage \/ \E m \in Migrations : AddLineage(m)
         /\ plan' = plan \/ StartCycle \/ AdjustBatch \/ Crash
<1>1. CASE StartCycle \/ AdjustDone \/ Crash \/ NewDay
  BY <1>1 DEF StartCycle, AdjustDone, Crash, NewDay, world, tables
<1>2. CASE AdjustBatch \/ RollUp
  BY <1>2 DEF AdjustBatch, RollUp, world
<1>6. CASE Rsi \/ MaChunk
  BY <1>6 DEF Rsi, MaChunk, world
<1>3. CASE \E a \in Actions : Match(a)
  BY <1>3 DEF Match, tables
<1>4. CASE \E m \in Migrations : AddLineage(m)
  BY <1>4 DEF AddLineage, tables
<1>5. CASE UNCHANGED vars
  BY <1>5 DEF vars, world, tables
<1> QED
  BY <1>1, <1>2, <1>3, <1>4, <1>5, <1>6 DEF Next

(* What is fresh was fresh of the same tables, or has just been made.      *)
LEMMA StaysFresh ==
  ASSUME [Next]_vars
  PROVE  /\ "adjusted" \in fresh' =>
              \/ "adjusted" \in fresh /\ UNCHANGED <<raw, matched, lineage, adjusted>>
              \/ AdjustDone
         /\ "weekly" \in fresh' => adjusted' = adjusted /\ ("weekly" \in fresh \/ RollUp)
         /\ "rsi" \in fresh' => adjusted' = adjusted /\ ("rsi" \in fresh \/ Rsi)
         /\ "ma" \in fresh' => adjusted' = adjusted /\ ("ma" \in fresh \/ MaChunk)
<1>1. CASE StartCycle \/ AdjustDone \/ Crash \/ NewDay
  BY <1>1 DEF StartCycle, AdjustDone, Crash, NewDay, world, tables
<1>2. CASE AdjustBatch
  BY <1>2 DEF AdjustBatch, world
<1>6. CASE RollUp
  <2>1. UNCHANGED <<raw, matched, lineage, adjusted>>
    BY <1>6 DEF RollUp, world
  <2>2. fresh' \in {fresh, fresh \cup {"weekly"}}
    <3>1. \/ UNCHANGED <<pc, fresh>> \/ fresh' = fresh \cup {"weekly"}
          \/ UNCHANGED <<weekly, fresh>>
      BY <1>6 DEF RollUp
    <3> QED
      BY <3>1
  <2>3. "adjusted" # "weekly" /\ "rsi" # "weekly" /\ "ma" # "weekly"
    OBVIOUS
  <2> QED
    BY <1>6, <2>1, <2>2, <2>3
<1>7. CASE Rsi
  BY <1>7 DEF Rsi, world
<1>8. CASE MaChunk
  BY <1>8 DEF MaChunk, world
<1>3. CASE \E a \in Actions : Match(a)
  BY <1>3 DEF Match, tables
<1>4. CASE \E m \in Migrations : AddLineage(m)
  BY <1>4 DEF AddLineage, tables
<1>5. CASE UNCHANGED vars
  BY <1>5 DEF vars, world, tables
<1> QED
  BY <1>1, <1>2, <1>3, <1>4, <1>5, <1>6, <1>7, <1>8 DEF Next

-----------------------------------------------------------------------------
(* What STEP 4 builds.                                                     *)

Own(s, batch) == {i \in batch : SecurityOf(i, plan.lineage) = s}
CloseOf(S, s, d) ==
  [source |-> CHOOSE i \in S : d \in raw[i], day |-> d, factors |-> FactorsOf(s, d)]

LEMMA BuiltIs ==
  ASSUME NEW s, NEW batch
  PROVE  /\ DOMAIN Built(s, batch) = DaysOf(Own(s, batch))
         /\ \A d \in DaysOf(Own(s, batch)) :
              /\ Built(s, batch)[d].close = CloseOf(Own(s, batch), s, d)
              /\ Built(s, batch)[d].prev =
                   LET earlier == {e \in DaysOf(Own(s, batch)) : e < d}
                   IN IF earlier = {} THEN None
                      ELSE CloseOf(Own(s, batch), s, Max(earlier))
  BY DEF Built, DaysOf, Own, CloseOf

(* Which batch the ISINs of a security came in makes no difference.        *)
LEMMA SameOwn ==
  ASSUME NEW s, NEW S, NEW T, Own(s, S) = Own(s, T)
  PROVE  Built(s, S) = Built(s, T)
  BY DEF Built, Own

LEMMA DaysTyped ==
  ASSUME TypeOK, NEW S, S \subseteq Isins
  PROVE  DaysOf(S) \subseteq 1 .. today /\ DaysOf(S) \subseteq Days
<1>1. DaysOf(S) \subseteq 1 .. today
  BY DEF TypeOK, DaysOf
<1>2. 1 .. today \subseteq Days
  BY DayTyped DEF TypeOK, Days
<1> QED
  BY <1>1, <1>2

LEMMA CloseTyped ==
  ASSUME TypeOK, NEW S, S \subseteq Isins, NEW s, NEW d \in DaysOf(S)
  PROVE  CloseOf(S, s, d) \in Closes /\ CloseOf(S, s, d).day = d
<1>1. (CHOOSE i \in S : d \in raw[i]) \in Isins
  BY DEF DaysOf
<1>2. d \in Days
  BY DaysTyped
<1>3. FactorsOf(s, d) \in SUBSET Actions
  BY DEF FactorsOf, TypeOK
<1> QED
  BY <1>1, <1>2, <1>3 DEF CloseOf, Closes

LEMMA BuiltTyped ==
  ASSUME TypeOK, NEW s, NEW batch, batch \subseteq Isins, NEW d \in DaysOf(Own(s, batch))
  PROVE  /\ Built(s, batch)[d].close \in Closes /\ Built(s, batch)[d].close.day = d
         /\ Built(s, batch)[d].prev \in Closes \cup {None}
<1> DEFINE S == Own(s, batch)
<1> DEFINE earlier == {e \in DaysOf(S) : e < d}
<1>1. S \subseteq Isins
  BY DEF Own
<1> HIDE DEF S
<1>2. earlier # {} => Max(earlier) \in DaysOf(S)
  <2>1. earlier \subseteq Days
    BY <1>1, DaysTyped
  <2> QED
    BY <2>1, Greatest
<1>3. /\ Built(s, batch)[d].close = CloseOf(S, s, d)
      /\ Built(s, batch)[d].prev = IF earlier = {} THEN None ELSE CloseOf(S, s, Max(earlier))
  BY BuiltIs DEF S
<1>4. d \in DaysOf(S)
  BY DEF S
<1> HIDE DEF earlier
<1> QED
  BY <1>1, <1>2, <1>3, <1>4, CloseTyped

LEMMA UpsertedIs ==
  ASSUME NEW old, NEW new
  PROVE  /\ DOMAIN Upserted(old, new) = DOMAIN old \cup DOMAIN new
         /\ \A x \in DOMAIN new : Upserted(old, new)[x] = new[x]
         /\ \A x \in DOMAIN old : x \notin DOMAIN new => Upserted(old, new)[x] = old[x]
  BY DEF Upserted

(* After a batch, or the part of it up to a day: the securities of the     *)
(* batch have these rows, all other rows are as they were.                 *)
LEMMA RebuiltIs ==
  ASSUME NEW batch, NEW upto, NEW s \in Isins, adjusted' = Rebuilt(batch, upto)
  PROVE  LET new == {e \in DaysOf(Own(s, batch)) : e <= upto}
         IN /\ DOMAIN adjusted'[s] = DOMAIN adjusted[s] \cup new
            /\ \A d \in new : adjusted'[s][d] = Built(s, batch)[d]
            /\ \A d \in DOMAIN adjusted[s] : d \notin new => adjusted'[s][d] = adjusted[s][d]
<1> DEFINE new == {e \in DaysOf(Own(s, batch)) : e <= upto}
<1> DEFINE rows == [d \in new |-> Built(s, batch)[d]]
<1>1. CASE s \in {SecurityOf(i, plan.lineage) : i \in batch}
  <2>1. adjusted'[s] = Upserted(adjusted[s], rows)
    BY <1>1, BuiltIs DEF Rebuilt
  <2>2. DOMAIN rows = new /\ \A d \in new : rows[d] = Built(s, batch)[d]
    OBVIOUS
  <2> HIDE DEF rows, new
  <2>3. /\ DOMAIN adjusted'[s] = DOMAIN adjusted[s] \cup DOMAIN rows
        /\ \A d \in DOMAIN rows : adjusted'[s][d] = rows[d]
        /\ \A d \in DOMAIN adjusted[s] : d \notin DOMAIN rows =>
             adjusted'[s][d] = adjusted[s][d]
    <3> DEFINE u == Upserted(adjusted[s], rows)
    <3>1. /\ DOMAIN u = DOMAIN adjusted[s] \cup DOMAIN rows
          /\ \A d \in DOMAIN rows : u[d] = rows[d]
          /\ \A d \in DOMAIN adjusted[s] : d \notin DOMAIN rows => u[d] = adjusted[s][d]
      BY UpsertedIs
    <3>2. adjusted'[s] = u
      BY <2>1
    <3> HIDE DEF u
    <3> QED
      BY <3>1, <3>2, Zenon
  <2> QED
    BY <2>2, <2>3 DEF new
<1>2. CASE s \notin {SecurityOf(i, plan.lineage) : i \in batch}
  <2>1. adjusted'[s] = adjusted[s]
    BY <1>2 DEF Rebuilt
  <2>2. new = {}
    BY <1>2 DEF Own, DaysOf
  <2> HIDE DEF new
  <2>3. /\ DOMAIN adjusted'[s] = DOMAIN adjusted[s] \cup new
        /\ \A d \in new : adjusted'[s][d] = Built(s, batch)[d]
    BY <2>1, <2>2
  <2> QED
    BY <2>1, <2>3 DEF new
<1> QED
  BY <1>1, <1>2

(* A batch of STEP 4, however it ends. *)
LEMMA BatchIs ==
  ASSUME AdjustBatch
  PROVE  /\ pc = "adjust" /\ plan.batches # << >> /\ fresh' = {} /\ at' = 1
         /\ UNCHANGED <<raw, today, calendar, lineage, matched, weekly, rsi, ma>>
         /\ \E upto \in 0 .. LastDay : adjusted' = Rebuilt(Head(plan.batches), upto)
              \/ adjusted' = adjusted
         /\ \/ /\ adjusted' = Rebuilt(Head(plan.batches), LastDay)
               /\ plan' = [plan EXCEPT !.batches = Tail(@)] /\ pc' = "adjust"
            \/ plan' = [plan EXCEPT !.batches = << >>] /\ pc' = "rollup"
<1>1. LastDay \in 0 .. LastDay /\ \A n \in 0 .. LastDay - 1 : n \in 0 .. LastDay
  BY DayTyped
<1> QED
  BY <1>1 DEF AdjustBatch, world

-----------------------------------------------------------------------------
(* The types.                                                              *)

TypedWorld ==
  /\ today \in Days /\ raw \in [Isins -> SUBSET (1 .. today)]
  /\ calendar \subseteq Days /\ lineage \in Lineages /\ matched \subseteq Actions
TypedAdjusted ==
  \A s \in Isins : \A d \in DOMAIN adjusted[s] :
    /\ adjusted[s][d].close \in Closes /\ adjusted[s][d].close.day = d
    /\ adjusted[s][d].prev \in Closes \cup {None}
TypedWeekly ==
  \A s \in Isins : \A w \in DOMAIN weekly[s] :
    /\ weekly[s][w].close \in Closes /\ WeekOf(weekly[s][w].close.day) = w
    /\ weekly[s][w].prev \in Closes \cup {None}
TypedWorkbooks ==
  \A s \in Isins : DOMAIN rsi[s] \subseteq DOMAIN adjusted[s]
                   /\ DOMAIN ma[s] \subseteq DOMAIN adjusted[s]
TypedPlan == \A k \in DOMAIN plan.batches : plan.batches[k] \subseteq Isins
TypedControl ==
  /\ pc \in {"idle", "adjust", "rollup", "rsi", "ma"}
  /\ at \in 1 .. LastDay + ChunkDays
  /\ cycles \in 0 .. MaxCycles /\ faults \in 0 .. MaxFaults
  /\ fresh \subseteq {"adjusted", "weekly", "rsi", "ma"}

LEMMA TypeOKParts ==
  TypeOK <=> /\ TypedWorld /\ TypedAdjusted /\ TypedWeekly /\ TypedWorkbooks
             /\ TypedPlan /\ TypedControl
<1>1. TypedWorkbooks <=>
        \A s \in Isins : DOMAIN rsi[s] \cup DOMAIN ma[s] \subseteq DOMAIN adjusted[s]
  BY DEF TypedWorkbooks
<1> QED
  BY <1>1, Zenon DEF TypeOK, TypedWorld, TypedAdjusted, TypedWeekly, TypedPlan, TypedControl,
     Lineages

LEMMA WorldStep ==
  ASSUME TypedWorld, [Next]_vars
  PROVE  TypedWorld'
<1>1. today' \in Days /\ raw' \in [Isins -> SUBSET (1 .. today')]
  <2>1. CASE UNCHANGED <<raw, today>>
    BY <2>1 DEF TypedWorld
  <2>2. CASE NewDay
    <3>1. today' = today + 1 /\ today < LastDay
      BY <2>2 DEF NewDay
    <3>2. today' \in Days /\ today \in Nat /\ today >= 1
      BY <3>1, DayTyped DEF TypedWorld, Days
    <3>3. PICK traded \in SUBSET Isins :
            raw' = [i \in Isins |-> raw[i] \cup (IF i \in traded THEN {today'} ELSE {})]
      BY <2>2 DEF NewDay
    <3>4. today' \in 1 .. today' /\ 1 .. today \subseteq 1 .. today'
      BY <3>1, <3>2
    <3>5. \A i \in Isins : raw[i] \subseteq 1 .. today
      BY DEF TypedWorld
    <3>6. \A i \in Isins :
            raw[i] \cup (IF i \in traded THEN {today'} ELSE {}) \in SUBSET (1 .. today')
      BY <3>4, <3>5
    <3> QED
      BY <3>2, <3>3, <3>6
  <2> QED
    BY <2>1, <2>2, Changes
<1>2. calendar' \subseteq Days
  BY Changes DEF TypedWorld
<1>3. lineage' \in Lineages
  <2>1. CASE lineage' = lineage
    BY <2>1 DEF TypedWorld
  <2>2. ASSUME NEW m \in Migrations, AddLineage(m) PROVE lineage' \in Lineages
    <3>1. m[1] \in Isins /\ m[2] \in Isins
      BY PriceSeriesAssumption DEF PriceSeriesAssumption
    <3>2. lineage' = [lineage EXCEPT ![m[1]] = m[2]]
      BY <2>2 DEF AddLineage
    <3> QED
      BY <3>1, <3>2 DEF TypedWorld, Lineages
  <2> QED
    BY <2>1, <2>2, Changes
<1>4. matched' \subseteq Actions
  <2>1. ASSUME NEW a \in Actions, Match(a) PROVE matched' \subseteq Actions
    BY <2>1 DEF Match, TypedWorld
  <2> QED
    BY <2>1, Changes DEF TypedWorld
<1> QED
  BY <1>1, <1>2, <1>3, <1>4 DEF TypedWorld

LEMMA AdjustedStep ==
  ASSUME TypeOK, Bounded, Planned, [Next]_vars
  PROVE  /\ TypedAdjusted'
         /\ \A s \in Isins : /\ DOMAIN adjusted[s] \subseteq DOMAIN adjusted'[s]
                             /\ DOMAIN adjusted'[s] \subseteq 1 .. today
<1>1. CASE adjusted' = adjusted
  BY <1>1, TypeOKParts DEF TypedAdjusted, Bounded
<1>2. CASE AdjustBatch /\ adjusted' # adjusted
  <2> DEFINE batch == Head(plan.batches)
  <2>1. PICK upto \in 0 .. LastDay : adjusted' = Rebuilt(batch, upto)
    BY <1>2, BatchIs
  <2>2. batch \subseteq Isins
    <3>1. plan.batches \in Seq(SUBSET Isins) /\ plan.batches # << >>
      BY <1>2, BatchIs DEF Planned
    <3> QED
      BY <3>1
  <2> HIDE DEF batch
  <2> SUFFICES ASSUME NEW s \in Isins
               PROVE  /\ \A d \in DOMAIN adjusted'[s] :
                           /\ adjusted'[s][d].close \in Closes
                           /\ adjusted'[s][d].close.day = d
                           /\ adjusted'[s][d].prev \in Closes \cup {None}
                      /\ DOMAIN adjusted[s] \subseteq DOMAIN adjusted'[s]
                      /\ DOMAIN adjusted'[s] \subseteq 1 .. today
    <3>1. Closes' = Closes
      BY DEF Closes, Days
    <3> QED
      BY <3>1 DEF TypedAdjusted
  <2> DEFINE new == {e \in DaysOf(Own(s, batch)) : e <= upto}
  <2>3. /\ DOMAIN adjusted'[s] = DOMAIN adjusted[s] \cup new
        /\ \A d \in new : adjusted'[s][d] = Built(s, batch)[d]
        /\ \A d \in DOMAIN adjusted[s] : d \notin new => adjusted'[s][d] = adjusted[s][d]
    BY <2>1, RebuiltIs
  <2>4. Own(s, batch) \subseteq Isins
    BY <2>2 DEF Own
  <2>5. new \subseteq 1 .. today
    BY <2>4, DaysTyped
  <2>6. \A d \in new : /\ Built(s, batch)[d].close \in Closes
                       /\ Built(s, batch)[d].close.day = d
                       /\ Built(s, batch)[d].prev \in Closes \cup {None}
    BY <2>2, BuiltTyped
  <2>7. DOMAIN adjusted[s] \subseteq 1 .. today
    BY DEF Bounded
  <2>8. \A d \in DOMAIN adjusted[s] :
          /\ adjusted[s][d].close \in Closes /\ adjusted[s][d].close.day = d
          /\ adjusted[s][d].prev \in Closes \cup {None}
    BY TypeOKParts DEF TypedAdjusted
  <2> HIDE DEF new
  <2>9. \A d \in DOMAIN adjusted'[s] :
          /\ adjusted'[s][d].close \in Closes
          /\ adjusted'[s][d].close.day = d
          /\ adjusted'[s][d].prev \in Closes \cup {None}
    BY <2>3, <2>6, <2>8
  <2> QED
    BY <2>3, <2>5, <2>7, <2>9
<1> QED
  BY <1>1, <1>2, Changes

LEMMA InWeekTyped ==
  ASSUME TypeOK, Bounded, NEW s \in Isins, NEW w
  PROVE  /\ InWeek(s, w) \subseteq Days
         /\ InWeek(s, w) # {} => /\ Max(InWeek(s, w)) \in DOMAIN adjusted[s]
                                 /\ WeekOf(Max(InWeek(s, w))) = w
                                 /\ Max(InWeek(s, w)) \in 1 .. today
<1>1. 1 .. today \subseteq Days
  BY DayTyped DEF TypeOK, Days
<1>2. InWeek(s, w) \subseteq 1 .. today
  BY DEF InWeek, Bounded
<1>3. InWeek(s, w) # {} => Max(InWeek(s, w)) \in InWeek(s, w)
  BY <1>1, <1>2, Greatest
<1> QED
  BY <1>1, <1>2, <1>3 DEF InWeek

LEMMA WeeksTyped ==
  ASSUME TypeOK, Bounded, NEW s \in Isins
  PROVE  /\ DOMAIN weekly[s] \subseteq Days
         /\ \A w : /\ Before(weekly[s], w) # {} =>
                        /\ Max(Before(weekly[s], w)) \in DOMAIN weekly[s]
                        /\ Max(Before(weekly[s], w)) < w
                        /\ \A v \in Before(weekly[s], w) : v <= Max(Before(weekly[s], w))
                   /\ PriorClose(s, w) \in Closes \cup {None}
<1>1. DOMAIN adjusted[s] \subseteq Days
  BY DayTyped DEF TypeOK, Bounded, Days
<1>2. DOMAIN weekly[s] \subseteq Days
  BY <1>1, WeekTyped DEF Bounded
<1> SUFFICES ASSUME NEW w
             PROVE  /\ Before(weekly[s], w) # {} =>
                         /\ Max(Before(weekly[s], w)) \in DOMAIN weekly[s]
                         /\ Max(Before(weekly[s], w)) < w
                         /\ \A v \in Before(weekly[s], w) : v <= Max(Before(weekly[s], w))
                    /\ PriorClose(s, w) \in Closes \cup {None}
  BY <1>2
<1>3. Before(weekly[s], w) \subseteq Days
  BY <1>2 DEF Before
<1>4. Before(weekly[s], w) # {} =>
        /\ Max(Before(weekly[s], w)) \in Before(weekly[s], w)
        /\ \A v \in Before(weekly[s], w) : v <= Max(Before(weekly[s], w))
  BY <1>3, Greatest
<1>5. Before(weekly[s], w) # {} => Max(Before(weekly[s], w)) \in DOMAIN weekly[s]
                                   /\ Max(Before(weekly[s], w)) < w
  BY <1>4 DEF Before
<1>6. PriorClose(s, w) \in Closes \cup {None}
  BY <1>5, TypeOKParts DEF PriorClose, TypedWeekly
<1> QED
  BY <1>4, <1>5, <1>6

(* A week is rolled up, or the walk ends. *)
LEMMA RollUpIs ==
  ASSUME RollUp
  PROVE  /\ pc = "rollup"
         /\ UNCHANGED <<raw, today, calendar, lineage, matched, adjusted, rsi, ma, plan>>
         /\ \/ /\ weekly' = weekly /\ fresh' = fresh /\ at' = 1 /\ pc' = "rsi"
            \/ /\ \A s \in Isins : InWeek(s, at) = {} => weekly'[s] = weekly[s]
               /\ \A s \in Isins : InWeek(s, at) # {} =>
                    /\ DOMAIN weekly'[s] = DOMAIN weekly[s] \cup {at}
                    /\ weekly'[s][at].close = adjusted[s][Max(InWeek(s, at))].close
                    /\ weekly'[s][at].prev = PriorClose(s, at)
                    /\ \A w \in DOMAIN weekly[s] : w # at => weekly'[s][w] = weekly[s][w]
               /\ IF at < WeekOf(today)
                  THEN at' = at + 1 /\ UNCHANGED <<pc, fresh>>
                  ELSE at' = 1 /\ pc' = "rsi" /\ fresh' = fresh \cup {"weekly"}
<1>1. UNCHANGED <<raw, today, calendar, lineage, matched, adjusted, rsi, ma, plan>>
      /\ pc = "rollup"
  BY DEF RollUp, world
<1> DEFINE traded == {s \in Isins : InWeek(s, at) # {}}
<1> DEFINE row(s, w) == [close |-> adjusted[s][Max(InWeek(s, w))].close,
                         prev  |-> PriorClose(s, w)]
<1> DEFINE rolled(s) == Upserted(weekly[s], [w \in {at} |-> row(s, w)])
<1>2. \/ weekly' = weekly /\ fresh' = fresh /\ at' = 1 /\ pc' = "rsi"
      \/ /\ weekly' = [s \in Isins |-> IF s \in traded THEN rolled(s) ELSE weekly[s]]
         /\ IF at < WeekOf(today)
            THEN at' = at + 1 /\ UNCHANGED <<pc, fresh>>
            ELSE at' = 1 /\ pc' = "rsi" /\ fresh' = fresh \cup {"weekly"}
  BY Zenon DEF RollUp
<1>3. \A s \in Isins :
        /\ DOMAIN rolled(s) = DOMAIN weekly[s] \cup {at}
        /\ rolled(s)[at] = row(s, at)
        /\ \A w \in DOMAIN weekly[s] : w # at => rolled(s)[w] = weekly[s][w]
  <2> TAKE s \in Isins
  <2> DEFINE new == [w \in {at} |-> row(s, w)]
  <2>1. DOMAIN new = {at} /\ new[at] = row(s, at)
    OBVIOUS
  <2> HIDE DEF new, row
  <2>2. /\ DOMAIN Upserted(weekly[s], new) = DOMAIN weekly[s] \cup {at}
        /\ Upserted(weekly[s], new)[at] = row(s, at)
        /\ \A w \in DOMAIN weekly[s] : w # at => Upserted(weekly[s], new)[w] = weekly[s][w]
    BY <2>1 DEF Upserted
  <2> QED
    BY <2>2 DEF new
<1>4. \A s \in Isins : /\ row(s, at).close = adjusted[s][Max(InWeek(s, at))].close
                       /\ row(s, at).prev = PriorClose(s, at)
  OBVIOUS
<1> HIDE DEF row, rolled
<1>5. ASSUME weekly' = [s \in Isins |-> IF s \in traded THEN rolled(s) ELSE weekly[s]]
      PROVE  /\ \A s \in Isins : InWeek(s, at) = {} => weekly'[s] = weekly[s]
             /\ \A s \in Isins : InWeek(s, at) # {} =>
                  /\ DOMAIN weekly'[s] = DOMAIN weekly[s] \cup {at}
                  /\ weekly'[s][at].close = adjusted[s][Max(InWeek(s, at))].close
                  /\ weekly'[s][at].prev = PriorClose(s, at)
                  /\ \A w \in DOMAIN weekly[s] : w # at => weekly'[s][w] = weekly[s][w]
  <2>1. \A s \in Isins : InWeek(s, at) = {} => weekly'[s] = weekly[s]
    BY <1>5
  <2>2. \A s \in Isins : InWeek(s, at) # {} => weekly'[s] = rolled(s)
    BY <1>5
  <2> HIDE DEF traded
  <2> QED
    BY <1>3, <1>4, <2>1, <2>2
<1> QED
  BY <1>1, <1>2, <1>5

LEMMA WeeklyStep ==
  ASSUME TypeOK, Bounded, Planned, [Next]_vars
  PROVE  /\ TypedWeekly'
         /\ \A s \in Isins :
              DOMAIN weekly'[s] \subseteq {WeekOf(d) : d \in DOMAIN adjusted'[s]}
<1>1. \A s \in Isins : DOMAIN weekly[s] \subseteq {WeekOf(d) : d \in DOMAIN adjusted'[s]}
  BY AdjustedStep DEF Bounded
<1>2. Closes' = Closes /\ TypedWeekly
  BY TypeOKParts DEF Closes, Days
<1>3. CASE weekly' = weekly
  BY <1>1, <1>2, <1>3 DEF TypedWeekly
<1>4. CASE RollUp /\ weekly' # weekly
  <2>1. adjusted' = adjusted
    BY <1>4, RollUpIs
  <2> SUFFICES ASSUME NEW s \in Isins
               PROVE  /\ \A w \in DOMAIN weekly'[s] :
                           /\ weekly'[s][w].close \in Closes
                           /\ WeekOf(weekly'[s][w].close.day) = w
                           /\ weekly'[s][w].prev \in Closes \cup {None}
                      /\ DOMAIN weekly'[s] \subseteq {WeekOf(d) : d \in DOMAIN adjusted[s]}
    BY <1>2, <2>1 DEF TypedWeekly
  <2>2. \A w \in DOMAIN weekly[s] :
           /\ weekly[s][w].close \in Closes /\ WeekOf(weekly[s][w].close.day) = w
           /\ weekly[s][w].prev \in Closes \cup {None}
    BY <1>2 DEF TypedWeekly
  <2>3. CASE InWeek(s, at) = {}
    <3>1. weekly'[s] = weekly[s]
      BY <1>4, <2>3, RollUpIs
    <3> QED
      BY <1>1, <2>1, <2>2, <3>1
  <2>4. CASE InWeek(s, at) # {}
    <3> DEFINE d == Max(InWeek(s, at))
    <3>1. d \in DOMAIN adjusted[s] /\ WeekOf(d) = at
      BY <2>4, InWeekTyped
    <3>2. adjusted[s][d].close \in Closes /\ adjusted[s][d].close.day = d
      BY <3>1, TypeOKParts DEF TypedAdjusted
    <3>3. PriorClose(s, at) \in Closes \cup {None}
      BY WeeksTyped
    <3>4. /\ DOMAIN weekly'[s] = DOMAIN weekly[s] \cup {at}
          /\ weekly'[s][at].close = adjusted[s][d].close
          /\ weekly'[s][at].prev = PriorClose(s, at)
          /\ \A w \in DOMAIN weekly[s] : w # at => weekly'[s][w] = weekly[s][w]
      BY <1>4, <2>4, RollUpIs
    <3> HIDE DEF d
    <3>5. DOMAIN weekly'[s] \subseteq {WeekOf(e) : e \in DOMAIN adjusted[s]}
      BY <1>1, <2>1, <3>1, <3>4
    <3>6. \A w \in DOMAIN weekly'[s] :
             /\ weekly'[s][w].close \in Closes /\ WeekOf(weekly'[s][w].close.day) = w
             /\ weekly'[s][w].prev \in Closes \cup {None}
      BY <2>2, <3>1, <3>2, <3>3, <3>4
    <3> QED
      BY <3>5, <3>6
  <2> QED
    BY <2>3, <2>4
<1> QED
  BY <1>3, <1>4, Changes

Inside(s, start, end) == {d \in DOMAIN adjusted[s] : start <= d /\ d <= end}

LEMMA WalkDomain ==
  ASSUME NEW s PROVE DOMAIN Walk(s) \subseteq DOMAIN adjusted[s]
  BY DEF Walk

LEMMA AveragedDomain ==
  ASSUME NEW s, NEW start, NEW end
  PROVE  DOMAIN Averaged(s, start, end) = Inside(s, start, end)
  BY DEF Averaged, Inside

(* A chunk of the moving average. *)
ChunkEnd == IF at + ChunkDays - 1 <= today THEN at + ChunkDays - 1 ELSE today

LEMMA MaChunkIs ==
  ASSUME TypeOK, MaChunk
  PROVE  /\ pc = "ma" /\ ChunkEnd \in Int /\ ChunkEnd <= today
         /\ UNCHANGED <<raw, today, calendar, lineage, matched, adjusted, weekly, rsi, plan>>
         /\ \A s \in Isins :
              /\ DOMAIN ma'[s] = DOMAIN ma[s] \cup Inside(s, at, ChunkEnd)
              /\ \A d \in Inside(s, at, ChunkEnd) : ma'[s][d] = Averaged(s, at, ChunkEnd)[d]
              /\ \A d \in DOMAIN ma[s] : d \notin Inside(s, at, ChunkEnd) =>
                   ma'[s][d] = ma[s][d]
         /\ IF ChunkEnd < today
            THEN at' = ChunkEnd + 1 /\ UNCHANGED <<pc, fresh>>
            ELSE at' = 1 /\ pc' = "idle" /\ fresh' = fresh \cup {"ma"}
<1>1. at + ChunkDays - 1 \in Int /\ today \in Int
  BY LengthsTyped, DayTyped DEF TypeOK
<1>2. Min({at + ChunkDays - 1, today}) = ChunkEnd
  BY <1>1, LeastOfTwo DEF ChunkEnd
<1>3. ChunkEnd \in Int /\ ChunkEnd <= today
  BY <1>1 DEF ChunkEnd
<1> DEFINE end == Min({at + ChunkDays - 1, today})
<1>4. /\ ma' = [s \in Isins |-> Upserted(ma[s], Averaged(s, at, end))]
      /\ IF end < today
         THEN at' = end + 1 /\ UNCHANGED <<pc, fresh>>
         ELSE at' = 1 /\ pc' = "idle" /\ fresh' = fresh \cup {"ma"}
  BY Zenon DEF MaChunk
<1>5. end = ChunkEnd
  BY <1>2
<1>6. pc = "ma"
      /\ UNCHANGED <<raw, today, calendar, lineage, matched, adjusted, weekly, rsi, plan>>
  BY DEF MaChunk, world
<1> HIDE DEF end
<1>7. \A s \in Isins : ma'[s] = Upserted(ma[s], Averaged(s, at, ChunkEnd))
  BY <1>4, <1>5
<1>8. ASSUME NEW s \in Isins
      PROVE  /\ DOMAIN ma'[s] = DOMAIN ma[s] \cup Inside(s, at, ChunkEnd)
             /\ \A d \in Inside(s, at, ChunkEnd) : ma'[s][d] = Averaged(s, at, ChunkEnd)[d]
             /\ \A d \in DOMAIN ma[s] : d \notin Inside(s, at, ChunkEnd) =>
                  ma'[s][d] = ma[s][d]
  <2> DEFINE new == Averaged(s, at, ChunkEnd)
  <2> DEFINE u == Upserted(ma[s], new)
  <2>1. /\ DOMAIN u = DOMAIN ma[s] \cup DOMAIN new
        /\ \A d \in DOMAIN new : u[d] = new[d]
        /\ \A d \in DOMAIN ma[s] : d \notin DOMAIN new => u[d] = ma[s][d]
    BY UpsertedIs
  <2>2. ma'[s] = u
    BY <1>7
  <2>3. DOMAIN new = Inside(s, at, ChunkEnd)
    BY AveragedDomain
  <2> HIDE DEF u, new
  <2>4. /\ DOMAIN ma'[s] = DOMAIN ma[s] \cup Inside(s, at, ChunkEnd)
        /\ \A d \in Inside(s, at, ChunkEnd) : ma'[s][d] = new[d]
        /\ \A d \in DOMAIN ma[s] : d \notin Inside(s, at, ChunkEnd) => ma'[s][d] = ma[s][d]
    BY <2>1, <2>2, <2>3, Zenon
  <2> QED
    BY <2>4 DEF new
<1> QED
  BY <1>3, <1>4, <1>5, <1>6, <1>8

LEMMA WorkbooksStep ==
  ASSUME TypeOK, Bounded, Planned, [Next]_vars
  PROVE  TypedWorkbooks'
<1>1. \A s \in Isins : DOMAIN adjusted[s] \subseteq DOMAIN adjusted'[s]
  BY AdjustedStep
<1>2. TypedWorkbooks
  BY TypeOKParts
<1>3. \A s \in Isins : DOMAIN rsi'[s] \subseteq DOMAIN adjusted'[s]
  <2>1. CASE rsi' = rsi
    BY <1>1, <1>2, <2>1 DEF TypedWorkbooks
  <2>2. CASE Rsi
    <3>1. adjusted' = adjusted /\ rsi' = [s \in Isins |-> Walk(s)]
      BY <2>2 DEF Rsi
    <3>2. \A s \in Isins : rsi'[s] = Walk(s)
      BY <3>1
    <3> QED
      BY <3>1, <3>2, WalkDomain
  <2> QED
    BY <2>1, <2>2, Changes
<1>4. \A s \in Isins : DOMAIN ma'[s] \subseteq DOMAIN adjusted'[s]
  <2>1. CASE ma' = ma
    BY <1>1, <1>2, <2>1 DEF TypedWorkbooks
  <2>2. CASE MaChunk
    BY <1>1, <1>2, <2>2, MaChunkIs DEF TypedWorkbooks, Inside
  <2> QED
    BY <2>1, <2>2, Changes
<1> QED
  BY <1>3, <1>4 DEF TypedWorkbooks

LEMMA PlannedStep ==
  ASSUME TypeOK, Planned, [Next]_vars
  PROVE  Planned' /\ TypedPlan'
<1> DEFINE Plans == [lineage : Lineages, batches : Seq(SUBSET Isins)]
<1>1. plan \in Plans /\ plan.lineage \in Lineages /\ plan.batches \in Seq(SUBSET Isins)
      /\ \A i \in Isins : plan.lineage[i] # None => lineage[i] = plan.lineage[i]
  BY DEF Planned, Lineages
<1>2. lineage \in Lineages
  BY TypeOKParts DEF TypedWorld
<1>3. \A i \in Isins : lineage[i] # None => lineage'[i] = lineage[i]
  <2>1. CASE lineage' = lineage
    BY <2>1
  <2>2. ASSUME NEW m \in Migrations, AddLineage(m)
        PROVE  \A i \in Isins : lineage[i] # None => lineage'[i] = lineage[i]
    BY <1>2, <2>2 DEF AddLineage, Lineages
  <2> QED
    BY <2>1, <2>2, Changes
<1>4. /\ plan' \in Plans
      /\ plan'.lineage = plan.lineage \/ plan'.lineage = lineage
  <2>1. CASE plan' = plan
    BY <1>1, <2>1
  <2>2. CASE StartCycle
    <3>1. plan' = [lineage |-> lineage, batches |-> Chunks(Eligible, lineage)]
      BY <2>2 DEF StartCycle
    <3>2. Eligible \subseteq Isins
      BY DEF Eligible
    <3>3. Chunks(Eligible, lineage) \in Seq(SUBSET Eligible)
      BY <1>2, <3>2, ChunksIs
    <3>4. Chunks(Eligible, lineage) \in Seq(SUBSET Isins)
      BY <3>2, <3>3, SeqMonotonic
    <3> QED
      BY <1>2, <3>1, <3>4
  <2>3. CASE AdjustBatch \/ Crash
    <3>1. \/ plan' = [plan EXCEPT !.batches = Tail(@)] /\ plan.batches # << >>
          \/ plan' = [plan EXCEPT !.batches = << >>]
      BY <2>3, BatchIs DEF Crash
    <3>2. plan.batches # << >> => Tail(plan.batches) \in Seq(SUBSET Isins)
      BY <1>1, HeadTailProperties
    <3>3. << >> \in Seq(SUBSET Isins)
      BY EmptySeq
    <3>4. \/ plan' = [lineage |-> plan.lineage, batches |-> Tail(plan.batches)]
             /\ plan.batches # << >>
          \/ plan' = [lineage |-> plan.lineage, batches |-> << >>]
      BY <1>1, <3>1
    <3>5. PICK b \in Seq(SUBSET Isins) : plan' = [lineage |-> plan.lineage, batches |-> b]
      BY <3>2, <3>3, <3>4, Zenon
    <3> QED
      BY <1>1, <3>5
  <2> QED
    BY <2>1, <2>2, <2>3, Changes
<1>5. \A i \in Isins : plan'.lineage[i] # None => lineage'[i] = plan'.lineage[i]
  BY <1>1, <1>3, <1>4
<1>6. TypedPlan'
  <2>1. plan'.batches \in Seq(SUBSET Isins)
    BY <1>4
  <2>2. \A k \in DOMAIN plan'.batches : plan'.batches[k] \in SUBSET Isins
    BY <2>1, LenProperties
  <2> QED
    BY <2>2 DEF TypedPlan
<1> QED
  BY <1>4, <1>5, <1>6 DEF Planned, Lineages

(* The bounds of the walks, and of the other counters.                     *)
LEMMA ControlStep ==
  ASSUME TypeOK, Bounded, [Next]_vars
  PROVE  /\ TypedControl' /\ at' >= 1
         /\ pc' = "rollup" => at' <= WeekOf(today')
         /\ pc' = "ma" => at' <= today'
<1>1. /\ today \in Days /\ today \in Nat /\ 1 <= today /\ today <= LastDay
      /\ LastDay \in Nat /\ ChunkDays \in Nat /\ ChunkDays > 0
      /\ WeekOf(today) \in Nat /\ WeekOf(today) >= 1 /\ WeekOf(today) <= today
  BY DayTyped, WeekTyped, LengthsTyped DEF TypeOK
<1>2. TypedControl /\ at >= 1 /\ at \in Nat
  <2>1. TypedControl
    BY TypeOKParts
  <2>2. \A n \in 1 .. LastDay + ChunkDays : n >= 1 /\ n \in Nat
    BY <1>1
  <2> QED
    BY <2>1, <2>2 DEF TypedControl
<1>3. \A n \in 1 .. LastDay : n \in 1 .. LastDay + ChunkDays
  BY <1>1
<1>4. /\ MaxFaults \in Nat /\ MaxCycles \in Nat
      /\ Fault => faults' \in 0 .. MaxFaults
      /\ faults \in 0 .. MaxFaults
  <2>1. MaxFaults \in Nat /\ MaxCycles \in Nat
    BY PriceSeriesAssumption DEF PriceSeriesAssumption
  <2> QED
    BY <1>2, <2>1 DEF Fault, TypedControl
<1>5. faults' \in 0 .. MaxFaults /\ cycles' \in 0 .. MaxCycles
  <2>1. CASE StartCycle
    BY <1>2, <1>4, <2>1 DEF StartCycle, TypedControl
  <2>2. CASE AdjustBatch \/ AdjustDone
    BY <1>2, <1>4, <2>2 DEF AdjustBatch, AdjustDone, NoFault, TypedControl
  <2>3. CASE RollUp \/ Rsi
    BY <1>2, <1>4, <2>3 DEF RollUp, Rsi, NoFault, TypedControl
  <2>4. CASE MaChunk \/ Crash
    BY <1>2, <1>4, <2>4 DEF MaChunk, Crash, TypedControl
  <2>5. CASE NewDay \/ (\E a \in Actions : Match(a)) \/ (\E m \in Migrations : AddLineage(m))
    BY <1>2, <1>4, <2>5 DEF NewDay, Match, AddLineage, TypedControl
  <2>6. CASE UNCHANGED vars
    BY <1>2, <1>4, <2>6 DEF vars, TypedControl
  <2> QED
    BY <2>1, <2>2, <2>3, <2>4, <2>5, <2>6 DEF Next
<1> DEFINE Fine == /\ pc' \in {"idle", "adjust", "rollup", "rsi", "ma"}
                   /\ at' \in 1 .. LastDay + ChunkDays
                   /\ fresh' \subseteq {"adjusted", "weekly", "rsi", "ma"}
                   /\ at' >= 1
                   /\ pc' = "rollup" => at' <= WeekOf(today')
                   /\ pc' = "ma" => at' <= today'
<1>6. 1 \in 1 .. LastDay + ChunkDays /\ at \in 1 .. LastDay + ChunkDays
      /\ fresh \subseteq {"adjusted", "weekly", "rsi", "ma"}
      /\ pc \in {"idle", "adjust", "rollup", "rsi", "ma"}
  BY <1>1, <1>2 DEF TypedControl
<1>7. ASSUME StartCycle \/ AdjustBatch \/ AdjustDone \/ Crash
      PROVE  Fine
  <2>1. /\ at' \in {at, 1} /\ today' = today /\ pc' \in {"idle", "adjust", "rollup"}
        /\ pc' = "rollup" => at' = 1
        /\ fresh' \in {fresh, {}, fresh \cup {"adjusted"}}
    BY <1>7, BatchIs DEF StartCycle, AdjustDone, Crash, world
  <2> QED
    BY <1>1, <1>2, <1>6, <2>1
<1>8. ASSUME RollUp
      PROVE  Fine
  <2>1. /\ today' = today /\ pc = "rollup" /\ at <= WeekOf(today)
        /\ \/ at' = 1 /\ pc' = "rsi" /\ fresh' \in {fresh, fresh \cup {"weekly"}}
           \/ at < WeekOf(today) /\ at' = at + 1 /\ pc' = pc /\ fresh' = fresh
    BY <1>8, RollUpIs DEF Bounded
  <2>2. at < WeekOf(today) => at + 1 \in 1 .. LastDay /\ at + 1 >= 1 /\ at + 1 <= WeekOf(today)
    BY <1>1, <1>2
  <2>3. CASE at' = 1 /\ pc' = "rsi" /\ fresh' \in {fresh, fresh \cup {"weekly"}}
    BY <1>1, <1>6, <2>3
  <2>4. CASE at < WeekOf(today) /\ at' = at + 1 /\ pc' = pc /\ fresh' = fresh
    BY <1>3, <1>6, <2>1, <2>2, <2>4
  <2> QED
    BY <2>1, <2>3, <2>4
<1>9. ASSUME Rsi
      PROVE  Fine
  <2>1. today' = today /\ pc' = "ma" /\ at' = 1 /\ fresh' = fresh \cup {"rsi"}
    BY <1>9 DEF Rsi, world
  <2> QED
    BY <1>1, <1>6, <2>1
<1>10. ASSUME MaChunk
      PROVE  Fine
  <2>1. /\ today' = today /\ pc = "ma" /\ ChunkEnd \in Int /\ at <= today
        /\ IF ChunkEnd < today THEN at' = ChunkEnd + 1 /\ pc' = pc /\ fresh' = fresh
           ELSE at' = 1 /\ pc' = "idle" /\ fresh' = fresh \cup {"ma"}
    BY <1>10, MaChunkIs DEF Bounded
  <2>2. at <= ChunkEnd
    BY <1>1, <1>2, <2>1 DEF ChunkEnd
  <2>3. ChunkEnd < today =>
          ChunkEnd + 1 \in 1 .. LastDay /\ ChunkEnd + 1 >= 1 /\ ChunkEnd + 1 <= today
    BY <1>1, <1>2, <2>1, <2>2
  <2>4. CASE ChunkEnd < today
    BY <1>3, <1>6, <2>1, <2>3, <2>4
  <2>5. CASE ~(ChunkEnd < today)
    <3>1. at' = 1 /\ pc' = "idle" /\ fresh' = fresh \cup {"ma"}
      BY <2>1, <2>5
    <3> QED
      BY <1>6, <3>1
  <2> QED
    BY <2>4, <2>5
<1>11. ASSUME NewDay
      PROVE  Fine
  <2>1. pc' = "idle" /\ at' = at /\ fresh' = fresh \ {"adjusted"}
    BY <1>11 DEF NewDay
  <2> QED
    BY <1>2, <1>6, <2>1
<1>12. ASSUME (\E a \in Actions : Match(a)) \/ (\E m \in Migrations : AddLineage(m))
      PROVE  Fine
  <2>1. pc' = pc /\ at' = at /\ today' = today /\ fresh' = fresh \ {"adjusted"}
    BY <1>12 DEF Match, AddLineage
  <2> QED
    BY <1>2, <1>6, <2>1 DEF Bounded
<1>13. ASSUME UNCHANGED vars
      PROVE  Fine
  BY <1>2, <1>6, <1>13 DEF vars, world, Bounded
<1>14. Fine
  <2> HIDE DEF Fine
  <2> QED
    BY <1>7, <1>8, <1>9, <1>10, <1>11, <1>12, <1>13 DEF Next
<1> QED
  BY <1>5, <1>14 DEF TypedControl

LEMMA TypeOKPartsNext ==
  (TypeOK <=> /\ TypedWorld /\ TypedAdjusted /\ TypedWeekly /\ TypedWorkbooks
              /\ TypedPlan /\ TypedControl)'
  BY TypeOKParts, PTL

LEMMA TypeStep ==
  ASSUME TypeOK, Bounded, Planned, [Next]_vars
  PROVE  TypeOK' /\ Bounded' /\ Planned'
<1>1. TypedWorld' /\ TypedAdjusted' /\ TypedWeekly' /\ TypedWorkbooks'
  BY WorldStep, AdjustedStep, WeeklyStep, WorkbooksStep, TypeOKParts
<1>2. TypedPlan' /\ TypedControl' /\ Planned'
  BY PlannedStep, ControlStep
<1>3. TypeOK'
  BY <1>1, <1>2, TypeOKPartsNext
<1>4. \A s \in Isins : DOMAIN adjusted'[s] \subseteq 1 .. today'
  <2>1. 1 .. today \subseteq 1 .. today'
    <3>1. today \in Nat /\ today' \in {today, today + 1}
      BY Changes, DayTyped DEF TypeOK, NewDay
    <3> QED
      BY <3>1
  <2> QED
    BY <2>1, AdjustedStep
<1> QED
  BY <1>2, <1>3, <1>4, WeeklyStep, ControlStep DEF Bounded

-----------------------------------------------------------------------------
(* STEP 4: batch by batch, every security is rebuilt.                      *)

LEMMA HeadIs ==
  ASSUME Planned, plan.batches # << >>
  PROVE  /\ 1 \in DOMAIN plan.batches /\ Head(plan.batches) = plan.batches[1]
         /\ Head(plan.batches) \subseteq Isins
         /\ \A k \in DOMAIN Tail(plan.batches) :
              k + 1 \in DOMAIN plan.batches /\ Tail(plan.batches)[k] = plan.batches[k + 1]
         /\ \A k \in DOMAIN plan.batches : k # 1 =>
              k - 1 \in DOMAIN Tail(plan.batches) /\ Tail(plan.batches)[k - 1] = plan.batches[k]
<1> DEFINE q == plan.batches
<1>1. q \in Seq(SUBSET Isins) /\ q # << >>
  BY DEF Planned
<1> HIDE DEF q
<1>2. /\ Head(q) = q[1] /\ Head(q) \in SUBSET Isins
      /\ Tail(q) \in Seq(SUBSET Isins) /\ Len(Tail(q)) = Len(q) - 1
      /\ \A k \in 1 .. Len(Tail(q)) : Tail(q)[k] = q[k + 1]
  BY <1>1, HeadTailProperties
<1>3. Len(q) \in Nat \ {0} /\ DOMAIN q = 1 .. Len(q)
  BY <1>1, EmptySeq, LenProperties
<1>4. DOMAIN Tail(q) = 1 .. Len(q) - 1
  BY <1>2, LenProperties
<1>5. \A k \in DOMAIN Tail(q) : k + 1 \in DOMAIN q /\ Tail(q)[k] = q[k + 1]
  BY <1>2, <1>3, <1>4
<1>6. \A k \in DOMAIN q : k # 1 => k - 1 \in DOMAIN Tail(q) /\ Tail(q)[k - 1] = q[k]
  <2> TAKE k \in DOMAIN q
  <2> HAVE k # 1
  <2>1. k - 1 \in DOMAIN Tail(q) /\ (k - 1) + 1 = k
    BY <1>3, <1>4
  <2> QED
    BY <1>5, <2>1
<1> QED
  BY <1>2, <1>3, <1>5, <1>6 DEF q

(* The plan as the steps leave it. *)
LEMMA PlanIs ==
  ASSUME TypeOK, Planned, [Next]_vars, pc' = "adjust"
  PROVE  \/ StartCycle
         \/ AdjustBatch /\ adjusted' = Rebuilt(Head(plan.batches), LastDay)
            /\ plan'.lineage = plan.lineage /\ plan'.batches = Tail(plan.batches)
            /\ plan.batches # << >> /\ pc = "adjust" /\ UNCHANGED <<raw, matched>>
         \/ pc = "adjust" /\ UNCHANGED <<plan, adjusted, raw, matched>>
<1>1. CASE AdjustDone \/ RollUp \/ Rsi \/ Crash
  BY <1>1, RollUpIs DEF AdjustDone, Rsi, Crash
<1>2. CASE MaChunk
  BY <1>2, MaChunkIs
<1>3. CASE AdjustBatch
  <2>1. plan' = [plan EXCEPT !.batches = Tail(@)]
        /\ adjusted' = Rebuilt(Head(plan.batches), LastDay)
    BY <1>3, BatchIs
  <2> QED
    BY <1>3, <2>1, BatchIs DEF Planned
<1>4. CASE NewDay \/ \E a \in Actions : Match(a)
  BY <1>4 DEF NewDay, Match
<1>5. CASE \E m \in Migrations : AddLineage(m)
  BY <1>5 DEF AddLineage, tables
<1>6. CASE UNCHANGED vars
  BY <1>6 DEF vars, world, tables
<1> QED
  BY <1>1, <1>2, <1>3, <1>4, <1>5, <1>6 DEF Next

LEMMA WholeBatchesStep ==
  ASSUME TypeOK, Planned, WholeBatches, [Next]_vars
  PROVE  WholeBatches'
<1> SUFFICES ASSUME pc' = "adjust", NEW k \in DOMAIN plan'.batches, NEW i \in plan'.batches[k]
             PROVE  /\ i \in Eligible'
                    /\ \A j \in Eligible' :
                         SecurityOf(j, plan'.lineage) = SecurityOf(i, plan'.lineage) =>
                           j \in plan'.batches[k]
  BY DEF WholeBatches
<1>1. CASE StartCycle
  <2>1. /\ plan'.lineage = lineage /\ plan'.batches = Chunks(Eligible, lineage)
        /\ Eligible' = Eligible
    BY <1>1 DEF StartCycle, Eligible, world
  <2>2. lineage \in Lineages /\ Eligible \subseteq Isins
    BY TypeOKParts DEF TypedWorld, Eligible
  <2>3. Chunks(Eligible, lineage) \in Seq(SUBSET Eligible)
    BY <2>2, ChunksIs
  <2>4. Chunks(Eligible, lineage)[k] \in SUBSET Eligible
    BY <2>1, <2>3, LenProperties
  <2> QED
    BY <2>1, <2>2, <2>4, ChunksIs
<1>2. CASE /\ plan'.lineage = plan.lineage /\ plan'.batches = Tail(plan.batches)
           /\ plan.batches # << >> /\ pc = "adjust" /\ UNCHANGED <<raw, matched>>
  <2>1. k + 1 \in DOMAIN plan.batches /\ plan'.batches[k] = plan.batches[k + 1]
    BY <1>2, HeadIs
  <2>2. Eligible' = Eligible
    BY <1>2 DEF Eligible
  <2> QED
    BY <1>2, <2>1, <2>2 DEF WholeBatches
<1>3. CASE pc = "adjust" /\ UNCHANGED <<plan, adjusted, raw, matched>>
  <2>1. Eligible' = Eligible
    BY <1>3 DEF Eligible
  <2> QED
    BY <1>3, <2>1 DEF WholeBatches
<1> QED
  BY <1>1, <1>2, <1>3, PlanIs

(* In a batch of whole securities a security has all its ISINs, or none.   *)
LEMMA AllOrNone ==
  ASSUME Planned, WholeBatches, pc = "adjust", plan.batches # << >>, NEW s
  PROVE  Own(s, Head(plan.batches)) \in {{}, Own(s, Eligible)}
<1> DEFINE batch == Head(plan.batches)
<1>1. \A i \in batch : /\ i \in Eligible
                       /\ \A j \in Eligible :
                            SecurityOf(j, plan.lineage) = SecurityOf(i, plan.lineage) =>
                              j \in batch
  BY HeadIs DEF WholeBatches
<1> HIDE DEF batch
<1>2. Own(s, batch) \in {{}, Own(s, Eligible)}
  BY <1>1 DEF Own
<1> QED
  BY <1>2 DEF batch

(* What STEP 4 builds, of the prices, the actions and the lineage it read. *)
BuiltFrom(s, batch, prices, actions, map) ==
  LET isins    == {i \in batch : SecurityOf(i, map) = s}
      days     == UNION {prices[i] : i \in isins}
      close(d) == [source |-> CHOOSE i \in isins : d \in prices[i], day |-> d,
                   factors |-> {a \in actions : SecurityOf(a.isin, map) = s /\ a.ex > d}]
  IN [d \in days |->
        [close |-> close(d),
         prev  |-> LET earlier == {e \in days : e < d}
                   IN IF earlier = {} THEN None ELSE close(Max(earlier))]]
EligibleOf(prices) == {i \in Isins : prices[i] # {}}
OwnDaysOf(s, prices, map) ==
  UNION {prices[i] : i \in {i \in EligibleOf(prices) : SecurityOf(i, map) = s}}

LEMMA BuiltFromIs ==
  \A s : /\ Eligible = EligibleOf(raw)
         /\ Built(s, Eligible) = BuiltFrom(s, EligibleOf(raw), raw, matched, plan.lineage)
         /\ DaysOf(Own(s, Eligible)) = OwnDaysOf(s, raw, plan.lineage)
<1> TAKE s
<1>1. Eligible = EligibleOf(raw)
  BY DEF Eligible, EligibleOf
<1>2. Built(s, Eligible) = BuiltFrom(s, Eligible, raw, matched, plan.lineage)
  BY DEF Built, BuiltFrom, FactorsOf
<1>3. DaysOf(Own(s, Eligible)) = OwnDaysOf(s, raw, plan.lineage)
  BY <1>1 DEF DaysOf, Own, OwnDaysOf
<1> QED
  BY <1>1, <1>2, <1>3

LEMMA BuiltFromNext ==
  (\A s : /\ Eligible = EligibleOf(raw)
          /\ Built(s, Eligible) = BuiltFrom(s, EligibleOf(raw), raw, matched, plan.lineage)
          /\ DaysOf(Own(s, Eligible)) = OwnDaysOf(s, raw, plan.lineage))'
  BY BuiltFromIs, PTL

LEMMA BuiltStays ==
  ASSUME plan'.lineage = plan.lineage, UNCHANGED <<raw, matched>>
  PROVE  /\ Eligible' = Eligible
         /\ \A s : DaysOf(Own(s, Eligible))' = DaysOf(Own(s, Eligible))
         /\ \A s : Built(s, Eligible)' = Built(s, Eligible)
<1>1. Eligible' = Eligible
  BY DEF Eligible
<1>2. \A s : /\ Built(s, Eligible)' = BuiltFrom(s, EligibleOf(raw'), raw', matched', plan'.lineage)
             /\ DaysOf(Own(s, Eligible))' = OwnDaysOf(s, raw', plan'.lineage)
  BY BuiltFromNext
<1> QED
  BY <1>1, <1>2, BuiltFromIs

LEMMA IsBuiltIs ==
  \A s : IsBuilt(s) <=> \A d \in DaysOf(Own(s, Eligible)) :
           d \in DOMAIN adjusted[s] /\ adjusted[s][d] = Built(s, Eligible)[d]
  BY DEF IsBuilt, Own

LEMMA IsBuiltNext ==
  (\A s : IsBuilt(s) <=> \A d \in DaysOf(Own(s, Eligible)) :
            d \in DOMAIN adjusted[s] /\ adjusted[s][d] = Built(s, Eligible)[d])'
  BY IsBuiltIs, PTL

LEMMA RebuildingIs ==
  Rebuilding <=>
    (pc = "adjust" =>
       \A i \in Eligible : \A s : s = SecurityOf(i, plan.lineage) =>
         (\E k \in DOMAIN plan.batches : i \in plan.batches[k]) \/ IsBuilt(s))
  BY DEF Rebuilding

LEMMA RebuildingNext ==
  (Rebuilding <=>
     (pc = "adjust" =>
        \A i \in Eligible : \A s : s = SecurityOf(i, plan.lineage) =>
          (\E k \in DOMAIN plan.batches : i \in plan.batches[k]) \/ IsBuilt(s)))'
  BY RebuildingIs, PTL

LEMMA RebuildingStep ==
  ASSUME TypeOK, Bounded, Planned, WholeBatches, Rebuilding, [Next]_vars
  PROVE  Rebuilding'
<1> SUFFICES ASSUME pc' = "adjust", NEW i \in Eligible', NEW s,
                    s = SecurityOf(i, plan'.lineage)
             PROVE  \/ \E k \in DOMAIN plan'.batches : i \in plan'.batches[k]
                    \/ IsBuilt(s)'
  BY RebuildingNext
<1>1. CASE StartCycle
  <2>1. /\ plan'.batches = Chunks(Eligible, lineage) /\ Eligible' = Eligible
    BY <1>1 DEF StartCycle, Eligible, world
  <2>2. lineage \in Lineages /\ Eligible \subseteq Isins
    BY TypeOKParts DEF TypedWorld, Eligible
  <2> QED
    BY <2>1, <2>2, ChunksIs
<1>2. CASE /\ adjusted' = Rebuilt(Head(plan.batches), LastDay)
           /\ plan'.lineage = plan.lineage /\ plan'.batches = Tail(plan.batches)
           /\ plan.batches # << >> /\ pc = "adjust" /\ UNCHANGED <<raw, matched>>
  <2> DEFINE batch == Head(plan.batches)
  <2>1. i \in Eligible /\ i \in Isins /\ s \in Isins /\ s = SecurityOf(i, plan.lineage)
    <3>1. i \in Eligible
      BY <1>2, BuiltStays
    <3>2. plan.lineage \in Lineages
      BY DEF Planned, Lineages
    <3> QED
      BY <1>2, <3>1, <3>2, SecurityTyped DEF Eligible
  <2>2. ASSUME NEW k \in DOMAIN plan.batches, i \in plan.batches[k], k # 1
        PROVE  \E m \in DOMAIN plan'.batches : i \in plan'.batches[m]
    BY <1>2, <2>2, HeadIs
  <2>3. IsBuilt(s)' <=>
          \A d \in DaysOf(Own(s, Eligible)) :
            d \in DOMAIN adjusted'[s] /\ adjusted'[s][d] = Built(s, Eligible)[d]
    <3>1. IsBuilt(s)' <=> \A d \in DaysOf(Own(s, Eligible))' :
             d \in DOMAIN adjusted'[s] /\ adjusted'[s][d] = Built(s, Eligible)'[d]
      BY IsBuiltNext
    <3> QED
      BY <1>2, <3>1, BuiltStays
  <2>4. DaysOf(Own(s, Eligible)) \subseteq Days
    <3>1. Own(s, Eligible) \subseteq Isins
      BY DEF Own, Eligible
    <3> QED
      BY <3>1, DaysTyped
  <2>5. ASSUME Own(s, batch) = Own(s, Eligible)
        PROVE  IsBuilt(s)'
    <3> DEFINE new == {e \in DaysOf(Own(s, batch)) : e <= LastDay}
    <3>1. new = DaysOf(Own(s, Eligible))
      BY <2>4, <2>5, DayTyped
    <3>2. Built(s, batch) = Built(s, Eligible)
      BY <2>5, SameOwn
    <3>3. /\ DOMAIN adjusted'[s] = DOMAIN adjusted[s] \cup new
          /\ \A d \in new : adjusted'[s][d] = Built(s, batch)[d]
      <4>1. adjusted' = Rebuilt(batch, LastDay)
        BY <1>2
      <4> HIDE DEF batch
      <4> QED
        BY <2>1, <4>1, RebuiltIs
    <3> HIDE DEF new
    <3> QED
      BY <2>3, <3>1, <3>2, <3>3
  <2>6. ASSUME Own(s, batch) = {}, IsBuilt(s)
        PROVE  IsBuilt(s)'
    <3> DEFINE new == {e \in DaysOf(Own(s, batch)) : e <= LastDay}
    <3>1. new = {}
      BY <2>6 DEF DaysOf
    <3>2. /\ DOMAIN adjusted'[s] = DOMAIN adjusted[s] \cup new
          /\ \A d \in DOMAIN adjusted[s] : d \notin new => adjusted'[s][d] = adjusted[s][d]
      <4>1. adjusted' = Rebuilt(batch, LastDay)
        BY <1>2
      <4> HIDE DEF batch
      <4> QED
        BY <2>1, <4>1, RebuiltIs
    <3>3. \A d \in DaysOf(Own(s, Eligible)) :
            d \in DOMAIN adjusted[s] /\ adjusted[s][d] = Built(s, Eligible)[d]
      BY <2>6, IsBuiltIs
    <3> HIDE DEF new
    <3> QED
      BY <2>3, <3>1, <3>2, <3>3
  <2>7. Own(s, batch) \in {{}, Own(s, Eligible)}
    BY <1>2, AllOrNone
  <2>8. i \in plan.batches[1] => Own(s, batch) # {}
    <3>1. i \in plan.batches[1] => i \in Own(s, batch)
      BY <1>2, <2>1, HeadIs DEF Own
    <3> QED
      BY <3>1
  <2>9. \/ \E k \in DOMAIN plan.batches : i \in plan.batches[k]
        \/ IsBuilt(s)
    BY <1>2, <2>1, RebuildingIs
  <2> HIDE DEF batch
  <2>10. \/ \E k \in DOMAIN plan'.batches : i \in plan'.batches[k]
         \/ IsBuilt(s)'
    BY <2>2, <2>5, <2>6, <2>7, <2>8, <2>9
  <2> QED
    BY <2>10
<1>3. CASE pc = "adjust" /\ UNCHANGED <<plan, adjusted, raw, matched>>
  <2>1. Eligible' = Eligible
    BY <1>3, BuiltStays
  <2>2. IsBuilt(s) => IsBuilt(s)'
    <3>1. IsBuilt(s)' <=> \A d \in DaysOf(Own(s, Eligible))' :
             d \in DOMAIN adjusted'[s] /\ adjusted'[s][d] = Built(s, Eligible)'[d]
      BY IsBuiltNext
    <3> QED
      BY <1>3, <3>1, BuiltStays, IsBuiltIs
  <2> QED
    BY <1>3, <2>1, <2>2, RebuildingIs
<1> QED
  BY <1>1, <1>2, <1>3, PlanIs

(* The days of the ISINs whose walk ends at a security, by any lineage.    *)
LEMMA OwnDaysStep ==
  ASSUME TypeOK, Bounded, Planned, OwnDays, [Next]_vars
  PROVE  OwnDays'
<1>1. /\ lineage \in Lineages /\ plan.lineage \in Lineages
      /\ \A i \in Isins : plan.lineage[i] # None => lineage[i] = plan.lineage[i]
  BY TypeOKParts DEF TypedWorld, Planned, Lineages
<1>2. \A i \in Isins : lineage[i] # None => lineage'[i] = lineage[i]
  <2>1. ASSUME NEW m \in Migrations, AddLineage(m)
        PROVE  \A i \in Isins : lineage[i] # None => lineage'[i] = lineage[i]
    BY <1>1, <2>1 DEF AddLineage, Lineages
  <2> QED
    BY <2>1, Changes
<1>3. \A i \in Isins : raw[i] \subseteq raw'[i]
  <2>1. CASE NewDay
    BY <2>1 DEF NewDay
  <2> QED
    BY <2>1, Changes
<1> SUFFICES ASSUME NEW s \in Isins, lineage'[s] = None, NEW d \in DOMAIN adjusted'[s]
             PROVE  \E i \in Isins : SecurityOf(i, lineage') = s /\ d \in raw'[i]
  <2>1. \A s \in Current' : s \in Isins /\ lineage'[s] = None
    BY DEF Current
  <2>2. \A s, d : (\E i \in Isins : SecurityOf(i, lineage') = s /\ d \in raw'[i]) =>
                    d \in UNION {raw'[i] : i \in {i \in Isins : SecurityOf(i, lineage') = s}}
    OBVIOUS
  <2> QED
    BY <2>1, <2>2 DEF OwnDays, DaysOf, OwnBy
<1>4. lineage[s] = None
  BY <1>2
<1>5. \E i \in Isins : d \in raw[i]
        /\ (SecurityOf(i, lineage) = s \/ SecurityOf(i, plan.lineage) = s)
  <2>1. CASE d \in DOMAIN adjusted[s]
    BY <1>4, <2>1 DEF OwnDays, Current, DaysOf, OwnBy
  <2>2. CASE d \notin DOMAIN adjusted[s]
    <3> DEFINE batch == Head(plan.batches)
    <3>1. AdjustBatch /\ adjusted' # adjusted
      BY <2>2, Changes
    <3>2. PICK upto \in 0 .. LastDay : adjusted' = Rebuilt(batch, upto)
      BY <3>1, BatchIs
    <3>3. batch \subseteq Isins
      BY <3>1, BatchIs, HeadIs
    <3> HIDE DEF batch
    <3>4. DOMAIN adjusted'[s] = DOMAIN adjusted[s] \cup {e \in DaysOf(Own(s, batch)) : e <= upto}
      BY <3>2, RebuiltIs
    <3>5. d \in DaysOf(Own(s, batch))
      BY <2>2, <3>4
    <3> QED
      BY <3>3, <3>5 DEF DaysOf, Own
  <2> QED
    BY <2>1, <2>2
<1>6. PICK i \in Isins : d \in raw[i]
        /\ (SecurityOf(i, lineage) = s \/ SecurityOf(i, plan.lineage) = s)
  BY <1>5
<1>7. SecurityOf(i, lineage) = s
  <2>1. CASE SecurityOf(i, plan.lineage) = s
    BY <1>1, <1>4, <2>1, SecurityStays
  <2> QED
    BY <1>6, <2>1
<1>8. SecurityOf(i, lineage') = s
  BY <1>1, <1>2, <1>7, SecurityStays
<1> QED
  BY <1>3, <1>6, <1>8

(* When all batches are through, the lineage being what it was, a security *)
(* has the series that is built from all its ISINs.                        *)
LEMMA WholeSeries ==
  ASSUME TypeOK, Bounded, Planned, Rebuilding, OwnDays,
         pc = "adjust", plan.batches = << >>, plan.lineage = lineage, NEW s \in Current
  PROVE  /\ DaysOf(OwnBy(lineage, s)) = DaysOf(Own(s, Eligible))
         /\ DOMAIN adjusted[s] = DaysOf(OwnBy(lineage, s))
         /\ \A d \in DOMAIN adjusted[s] : adjusted[s][d] = Built(s, Eligible)[d]
<1>1. DaysOf(OwnBy(lineage, s)) = DaysOf(Own(s, Eligible))
  BY DEF DaysOf, OwnBy, Own, Eligible
<1>2. DOMAIN adjusted[s] \subseteq DaysOf(OwnBy(lineage, s))
  BY DEF OwnDays
<1>3. DOMAIN plan.batches = {}
  OBVIOUS
<1>4. ASSUME NEW d \in DaysOf(Own(s, Eligible))
      PROVE  d \in DOMAIN adjusted[s] /\ adjusted[s][d] = Built(s, Eligible)[d]
  <2>1. PICK i \in Eligible : SecurityOf(i, plan.lineage) = s
    BY DEF DaysOf, Own
  <2>2. IsBuilt(s)
    BY <1>3, <2>1, RebuildingIs
  <2> QED
    BY <2>2, IsBuiltIs
<1> QED
  BY <1>1, <1>2, <1>4

IsUnbroken(s) ==
  LET series == adjusted[s]
      own == OwnBy(lineage, s)
  IN /\ DOMAIN series = DaysOf(own)
     /\ \A p \in Neighbours(DOMAIN series) :
          /\ series[p[2]].prev = series[p[1]].close
          /\ series[p[1]].close.factors \ series[p[2]].close.factors =
               {a \in matched : a.isin \in own /\ p[1] < a.ex /\ a.ex <= p[2]}
          /\ series[p[2]].close.factors \subseteq series[p[1]].close.factors

LEMMA UnbrokenIs ==
  UnbrokenSeries <=> ("adjusted" \in fresh => \A s \in Current : IsUnbroken(s))
  BY DEF UnbrokenSeries, IsUnbroken, OwnBy, DaysOf

LEMMA WholeIsUnbroken ==
  ASSUME TypeOK, Bounded, Planned, Rebuilding, OwnDays,
         pc = "adjust", plan.batches = << >>, plan.lineage = lineage, NEW s \in Current
  PROVE  IsUnbroken(s)
<1> DEFINE E == Own(s, Eligible)
<1> DEFINE own == OwnBy(lineage, s)
<1> DEFINE series == adjusted[s]
<1>1. DOMAIN series = DaysOf(own) /\ DOMAIN series = DaysOf(E)
  BY WholeSeries
<1>2. \A d \in DOMAIN series :
        /\ series[d].close = CloseOf(E, s, d)
        /\ series[d].prev = LET earlier == {e \in DOMAIN series : e < d}
                            IN IF earlier = {} THEN None ELSE CloseOf(E, s, Max(earlier))
  BY <1>1, WholeSeries, BuiltIs
<1>3. DOMAIN series \subseteq Days
  BY DayTyped DEF Bounded, TypeOK, Days, Current
<1>4. \A a \in matched : a.isin \in Isins /\ a.ex \in Int
  BY PriceSeriesAssumption DEF PriceSeriesAssumption, TypeOK
<1> SUFFICES ASSUME NEW p \in Neighbours(DOMAIN series)
             PROVE  /\ series[p[2]].prev = series[p[1]].close
                    /\ series[p[1]].close.factors \ series[p[2]].close.factors =
                         {a \in matched : a.isin \in own /\ p[1] < a.ex /\ a.ex <= p[2]}
                    /\ series[p[2]].close.factors \subseteq series[p[1]].close.factors
  BY <1>1 DEF IsUnbroken
<1> DEFINE c == p[1]
<1> DEFINE d == p[2]
<1>5. /\ c \in DOMAIN series /\ d \in DOMAIN series /\ c < d
      /\ \A e \in DOMAIN series : ~(c < e /\ e < d)
  BY DEF Neighbours
<1> HIDE DEF c, d
<1>6. \A x \in DOMAIN series : x \in Nat
  BY <1>3, DayTyped
<1> DEFINE earlier == {e \in DOMAIN series : e < d}
<1>7. Max(earlier) = c /\ earlier # {}
  <2>1. c \in earlier /\ earlier \subseteq Days /\ \A y \in earlier : y <= c
    BY <1>3, <1>5, <1>6
  <2> HIDE DEF earlier
  <2> QED
    BY <2>1, LastOne
<1>8. series[d].prev = series[c].close
  BY <1>2, <1>5, <1>7
<1>9. /\ series[c].close.factors = FactorsOf(s, c)
      /\ series[d].close.factors = FactorsOf(s, d)
  <2>1. \A x : CloseOf(E, s, x).factors = FactorsOf(s, x)
    BY DEF CloseOf
  <2>2. series[c].close = CloseOf(E, s, c) /\ series[d].close = CloseOf(E, s, d)
    BY <1>2, <1>5
  <2> QED
    BY <2>1, <2>2
<1>10. \A x : \A a \in matched :
         a \in FactorsOf(s, x) <=> a.isin \in own /\ a.ex > x
  BY <1>4 DEF FactorsOf, OwnBy
<1>11. \A x : FactorsOf(s, x) \subseteq matched
  BY DEF FactorsOf
<1> HIDE DEF own, series, E, earlier
<1>12. FactorsOf(s, c) \ FactorsOf(s, d) =
         {a \in matched : a.isin \in own /\ c < a.ex /\ a.ex <= d}
  BY <1>4, <1>5, <1>6, <1>10, <1>11
<1>13. FactorsOf(s, d) \subseteq FactorsOf(s, c)
  BY <1>4, <1>5, <1>6, <1>10, <1>11
<1> QED
  BY <1>8, <1>9, <1>12, <1>13 DEF c, d

LEMMA UnbrokenStep ==
  ASSUME TypeOK, Bounded, Planned, Rebuilding, OwnDays, UnbrokenSeries, [Next]_vars
  PROVE  UnbrokenSeries'
<1> SUFFICES ASSUME "adjusted" \in fresh' PROVE UnbrokenSeries'
  BY DEF UnbrokenSeries
<1>1. ASSUME UNCHANGED <<raw, matched, lineage, adjusted>>,
             \A s \in Current : IsUnbroken(s)
      PROVE  UnbrokenSeries'
  BY <1>1 DEF UnbrokenSeries, IsUnbroken, OwnBy, DaysOf, Current
<1>2. CASE AdjustDone
  <2>1. /\ pc = "adjust" /\ plan.batches = << >>
        /\ UNCHANGED <<raw, matched, lineage, adjusted>>
        /\ "adjusted" \in fresh \/ plan.lineage = lineage
    BY <1>2 DEF AdjustDone, world, tables
  <2>2. \A s \in Current : IsUnbroken(s)
    BY <2>1, WholeIsUnbroken, UnbrokenIs
  <2> QED
    BY <1>1, <2>1, <2>2
<1>3. CASE "adjusted" \in fresh /\ UNCHANGED <<raw, matched, lineage, adjusted>>
  BY <1>1, <1>3, UnbrokenIs
<1> QED
  BY <1>2, <1>3, StaysFresh

-----------------------------------------------------------------------------
(* STEP 5: week by week, each chained to the last one before it.           *)

LEMMA RollingUpIs ==
  RollingUp <=>
    \A s \in Isins : \A d \in DOMAIN adjusted[s] : \A v : v = WeekOf(d) =>
      (((pc = "rollup" /\ v < at) \/ "weekly" \in fresh) => IsRolledUp(s, v))
  BY DEF RollingUp

LEMMA RollingUpNext ==
  (RollingUp <=>
     \A s \in Isins : \A d \in DOMAIN adjusted[s] : \A v : v = WeekOf(d) =>
       (((pc = "rollup" /\ v < at) \/ "weekly" \in fresh) => IsRolledUp(s, v)))'
  BY RollingUpIs, PTL

LEMMA RolledUpStays ==
  ASSUME UNCHANGED <<adjusted, weekly>>
  PROVE  \A s, v : IsRolledUp(s, v) => IsRolledUp(s, v)'
  BY DEF IsRolledUp, PriorClose, Before, InWeek

LEMMA PriorStays ==
  ASSUME TypeOK, Bounded, NEW s \in Isins, NEW v,
         Before(weekly'[s], v) = Before(weekly[s], v),
         \A w \in Before(weekly[s], v) : weekly'[s][w].close = weekly[s][w].close
  PROVE  PriorClose(s, v)' = PriorClose(s, v)
<1> DEFINE B == Before(weekly[s], v)
<1>1. B # {} => Max(B) \in B
  BY WeeksTyped DEF Before
<1>2. /\ PriorClose(s, v) = IF B = {} THEN None ELSE weekly[s][Max(B)].close
      /\ PriorClose(s, v)' = IF B = {} THEN None ELSE weekly'[s][Max(B)].close
  <2>1. PriorClose(s, v) = IF B = {} THEN None ELSE weekly[s][Max(B)].close
    BY DEF PriorClose
  <2>2. PriorClose(s, v)' = LET b == Before(weekly'[s], v)
                            IN IF b = {} THEN None ELSE weekly'[s][Max(b)].close
    BY DEF PriorClose, Before
  <2> QED
    BY <2>1, <2>2
<1>3. \A w \in B : weekly'[s][w].close = weekly[s][w].close
  OBVIOUS
<1> HIDE DEF B
<1> QED
  BY <1>1, <1>2, <1>3

(* No step but that of a week brings the walk on. *)
LEMMA OnlyRollUp ==
  ASSUME [Next]_vars, ~RollUp, pc' = "rollup"
  PROVE  at' = 1 \/ (pc = "rollup" /\ at' = at /\ adjusted' = adjusted)
<1>1. CASE StartCycle \/ AdjustDone \/ Rsi \/ Crash \/ NewDay
  BY <1>1 DEF StartCycle, AdjustDone, Rsi, Crash, NewDay
<1>2. CASE AdjustBatch
  BY <1>2, BatchIs
<1>3. CASE MaChunk
  BY <1>3 DEF MaChunk
<1>4. CASE (\E a \in Actions : Match(a)) \/ (\E m \in Migrations : AddLineage(m))
  BY <1>4 DEF Match, AddLineage, tables
<1>5. CASE UNCHANGED vars
  BY <1>5 DEF vars, tables
<1> QED
  BY <1>1, <1>2, <1>3, <1>4, <1>5 DEF Next

LEMMA RollingUpStep ==
  ASSUME TypeOK, Bounded, Planned, RollingUp, [Next]_vars
  PROVE  RollingUp'
<1> SUFFICES ASSUME NEW s \in Isins, NEW d \in DOMAIN adjusted'[s], NEW v, v = WeekOf(d),
                    (pc' = "rollup" /\ v < at') \/ "weekly" \in fresh'
             PROVE  IsRolledUp(s, v)'
  BY RollingUpNext
<1>1. /\ d \in 1 .. today /\ d \in Days /\ v \in Nat /\ v >= 1 /\ v <= WeekOf(today)
      /\ today \in Days /\ WeekOf(today) \in Nat
  <2>1. d \in 1 .. today /\ today \in Days
    BY AdjustedStep DEF TypeOK
  <2>2. d \in Days /\ d <= today
    BY <2>1, DayTyped DEF Days
  <2> QED
    BY <2>1, <2>2, WeekTyped
<1>2. CASE ~RollUp
  <2>1. weekly' = weekly
    BY <1>2, Changes
  <2>2. adjusted' = adjusted /\ ((pc = "rollup" /\ v < at) \/ "weekly" \in fresh)
    <3>1. CASE "weekly" \in fresh'
      BY <1>2, <3>1, StaysFresh
    <3>2. CASE pc' = "rollup" /\ v < at'
      BY <1>1, <1>2, <3>2, OnlyRollUp
    <3> QED
      BY <3>1, <3>2
  <2>3. IsRolledUp(s, v)
    BY <2>2, RollingUpIs
  <2> QED
    BY <2>1, <2>2, <2>3, RolledUpStays
<1>3. CASE RollUp /\ weekly' = weekly /\ fresh' = fresh /\ pc' = "rsi"
  <2>1. adjusted' = adjusted
    BY <1>3, RollUpIs
  <2>2. IsRolledUp(s, v)
    BY <1>3, <2>1, RollingUpIs
  <2> QED
    BY <1>3, <2>1, <2>2, RolledUpStays
<1>4. CASE /\ RollUp
           /\ \A t \in Isins : InWeek(t, at) = {} => weekly'[t] = weekly[t]
           /\ \A t \in Isins : InWeek(t, at) # {} =>
                /\ DOMAIN weekly'[t] = DOMAIN weekly[t] \cup {at}
                /\ weekly'[t][at].close = adjusted[t][Max(InWeek(t, at))].close
                /\ weekly'[t][at].prev = PriorClose(t, at)
                /\ \A w \in DOMAIN weekly[t] : w # at => weekly'[t][w] = weekly[t][w]
           /\ IF at < WeekOf(today)
              THEN at' = at + 1 /\ UNCHANGED <<pc, fresh>>
              ELSE at' = 1 /\ pc' = "rsi" /\ fresh' = fresh \cup {"weekly"}
  <2>1. adjusted' = adjusted /\ pc = "rollup" /\ at <= WeekOf(today) /\ at \in Nat /\ at >= 1
    <3>1. \A n \in 1 .. LastDay + ChunkDays : n \in Nat
      BY DayTyped, LengthsTyped
    <3> QED
      BY <1>4, <3>1, RollUpIs DEF Bounded, TypeOK
  <2>2. v <= at \/ "weekly" \in fresh
    BY <1>1, <1>4, <2>1
  <2>3. v < at \/ "weekly" \in fresh => IsRolledUp(s, v)
    BY <2>1, RollingUpIs
  <2>4. d \in InWeek(s, v)
    BY <2>1 DEF InWeek
  <2>5. InWeek(s, v)' = InWeek(s, v)
    BY <2>1 DEF InWeek
  <2>6. DOMAIN weekly[s] \subseteq Days /\ \A w \in DOMAIN weekly[s] : w \in Nat
    BY WeeksTyped, DayTyped
  <2>7. "weekly" \in fresh /\ InWeek(s, at) # {} => IsRolledUp(s, at)
    <3> HAVE "weekly" \in fresh /\ InWeek(s, at) # {}
    <3>1. PICK e \in DOMAIN adjusted[s] : at = WeekOf(e)
      BY DEF InWeek
    <3> QED
      BY <3>1, RollingUpIs
  <2>8. /\ Before(weekly'[s], v) = Before(weekly[s], v)
        /\ \A w \in Before(weekly[s], v) : weekly'[s][w].close = weekly[s][w].close
    <3>1. CASE InWeek(s, at) = {}
      <4>1. weekly'[s] = weekly[s]
        BY <1>4, <3>1
      <4> QED
        BY <4>1
    <3>2. CASE InWeek(s, at) # {}
      <4>1. /\ DOMAIN weekly'[s] = DOMAIN weekly[s] \cup {at}
            /\ weekly'[s][at].close = adjusted[s][Max(InWeek(s, at))].close
            /\ \A w \in DOMAIN weekly[s] : w # at => weekly'[s][w] = weekly[s][w]
        BY <1>4, <3>2
      <4>2. CASE v <= at
        BY <1>1, <2>1, <2>6, <4>1, <4>2 DEF Before
      <4>3. CASE "weekly" \in fresh
        <5>1. /\ at \in DOMAIN weekly[s]
              /\ weekly[s][at].close = adjusted[s][Max(InWeek(s, at))].close
          BY <2>7, <3>2, <4>3 DEF IsRolledUp
        <5>2. DOMAIN weekly'[s] = DOMAIN weekly[s]
              /\ \A w \in DOMAIN weekly[s] : weekly'[s][w].close = weekly[s][w].close
          BY <4>1, <5>1
        <5> QED
          BY <5>2 DEF Before
      <4> QED
        BY <2>2, <4>2, <4>3
    <3> QED
      BY <3>1, <3>2
  <2>9. PriorClose(s, v)' = PriorClose(s, v)
    BY <2>8, PriorStays
  <2>10. /\ v \in DOMAIN weekly'[s]
         /\ weekly'[s][v].close = adjusted[s][Max(InWeek(s, v))].close
         /\ weekly'[s][v].prev = PriorClose(s, v)
    <3>1. CASE v = at
      BY <1>4, <2>4, <3>1
    <3>2. CASE v # at
      <4>1. IsRolledUp(s, v)
        BY <1>1, <2>1, <2>2, <2>3, <3>2
      <4>2. v \in DOMAIN weekly'[s] /\ weekly'[s][v] = weekly[s][v]
        BY <1>4, <3>2, <4>1 DEF IsRolledUp
      <4> QED
        BY <4>1, <4>2 DEF IsRolledUp
    <3> QED
      BY <3>1, <3>2
  <2> QED
    BY <2>1, <2>5, <2>9, <2>10 DEF IsRolledUp
<1> QED
  BY <1>2, <1>3, <1>4, RollUpIs

LEMMA WeeksFollow ==
  ASSUME TypeOK, Bounded, RollingUp
  PROVE  WeeksChained
<1> SUFFICES ASSUME "weekly" \in fresh, NEW s \in Isins
             PROVE  LET weeks == weekly[s]
                    IN /\ DOMAIN weeks = {WeekOf(d) : d \in DOMAIN adjusted[s]}
                       /\ \A w \in DOMAIN weeks :
                            weeks[w].close = adjusted[s][Max(InWeek(s, w))].close
                       /\ \A p \in Neighbours(DOMAIN weeks) :
                            weeks[p[2]].prev = weeks[p[1]].close
  BY DEF WeeksChained
<1>1. DOMAIN weekly[s] = {WeekOf(d) : d \in DOMAIN adjusted[s]}
  BY DEF Bounded, RollingUp, IsRolledUp
<1>2. \A w \in DOMAIN weekly[s] : IsRolledUp(s, w)
  BY <1>1 DEF RollingUp
<1>3. \A w \in DOMAIN weekly[s] :
        weekly[s][w].close = adjusted[s][Max(InWeek(s, w))].close
        /\ weekly[s][w].prev = PriorClose(s, w)
  BY <1>2 DEF IsRolledUp
<1>4. ASSUME NEW p \in Neighbours(DOMAIN weekly[s])
      PROVE  weekly[s][p[2]].prev = weekly[s][p[1]].close
  <2> DEFINE c == p[1]
  <2> DEFINE d == p[2]
  <2>1. /\ c \in DOMAIN weekly[s] /\ d \in DOMAIN weekly[s] /\ c < d
        /\ \A e \in DOMAIN weekly[s] : ~(c < e /\ e < d)
    BY DEF Neighbours
  <2> HIDE DEF c, d
  <2>2. DOMAIN weekly[s] \subseteq Days /\ \A x \in DOMAIN weekly[s] : x \in Nat
    BY WeeksTyped, DayTyped
  <2> DEFINE B == Before(weekly[s], d)
  <2>3. B \subseteq Days /\ c \in B /\ \A y \in B : y <= c
    BY <2>1, <2>2 DEF Before
  <2>4. PriorClose(s, d) = IF B = {} THEN None ELSE weekly[s][Max(B)].close
    BY DEF PriorClose
  <2> HIDE DEF B
  <2>5. Max(B) = c /\ B # {}
    BY <2>3, LastOne
  <2>6. weekly[s][d].prev = weekly[s][c].close
    BY <1>3, <2>1, <2>4, <2>5
  <2> QED
    BY <2>6 DEF c, d
<1> QED
  BY <1>1, <1>3, <1>4

-----------------------------------------------------------------------------
(* STEP 8: the RSI walk is that of the series it was taken of.             *)

(* The walk, of a series and a calendar. *)
WalkOf(series, sessions) ==
  LET gap(d, e) == /\ {d, e} \subseteq sessions
                   /\ Cardinality({x \in sessions : d < x /\ x < e}) >= GapThreshold
      valid     == {e \in DOMAIN series : series[e].prev # None}
      begins(d) == d \in valid /\ ({e \in valid : e < d} = {}
                                   \/ gap(Max({e \in valid : e < d}), d))
      chunk(d)  == LET starts == {e \in DOMAIN series : e <= d /\ begins(e)}
                   IN IF starts = {} THEN {}
                      ELSE {e \in DOMAIN series : Max(starts) <= e /\ e <= d}
      seeded    == {d \in DOMAIN series : /\ Cardinality(chunk(d)) >= RsiPeriod
                                          /\ \A e \in chunk(d) : series[e].prev # None}
  IN [d \in seeded |-> {<<series[e].prev, series[e].close>> : e \in chunk(d)}]

LEMMA WalkOfIs ==
  \A s : Walk(s) = WalkOf(adjusted[s], calendar)
  BY DEF Walk, WalkOf, StartsChunk, IsGap

LEMMA WalkOfNext ==
  (\A s : Walk(s) = WalkOf(adjusted[s], calendar))'
  BY WalkOfIs, PTL

LEMMA WalkStays ==
  ASSUME UNCHANGED <<adjusted, calendar>>
  PROVE  \A s : Walk(s)' = Walk(s)
<1>1. \A s : Walk(s)' = WalkOf(adjusted'[s], calendar')
  BY WalkOfNext
<1> QED
  BY <1>1, WalkOfIs

LEMMA WalkedStep ==
  ASSUME Walked, [Next]_vars
  PROVE  Walked'
<1> SUFFICES ASSUME "rsi" \in fresh', NEW s \in Isins
             PROVE  rsi'[s] = Walk(s)'
  BY DEF Walked
<1>1. adjusted' = adjusted /\ calendar' = calendar /\ ("rsi" \in fresh \/ Rsi)
  BY StaysFresh, Changes
<1>2. Walk(s)' = Walk(s)
  BY <1>1, WalkStays
<1>3. CASE Rsi
  <2>1. rsi' = [t \in Isins |-> Walk(t)]
    BY <1>3 DEF Rsi
  <2> QED
    BY <1>2, <2>1
<1>4. CASE ~Rsi
  <2>1. rsi' = rsi /\ rsi[s] = Walk(s)
    BY <1>1, <1>4, Changes DEF Walked
  <2> QED
    BY <1>2, <2>1
<1> QED
  BY <1>3, <1>4

LEMMA FirstOne ==
  ASSUME NEW S, S \subseteq Days, NEW x \in S, \A y \in S : x <= y
  PROVE  Min(S) = x
<1>1. S \subseteq Nat /\ S # {}
  BY DayTyped
<1>2. Min(S) \in S /\ \A y \in S : Min(S) <= y
  BY <1>1, Least
<1>3. Min(S) \in Nat /\ x \in Nat /\ x <= Min(S) /\ Min(S) <= x
  BY <1>1, <1>2
<1> QED
  BY <1>3

LEMMA DaySetFinite ==
  ASSUME NEW S, S \subseteq Days
  PROVE  IsFiniteSet(S) /\ Cardinality(S) \in Nat
<1>1. IsFiniteSet(Days)
  BY DayTyped, FS_Interval DEF Days
<1> QED
  BY <1>1, FS_Subset, FS_CardinalityType


(* The changes of a stretch of rows are as many as its rows. *)
LEMMA AsManyChanges ==
  ASSUME TypeOK, NEW s \in Isins, NEW C, C \subseteq DOMAIN adjusted[s], C \subseteq Days
  PROVE  LET changes == {<<adjusted[s][e].prev, adjusted[s][e].close>> : e \in C}
         IN /\ Cardinality(changes) = Cardinality(C)
            /\ {change[2].day : change \in changes} = C
<1> DEFINE change(e) == <<adjusted[s][e].prev, adjusted[s][e].close>>
<1> DEFINE changes == {change(e) : e \in C}
<1>1. \A e \in C : change(e)[2].day = e
  BY TypeOKParts DEF TypedAdjusted
<1> DEFINE f == [e \in C |-> change(e)]
<1>2. \A e \in C : f[e] = change(e) /\ f[e][2].day = e
  BY <1>1
<1>3. {c[2].day : c \in changes} = C
  BY <1>1
<1>4. f \in [C -> changes] /\ \A c \in changes : \E e \in C : f[e] = c
  OBVIOUS
<1> HIDE DEF f, changes, change
<1>5. \A a, b \in C : f[a] = f[b] => a = b
  BY <1>2
<1>6. f \in Bijection(C, changes)
  BY <1>4, <1>5 DEF Bijection, Injection, Surjection, IsInjective
<1>7. ExistsBijection(C, changes)
  BY <1>6 DEF ExistsBijection
<1>8. Cardinality(changes) = Cardinality(C)
  BY <1>7, DaySetFinite, FS_Bijection
<1> QED
  BY <1>3, <1>8 DEF changes, change

LEMMA WalkFollows ==
  ASSUME TypeOK, Bounded, Walked
  PROVE  WalkSinceGap
<1> SUFFICES ASSUME "rsi" \in fresh, NEW s \in Isins, NEW d \in DOMAIN rsi[s]
             PROVE  LET days == {change[2].day : change \in rsi[s][d]}
                        rows == {e \in DOMAIN adjusted[s] :
                                   e <= d /\ adjusted[s][e].prev # None}
                    IN /\ Cardinality(rsi[s][d]) >= RsiPeriod
                       /\ days = {e \in rows : e >= Min(days)}
                       /\ \A p \in Neighbours(days) : ~IsGap(p[1], p[2])
                       /\ \A e \in rows : e < Min(days) =>
                            \E p \in Neighbours(rows) : p[2] = Min(days) /\ IsGap(p[1], p[2])
  BY DEF WalkSinceGap
<1> DEFINE A == DOMAIN adjusted[s]
<1> DEFINE valid == {e \in A : adjusted[s][e].prev # None}
<1> DEFINE starts == {e \in A : e <= d /\ StartsChunk(s, e)}
<1> DEFINE C == IF starts = {} THEN {} ELSE {e \in A : Max(starts) <= e /\ e <= d}
<1> DEFINE rows == {e \in A : e <= d /\ adjusted[s][e].prev # None}
<1>1. /\ d \in A /\ Cardinality(C) >= RsiPeriod /\ \A e \in C : e \in valid
      /\ rsi[s][d] = {<<adjusted[s][e].prev, adjusted[s][e].close>> : e \in C}
  <2>1. rsi[s] = Walk(s)
    BY DEF Walked
  <2>2. d \in DOMAIN Walk(s)
    BY <2>1
  <2>3. /\ d \in A /\ Cardinality(C) >= RsiPeriod
        /\ \A e \in C : adjusted[s][e].prev # None
        /\ Walk(s)[d] = {<<adjusted[s][e].prev, adjusted[s][e].close>> : e \in C}
    BY <2>2 DEF Walk
  <2> QED
    BY <2>1, <2>3
<1>2. A \subseteq Days /\ \A x \in A : x \in Nat
  BY DayTyped DEF TypeOK, Bounded, Days
<1>3. \A e : StartsChunk(s, e) <=>
        e \in valid /\ ({x \in valid : x < e} = {} \/ IsGap(Max({x \in valid : x < e}), e))
  BY DEF StartsChunk
<1> HIDE DEF A
<1>4. C \subseteq A
  OBVIOUS
<1>5. C # {}
  <2>1. Cardinality(C) # 0
    BY <1>1, LengthsTyped
  <2> HIDE DEF C
  <2> QED
    BY <2>1, FS_EmptySet
<1> DEFINE m == Max(starts)
<1>6. starts # {} /\ m \in starts /\ \A e \in starts : e <= m
  <2>1. starts # {} /\ starts \subseteq Days
    BY <1>2, <1>5
  <2> HIDE DEF starts
  <2> QED
    BY <2>1, Greatest
<1>7. C = {e \in A : m <= e /\ e <= d}
  BY <1>6
<1> HIDE DEF C, m
<1>8. m \in C /\ \A e \in C : m <= e
  BY <1>2, <1>6, <1>7
<1>9. Min(C) = m
  BY <1>2, <1>4, <1>8, FirstOne
<1>10. C = {e \in rows : e >= m}
  BY <1>1, <1>2, <1>7
<1>11. ASSUME NEW p \in Neighbours(C)
       PROVE  ~IsGap(p[1], p[2])
  <2> DEFINE b == p[1]
  <2> DEFINE c == p[2]
  <2>1. b \in C /\ c \in C /\ b < c /\ \A e \in C : ~(b < e /\ e < c)
    BY DEF Neighbours
  <2> HIDE DEF b, c
  <2> DEFINE earlier == {x \in valid : x < c}
  <2>2. b \in earlier /\ earlier \subseteq Days /\ \A x \in earlier : x <= b
    <3>1. b \in valid /\ b \in Nat /\ c \in Nat /\ m \in Nat /\ d \in Nat
      BY <1>1, <1>2, <1>4, <1>8, <2>1
    <3>2. b <= d /\ c <= d /\ m <= b
      BY <1>7, <2>1
    <3>3. \A x \in earlier : x \in A /\ x \in Nat /\ x < c
      BY <1>2
    <3>4. \A x \in earlier : x <= b
      <4> TAKE x \in earlier
      <4>1. x \in A /\ x \in Nat /\ x < c
        BY <3>3
      <4>2. CASE m <= x
        <5>1. x \in C
          BY <1>7, <3>1, <3>2, <4>1, <4>2
        <5> QED
          BY <2>1, <3>1, <4>1, <5>1
      <4>3. CASE x < m
        BY <3>1, <3>2, <4>1, <4>3
      <4> QED
        BY <3>1, <4>1, <4>2, <4>3
    <3> QED
      BY <1>2, <2>1, <3>1, <3>4
  <2>3. ~StartsChunk(s, c)
    <3>1. c \in A /\ c <= d /\ m <= b /\ b < c
      BY <1>4, <1>7, <2>1
    <3>2. c \notin starts
      BY <1>2, <1>4, <1>6, <1>8, <2>1, <3>1
    <3> QED
      BY <3>1, <3>2
  <2>4. c \in valid
    BY <1>1, <2>1
  <2>5. earlier # {} /\ ~IsGap(Max(earlier), c)
    BY <1>3, <2>2, <2>3, <2>4
  <2> HIDE DEF earlier
  <2>6. Max(earlier) = b
    BY <2>2, LastOne
  <2> QED
    BY <2>5, <2>6 DEF b, c
<1>12. ASSUME NEW e \in rows, e < m
       PROVE  \E p \in Neighbours(rows) : p[2] = m /\ IsGap(p[1], p[2])
  <2> DEFINE earlier == {x \in valid : x < m}
  <2>1. StartsChunk(s, m) /\ m \in A /\ m <= d /\ m \in rows
    BY <1>3, <1>6
  <2>2. e \in earlier /\ earlier \subseteq Days
    BY <1>2, <1>12
  <2>3. IsGap(Max(earlier), m)
    BY <1>3, <2>1, <2>2
  <2> DEFINE c == Max(earlier)
  <2>4. c \in earlier /\ \A x \in earlier : x <= c
    <3> HIDE DEF earlier
    <3> QED
      BY <2>2, Greatest
  <2> HIDE DEF c
  <2>5. c \in rows /\ c < m
    <3>1. c \in valid /\ c < m /\ c \in A /\ c \in Nat /\ m \in Nat /\ d \in Nat
      BY <1>1, <1>2, <2>1, <2>4
    <3> QED
      BY <2>1, <3>1
  <2>6. \A x \in rows : ~(c < x /\ x < m)
    BY <1>2, <2>1, <2>4
  <2> HIDE DEF rows
  <2>7. <<c, m>> \in Neighbours(rows)
    BY <2>1, <2>5, <2>6 DEF Neighbours
  <2> QED
    BY <2>3, <2>7 DEF c
<1> DEFINE days == {change[2].day : change \in rsi[s][d]}
<1>13. days = C /\ Cardinality(rsi[s][d]) = Cardinality(C)
  <2>1. /\ Cardinality({<<adjusted[s][e].prev, adjusted[s][e].close>> : e \in C}) =
             Cardinality(C)
        /\ {change[2].day : change \in
             {<<adjusted[s][e].prev, adjusted[s][e].close>> : e \in C}} = C
    <3>1. C \subseteq DOMAIN adjusted[s] /\ C \subseteq Days
      BY <1>2, <1>4 DEF A
    <3> QED
      BY <3>1, AsManyChanges
  <2>2. rsi[s][d] = {<<adjusted[s][e].prev, adjusted[s][e].close>> : e \in C}
    BY <1>1
  <2> QED
    BY <2>1, <2>2
<1>14. /\ Cardinality(rsi[s][d]) >= RsiPeriod
       /\ days = {e \in rows : e >= Min(days)}
       /\ \A p \in Neighbours(days) : ~IsGap(p[1], p[2])
       /\ \A e \in rows : e < Min(days) =>
            \E p \in Neighbours(rows) : p[2] = Min(days) /\ IsGap(p[1], p[2])
  <2> HIDE DEF days, rows
  <2> QED
    BY <1>1, <1>9, <1>10, <1>11, <1>12, <1>13
<1> QED
  BY <1>14 DEF days, rows, A

-----------------------------------------------------------------------------
(* STEP 8: the moving average, chunk by chunk.                             *)

LEMMA LastOfIs ==
  ASSUME NEW S, NEW n
  PROVE  /\ LastOf(S, n) \subseteq S
         /\ \A x \in S : x \in LastOf(S, n) <=> Cardinality({e \in S : e > x}) < n
  BY DEF LastOf

(* The last of a set are the last of any end of it that has them.          *)
LEMMA LastOfEnd ==
  ASSUME NEW S, NEW R, R \subseteq S, NEW n,
         \A x \in R : \A y \in S : y > x => y \in R,
         LastOf(S, n) \subseteq R
  PROVE  LastOf(R, n) = LastOf(S, n)
<1>1. \A x \in R : {e \in R : e > x} = {e \in S : e > x}
  OBVIOUS
<1>2. \A x \in R : x \in LastOf(R, n) <=> x \in LastOf(S, n)
  BY <1>1, LastOfIs
<1> QED
  BY <1>2, LastOfIs

(* There are fewer than n last ones only of a set of fewer than n.         *)
LEMMA FewerLast ==
  ASSUME NEW S, S \subseteq Days, NEW n \in Nat
  PROVE  Cardinality(LastOf(S, n)) < n <=> Cardinality(S) < n
<1> DEFINE L == LastOf(S, n)
<1>1. L \subseteq S /\ \A x \in S : x \in L <=> Cardinality({e \in S : e > x}) < n
  BY LastOfIs
<1> HIDE DEF L
<1>2. /\ IsFiniteSet(S) /\ Cardinality(S) \in Nat
      /\ IsFiniteSet(L) /\ Cardinality(L) \in Nat /\ Cardinality(L) <= Cardinality(S)
  BY <1>1, DaySetFinite, FS_Subset
<1>3. CASE S \ L # {}
  <2> DEFINE x == Max(S \ L)
  <2>1. x \in S \ L /\ \A y \in S \ L : y <= x
    BY <1>3, Greatest
  <2> HIDE DEF x
  <2> DEFINE later == {e \in S : e > x}
  <2>2. later \subseteq L
    BY <2>1, DayTyped
  <2>3. Cardinality(later) \in Nat /\ ~(Cardinality(later) < n)
    <3>1. later \subseteq Days
      OBVIOUS
    <3>2. ~(Cardinality(later) < n)
      BY <1>1, <2>1
    <3> HIDE DEF later
    <3> QED
      BY <3>1, <3>2, DaySetFinite
  <2> HIDE DEF later
  <2>4. Cardinality(later) <= Cardinality(L)
    BY <1>2, <2>2, FS_Subset
  <2>5. Cardinality(L) >= n /\ Cardinality(S) >= n
    BY <1>2, <2>3, <2>4
  <2> QED
    BY <1>2, <2>5 DEF L
<1>4. CASE S \ L = {}
  <2>1. L = S
    BY <1>1, <1>4
  <2> QED
    BY <2>1 DEF L
<1> QED
  BY <1>3, <1>4

LEMMA AdjustedDays ==
  ASSUME TypeOK, Bounded, NEW s \in Isins
  PROVE  /\ DOMAIN adjusted[s] \subseteq Days
         /\ \A d \in DOMAIN adjusted[s] : d \in Nat /\ d >= 1 /\ d <= today
  BY DayTyped DEF TypeOK, Bounded, Days

(* In a chunk, with the rows that are read back, each row has the same     *)
(* rows for its average as in the whole series.                            *)
LEMMA SameWindow ==
  ASSUME TypeOK, Bounded, NEW s \in Isins, NEW start \in Nat, NEW end \in Int,
         NEW d \in Inside(s, start, end)
  PROVE  LastOf({e \in Inside(s, start, end) \cup Lookback(s, start) : e <= d}, Window) =
           LastOf(Before(adjusted[s], d + 1), Window)
<1> DEFINE A == DOMAIN adjusted[s]
<1> DEFINE S == Before(adjusted[s], d + 1)
<1> DEFINE B == Before(adjusted[s], start)
<1> DEFINE back == LastOf(B, Window - 1)
<1> DEFINE R == {e \in Inside(s, start, end) \cup back : e <= d}
<1>1. A \subseteq Days /\ \A x \in A : x \in Nat
  BY AdjustedDays
<1>2. d \in A /\ start <= d /\ d <= end /\ d \in Nat
  BY <1>1 DEF Inside
<1>3. S = {e \in A : e <= d} /\ B = {e \in A : e < start}
  BY <1>1, <1>2 DEF Before
<1>4. S \subseteq Days /\ B \subseteq S /\ d \in S /\ d \notin B
  BY <1>1, <1>2, <1>3
<1>5. R = {e \in S : start <= e \/ e \in back}
  <2>1. back \subseteq B
    BY LastOfIs
  <2>2. Inside(s, start, end) = {e \in A : start <= e /\ e <= end}
    BY DEF Inside
  <2> HIDE DEF back, B, S, A
  <2>3. \A x \in A : x <= d => x <= end
    BY <1>1, <1>2
  <2>4. \A x : x \in R <=> x \in S /\ (start <= x \/ x \in back)
    BY <1>3, <1>4, <2>1, <2>2, <2>3
  <2> HIDE DEF R
  <2> QED
    BY <2>4
<1> HIDE DEF A, S, B, R
<1>6. \A x \in S : x \in Nat /\ (x >= start \/ x \in B)
  BY <1>1, <1>3
<1>7. \A x \in B : /\ x \in back <=> Cardinality({e \in B : e > x}) < Window - 1
                   /\ Cardinality({e \in B : e > x}) \in Nat
  <2> TAKE x \in B
  <2>1. {e \in B : e > x} \subseteq Days
    BY <1>4
  <2> QED
    BY <2>1, LastOfIs, DaySetFinite
<1>8. ASSUME NEW x \in R, NEW y \in S, y > x
      PROVE  y \in R
  <2>1. CASE y >= start
    BY <1>5, <2>1
  <2>2. CASE y \in B
    <3>1. x \in B /\ x \in back
      BY <1>3, <1>5, <1>6, <1>8, <2>2, LastOfIs
    <3> DEFINE X == {e \in B : e > x}
    <3> DEFINE Y == {e \in B : e > y}
    <3>2. Y \subseteq X /\ X \subseteq Days
      BY <1>4, <1>6, <1>8, <2>2, <3>1
    <3>3. Cardinality(X) < Window - 1 /\ Cardinality(X) \in Nat /\ Cardinality(Y) \in Nat
      BY <1>7, <2>2, <3>1
    <3>4. y \in back <=> Cardinality(Y) < Window - 1
      BY <1>7, <2>2
    <3> HIDE DEF X, Y
    <3>5. Cardinality(Y) <= Cardinality(X)
      BY <3>2, DaySetFinite, FS_Subset
    <3>6. y \in back
      BY <3>3, <3>4, <3>5, LengthsTyped
    <3> QED
      BY <1>5, <3>6
  <2> QED
    BY <1>6, <2>1, <2>2
<1>9. ASSUME NEW x \in LastOf(S, Window)
      PROVE  x \in R
  <2>1. x \in S /\ Cardinality({e \in S : e > x}) < Window
    BY LastOfIs
  <2>2. CASE x \in B
    <3> DEFINE X == {e \in B : e > x}
    <3> DEFINE Y == {e \in S : e > x}
    <3>1. X \cup {d} \subseteq Y /\ d \notin X /\ Y \subseteq Days /\ X \subseteq Days
      BY <1>1, <1>2, <1>3, <1>4, <2>2
    <3>2. Cardinality(Y) < Window
      BY <2>1
    <3>3. x \in back <=> Cardinality(X) < Window - 1
      BY <1>7, <2>2
    <3> HIDE DEF X, Y
    <3>4. /\ Cardinality(X \cup {d}) = Cardinality(X) + 1
          /\ Cardinality(X) \in Nat /\ Cardinality(Y) \in Nat
      BY <3>1, DaySetFinite, FS_AddElement
    <3>5. Cardinality(X \cup {d}) <= Cardinality(Y)
      BY <3>1, DaySetFinite, FS_Subset
    <3>6. x \in back
      BY <3>2, <3>3, <3>4, <3>5, LengthsTyped
    <3> QED
      BY <1>5, <2>1, <3>6
  <2>3. CASE x >= start
    BY <1>5, <2>1, <2>3
  <2> QED
    BY <1>6, <2>1, <2>2, <2>3
<1>10. R \subseteq S
  BY <1>5
<1>11. LastOf(R, Window) = LastOf(S, Window)
  BY <1>8, <1>9, <1>10, LastOfEnd
<1> QED
  BY <1>11 DEF R, S, B, Lookback

LEMMA AveragedIs ==
  ASSUME TypeOK, Bounded, NEW s \in Isins, NEW start \in Nat, NEW end \in Int,
         NEW d \in Inside(s, start, end)
  PROVE  Averaged(s, start, end)[d] = AverageOf(adjusted[s], d)
<1> DEFINE S == Before(adjusted[s], d + 1)
<1> DEFINE T == LastOf({e \in Inside(s, start, end) \cup Lookback(s, start) : e <= d}, Window)
<1>1. T = LastOf(S, Window)
  BY SameWindow
<1>2. Averaged(s, start, end)[d] = IF Cardinality(T) < Window THEN None
                                   ELSE {adjusted[s][e].close : e \in T}
  BY DEF Averaged, Inside
<1>3. AverageOf(adjusted[s], d) =
        IF Cardinality(S) < Window THEN None
        ELSE {adjusted[s][e].close : e \in LastOf(S, Window)}
  BY DEF AverageOf
<1>4. S \subseteq Days
  BY AdjustedDays DEF Before
<1> HIDE DEF S, T
<1>5. Cardinality(LastOf(S, Window)) < Window <=> Cardinality(S) < Window
  BY <1>4, LengthsTyped, FewerLast
<1> QED
  BY <1>1, <1>2, <1>3, <1>5

(* No step but that of a chunk brings the walk on. *)
LEMMA OnlyMaChunk ==
  ASSUME [Next]_vars, ~MaChunk, pc' = "ma"
  PROVE  at' = 1 \/ (pc = "ma" /\ at' = at /\ adjusted' = adjusted)
<1>1. CASE StartCycle \/ AdjustDone \/ Rsi \/ Crash \/ NewDay
  BY <1>1 DEF StartCycle, AdjustDone, Rsi, Crash, NewDay
<1>2. CASE AdjustBatch
  BY <1>2, BatchIs
<1>3. CASE RollUp
  BY <1>3, RollUpIs
<1>4. CASE (\E a \in Actions : Match(a)) \/ (\E m \in Migrations : AddLineage(m))
  BY <1>4 DEF Match, AddLineage, tables
<1>5. CASE UNCHANGED vars
  BY <1>5 DEF vars, tables
<1> QED
  BY <1>1, <1>2, <1>3, <1>4, <1>5 DEF Next

LEMMA AveragingStep ==
  ASSUME TypeOK, Bounded, Planned, Averaging, [Next]_vars
  PROVE  Averaging'
<1> SUFFICES ASSUME NEW s \in Isins, NEW d \in DOMAIN adjusted'[s],
                    (pc' = "ma" /\ d < at') \/ "ma" \in fresh'
             PROVE  d \in DOMAIN ma'[s] /\ ma'[s][d] = AverageOf(adjusted'[s], d)
  BY DEF Averaging, IsAveraged
<1>1. d \in Nat /\ d >= 1
  <2>1. d \in 1 .. today /\ today \in Days
    BY AdjustedStep DEF TypeOK
  <2> QED
    BY <2>1, DayTyped
<1>2. CASE ~MaChunk
  <2>1. ma' = ma
    BY <1>2, Changes
  <2>2. adjusted' = adjusted /\ ((pc = "ma" /\ d < at) \/ "ma" \in fresh)
    <3>1. CASE "ma" \in fresh'
      BY <1>2, <3>1, StaysFresh
    <3>2. CASE pc' = "ma" /\ d < at'
      BY <1>1, <1>2, <3>2, OnlyMaChunk
    <3> QED
      BY <3>1, <3>2
  <2> QED
    BY <2>1, <2>2 DEF Averaging, IsAveraged
<1>3. CASE MaChunk
  <2>1. /\ adjusted' = adjusted /\ pc = "ma" /\ ChunkEnd \in Int /\ ChunkEnd <= today
        /\ at \in Nat /\ today \in Nat /\ d \in DOMAIN adjusted[s] /\ d <= today
    <3>1. adjusted' = adjusted /\ pc = "ma" /\ ChunkEnd \in Int /\ ChunkEnd <= today
      BY <1>3, MaChunkIs
    <3>2. \A n \in 1 .. LastDay + ChunkDays : n \in Nat
      BY DayTyped, LengthsTyped
    <3> QED
      BY <3>1, <3>2, AdjustedDays, DayTyped DEF TypeOK
  <2>2. CASE d \in Inside(s, at, ChunkEnd)
    <3>1. ma'[s][d] = Averaged(s, at, ChunkEnd)[d] /\ d \in DOMAIN ma'[s]
      BY <1>3, <2>2, MaChunkIs
    <3>2. Averaged(s, at, ChunkEnd)[d] = AverageOf(adjusted[s], d)
      BY <2>1, <2>2, AveragedIs
    <3> QED
      BY <2>1, <3>1, <3>2
  <2>3. CASE d \notin Inside(s, at, ChunkEnd)
    <3>1. d < at \/ d > ChunkEnd
      BY <1>1, <2>1, <2>3 DEF Inside
    <3>2. IF ChunkEnd < today
          THEN at' = ChunkEnd + 1 /\ UNCHANGED <<pc, fresh>>
          ELSE at' = 1 /\ pc' = "idle" /\ fresh' = fresh \cup {"ma"}
      BY <1>3, MaChunkIs
    <3>3. d < at \/ "ma" \in fresh
      BY <1>1, <2>1, <3>1, <3>2
    <3>4. d \in DOMAIN ma[s] /\ ma[s][d] = AverageOf(adjusted[s], d)
      BY <2>1, <3>3 DEF Averaging, IsAveraged
    <3>5. d \in DOMAIN ma'[s] /\ ma'[s][d] = ma[s][d]
      BY <1>3, <2>3, <3>4, MaChunkIs
    <3> QED
      BY <2>1, <3>4, <3>5
  <2> QED
    BY <2>2, <2>3
<1> QED
  BY <1>2, <1>3

LEMMA AverageFollows ==
  ASSUME TypeOK, Averaging
  PROVE  AverageOfLastRows
<1> SUFFICES ASSUME "ma" \in fresh, NEW s \in Isins
             PROVE  /\ DOMAIN ma[s] = DOMAIN adjusted[s]
                    /\ \A d \in DOMAIN ma[s] : ma[s][d] = AverageOf(adjusted[s], d)
  BY DEF AverageOfLastRows, AverageOf
<1>1. DOMAIN ma[s] \subseteq DOMAIN adjusted[s]
  BY TypeOKParts DEF TypedWorkbooks
<1> QED
  BY <1>1 DEF Averaging, IsAveraged

-----------------------------------------------------------------------------
(* The invariant, and what follows from it.                                *)

LEMMA InitIInv == Init => IInv
<1> SUFFICES ASSUME Init PROVE IInv
  OBVIOUS
<1>1. today = LastDay - 1 /\ today \in Days /\ today \in Nat
  BY DayTyped DEF Init, Days
<1>2. /\ plan = [lineage |-> lineage, batches |-> << >>]
      /\ lineage = [i \in Isins |-> None] /\ lineage \in Lineages
  BY DEF Init, Lineages
<1>3. /\ \A s \in Isins : DOMAIN adjusted[s] = {} /\ DOMAIN weekly[s] = {}
      /\ \A s \in Isins : DOMAIN rsi[s] = {} /\ DOMAIN ma[s] = {}
  BY DEF Init
<1>4. pc = "idle" /\ fresh = {} /\ at = 1 /\ cycles = 0 /\ faults = 0
  BY DEF Init
<1>5. TypedWorld
  <2>1. raw \in [Isins -> SUBSET (1 .. today)]
    BY <1>1, PriceSeriesAssumption DEF Init, PriceSeriesAssumption
  <2>2. calendar \subseteq Days /\ matched \subseteq Actions
    BY DEF Init
  <2> QED
    BY <1>1, <1>2, <2>1, <2>2 DEF TypedWorld
<1>6. TypedAdjusted /\ TypedWeekly /\ TypedWorkbooks
  BY <1>3 DEF TypedAdjusted, TypedWeekly, TypedWorkbooks
<1>7. TypedPlan /\ Planned
  <2>1. plan.batches = << >> /\ plan.lineage = lineage /\ << >> \in Seq(SUBSET Isins)
    BY <1>2
  <2> QED
    BY <1>2, <2>1 DEF TypedPlan, Planned, Lineages
<1>8. TypedControl
  BY <1>4, DayTyped, LengthsTyped, PriceSeriesAssumption
  DEF TypedControl, PriceSeriesAssumption
<1>9. TypeOK
  BY <1>5, <1>6, <1>7, <1>8, TypeOKParts
<1>10. Bounded
  BY <1>3, <1>4 DEF Bounded
<1>11. WholeBatches /\ Rebuilding /\ UnbrokenSeries /\ Walked
  BY <1>4 DEF WholeBatches, Rebuilding, UnbrokenSeries, Walked
<1>12. OwnDays /\ RollingUp /\ Averaging
  BY <1>3 DEF OwnDays, RollingUp, Averaging, Current
<1> QED
  BY <1>7, <1>9, <1>10, <1>11, <1>12 DEF IInv

LEMMA IInvParts ==
  IInv <=> /\ TypeOK /\ Bounded /\ Planned
           /\ WholeBatches /\ Rebuilding /\ OwnDays /\ UnbrokenSeries
           /\ RollingUp /\ Walked /\ Averaging
  BY DEF IInv

LEMMA NextIInv == IInv /\ [Next]_vars => IInv'
<1> SUFFICES ASSUME IInv, [Next]_vars PROVE IInv'
  OBVIOUS
<1> USE IInvParts
<1>1. TypeOK' /\ Bounded' /\ Planned'
  BY TypeStep
<1>2. WholeBatches' /\ Rebuilding'
  BY WholeBatchesStep, RebuildingStep
<1>3. OwnDays' /\ UnbrokenSeries'
  BY OwnDaysStep, UnbrokenStep
<1>4. RollingUp' /\ Walked' /\ Averaging'
  BY RollingUpStep, WalkedStep, AveragingStep
<1> QED
  BY <1>1, <1>2, <1>3, <1>4 DEF IInv

(* The invariant holds in every state: what is behind a walk is final,     *)
(* wherever the cycles before it were broken off.                          *)
THEOREM SpecIInv == Spec => []IInv
<1>1. Init => IInv
  BY InitIInv
<1>2. IInv /\ [Next]_vars => IInv'
  BY NextIInv
<1> QED
  BY <1>1, <1>2, PTL DEF Spec

(* The tables hold rows of days that have come, each close under its own   *)
(* day and week, and the workbooks no row the series does not have.        *)
THEOREM SpecTypeOK == Spec => []TypeOK
<1>1. IInv => TypeOK
  BY IInvParts
<1> QED
  BY <1>1, SpecIInv, PTL

(* A rebuild that went through leaves one unbroken series for each         *)
(* security, over all its ISINs, however the batches were cut and whatever *)
(* identities and actions earlier rebuilds went by.                        *)
THEOREM SpecUnbrokenSeries == Spec => []UnbrokenSeries
<1>1. IInv => UnbrokenSeries
  BY IInvParts
<1> QED
  BY <1>1, SpecIInv, PTL

(* The weeks, taken one by one, are the weeks of the whole series.         *)
THEOREM SpecWeeksChained == Spec => []WeeksChained
<1>1. IInv => WeeksChained
  BY IInvParts, WeeksFollow
<1> QED
  BY <1>1, SpecIInv, PTL

(* An RSI is over all rows since the last gap of sessions, at least        *)
(* RsiPeriod of them, and none before it.                                  *)
THEOREM SpecWalkSinceGap == Spec => []WalkSinceGap
<1>1. IInv => WalkSinceGap
  BY IInvParts, WalkFollows
<1> QED
  BY <1>1, SpecIInv, PTL

(* Cut into chunks of days, the moving average is that of the whole        *)
(* series, for every window and every length of a chunk.                   *)
THEOREM SpecAverageOfLastRows == Spec => []AverageOfLastRows
<1>1. IInv => AverageOfLastRows
  BY IInvParts, AverageFollows
<1> QED
  BY <1>1, SpecIInv, PTL

=============================================================================
