-------------------------- MODULE PipelineProofs --------------------------
(***************************************************************************)
(* Proofs about Pipeline, for every calendar, every set of batches, every  *)
(* length of a period and every number of failures and kills.  What the    *)
(* metadata promises rests on the order of the walks: a walk goes through  *)
(* the days, batches or periods from the oldest on and ends where it       *)
(* fails, so whatever is recorded has nothing missing before it.           *)
(***************************************************************************)
EXTENDS Pipeline, FiniteSetTheorems, WellFoundedInduction, TLAPS

-----------------------------------------------------------------------------
(* The inductive invariant, in parts.                                      *)

Walks == {"download", "actions", "adjust"} \cup Rollups
InCycle == step # "idle"

(* Rows by day, or by period: functions on a set of days. *)
Table(V) == UNION {[D -> V] : D \in SUBSET Days}

(* The tables are tables, whatever batch and period. *)
Shape ==
  /\ adjusted \in [Exchanges -> [Batches -> Table(SUBSET ActionDates)]]
  /\ rolled \in [Rollups -> [Exchanges -> [Days ->
                   [Batches -> Table(SUBSET ActionDates)]]]]
  /\ DOMAIN workbook = Indicators
  /\ \A i \in Indicators : DOMAIN workbook[i] = Exchanges

(* Where the process is, between two of its transactions. *)
Control ==
  /\ InCycle => latest \in TradingDays
  /\ step \in Walks => todo \in {Exchanges, {"BSE"}}
  /\ at = "work" => step \in {"adjust"} \cup Rollups
  /\ walked # 0 => step = "download"
  /\ InCycle => walked < latest
  /\ step \in Rollups /\ at = "work" =>
       period \in Periods(step) /\ period <= latest

(* Nothing is dated later than the last cycle's day. *)
NotAhead ==
  \A e \in Exchanges :
    /\ \A d \in raw[e] : d <= latest
    /\ freshness[e] # 0 => freshness[e] \in raw[e]
    /\ adjusted_to[e] # 0 => adjusted_to[e] \in raw[e]

(* The walk of an exchange leaves no day behind but those not found. *)
NoHole ==
  /\ \A e \in Exchanges : \A d \in raw[e] : \A t \in TradingDays :
       t < d => t \in raw[e] \cup missed[e]
  /\ step = "download" =>
       \A t \in TradingDays : freshness[Current] < t /\ t <= walked =>
         t \in raw[Current] \cup missed[Current]

(* Nothing is stored of an exchange between the reading of its freshness   *)
(* and the beginning of its walk.                                          *)
FreshToWalk ==
  step = "download" => \A e \in todo \ {Current} : freshness[e] \in {0, LastPersisted(e)}

(* A batch that is behind the walk of STEP 4 is rebuilt. *)
Rebuilding ==
  step = "adjust" /\ at = "work" =>
    \A b \in Batches \ left : adjusted[Current][b] = Rebuilt(Current)

(* Days the metadata of STEP 4 speaks for are in every batch.              *)
Complete ==
  \A e \in Exchanges, b \in Batches :
    {d \in raw[e] \ missed[e] : d <= adjusted_to[e]} \subseteq DOMAIN adjusted[e][b]

(* A derived table has no row that what it is computed from does not have. *)
Within ==
  /\ \A r \in Rollups, e \in Exchanges, p \in Days, b \in Batches :
       DOMAIN rolled[r][e][p][b]
         \subseteq DOMAIN adjusted[e][b] \cap p .. PeriodEnd(r, p)
  /\ \A i \in Indicators, e \in Exchanges, b \in Batches :
       DOMAIN workbook[i][e][b] \subseteq DOMAIN Source(i, e)[b]

(* A period that is recorded, or behind the walk of STEPS 5 and 6, and all *)
(* before it have been rolled up.                                          *)
Recorded ==
  \A r \in Rollups, e \in Exchanges, q \in Days : rolled_to[r][e][q] # 0 =>
    /\ q \in Periods(r) /\ rolled_to[r][e][q] < q + Length(r)
    /\ \A p \in Periods(r) : p <= q => rolled[r][e][p] # NoRows
RollingUp ==
  step \in Rollups /\ at = "work" =>
    \A p \in Periods(step) : p < period => rolled[step][Current][p] # NoRows

(* An indicator that is being computed was due. *)
StillDue ==
  \A i \in Indicators :
    /\ \A d \in open_failures[i] : d <= latest
    /\ runner[i] \in {"queued", "NSE", "BSE", "record"} => iwm[i] < latest

(* A step is over for an exchange. *)
After ==
  [adjust |-> {"week", "month", "activate", "run", "end"},
   week   |-> {"month", "activate", "run", "end"},
   month  |-> {"activate", "run", "end"}]
Over(s, e) == step \in After[s] \/ (step = s /\ e \notin todo)

Good == clean /\ (\A e \in Exchanges : Gap(e)) /\ ~EmptyPeriod

IsRebuilt(e) == adjusted[e] = [b \in Batches |-> Rebuilt(e)]
IsRolledUp(r, e, p) == rolled[r][e][p] = DailyRows(e, p, PeriodEnd(r, p))
IsComputed(i, e) == workbook[i][e] = Source(i, e)

(* What a cycle without a failure has done so far, step by step. *)
GoodAdjust == Good => \A e \in Exchanges : Over("adjust", e) => IsRebuilt(e)
GoodRollup ==
  Good =>
    \A r \in Rollups, e \in Exchanges : \A p \in Periods(r) :
      (\/ Over(r, e) /\ p <= latest
       \/ step = r /\ Current = e /\ at = "work" /\ p < period)
        => IsRolledUp(r, e, p)
GoodActivate ==
  clean /\ InCycle /\ step \notin {"run", "end"} =>
    \A i \in Indicators, e \in Exchanges, b \in Batches :
      \A d \in DOMAIN workbook[i][e][b] : d <= freshness[e]
GoodRun ==
  Good /\ step \in {"run", "end"} =>
    \A i \in Indicators :
      /\ runner[i] # "off"
      /\ runner[i] \in {"BSE", "record", "clean", "done"} => IsComputed(i, "NSE")
      /\ runner[i] \in {"record", "clean", "done"} => IsComputed(i, "BSE")
      /\ step = "end" => runner[i] = "done"

IInv ==
  /\ TypeOK /\ Shape /\ Control /\ NotAhead /\ FreshToWalk
  /\ NoHole /\ Rebuilding /\ Complete
  /\ Within /\ Recorded /\ RollingUp
  /\ IndicatorNotAhead /\ StillDue /\ OpenFailureIsDue
  /\ GoodAdjust /\ GoodRollup /\ GoodActivate /\ GoodRun

-----------------------------------------------------------------------------
(* Days, and the first and the last of a set of them.                      *)

LEMMA DayTyped ==
  /\ LastDay \in Nat /\ TradingDays \subseteq Days
  /\ \A d \in Days : d \in Nat /\ 1 <= d /\ d <= LastDay
  /\ \A d \in 0 .. LastDay : d \in Nat
  BY PipelineAssumption DEF PipelineAssumption, Days

LEMMA LengthTyped ==
  ASSUME NEW r \in Rollups PROVE Length(r) \in Nat /\ Length(r) > 0
  BY PipelineAssumption DEF PipelineAssumption, Length

LEMMA Names ==
  /\ Exchanges = {"NSE", "BSE"} /\ Rollups = {"week", "month"}
  /\ Indicators = {"daily", "week", "month"}
  BY DEF Exchanges, Rollups, Indicators

LEMMA Least ==
  ASSUME NEW S, S \subseteq Nat, S # {}
  PROVE  /\ Min(S) \in S /\ \A y \in S : Min(S) <= y
<1>1. IsWellFoundedOn(OpToRel(<, Nat), Nat)
  BY NatLessThanWellFounded
<1>2. PICK x \in S : \A y \in S : <<y, x>> \notin OpToRel(<, Nat)
  BY <1>1, WFMin
<1>3. \A y \in S : ~(y < x)
  BY <1>2 DEF OpToRel
<1>4. \A y \in S : x <= y
  BY <1>3
<1> QED
  BY <1>4 DEF Min

LEMMA Greatest ==
  ASSUME NEW n \in Nat, NEW S, S \subseteq 0 .. n, S # {}
  PROVE  Max(S) \in S /\ \A y \in S : y <= Max(S)
<1> DEFINE T == {n - y : y \in S}
<1>1. T \subseteq Nat /\ T # {}
  <2>1. \A y \in S : n - y \in Nat
    OBVIOUS
  <2> QED
    BY <2>1
<1>2. PICK t \in T : \A z \in T : t <= z
  <2> HIDE DEF T
  <2> QED
    BY <1>1, Least
<1>3. PICK x \in S : t = n - x
  BY <1>2
<1>4. \A y \in S : x >= y
  <2> TAKE y \in S
  <2>1. n - x <= n - y
    BY <1>2, <1>3
  <2>2. x \in Int /\ y \in Int
    OBVIOUS
  <2> QED
    BY <2>1, <2>2
<1>5. Max(S) \in S /\ \A y \in S : Max(S) >= y
  BY <1>4 DEF Max
<1>6. \A y \in S : y \in Int
  OBVIOUS
<1> QED
  BY <1>5, <1>6

(* None is 0: the last day of an empty table. *)
LEMMA LastIs ==
  ASSUME NEW S, S \subseteq 0 .. LastDay
  PROVE  /\ Last(S) \in S \cup {0} /\ Last(S) \in 0 .. LastDay
         /\ \A d \in S : d <= Last(S)
<1>1. S \cup {0} \subseteq 0 .. LastDay /\ S \cup {0} # {}
  BY DayTyped
<1> QED
  BY <1>1, DayTyped, Greatest DEF Last

LEMMA LeastOfTwo ==
  ASSUME NEW a \in Int, NEW b \in Int
  PROVE  Min({a, b}) = IF a <= b THEN a ELSE b
  BY DEF Min

LEMMA PeriodEndIs ==
  ASSUME NEW r \in Rollups, NEW p \in Days, latest \in {0} \cup TradingDays
  PROVE  /\ PeriodEnd(r, p) =
              IF p + Length(r) - 1 <= latest THEN p + Length(r) - 1 ELSE latest
         /\ PeriodEnd(r, p) \in 0 .. LastDay /\ PeriodEnd(r, p) < p + Length(r)
         /\ PeriodEnd(r, p) <= latest
<1>1. p + Length(r) - 1 \in Nat /\ latest \in 0 .. LastDay
  BY DayTyped, LengthTyped
<1>2. PeriodEnd(r, p) = IF p + Length(r) - 1 <= latest THEN p + Length(r) - 1 ELSE latest
  BY <1>1, LeastOfTwo DEF PeriodEnd
<1>3. p \in Nat /\ Length(r) \in Nat /\ Length(r) > 0
  BY DayTyped, LengthTyped
<1> QED
  BY <1>1, <1>2, <1>3, DayTyped

-----------------------------------------------------------------------------
(* Periods: the first days of the multiples of a length.                   *)

LEMMA Quotient ==
  ASSUME NEW n \in Nat, n > 0, NEW a \in Nat
  PROVE  a \div n \in Nat /\ a % n \in 0 .. n - 1 /\ a = n * (a \div n) + (a % n)
<1>1. a = n * (a \div n) + (a % n)
  OBVIOUS
<1>2. a \div n \in Nat
  OBVIOUS
<1>3. a % n \in 0 .. n - 1
  OBVIOUS
<1> QED
  BY <1>1, <1>2, <1>3

LEMMA Remainder ==
  ASSUME NEW n \in Nat, n > 0, NEW q \in Nat, NEW r \in 0 .. n - 1,
         NEW a \in Nat, a = n * q + r
  PROVE  a % n = r
  BY Z3

LEMMA Multiples ==
  ASSUME NEW n \in Nat, n > 0, NEW a \in Nat, NEW b \in Nat,
         a % n = 0, b % n = 0, a < b + n
  PROVE  a <= b
<1> DEFINE j == a \div n
<1> DEFINE k == b \div n
<1>1. j \in Nat /\ k \in Nat /\ a = n * j /\ b = n * k
  BY Quotient
<1> HIDE DEF j, k
<1>2. CASE j > k
  <2>1. PICK d \in Nat : j = k + 1 + d
    <3>1. j - k - 1 \in Nat
      BY <1>1, <1>2
    <3> QED
      BY <1>1, <3>1
  <2>2. n * j = n * k + n + n * d /\ n * d >= 0
    BY <1>1, <2>1
  <2> QED
    BY <1>1, <2>2
<1>3. CASE j <= k
  <2>1. PICK d \in Nat : k = j + d
    <3>1. k - j \in Nat
      BY <1>1, <1>3
    <3> QED
      BY <1>1, <3>1
  <2>2. n * k = n * j + n * d /\ n * d >= 0
    BY <1>1, <2>1
  <2> QED
    BY <1>1, <2>2
<1> QED
  BY <1>1, <1>2, <1>3

LEMMA NextMultiple ==
  ASSUME NEW n \in Nat, n > 0, NEW a \in Nat, a % n = 0
  PROVE  (a + n) % n = 0
<1> DEFINE q == a \div n
<1>1. q \in Nat /\ a = n * q
  BY Quotient
<1> HIDE DEF q
<1>2. a + n = n * (q + 1) + 0 /\ q + 1 \in Nat /\ 0 \in 0 .. n - 1 /\ a + n \in Nat
  BY <1>1
<1> QED
  BY <1>2, Remainder

LEMMA PeriodIs ==
  ASSUME NEW r \in Rollups, NEW p \in Days
  PROVE  p \in Periods(r) <=> (p - 1) % Length(r) = 0
<1> DEFINE m == (p - 1) % Length(r)
<1>1. p - 1 \in Nat /\ p \in Nat
  BY DayTyped
<1>2. m \in 0 .. Length(r) - 1
  BY <1>1, LengthTyped, Quotient
<1>3. p \in Periods(r) <=> p - m = p
  BY DEF Periods, PeriodStart
<1>4. m \in Int
  BY <1>2, LengthTyped
<1> HIDE DEF m
<1>5. p - m = p <=> m = 0
  BY <1>1, <1>4
<1> QED
  BY <1>3, <1>5 DEF m

(* No period begins inside another one. *)
LEMMA PeriodsApart ==
  ASSUME NEW r \in Rollups, NEW p \in Periods(r), NEW q \in Periods(r),
         p < q + Length(r)
  PROVE  p <= q
<1>1. p \in Days /\ q \in Days
  BY DEF Periods
<1>2. (p - 1) % Length(r) = 0 /\ (q - 1) % Length(r) = 0
  BY <1>1, PeriodIs
<1>3. p - 1 \in Nat /\ q - 1 \in Nat /\ Length(r) \in Nat /\ Length(r) > 0
  BY <1>1, DayTyped, LengthTyped
<1>4. p - 1 < q - 1 + Length(r)
  BY <1>1, <1>3, DayTyped
<1>5. p - 1 <= q - 1
  BY <1>2, <1>3, <1>4, Multiples
<1> QED
  BY <1>1, <1>5, DayTyped

LEMMA FirstPeriodIs ==
  ASSUME NEW r \in Rollups PROVE 1 \in Periods(r)
<1>1. 1 \in Days
  BY PipelineAssumption DEF PipelineAssumption
<1>2. 0 = Length(r) * 0 + 0 /\ 0 \in 0 .. Length(r) - 1
  BY LengthTyped
<1>3. (1 - 1) % Length(r) = 0
  BY <1>2, LengthTyped, Remainder
<1> QED
  BY <1>1, <1>3, PeriodIs

LEMMA NextPeriodIs ==
  ASSUME NEW r \in Rollups, NEW p \in Periods(r), p + Length(r) <= LastDay
  PROVE  p + Length(r) \in Periods(r)
<1>1. p \in Days /\ p \in Nat /\ p >= 1 /\ Length(r) \in Nat /\ Length(r) > 0
  BY DayTyped, LengthTyped DEF Periods
<1>2. p + Length(r) \in Days
  BY <1>1, DayTyped DEF Days
<1> DEFINE m == p - 1
<1>3. m \in Nat /\ m % Length(r) = 0
  BY <1>1, PeriodIs
<1>4. p + Length(r) - 1 = m + Length(r)
  BY <1>1
<1> HIDE DEF m
<1>5. (m + Length(r)) % Length(r) = 0
  BY <1>1, <1>3, NextMultiple
<1> DEFINE q == p + Length(r)
<1>6. q \in Days /\ q - 1 = m + Length(r)
  BY <1>1, <1>2, <1>3, <1>4
<1> HIDE DEF q
<1>7. (q - 1) % Length(r) = 0
  BY <1>5, <1>6, Zenon
<1>8. q \in Periods(r)
  BY <1>6, <1>7, PeriodIs
<1> QED
  BY <1>8 DEF q

-----------------------------------------------------------------------------
(* The walks from exchange to exchange and from day to day.                *)

LEMMA CurrentTyped ==
  /\ Current \in Exchanges
  /\ todo \in {Exchanges, {"BSE"}} => Current \in todo
  BY DEF Current, Exchanges

LEMMA TwoExchanges ==
  /\ Cardinality(Exchanges) = 2 /\ Cardinality({"BSE"}) = 1
<1>1. IsFiniteSet({"BSE"}) /\ Cardinality({"BSE"}) = 1
  BY FS_Singleton
<1>2. Cardinality({"BSE"} \cup {"NSE"}) = 2
  BY <1>1, FS_AddElement
<1>3. Exchanges = {"BSE"} \cup {"NSE"}
  BY DEF Exchanges
<1> QED
  BY <1>1, <1>2, <1>3

(* The step ends for the current exchange: NSE is before BSE. *)
LEMMA NextExchangeIs ==
  ASSUME Control, step \in Walks, NextExchange
  PROVE  /\ at' = "gate" /\ walked' = 0 /\ left' = {} /\ period' = 0
         /\ runner' = runner
         /\ \/ /\ todo = Exchanges /\ Current = "NSE" /\ todo' = {"BSE"}
               /\ step' = step
            \/ /\ todo = {"BSE"} /\ Current = "BSE" /\ step' = StepAfter[step]
               /\ todo' = IF step = "month" THEN {} ELSE Exchanges
<1>1. todo \in {Exchanges, {"BSE"}}
  BY DEF Control
<1>2. CASE todo = Exchanges
  <2>1. Cardinality(todo) > 1
    BY <1>2, TwoExchanges
  <2>2. todo \ {Current} = {"BSE"} /\ Current = "NSE"
    BY <1>2 DEF Current, Exchanges
  <2> QED
    BY <1>2, <2>1, <2>2 DEF NextExchange
<1>3. CASE todo = {"BSE"}
  <2>1. ~(Cardinality(todo) > 1)
    BY <1>3, TwoExchanges
  <2>2. Current = "BSE"
    BY <1>3 DEF Current
  <2> QED
    BY <1>3, <2>1, <2>2 DEF NextExchange
<1> QED
  BY <1>1, <1>2, <1>3

LEMMA StepAfterIs ==
  /\ StepAfter["download"] = "actions" /\ StepAfter["actions"] = "adjust"
  /\ StepAfter["adjust"] = "week" /\ StepAfter["week"] = "month"
  /\ StepAfter["month"] = "activate"
  BY DEF StepAfter

(* The day that is asked for is the first after those dealt with. *)
LEMMA DayIs ==
  ASSUME TypeOK, Control, step = "download", Gap(Current),
         NEW d, d = Min(PendingDays(Current))
  PROVE  /\ d \in TradingDays /\ freshness[Current] < d /\ walked < d /\ d <= latest
         /\ d \in PendingDays(Current)
         /\ \A t \in TradingDays : freshness[Current] < t /\ t < d => t <= walked
         /\ PendingDays(Current) # {d} => d < latest
<1> DEFINE e == Current
<1>1. e \in Exchanges /\ freshness[e] \in 0 .. LastDay /\ walked \in 0 .. LastDay
  BY CurrentTyped, DayTyped DEF TypeOK
<1>2. latest \in TradingDays /\ walked < latest /\ freshness[e] < latest
  BY DEF Control, InCycle, Gap
<1> HIDE DEF e
<1>3. \A t \in TradingDays : t \in Nat
  BY DayTyped
<1>4. \A t : t \in PendingDays(e) <=>
        t \in TradingDays /\ freshness[e] < t /\ t <= latest /\ walked < t
  <2>1. \A t \in TradingDays : IncrementalStart(e) <= t <=> freshness[e] < t
    BY <1>1, <1>3 DEF IncrementalStart
  <2>2. \A t \in TradingDays : t > walked <=> walked < t
    BY <1>1, <1>3
  <2> QED
    BY <2>1, <2>2 DEF PendingDays
<1>5. latest \in PendingDays(e)
  BY <1>1, <1>2, <1>3, <1>4
<1>6. PendingDays(e) \subseteq Nat /\ PendingDays(e) # {}
  BY <1>3, <1>4, <1>5
<1>7. d \in PendingDays(e) /\ \A t \in PendingDays(e) : d <= t
  BY <1>6, Least DEF e
<1>8. \A t \in TradingDays : freshness[e] < t /\ t < d => t <= walked
  <2> SUFFICES ASSUME NEW t \in TradingDays, freshness[e] < t, t < d
               PROVE  t <= walked
    OBVIOUS
  <2>1. t \in Nat /\ d \in Nat /\ latest \in Nat /\ d <= latest
    BY <1>2, <1>3, <1>4, <1>7
  <2>2. t \notin PendingDays(e)
    BY <1>7, <2>1
  <2>3. t <= latest
    BY <2>1
  <2> QED
    BY <1>1, <1>4, <2>1, <2>2, <2>3
<1>9. PendingDays(e) # {d} => d < latest
  <2>1. d <= latest /\ d \in Nat /\ latest \in Nat
    BY <1>2, <1>3, <1>4, <1>7
  <2>2. d = latest => \A t \in PendingDays(e) : t = d
    BY <1>3, <1>4, <1>7, <2>1
  <2>3. d = latest => PendingDays(e) = {d}
    BY <1>7, <2>2
  <2> QED
    BY <2>1, <2>3
<1> QED
  BY <1>4, <1>7, <1>8, <1>9 DEF e

-----------------------------------------------------------------------------
(* Typing and control.  TypeOK in four parts, by what writes them.         *)

TypedLocal ==
  /\ step \in {"idle", "download", "actions", "adjust", "activate", "run", "end"}
                \cup Rollups
  /\ todo \subseteq Exchanges
  /\ at \in {"gate", "work"}
  /\ walked \in {0} \cup TradingDays
  /\ left \subseteq Batches
  /\ period \in 0 .. LastDay
  /\ runner \in [Indicators -> Stages]
TypedCycle ==
  /\ latest \in {0} \cup TradingDays
  /\ freshness \in [Exchanges -> {0} \cup TradingDays]
TypedRaw ==
  /\ raw \in [Exchanges -> SUBSET TradingDays]
  /\ missed \in [Exchanges -> SUBSET TradingDays]
  /\ reported \in [Exchanges -> SUBSET ActionDates]
TypedAdjusted ==
  /\ \A e \in Exchanges : \A b \in Batches : DOMAIN adjusted[e][b] \subseteq raw[e]
  /\ adjusted_to \in [Exchanges -> {0} \cup TradingDays]
TypedRolled == rolled_to \in [Rollups -> [Exchanges -> [Days -> 0 .. LastDay]]]
TypedIndicators ==
  /\ registry \in [Indicators -> {"ACTIVE", "DEACTIVE"}]
  /\ iwm \in [Indicators -> 0 .. LastDay]
  /\ open_failures \in [Indicators -> SUBSET TradingDays]
TypedCounts ==
  /\ faults \in 0 .. MaxFaults /\ crashes \in 0 .. MaxCrashes
  /\ clean \in BOOLEAN

LEMMA TypeOKParts ==
  TypeOK <=> /\ TypedLocal /\ TypedCycle /\ TypedRaw /\ TypedAdjusted
             /\ TypedRolled /\ TypedIndicators /\ TypedCounts
  BY Zenon DEF TypeOK, TypedLocal, TypedCycle, TypedRaw, TypedAdjusted,
               TypedRolled, TypedIndicators, TypedCounts

LEMMA WalksTyped ==
  /\ Walks = {"download", "actions", "adjust", "week", "month"}
  /\ \A s \in Walks : StepAfter[s] \in {"actions", "adjust", "week", "month", "activate"}
  BY StepAfterIs DEF Walks, Rollups

(* A step that is over for an exchange leaves nothing of it behind. *)
LEMMA NextExchangeTyped ==
  ASSUME TypedLocal, TypedCycle, Control, step \in Walks, NextExchange,
         latest' = latest
  PROVE  TypedLocal' /\ Control'
<1>1. /\ at' = "gate" /\ walked' = 0 /\ left' = {} /\ period' = 0
      /\ runner' = runner
      /\ todo' \in {Exchanges, {"BSE"}, {}}
      /\ step' \in Walks \cup {"activate"}
      /\ step' \in Walks => todo' \in {Exchanges, {"BSE"}}
  BY NextExchangeIs, StepAfterIs, WalksTyped
<1>2. latest \in TradingDays /\ 0 < latest /\ 0 \in 0 .. LastDay
  BY DayTyped, WalksTyped DEF Control, InCycle
<1>3. TypedLocal'
  BY <1>1, <1>2, WalksTyped DEF TypedLocal, Exchanges, Rollups
<1>4. Control'
  BY <1>1, <1>2 DEF Control, InCycle
<1> QED
  BY <1>3, <1>4

LEMMA StartTyped ==
  ASSUME TypedLocal, Control, NEW d \in TradingDays, StartCycle(d)
  PROVE  TypedLocal' /\ Control'
<1>1. /\ step = "idle" /\ step' \in {"idle", "download"} /\ latest' = d
      /\ todo' = IF step' = "idle" THEN {} ELSE Exchanges
      /\ at' = at /\ walked' = walked /\ left' = left /\ period' = period
      /\ runner' = runner
  BY DEF StartCycle
<1>2. at = "gate" /\ walked = 0
  BY <1>1, Names DEF Control, TypedLocal
<1>3. 0 < d
  BY DayTyped
<1>4. TypedLocal'
  BY <1>1 DEF TypedLocal
<1> QED
  BY <1>1, <1>2, <1>3, <1>4, Names DEF Control, InCycle, Walks

LEMMA DownloadTyped ==
  ASSUME TypeOK, Control, DownloadDay
  PROVE  TypedLocal' /\ Control'
<1>1. step = "download" /\ Gap(Current) /\ latest' = latest
  BY DEF DownloadDay, cycleVars
<1> DEFINE d == Min(PendingDays(Current))
<1>2. NextExchange \/ (PendingDays(Current) # {d} /\ GoOn(d))
  BY DEF DownloadDay, GoOn, AfterFailedDay
<1>3. CASE NextExchange
  BY <1>1, <1>3, NextExchangeTyped, TypeOKParts, WalksTyped
<1>4. CASE PendingDays(Current) # {d} /\ GoOn(d)
  <2>1. /\ walked' = d /\ step' = step /\ todo' = todo /\ at' = at
        /\ left' = left /\ period' = period /\ runner' = runner
    BY <1>4 DEF GoOn
  <2>2. d \in TradingDays /\ d < latest
    BY <1>1, <1>4, DayIs
  <2> HIDE DEF d
  <2>3. TypedLocal'
    BY <2>1, <2>2, TypeOKParts DEF TypedLocal
  <2>4. Control'
    BY <1>1, <2>1, <2>2 DEF Control, InCycle, Rollups
  <2> QED
    BY <2>3, <2>4
<1> QED
  BY <1>2, <1>3, <1>4

LEMMA LookAtTyped ==
  ASSUME TypedLocal, TypedCycle, Control, step \in {"adjust"} \cup Rollups,
         NEW own, LookAt(own), latest' = latest
  PROVE  TypedLocal' /\ Control'
<1>1. CASE NextExchange
  BY <1>1, NextExchangeTyped, WalksTyped DEF Rollups
<1>2. CASE /\ at' = "work" /\ left' \subseteq Batches /\ period' = FirstPeriod
           /\ UNCHANGED <<step, todo, walked, runner>>
  <2>1. FirstPeriod \in 0 .. LastDay
    BY PipelineAssumption DEF FirstPeriod, PipelineAssumption
  <2>2. TypedLocal'
    BY <1>2, <2>1 DEF TypedLocal
  <2>3. latest \in TradingDays /\ 1 <= latest
    BY DayTyped DEF Control, InCycle, Rollups
  <2>4. step \in Rollups => FirstPeriod = 1 /\ 1 \in Periods(step)
    BY FirstPeriodIs DEF FirstPeriod, Rollups
  <2>5. step' \in Rollups => period' \in Periods(step')
    BY <1>2, <2>4 DEF Periods, PeriodStart, Length
  <2>6. step \in Rollups => period' <= latest'
    BY <1>2, <2>3, <2>4
  <2> QED
    BY <1>2, <2>2, <2>3, <2>5, <2>6 DEF Control, InCycle
<1> QED
  BY <1>1, <1>2 DEF LookAt

LEMMA RebuildTyped ==
  ASSUME TypedLocal, TypedCycle, Control, RebuildBatch
  PROVE  TypedLocal' /\ Control'
<1>1. step = "adjust" /\ latest' = latest
  BY DEF RebuildBatch, cycleVars
<1>2. CASE NextExchange
  BY <1>1, <1>2, NextExchangeTyped, WalksTyped
<1>3. CASE left' \subseteq left /\ UNCHANGED <<step, todo, at, walked, period, runner>>
  <2>1. TypedLocal'
    BY <1>3 DEF TypedLocal
  <2>2. Control'
    BY <1>1, <1>3 DEF Control, InCycle, Rollups
  <2> QED
    BY <2>1, <2>2
<1> QED
  BY <1>2, <1>3 DEF RebuildBatch

LEMMA RollUpTyped ==
  ASSUME TypedLocal, TypedCycle, Control, RollUpPeriod
  PROVE  TypedLocal' /\ Control'
<1>1. step \in Rollups /\ at = "work" /\ latest' = latest
  BY DEF RollUpPeriod, cycleVars
<1>2. CASE NextExchange
  BY <1>1, <1>2, NextExchangeTyped DEF Walks
<1>3. CASE /\ ~(period + Length(step) > latest) /\ period' = period + Length(step)
           /\ UNCHANGED <<step, todo, at, walked, left, runner>>
  <2>1. period \in Periods(step) /\ latest \in TradingDays
    BY <1>1, Names DEF Control, InCycle
  <2>2. period \in Nat /\ Length(step) \in Nat /\ latest \in Nat /\ latest <= LastDay
    BY <1>1, <2>1, DayTyped, LengthTyped DEF Periods
  <2>3. period + Length(step) <= latest /\ period + Length(step) <= LastDay
    BY <1>3, <2>2, DayTyped
  <2>4. period' \in Periods(step) /\ period' \in 0 .. LastDay
    BY <1>1, <1>3, <2>1, <2>2, <2>3, NextPeriodIs, DayTyped
  <2>5. period' \in Periods(step)'
    BY <1>3, <2>4 DEF Periods, PeriodStart, Length
  <2>6. TypedLocal'
    BY <1>3, <2>4 DEF TypedLocal
  <2> QED
    BY <1>1, <1>3, <2>3, <2>5, <2>6 DEF Control, InCycle
<1> QED
  BY <1>2, <1>3 DEF RollUpPeriod, NextPeriod, AfterFailedPeriod

LEMMA BecomesTyped ==
  ASSUME TypedLocal, Control, NEW i \in Indicators, NEW stage \in Stages,
         Becomes(i, stage), step = "run", step' = step, latest' = latest
  PROVE  TypedLocal' /\ Control'
<1>1. /\ runner' = [runner EXCEPT ![i] = stage] /\ todo' = todo /\ at' = at
      /\ walked' = walked /\ left' = left /\ period' = period
  BY DEF Becomes
<1>2. TypedLocal'
  BY <1>1 DEF TypedLocal
<1>3. Control'
  BY <1>1, Names DEF Control, InCycle, Walks
<1> QED
  BY <1>2, <1>3

LEMMA RestTyped ==
  ASSUME BackToIdle PROVE TypedLocal' /\ Control'
<1>1. 0 \in 0 .. LastDay
  BY DayTyped
<1>2. TypedLocal'
  BY <1>1 DEF BackToIdle, TypedLocal, Stages
<1>3. Control'
  BY Names DEF BackToIdle, Control, InCycle, Walks
<1> QED
  BY <1>2, <1>3

LEMMA LocalTyped ==
  ASSUME TypeOK, Control, [Next]_vars
  PROVE  TypedLocal' /\ Control'
<1> USE TypeOKParts
<1>1. CASE \E d \in TradingDays : StartCycle(d)
  BY <1>1, StartTyped
<1>2. CASE Skipped \/ CalendarUnknown \/ FetchActions
  <2>1. step \in Walks /\ NextExchange /\ latest' = latest
    BY <1>2, WalksTyped DEF Skipped, CalendarUnknown, FetchActions, cycleVars
  <2> QED
    BY <2>1, NextExchangeTyped
<1>3. CASE DownloadDay
  BY <1>3, DownloadTyped
<1>4. CASE AdjustGate \/ RollupGate
  <2>1. step \in {"adjust"} \cup Rollups /\ latest' = latest
    BY <1>4 DEF AdjustGate, RollupGate, cycleVars
  <2>2. \/ LookAt(adjusted_to[Current]) \/ LookAt(RolledTo(step, Current))
    BY <1>4 DEF AdjustGate, RollupGate
  <2> QED
    BY <2>1, <2>2, LookAtTyped
<1>5. CASE RebuildBatch
  BY <1>5, RebuildTyped
<1>6. CASE FinishAdjust
  <2>1. step \in Walks /\ NextExchange /\ latest' = latest
    BY <1>6, WalksTyped DEF FinishAdjust, cycleVars
  <2> QED
    BY <2>1, NextExchangeTyped
<1>7. CASE RollUpPeriod
  BY <1>7, RollUpTyped
<1>8. CASE Activate
  <2>1. /\ step = "activate" /\ step' \in {"run", "end"} /\ latest' = latest
        /\ todo' = todo /\ at' = at /\ walked' = walked /\ left' = left
        /\ period' = period /\ runner' \in [Indicators -> Stages]
    BY <1>8 DEF Activate, cycleVars, Stages
  <2>2. TypedLocal'
    BY <2>1 DEF TypedLocal
  <2>3. Control'
    BY <2>1, Names DEF Control, InCycle, Walks
  <2> QED
    BY <2>2, <2>3
<1>9. CASE PoolDone
  <2>1. /\ step = "run" /\ step' = "end" /\ latest' = latest
        /\ todo' = todo /\ at' = at /\ walked' = walked /\ left' = left
        /\ period' = period /\ runner' = runner
    BY <1>9 DEF PoolDone, cycleVars
  <2>2. TypedLocal'
    BY <2>1 DEF TypedLocal
  <2>3. Control'
    BY <2>1, Names DEF Control, InCycle, Walks
  <2> QED
    BY <2>2, <2>3
<1>10. CASE EndCycle \/ Crash
  BY <1>10, RestTyped DEF EndCycle, Crash
<1>11. CASE \E i \in Indicators : Runner(i)
  <2>1. PICK i \in Indicators : Runner(i)
    BY <1>11
  <2>2. step = "run" /\ step' = step /\ latest' = latest
    BY <2>1 DEF Runner, RunnerStarts, RunnerRecomputes, RunnerRecords,
                RunnerDeactivates, cycleVars
  <2>3. \E stage \in Stages : Becomes(i, stage)
    BY <2>1 DEF Runner, RunnerStarts, RunnerRecomputes, RunnerRecords,
                RunnerDeactivates, Stages
  <2> QED
    BY <2>2, <2>3, BecomesTyped
<1>12. CASE UNCHANGED vars
  BY <1>12 DEF vars, localVars, cycleVars, TypedLocal, Control, InCycle, Periods,
               PeriodStart, Length
<1> QED
  BY <1>1, <1>2, <1>3, <1>4, <1>5, <1>6, <1>7, <1>8, <1>9, <1>10, <1>11, <1>12
     DEF Next, Cycle

(* What a step does to the tables that later steps read: few write them. *)
data == <<raw, missed, adjusted, adjusted_to, rolled, rolled_to, iwm, workbook,
          open_failures>>

LEMMA StepCases ==
  ASSUME TypedCycle, [Next]_vars
  PROVE  \/ UNCHANGED data /\ latest' >= latest
         \/ DownloadDay \/ RebuildBatch \/ FinishAdjust \/ RollUpPeriod
         \/ \E i \in Indicators : \E e \in Exchanges : RunnerRecomputes(i, e)
         \/ \E i \in Indicators : RunnerRecords(i)
<1> USE DEF data, cycleVars, rawVars, adjVars, rollVars, indVars
<1>1. latest \in Nat /\ latest >= latest
  BY DayTyped DEF TypedCycle
<1>2. CASE \E d \in TradingDays : StartCycle(d)
  BY <1>2 DEF StartCycle
<1>3. CASE Skipped \/ CalendarUnknown \/ FetchActions \/ AdjustGate \/ RollupGate
  BY <1>1, <1>3 DEF Skipped, CalendarUnknown, FetchActions, AdjustGate, RollupGate
<1>4. CASE Activate \/ PoolDone
  BY <1>1, <1>4 DEF Activate, PoolDone
<1>5. CASE EndCycle \/ Crash
  BY <1>1, <1>5 DEF EndCycle, Crash, BackToIdle
<1>6. CASE \E i \in Indicators : RunnerStarts(i) \/ RunnerDeactivates(i)
  BY <1>1, <1>6 DEF RunnerStarts, RunnerDeactivates
<1>7. CASE UNCHANGED vars
  BY <1>1, <1>7 DEF vars
<1> QED
  BY <1>2, <1>3, <1>4, <1>5, <1>6, <1>7 DEF Next, Cycle, Runner

LEMMA LastPersistedIs ==
  ASSUME TypedRaw, NEW e \in Exchanges
  PROVE  /\ LastPersisted(e) \in raw[e] \cup {0}
         /\ LastPersisted(e) \in {0} \cup TradingDays
         /\ \A d \in raw[e] : d <= LastPersisted(e)
<1>1. raw[e] \subseteq TradingDays /\ raw[e] \subseteq 0 .. LastDay
  BY DayTyped DEF TypedRaw
<1> QED
  BY <1>1, LastIs DEF LastPersisted

LEMMA CycleTyped ==
  ASSUME TypeOK, [Next]_vars
  PROVE  TypedCycle'
<1> USE DEF TypedCycle, cycleVars
<1>1. TypedCycle /\ TypedRaw
  BY TypeOKParts
<1>2. CASE \E d \in TradingDays : StartCycle(d)
  <2>1. ASSUME NEW e \in Exchanges PROVE LastPersisted(e) \in {0} \cup TradingDays
    BY <1>1, LastPersistedIs
  <2> QED
    BY <1>1, <1>2, <2>1 DEF StartCycle
<1>3. CASE UNCHANGED cycleVars
  BY <1>1, <1>3
<1>4. CASE EndCycle \/ Crash
  BY <1>1, <1>4 DEF EndCycle, Crash, BackToIdle
<1> QED
  BY <1>2, <1>3, <1>4
     DEF Next, Cycle, Runner, Skipped, CalendarUnknown, DownloadDay, FetchActions,
         AdjustGate, RebuildBatch, FinishAdjust, RollupGate, RollUpPeriod, Activate,
         PoolDone, RunnerStarts, RunnerRecomputes, RunnerRecords,
         RunnerDeactivates, vars

(* What the download of a day does to the raw prices. *)
LEMMA DownloadIs ==
  ASSUME TypeOK, Control, DownloadDay
  PROVE  /\ step = "download" /\ Gap(Current) /\ Current \in Exchanges
         /\ \E d \in TradingDays :
              /\ d = Min(PendingDays(Current))
              /\ raw' \in {raw, [raw EXCEPT ![Current] = @ \cup {d}]}
              /\ missed' \in {missed, [missed EXCEPT ![Current] = @ \cup {d}]}
              /\ \/ NextExchange
                 \/ /\ walked' = d /\ UNCHANGED <<step, todo>>
                    /\ d \in raw'[Current] \cup missed'[Current]
         /\ latest' = latest /\ freshness' = freshness
         /\ reported' = reported /\ adjusted' = adjusted /\ adjusted_to' = adjusted_to
         /\ rolled' = rolled /\ rolled_to' = rolled_to /\ iwm' = iwm
         /\ workbook' = workbook /\ open_failures' = open_failures
<1>1. step = "download" /\ Gap(Current) /\ Current \in Exchanges
  BY CurrentTyped DEF DownloadDay
<1> DEFINE d == Min(PendingDays(Current))
<1>2. d \in TradingDays
  BY <1>1, DayIs
<1>3. /\ raw' \in {raw, [raw EXCEPT ![Current] = @ \cup {d}]}
      /\ missed' \in {missed, [missed EXCEPT ![Current] = @ \cup {d}]}
  BY DEF DownloadDay
<1>4. \/ NextExchange
      \/ /\ walked' = d /\ UNCHANGED <<step, todo>>
         /\ d \in raw'[Current] \cup missed'[Current]
  BY <1>1 DEF DownloadDay, TypeOK, AfterFailedDay, GoOn
<1>5. /\ latest' = latest /\ freshness' = freshness
      /\ reported' = reported /\ adjusted' = adjusted /\ adjusted_to' = adjusted_to
      /\ rolled' = rolled /\ rolled_to' = rolled_to /\ iwm' = iwm
      /\ workbook' = workbook /\ open_failures' = open_failures
  BY DEF DownloadDay, cycleVars, adjVars, rollVars, indVars
<1> HIDE DEF d
<1> QED
  BY <1>1, <1>2, <1>3, <1>4, <1>5 DEF d

LEMMA TableIs ==
  ASSUME NEW V, NEW f \in Table(V)
  PROVE  DOMAIN f \subseteq Days /\ f \in [DOMAIN f -> V]
  BY DEF Table

LEMMA RebuiltIs ==
  ASSUME TypedRaw, NEW e \in Exchanges
  PROVE  DOMAIN Rebuilt(e) = raw[e] /\ Rebuilt(e) \in Table(SUBSET ActionDates)
<1>1. raw[e] \in SUBSET Days
  BY DayTyped DEF TypedRaw
<1>2. Matched \subseteq ActionDates
  BY DEF TypedRaw, Matched, Exchanges
<1>3. Rebuilt(e) \in [raw[e] -> SUBSET ActionDates]
  BY <1>2 DEF Rebuilt
<1> QED
  BY <1>1, <1>3 DEF Table

(* The daily rows of a stretch of days. *)
LEMMA DailyRowsIs ==
  ASSUME Shape, NEW e \in Exchanges, NEW first, NEW last
  PROVE  /\ DailyRows(e, first, last) \in [Batches -> Table(SUBSET ActionDates)]
         /\ \A b \in Batches :
              DOMAIN DailyRows(e, first, last)[b]
                = DOMAIN adjusted[e][b] \cap first .. last
<1> DEFINE D(b) == DOMAIN adjusted[e][b] \cap first .. last
<1> DEFINE part(b) == Restrict(adjusted[e][b], D(b))
<1>1. DailyRows(e, first, last) = [b \in Batches |-> part(b)]
  BY DEF DailyRows
<1>2. ASSUME NEW b \in Batches
      PROVE  part(b) \in Table(SUBSET ActionDates) /\ DOMAIN part(b) = D(b)
  <2>1. adjusted[e][b] \in Table(SUBSET ActionDates)
    BY DEF Shape
  <2>2. /\ DOMAIN adjusted[e][b] \subseteq Days
        /\ \A d \in DOMAIN adjusted[e][b] : adjusted[e][b][d] \in SUBSET ActionDates
    BY <2>1, TableIs
  <2>3. part(b) \in [D(b) -> SUBSET ActionDates] /\ D(b) \in SUBSET Days
    BY <2>2 DEF Restrict
  <2> QED
    BY <2>3 DEF Table
<1> QED
  BY <1>1, <1>2

LEMMA SourceIs ==
  ASSUME TypedRaw, TypedAdjusted, NEW i \in Indicators, NEW e \in Exchanges,
         NEW b \in Batches
  PROVE  /\ i = "daily" => Source(i, e)[b] = adjusted[e][b]
         /\ i \in Rollups =>
              DOMAIN Source(i, e)[b] = {p \in Days : rolled[i][e][p][b] # << >>}
         /\ DOMAIN Source(i, e)[b] \subseteq Days
<1>1. i = "daily" => Source(i, e)[b] = adjusted[e][b]
  BY DEF Source
<1>2. i \in Rollups =>
        DOMAIN Source(i, e)[b] = {p \in Days : rolled[i][e][p][b] # << >>}
  BY DEF Source, Rollups, Restrict
<1>3. DOMAIN adjusted[e][b] \subseteq Days
  BY DayTyped DEF TypedRaw, TypedAdjusted
<1> QED
  BY <1>1, <1>2, <1>3 DEF Indicators

LEMMA WorkbookIs ==
  ASSUME TypedRaw, TypedAdjusted, Within, NEW i \in Indicators
  PROVE  /\ LastInWorkbook(i) \in 0 .. LastDay
         /\ LastInWorkbook(i) # 0 =>
              \E e \in Exchanges : LastInWorkbook(i) \in Dates(workbook[i][e])
<1> DEFINE D == UNION {Dates(workbook[i][e]) : e \in Exchanges}
<1>1. D \subseteq 0 .. LastDay
  <2>1. ASSUME NEW d \in D PROVE d \in Days
    <3>1. PICK e \in Exchanges, b \in Batches : d \in DOMAIN workbook[i][e][b]
      BY DEF Dates
    <3> QED
      BY <3>1, SourceIs DEF Within
  <2>2. Days \subseteq 0 .. LastDay
    BY DayTyped
  <2> QED
    BY <2>1, <2>2
<1>2. LastInWorkbook(i) = Last(D)
  BY DEF LastInWorkbook
<1> HIDE DEF D
<1>3. Last(D) \in D \cup {0} /\ Last(D) \in 0 .. LastDay
  BY <1>1, LastIs
<1> QED
  BY <1>2, <1>3 DEF D

-----------------------------------------------------------------------------
(* What the steps that write do to the tables.                             *)

LEMMA RebuildIs ==
  ASSUME RebuildBatch
  PROVE  /\ step = "adjust" /\ at = "work" /\ Current \in Exchanges
         /\ adjusted_to' \in {adjusted_to, [adjusted_to EXCEPT ![Current] = 0]}
         /\ \E b \in left :
              LET upserted == [adjusted EXCEPT ![Current][b] = Rebuilt(Current)]
              IN  /\ adjusted' \in {adjusted, upserted}
                  /\ \/ /\ adjusted' = upserted /\ NoFault /\ left' = left \ {b}
                        /\ UNCHANGED <<step, todo, at, walked, period, runner>>
                     \/ Fault /\ NextExchange
         /\ latest' = latest /\ freshness' = freshness /\ raw' = raw
         /\ missed' = missed /\ reported' = reported /\ rolled' = rolled
         /\ rolled_to' = rolled_to /\ registry' = registry /\ iwm' = iwm
         /\ workbook' = workbook /\ open_failures' = open_failures
<1>1. /\ latest' = latest /\ freshness' = freshness /\ raw' = raw
      /\ missed' = missed /\ reported' = reported /\ rolled' = rolled
      /\ rolled_to' = rolled_to /\ registry' = registry /\ iwm' = iwm
      /\ workbook' = workbook /\ open_failures' = open_failures
  BY DEF RebuildBatch, cycleVars, rawVars, rollVars, indVars
<1> DEFINE b == CHOOSE x \in left : TRUE
<1>2. b \in left
  BY DEF RebuildBatch
<1>3. LET upserted == [adjusted EXCEPT ![Current][b] = Rebuilt(Current)]
      IN  /\ adjusted' \in {adjusted, upserted}
          /\ \/ /\ adjusted' = upserted /\ NoFault /\ left' = left \ {b}
                /\ UNCHANGED <<step, todo, at, walked, period, runner>>
             \/ Fault /\ NextExchange
  BY DEF RebuildBatch
<1>4. adjusted_to' \in {adjusted_to, [adjusted_to EXCEPT ![Current] = 0]}
  BY DEF RebuildBatch, LatestAfterFailure
<1> HIDE DEF b
<1> QED
  BY <1>1, <1>2, <1>3, <1>4, CurrentTyped DEF RebuildBatch

LEMMA FinishIs ==
  ASSUME FinishAdjust
  PROVE  /\ step = "adjust" /\ at = "work" /\ left = {} /\ Current \in Exchanges
         /\ adjusted_to' \in
              {adjusted_to, [adjusted_to EXCEPT ![Current] = LastPersisted(Current)]}
         /\ NoFault \/ Fault
         /\ NextExchange
         /\ latest' = latest /\ freshness' = freshness /\ raw' = raw
         /\ missed' = missed /\ reported' = reported /\ adjusted' = adjusted
         /\ rolled' = rolled /\ rolled_to' = rolled_to /\ registry' = registry
         /\ iwm' = iwm /\ workbook' = workbook /\ open_failures' = open_failures
  BY CurrentTyped DEF FinishAdjust, cycleVars, rawVars, rollVars, indVars

LEMMA RollUpIs ==
  ASSUME RollUpPeriod,
         NEW rows, rows = DailyRows(Current, period, PeriodEnd(step, period))
  PROVE  /\ step \in Rollups /\ at = "work" /\ Current \in Exchanges
         /\ \/ /\ rows # NoRows
               /\ rolled' = [rolled EXCEPT ![step][Current][period] = rows]
               /\ rolled_to' = [rolled_to EXCEPT
                                  ![step][Current][period] = PeriodEnd(step, period)]
               /\ \/ NoFault /\ NextPeriod
                  \/ Fault /\ NextExchange
            \/ /\ rows = NoRows /\ NoFault /\ NextExchange
               /\ rolled' = rolled /\ rolled_to' = rolled_to
            \/ /\ Fault /\ NextExchange /\ rolled_to' = rolled_to
               /\ rolled' \in {rolled, [rolled EXCEPT ![step][Current][period] = rows]}
         /\ latest' = latest /\ freshness' = freshness /\ raw' = raw
         /\ missed' = missed /\ reported' = reported /\ adjusted' = adjusted
         /\ adjusted_to' = adjusted_to /\ registry' = registry
         /\ iwm' = iwm /\ workbook' = workbook /\ open_failures' = open_failures
<1>1. /\ latest' = latest /\ freshness' = freshness /\ raw' = raw
      /\ missed' = missed /\ reported' = reported /\ adjusted' = adjusted
      /\ adjusted_to' = adjusted_to /\ registry' = registry
      /\ iwm' = iwm /\ workbook' = workbook /\ open_failures' = open_failures
  BY DEF RollUpPeriod, cycleVars, rawVars, adjVars, indVars
<1>2. \/ /\ rows # NoRows
         /\ rolled' = [rolled EXCEPT ![step][Current][period] = rows]
         /\ rolled_to' = [rolled_to EXCEPT
                            ![step][Current][period] = PeriodEnd(step, period)]
         /\ \/ NoFault /\ NextPeriod
            \/ Fault /\ NextExchange
      \/ /\ rows = NoRows /\ NoFault /\ NextExchange
         /\ rolled' = rolled /\ rolled_to' = rolled_to
      \/ /\ Fault /\ NextExchange /\ rolled_to' = rolled_to
         /\ rolled' \in {rolled, [rolled EXCEPT ![step][Current][period] = rows]}
  BY DEF RollUpPeriod, rollVars, AfterFailedPeriod
<1> QED
  BY <1>1, <1>2, CurrentTyped DEF RollUpPeriod

LEMMA RecomputeIs ==
  ASSUME NEW i \in Indicators, NEW e \in Exchanges, RunnerRecomputes(i, e)
  PROVE  /\ step = "run" /\ step' = step /\ runner[i] = e
         /\ \/ /\ workbook' = [workbook EXCEPT ![i][e] = Source(i, e)] /\ NoFault
               /\ Becomes(i, IF e = "NSE" THEN "BSE" ELSE "record")
               /\ open_failures' = open_failures
            \/ /\ \E some \in Partly(workbook[i][e], Source(i, e)) :
                    workbook' = [workbook EXCEPT ![i][e] = some]
               /\ Fault /\ Becomes(i, "done")
               /\ open_failures' \in {open_failures,
                                      [open_failures EXCEPT ![i] = @ \cup {latest}]}
         /\ registry' \in {registry, [registry EXCEPT ![i] = "DEACTIVE"]}
         /\ latest' = latest /\ freshness' = freshness /\ raw' = raw
         /\ missed' = missed /\ reported' = reported /\ adjusted' = adjusted
         /\ adjusted_to' = adjusted_to /\ rolled' = rolled
         /\ rolled_to' = rolled_to /\ iwm' = iwm
<1>1. /\ latest' = latest /\ freshness' = freshness /\ raw' = raw
      /\ missed' = missed /\ reported' = reported /\ adjusted' = adjusted
      /\ adjusted_to' = adjusted_to /\ rolled' = rolled
      /\ rolled_to' = rolled_to /\ iwm' = iwm
  BY DEF RunnerRecomputes, cycleVars, rawVars, adjVars, rollVars
<1> QED
  BY <1>1 DEF RunnerRecomputes

LEMMA RecordIs ==
  ASSUME NEW i \in Indicators, RunnerRecords(i)
  PROVE  /\ step = "run" /\ step' = step /\ runner[i] = "record"
         /\ \/ /\ NoFault /\ Becomes(i, "clean")
               /\ \/ /\ LastInWorkbook(i) = 0
                     /\ iwm' = iwm /\ open_failures' = open_failures
                  \/ /\ LastInWorkbook(i) # 0
                     /\ iwm' = [iwm EXCEPT ![i] = LastInWorkbook(i)]
                     /\ open_failures' =
                          [open_failures EXCEPT ![i] = @ \ {LastInWorkbook(i)}]
            \/ /\ Fault /\ Becomes(i, "done")
               /\ iwm' = iwm /\ open_failures' = open_failures
         /\ latest' = latest /\ freshness' = freshness /\ raw' = raw
         /\ missed' = missed /\ reported' = reported /\ adjusted' = adjusted
         /\ adjusted_to' = adjusted_to /\ rolled' = rolled
         /\ rolled_to' = rolled_to /\ registry' = registry /\ workbook' = workbook
<1>1. /\ latest' = latest /\ freshness' = freshness /\ raw' = raw
      /\ missed' = missed /\ reported' = reported /\ adjusted' = adjusted
      /\ adjusted_to' = adjusted_to /\ rolled' = rolled
      /\ rolled_to' = rolled_to /\ registry' = registry /\ workbook' = workbook
  BY DEF RunnerRecords, cycleVars, rawVars, adjVars, rollVars
<1> QED
  BY <1>1 DEF RunnerRecords, RecordedDate, Closed

-----------------------------------------------------------------------------
(* The tables stay typed.                                                  *)

LEMMA Update2 ==
  ASSUME NEW A, NEW B, NEW V, NEW f \in [A -> [B -> V]],
         NEW a \in A, NEW b \in B, NEW v \in V
  PROVE  [f EXCEPT ![a][b] = v] \in [A -> [B -> V]]
  OBVIOUS

LEMMA Update3 ==
  ASSUME NEW A, NEW B, NEW C, NEW V, NEW f \in [A -> [B -> [C -> V]]],
         NEW a \in A, NEW b \in B, NEW c \in C, NEW v \in V
  PROVE  /\ [f EXCEPT ![a][b][c] = v] \in [A -> [B -> [C -> V]]]
         /\ f[a][b][c] \in V
<1>1. f[a] \in [B -> [C -> V]]
  OBVIOUS
<1>2. [f[a] EXCEPT ![b][c] = v] \in [B -> [C -> V]]
  BY <1>1, Update2
<1>3. [f EXCEPT ![a] = [f[a] EXCEPT ![b][c] = v]] \in [A -> [B -> [C -> V]]]
  BY <1>2
<1>4. [f EXCEPT ![a] = [f[a] EXCEPT ![b][c] = v]] = [f EXCEPT ![a][b][c] = v]
  OBVIOUS
<1> QED
  BY <1>1, <1>3, <1>4

LEMMA RawTyped ==
  ASSUME TypeOK, Control, [Next]_vars
  PROVE  TypedRaw' /\ \A e \in Exchanges : raw[e] \subseteq raw'[e]
<1> USE DEF TypedRaw, rawVars
<1>1. TypedRaw
  BY TypeOKParts
<1>2. CASE UNCHANGED <<rawVars, reported>>
  BY <1>1, <1>2
<1>3. CASE DownloadDay
  BY <1>1, <1>3, DownloadIs
<1>4. CASE FetchActions
  BY <1>1, <1>4, CurrentTyped DEF FetchActions
<1>5. \/ UNCHANGED <<rawVars, reported>> \/ DownloadDay \/ FetchActions
  BY DEF Next, Cycle, Runner, StartCycle, Skipped, CalendarUnknown, AdjustGate,
         RebuildBatch, FinishAdjust, RollupGate, RollUpPeriod, Activate, PoolDone,
         EndCycle, Crash, BackToIdle, RunnerStarts, RunnerRecomputes,
         RunnerRecords, RunnerDeactivates, vars
<1> QED
  BY <1>2, <1>3, <1>4, <1>5

LEMMA AdjustedTyped ==
  ASSUME TypeOK, Shape, Control, [Next]_vars
  PROVE  /\ TypedAdjusted'
         /\ adjusted' \in [Exchanges -> [Batches -> Table(SUBSET ActionDates)]]
         /\ \A e \in Exchanges, b \in Batches :
              DOMAIN adjusted[e][b] \subseteq DOMAIN adjusted'[e][b]
<1>1. /\ TypedAdjusted /\ TypedRaw /\ TypedCycle
      /\ adjusted \in [Exchanges -> [Batches -> Table(SUBSET ActionDates)]]
  BY TypeOKParts DEF Shape
<1>2. TypedRaw' /\ \A e \in Exchanges : raw[e] \subseteq raw'[e]
  BY RawTyped
<1>3. CASE adjusted' = adjusted /\ adjusted_to' = adjusted_to
  BY <1>1, <1>2, <1>3 DEF TypedAdjusted
<1>4. CASE RebuildBatch
  <2> DEFINE e == Current
  <2>1. /\ e \in Exchanges /\ raw' = raw
        /\ adjusted_to' \in {adjusted_to, [adjusted_to EXCEPT ![e] = 0]}
    BY <1>4, RebuildIs
  <2>2. PICK b \in left :
          adjusted' \in {adjusted, [adjusted EXCEPT ![e][b] = Rebuilt(e)]}
    BY <1>4, RebuildIs
  <2>3. b \in Batches /\ DOMAIN Rebuilt(e) = raw[e] /\ Rebuilt(e) \in Table(SUBSET ActionDates)
    BY <1>1, <2>1, RebuiltIs DEF TypeOK
  <2> HIDE DEF e
  <2>4. \A x \in Exchanges, y \in Batches :
          adjusted'[x][y] = IF x = e /\ y = b /\ adjusted' # adjusted
                            THEN Rebuilt(e) ELSE adjusted[x][y]
    BY <1>1, <2>1, <2>2, <2>3
  <2>5. adjusted' \in [Exchanges -> [Batches -> Table(SUBSET ActionDates)]]
    <3> DEFINE V == Table(SUBSET ActionDates)
    <3>1. adjusted \in [Exchanges -> [Batches -> V]] /\ Rebuilt(e) \in V
      BY <1>1, <2>3
    <3> HIDE DEF V
    <3>2. [adjusted EXCEPT ![e][b] = Rebuilt(e)] \in [Exchanges -> [Batches -> V]]
      BY <2>1, <2>3, <3>1, Update2
    <3>3. adjusted' \in [Exchanges -> [Batches -> V]]
      BY <2>2, <3>1, <3>2
    <3> QED
      BY <3>3 DEF V
  <2>6. adjusted_to' \in [Exchanges -> {0} \cup TradingDays]
    BY <1>1, <2>1 DEF TypedAdjusted
  <2>7. \A x \in Exchanges, y \in Batches :
          /\ DOMAIN adjusted'[x][y] \subseteq raw'[x]
          /\ DOMAIN adjusted[x][y] \subseteq DOMAIN adjusted'[x][y]
    BY <1>1, <2>1, <2>3, <2>4 DEF TypedAdjusted
  <2> QED
    BY <2>5, <2>6, <2>7 DEF TypedAdjusted
<1>5. CASE FinishAdjust
  <2>1. adjusted' = adjusted /\ raw' = raw
    BY <1>5, FinishIs
  <2>2. adjusted_to' \in [Exchanges -> {0} \cup TradingDays]
    BY <1>1, <1>5, FinishIs, LastPersistedIs DEF TypedAdjusted
  <2> QED
    BY <1>1, <2>1, <2>2 DEF TypedAdjusted
<1> QED
  BY <1>1, <1>3, <1>4, <1>5, StepCases, DownloadIs, RollUpIs, RecomputeIs, RecordIs DEF data

LEMMA RolledTyped ==
  ASSUME TypeOK, Shape, Control, [Next]_vars
  PROVE  /\ TypedRolled'
         /\ rolled' \in [Rollups -> [Exchanges -> [Days ->
                           [Batches -> Table(SUBSET ActionDates)]]]]
<1> DEFINE Rows == [Batches -> Table(SUBSET ActionDates)]
<1>1. TypedRolled /\ rolled \in [Rollups -> [Exchanges -> [Days -> Rows]]] /\ TypedCycle
  BY TypeOKParts DEF Shape
<1>2. CASE rolled' = rolled /\ rolled_to' = rolled_to
  BY <1>1, <1>2 DEF TypedRolled
<1>3. CASE RollUpPeriod
  <2> DEFINE rows == DailyRows(Current, period, PeriodEnd(step, period))
  <2>1. /\ step \in Rollups /\ at = "work" /\ Current \in Exchanges
        /\ \/ rolled' = [rolled EXCEPT ![step][Current][period] = rows]
           \/ rolled' = rolled
        /\ rolled_to' \in {rolled_to, [rolled_to EXCEPT
                                         ![step][Current][period] = PeriodEnd(step, period)]}
    BY <1>3, RollUpIs
  <2>2. period \in Days
    BY <2>1 DEF Control, Periods
  <2>3. rows \in Rows
    BY <2>1, DailyRowsIs
  <2>4. PeriodEnd(step, period) \in 0 .. LastDay
    BY <1>1, <2>1, <2>2, PeriodEndIs DEF TypedCycle
  <2> HIDE DEF Rows
  <2>5. rolled[step][Current][period] \in Rows
    BY <1>1, <2>1, <2>2, <2>3, Update3
  <2> HIDE DEF rows
  <2>6. \A some \in Rows : [rolled EXCEPT ![step][Current][period] = some]
                            \in [Rollups -> [Exchanges -> [Days -> Rows]]]
    BY <1>1, <2>1, <2>2, Update3
  <2>7. rolled' \in [Rollups -> [Exchanges -> [Days -> Rows]]]
    <3>1. rolled' = rolled \/ \E some \in Rows :
            rolled' = [rolled EXCEPT ![step][Current][period] = some]
      BY <2>1, <2>3
    <3> QED
      BY <1>1, <2>6, <3>1
  <2>8. TypedRolled'
    <3>1. [rolled_to EXCEPT ![step][Current][period] = PeriodEnd(step, period)]
            \in [Rollups -> [Exchanges -> [Days -> 0 .. LastDay]]]
      BY <1>1, <2>1, <2>2, <2>4, Update3 DEF TypedRolled
    <3> QED
      BY <1>1, <2>1, <3>1 DEF TypedRolled
  <2> QED
    BY <2>7, <2>8 DEF Rows
<1> QED
  BY <1>1, <1>2, <1>3, StepCases, DownloadIs, RebuildIs, FinishIs, RecomputeIs, RecordIs DEF data

LEMMA IndicatorsTyped ==
  ASSUME TypeOK, Shape, Control, Within, [Next]_vars
  PROVE  /\ TypedIndicators' /\ DOMAIN workbook' = Indicators
         /\ \A i \in Indicators : DOMAIN workbook'[i] = Exchanges
<1>1. /\ TypedIndicators /\ TypedCycle /\ TypedRaw /\ TypedAdjusted
      /\ DOMAIN workbook = Indicators
      /\ \A i \in Indicators : DOMAIN workbook[i] = Exchanges
  BY TypeOKParts DEF Shape
<1>2. registry' \in [Indicators -> {"ACTIVE", "DEACTIVE"}]
  <2>1. registry \in [Indicators -> {"ACTIVE", "DEACTIVE"}]
    BY <1>1 DEF TypedIndicators
  <2>2. CASE Activate
    BY <2>1, <2>2 DEF Activate
  <2>3. CASE \E i \in Indicators :
               registry' \in {registry, [registry EXCEPT ![i] = "DEACTIVE"]}
    BY <2>1, <2>3
  <2>4. CASE registry' = registry
    BY <2>1, <2>4
  <2>5. \/ registry' = registry \/ Activate
        \/ \E i \in Indicators :
             registry' \in {registry, [registry EXCEPT ![i] = "DEACTIVE"]}
    BY RecomputeIs
       DEF Next, Cycle, Runner, StartCycle, Skipped, CalendarUnknown, DownloadDay,
           FetchActions, AdjustGate, RebuildBatch, FinishAdjust, RollupGate,
           RollUpPeriod, PoolDone, EndCycle, Crash, BackToIdle, RunnerStarts,
           RunnerRecords, RunnerDeactivates, vars, indVars
  <2> QED
    BY <2>2, <2>3, <2>4, <2>5
<1>3. /\ iwm' \in [Indicators -> 0 .. LastDay]
      /\ open_failures' \in [Indicators -> SUBSET TradingDays]
      /\ DOMAIN workbook' = Indicators
      /\ \A i \in Indicators : DOMAIN workbook'[i] = Exchanges
  <2>1. /\ iwm \in [Indicators -> 0 .. LastDay]
        /\ open_failures \in [Indicators -> SUBSET TradingDays]
    BY <1>1 DEF TypedIndicators
  <2>2. CASE UNCHANGED <<iwm, open_failures, workbook>>
    BY <1>1, <2>1, <2>2
  <2>3. ASSUME NEW i \in Indicators, NEW e \in Exchanges, RunnerRecomputes(i, e)
        PROVE  <1>3!1 /\ <1>3!2 /\ <1>3!3 /\ <1>3!4
    <3>1. /\ step = "run" /\ iwm' = iwm
          /\ \E some : workbook' = [workbook EXCEPT ![i][e] = some]
          /\ open_failures' \in {open_failures,
                                 [open_failures EXCEPT ![i] = @ \cup {latest}]}
      BY <2>3, RecomputeIs
    <3>2. latest \in TradingDays
      BY <3>1 DEF Control, InCycle
    <3>3. open_failures' \in [Indicators -> SUBSET TradingDays]
      BY <2>1, <3>1, <3>2
    <3>4. /\ DOMAIN workbook' = Indicators
          /\ \A x \in Indicators : DOMAIN workbook'[x] = Exchanges
      BY <1>1, <3>1
    <3> QED
      BY <2>1, <3>1, <3>3, <3>4
  <2>4. ASSUME NEW i \in Indicators, RunnerRecords(i)
        PROVE  <1>3!1 /\ <1>3!2 /\ <1>3!3 /\ <1>3!4
    <3>1. LastInWorkbook(i) \in 0 .. LastDay
      BY <1>1, WorkbookIs
    <3>2. /\ workbook' = workbook
          /\ iwm' \in {iwm, [iwm EXCEPT ![i] = LastInWorkbook(i)]}
          /\ open_failures' \in {open_failures,
               [open_failures EXCEPT ![i] = @ \ {LastInWorkbook(i)}]}
      BY <2>4, RecordIs
    <3> QED
      BY <1>1, <2>1, <3>1, <3>2
  <2> QED
    BY <1>1, <2>2, <2>3, <2>4, StepCases, DownloadIs, RebuildIs, FinishIs, RollUpIs DEF data
<1> QED
  BY <1>2, <1>3 DEF TypedIndicators

LEMMA CountsTyped ==
  ASSUME TypeOK, [Next]_vars
  PROVE  TypedCounts'
<1>1. faults \in 0 .. MaxFaults /\ crashes \in 0 .. MaxCrashes /\ clean \in BOOLEAN
  BY Zenon DEF TypeOK
<1>2. MaxFaults \in Nat /\ MaxCrashes \in Nat
  BY PipelineAssumption DEF PipelineAssumption
<1>3. \/ (Fault \/ NoFault \/ UNCHANGED <<faults, clean>>) /\ crashes' = crashes
      \/ BackToIdle /\ (crashes' = crashes \/ (crashes < MaxCrashes /\ crashes' = crashes + 1))
  BY DEF Next, Cycle, Runner, StartCycle, Skipped, CalendarUnknown, DownloadDay,
         FetchActions, AdjustGate, LookAt, RebuildBatch, FinishAdjust, RollupGate,
         RollUpPeriod, Activate, PoolDone, EndCycle, Crash, RunnerStarts,
         RunnerRecomputes, RunnerRecords, RunnerDeactivates, vars
<1>4. faults' \in 0 .. MaxFaults /\ crashes' \in 0 .. MaxCrashes
  BY <1>1, <1>2, <1>3 DEF Fault, NoFault, BackToIdle
<1>5. clean' = clean \/ clean' = FALSE \/ clean' = TRUE
  BY <1>3, Zenon DEF Fault, NoFault, BackToIdle
<1>6. clean' \in BOOLEAN
  BY <1>1, <1>5, Zenon
<1> QED
  BY <1>4, <1>6, Zenon DEF TypedCounts

LEMMA TypeStep ==
  ASSUME TypeOK, Shape, Control, Within, [Next]_vars
  PROVE  TypeOK' /\ Shape' /\ Control'
<1>1. TypedLocal' /\ Control' /\ TypedCycle' /\ TypedRaw' /\ TypedCounts'
  BY LocalTyped, CycleTyped, RawTyped, CountsTyped
<1>2. TypedAdjusted' /\ TypedRolled' /\ TypedIndicators'
  BY AdjustedTyped, RolledTyped, IndicatorsTyped
<1>3. (TypedLocal /\ TypedCycle /\ TypedRaw /\ TypedAdjusted /\ TypedRolled
        /\ TypedIndicators /\ TypedCounts)' => TypeOK'
  BY Zenon DEF TypeOK, TypedLocal, TypedCycle, TypedRaw, TypedAdjusted,
               TypedRolled, TypedIndicators, TypedCounts
<1>4. Shape'
  BY AdjustedTyped, RolledTyped, IndicatorsTyped DEF Shape, Table
<1> QED
  BY <1>1, <1>2, <1>3, <1>4

-----------------------------------------------------------------------------
(* STEPS 2 and 4: days, and what the metadata says of them.                *)

LEMMA FreshnessIs ==
  ASSUME [Next]_vars
  PROVE  \/ freshness' = freshness
         \/ /\ raw' = raw
            /\ \A e \in Exchanges : freshness'[e] \in {0, LastPersisted(e)}
<1> USE DEF cycleVars, rawVars
<1>1. CASE \E d \in TradingDays : StartCycle(d)
  BY <1>1 DEF StartCycle
<1>2. CASE EndCycle \/ Crash
  BY <1>2 DEF EndCycle, Crash, BackToIdle
<1>3. CASE freshness' = freshness
  BY <1>3
<1> QED
  BY <1>1, <1>2, <1>3
     DEF Next, Cycle, Runner, Skipped, CalendarUnknown, DownloadDay, FetchActions,
         AdjustGate, RebuildBatch, FinishAdjust, RollupGate, RollUpPeriod, Activate,
         PoolDone, RunnerStarts, RunnerRecomputes, RunnerRecords,
         RunnerDeactivates, vars

LEMMA NotAheadStep ==
  ASSUME TypeOK, Control, NotAhead, [Next]_vars
  PROVE  NotAhead'
<1>1. TypedRaw /\ TypedCycle /\ TypedAdjusted /\ TypedRaw' /\ TypedCycle'
  BY TypeOKParts, RawTyped, CycleTyped
<1>2. \A e \in Exchanges : raw[e] \subseteq raw'[e]
  BY RawTyped
<1>3. \A e \in Exchanges : \A d \in raw'[e] : d \in raw[e] \/ (d <= latest /\ latest' = latest)
  <2>1. CASE DownloadDay
    <3>1. PICK d \in TradingDays :
            /\ d = Min(PendingDays(Current))
            /\ raw' \in {raw, [raw EXCEPT ![Current] = @ \cup {d}]}
      BY <2>1, DownloadIs
    <3>2. d <= latest /\ latest' = latest
      BY <2>1, <3>1, DownloadIs, DayIs
    <3> QED
      BY <1>1, <3>1, <3>2 DEF TypedRaw
  <2>2. CASE raw' = raw
    BY <2>2
  <2> QED
    BY <1>1, <2>1, <2>2, StepCases, RebuildIs, FinishIs, RollUpIs, RecomputeIs, RecordIs DEF data
<1>4. latest' >= latest
  <2>1. latest \in Nat
    BY <1>1, DayTyped DEF TypedCycle
  <2> QED
    BY <1>1, <2>1, StepCases, DownloadIs, RebuildIs, FinishIs, RollUpIs, RecomputeIs, RecordIs
<1>5. ASSUME NEW e \in Exchanges, NEW d \in raw'[e] PROVE d <= latest'
  <2>1. d \in Nat /\ latest \in Nat /\ latest' \in Nat
    BY <1>1, DayTyped DEF TypedRaw, TypedCycle
  <2>2. d \in raw[e] => d <= latest
    BY DEF NotAhead
  <2> QED
    BY <1>3, <1>4, <2>1, <2>2
<1>6. ASSUME NEW e \in Exchanges, freshness'[e] # 0 PROVE freshness'[e] \in raw'[e]
  BY <1>1, <1>2, <1>6, FreshnessIs, LastPersistedIs DEF NotAhead
<1>7. ASSUME NEW e \in Exchanges, adjusted_to'[e] # 0 PROVE adjusted_to'[e] \in raw'[e]
  <2>1. CASE adjusted_to' = adjusted_to
    BY <1>2, <1>7, <2>1 DEF NotAhead
  <2>2. CASE RebuildBatch
    BY <1>1, <1>2, <1>7, <2>2, RebuildIs DEF NotAhead, TypedAdjusted
  <2>3. CASE FinishAdjust
    <3>1. adjusted_to'[e] \in {adjusted_to[e], LastPersisted(e)}
      BY <1>1, <2>3, FinishIs DEF TypedAdjusted
    <3> QED
      BY <1>1, <1>2, <1>7, <3>1, LastPersistedIs DEF NotAhead
  <2> QED
    BY <1>1, <2>1, <2>2, <2>3, StepCases, DownloadIs, RollUpIs, RecomputeIs, RecordIs DEF data
<1> QED
  BY <1>5, <1>6, <1>7 DEF NotAhead

(* The walk of STEP 2 is the only one that has dealt with a day. *)
LEMMA WalkedIs ==
  ASSUME TypeOK, Control, [Next]_vars
  PROVE  walked' = 0 \/ DownloadDay \/ UNCHANGED vars
<1>1. walked # 0 => step = "download"
  BY DEF Control
<1>2. NextExchange \/ BackToIdle => walked' = 0
  BY DEF NextExchange, BackToIdle
<1>3. CASE \E d \in TradingDays : StartCycle(d)
  BY <1>1, <1>3 DEF StartCycle
<1>4. CASE AdjustGate \/ RollupGate
  BY <1>1, <1>2, <1>4 DEF AdjustGate, RollupGate, LookAt, Rollups
<1>5. CASE RebuildBatch
  BY <1>1, <1>2, <1>5 DEF RebuildBatch
<1>6. CASE RollUpPeriod
  BY <1>1, <1>2, <1>6 DEF RollUpPeriod, NextPeriod, AfterFailedPeriod, Rollups
<1>7. CASE Activate \/ PoolDone
  BY <1>1, <1>7 DEF Activate, PoolDone
<1>8. CASE \E i \in Indicators : Runner(i)
  BY <1>1, <1>8 DEF Runner, RunnerStarts, RunnerRecomputes, RunnerRecords,
                   RunnerDeactivates, Becomes
<1> QED
  BY <1>2, <1>3, <1>4, <1>5, <1>6, <1>7, <1>8
     DEF Next, Cycle, Skipped, CalendarUnknown, FetchActions, FinishAdjust, EndCycle, Crash

LEMMA NoHoleStep ==
  ASSUME TypeOK, Control, NotAhead, NoHole, [Next]_vars
  PROVE  NoHole'
<1>1. TypedRaw /\ TypedCycle
  BY TypeOKParts
<1>2. CASE DownloadDay
  <2> DEFINE e == Current
  <2>1. e \in Exchanges /\ step = "download" /\ Gap(e) /\ freshness' = freshness
    BY <1>2, DownloadIs
  <2>2. PICK d \in TradingDays :
          /\ d = Min(PendingDays(e))
          /\ raw' \in {raw, [raw EXCEPT ![e] = @ \cup {d}]}
          /\ missed' \in {missed, [missed EXCEPT ![e] = @ \cup {d}]}
          /\ \/ NextExchange
             \/ /\ walked' = d /\ UNCHANGED <<step, todo>>
                /\ d \in raw'[e] \cup missed'[e]
    BY <1>2, DownloadIs
  <2>3. /\ freshness[e] < d
        /\ \A t \in TradingDays : freshness[e] < t /\ t < d => t <= walked
    BY <2>1, <2>2, DayIs
  <2>4. /\ freshness[e] # 0 => freshness[e] \in raw[e]
        /\ \A t \in TradingDays : freshness[e] < t /\ t <= walked =>
             t \in raw[e] \cup missed[e]
    BY <2>1 DEF NotAhead, NoHole
  <2> HIDE DEF e
  <2>5. freshness[e] \in 0 .. LastDay /\ freshness[e] \in Nat
    BY <1>1, <2>1, DayTyped DEF TypedCycle
  <2>6. \A t \in TradingDays : t \in Nat /\ t >= 1
    BY DayTyped
  <2>7. ASSUME NEW t \in TradingDays, t < d PROVE t \in raw[e] \cup missed[e]
    <3>1. CASE freshness[e] < t
      BY <2>3, <2>4, <2>7, <3>1
    <3>2. CASE t = freshness[e]
      BY <2>4, <2>6, <3>2
    <3>3. CASE t < freshness[e]
      <4>1. freshness[e] \in raw[e]
        BY <2>4, <2>5, <2>6, <3>3
      <4> QED
        BY <2>1, <3>3, <4>1 DEF NoHole
    <3> QED
      BY <2>5, <2>6, <3>1, <3>2, <3>3
  <2>8. \A x \in Exchanges :
          /\ raw[x] \subseteq raw'[x] /\ missed[x] \subseteq missed'[x]
          /\ \A m \in raw'[x] : m \in raw[x] \/ (x = e /\ m = d)
    BY <1>1, <2>1, <2>2 DEF TypedRaw
  <2>9. ASSUME NEW x \in Exchanges, NEW m \in raw'[x], NEW t \in TradingDays, t < m
        PROVE  t \in raw'[x] \cup missed'[x]
    <3>1. CASE m \in raw[x]
      BY <2>8, <2>9, <3>1 DEF NoHole
    <3>2. CASE x = e /\ m = d
      BY <2>7, <2>8, <2>9, <3>2
    <3> QED
      BY <2>8, <3>1, <3>2
  <2>10. ASSUME NEW t \in TradingDays, step' = "download",
                freshness'[Current'] < t, t <= walked'
         PROVE  t \in raw'[Current'] \cup missed'[Current']
    <3>1. CASE NextExchange
      <4>1. walked' = 0
        BY <3>1 DEF NextExchange
      <4>2. Current' \in Exchanges
        BY DEF Current, Exchanges
      <4> QED
        BY <2>6, <2>10, <4>1
    <3>2. CASE /\ walked' = d /\ UNCHANGED <<step, todo>>
               /\ d \in raw'[e] \cup missed'[e]
      <4>1. Current' = e
        BY <3>2 DEF Current, e
      <4>2. t < d \/ t = d
        BY <2>6, <2>10, <3>2
      <4> QED
        BY <2>1, <2>7, <2>8, <3>2, <4>1, <4>2
    <3> QED
      BY <2>2, <3>1, <3>2
  <2> QED
    BY <2>9, <2>10 DEF NoHole
<1>3. CASE UNCHANGED vars
  BY <1>3 DEF NoHole, vars, localVars, cycleVars, rawVars, Current
<1>4. CASE ~DownloadDay /\ walked' = 0
  <2>1. raw' = raw /\ missed' = missed
    BY <1>1, <1>4, StepCases, RebuildIs, FinishIs, RollUpIs, RecomputeIs, RecordIs DEF data
  <2>2. Current' \in Exchanges
    BY DEF Current, Exchanges
  <2>3. freshness'[Current'] \in Nat
    BY <2>2, CycleTyped, DayTyped DEF TypedCycle
  <2>4. \A t \in TradingDays : t \in Nat /\ t >= 1
    BY DayTyped
  <2> QED
    BY <1>4, <2>1, <2>3, <2>4 DEF NoHole
<1> QED
  BY <1>2, <1>3, <1>4, WalkedIs

(* Work on an exchange begins when its own freshness is looked at. *)
LEMMA WorkIs ==
  ASSUME TypeOK, Control, [Next]_vars, at' = "work"
  PROVE  \/ UNCHANGED vars
         \/ /\ AdjustGate \/ RollupGate
            /\ UNCHANGED <<step, todo, raw, reported, adjusted, rolled>>
            /\ period' = FirstPeriod
            /\ left' = IF step = "adjust" /\ raw[Current] # {} THEN Batches ELSE {}
         \/ RebuildBatch /\ UNCHANGED <<step, todo>>
         \/ /\ RollUpPeriod /\ NextPeriod
            /\ period' = period + Length(step) /\ UNCHANGED <<step, todo>>
<1>1. ~NextExchange /\ ~BackToIdle
  BY DEF NextExchange, BackToIdle
<1>2. at = "work" => step \in {"adjust"} \cup Rollups
  BY DEF Control
<1>3. at # "work" => at' # at
  OBVIOUS
<1>4. CASE AdjustGate \/ RollupGate
  BY <1>1, <1>4 DEF AdjustGate, RollupGate, LookAt, rawVars, adjVars, rollVars
<1>5. CASE RebuildBatch
  BY <1>1, <1>5 DEF RebuildBatch
<1>6. CASE RollUpPeriod
  BY <1>1, <1>6 DEF RollUpPeriod, AfterFailedPeriod, NextPeriod
<1>7. CASE \E d \in TradingDays : StartCycle(d)
  BY <1>2, <1>3, <1>7, Names DEF StartCycle
<1>8. CASE DownloadDay
  BY <1>1, <1>2, <1>3, <1>8, Names DEF DownloadDay, GoOn, AfterFailedDay
<1>9. CASE Activate \/ PoolDone
  BY <1>2, <1>3, <1>9, Names DEF Activate, PoolDone
<1>10. CASE \E i \in Indicators : Runner(i)
  BY <1>2, <1>3, <1>10, Names
     DEF Runner, RunnerStarts, RunnerRecomputes, RunnerRecords, RunnerDeactivates, Becomes
<1> QED
  BY <1>1, <1>4, <1>5, <1>6, <1>7, <1>8, <1>9, <1>10
     DEF Next, Cycle, Skipped, CalendarUnknown, FetchActions, FinishAdjust, EndCycle, Crash

LEMMA RebuildingStep ==
  ASSUME TypeOK, Shape, Control, Rebuilding, [Next]_vars
  PROVE  Rebuilding'
<1> SUFFICES ASSUME step' = "adjust", at' = "work", NEW b \in Batches, b \notin left'
             PROVE  adjusted'[Current'][b] = Rebuilt(Current)'
  BY DEF Rebuilding
<1>1. TypedRaw /\ TypedAdjusted
  BY TypeOKParts
<1>2. Current \in Exchanges
  BY CurrentTyped
<1>3. CASE UNCHANGED vars
  <2>1. Current' = Current /\ Rebuilt(Current)' = Rebuilt(Current)
    BY <1>3 DEF vars, localVars, rawVars, Current, Rebuilt, Matched
  <2> QED
    BY <1>3, <2>1 DEF vars, localVars, adjVars, Rebuilding
<1>4. CASE /\ AdjustGate \/ RollupGate
           /\ UNCHANGED <<step, todo, raw, reported, adjusted, rolled>>
           /\ left' = IF step = "adjust" /\ raw[Current] # {} THEN Batches ELSE {}
  <2>1. Current' = Current /\ Rebuilt(Current)' = Rebuilt(Current)
    BY <1>4 DEF Current, Rebuilt, Matched
  <2>2. raw[Current] = {}
    BY <1>4
  <2>3. DOMAIN adjusted[Current][b] = {} /\ adjusted[Current][b] \in Table(SUBSET ActionDates)
    <3>1. DOMAIN adjusted[Current][b] \subseteq {}
      BY <1>1, <1>2, <2>2 DEF TypedAdjusted
    <3>2. adjusted[Current] \in [Batches -> Table(SUBSET ActionDates)]
      BY <1>2 DEF Shape
    <3> QED
      BY <3>1, <3>2
  <2>4. DOMAIN Rebuilt(Current) = {} /\ Rebuilt(Current) \in Table(SUBSET ActionDates)
    BY <1>1, <1>2, <2>2, RebuiltIs
  <2>5. \A f \in Table(SUBSET ActionDates) : DOMAIN f = {} => f = << >>
    BY DEF Table
  <2> QED
    BY <1>4, <2>1, <2>3, <2>4, <2>5
<1>5. CASE RebuildBatch /\ UNCHANGED <<step, todo>>
  <2> DEFINE e == Current
  <2>1. /\ step = "adjust" /\ at = "work" /\ e \in Exchanges
        /\ raw' = raw /\ reported' = reported
    BY <1>5, RebuildIs
  <2>2. ~NextExchange
    BY DEF NextExchange
  <2>3. PICK c \in left : /\ adjusted' = [adjusted EXCEPT ![e][c] = Rebuilt(e)]
                          /\ left' = left \ {c}
    BY <1>5, <2>2, RebuildIs
  <2>4. Current' = e /\ Rebuilt(Current)' = Rebuilt(e)
    BY <1>5, <2>1 DEF Current, Rebuilt, Matched
  <2>5. c \in Batches /\ adjusted \in [Exchanges -> [Batches -> Table(SUBSET ActionDates)]]
    BY <2>3 DEF TypeOK, Shape
  <2> HIDE DEF e
  <2>6. adjusted'[e][b] = IF b = c THEN Rebuilt(e) ELSE adjusted[e][b]
    BY <2>1, <2>3, <2>5
  <2>7. b # c => b \notin left
    BY <2>3
  <2>8. b # c => adjusted[e][b] = Rebuilt(e)
    BY <2>1, <2>7 DEF Rebuilding, e
  <2> QED
    BY <2>4, <2>6, <2>8
<1>6. CASE RollUpPeriod /\ UNCHANGED <<step, todo>>
  BY <1>6, RollUpIs, Names
<1> QED
  BY <1>3, <1>4, <1>5, <1>6, WorkIs

LEMMA CompleteStep ==
  ASSUME TypeOK, Shape, Control, NotAhead, NoHole, Rebuilding, Complete, [Next]_vars
  PROVE  Complete'
<1>1. TypedRaw /\ TypedCycle /\ TypedAdjusted
  BY TypeOKParts
<1>2. CASE UNCHANGED <<raw, missed, adjusted, adjusted_to>>
  BY <1>2 DEF Complete
<1>3. CASE DownloadDay
  <2> SUFFICES ASSUME NEW e \in Exchanges, NEW b \in Batches,
                      NEW d \in raw'[e] \ missed'[e], d <= adjusted_to[e]
               PROVE  d \in DOMAIN adjusted[e][b]
    BY <1>3, DownloadIs DEF Complete
  <2>1. PICK new \in TradingDays :
          /\ raw' \in {raw, [raw EXCEPT ![Current] = @ \cup {new}]}
          /\ missed' \in {missed, [missed EXCEPT ![Current] = @ \cup {new}]}
    BY <1>3, DownloadIs
  <2>2. d \notin missed[e] /\ d \in TradingDays
    BY <1>1, <2>1 DEF TypedRaw
  <2>3. d \in raw[e]
    <3>1. SUFFICES ASSUME d \notin raw[e] PROVE FALSE
      OBVIOUS
    <3>2. d \in Nat /\ d >= 1 /\ adjusted_to[e] \in Nat
      BY <1>1, <2>2, DayTyped DEF TypedAdjusted
    <3>3. adjusted_to[e] \in raw[e]
      BY <3>2 DEF NotAhead
    <3>4. d < adjusted_to[e]
      BY <3>1, <3>2, <3>3
    <3> QED
      BY <2>2, <3>1, <3>3, <3>4 DEF NoHole
  <2> QED
    BY <2>2, <2>3 DEF Complete
<1>4. CASE RebuildBatch
  <2> SUFFICES ASSUME NEW e \in Exchanges, NEW b \in Batches,
                      NEW d \in raw[e] \ missed[e], d <= adjusted_to'[e]
               PROVE  d \in DOMAIN adjusted'[e][b]
    BY <1>4, RebuildIs DEF Complete
  <2>1. adjusted_to' \in {adjusted_to, [adjusted_to EXCEPT ![Current] = 0]}
    BY <1>4, RebuildIs
  <2>2. adjusted_to'[e] \in {adjusted_to[e], 0}
    BY <1>1, <2>1 DEF TypedAdjusted
  <2>3. d \in Nat /\ d >= 1
    BY <1>1, DayTyped DEF TypedRaw
  <2>4. d <= adjusted_to[e]
    BY <2>2, <2>3
  <2> QED
    BY <1>4, <2>4, AdjustedTyped DEF Complete
<1>5. CASE FinishAdjust
  <2> SUFFICES ASSUME NEW e \in Exchanges, NEW b \in Batches,
                      NEW d \in raw[e] \ missed[e], d <= adjusted_to'[e]
               PROVE  d \in DOMAIN adjusted[e][b]
    BY <1>5, FinishIs DEF Complete
  <2>1. CASE e = Current
    <3>1. adjusted[e][b] = Rebuilt(e)
      BY <1>5, <2>1, FinishIs DEF Rebuilding
    <3> QED
      BY <1>1, <3>1, RebuiltIs
  <2>2. CASE e # Current
    <3>1. adjusted_to'[e] = adjusted_to[e]
      BY <1>1, <1>5, <2>2, FinishIs DEF TypedAdjusted
    <3> QED
      BY <3>1 DEF Complete
  <2> QED
    BY <2>1, <2>2
<1> QED
  BY <1>1, <1>2, <1>3, <1>4, <1>5, StepCases, RollUpIs, RecomputeIs, RecordIs DEF data

-----------------------------------------------------------------------------
(* STEPS 5 to 8: derived tables follow what they are computed from.        *)

LEMMA EmptyTable ==
  ASSUME NEW V, NEW f \in Table(V)
  PROVE  f = << >> <=> DOMAIN f = {}
  BY DEF Table

LEMMA PeriodEndsAt ==
  TypedCycle => \A r \in Rollups, p \in Days :
    /\ PeriodEnd(r, p) =
         IF p + Length(r) - 1 <= latest THEN p + Length(r) - 1 ELSE latest
    /\ PeriodEnd(r, p) \in 0 .. LastDay /\ PeriodEnd(r, p) < p + Length(r)
    /\ PeriodEnd(r, p) <= latest
  BY PeriodEndIs DEF TypedCycle

LEMMA PeriodEndsAtNext ==
  (TypedCycle => \A r \in Rollups, p \in Days :
    /\ PeriodEnd(r, p) =
         IF p + Length(r) - 1 <= latest THEN p + Length(r) - 1 ELSE latest
    /\ PeriodEnd(r, p) \in 0 .. LastDay /\ PeriodEnd(r, p) < p + Length(r)
    /\ PeriodEnd(r, p) <= latest)'
  BY PeriodEndsAt, PTL

LEMMA SourceAt ==
  TypedRaw /\ TypedAdjusted =>
    \A i \in Indicators, e \in Exchanges, b \in Batches :
      /\ i = "daily" => Source(i, e)[b] = adjusted[e][b]
      /\ i \in Rollups =>
           DOMAIN Source(i, e)[b] = {p \in Days : rolled[i][e][p][b] # << >>}
      /\ DOMAIN Source(i, e)[b] \subseteq Days
  BY SourceIs

LEMMA SourceAtNext ==
  (TypedRaw /\ TypedAdjusted =>
    \A i \in Indicators, e \in Exchanges, b \in Batches :
      /\ i = "daily" => Source(i, e)[b] = adjusted[e][b]
      /\ i \in Rollups =>
           DOMAIN Source(i, e)[b] = {p \in Days : rolled[i][e][p][b] # << >>}
      /\ DOMAIN Source(i, e)[b] \subseteq Days)'
  BY SourceAt, PTL

(* The end of an open period moves with the days, never back. *)
LEMMA PeriodEndGrows ==
  ASSUME TypeOK, [Next]_vars, NEW r \in Rollups, NEW p \in Days
  PROVE  PeriodEnd(r, p) <= PeriodEnd(r, p)' /\ PeriodEnd(r, p)' \in 0 .. LastDay
<1>1. TypedCycle /\ TypedCycle'
  BY CycleTyped, TypeOKParts
<1>2. latest \in Nat /\ latest' \in Nat /\ p \in Nat /\ Length(r) \in Nat
  BY <1>1, DayTyped, LengthTyped DEF TypedCycle
<1>3. latest <= latest'
  BY <1>1, <1>2, StepCases
     DEF DownloadDay, RebuildBatch, FinishAdjust, RollUpPeriod, RunnerRecomputes,
         RunnerRecords, cycleVars
<1>4. PeriodEnd(r, p) = IF p + Length(r) - 1 <= latest THEN p + Length(r) - 1 ELSE latest
  BY <1>1, PeriodEndsAt
<1>5. /\ PeriodEnd(r, p)' =
           IF p + Length(r) - 1 <= latest' THEN p + Length(r) - 1 ELSE latest'
      /\ PeriodEnd(r, p)' \in 0 .. LastDay
  <2>1. Length(r)' = Length(r)
    BY DEF Length
  <2> QED
    BY <1>1, <2>1, PeriodEndsAtNext
<1> QED
  BY <1>2, <1>3, <1>4, <1>5

LEMMA Apply3 ==
  ASSUME NEW A, NEW B, NEW C, NEW V, NEW f \in [A -> [B -> [C -> V]]],
         NEW a \in A, NEW b \in B, NEW c \in C
  PROVE  f[a][b][c] \in V
<1>1. f[a] \in [B -> [C -> V]]
  OBVIOUS
<1>2. f[a][b] \in [C -> V]
  BY <1>1
<1> QED
  BY <1>2

LEMMA RolledRows ==
  ASSUME NEW f \in [Rollups -> [Exchanges -> [Days ->
                      [Batches -> Table(SUBSET ActionDates)]]]],
         NEW r \in Rollups, NEW e \in Exchanges, NEW p \in Days
  PROVE  f[r][e][p] \in [Batches -> Table(SUBSET ActionDates)]
<1> DEFINE V == [Batches -> Table(SUBSET ActionDates)]
<1>1. f \in [Rollups -> [Exchanges -> [Days -> V]]]
  OBVIOUS
<1> HIDE DEF V
<1>2. f[r][e][p] \in V
  BY <1>1, Apply3
<1> QED
  BY <1>2 DEF V

(* STEPS 5 and 6 replace the rows of a period by rows of the same days or  *)
(* more: a period that has rows keeps them, whatever fails.                *)
LEMMA RolledGrows ==
  ASSUME TypeOK, Shape, Control, Within, [Next]_vars,
         NEW r \in Rollups, NEW e \in Exchanges, NEW p \in Days, NEW b \in Batches
  PROVE  /\ DOMAIN rolled[r][e][p][b] \subseteq DOMAIN rolled'[r][e][p][b]
         /\ DOMAIN rolled'[r][e][p][b]
              \subseteq DOMAIN adjusted[e][b] \cap p .. PeriodEnd(r, p)
         /\ rolled[r][e][p][b] # << >> => rolled'[r][e][p][b] # << >>
<1>1. /\ DOMAIN rolled[r][e][p][b]
           \subseteq DOMAIN adjusted[e][b] \cap p .. PeriodEnd(r, p)
  BY DEF Within
<1>2. CASE rolled' = rolled
  BY <1>1, <1>2
<1>3. CASE RollUpPeriod
  <2> DEFINE rows == DailyRows(Current, period, PeriodEnd(step, period))
  <2>1. /\ step \in Rollups /\ at = "work" /\ Current \in Exchanges
        /\ \/ rolled' = [rolled EXCEPT ![step][Current][period] = rows]
           \/ rolled' = rolled
    BY <1>3, RollUpIs
  <2>2. period \in Days
    BY <2>1 DEF Control, Periods
  <2>3. DOMAIN rows[b] = DOMAIN adjusted[Current][b] \cap period .. PeriodEnd(step, period)
    BY <2>1, DailyRowsIs
  <2> HIDE DEF rows
  <2>4. \E v : /\ v[b] \in {rows[b], rolled[step][Current][period][b]}
               /\ \/ rolled' = [rolled EXCEPT ![step][Current][period] = v]
                  \/ rolled' = rolled
    BY <2>1
  <2>5. PICK v : /\ v[b] \in {rows[b], rolled[step][Current][period][b]}
                 /\ \/ rolled' = [rolled EXCEPT ![step][Current][period] = v]
                    \/ rolled' = rolled
    BY <2>4
  <2>6. \/ rolled'[r][e][p] = rolled[r][e][p]
        \/ r = step /\ e = Current /\ p = period /\ rolled'[r][e][p] = v
    BY <2>1, <2>2, <2>5 DEF Shape
  <2>7. CASE rolled'[r][e][p] = rolled[r][e][p]
    BY <1>1, <2>7
  <2>8. CASE r = step /\ e = Current /\ p = period /\ rolled'[r][e][p] = v
    <3>1. CASE v[b] = rolled[r][e][p][b]
      BY <1>1, <2>8, <3>1
    <3>2. CASE v[b] = rows[b]
      <4>1. /\ DOMAIN rolled'[r][e][p][b]
                 = DOMAIN adjusted[e][b] \cap p .. PeriodEnd(r, p)
        BY <2>3, <2>8, <3>2
      <4>2. /\ rolled[r][e][p][b] \in Table(SUBSET ActionDates)
            /\ rolled'[r][e][p][b] \in Table(SUBSET ActionDates)
        <5>1. rolled[r][e][p] \in [Batches -> Table(SUBSET ActionDates)]
          BY RolledRows DEF Shape
        <5>2. rolled'[r][e][p] \in [Batches -> Table(SUBSET ActionDates)]
          BY RolledTyped, RolledRows
        <5> QED
          BY <5>1, <5>2
      <4>3. rolled[r][e][p][b] # << >> => DOMAIN rolled[r][e][p][b] # {}
        BY <4>2, EmptyTable
      <4>4. DOMAIN rolled'[r][e][p][b] # {} => rolled'[r][e][p][b] # << >>
        BY <4>2, EmptyTable
      <4> QED
        BY <1>1, <4>1, <4>3, <4>4
    <3> QED
      BY <2>5, <2>8, <3>1, <3>2
  <2> QED
    BY <2>6, <2>7, <2>8
<1> QED
  BY <1>2, <1>3, StepCases, TypeOKParts, DownloadIs, RebuildIs, FinishIs, RecomputeIs,
     RecordIs DEF data

(* No row of what an indicator reads is taken away again. *)
LEMMA SourceGrows ==
  ASSUME TypeOK, Shape, Control, Within, [Next]_vars,
         NEW i \in Indicators, NEW e \in Exchanges, NEW b \in Batches
  PROVE  DOMAIN Source(i, e)[b] \subseteq DOMAIN (Source(i, e)[b])'
<1>1. TypedRaw /\ TypedAdjusted /\ TypedRaw' /\ TypedAdjusted'
  BY TypeOKParts, RawTyped, AdjustedTyped
<1>2. CASE i = "daily"
  BY <1>1, <1>2, SourceAt, SourceAtNext, AdjustedTyped
<1>3. CASE i \in Rollups
  <2>1. DOMAIN Source(i, e)[b] = {p \in Days : rolled[i][e][p][b] # << >>}
    BY <1>1, <1>3, SourceAt
  <2>2. DOMAIN (Source(i, e)[b])' = {p \in Days : rolled'[i][e][p][b] # << >>}
    BY <1>1, <1>3, SourceAtNext
  <2> QED
    BY <1>3, <2>1, <2>2, RolledGrows
<1> QED
  BY <1>2, <1>3, Names

(* What STEP 8 does to a workbook: batch by batch the source, or nothing. *)
LEMMA WorkbookGrows ==
  ASSUME TypeOK, Shape, Control, Within, [Next]_vars,
         NEW i \in Indicators, NEW e \in Exchanges, NEW b \in Batches
  PROVE  /\ DOMAIN workbook[i][e][b] \subseteq DOMAIN workbook'[i][e][b]
         /\ DOMAIN workbook'[i][e][b] \subseteq DOMAIN Source(i, e)[b]
<1>1. DOMAIN workbook[i][e][b] \subseteq DOMAIN Source(i, e)[b]
  BY DEF Within
<1>2. CASE workbook' = workbook
  BY <1>1, <1>2
<1>3. CASE \E x \in Indicators : \E y \in Exchanges : RunnerRecomputes(x, y)
  <2>1. PICK x \in Indicators, y \in Exchanges : RunnerRecomputes(x, y)
    BY <1>3
  <2>2. PICK v : /\ workbook' = [workbook EXCEPT ![x][y] = v]
                 /\ v[b] \in {Source(x, y)[b], workbook[x][y][b]}
    BY <2>1, RecomputeIs DEF Partly
  <2>3. \/ workbook'[i][e] = workbook[i][e]
        \/ x = i /\ y = e /\ workbook'[i][e] = v
    BY <2>2 DEF Shape
  <2> QED
    BY <1>1, <2>2, <2>3
<1> QED
  BY <1>2, <1>3, StepCases, TypeOKParts, DownloadIs, RebuildIs, FinishIs, RollUpIs, RecordIs
     DEF data

LEMMA WithinStep ==
  ASSUME TypeOK, Shape, Control, Within, [Next]_vars
  PROVE  Within'
<1>1. ASSUME NEW r \in Rollups, NEW e \in Exchanges, NEW p \in Days, NEW b \in Batches
      PROVE  DOMAIN rolled'[r][e][p][b]
               \subseteq DOMAIN adjusted'[e][b] \cap p .. PeriodEnd(r, p)'
  <2>1. /\ PeriodEnd(r, p) \in Int /\ PeriodEnd(r, p)' \in Int
        /\ PeriodEnd(r, p) <= PeriodEnd(r, p)' /\ p \in Int
    BY PeriodEndGrows, PeriodEndsAt, TypeOKParts, DayTyped
  <2>2. p .. PeriodEnd(r, p) \subseteq p .. PeriodEnd(r, p)'
    BY <2>1
  <2> QED
    BY <2>2, RolledGrows, AdjustedTyped
<1>2. ASSUME NEW i \in Indicators, NEW e \in Exchanges, NEW b \in Batches
      PROVE  DOMAIN workbook'[i][e][b] \subseteq DOMAIN (Source(i, e)[b])'
  BY SourceGrows, WorkbookGrows
<1> QED
  BY <1>1, <1>2 DEF Within

-----------------------------------------------------------------------------
(* The walks of STEPS 5 and 6.                                             *)

LEMMA StillRolledUp ==
  ASSUME TypeOK, Shape, Control, Within, [Next]_vars,
         NEW r \in Rollups, NEW e \in Exchanges, NEW p \in Days,
         rolled[r][e][p] # NoRows
  PROVE  rolled'[r][e][p] # NoRows
<1>1. rolled[r][e][p] \in [Batches -> Table(SUBSET ActionDates)]
  BY RolledRows DEF Shape
<1>2. \E b \in Batches : rolled[r][e][p][b] # << >>
  BY <1>1 DEF NoRows
<1>3. \E b \in Batches : rolled'[r][e][p][b] # << >>
  BY <1>2, RolledGrows
<1> QED
  BY <1>3 DEF NoRows

LEMMA RecordedStep ==
  ASSUME TypeOK, Shape, Control, Within, Recorded, RollingUp, [Next]_vars
  PROVE  Recorded'
<1>1. TypedCycle /\ TypedRolled
  BY TypeOKParts
<1>2. \A r : Periods(r)' = Periods(r) /\ Length(r)' = Length(r) /\ Periods(r) \subseteq Days
  BY DEF Periods, PeriodStart, Length
<1> SUFFICES ASSUME NEW r \in Rollups, NEW e \in Exchanges, NEW q \in Days,
                    rolled_to'[r][e][q] # 0
             PROVE  /\ q \in Periods(r) /\ rolled_to'[r][e][q] < q + Length(r)
                    /\ \A p \in Periods(r) : p <= q => rolled'[r][e][p] # NoRows
  BY <1>2 DEF Recorded, NoRows
<1>3. CASE rolled_to'[r][e][q] = rolled_to[r][e][q]
  <2>1. /\ q \in Periods(r) /\ rolled_to[r][e][q] < q + Length(r)
        /\ \A p \in Periods(r) : p <= q => rolled[r][e][p] # NoRows
    BY <1>3 DEF Recorded
  <2> QED
    BY <1>2, <1>3, <2>1, StillRolledUp
<1>4. CASE rolled_to'[r][e][q] # rolled_to[r][e][q]
  <2>1. RollUpPeriod
    BY <1>1, <1>4, StepCases, DownloadIs, RebuildIs, FinishIs, RecomputeIs, RecordIs DEF data
  <2> DEFINE rows == DailyRows(Current, period, PeriodEnd(step, period))
  <2>2. /\ step \in Rollups /\ at = "work" /\ Current \in Exchanges
        /\ rows # NoRows
        /\ rolled' = [rolled EXCEPT ![step][Current][period] = rows]
        /\ rolled_to' = [rolled_to EXCEPT
                           ![step][Current][period] = PeriodEnd(step, period)]
    BY <1>4, <2>1, RollUpIs
  <2>3. period \in Periods(step) /\ period \in Days
    BY <1>2, <2>2 DEF Control
  <2> HIDE DEF rows
  <2>4. r = step /\ e = Current /\ q = period
    BY <1>1, <1>4, <2>2, <2>3 DEF TypedRolled
  <2>5. rolled_to'[r][e][q] = PeriodEnd(step, period) /\ rolled'[r][e][q] = rows
    BY <1>1, <2>2, <2>3, <2>4 DEF TypedRolled, Shape
  <2>6. PeriodEnd(step, period) < period + Length(step)
    BY <1>1, <2>2, <2>3, PeriodEndsAt
  <2>7. ASSUME NEW p \in Periods(r), p <= q PROVE rolled'[r][e][p] # NoRows
    <3>1. p \in Days /\ p \in Nat /\ q \in Nat
      BY <1>2, DayTyped
    <3>2. CASE p = q
      BY <2>2, <2>5, <3>2
    <3>3. CASE p < q
      BY <2>2, <2>4, <3>1, <3>3, StillRolledUp DEF RollingUp
    <3> QED
      BY <2>7, <3>1, <3>2, <3>3
  <2> QED
    BY <2>3, <2>4, <2>5, <2>6, <2>7
<1> QED
  BY <1>3, <1>4

LEMMA RollingUpStep ==
  ASSUME TypeOK, Shape, Control, Within, RollingUp, [Next]_vars
  PROVE  RollingUp'
<1>1. \A r : Periods(r)' = Periods(r) /\ Periods(r) \subseteq Days
  BY DEF Periods, PeriodStart, Length
<1> SUFFICES ASSUME step' \in Rollups, at' = "work",
                    NEW p \in Periods(step'), p < period'
             PROVE  rolled'[step'][Current'][p] # NoRows
  BY <1>1 DEF RollingUp, NoRows, Rollups
<1>2. p \in Days /\ p \in Nat /\ p >= 1
  BY <1>1, DayTyped
<1>3. CASE UNCHANGED vars
  BY <1>3 DEF RollingUp, vars, localVars, rollVars, Current
<1>4. CASE UNCHANGED step /\ period' = FirstPeriod
  <2>1. period' = 1
    BY <1>4, Names DEF FirstPeriod
  <2> QED
    BY <1>2, <2>1
<1>5. CASE RebuildBatch /\ UNCHANGED <<step, todo>>
  BY <1>5, RebuildIs, Names
<1>6. CASE /\ RollUpPeriod /\ NextPeriod
           /\ period' = period + Length(step) /\ UNCHANGED <<step, todo>>
  <2> DEFINE rows == DailyRows(Current, period, PeriodEnd(step, period))
  <2>1. ~NextExchange
    BY DEF NextExchange
  <2>2. /\ step \in Rollups /\ at = "work" /\ Current \in Exchanges
        /\ rows # NoRows
        /\ rolled' = [rolled EXCEPT ![step][Current][period] = rows]
    BY <1>6, <2>1, RollUpIs
  <2>3. period \in Periods(step) /\ period \in Days
    BY <1>1, <2>2 DEF Control
  <2>4. Current' = Current
    BY <1>6 DEF Current
  <2> HIDE DEF rows
  <2>5. rolled'[step][Current][period] = rows
    BY <2>2, <2>3 DEF Shape
  <2>6. p <= period
    BY <1>6, <2>2, <2>3, PeriodsApart
  <2>7. CASE p = period
    BY <1>6, <2>2, <2>4, <2>5, <2>7
  <2>8. CASE p < period
    BY <1>2, <1>6, <2>2, <2>4, <2>8, StillRolledUp DEF RollingUp
  <2>9. period \in Nat
    BY <2>3, DayTyped
  <2> QED
    BY <1>2, <2>6, <2>7, <2>8, <2>9
<1> QED
  BY <1>3, <1>4, <1>5, <1>6, WorkIs

-----------------------------------------------------------------------------
(* STEPS 7 and 8: the dates of the indicators.                             *)

(* A date of a workbook is no later than the last raw price. *)
LEMMA BookedBefore ==
  ASSUME TypeOK, Shape, Within, NEW i \in Indicators, NEW e \in Exchanges,
         NEW b \in Batches, NEW d \in DOMAIN workbook[i][e][b]
  PROVE  d \in Days /\ \E t \in raw[e] : d <= t
<1>1. TypedRaw /\ TypedAdjusted /\ TypedCycle
  BY TypeOKParts
<1>2. d \in DOMAIN Source(i, e)[b]
  BY DEF Within
<1>3. d \in Days /\ d \in Nat
  BY <1>1, <1>2, SourceAt, DayTyped
<1>4. CASE i = "daily"
  <2>1. d \in DOMAIN adjusted[e][b]
    BY <1>1, <1>2, <1>4, SourceAt
  <2>2. d \in raw[e] /\ d <= d
    BY <1>1, <1>3, <2>1 DEF TypedAdjusted
  <2> QED
    BY <1>3, <2>2
<1>5. CASE i \in Rollups
  <2>1. rolled[i][e][d][b] # << >>
    BY <1>1, <1>2, <1>5, SourceAt
  <2>2. rolled[i][e][d] \in [Batches -> Table(SUBSET ActionDates)]
    BY <1>3, <1>5, RolledRows DEF Shape
  <2>3. DOMAIN rolled[i][e][d][b] # {}
    <3>1. rolled[i][e][d][b] \in Table(SUBSET ActionDates)
      BY <2>2
    <3> QED
      BY <2>1, <3>1, EmptyTable
  <2>4. PICK t \in DOMAIN rolled[i][e][d][b] : TRUE
    BY <2>3
  <2>5. t \in DOMAIN adjusted[e][b] /\ t \in d .. PeriodEnd(i, d)
    BY <1>3, <1>5, <2>4 DEF Within
  <2>6. PeriodEnd(i, d) \in Int
    BY <1>1, <1>3, <1>5, PeriodEndsAt
  <2>7. t \in raw[e] /\ d <= t
    BY <1>1, <1>3, <2>5, <2>6 DEF TypedAdjusted
  <2> QED
    BY <1>3, <2>7
<1> QED
  BY <1>4, <1>5, Names

LEMMA BookedNotAhead ==
  ASSUME TypeOK, Shape, Within, NotAhead, NEW i \in Indicators
  PROVE  LastInWorkbook(i) <= latest
<1>1. TypedRaw /\ TypedAdjusted /\ TypedCycle
  BY TypeOKParts
<1>2. latest \in Nat
  BY <1>1, DayTyped DEF TypedCycle
<1>3. CASE LastInWorkbook(i) = 0
  BY <1>2, <1>3
<1>4. CASE LastInWorkbook(i) # 0
  <2>1. PICK e \in Exchanges, b \in Batches : LastInWorkbook(i) \in DOMAIN workbook[i][e][b]
    BY <1>1, <1>4, WorkbookIs DEF Dates
  <2>2. PICK t \in raw[e] : LastInWorkbook(i) <= t
    BY <2>1, BookedBefore
  <2>3. t <= latest /\ t \in Nat /\ LastInWorkbook(i) \in Nat
    BY <1>1, WorkbookIs, DayTyped DEF NotAhead, TypedRaw
  <2> QED
    BY <1>2, <2>2, <2>3
<1> QED
  BY <1>3, <1>4

LEMMA NotAheadOfWorkbook ==
  ASSUME TypeOK, Shape, Control, Within, IndicatorNotAhead, [Next]_vars
  PROVE  IndicatorNotAhead'
<1>1. TypedRaw /\ TypedAdjusted /\ TypedIndicators /\ TypedCycle
  BY TypeOKParts
<1>2. \A i \in Indicators, e \in Exchanges :
        Dates(workbook[i][e]) \subseteq Dates(workbook'[i][e])
  BY WorkbookGrows DEF Dates
<1> SUFFICES ASSUME NEW i \in Indicators, iwm'[i] # 0
             PROVE  \E e \in Exchanges : iwm'[i] \in Dates(workbook'[i][e])
  BY DEF IndicatorNotAhead, Dates
<1>3. CASE iwm'[i] = iwm[i]
  BY <1>2, <1>3 DEF IndicatorNotAhead
<1>4. CASE iwm'[i] # iwm[i]
  <2>1. PICK j \in Indicators : RunnerRecords(j)
    BY <1>1, <1>4, StepCases, DownloadIs, RebuildIs, FinishIs, RollUpIs, RecomputeIs DEF data
  <2>2. i = j /\ iwm'[i] = LastInWorkbook(i) /\ LastInWorkbook(i) # 0
    BY <1>1, <1>4, <2>1, RecordIs DEF TypedIndicators
  <2> QED
    BY <1>1, <1>2, <2>2, WorkbookIs
<1> QED
  BY <1>3, <1>4

DueStages == {"queued", "NSE", "BSE", "record"}

(* An indicator is computed only after STEP 7 has found it due. *)
LEMMA RunnerIs ==
  ASSUME TypeOK, [Next]_vars, NEW i \in Indicators, runner'[i] \in DueStages
  PROVE  /\ runner[i] \in DueStages \/ (step = "activate" /\ Pending(i, latest))
         /\ iwm'[i] = iwm[i]
<1> USE DEF DueStages
<1>1. runner \in [Indicators -> Stages] /\ iwm \in [Indicators -> 0 .. LastDay]
  BY DEF TypeOK
<1>2. CASE Activate
  BY <1>1, <1>2 DEF Activate
<1>3. CASE \E j \in Indicators : Runner(j)
  <2>1. PICK j \in Indicators : Runner(j)
    BY <1>3
  <2>2. CASE RunnerStarts(j)
    BY <1>1, <2>2 DEF RunnerStarts, Becomes, indVars
  <2>3. CASE \E e \in Exchanges : RunnerRecomputes(j, e)
    BY <1>1, <2>3, RecomputeIs DEF Becomes, Exchanges
  <2>4. CASE RunnerRecords(j)
    <3>1. i # j
      BY <1>1, <2>4, RecordIs DEF Becomes
    <3> QED
      BY <1>1, <2>4, <3>1, RecordIs DEF Becomes
  <2>5. CASE RunnerDeactivates(j)
    BY <1>1, <2>5 DEF RunnerDeactivates, Becomes
  <2> QED
    BY <2>1, <2>2, <2>3, <2>4, <2>5 DEF Runner
<1>4. CASE EndCycle \/ Crash
  BY <1>4 DEF EndCycle, Crash, BackToIdle
<1>5. CASE runner' = runner /\ iwm' = iwm
  BY <1>5
<1>6. NextExchange => runner' = runner
  BY DEF NextExchange
<1> QED
  BY <1>2, <1>3, <1>4, <1>5, <1>6
     DEF Next, Cycle, StartCycle, Skipped, CalendarUnknown, DownloadDay, GoOn,
         AfterFailedDay, FetchActions, AdjustGate, RollupGate, LookAt, RebuildBatch,
         FinishAdjust, RollUpPeriod, NextPeriod, AfterFailedPeriod, PoolDone,
         indVars, vars, localVars

LEMMA LatestGrows ==
  ASSUME TypeOK, [Next]_vars
  PROVE  latest \in Nat /\ latest' \in Nat /\ latest <= latest'
<1>1. latest \in Nat /\ latest' \in Nat
  BY CycleTyped, TypeOKParts, DayTyped DEF TypedCycle
<1> QED
  BY <1>1, StepCases, TypeOKParts
     DEF DownloadDay, RebuildBatch, FinishAdjust, RollUpPeriod, RunnerRecomputes,
         RunnerRecords, cycleVars

LEMMA StillDueStep ==
  ASSUME TypeOK, Control, StillDue, [Next]_vars
  PROVE  StillDue'
<1>1. TypedIndicators /\ TypedCycle
  BY TypeOKParts
<1>2. latest \in Nat /\ latest' \in Nat /\ latest <= latest'
  BY LatestGrows
<1>3. ASSUME NEW i \in Indicators, NEW d \in open_failures'[i] PROVE d <= latest'
  <2>1. d \in open_failures[i] \/ d = latest
    <3>1. CASE \E j \in Indicators : \E e \in Exchanges : RunnerRecomputes(j, e)
      BY <1>1, <1>3, <3>1, RecomputeIs DEF TypedIndicators
    <3>2. CASE \E j \in Indicators : RunnerRecords(j)
      BY <1>1, <1>3, <3>2, RecordIs DEF TypedIndicators
    <3>3. CASE open_failures' = open_failures
      BY <1>3, <3>3
    <3> QED
      BY <1>1, <3>1, <3>2, <3>3, StepCases, DownloadIs, RebuildIs, FinishIs, RollUpIs DEF data
  <2>2. d \in open_failures[i] => d <= latest /\ d \in Nat
    BY <1>1, DayTyped DEF StillDue, TypedIndicators
  <2> QED
    BY <1>2, <2>1, <2>2
<1>4. ASSUME NEW i \in Indicators, runner'[i] \in DueStages PROVE iwm'[i] < latest'
  <2>1. iwm'[i] = iwm[i] /\ iwm[i] < latest
    BY <1>4, RunnerIs DEF StillDue, DueStages, Pending
  <2>2. iwm[i] \in Nat
    BY <1>1, DayTyped DEF TypedIndicators
  <2> QED
    BY <1>2, <2>1, <2>2
<1> QED
  BY <1>3, <1>4 DEF StillDue, DueStages

LEMMA OpenFailureStep ==
  ASSUME TypeOK, Shape, Control, NotAhead, Within, StillDue, OpenFailureIsDue, [Next]_vars
  PROVE  OpenFailureIsDue'
<1>1. TypedIndicators /\ TypedCycle /\ TypedRaw /\ TypedAdjusted
  BY TypeOKParts
<1>2. latest \in Nat /\ latest' \in Nat /\ latest <= latest'
  BY LatestGrows
<1> SUFFICES ASSUME NEW i \in Indicators, latest' \in open_failures'[i]
             PROVE  iwm'[i] < latest'
  BY DEF OpenFailureIsDue, Pending
<1>3. CASE UNCHANGED <<iwm, open_failures>>
  <2>1. latest' <= latest
    BY <1>3 DEF StillDue
  <2>2. latest' = latest
    BY <1>2, <2>1
  <2> QED
    BY <1>3, <2>2 DEF OpenFailureIsDue, Pending
<1>4. CASE \E j \in Indicators : \E e \in Exchanges : RunnerRecomputes(j, e)
  <2>1. PICK j \in Indicators, e \in Exchanges : RunnerRecomputes(j, e)
    BY <1>4
  <2>2. /\ latest' = latest /\ iwm' = iwm /\ runner[j] \in {"NSE", "BSE"}
        /\ open_failures' \in {open_failures,
                               [open_failures EXCEPT ![j] = @ \cup {latest}]}
    BY <2>1, RecomputeIs, Names
  <2>3. i = j \/ open_failures'[i] = open_failures[i]
    BY <1>1, <2>2 DEF TypedIndicators
  <2> QED
    BY <2>2, <2>3 DEF StillDue, OpenFailureIsDue, Pending
<1>5. CASE \E j \in Indicators : RunnerRecords(j)
  <2>1. PICK j \in Indicators : RunnerRecords(j)
    BY <1>5
  <2> DEFINE L == LastInWorkbook(j)
  <2>2. latest' = latest
    BY <2>1, RecordIs
  <2>3. CASE UNCHANGED <<iwm, open_failures>>
    BY <2>2, <2>3 DEF OpenFailureIsDue, Pending
  <2>4. CASE /\ iwm' = [iwm EXCEPT ![j] = L]
             /\ open_failures' = [open_failures EXCEPT ![j] = @ \ {L}]
    <3>1. L <= latest /\ L \in Nat
      BY <1>1, BookedNotAhead, WorkbookIs, DayTyped
    <3> HIDE DEF L
    <3>2. CASE i = j
      <4>1. iwm'[i] = L /\ latest # L
        BY <1>1, <2>2, <2>4, <3>2 DEF TypedIndicators
      <4> QED
        BY <1>2, <2>2, <3>1, <4>1
    <3>3. CASE i # j
      BY <1>1, <2>2, <2>4, <3>3 DEF TypedIndicators, OpenFailureIsDue, Pending
    <3> QED
      BY <3>2, <3>3
  <2> QED
    BY <2>1, <2>3, <2>4, RecordIs
<1> QED
  BY <1>1, <1>3, <1>4, <1>5, StepCases, DownloadIs, RebuildIs, FinishIs, RollUpIs DEF data

-----------------------------------------------------------------------------
(* A cycle without a failure.                                              *)

LEMMA NotFault == clean' => ~Fault
  BY Zenon DEF Fault

LEMMA CleanIs ==
  ASSUME [Next]_vars, clean', step' # "idle" PROVE clean
<1>1. ~Fault
  BY NotFault
<1>2. ~BackToIdle
  BY DEF BackToIdle
<1>3. NoFault \/ UNCHANGED <<faults, clean>>
  BY <1>1, <1>2
     DEF Next, Cycle, Runner, StartCycle, Skipped, CalendarUnknown, DownloadDay,
         FetchActions, AdjustGate, LookAt, RebuildBatch, FinishAdjust, RollupGate,
         RollUpPeriod, Activate, PoolDone, EndCycle, Crash, RunnerStarts,
         RunnerRecomputes, RunnerRecords, RunnerDeactivates, vars
<1>4. clean' = clean
  BY <1>3 DEF NoFault
<1> QED
  BY <1>4, Zenon

(* The steps in their order, and the actions of each. *)
LEMMA ActionsOf ==
  ASSUME TypeOK, Control, [Next]_vars, step' # "idle"
  PROVE  \/ UNCHANGED vars
         \/ step = "idle" /\ step' = "download" /\ \E d \in TradingDays : StartCycle(d)
         \/ step \in {"download", "actions"} /\ step' \in {"download", "actions"}
         \/ step = "actions" /\ step' = "adjust" /\ todo' = Exchanges
         \/ step = "adjust" /\ (AdjustGate \/ RebuildBatch \/ FinishAdjust)
         \/ step \in Rollups /\ (RollupGate \/ RollUpPeriod)
         \/ Activate \/ PoolDone
         \/ \E i \in Indicators : Runner(i)
<1>1. ~BackToIdle
  BY DEF BackToIdle
<1>2. CASE Skipped \/ CalendarUnknown \/ FetchActions
  <2>1. step \in {"download", "actions"} /\ step \in Walks /\ NextExchange
    BY <1>2, Names DEF Skipped, CalendarUnknown, FetchActions, Walks
  <2> QED
    BY <2>1, NextExchangeIs, StepAfterIs
<1>3. CASE DownloadDay
  <2>1. step = "download" /\ step \in Walks
    BY <1>3 DEF DownloadDay, Walks
  <2>2. NextExchange \/ UNCHANGED step
    BY <1>3, DownloadIs
  <2> QED
    BY <2>1, <2>2, NextExchangeIs, StepAfterIs
<1>4. CASE \E d \in TradingDays : StartCycle(d)
  BY <1>4 DEF StartCycle
<1>5. CASE AdjustGate \/ RebuildBatch \/ FinishAdjust
  BY <1>5 DEF AdjustGate, RebuildBatch, FinishAdjust
<1>6. CASE RollupGate \/ RollUpPeriod
  BY <1>6 DEF RollupGate, RollUpPeriod
<1> QED
  BY <1>1, <1>2, <1>3, <1>4, <1>5, <1>6 DEF Next, Cycle, EndCycle, Crash

Late == {"adjust", "week", "month", "activate", "run", "end"}

(* From STEP 4 on nothing changes what a cycle is about. *)
LEMMA LateIs ==
  ASSUME TypeOK, Control, [Next]_vars, step \in Late, step' # "idle"
  PROVE  /\ UNCHANGED <<latest, freshness, raw, missed, reported>>
         /\ Good' => Good
         /\ step' \in Late
<1>1. UNCHANGED <<latest, freshness, raw, missed, reported>>
  BY ActionsOf
     DEF Late, AdjustGate, RebuildBatch, FinishAdjust, RollupGate, RollUpPeriod,
         Activate, PoolDone, Runner, RunnerStarts, RunnerRecomputes, RunnerRecords,
         RunnerDeactivates, vars, cycleVars, rawVars
<1>2. clean' => clean
  BY CleanIs
<1>3. (\A e \in Exchanges : Gap(e))' => \A e \in Exchanges : Gap(e)
  BY <1>1 DEF Gap
<1>4. EmptyPeriod' = EmptyPeriod
  BY <1>1 DEF EmptyPeriod, Periods, PeriodStart, PeriodEnd, Length
<1>5. Good' => Good
  BY <1>2, <1>3, <1>4, Zenon DEF Good
<1>6. step' \in Late
  <2>1. \A s \in Walks \ {"download", "actions"} : StepAfter[s] \in Late
    BY StepAfterIs, WalksTyped DEF Late
  <2>2. CASE step \in Walks
    <3>1. NextExchange => step' \in {step, StepAfter[step]}
      BY <2>2, NextExchangeIs
    <3>2. NextExchange \/ step' = step
      BY <2>2, ActionsOf, WalksTyped
         DEF Late, AdjustGate, RebuildBatch, FinishAdjust, RollupGate, RollUpPeriod,
             LookAt, NextPeriod, AfterFailedPeriod, Activate, PoolDone, Runner,
             RunnerStarts, RunnerRecomputes, RunnerRecords, RunnerDeactivates, vars,
             localVars
    <3> QED
      BY <2>1, <2>2, <3>1, <3>2, WalksTyped DEF Late
  <2>3. CASE step \notin Walks
    BY <2>3, ActionsOf, WalksTyped, Names
       DEF Late, Activate, PoolDone, Runner, RunnerStarts, RunnerRecomputes,
           RunnerRecords, RunnerDeactivates, vars, localVars
  <2> QED
    BY <2>2, <2>3
<1> QED
  BY <1>1, <1>5, <1>6

(* Whatever is over for an exchange is so in a late step. *)
LEMMA OverIs ==
  /\ \A e : Over("adjust", e) <=>
       step \in {"week", "month", "activate", "run", "end"} \/ (step = "adjust" /\ e \notin todo)
  /\ \A e : Over("week", e) <=>
       step \in {"month", "activate", "run", "end"} \/ (step = "week" /\ e \notin todo)
  /\ \A e : Over("month", e) <=>
       step \in {"activate", "run", "end"} \/ (step = "month" /\ e \notin todo)
  BY DEF Over, After

LEMMA OverIsNext ==
  (/\ \A e : Over("adjust", e) <=>
        step \in {"week", "month", "activate", "run", "end"} \/ (step = "adjust" /\ e \notin todo)
   /\ \A e : Over("week", e) <=>
        step \in {"month", "activate", "run", "end"} \/ (step = "week" /\ e \notin todo)
   /\ \A e : Over("month", e) <=>
        step \in {"activate", "run", "end"} \/ (step = "month" /\ e \notin todo))'
  BY OverIs, PTL

(* A clean cycle looks into every step of an exchange that has a gap. *)
LEMMA GoodGate ==
  ASSUME Good', Gap(Current), AdjustGate \/ RollupGate
  PROVE  UNCHANGED <<step, todo>> /\ at' = "work"
<1>1. ~Fault
  BY NotFault DEF Good
<1>2. PICK own : LookAt(own)
  BY DEF AdjustGate, RollupGate
<1>3. Due(Current, own)
  BY DEF Due
<1> QED
  BY <1>1, <1>2, <1>3 DEF LookAt

LEMMA GoodAdjustStep ==
  ASSUME TypeOK, Shape, Control, Rebuilding, GoodAdjust, [Next]_vars
  PROVE  GoodAdjust'
<1> SUFFICES ASSUME Good', NEW e \in Exchanges, Over("adjust", e)'
             PROVE  IsRebuilt(e)'
  BY DEF GoodAdjust, Exchanges
<1>1. TypedRaw /\ TypedAdjusted
  BY TypeOKParts
<1>2. step' # "idle" /\ step' \in Late /\ (step' = "adjust" => e \notin todo')
  BY OverIsNext DEF Late
<1>3. step \in Late
  BY <1>2, ActionsOf, Names
     DEF Late, Activate, PoolDone, Runner, RunnerStarts, RunnerRecomputes,
         RunnerRecords, RunnerDeactivates, vars, localVars
<1>4. UNCHANGED <<latest, freshness, raw, reported>> /\ Good
  BY <1>2, <1>3, LateIs
<1>5. Rebuilt(e)' = Rebuilt(e)
  BY <1>4 DEF Rebuilt, Matched
<1>6. ASSUME Over("adjust", e), adjusted'[e] = adjusted[e]
      PROVE  IsRebuilt(e)'
  BY <1>4, <1>5, <1>6 DEF GoodAdjust, IsRebuilt
<1>7. CASE step = "adjust"
  <2>1. todo \in {Exchanges, {"BSE"}} /\ Current \in todo /\ Current \in Exchanges
    BY <1>7, CurrentTyped DEF Control, Walks
  <2>2. Gap(Current)
    BY <1>4, <2>1 DEF Good
  <2>3. CASE AdjustGate
    BY <1>2, <1>6, <1>7, <2>2, <2>3, GoodGate, OverIs DEF AdjustGate, adjVars
  <2>4. CASE RebuildBatch
    <3>1. ~Fault
      BY NotFault DEF Good
    <3>2. PICK b \in left :
            /\ adjusted' = [adjusted EXCEPT ![Current][b] = Rebuilt(Current)]
            /\ UNCHANGED <<step, todo>>
      BY <2>4, <3>1, RebuildIs
    <3>3. e \notin todo /\ Over("adjust", e)
      BY <1>2, <1>7, <3>2, OverIs
    <3>4. e # Current
      BY <2>1, <3>3
    <3>5. adjusted'[e] = adjusted[e]
      BY <3>2, <3>4 DEF Shape
    <3> QED
      BY <1>6, <3>3, <3>5
  <2>5. CASE FinishAdjust
    <3>1. adjusted' = adjusted /\ left = {} /\ at = "work" /\ NextExchange
      BY <2>5, FinishIs
    <3>2. CASE e = Current
      <4>1. \A b \in Batches : adjusted[e][b] = Rebuilt(e)
        BY <1>7, <3>1, <3>2 DEF Rebuilding
      <4>2. adjusted[e] = [b \in Batches |-> Rebuilt(e)]
        BY <4>1 DEF Shape
      <4> QED
        BY <1>5, <3>1, <4>2 DEF IsRebuilt
    <3>3. CASE e # Current
      <4>1. e \notin todo
        <5>1. step \in Walks
          BY <1>7 DEF Walks
        <5>2. CASE todo = Exchanges /\ Current = "NSE" /\ todo' = {"BSE"} /\ step' = step
          BY <1>2, <1>7, <3>3, <5>2 DEF Exchanges
        <5>3. CASE todo = {"BSE"} /\ Current = "BSE"
          BY <3>3, <5>3
        <5> QED
          BY <3>1, <5>1, <5>2, <5>3, NextExchangeIs
      <4> QED
        BY <1>6, <1>7, <3>1, <4>1, OverIs
    <3> QED
      BY <3>2, <3>3
  <2>6. CASE UNCHANGED vars
    BY <1>2, <1>6, <1>7, <2>6, OverIs DEF vars, localVars, adjVars
  <2> QED
    BY <1>2, <1>7, <2>3, <2>4, <2>5, <2>6, ActionsOf, Names
       DEF Activate, PoolDone, Runner, RunnerStarts, RunnerRecomputes, RunnerRecords,
           RunnerDeactivates
<1>8. CASE step # "adjust"
  <2>1. Over("adjust", e)
    BY <1>3, <1>8, OverIs DEF Late
  <2>2. adjusted' = adjusted
    BY <1>8, TypeOKParts, StepCases, DownloadIs, RebuildIs, FinishIs, RollUpIs,
       RecomputeIs, RecordIs DEF data
  <2> QED
    BY <1>6, <2>1, <2>2
<1> QED
  BY <1>7, <1>8

(* STEPS 5 and 6 in a clean cycle: a period without rows has no batch.     *)
LEMMA GoodPeriod ==
  ASSUME TypeOK, Shape, Control, Good, GoodAdjust, step \in Rollups, at = "work",
         DailyRows(Current, period, PeriodEnd(step, period)) = NoRows
  PROVE  Batches = {}
<1> DEFINE rows == DailyRows(Current, period, PeriodEnd(step, period))
<1>1. TypedRaw /\ Current \in Exchanges
  BY TypeOKParts, CurrentTyped
<1>2. adjusted[Current] = [b \in Batches |-> Rebuilt(Current)]
  BY <1>1, OverIs, Names DEF GoodAdjust, IsRebuilt
<1>3. raw[Current] \cap period .. PeriodEnd(step, period) # {}
  BY <1>1 DEF Good, EmptyPeriod, Control
<1>4. SUFFICES ASSUME NEW b \in Batches PROVE FALSE
  OBVIOUS
<1>5. DOMAIN rows[b] = DOMAIN adjusted[Current][b] \cap period .. PeriodEnd(step, period)
  BY <1>1, DailyRowsIs
<1>6. DOMAIN adjusted[Current][b] = raw[Current]
  BY <1>1, <1>2, RebuiltIs
<1>7. rows[b] \in Table(SUBSET ActionDates)
  <2>1. rows \in [Batches -> Table(SUBSET ActionDates)]
    BY <1>1, DailyRowsIs
  <2> HIDE DEF rows
  <2> QED
    BY <2>1
<1>8. rows[b] = << >>
  BY DEF NoRows
<1> HIDE DEF rows
<1> QED
  BY <1>3, <1>5, <1>6, <1>7, <1>8, EmptyTable

(* When the rows a period is taken from stay, so does that it is right. *)
LEMMA SameRollup ==
  ASSUME NEW r \in Rollups, NEW e \in Exchanges, NEW p \in Days,
         adjusted'[e] = adjusted[e], latest' = latest,
         rolled'[r][e][p] = rolled[r][e][p], IsRolledUp(r, e, p)
  PROVE  IsRolledUp(r, e, p)'
  BY DEF IsRolledUp, DailyRows, PeriodEnd, Length

(* What the walk of STEPS 5 and 6 has done for the current exchange. *)
LEMMA GoodWalk ==
  ASSUME TypeOK, Shape, Control, Good, Good', GoodAdjust, GoodRollup, RollUpPeriod,
         [Next]_vars,
         NEW r \in Rollups, r = step, NEW e \in Exchanges, e = Current,
         NEW p \in Periods(r), p <= period \/ Batches = {}
  PROVE  IsRolledUp(r, e, p)'
<1> DEFINE rows == DailyRows(e, period, PeriodEnd(r, period))
<1>1. at = "work" /\ latest' = latest /\ adjusted' = adjusted
  BY RollUpIs
<1>2. period \in Periods(r) /\ period \in Days /\ p \in Days
  BY <1>1 DEF Control, Periods
<1>3. CASE Batches = {}
  <2>1. rolled'[r][e][p] \in [Batches -> Table(SUBSET ActionDates)]
    BY <1>2, RolledRows, RolledTyped
  <2>2. rolled'[r][e][p] = NoRows
    BY <1>3, <2>1 DEF NoRows
  <2>3. DailyRows(e, p, PeriodEnd(r, p))' = NoRows
    BY <1>3 DEF DailyRows, NoRows
  <2> QED
    BY <2>2, <2>3 DEF IsRolledUp
<1>4. CASE p <= period /\ Batches # {}
  <2>1. rows # NoRows /\ ~Fault
    BY <1>1, <1>4, GoodPeriod, NotFault DEF Good
  <2>2. rolled' = [rolled EXCEPT ![r][e][period] = rows]
    BY <2>1, RollUpIs
  <2>3. CASE p = period
    <3> HIDE DEF rows
    <3>1. rolled'[r][e][p] = rows
      BY <1>2, <2>2, <2>3 DEF Shape
    <3>2. DailyRows(e, p, PeriodEnd(r, p))' = rows
      BY <1>1, <2>3 DEF DailyRows, PeriodEnd, Length, rows
    <3> QED
      BY <3>1, <3>2 DEF IsRolledUp
  <2>4. CASE p # period
    <3> HIDE DEF rows
    <3>1. p < period
      BY <1>2, <1>4, <2>4, DayTyped
    <3>2. IsRolledUp(r, e, p)
      BY <1>1, <3>1 DEF GoodRollup
    <3>3. rolled'[r][e][p] = rolled[r][e][p]
      BY <1>2, <2>2, <2>4 DEF Shape
    <3> QED
      BY <1>1, <1>2, <3>2, <3>3, SameRollup
  <2> QED
    BY <2>3, <2>4
<1> QED
  BY <1>3, <1>4

LEMMA GoodRollupStep ==
  ASSUME TypeOK, Shape, Control, GoodAdjust, GoodRollup, [Next]_vars
  PROVE  GoodRollup'
<1>1. \A r : Periods(r)' = Periods(r) /\ Periods(r) \subseteq Days
  BY DEF Periods, PeriodStart, Length
<1>2. ASSUME Good', step \in Late, step' # "idle"
      PROVE  /\ UNCHANGED <<latest, freshness, raw, reported>> /\ Good
             /\ step \in Rollups => adjusted' = adjusted
             /\ step # "adjust" => adjusted' = adjusted
             /\ step \notin Rollups => rolled' = rolled
  <2>1. /\ step # "adjust" => adjusted' = adjusted
        /\ step \notin Rollups => rolled' = rolled
    BY TypeOKParts, StepCases, DownloadIs, RebuildIs, FinishIs, RollUpIs, RecomputeIs,
       RecordIs DEF data
  <2> QED
    BY <1>2, <2>1, LateIs, Names
<1>3. ASSUME Good', NEW r \in Rollups, NEW e \in Exchanges, Over(r, e)',
             NEW p \in Periods(r), p <= latest'
      PROVE  IsRolledUp(r, e, p)'
  <2>1. /\ step' \in {"week", "month", "activate", "run", "end"} /\ step' # "idle"
        /\ step' = r => e \notin todo'
        /\ step' = "week" => r = "week"
    BY <1>3, OverIsNext, Names
  <2>2. step \in Late
    BY <2>1, ActionsOf, Names
       DEF Late, Activate, PoolDone, Runner, RunnerStarts, RunnerRecomputes,
           RunnerRecords, RunnerDeactivates, vars, localVars
  <2>3. p \in Days /\ latest' = latest /\ Good
    BY <1>1, <1>2, <1>3, <2>1, <2>2
  <2>4. ASSUME Over(r, e), rolled'[r][e][p] = rolled[r][e][p], adjusted' = adjusted
        PROVE  IsRolledUp(r, e, p)'
    BY <1>3, <2>3, <2>4, SameRollup DEF GoodRollup
  <2>5. CASE step = "adjust"
    <3>1. step \in Walks /\ ~(step' = step)
      BY <2>1, <2>5 DEF Walks
    <3>2. NextExchange
      BY <2>5, <3>1, <2>1, ActionsOf, Names, RebuildIs, FinishIs
         DEF AdjustGate, LookAt, Activate, PoolDone, Runner, RunnerStarts,
             RunnerRecomputes, RunnerRecords, RunnerDeactivates, vars, localVars
    <3>3. step' = "week" /\ todo' = Exchanges
      BY <2>5, <3>1, <3>2, NextExchangeIs, StepAfterIs
    <3> QED
      BY <2>1, <3>3
  <2>6. CASE step \in Rollups
    <3>1. adjusted' = adjusted /\ step \in Walks
      BY <1>2, <1>3, <2>1, <2>2, <2>6 DEF Walks
    <3>2. todo \in {Exchanges, {"BSE"}} /\ Current \in todo /\ Current \in Exchanges
      BY <3>1, CurrentTyped DEF Control
    <3>3. CASE RollupGate
      <4>1. Gap(Current)
        BY <2>3, <3>2 DEF Good
      <4>2. UNCHANGED <<step, todo>>
        BY <1>3, <3>3, <4>1, GoodGate
      <4>3. Over(r, e)
        BY <1>3, <4>2, OverIs, OverIsNext, Names
      <4>4. rolled' = rolled
        BY <3>3 DEF RollupGate, rollVars
      <4> QED
        BY <2>4, <3>1, <4>3, <4>4
    <3>4. CASE RollUpPeriod
      <4>1. CASE Over(r, e)
        <5>1. ~(r = step /\ e = Current)
          BY <3>2, <2>6, <4>1, OverIs, Names
        <5>2. \E v : rolled' = [rolled EXCEPT ![step][Current][period] = v] \/ rolled' = rolled
          BY <3>4, RollUpIs
        <5>3. rolled'[r][e][p] = rolled[r][e][p]
          BY <2>6, <3>2, <5>1, <5>2 DEF Shape
        <5> QED
          BY <2>4, <3>1, <4>1, <5>3
      <4>2. CASE ~Over(r, e)
        <5>1. NextExchange
          <6>1. ~(UNCHANGED <<step, todo>>)
            BY <1>3, <4>2, OverIs, OverIsNext, Names
          <6> QED
            BY <3>4, <6>1, RollUpIs DEF NextPeriod
        <5>2. r = step /\ e = Current
          <6>1. CASE todo = Exchanges /\ Current = "NSE" /\ todo' = {"BSE"} /\ step' = step
            BY <1>3, <4>2, <6>1, OverIs, OverIsNext, Names
          <6>2. CASE todo = {"BSE"} /\ Current = "BSE" /\ step' = StepAfter[step]
            BY <1>3, <2>1, <2>6, <4>2, <6>2, OverIs, OverIsNext, Names, StepAfterIs,
               NextExchangeIs, <3>1, <5>1
          <6> QED
            BY <3>1, <5>1, <6>1, <6>2, NextExchangeIs
        <5>3. p <= period \/ Batches = {}
          <6>1. ~Fault /\ at = "work"
            BY <1>3, <3>4, RollUpIs, NotFault DEF Good
          <6>2. CASE NextPeriod
            <7>1. period + Length(step) > latest
              BY <5>1, <6>1, <6>2 DEF NextPeriod, NextExchange
            <7> QED
              <8>1. period \in Periods(step) /\ period \in Days /\ p \in Days
                BY <1>1, <2>6, <6>1 DEF Control
              <8>2. p < period + Length(step)
                <9>1. period \in Nat /\ p \in Nat /\ Length(step) \in Nat /\ latest \in Nat
                  BY <2>6, <8>1, DayTyped, LengthTyped, LatestGrows
                <9> QED
                  BY <1>3, <2>3, <7>1, <9>1
              <8> QED
                BY <2>6, <5>2, <8>1, <8>2, PeriodsApart
          <6>3. CASE DailyRows(Current, period, PeriodEnd(step, period)) = NoRows
            BY <2>3, <2>6, <6>1, <6>3, GoodPeriod
          <6> QED
            BY <3>4, <6>1, <6>2, <6>3, RollUpIs
        <5> QED
          BY <1>3, <2>3, <3>4, <5>2, <5>3, GoodWalk
      <4> QED
        BY <4>1, <4>2
    <3>5. CASE UNCHANGED vars
      <4>1. Over(r, e)
        BY <1>3, <3>5, OverIs, OverIsNext, Names DEF vars, localVars
      <4> QED
        BY <2>4, <3>1, <3>5, <4>1 DEF vars, rollVars
    <3> QED
      BY <2>1, <2>6, <3>3, <3>4, <3>5, ActionsOf, Names
         DEF Activate, PoolDone, Runner, RunnerStarts, RunnerRecomputes, RunnerRecords,
             RunnerDeactivates
  <2>7. CASE step \in {"activate", "run", "end"}
    <3>1. Over(r, e)
      BY <2>7, OverIs, Names
    <3>2. rolled' = rolled /\ adjusted' = adjusted
      BY <1>2, <1>3, <2>1, <2>2, <2>7, Names
    <3> QED
      BY <2>4, <3>1, <3>2
  <2> QED
    BY <2>2, <2>5, <2>6, <2>7, Names DEF Late
<1>4. ASSUME Good', NEW r \in Rollups, r = step', NEW e \in Exchanges, e = Current',
             at' = "work", NEW p \in Periods(r), p < period'
      PROVE  IsRolledUp(r, e, p)'
  <2>1. p \in Days /\ p \in Nat /\ p >= 1
    BY <1>1, <1>4, DayTyped
  <2>2. CASE UNCHANGED vars
    <3>1. Good /\ step \in Late /\ step' # "idle"
      BY <1>2, <1>4, <2>2, Names DEF Late, vars, localVars
    <3>2. r = step /\ e = Current /\ at = "work" /\ p < period
      BY <1>4, <2>2 DEF vars, localVars, Current
    <3>3. IsRolledUp(r, e, p)
      BY <3>1, <3>2 DEF GoodRollup
    <3> QED
      BY <2>1, <2>2, <3>3, SameRollup DEF vars, cycleVars, adjVars, rollVars
  <2>3. CASE UNCHANGED step /\ period' = FirstPeriod
    <3>1. period' = 1
      BY <1>4, <2>3, Names DEF FirstPeriod
    <3> QED
      BY <1>4, <2>1, <3>1
  <2>4. CASE RebuildBatch /\ UNCHANGED <<step, todo>>
    BY <1>4, <2>4, RebuildIs, Names
  <2>5. CASE /\ RollUpPeriod /\ NextPeriod
             /\ period' = period + Length(step) /\ UNCHANGED <<step, todo>>
    <3>1. step \in Rollups /\ at = "work" /\ r = step /\ e = Current
      BY <1>4, <2>5, RollUpIs DEF Current
    <3>2. Good
      BY <1>2, <1>4, <2>5, <3>1, Names DEF Late
    <3>3. period \in Periods(step)
      BY <3>1 DEF Control
    <3>4. p <= period
      BY <1>4, <2>5, <3>1, <3>3, PeriodsApart
    <3> QED
      BY <1>4, <2>5, <3>1, <3>2, <3>4, GoodWalk
  <2> QED
    BY <1>4, <2>2, <2>3, <2>4, <2>5, WorkIs
<1> QED
  BY <1>1, <1>3, <1>4 DEF GoodRollup

(* Until STEP 8 no workbook has a row of a day the cycle has brought. *)
LEMMA GoodActivateStep ==
  ASSUME TypeOK, Shape, Control, Within, GoodActivate, [Next]_vars
  PROVE  GoodActivate'
<1> SUFFICES ASSUME clean', step' # "idle", step' \notin {"run", "end"},
                    NEW i \in Indicators, NEW e \in Exchanges, NEW b \in Batches,
                    NEW d \in DOMAIN workbook'[i][e][b]
             PROVE  d <= freshness'[e]
  BY DEF GoodActivate, InCycle
<1>1. TypedRaw /\ TypedCycle
  BY TypeOKParts
<1>2. clean /\ ~Fault
  BY CleanIs, NotFault
<1>3. step \notin {"run", "end"}
  BY ActionsOf, Names
     DEF Activate, PoolDone, Runner, RunnerStarts, RunnerRecomputes, RunnerRecords,
         RunnerDeactivates, vars, localVars
<1>4. workbook' = workbook
  BY <1>1, <1>3, StepCases, DownloadIs, RebuildIs, FinishIs, RollUpIs, RecomputeIs,
     RecordIs DEF data
<1>5. CASE step = "idle"
  <2>1. PICK x \in TradingDays : StartCycle(x)
    BY <1>5, ActionsOf, Names
       DEF Activate, PoolDone, Runner, RunnerStarts, RunnerRecomputes, RunnerRecords,
           RunnerDeactivates, vars, localVars
  <2>2. freshness'[e] = LastPersisted(e)
    BY <1>2, <2>1 DEF StartCycle
  <2>3. PICK t \in raw[e] : d <= t
    BY <1>4, BookedBefore
  <2>4. t <= LastPersisted(e) /\ LastPersisted(e) \in Nat /\ t \in Nat /\ d \in Nat
    BY <1>1, <1>4, BookedBefore, LastPersistedIs, DayTyped DEF TypedRaw
  <2> QED
    BY <2>2, <2>3, <2>4
<1>6. CASE step # "idle"
  <2>1. freshness' = freshness
    BY <1>6
       DEF Next, Cycle, Runner, StartCycle, Skipped, CalendarUnknown, DownloadDay,
           FetchActions, AdjustGate, RebuildBatch, FinishAdjust, RollupGate,
           RollUpPeriod, Activate, PoolDone, RunnerStarts, RunnerRecomputes,
           RunnerRecords, RunnerDeactivates, EndCycle, Crash, BackToIdle, vars, cycleVars
  <2> QED
    BY <1>2, <1>3, <1>4, <1>6, <2>1 DEF GoodActivate, InCycle
<1> QED
  BY <1>5, <1>6

(* In a clean cycle with new days of both exchanges STEP 7 finds every     *)
(* indicator due.                                                          *)
LEMMA AllDue ==
  ASSUME TypeOK, Shape, Control, Within, IndicatorNotAhead, GoodActivate, Good,
         step = "activate", NEW i \in Indicators
  PROVE  iwm[i] < latest
<1>1. TypedRaw /\ TypedCycle /\ TypedIndicators
  BY TypeOKParts
<1>2. latest \in TradingDays /\ latest \in Nat /\ latest >= 1
  BY DayTyped DEF Control, InCycle
<1>3. CASE iwm[i] = 0
  BY <1>2, <1>3
<1>4. CASE iwm[i] # 0
  <2>1. PICK e \in Exchanges, b \in Batches : iwm[i] \in DOMAIN workbook[i][e][b]
    BY <1>4 DEF IndicatorNotAhead, Dates
  <2>2. iwm[i] <= freshness[e]
    BY <2>1 DEF GoodActivate, Good, InCycle
  <2>3. freshness[e] < latest /\ freshness[e] \in Nat /\ iwm[i] \in Nat
    BY <1>1, DayTyped DEF Good, Gap, TypedCycle, TypedIndicators
  <2> QED
    BY <1>2, <2>2, <2>3
<1> QED
  BY <1>3, <1>4

LEMMA GoodRunStep ==
  ASSUME TypeOK, Shape, Control, Within, IndicatorNotAhead, GoodActivate, GoodRun,
         [Next]_vars
  PROVE  GoodRun'
<1> SUFFICES ASSUME Good', step' \in {"run", "end"}, NEW i \in Indicators
             PROVE  /\ runner'[i] # "off"
                    /\ runner'[i] \in {"BSE", "record", "clean", "done"} => IsComputed(i, "NSE")'
                    /\ runner'[i] \in {"record", "clean", "done"} => IsComputed(i, "BSE")'
                    /\ step' = "end" => runner'[i] = "done"
  BY DEF GoodRun
<1>1. TypedIndicators /\ TypedCycle /\ TypedLocal
  BY TypeOKParts
<1>2. ~Fault
  BY NotFault DEF Good
<1>3. step \in {"activate", "run", "end"}
  <2>1. CASE step \in {"adjust", "week", "month"}
    <3>1. step \in Walks /\ (NextExchange => step' \in {step, StepAfter[step]})
      BY <2>1, NextExchangeIs DEF Walks, Rollups
    <3>2. NextExchange \/ step' = step
      BY <2>1, ActionsOf, WalksTyped
         DEF AdjustGate, RebuildBatch, FinishAdjust, RollupGate, RollUpPeriod,
             LookAt, NextPeriod, AfterFailedPeriod, Activate, PoolDone, Runner,
             RunnerStarts, RunnerRecomputes, RunnerRecords, RunnerDeactivates, vars,
             localVars
    <3> QED
      BY <2>1, <3>1, <3>2, StepAfterIs
  <2>2. step' \in {"run", "end"} /\ step \notin {"adjust", "week", "month"}
    BY <2>1
  <2>3. (Activate \/ PoolDone) => step \in {"activate", "run"}
    BY DEF Activate, PoolDone
  <2>4. (\E i1 \in Indicators : Runner(i1)) => step = "run"
    BY DEF Runner, RunnerStarts, RunnerRecomputes, RunnerRecords, RunnerDeactivates
  <2>5. UNCHANGED vars => step' = step
    BY DEF vars, localVars
  <2>6. step \notin Rollups /\ step' # "idle"
    BY <2>2 DEF Rollups
  <2> QED
    BY <2>2, <2>3, <2>4, <2>5, <2>6, ActionsOf
<1>4. Good /\ UNCHANGED <<latest, raw>>
  BY <1>3, LateIs DEF Late
<1>5. adjusted' = adjusted /\ rolled' = rolled
  BY <1>1, <1>3, StepCases, DownloadIs, RebuildIs, FinishIs, RollUpIs, RecomputeIs,
     RecordIs, Names DEF data
<1>6. \A e \in Exchanges : Source(i, e)' = Source(i, e)
  BY <1>5 DEF Source
<1>7. ASSUME NEW e \in Exchanges, workbook'[i][e] = workbook[i][e], IsComputed(i, e)
      PROVE  IsComputed(i, e)'
  BY <1>6, <1>7 DEF IsComputed
<1>8. ASSUME step \in {"run", "end"}
      PROVE  /\ runner[i] # "off"
             /\ runner[i] \in {"BSE", "record", "clean", "done"} => IsComputed(i, "NSE")
             /\ runner[i] \in {"record", "clean", "done"} => IsComputed(i, "BSE")
             /\ step = "end" => runner[i] = "done"
  BY <1>4, <1>8 DEF GoodRun
<1>9. ASSUME step \in {"run", "end"}, step' = step, workbook'[i] = workbook[i],
             runner'[i] # "off", runner[i] # "off",
             runner'[i] \in {"BSE", "record", "clean", "done"} =>
               runner[i] \in {"BSE", "record", "clean", "done"},
             runner'[i] \in {"record", "clean", "done"} =>
               runner[i] \in {"record", "clean", "done"},
             step = "end" => runner'[i] = runner[i]
      PROVE  /\ runner'[i] # "off"
             /\ runner'[i] \in {"BSE", "record", "clean", "done"} => IsComputed(i, "NSE")'
             /\ runner'[i] \in {"record", "clean", "done"} => IsComputed(i, "BSE")'
             /\ step' = "end" => runner'[i] = "done"
  BY <1>7, <1>8, <1>9, Names
<1>10. CASE Activate
  <2>1. Pending(i, latest)
    BY <1>4, <1>10, AllDue DEF Activate, Pending
  <2>2. PICK S \in SUBSET {x \in Indicators : Pending(x, latest)} :
          /\ IF S = {x \in Indicators : Pending(x, latest)} THEN NoFault ELSE Fault
          /\ runner' = [x \in Indicators |-> IF x \in S THEN "queued" ELSE "off"]
          /\ step' = IF S = {} THEN "end" ELSE "run"
    BY <1>10 DEF Activate
  <2>3. i \in S
    BY <1>2, <2>1, <2>2
  <2> QED
    BY <2>2, <2>3
<1>11. CASE PoolDone
  <2>1. /\ step = "run" /\ runner[i] \in {"off", "done"}
        /\ runner' = runner /\ workbook' = workbook
    BY <1>11 DEF PoolDone, indVars
  <2> QED
    BY <1>7, <1>8, <2>1, Names
<1>12. CASE \E j \in Indicators : Runner(j)
  <2>1. PICK j \in Indicators : Runner(j)
    BY <1>12
  <2>2. step = "run" /\ step' = step
    BY <2>1 DEF Runner, RunnerStarts, RunnerRecomputes, RunnerRecords, RunnerDeactivates
  <2>3. PICK stage \in Stages : Becomes(j, stage)
    BY <2>1 DEF Runner, RunnerStarts, RunnerRecomputes, RunnerRecords,
                RunnerDeactivates, Stages
  <2>4. runner'[i] = IF i = j THEN stage ELSE runner[i]
    BY <1>1, <2>3 DEF Becomes, TypedLocal
  <2>5. CASE \E e \in Exchanges : RunnerRecomputes(j, e)
    <3>1. PICK e \in Exchanges : RunnerRecomputes(j, e)
      BY <2>5
    <3>2. /\ runner[j] = e /\ workbook' = [workbook EXCEPT ![j][e] = Source(j, e)]
          /\ Becomes(j, IF e = "NSE" THEN "BSE" ELSE "record")
      BY <1>2, <3>1, RecomputeIs
    <3>3. CASE i # j
      <4>1. workbook'[i] = workbook[i] /\ runner'[i] = runner[i]
        BY <2>4, <3>2, <3>3 DEF Shape
      <4> QED
        BY <1>8, <1>9, <2>2, <4>1
    <3>4. CASE i = j
      <4>1. runner'[i] = IF e = "NSE" THEN "BSE" ELSE "record"
        BY <1>1, <3>2, <3>4 DEF Becomes, TypedLocal
      <4>2. workbook'[i][e] = Source(i, e)
        BY <3>1, <3>2, <3>4 DEF Shape
      <4>3. IsComputed(i, e)'
        BY <1>6, <4>2 DEF IsComputed
      <4>4. \A x \in Exchanges \ {e} : workbook'[i][x] = workbook[i][x]
        BY <3>2, <3>4 DEF Shape
      <4> QED
        BY <1>7, <1>8, <2>2, <3>2, <3>4, <4>1, <4>3, <4>4, Names
    <3> QED
      BY <3>3, <3>4
  <2>6. CASE RunnerStarts(j) \/ RunnerRecords(j) \/ RunnerDeactivates(j)
    <3>1. workbook' = workbook
      BY <2>6 DEF RunnerStarts, RunnerRecords, RunnerDeactivates, indVars
    <3>2. CASE i # j
      BY <1>8, <1>9, <2>2, <2>4, <3>1, <3>2
    <3>3. CASE i = j
      <4>1. \/ runner[i] = "queued" /\ runner'[i] = "NSE"
            \/ runner[i] = "record" /\ runner'[i] = "clean"
            \/ runner[i] = "clean" /\ runner'[i] = "done"
        BY <1>1, <1>2, <2>6, <3>3
           DEF RunnerStarts, RunnerRecords, RunnerDeactivates, Becomes, TypedLocal
      <4> QED
        BY <1>9, <2>2, <3>1, <4>1
    <3> QED
      BY <3>2, <3>3
  <2> QED
    BY <2>1, <2>5, <2>6 DEF Runner
<1>13. CASE UNCHANGED vars
  BY <1>8, <1>9, <1>13 DEF vars, localVars, indVars
<1> QED
  BY <1>3, <1>10, <1>11, <1>12, <1>13, ActionsOf, Names

-----------------------------------------------------------------------------
(* The raw prices as a store of days.                                      *)

LEMMA LeftIs ==
  TypeOK => \A e \in Exchanges : \A t :
    t \in DaysLeft(e) <=>
      /\ step = "download" /\ Current = e
      /\ t \in TradingDays /\ freshness[e] < t /\ t <= latest /\ walked < t
<1> SUFFICES ASSUME TypeOK, NEW e \in Exchanges, NEW t \in TradingDays
             PROVE  (IncrementalStart(e) <= t <=> freshness[e] < t)
                      /\ (t > walked <=> walked < t)
  BY DEF DaysLeft, PendingDays
<1>1. freshness[e] \in Nat /\ walked \in Nat /\ t \in Nat
  BY DayTyped DEF TypeOK
<1> QED
  BY <1>1 DEF IncrementalStart

LEMMA LeftIsNext ==
  (TypeOK => \A e \in Exchanges : \A t :
     t \in DaysLeft(e) <=>
       /\ step = "download" /\ Current = e
       /\ t \in TradingDays /\ freshness[e] < t /\ t <= latest /\ walked < t)'
  BY LeftIs, PTL

(* What a step is to the store of an exchange: nothing, *)
Kept(e) ==
  raw'[e] = raw[e] /\ missed'[e] = missed[e] /\ DaysLeft(e)' = DaysLeft(e)

(* the beginning of its walk, *)
Begun(e) ==
  /\ raw'[e] = raw[e] /\ missed'[e] = missed[e] /\ DaysLeft(e) = {}
  /\ \E from \in raw[e] \cup {0} :
       /\ \A h \in raw[e] : from = 0 \/ h <= from
       /\ \A t \in DaysLeft(e)' : t \in TradingDays /\ from < t
       /\ \A t \in TradingDays, x \in DaysLeft(e)' :
            from < t /\ t < x => t \in DaysLeft(e)'

(* or what becomes of the first of its days. *)
Dealt(e) ==
  \E d \in DaysLeft(e) :
    /\ d \in TradingDays /\ \A t \in DaysLeft(e) : d <= t
    /\ \/ /\ DaysLeft(e)' = {}
          /\ raw'[e] = raw[e] /\ missed'[e] = missed[e]
       \/ /\ DaysLeft(e)' \in {{}, DaysLeft(e) \ {d}}
          /\ raw'[e] = raw[e] \cup {d} /\ missed'[e] = missed[e]
       \/ /\ DaysLeft(e)' = DaysLeft(e) \ {d}
          /\ raw'[e] = raw[e] /\ missed'[e] = missed[e] \cup {d}

(* The raw prices and their walk change in few steps. *)
LEMMA WalkCases ==
  ASSUME TypeOK, Control, [Next]_vars
  PROVE  \/ \E d \in TradingDays : StartCycle(d)
         \/ step = "download" /\ (Skipped \/ CalendarUnknown \/ DownloadDay)
         \/ step = "download" /\ Crash
         \/ UNCHANGED vars
         \/ /\ step # "download" /\ step' # "download"
            /\ UNCHANGED <<raw, missed>>
<1>1. CASE Skipped \/ FetchActions
  <2>1. step \in Walks /\ NextExchange /\ UNCHANGED rawVars /\ step \in {"download", "actions"}
    BY <1>1 DEF Skipped, FetchActions, Walks
  <2>2. step = "actions" => step' # "download"
    BY <2>1, NextExchangeIs, StepAfterIs
  <2> QED
    BY <1>1, <2>1, <2>2 DEF rawVars, FetchActions
<1>2. CASE EndCycle \/ Crash
  BY <1>2 DEF EndCycle, Crash, BackToIdle, rawVars
<1>3. CASE CalendarUnknown \/ DownloadDay
  BY <1>3 DEF CalendarUnknown, DownloadDay
<1>4. CASE \/ AdjustGate \/ RebuildBatch \/ FinishAdjust \/ RollupGate \/ RollUpPeriod
           \/ Activate \/ PoolDone \/ \E i \in Indicators : Runner(i)
  <2>1. step \in Late /\ UNCHANGED rawVars
    BY <1>4, Names
       DEF AdjustGate, RebuildBatch, FinishAdjust, RollupGate, RollUpPeriod, Activate,
           PoolDone, Runner, RunnerStarts, RunnerRecomputes, RunnerRecords,
           RunnerDeactivates, Late
  <2>2. step' = "download" => step' \in Late
    BY <2>1, LateIs
  <2> QED
    BY <2>1, <2>2 DEF rawVars, Late
<1> QED
  BY <1>1, <1>2, <1>3, <1>4 DEF Next, Cycle

(* Nothing is stored for BSE before its walk begins. *)
LEMMA FreshToWalkStep ==
  ASSUME TypeOK, Control, FreshToWalk, [Next]_vars, TypeOK'
  PROVE  FreshToWalk'
<1> SUFFICES ASSUME step' = "download", NEW e \in todo' \ {Current'}
             PROVE  freshness'[e] \in {0, LastPersisted(e)'}
  BY DEF FreshToWalk
<1>1. e \in Exchanges
  BY DEF TypeOK
<1>2. raw'[e] = raw[e] => LastPersisted(e)' = LastPersisted(e)
  BY DEF LastPersisted
<1>3. CASE \E d \in TradingDays : StartCycle(d)
  BY <1>1, <1>2, <1>3 DEF StartCycle, rawVars
<1>4. CASE step = "download" /\ UNCHANGED <<step, todo, freshness>> /\ raw'[e] = raw[e]
  BY <1>2, <1>4 DEF FreshToWalk, Current
<1>5. CASE step = "download" /\ NextExchange
  <2>1. step \in Walks
    BY <1>5 DEF Walks
  <2>2. todo' = {"BSE"} \/ step' = "actions"
    BY <1>5, <2>1, NextExchangeIs, StepAfterIs
  <2> QED
    BY <2>2 DEF Current
<1>6. CASE step = "download" /\ DownloadDay
  <2>1. UNCHANGED <<step, todo>> => e # Current
    BY DEF Current
  <2>2. UNCHANGED <<step, todo>> => raw'[e] = raw[e]
    BY <1>1, <1>6, <2>1, DownloadIs DEF TypeOK
  <2> QED
    BY <1>4, <1>5, <1>6, <2>2, DownloadIs
<1>7. CASE UNCHANGED vars
  BY <1>7 DEF vars, localVars, cycleVars, rawVars, FreshToWalk, Current, LastPersisted
<1>8. CASE Crash
  BY <1>8 DEF Crash, BackToIdle
<1> QED
  BY <1>3, <1>5, <1>6, <1>7, <1>8, WalkCases DEF Skipped, CalendarUnknown

(* The walk passes from NSE to BSE, or STEP 2 is over. *)
LEMMA HandOver ==
  ASSUME TypeOK, Control, NotAhead, FreshToWalk, step = "download", NextExchange,
         UNCHANGED <<latest, freshness>>, TypeOK', NEW e \in Exchanges
  PROVE  /\ e = Current => DaysLeft(e)' = {}
         /\ e # Current /\ raw'[e] = raw[e] /\ missed'[e] = missed[e] =>
              Begun(e) \/ Kept(e)
<1>1. step \in Walks
  BY DEF Walks
<1>2. /\ walked' = 0
      /\ \/ todo = Exchanges /\ Current = "NSE" /\ todo' = {"BSE"} /\ step' = "download"
         \/ Current = "BSE" /\ step' = "actions"
  BY <1>1, NextExchangeIs, StepAfterIs
<1>3. step' = "download" => Current' = "BSE" /\ Current = "NSE"
  BY <1>2 DEF Current
<1>4. e = Current => DaysLeft(e)' = {}
  BY <1>3, LeftIsNext
<1>5. ASSUME e # Current, raw'[e] = raw[e], missed'[e] = missed[e]
      PROVE  Begun(e) \/ Kept(e)
  <2>1. DaysLeft(e) = {}
    BY <1>5, LeftIs
  <2>2. CASE step' # "download"
    <3>1. DaysLeft(e)' = {}
      BY <2>2, LeftIsNext
    <3> QED
      BY <1>5, <2>1, <3>1 DEF Kept
  <2>3. CASE step' = "download"
    <3>1. e \in todo \ {Current} /\ Current' = e
      BY <1>2, <1>3, <1>5, <2>3, Names
    <3>2. freshness[e] \in {0, LastPersisted(e)}
      BY <3>1 DEF FreshToWalk
    <3>3. /\ freshness[e] \in raw[e] \cup {0}
          /\ \A h \in raw[e] : freshness[e] = 0 \/ h <= freshness[e]
      BY <3>2, LastPersistedIs, TypeOKParts
    <3>4. \A t : t \in DaysLeft(e)' <=>
            t \in TradingDays /\ freshness[e] < t /\ t <= latest
      <4>1. \A t \in TradingDays : 0 < t
        BY DayTyped
      <4> QED
        BY <1>2, <2>3, <3>1, <4>1, LeftIsNext
    <3>5. ASSUME NEW t \in TradingDays, NEW x \in DaysLeft(e)', freshness[e] < t, t < x
          PROVE  t \in DaysLeft(e)'
      <4>1. x \in Nat /\ t \in Nat /\ latest \in Nat /\ x <= latest
        BY <3>4, DayTyped DEF TypeOK
      <4> QED
        BY <3>4, <3>5, <4>1
    <3> QED
      BY <1>5, <2>1, <3>3, <3>4, <3>5 DEF Begun
  <2> QED
    BY <2>2, <2>3
<1> QED
  BY <1>4, <1>5

(* The first of the days left is the one that is asked for. *)
LEMMA FirstLeft ==
  ASSUME TypeOK, NEW e \in Exchanges, DaysLeft(e) # {}
  PROVE  /\ step = "download" /\ Current = e
         /\ Min(PendingDays(e)) \in DaysLeft(e)
         /\ \A t \in DaysLeft(e) : Min(PendingDays(e)) <= t
<1>1. step = "download" /\ Current = e /\ DaysLeft(e) = PendingDays(e)
  BY DEF DaysLeft
<1>2. PendingDays(e) \subseteq Nat
  BY DayTyped DEF PendingDays
<1> QED
  BY <1>1, <1>2, Least

LEMMA DownloadDeals ==
  ASSUME TypeOK, Control, NotAhead, FreshToWalk, TypeOK', DownloadDay,
         NEW e \in Exchanges, e = Current
  PROVE  Dealt(e)
<1> DEFINE d == Min(PendingDays(e))
<1>1. step = "download" /\ Gap(e) /\ UNCHANGED <<latest, freshness>>
  BY DEF DownloadDay, cycleVars
<1>2. d \in TradingDays /\ d \in DaysLeft(e) /\ walked < d
  BY <1>1, DayIs DEF DaysLeft
<1>3. \A t \in DaysLeft(e) : d <= t
  BY <1>2, FirstLeft
<1>4. NextExchange => DaysLeft(e)' = {}
  BY <1>1, HandOver
<1>5. ASSUME walked' = d, UNCHANGED <<step, todo>> PROVE DaysLeft(e)' = DaysLeft(e) \ {d}
  <2>1. \A t : t \in DaysLeft(e) <=>
          t \in TradingDays /\ freshness[e] < t /\ t <= latest /\ walked < t
    BY <1>1, LeftIs
  <2>2. \A t : t \in DaysLeft(e)' <=>
          t \in TradingDays /\ freshness[e] < t /\ t <= latest /\ d < t
    <3>1. Current' = e
      BY <1>5 DEF Current
    <3> QED
      BY <1>1, <1>5, <3>1, LeftIsNext
  <2>3. \A t \in TradingDays : t \in Nat
    BY DayTyped
  <2>4. walked \in Nat
    BY DayTyped DEF TypeOK
  <2>5. ASSUME NEW t \in TradingDays
        PROVE  t \in DaysLeft(e)' <=> t \in DaysLeft(e) /\ t # d
    <3>1. t \in DaysLeft(e) => d <= t
      BY <1>3
    <3> HIDE DEF d
    <3> QED
      BY <1>2, <2>1, <2>2, <2>3, <2>4, <3>1
  <2> HIDE DEF d
  <2> QED
    BY <2>1, <2>2, <2>5
<1>6. GoOn(d) => DaysLeft(e)' = DaysLeft(e) \ {d}
  <2>1. DaysLeft(e) = PendingDays(e)
    BY <1>2 DEF DaysLeft
  <2>2. CASE PendingDays(e) = {d}
    BY <1>4, <2>1, <2>2 DEF GoOn
  <2>3. CASE PendingDays(e) # {d}
    BY <1>5, <2>3 DEF GoOn
  <2> QED
    BY <2>2, <2>3
<1>7. \/ raw' = [raw EXCEPT ![e] = @ \cup {d}] /\ UNCHANGED missed /\ GoOn(d)
      \/ missed' = [missed EXCEPT ![e] = @ \cup {d}] /\ UNCHANGED raw /\ GoOn(d)
      \/ /\ raw' \in {raw, [raw EXCEPT ![e] = @ \cup {d}]} /\ UNCHANGED missed
         /\ NextExchange
  BY DEF DownloadDay, AfterFailedDay
<1> HIDE DEF d
<1>8. /\ [raw EXCEPT ![e] = @ \cup {d}][e] = raw[e] \cup {d}
      /\ [missed EXCEPT ![e] = @ \cup {d}][e] = missed[e] \cup {d}
  BY DEF TypeOK
<1>9. \/ DaysLeft(e)' = {} /\ raw'[e] = raw[e] /\ missed'[e] = missed[e]
      \/ /\ DaysLeft(e)' \in {{}, DaysLeft(e) \ {d}}
         /\ raw'[e] = raw[e] \cup {d} /\ missed'[e] = missed[e]
      \/ /\ DaysLeft(e)' = DaysLeft(e) \ {d}
         /\ raw'[e] = raw[e] /\ missed'[e] = missed[e] \cup {d}
  BY <1>4, <1>6, <1>7, <1>8
<1> QED
  BY <1>2, <1>3, <1>9 DEF Dealt

(* A step that ends the walk and stores nothing. *)
LEMMA Ends ==
  ASSUME TypeOK, NEW e \in Exchanges, DaysLeft(e)' = {},
         raw'[e] = raw[e], missed'[e] = missed[e]
  PROVE  Kept(e) \/ Dealt(e)
<1>1. CASE DaysLeft(e) = {}
  BY <1>1 DEF Kept
<1>2. CASE DaysLeft(e) # {}
  <2>1. Min(PendingDays(e)) \in TradingDays
    BY <1>2, FirstLeft, LeftIs
  <2> QED
    BY <1>2, <2>1, FirstLeft DEF Dealt
<1> QED
  BY <1>1, <1>2

LEMMA StoreSteps ==
  ASSUME TypeOK, Control, NotAhead, FreshToWalk, [Next]_vars, TypeOK',
         NEW e \in Exchanges
  PROVE  Kept(e) \/ Begun(e) \/ Dealt(e)
<1>1. ASSUME NEW day \in TradingDays, StartCycle(day) PROVE Kept(e) \/ Begun(e)
  <2>1. step = "idle" /\ raw' = raw /\ missed' = missed /\ DaysLeft(e) = {}
    BY <1>1, LeftIs DEF StartCycle, rawVars
  <2>2. CASE DaysLeft(e)' = {}
    BY <2>1, <2>2 DEF Kept
  <2>3. CASE DaysLeft(e)' # {}
    <3>1. step' = "download" /\ Current' = e
      BY <2>3, LeftIsNext
    <3>2. freshness'[e] \in {0, LastPersisted(e)}
      BY <1>1, <3>1 DEF StartCycle
    <3>3. /\ freshness'[e] \in raw[e] \cup {0}
          /\ \A h \in raw[e] : freshness'[e] = 0 \/ h <= freshness'[e]
      BY <3>2, LastPersistedIs, TypeOKParts
    <3>4. walked' = 0
      BY <1>1, <2>1 DEF StartCycle, Control
    <3>5. \A t : t \in DaysLeft(e)' <=>
            t \in TradingDays /\ freshness'[e] < t /\ t <= latest'
      <4>1. \A t \in TradingDays : 0 < t
        BY DayTyped
      <4> QED
        BY <3>1, <3>4, <4>1, LeftIsNext
    <3>6. ASSUME NEW t \in TradingDays, NEW x \in DaysLeft(e)', freshness'[e] < t, t < x
          PROVE  t \in DaysLeft(e)'
      <4>1. x \in Nat /\ t \in Nat /\ latest' \in Nat /\ x <= latest'
        BY <3>5, DayTyped DEF TypeOK
      <4> QED
        BY <3>5, <3>6, <4>1
    <3> QED
      BY <2>1, <3>3, <3>5, <3>6 DEF Begun
  <2> QED
    BY <2>2, <2>3
<1>2. CASE step = "download" /\ (Skipped \/ CalendarUnknown)
  <2>1. NextExchange /\ UNCHANGED <<latest, freshness>> /\ raw' = raw /\ missed' = missed
    BY <1>2 DEF Skipped, CalendarUnknown, cycleVars, rawVars
  <2>2. e = Current => DaysLeft(e)' = {}
    BY <1>2, <2>1, HandOver
  <2>3. e # Current => Begun(e) \/ Kept(e)
    BY <1>2, <2>1, HandOver
  <2> QED
    BY <2>1, <2>2, <2>3, Ends
<1>3. CASE step = "download" /\ DownloadDay
  <2>1. e = Current => Dealt(e)
    BY <1>3, DownloadDeals
  <2>2. CASE e # Current
    <3>1. raw'[e] = raw[e] /\ missed'[e] = missed[e] /\ UNCHANGED <<latest, freshness>>
      BY <1>3, <2>2, DownloadIs DEF TypeOK
    <3>2. CASE NextExchange
      BY <1>3, <2>2, <3>1, <3>2, HandOver
    <3>3. CASE UNCHANGED <<step, todo>>
      <4>1. Current' # e
        BY <2>2, <3>3 DEF Current
      <4>2. DaysLeft(e) = {} /\ DaysLeft(e)' = {}
        BY <2>2, <4>1, LeftIs, LeftIsNext
      <4> QED
        BY <3>1, <4>2 DEF Kept
    <3> QED
      BY <1>3, <3>2, <3>3, DownloadIs
  <2> QED
    BY <2>1, <2>2
<1>4. CASE step' # "download" /\ UNCHANGED <<raw, missed>>
  <2>1. DaysLeft(e)' = {}
    BY <1>4, LeftIsNext
  <2> QED
    BY <1>4, <2>1, Ends
<1>5. CASE Crash
  BY <1>4, <1>5 DEF Crash, BackToIdle, rawVars
<1>6. CASE UNCHANGED vars
  BY <1>6 DEF vars, localVars, cycleVars, rawVars, Kept, DaysLeft, PendingDays,
              IncrementalStart, Current
<1> QED
  BY <1>1, <1>2, <1>3, <1>4, <1>5, <1>6, WalkCases

(* A day of the store has one whole file if it is in the raw prices. *)
LEMMA PerDayIs ==
  ASSUME NEW e \in Exchanges
  PROVE  /\ \A d \in Days : PerDay(e)[d] # << >> <=> d \in raw[e]
         /\ raw'[e] = raw[e] => PerDay(e)' = PerDay(e)
         /\ \A d \in Days : raw'[e] = raw[e] \cup {d} =>
              PerDay(e)' = [PerDay(e) EXCEPT ![d] = <<"whole">>]
<1>1. <<"whole">> # << >>
  OBVIOUS
<1>2. /\ PerDay(e) = [d \in Days |-> IF d \in raw[e] THEN <<"whole">> ELSE << >>]
      /\ PerDay(e)' = [d \in Days |-> IF d \in raw'[e] THEN <<"whole">> ELSE << >>]
  BY DEF PerDay
<1> QED
  BY <1>1, <1>2

LEMMA ExcusedIs ==
  ASSUME NEW e \in Exchanges
  PROVE  /\ missed'[e] = missed[e] => Excused(e)' = Excused(e)
         /\ \A d : missed'[e] = missed[e] \cup {d} => Excused(e)' = Excused(e) \cup {d}
         /\ Days \ TradingDays \subseteq Excused(e)
  BY DEF Excused

LEMMA NSEWalkStep ==
  ASSUME TypeOK, Kept("NSE") \/ Begun("NSE") \/ Dealt("NSE")
  PROVE  [NSEWalk!Next]_(NSEWalk!vars)
<1>1. "NSE" \in Exchanges /\ TradingDays \subseteq Days
  BY DayTyped, Names
<1>2. NSEWalk!Held = raw["NSE"]
  BY <1>1, PerDayIs DEF NSEWalk!Held, TypeOK
<1>3. CASE Kept("NSE")
  BY <1>1, <1>3, PerDayIs, ExcusedIs DEF Kept, NSEWalk!vars
<1>4. CASE Begun("NSE")
  <2>1. PICK from \in raw["NSE"] \cup {0} :
          /\ \A h \in raw["NSE"] : from = 0 \/ h <= from
          /\ \A t \in DaysLeft("NSE")' : t \in TradingDays /\ from < t
          /\ \A t \in TradingDays, x \in DaysLeft("NSE")' :
               from < t /\ t < x => t \in DaysLeft("NSE")'
    BY <1>4 DEF Begun
  <2>2. DaysLeft("NSE") = {} /\ PerDay("NSE")' = PerDay("NSE")
        /\ Excused("NSE")' = Excused("NSE")
    BY <1>1, <1>4, PerDayIs, ExcusedIs DEF Begun
  <2>3. Excused("NSE")' = Excused("NSE") \cup
          {d \in Days \ DaysLeft("NSE")' :
             from < d /\ \E x \in DaysLeft("NSE")' : d < x}
    BY <1>1, <2>1, <2>2, ExcusedIs
  <2>4. NSEWalk!Begin
    BY <1>1, <1>2, <2>1, <2>2, <2>3 DEF NSEWalk!Begin
  <2> QED
    BY <2>4 DEF NSEWalk!Next
<1>5. CASE Dealt("NSE")
  <2>1. PICK d \in DaysLeft("NSE") :
          /\ d \in TradingDays /\ \A t \in DaysLeft("NSE") : d <= t
          /\ \/ /\ DaysLeft("NSE")' = {}
                /\ raw'["NSE"] = raw["NSE"] /\ missed'["NSE"] = missed["NSE"]
             \/ /\ DaysLeft("NSE")' \in {{}, DaysLeft("NSE") \ {d}}
                /\ raw'["NSE"] = raw["NSE"] \cup {d}
                /\ missed'["NSE"] = missed["NSE"]
             \/ /\ DaysLeft("NSE")' = DaysLeft("NSE") \ {d}
                /\ raw'["NSE"] = raw["NSE"]
                /\ missed'["NSE"] = missed["NSE"] \cup {d}
    BY <1>5 DEF Dealt
  <2>2. d \in Days /\ NSEWalk!First(d)
    BY <1>1, <2>1 DEF NSEWalk!First
  <2>3. CASE DaysLeft("NSE")' = {} /\ raw'["NSE"] = raw["NSE"]
             /\ missed'["NSE"] = missed["NSE"]
    BY <1>1, <2>2, <2>3, PerDayIs, ExcusedIs DEF NSEWalk!Next, NSEWalk!Stop
  <2>4. CASE /\ DaysLeft("NSE")' \in {{}, DaysLeft("NSE") \ {d}}
             /\ raw'["NSE"] = raw["NSE"] \cup {d}
             /\ missed'["NSE"] = missed["NSE"] /\ d \notin raw["NSE"]
    <3>1. NSEWalk!Store(d)
      BY <1>1, <1>2, <2>2, <2>4, PerDayIs, ExcusedIs DEF NSEWalk!Store
    <3> QED
      BY <2>2, <3>1 DEF NSEWalk!Next
  <2>5. CASE /\ DaysLeft("NSE")' = DaysLeft("NSE") \ {d}
             /\ raw'["NSE"] = raw["NSE"] /\ d \in raw["NSE"]
             /\ missed'["NSE"] = missed["NSE"]
    BY <1>1, <1>2, <2>2, <2>5, PerDayIs, ExcusedIs DEF NSEWalk!Next, NSEWalk!Pass
  <2>6. CASE /\ DaysLeft("NSE")' = DaysLeft("NSE") \ {d}
             /\ raw'["NSE"] = raw["NSE"]
             /\ missed'["NSE"] = missed["NSE"] \cup {d}
    BY <1>1, <2>2, <2>6, PerDayIs, ExcusedIs DEF NSEWalk!Next, NSEWalk!Excuse
  <2>7. d \in raw["NSE"] => raw["NSE"] \cup {d} = raw["NSE"]
    OBVIOUS
  <2> QED
    BY <2>1, <2>3, <2>4, <2>5, <2>6, <2>7
<1> QED
  BY <1>3, <1>4, <1>5

LEMMA BSEWalkStep ==
  ASSUME TypeOK, Kept("BSE") \/ Begun("BSE") \/ Dealt("BSE")
  PROVE  [BSEWalk!Next]_(BSEWalk!vars)
<1>1. "BSE" \in Exchanges /\ TradingDays \subseteq Days
  BY DayTyped, Names
<1>2. BSEWalk!Held = raw["BSE"]
  BY <1>1, PerDayIs DEF BSEWalk!Held, TypeOK
<1>3. CASE Kept("BSE")
  BY <1>1, <1>3, PerDayIs, ExcusedIs DEF Kept, BSEWalk!vars
<1>4. CASE Begun("BSE")
  <2>1. PICK from \in raw["BSE"] \cup {0} :
          /\ \A h \in raw["BSE"] : from = 0 \/ h <= from
          /\ \A t \in DaysLeft("BSE")' : t \in TradingDays /\ from < t
          /\ \A t \in TradingDays, x \in DaysLeft("BSE")' :
               from < t /\ t < x => t \in DaysLeft("BSE")'
    BY <1>4 DEF Begun
  <2>2. DaysLeft("BSE") = {} /\ PerDay("BSE")' = PerDay("BSE")
        /\ Excused("BSE")' = Excused("BSE")
    BY <1>1, <1>4, PerDayIs, ExcusedIs DEF Begun
  <2>3. Excused("BSE")' = Excused("BSE") \cup
          {d \in Days \ DaysLeft("BSE")' :
             from < d /\ \E x \in DaysLeft("BSE")' : d < x}
    BY <1>1, <2>1, <2>2, ExcusedIs
  <2>4. BSEWalk!Begin
    BY <1>1, <1>2, <2>1, <2>2, <2>3 DEF BSEWalk!Begin
  <2> QED
    BY <2>4 DEF BSEWalk!Next
<1>5. CASE Dealt("BSE")
  <2>1. PICK d \in DaysLeft("BSE") :
          /\ d \in TradingDays /\ \A t \in DaysLeft("BSE") : d <= t
          /\ \/ /\ DaysLeft("BSE")' = {}
                /\ raw'["BSE"] = raw["BSE"] /\ missed'["BSE"] = missed["BSE"]
             \/ /\ DaysLeft("BSE")' \in {{}, DaysLeft("BSE") \ {d}}
                /\ raw'["BSE"] = raw["BSE"] \cup {d}
                /\ missed'["BSE"] = missed["BSE"]
             \/ /\ DaysLeft("BSE")' = DaysLeft("BSE") \ {d}
                /\ raw'["BSE"] = raw["BSE"]
                /\ missed'["BSE"] = missed["BSE"] \cup {d}
    BY <1>5 DEF Dealt
  <2>2. d \in Days /\ BSEWalk!First(d)
    BY <1>1, <2>1 DEF BSEWalk!First
  <2>3. CASE DaysLeft("BSE")' = {} /\ raw'["BSE"] = raw["BSE"]
             /\ missed'["BSE"] = missed["BSE"]
    BY <1>1, <2>2, <2>3, PerDayIs, ExcusedIs DEF BSEWalk!Next, BSEWalk!Stop
  <2>4. CASE /\ DaysLeft("BSE")' \in {{}, DaysLeft("BSE") \ {d}}
             /\ raw'["BSE"] = raw["BSE"] \cup {d}
             /\ missed'["BSE"] = missed["BSE"] /\ d \notin raw["BSE"]
    <3>1. BSEWalk!Store(d)
      BY <1>1, <1>2, <2>2, <2>4, PerDayIs, ExcusedIs DEF BSEWalk!Store
    <3> QED
      BY <2>2, <3>1 DEF BSEWalk!Next
  <2>5. CASE /\ DaysLeft("BSE")' = DaysLeft("BSE") \ {d}
             /\ raw'["BSE"] = raw["BSE"] /\ d \in raw["BSE"]
             /\ missed'["BSE"] = missed["BSE"]
    BY <1>1, <1>2, <2>2, <2>5, PerDayIs, ExcusedIs DEF BSEWalk!Next, BSEWalk!Pass
  <2>6. CASE /\ DaysLeft("BSE")' = DaysLeft("BSE") \ {d}
             /\ raw'["BSE"] = raw["BSE"]
             /\ missed'["BSE"] = missed["BSE"] \cup {d}
    BY <1>1, <2>2, <2>6, PerDayIs, ExcusedIs DEF BSEWalk!Next, BSEWalk!Excuse
  <2>7. d \in raw["BSE"] => raw["BSE"] \cup {d} = raw["BSE"]
    OBVIOUS
  <2> QED
    BY <2>1, <2>3, <2>4, <2>5, <2>6, <2>7
<1> QED
  BY <1>3, <1>4, <1>5

-----------------------------------------------------------------------------
(* The invariant, and what follows from it.                                *)

LEMMA InitIInv == Init => IInv
<1> SUFFICES ASSUME Init PROVE IInv
  OBVIOUS
<1>1. /\ 0 \in 0 .. LastDay /\ 0 \in 0 .. MaxFaults /\ 0 \in 0 .. MaxCrashes
  BY PipelineAssumption DEF PipelineAssumption
<1>2. << >> \in Table(SUBSET ActionDates) /\ DOMAIN << >> = {}
  <2>1. << >> = [d \in {} |-> {}] /\ DOMAIN << >> = {}
    OBVIOUS
  <2>2. [d \in {} |-> {}] \in [{} -> SUBSET ActionDates]
    OBVIOUS
  <2>3. {} \in SUBSET Days
    OBVIOUS
  <2> QED
    BY <2>1, <2>2, <2>3 DEF Table
<1>3. clean \in BOOLEAN
  BY Zenon DEF Init
<1>4. TypedLocal /\ TypedCycle /\ TypedRaw /\ TypedRolled /\ TypedIndicators
  BY <1>1 DEF Init, TypedLocal, TypedCycle, TypedRaw, TypedRolled, TypedIndicators, Stages
<1>5. TypedAdjusted
  BY <1>2 DEF Init, TypedAdjusted, NoRows
<1>6. TypeOK
  BY <1>1, <1>3, <1>4, <1>5, TypeOKParts, Zenon DEF Init, TypedCounts
<1>7. Shape
  <2>1. NoRows \in [Batches -> Table(SUBSET ActionDates)]
    BY <1>2 DEF NoRows
  <2> QED
    BY <2>1 DEF Init, Shape
<1>8. Control /\ NotAhead /\ FreshToWalk /\ NoHole /\ Rebuilding /\ Complete
  BY Names DEF Init, Control, InCycle, Walks, NotAhead, FreshToWalk, NoHole, Rebuilding,
               Complete
<1>9. Within
  BY <1>2 DEF Init, Within, NoRows
<1>10. Recorded /\ RollingUp /\ IndicatorNotAhead /\ StillDue /\ OpenFailureIsDue
  BY Names DEF Init, Recorded, RollingUp, IndicatorNotAhead, StillDue, OpenFailureIsDue
<1>11. GoodAdjust /\ GoodRollup /\ GoodActivate /\ GoodRun
  BY OverIs, Names DEF Init, GoodAdjust, GoodRollup, GoodActivate, GoodRun, InCycle
<1> QED
  BY <1>6, <1>7, <1>8, <1>9, <1>10, <1>11 DEF IInv

LEMMA IInvParts ==
  IInv <=> /\ TypeOK /\ Shape /\ Control /\ NotAhead /\ FreshToWalk
           /\ NoHole /\ Rebuilding /\ Complete
           /\ Within /\ Recorded /\ RollingUp
           /\ IndicatorNotAhead /\ StillDue /\ OpenFailureIsDue
           /\ GoodAdjust /\ GoodRollup /\ GoodActivate /\ GoodRun
  BY DEF IInv

LEMMA NextIInv == IInv /\ [Next]_vars => IInv'
<1> SUFFICES ASSUME IInv, [Next]_vars PROVE IInv'
  OBVIOUS
<1> USE IInvParts
<1>1. TypeOK' /\ Shape' /\ Control'
  BY TypeStep
<1>2. NotAhead' /\ FreshToWalk' /\ NoHole'
  BY <1>1, NotAheadStep, FreshToWalkStep, NoHoleStep
<1>3. Rebuilding' /\ Complete'
  BY RebuildingStep, CompleteStep
<1>4. Within' /\ Recorded' /\ RollingUp'
  BY WithinStep, RecordedStep, RollingUpStep
<1>5. IndicatorNotAhead' /\ StillDue' /\ OpenFailureIsDue'
  BY NotAheadOfWorkbook, StillDueStep, OpenFailureStep
<1>6. GoodAdjust' /\ GoodRollup' /\ GoodActivate' /\ GoodRun'
  BY GoodAdjustStep, GoodRollupStep, GoodActivateStep, GoodRunStep
<1> QED
  BY <1>1, <1>2, <1>3, <1>4, <1>5, <1>6 DEF IInv

(* A rollup that reaches a day has rolled up every period up to it. *)
LEMMA RollupsComplete ==
  ASSUME TypeOK, Recorded, NEW e \in Exchanges, NEW r \in Rollups,
         NEW p \in Periods(r), p <= RolledTo(r, e)
  PROVE  rolled[r][e][p] # NoRows
<1> DEFINE S == {rolled_to[r][e][q] : q \in Days}
<1>1. TypedRolled /\ p \in Days /\ p \in Nat /\ p >= 1
  BY TypeOKParts, DayTyped DEF Periods
<1>2. S \subseteq 0 .. LastDay
  BY <1>1 DEF TypedRolled
<1>3. RolledTo(r, e) = Last(S)
  BY DEF RolledTo
<1>4. Last(S) \in S \cup {0} /\ Last(S) \in 0 .. LastDay
  <2> HIDE DEF S
  <2> QED
    BY <1>2, LastIs
<1>5. PICK q \in Days : rolled_to[r][e][q] = RolledTo(r, e)
  <2>1. Last(S) # 0
    BY <1>1, <1>3, <1>4
  <2> QED
    BY <1>3, <1>4, <2>1
<1>6. RolledTo(r, e) \in Nat /\ RolledTo(r, e) # 0
  BY <1>1, <1>3, <1>4, DayTyped
<1>7. q \in Periods(r) /\ RolledTo(r, e) < q + Length(r)
  BY <1>5, <1>6 DEF Recorded
<1>8. p < q + Length(r)
  BY <1>1, <1>5, <1>6, <1>7, DayTyped, LengthTyped
<1>9. p <= q
  BY <1>7, <1>8, PeriodsApart
<1> QED
  BY <1>5, <1>6, <1>9 DEF Recorded

LEMMA FreshFollows == IInv => FreshIsComplete
<1> SUFFICES ASSUME IInv PROVE FreshIsComplete
  OBVIOUS
<1> USE IInvParts
<1>1. \A e \in Exchanges, r \in Rollups : \A p \in Periods(r) :
        p <= RolledTo(r, e) => rolled[r][e][p] # NoRows
  BY RollupsComplete
<1> QED
  BY <1>1 DEF FreshIsComplete, Complete

LEMMA CatchesUpFollows == IInv => CleanCycleCatchesUp
<1> SUFFICES ASSUME IInv, step = "end", Good
             PROVE  /\ \A e \in Exchanges : adjusted[e] = [b \in Batches |-> Rebuilt(e)]
                    /\ RollupsFollow
                    /\ IndicatorsFollow
  BY DEF CleanCycleCatchesUp, Good
<1> USE IInvParts
<1>1. \A e \in Exchanges : adjusted[e] = [b \in Batches |-> Rebuilt(e)]
  BY OverIs DEF GoodAdjust, IsRebuilt
<1>2. RollupsFollow
  BY OverIs, Names DEF GoodRollup, IsRolledUp, RollupsFollow
<1>3. IndicatorsFollow
  BY Names DEF GoodRun, IsComputed, IndicatorsFollow
<1> QED
  BY <1>1, <1>2, <1>3

(* The invariant holds in every state: the walks leave nothing behind but  *)
(* what the metadata does not speak for.                                   *)
THEOREM SpecIInv == Spec => []IInv
<1>1. Init => IInv
  BY InitIInv
<1>2. IInv /\ [Next]_vars => IInv'
  BY NextIInv
<1> QED
  BY <1>1, <1>2, PTL DEF Spec

(* The tables of the pipeline hold what their columns can hold. *)
THEOREM SpecTypeOK == Spec => []TypeOK
<1>1. IInv => TypeOK
  BY IInvParts
<1> QED
  BY <1>1, SpecIInv, PTL

(* The freshness STEPS 4 to 6 go by promises what it says: SUCCESS through *)
(* a day means that every batch of the adjusted series has every price up  *)
(* to it, and a period recorded that all before it are rolled up.          *)
THEOREM SpecFreshIsComplete == Spec => []FreshIsComplete
  BY FreshFollows, SpecIInv, PTL

(* The date STEP 8 records for an indicator is one its workbook has. *)
THEOREM SpecIndicatorNotAhead == Spec => []IndicatorNotAhead
<1>1. IInv => IndicatorNotAhead
  BY IInvParts
<1> QED
  BY <1>1, SpecIInv, PTL

(* An open failure of the current day leaves its indicator due. *)
THEOREM SpecOpenFailureIsDue == Spec => []OpenFailureIsDue
<1>1. IInv => OpenFailureIsDue
  BY IInvParts
<1> QED
  BY <1>1, SpecIInv, PTL

(* After a cycle without a failure, with new days of both exchanges, every *)
(* table is what a computation from scratch would give.                    *)
THEOREM SpecCleanCycleCatchesUp == Spec => []CleanCycleCatchesUp
  BY CatchesUpFollows, SpecIInv, PTL

LEMMA InitStores == Init => NSEWalk!Init /\ BSEWalk!Init
<1> SUFFICES ASSUME Init PROVE NSEWalk!Init /\ BSEWalk!Init
  OBVIOUS
<1>1. \A e \in Exchanges : /\ PerDay(e) = [d \in Days |-> << >>] /\ DaysLeft(e) = {}
                           /\ Excused(e) \subseteq Days
  BY DEF Init, PerDay, DaysLeft, Excused
<1> QED
  BY <1>1, Names DEF NSEWalk!Init, BSEWalk!Init

(* STEP 2 implements DayStore for each exchange, at the grain at which the *)
(* pipeline takes it: whatever fails in either walk, a day is stored once  *)
(* and in order, and none of a walk is given up but as DayStore lets it.   *)
THEOREM SpecStoresDays == Spec => StoresDays
<1>1. Init => NSEWalk!Init /\ BSEWalk!Init
  BY InitStores
<1>2. IInv /\ [Next]_vars => [NSEWalk!Next]_(NSEWalk!vars)
  BY IInvParts, TypeStep, StoreSteps, NSEWalkStep, Names
<1>3. IInv /\ [Next]_vars => [BSEWalk!Next]_(BSEWalk!vars)
  BY IInvParts, TypeStep, StoreSteps, BSEWalkStep, Names
<1> QED
  BY <1>1, <1>2, <1>3, SpecIInv, PTL
     DEF Spec, StoresDays, NSEWalk!Spec, BSEWalk!Spec

=============================================================================
