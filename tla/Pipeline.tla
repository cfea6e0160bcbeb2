---------------------------- MODULE Pipeline ----------------------------
(***************************************************************************)
(* One cycle of the scheduler, check_and_process() STEPS 2 to 8, over the  *)
(* tables it fills: the raw prices of a day, the corporate actions, the    *)
(* adjusted series, the weekly and monthly rollups, and the workbooks of   *)
(* the indicators.  Each step decides from metadata what to do again, any  *)
(* step may fail or the process be killed, and the next cycle starts from  *)
(* what the tables then say.                                               *)
(*                                                                         *)
(* Days are calendar days from DEFAULT_START_DATE, day 1; None is day 0.   *)
(* A derived table holds what its rows were computed from: an adjusted     *)
(* price is the set of corporate actions applied to it, a rolled-up period *)
(* the adjusted prices it was taken from, a workbook its source.  One      *)
(* indicator stands for all of a time frame: they share a source, and each *)
(* has its own rows.  The maintenance flag around a cycle is in            *)
(* Maintenance, the clock in SchedulerCycle.                               *)
(***************************************************************************)
EXTENDS Integers, FiniteSets, FiniteSetsExt, Functions

CONSTANTS
  Batches,        \* batches of securities, each upserted in one commit
  LastDay,        \* bound: days modelled
  TradingDays,    \* the days with a session
  ActionDates,    \* ex-dates of the corporate actions that are published
  WeekLength, MonthLength,
  MaxFaults,      \* bound: failed requests and transactions
  MaxCrashes      \* bound: kills of the process

Days == 1 .. LastDay

ASSUME PipelineAssumption ==
  /\ LastDay \in Nat \ {0} /\ TradingDays \subseteq Days /\ 1 \in TradingDays
  /\ ActionDates \subseteq Days
  /\ WeekLength \in Nat \ {0} /\ MonthLength \in Nat \ {0}
  /\ MaxFaults \in Nat /\ MaxCrashes \in Nat

Exchanges  == {"NSE", "BSE"}
Rollups    == {"week", "month"}
Indicators == {"daily"} \cup Rollups

VARIABLES
  latest,         \* LATEST_TRADE_DATE of the last cycle
  step,
  todo,           \* exchanges left in this step
  at,             \* "gate": this step has not looked at the exchange yet
  freshness,      \* freshness[exchange], as read at the start of the cycle
  walked,         \* the last day the download has dealt with
  left,           \* batches left
  period,         \* the period to roll up next
  runner,         \* where the runner of each indicator is
  raw,            \* days in bhav_copy_metadata, SUCCESS
  reported,       \* corporate actions each exchange has reported
  adjusted,       \* bhav_copy_adjusted
  adjusted_to,    \* latest_trade_date of its metadata, SUCCESS
  rolled,         \* bhav_copy_w and bhav_copy_m
  rolled_to,      \* period_end_date of their metadata, for each period
  registry,       \* indicators_registry.status
  iwm,            \* indicators_workbook_metadata.latest_trade_date
  workbook,
  open_failures,  \* trade dates in indicators_open_failures
  faults, crashes,
  clean,          \* history: nothing has failed in this cycle
  missed          \* history: days an exchange answered "not found" for

localVars == <<step, todo, at, walked, left, period, runner>>
cycleVars == <<latest, freshness>>
rawVars   == <<raw, missed>>
adjVars   == <<adjusted, adjusted_to>>
rollVars  == <<rolled, rolled_to>>
indVars   == <<registry, iwm, workbook, open_failures>>
vars == <<localVars, cycleVars, rawVars, reported, adjVars, rollVars, indVars,
          faults, crashes, clean>>

Stages == {"off", "queued", "NSE", "BSE", "record", "clean", "done"}

TypeOK ==
  /\ latest \in {0} \cup TradingDays
  /\ step \in {"idle", "download", "actions", "adjust", "activate", "run", "end"}
                \cup Rollups
  /\ todo \subseteq Exchanges
  /\ at \in {"gate", "work"}
  /\ freshness \in [Exchanges -> {0} \cup TradingDays]
  /\ walked \in {0} \cup TradingDays
  /\ left \subseteq Batches
  /\ period \in 0 .. LastDay
  /\ runner \in [Indicators -> Stages]
  /\ raw \in [Exchanges -> SUBSET TradingDays]
  /\ missed \in [Exchanges -> SUBSET TradingDays]
  /\ reported \in [Exchanges -> SUBSET ActionDates]
  /\ \A e \in Exchanges : \A b \in Batches : DOMAIN adjusted[e][b] \subseteq raw[e]
  /\ adjusted_to \in [Exchanges -> {0} \cup TradingDays]
  /\ rolled_to \in [Rollups -> [Exchanges -> [Days -> 0 .. LastDay]]]
  /\ registry \in [Indicators -> {"ACTIVE", "DEACTIVE"}]
  /\ iwm \in [Indicators -> 0 .. LastDay]
  /\ open_failures \in [Indicators -> SUBSET TradingDays]
  /\ faults \in 0 .. MaxFaults /\ crashes \in 0 .. MaxCrashes
  /\ clean \in BOOLEAN

-----------------------------------------------------------------------------
(* What the tables say.                                                    *)

Last(S) == Max(S \cup {0})

(* MAX(trade_date) of the raw prices, per exchange. *)
LastPersisted(e) == Last(raw[e])

(* gap[exchange], and the first day that is asked for again. *)
Gap(e) == freshness[e] < latest
IncrementalStart(e) == freshness[e] + 1

(* An action counts once both exchanges have reported it. *)
Matched == reported["NSE"] \cap reported["BSE"]

(* build_adjusted_series(): a price is scaled by every later action. *)
Rebuilt(e) == [d \in raw[e] |-> {a \in Matched : a > d}]

NoRows == [b \in Batches |-> << >>]

DailyRows(e, first, last) ==
  [b \in Batches |->
     Restrict(adjusted[e][b], DOMAIN adjusted[e][b] \cap first .. last)]

Length(r) == IF r = "week" THEN WeekLength ELSE MonthLength
PeriodStart(r, d) == d - ((d - 1) % Length(r))
Periods(r) == {p \in Days : PeriodStart(r, p) = p}

(* The last day of a period, the open one ends with the latest day. *)
PeriodEnd(r, p) == Min({p + Length(r) - 1, latest})

(* get_metadata_freshness(): MAX(period_end_date). *)
RolledTo(r, e) == Last({rolled_to[r][e][p] : p \in Days})

(* What the runner of an indicator reads, and the dates its workbook has.  *)
(* The row of a period has the date of its first day.                      *)
Source(i, e) ==
  [b \in Batches |->
     IF i = "daily" THEN adjusted[e][b]
     ELSE Restrict([p \in Days |-> rolled[i][e][p][b]],
                   {p \in Days : rolled[i][e][p][b] # << >>})]
Dates(rows) == UNION {DOMAIN rows[b] : b \in Batches}
LastInWorkbook(i) == Last(UNION {Dates(workbook[i][e]) : e \in Exchanges})

(* upsert_rsi_workbook() and its like commit every so many rows: a failure *)
(* leaves some of them new. A period of a rollup is one transaction.       *)
Partly(old, new) ==
  {[b \in Batches |-> IF b \in S THEN new[b] ELSE old[b]] : S \in SUBSET Batches}

(* STEP 7's own test, also made before the cycle. *)
Pending(i, d) == iwm[i] < d

-----------------------------------------------------------------------------
Init ==
  /\ latest = 0 /\ freshness = [e \in Exchanges |-> 0]
  /\ step = "idle" /\ todo = {} /\ at = "gate" /\ walked = 0
  /\ left = {} /\ period = 0 /\ runner = [i \in Indicators |-> "off"]
  /\ raw = [e \in Exchanges |-> {}] /\ missed = [e \in Exchanges |-> {}]
  /\ reported = [e \in Exchanges |-> {}]
  /\ adjusted = [e \in Exchanges |-> NoRows]
  /\ adjusted_to = [e \in Exchanges |-> 0]
  /\ rolled = [r \in Rollups |-> [e \in Exchanges |-> [p \in Days |-> NoRows]]]
  /\ rolled_to = [r \in Rollups |-> [e \in Exchanges |-> [p \in Days |-> 0]]]
  /\ registry = [i \in Indicators |-> "DEACTIVE"]
  /\ iwm = [i \in Indicators |-> 0]
  /\ workbook = [i \in Indicators |-> [e \in Exchanges |-> NoRows]]
  /\ open_failures = [i \in Indicators |-> {}]
  /\ faults = 0 /\ crashes = 0 /\ clean = TRUE

Fault   == faults < MaxFaults /\ faults' = faults + 1 /\ clean' = FALSE
NoFault == UNCHANGED <<faults, clean>>

Current == IF "NSE" \in todo THEN "NSE" ELSE "BSE"

StepAfter ==
  [download |-> "actions", actions |-> "adjust", adjust |-> "week",
   week |-> "month", month |-> "activate"]

(* The step is over for the current exchange. *)
NextExchange ==
  /\ at' = "gate" /\ walked' = 0 /\ left' = {} /\ period' = 0
  /\ IF Cardinality(todo) > 1
     THEN todo' = todo \ {Current} /\ UNCHANGED step
     ELSE /\ step' = StepAfter[step]
          /\ todo' = IF step = "month" THEN {} ELSE Exchanges
  /\ UNCHANGED runner

-----------------------------------------------------------------------------
(* Before STEP 2: is there any work?  A read that fails counts as work;    *)
(* one of the prices also makes every exchange start from day 1 again.     *)
StartCycle(d) ==
  /\ step = "idle" /\ d >= latest
  /\ latest' = d
  /\ LET read == [e \in Exchanges |-> LastPersisted(e)]
         work == \/ \E e \in Exchanges : read[e] < d
                 \/ \E i \in Indicators : Pending(i, d)
     IN \/ /\ work /\ step' = "download" /\ freshness' = read /\ NoFault
        \/ /\ ~work /\ step' = "idle" /\ UNCHANGED freshness /\ NoFault
        \/ /\ freshness' \in {read, [e \in Exchanges |-> 0]}
           /\ Fault /\ step' = "download"
  /\ todo' = IF step' = "idle" THEN {} ELSE Exchanges
  /\ UNCHANGED <<at, walked, left, period, runner, rawVars, reported, adjVars,
                 rollVars, indVars, crashes>>

-----------------------------------------------------------------------------
(* STEP 2: the days from the incremental start on, oldest first.           *)

PendingDays(e) ==
  {d \in TradingDays : IncrementalStart(e) <= d /\ d <= latest /\ d > walked}

GoOn(d) ==
  IF PendingDays(Current) = {d} THEN NextExchange
  ELSE /\ walked' = d
       /\ UNCHANGED <<step, todo, at, left, period, runner>>

(* A day that fails ends the walk of its exchange. *)
AfterFailedDay(d) == NextExchange

Skipped ==
  /\ step \in {"download", "actions"} /\ ~Gap(Current)
  /\ NextExchange /\ NoFault
  /\ UNCHANGED <<cycleVars, rawVars, reported, adjVars, rollVars, indVars, crashes>>

CalendarUnknown ==
  /\ step = "download" /\ Gap(Current) /\ walked = 0
  /\ Fault /\ NextExchange
  /\ UNCHANGED <<cycleVars, rawVars, reported, adjVars, rollVars, indVars, crashes>>

(* A day is persisted, or was before, or is not found, or fails.  Failing, *)
(* it may be persisted all the same.                                       *)
DownloadDay ==
  /\ step = "download" /\ Gap(Current)
  /\ LET e == Current
         d == Min(PendingDays(e))
         persisted == [raw EXCEPT ![e] = @ \cup {d}]
     IN \/ raw' = persisted /\ UNCHANGED missed /\ NoFault /\ GoOn(d)
        \/ /\ missed' = [missed EXCEPT ![e] = @ \cup {d}] /\ UNCHANGED raw
           /\ Fault /\ GoOn(d)
        \/ /\ raw' \in {raw, persisted} /\ UNCHANGED missed
           /\ Fault /\ AfterFailedDay(d)
  /\ UNCHANGED <<cycleVars, reported, adjVars, rollVars, indVars, crashes>>

-----------------------------------------------------------------------------
(* STEP 3: the actions with an ex-date in the same stretch of days.        *)
FetchActions ==
  /\ step = "actions" /\ Gap(Current)
  /\ LET e == Current
         fetched == [reported EXCEPT
                       ![e] = @ \cup (ActionDates \cap IncrementalStart(e) .. latest)]
     IN \/ reported' = fetched /\ NoFault
        \/ reported' \in {reported, fetched} /\ Fault
  /\ NextExchange
  /\ UNCHANGED <<cycleVars, rawVars, adjVars, rollVars, indVars, crashes>>

-----------------------------------------------------------------------------
(* STEPS 4 to 6 look at their own target; what cannot be read is stale.    *)

(* Mutant: only a gap in the raw prices makes a step run. *)
DueOnGapOnly(e, own) == Gap(e)

Due(e, own) == Gap(e) \/ own < latest

(* Mutant: only the open period is computed again. *)
OpenPeriodOnly == IF step = "adjust" THEN 0 ELSE PeriodStart(step, latest)

FirstPeriod == IF step = "adjust" THEN 0 ELSE 1

LookAt(own) ==
  \/ ~Due(Current, own) /\ NoFault /\ NextExchange
  \/ /\ \/ Due(Current, own) /\ NoFault
        \/ Fault
     /\ at' = "work"
     /\ left' = IF step = "adjust" /\ raw[Current] # {} THEN Batches ELSE {}
     /\ period' = FirstPeriod
     /\ UNCHANGED <<step, todo, walked, runner>>

AdjustGate ==
  /\ step = "adjust" /\ at = "gate"
  /\ LookAt(adjusted_to[Current])
  /\ UNCHANGED <<cycleVars, rawVars, reported, adjVars, rollVars, indVars, crashes>>

(* Mutant: a failed run leaves the metadata of a run that succeeded. *)
LatestAnyway(e) == LastPersisted(e)

(* The metadata of a failed run has no date. *)
LatestAfterFailure(e) == 0

(* STEP 4, one batch: fetched, built and upserted.  A failure ends the run *)
(* of the exchange, with FAILED in its metadata if that can be written.    *)
RebuildBatch ==
  /\ step = "adjust" /\ at = "work"
  /\ left # {}
  /\ LET e == Current
         b == CHOOSE b \in left : TRUE
         upserted == [adjusted EXCEPT ![e][b] = Rebuilt(e)]
     IN \/ /\ adjusted' = upserted /\ NoFault
           /\ left' = left \ {b}
           /\ UNCHANGED <<step, todo, at, walked, period, runner, adjusted_to>>
        \/ /\ adjusted' \in {adjusted, upserted} /\ Fault
           /\ adjusted_to' \in
                {adjusted_to, [adjusted_to EXCEPT ![e] = LatestAfterFailure(e)]}
           /\ NextExchange
  /\ UNCHANGED <<cycleVars, rawVars, reported, rollVars, indVars, crashes>>

FinishAdjust ==
  /\ step = "adjust" /\ at = "work" /\ left = {}
  /\ \/ /\ adjusted_to' = [adjusted_to EXCEPT ![Current] = LastPersisted(Current)]
        /\ NoFault
     \/ UNCHANGED adjusted_to /\ Fault
  /\ NextExchange
  /\ UNCHANGED <<cycleVars, rawVars, reported, adjusted, rollVars, indVars, crashes>>

-----------------------------------------------------------------------------
(* STEPS 5 and 6: every period from day 1 on, oldest first.                *)

RollupGate ==
  /\ step \in Rollups /\ at = "gate"
  /\ LookAt(RolledTo(step, Current))
  /\ UNCHANGED <<cycleVars, rawVars, reported, adjVars, rollVars, indVars, crashes>>

NextPeriod ==
  IF period + Length(step) > latest THEN NextExchange
  ELSE /\ period' = period + Length(step)
       /\ UNCHANGED <<step, todo, at, walked, left, runner>>

(* Mutant: the walk goes on after a period that failed. *)
PassesOver == NextPeriod

(* A period that fails, or has no daily rows, ends the walk. *)
AfterFailedPeriod == NextExchange

RollUpPeriod ==
  /\ step \in Rollups /\ at = "work"
  /\ LET e == Current
         p == period
         rows == DailyRows(e, p, PeriodEnd(step, p))
         upserted == [rolled EXCEPT ![step][e][p] = rows]
         recorded == [rolled_to EXCEPT ![step][e][p] = PeriodEnd(step, p)]
     IN \/ /\ rows # NoRows /\ NoFault
           /\ rolled' = upserted /\ rolled_to' = recorded
           /\ NextPeriod
        \/ /\ rows = NoRows /\ NoFault
           /\ UNCHANGED rollVars
           /\ AfterFailedPeriod
        \/ /\ Fault
           /\ \/ UNCHANGED rollVars
              \/ /\ rows # NoRows /\ rolled' = upserted
                 /\ rolled_to' \in {rolled_to, recorded}
           /\ AfterFailedPeriod
  /\ UNCHANGED <<cycleVars, rawVars, reported, adjVars, indVars, crashes>>

-----------------------------------------------------------------------------
(* STEP 7: whatever is behind is activated.                                *)
Activate ==
  /\ step = "activate"
  /\ LET pending == {i \in Indicators : Pending(i, latest)}
     IN \E S \in SUBSET pending :
          /\ IF S = pending THEN NoFault ELSE Fault
          /\ registry' = [i \in Indicators |->
                            IF i \in S THEN "ACTIVE" ELSE registry[i]]
          /\ runner' = [i \in Indicators |->
                          IF i \in S THEN "queued" ELSE "off"]
          /\ step' = IF S = {} THEN "end" ELSE "run"
  /\ UNCHANGED <<todo, at, walked, left, period, cycleVars, rawVars, reported,
                 adjVars, rollVars, iwm, workbook, open_failures, crashes>>

(* STEP 8: a pool of two threads.                                          *)
MaxWorkers == 2
Running == {i \in Indicators : runner[i] \notin {"off", "queued", "done"}}

Becomes(i, stage) ==
  /\ runner' = [runner EXCEPT ![i] = stage]
  /\ UNCHANGED <<todo, at, walked, left, period>>

RunnerStarts(i) ==
  /\ step = "run" /\ runner[i] = "queued"
  /\ Cardinality(Running) < MaxWorkers
  /\ \/ Becomes(i, "NSE") /\ NoFault
     \/ Becomes(i, "done") /\ Fault
  /\ UNCHANGED <<step, cycleVars, rawVars, reported, adjVars, rollVars, indVars,
                 crashes>>

(* The whole source of an exchange is read and the workbook upserted.  A   *)
(* failure is recorded, if that can be written, and ends the run.          *)
RunnerRecomputes(i, e) ==
  /\ step = "run" /\ runner[i] = e
  /\ LET failed == [open_failures EXCEPT ![i] = @ \cup {latest}]
     IN \/ /\ workbook' = [workbook EXCEPT ![i][e] = Source(i, e)]
           /\ NoFault
           /\ Becomes(i, IF e = "NSE" THEN "BSE" ELSE "record")
           /\ UNCHANGED <<registry, open_failures>>
        \/ /\ \E some \in Partly(workbook[i][e], Source(i, e)) :
                workbook' = [workbook EXCEPT ![i][e] = some]
           /\ Fault
           /\ \/ /\ open_failures' = failed
                 /\ registry' = [registry EXCEPT ![i] = "DEACTIVE"]
              \/ UNCHANGED <<registry, open_failures>>
           /\ Becomes(i, "done")
  /\ UNCHANGED <<step, cycleVars, rawVars, reported, adjVars, rollVars, iwm, crashes>>

(* Mutant: the run is recorded under the date of the cycle. *)
CycleDate(i) == latest

RecordedDate(i) == LastInWorkbook(i)

(* Mutant: the failure stays open. *)
KeptOpen(i, d) == open_failures

(* record_success() deletes the open failure of the date it records. *)
Closed(i, d) == [open_failures EXCEPT ![i] = @ \ {d}]

RunnerRecords(i) ==
  /\ step = "run" /\ runner[i] = "record"
  /\ LET d == RecordedDate(i)
     IN \/ /\ IF d = 0 THEN UNCHANGED <<iwm, open_failures>>
              ELSE /\ iwm' = [iwm EXCEPT ![i] = d]
                   /\ open_failures' = Closed(i, d)
           /\ NoFault /\ Becomes(i, "clean")
        \/ UNCHANGED <<iwm, open_failures>> /\ Fault /\ Becomes(i, "done")
  /\ UNCHANGED <<step, cycleVars, rawVars, reported, adjVars, rollVars, registry,
                 workbook, crashes>>

RunnerDeactivates(i) ==
  /\ step = "run" /\ runner[i] = "clean"
  /\ \/ registry' = [registry EXCEPT ![i] = "DEACTIVE"] /\ NoFault
     \/ UNCHANGED registry /\ Fault
  /\ Becomes(i, "done")
  /\ UNCHANGED <<step, cycleVars, rawVars, reported, adjVars, rollVars, iwm,
                 workbook, open_failures, crashes>>

PoolDone ==
  /\ step = "run" /\ \A i \in Indicators : runner[i] \in {"off", "done"}
  /\ step' = "end"
  /\ NoFault
  /\ UNCHANGED <<todo, at, walked, left, period, runner, cycleVars, rawVars,
                 reported, adjVars, rollVars, indVars, crashes>>

BackToIdle ==
  /\ step' = "idle" /\ todo' = {} /\ at' = "gate" /\ walked' = 0 /\ left' = {}
  /\ period' = 0 /\ runner' = [i \in Indicators |-> "off"]
  /\ freshness' = [e \in Exchanges |-> 0] /\ clean' = TRUE
  /\ UNCHANGED <<latest, rawVars, reported, adjVars, rollVars, indVars, faults>>

EndCycle == step = "end" /\ BackToIdle /\ UNCHANGED crashes

Crash ==
  /\ step # "idle" /\ crashes < MaxCrashes /\ crashes' = crashes + 1
  /\ BackToIdle

-----------------------------------------------------------------------------
Runner(i) ==
  \/ RunnerStarts(i) \/ RunnerRecords(i) \/ RunnerDeactivates(i)
  \/ \E e \in Exchanges : RunnerRecomputes(i, e)

Cycle ==
  \/ Skipped \/ CalendarUnknown \/ DownloadDay \/ FetchActions
  \/ AdjustGate \/ RebuildBatch \/ FinishAdjust
  \/ RollupGate \/ RollUpPeriod
  \/ Activate \/ PoolDone \/ EndCycle
  \/ \E i \in Indicators : Runner(i)

Next ==
  \/ \E d \in TradingDays : StartCycle(d)
  \/ Cycle
  \/ Crash

Spec == Init /\ [][Next]_vars

(* A cycle that has begun goes on, and there is a cycle after the last day *)
(* of all as often as it takes.                                            *)
FairSpec ==
  /\ Spec
  /\ WF_vars(Cycle)
  /\ SF_vars(StartCycle(Max(TradingDays)))

-----------------------------------------------------------------------------
(* Properties.                                                             *)

(* The freshness that the later steps go by promises what it says.  When   *)
(* the metadata of the adjusted series says SUCCESS through a day, every   *)
(* batch has every raw price up to that day; when that of a rollup reaches *)
(* a day, every period up to that day has been rolled up.  The exception   *)
(* is a day that was once answered "not found": when the freshness of a    *)
(* later cycle cannot be read, the walk starts from day 1 again, and may   *)
(* store that day under metadata that is past it.                          *)
FreshIsComplete ==
  \A e \in Exchanges :
    /\ \A b \in Batches :
         {d \in raw[e] \ missed[e] : d <= adjusted_to[e]}
           \subseteq DOMAIN adjusted[e][b]
    /\ \A r \in Rollups : \A p \in Periods(r) :
         p <= RolledTo(r, e) => rolled[r][e][p] # NoRows

(* The date of an indicator is one its workbook has. *)
IndicatorNotAhead ==
  \A i \in Indicators : iwm[i] # 0 =>
    \E e \in Exchanges : iwm[i] \in Dates(workbook[i][e])

(* An indicator with an open failure of the current day is due again. *)
OpenFailureIsDue ==
  \A i \in Indicators : latest \in open_failures[i] => Pending(i, latest)

(* A period without any daily row stops the walk through the periods. *)
EmptyPeriod ==
  \E r \in Rollups : \E e \in Exchanges : \E p \in Periods(r) :
    p <= latest /\ raw[e] \cap p .. PeriodEnd(r, p) = {}

RollupsFollow ==
  \A r \in Rollups : \A e \in Exchanges : \A p \in Periods(r) :
    p <= latest => rolled[r][e][p] = DailyRows(e, p, PeriodEnd(r, p))

IndicatorsFollow ==
  \A i \in Indicators : \A e \in Exchanges : workbook[i][e] = Source(i, e)

(* After a cycle in which nothing failed and both exchanges had new days,  *)
(* every table is what a computation from scratch would give, whatever     *)
(* failed in the cycles before.                                            *)
CleanCycleCatchesUp ==
  (step = "end" /\ clean /\ (\A e \in Exchanges : Gap(e)) /\ ~EmptyPeriod) =>
    /\ \A e \in Exchanges : adjusted[e] = [b \in Batches |-> Rebuilt(e)]
    /\ RollupsFollow
    /\ IndicatorsFollow

(* The raw prices of an exchange as a store of days. *)
PerDay(e) == [d \in Days |-> IF d \in raw[e] THEN <<"whole">> ELSE << >>]
DaysLeft(e) == IF step = "download" /\ Current = e THEN PendingDays(e) ELSE {}
Excused(e) == missed[e] \cup (Days \ TradingDays)

NSEWalk == INSTANCE DayStore WITH
             stored <- PerDay("NSE"), left <- DaysLeft("NSE"),
             excused <- Excused("NSE"), cut <- {}
BSEWalk == INSTANCE DayStore WITH
             stored <- PerDay("BSE"), left <- DaysLeft("BSE"),
             excused <- Excused("BSE"), cut <- {}

(* STEP 2 implements it for each exchange. *)
StoresDays == NSEWalk!Spec /\ BSEWalk!Spec

(* The last day's prices are persisted for both exchanges in the end, and  *)
(* the daily indicators computed through it.                               *)
LastDayArrives ==
  <>[](/\ \A e \in Exchanges : Max(TradingDays) \in raw[e]
       /\ iwm["daily"] = Max(TradingDays))

-----------------------------------------------------------------------------
(* What comments of the code say and its steps do not do.                  *)

(* STEPS 4 to 6 check "each step's OWN target's freshness explicitly", for *)
(* "retry-safety": after a cycle in which nothing failed the rollups agree *)
(* with the adjusted series.                                               *)
RollupFollowsAdjusted ==
  step = "end" /\ clean /\ ~EmptyPeriod => RollupsFollow

=============================================================================
