---------------------------- MODULE PriceSeries ----------------------------
(***************************************************************************)
(* What STEPS 4 to 8 compute for one exchange, row by row: the adjusted    *)
(* series of a security over its changes of ISIN, its weeks, its RSI walk  *)
(* and its moving average.  Pipeline says when these steps run and what    *)
(* their metadata claim; here a cycle takes all of them, each commit or    *)
(* chunk in a step of its own, and may be broken off anywhere.             *)
(*                                                                         *)
(* Numbers are symbolic.  A close is where it comes from and the set of    *)
(* corporate actions whose factors were applied to it; a week is its last  *)
(* close; an average is the set of what was averaged.  Days are sessions.  *)
(***************************************************************************)
EXTENDS Integers, Sequences, FiniteSetsExt, SequencesExt

CONSTANTS
  Isins,
  Migrations,     \* rows an operator may add to security_identity_lineage
  Actions,        \* [isin, ex]: actions that may become MATCHED
  Histories,      \* what raw may be at first: days by ISIN
  OneSided,       \* days the other exchange may have no file for
  None,
  LastDay,        \* bound: days modelled, the last of which is still to come
  WeekLength,     \* days of a week
  BatchSize,      \* DEFAULT_SECURITY_BATCH_SIZE
  RsiPeriod,      \* RSI_PERIOD
  GapThreshold,   \* GAP_THRESHOLD_SESSIONS
  Window,         \* WINDOW of the moving average
  ChunkDays,      \* CHUNK_SIZE_DAYS
  MaxCycles,      \* bound: cycles
  MaxFaults       \* bound: failed batches and weeks, kills

MaxHops == 10     \* max_hops of resolve_security_id()

ASSUME PriceSeriesAssumption ==
  /\ IsFiniteSet(Isins) /\ Migrations \subseteq Isins \X Isins
  /\ Actions \subseteq [isin : Isins, ex : Int]
  /\ LastDay \in Nat \ {0, 1} /\ OneSided \subseteq 1 .. LastDay
  /\ Histories \subseteq [Isins -> SUBSET (1 .. LastDay - 1)]
  /\ {WeekLength, BatchSize, RsiPeriod, GapThreshold, Window, ChunkDays}
       \subseteq Nat \ {0}
  /\ MaxCycles \in Nat /\ MaxFaults \in Nat

Days  == 1 .. LastDay
WeekOf(d) == (d - 1) \div WeekLength + 1
Weeks == 1 .. WeekOf(LastDay)

VARIABLES
  raw,            \* bhav_copy, after the tiebreak: the days an ISIN has a row
  today,
  calendar,       \* sessions both exchanges have SUCCESS for
  lineage,        \* security_identity_lineage: old ISIN -> new ISIN
  matched,        \* MATCHED actions
  adjusted,       \* bhav_copy_adjusted, by security and day
  weekly,         \* bhav_copy_w, by security and week
  rsi,            \* rsi14d_workbook
  ma,             \* ma9d_workbook
  pc, plan,       \* the step of the cycle; what STEP 4 read and has left
  at,             \* the week or the day a walk has come to
  cycles, faults,
  fresh           \* history: tables that follow from their source as it is

world  == <<raw, today, calendar, lineage, matched>>
tables == <<adjusted, weekly, rsi, ma>>
vars   == <<world, tables, pc, plan, at, cycles, faults, fresh>>

Closes == [source : Isins, day : Days, factors : SUBSET Actions]

TypeOK ==
  /\ raw \in [Isins -> SUBSET (1 .. today)] /\ today \in Days
  /\ calendar \subseteq Days
  /\ lineage \in [Isins -> Isins \cup {None}]
  /\ matched \subseteq Actions
  /\ \A s \in Isins : \A d \in DOMAIN adjusted[s] :
       /\ adjusted[s][d].close \in Closes /\ adjusted[s][d].close.day = d
       /\ adjusted[s][d].prev \in Closes \cup {None}
  /\ \A s \in Isins : \A w \in DOMAIN weekly[s] :
       /\ weekly[s][w].close \in Closes /\ WeekOf(weekly[s][w].close.day) = w
       /\ weekly[s][w].prev \in Closes \cup {None}
  /\ \A s \in Isins : DOMAIN rsi[s] \cup DOMAIN ma[s] \subseteq DOMAIN adjusted[s]
  /\ pc \in {"idle", "adjust", "rollup", "rsi", "ma"}
  /\ \A k \in DOMAIN plan.batches : plan.batches[k] \subseteq Isins
  /\ at \in 1 .. LastDay + ChunkDays
  /\ cycles \in 0 .. MaxCycles /\ faults \in 0 .. MaxFaults
  /\ fresh \subseteq {"adjusted", "weekly", "rsi", "ma"}

Init ==
  /\ today = LastDay - 1
  /\ raw \in Histories
  /\ \E missing \in SUBSET OneSided : calendar = Days \ missing
  /\ lineage = [i \in Isins |-> None] /\ matched = {}
  /\ adjusted = [s \in Isins |-> << >>] /\ weekly = [s \in Isins |-> << >>]
  /\ rsi = [s \in Isins |-> << >>] /\ ma = [s \in Isins |-> << >>]
  /\ pc = "idle" /\ plan = [lineage |-> lineage, batches |-> << >>] /\ at = 1
  /\ cycles = 0 /\ faults = 0 /\ fresh = {}

Fault   == faults < MaxFaults /\ faults' = faults + 1
NoFault == UNCHANGED faults

Before(f, x) == {y \in DOMAIN f : y < x}

(* ON CONFLICT DO UPDATE: what is in new replaces what is in old. *)
Upserted(old, new) ==
  [x \in DOMAIN old \cup DOMAIN new |-> IF x \in DOMAIN new THEN new[x] ELSE old[x]]

-----------------------------------------------------------------------------
(* The world.  Prices and actions arrive between cycles, in the STEPS      *)
(* before; a row of the lineage is entered by hand at any time.            *)

NewDay ==
  /\ pc = "idle" /\ today < LastDay
  /\ today' = today + 1
  /\ \E traded \in SUBSET Isins :
       raw' = [i \in Isins |-> raw[i] \cup (IF i \in traded THEN {today'} ELSE {})]
  /\ fresh' = fresh \ {"adjusted"}
  /\ UNCHANGED <<calendar, lineage, matched, tables, pc, plan, at, cycles, faults>>

Match(a) ==
  /\ pc = "idle" /\ a \notin matched
  /\ matched' = matched \cup {a}
  /\ fresh' = fresh \ {"adjusted"}
  /\ UNCHANGED <<raw, today, calendar, lineage, tables, pc, plan, at, cycles, faults>>

AddLineage(m) ==
  /\ lineage[m[1]] = None
  /\ lineage' = [lineage EXCEPT ![m[1]] = m[2]]
  /\ fresh' = fresh \ {"adjusted"}
  /\ UNCHANGED <<raw, today, calendar, matched, tables, pc, plan, at, cycles, faults>>

-----------------------------------------------------------------------------
(* STEP 4.                                                                 *)

(* resolve_security_id(): at most MaxHops rows of the lineage are followed. *)
SecurityOf(isin, map) ==
  LET hop[n \in 0 .. MaxHops] ==
        IF n = 0 THEN isin
        ELSE IF map[hop[n - 1]] = None THEN hop[n - 1] ELSE map[hop[n - 1]]
  IN hop[MaxHops]

(* Mutant: the batches are cut by ISIN. *)
ChunksByIsin(isins, map) == SetToSeq({{i} : i \in isins})

(* chunk_isins_by_security(): all ISINs of a security are in one batch. *)
Chunks(isins, map) ==
  LET securities == SetToSeq({SecurityOf(i, map) : i \in isins})
      batches    == (Len(securities) + BatchSize - 1) \div BatchSize
      of(k) == {securities[j] : j \in {j \in DOMAIN securities :
                                         (j - 1) \div BatchSize + 1 = k}}
  IN [k \in 1 .. batches |-> {i \in isins : SecurityOf(i, map) \in of(k)}]

(* fetch_distinct_isins() *)
Eligible == {i \in Isins : raw[i] # {}}

StartCycle ==
  /\ pc = "idle" /\ cycles < MaxCycles
  /\ cycles' = cycles + 1
  /\ plan' = [lineage |-> lineage, batches |-> Chunks(Eligible, lineage)]
  /\ pc' = "adjust"
  /\ UNCHANGED <<world, tables, at, faults, fresh>>

(* Two ISINs of one security with rows of one day are two rows for one key *)
(* of the upsert, which the database refuses.                              *)
Collides(batch) ==
  \E i, j \in batch : /\ i # j /\ raw[i] \cap raw[j] # {}
                      /\ SecurityOf(i, plan.lineage) = SecurityOf(j, plan.lineage)

(* The actions of the security that went ex after the day. *)
FactorsOf(s, d) ==
  {a \in matched : SecurityOf(a.isin, plan.lineage) = s /\ a.ex > d}

(* build_adjusted_series() for one security: its rows over all its ISINs   *)
(* in one order, adjusted, each with the close of the one before it.       *)
Built(s, batch) ==
  LET isins   == {i \in batch : SecurityOf(i, plan.lineage) = s}
      days    == UNION {raw[i] : i \in isins}
      close(d) == [source |-> CHOOSE i \in isins : d \in raw[i], day |-> d,
                   factors |-> FactorsOf(s, d)]
  IN [d \in days |->
        [close |-> close(d),
         prev  |-> LET earlier == {e \in days : e < d}
                   IN IF earlier = {} THEN None ELSE close(Max(earlier))]]

(* upsert_bhav_copy_adjusted(): the rows of the batch up to a day.         *)
Rebuilt(batch, upto) ==
  [s \in Isins |->
     IF s \in {SecurityOf(i, plan.lineage) : i \in batch}
     THEN LET new == Built(s, batch)
          IN Upserted(adjusted[s], [d \in {e \in DOMAIN new : e <= upto} |-> new[d]])
     ELSE adjusted[s]]

(* A batch is upserted; or it fails after the commit of some of its rows,  *)
(* which are sorted by security and day, and the step ends there.  STEP 5  *)
(* follows in either case.                                                 *)
AdjustBatch ==
  /\ pc = "adjust" /\ plan.batches # << >>
  /\ LET batch == Head(plan.batches)
     IN \/ /\ ~Collides(batch) /\ NoFault
           /\ adjusted' = Rebuilt(batch, LastDay)
           /\ plan' = [plan EXCEPT !.batches = Tail(@)] /\ UNCHANGED pc
        \/ /\ \/ Collides(batch) /\ NoFault /\ UNCHANGED adjusted
              \/ Fault /\ \E upto \in 0 .. LastDay - 1 : adjusted' = Rebuilt(batch, upto)
           /\ plan' = [plan EXCEPT !.batches = << >>] /\ pc' = "rollup"
  /\ at' = 1 /\ fresh' = {}
  /\ UNCHANGED <<world, weekly, rsi, ma, cycles>>

AdjustDone ==
  /\ pc = "adjust" /\ plan.batches = << >>
  /\ pc' = "rollup" /\ at' = 1
  /\ fresh' = IF plan.lineage = lineage THEN fresh \cup {"adjusted"} ELSE fresh
  /\ UNCHANGED <<world, tables, plan, cycles, faults>>

-----------------------------------------------------------------------------
(* STEP 5: period by period, each with its rows of the adjusted series.    *)

(* Mutant: the close of the week before, whether there is a row or not. *)
CloseOfWeekBefore(s, w) ==
  IF w - 1 \in DOMAIN weekly[s] THEN weekly[s][w - 1].close ELSE None

(* fetch_prior_close_lookup(): the last row before the week. *)
PriorClose(s, w) ==
  LET earlier == Before(weekly[s], w)
  IN IF earlier = {} THEN None ELSE weekly[s][Max(earlier)].close

(* Mutant: the rows are not bounded below. *)
UpToWeek(s, w) == {d \in DOMAIN adjusted[s] : WeekOf(d) <= w}

(* fetch_daily_rows(), period_start() *)
InWeek(s, w) == {d \in DOMAIN adjusted[s] : WeekOf(d) = w}

(* compute_rollup() of one period and its upsert; a period without rows,   *)
(* or one that fails, ends the walk.                                       *)
RollUp ==
  /\ pc = "rollup"
  /\ LET traded == {s \in Isins : InWeek(s, at) # {}}
     IN \/ /\ traded # {} /\ NoFault
           /\ weekly' = [s \in Isins |->
                IF s \in traded
                THEN Upserted(weekly[s], [w \in {at} |->
                       [close |-> adjusted[s][Max(InWeek(s, w))].close,
                        prev  |-> PriorClose(s, w)]])
                ELSE weekly[s]]
           /\ IF at < WeekOf(today)
              THEN at' = at + 1 /\ UNCHANGED <<pc, fresh>>
              ELSE at' = 1 /\ pc' = "rsi" /\ fresh' = fresh \cup {"weekly"}
        \/ /\ (traded = {} /\ NoFault) \/ Fault
           /\ at' = 1 /\ pc' = "rsi"
           /\ UNCHANGED <<weekly, fresh>>
  /\ UNCHANGED <<world, adjusted, rsi, ma, plan, cycles>>

-----------------------------------------------------------------------------
(* STEP 8: the RSI walk.                                                   *)

(* sessions_between(), is_gap(): two days the calendar does not have are   *)
(* never a gap apart.                                                      *)
IsGap(d, e) ==
  /\ {d, e} \subseteq calendar
  /\ Cardinality({x \in calendar : d < x /\ x < e}) >= GapThreshold

(* Mutant: the walk is never restarted. *)
OneStart(s, d) == Before(adjusted[s], d) = {} \/ Cardinality(Before(adjusted[s], d)) = 1

(* A row begins a chunk if it is the first with a previous close, or if a  *)
(* gap lies between it and the last row that had one.                      *)
StartsChunk(s, d) ==
  LET valid == {e \in DOMAIN adjusted[s] : adjusted[s][e].prev # None}
      earlier == {e \in valid : e < d}
  IN d \in valid /\ (earlier = {} \/ IsGap(Max(earlier), d))

(* compute_rsi14_for_isin(): the average of a row is over the changes of   *)
(* its chunk up to the row, once there are RsiPeriod of them; a row in the *)
(* chunk without a previous close leaves nothing after it.                 *)
Walk(s) ==
  LET rows == DOMAIN adjusted[s]
      chunk(d) == LET starts == {e \in rows : e <= d /\ StartsChunk(s, e)}
                  IN IF starts = {} THEN {}
                     ELSE {e \in rows : Max(starts) <= e /\ e <= d}
      seeded == {d \in rows : /\ Cardinality(chunk(d)) >= RsiPeriod
                              /\ \A e \in chunk(d) : adjusted[s][e].prev # None}
  IN [d \in seeded |-> {<<adjusted[s][e].prev, adjusted[s][e].close>> : e \in chunk(d)}]

(* The upsert has a row for every row of the adjusted series, with no       *)
(* average where the walk has none, and adjusted rows are never deleted:   *)
(* what it leaves is the walk, whatever was there before.                  *)
Rsi ==
  /\ pc = "rsi"
  /\ rsi' = [s \in Isins |-> Walk(s)]
  /\ pc' = "ma" /\ at' = 1 /\ fresh' = fresh \cup {"rsi"}
  /\ UNCHANGED <<world, adjusted, weekly, ma, plan, cycles, faults>>

-----------------------------------------------------------------------------
(* STEP 8: the moving average, chunk by chunk.                             *)

(* The n last members of a set of days. *)
LastOf(S, n) == {d \in S : Cardinality({e \in S : e > d}) < n}

(* Mutant: as many days as the window has, traded or not, are read back. *)
LookbackDays(s, start) == {d \in Before(adjusted[s], start) : d > start - Window}

(* fetch_closes_for_ma(): the rows before the chunk that its first window  *)
(* needs.                                                                  *)
Lookback(s, start) == LastOf(Before(adjusted[s], start), Window - 1)

(* compute_ma() over a chunk and the rows before it, which are dropped.    *)
Averaged(s, start, end) ==
  LET inside == {d \in DOMAIN adjusted[s] : start <= d /\ d <= end}
      rows   == inside \cup Lookback(s, start)
      trailing(d) == LastOf({e \in rows : e <= d}, Window)
  IN [d \in inside |-> IF Cardinality(trailing(d)) < Window THEN None
                       ELSE {adjusted[s][e].close : e \in trailing(d)}]

MaChunk ==
  /\ pc = "ma"
  /\ LET end == Min({at + ChunkDays - 1, today})
     IN /\ ma' = [s \in Isins |-> Upserted(ma[s], Averaged(s, at, end))]
        /\ IF end < today
           THEN at' = end + 1 /\ UNCHANGED <<pc, fresh>>
           ELSE at' = 1 /\ pc' = "idle" /\ fresh' = fresh \cup {"ma"}
  /\ UNCHANGED <<world, adjusted, weekly, rsi, plan, cycles, faults>>

Crash ==
  /\ pc # "idle" /\ Fault
  /\ pc' = "idle" /\ at' = 1 /\ plan' = [plan EXCEPT !.batches = << >>]
  /\ UNCHANGED <<world, tables, cycles, fresh>>

-----------------------------------------------------------------------------
Next ==
  \/ StartCycle \/ AdjustBatch \/ AdjustDone \/ RollUp \/ Rsi \/ MaChunk \/ Crash
  \/ NewDay
  \/ \E a \in Actions : Match(a)
  \/ \E m \in Migrations : AddLineage(m)

Spec == Init /\ [][Next]_vars

-----------------------------------------------------------------------------
(* Properties.                                                             *)

Current == {s \in Isins : lineage[s] = None}
Neighbours(S) == {p \in S \X S : p[1] < p[2] /\ \A e \in S : ~(p[1] < e /\ e < p[2])}

(* A rebuild that went through leaves one unbroken series for each         *)
(* security: all days of all its ISINs, each row's previous close the very *)
(* close of the row before, and the two scales apart by exactly the        *)
(* actions that went ex between them -- whatever earlier rebuilds, of      *)
(* other identities or other actions, left half committed.                 *)
UnbrokenSeries ==
  "adjusted" \in fresh =>
    \A s \in Current :
      LET series == adjusted[s]
          own == {i \in Isins : SecurityOf(i, lineage) = s}
      IN /\ DOMAIN series = UNION {raw[i] : i \in own}
         /\ \A p \in Neighbours(DOMAIN series) :
              /\ series[p[2]].prev = series[p[1]].close
              /\ series[p[1]].close.factors \ series[p[2]].close.factors =
                   {a \in matched : a.isin \in own /\ p[1] < a.ex /\ a.ex <= p[2]}
              /\ series[p[2]].close.factors \subseteq series[p[1]].close.factors

(* The weeks, taken one by one from a table the same walk rewrites, are    *)
(* the weeks of the whole series: each closes as the series does, and its  *)
(* previous close is that of the last week the security traded in.         *)
WeeksChained ==
  "weekly" \in fresh =>
    \A s \in Isins :
      LET weeks == weekly[s]
      IN /\ DOMAIN weeks = {WeekOf(d) : d \in DOMAIN adjusted[s]}
         /\ \A w \in DOMAIN weeks : weeks[w].close = adjusted[s][Max(InWeek(s, w))].close
         /\ \A p \in Neighbours(DOMAIN weeks) : weeks[p[2]].prev = weeks[p[1]].close

(* The average of a row is over at least RsiPeriod changes, those of all   *)
(* rows since the last gap and of no row before it, whatever changes of    *)
(* ISIN, actions and broken-off rebuilds came before.                      *)
WalkSinceGap ==
  "rsi" \in fresh =>
    \A s \in Isins :
      \A d \in DOMAIN rsi[s] :
        LET days == {change[2].day : change \in rsi[s][d]}
            rows == {e \in DOMAIN adjusted[s] : e <= d /\ adjusted[s][e].prev # None}
        IN /\ Cardinality(rsi[s][d]) >= RsiPeriod
           /\ days = {e \in rows : e >= Min(days)}
           /\ \A p \in Neighbours(days) : ~IsGap(p[1], p[2])
           /\ \A e \in rows : e < Min(days) =>
                \E p \in Neighbours(rows) : p[2] = Min(days) /\ IsGap(p[1], p[2])

(* Cut into chunks of days, the moving average is that of the whole        *)
(* series: of the last Window rows of the security, however far back they  *)
(* lie, and absent only where there are fewer.                             *)
AverageOfLastRows ==
  "ma" \in fresh =>
    \A s \in Isins :
      /\ DOMAIN ma[s] = DOMAIN adjusted[s]
      /\ \A d \in DOMAIN ma[s] :
           LET rows == Before(adjusted[s], d + 1)
           IN ma[s][d] = IF Cardinality(rows) < Window THEN None
                         ELSE {adjusted[s][e].close : e \in LastOf(rows, Window)}

(* rsi_calculator.py on its chunks: "no bridging across a gap boundary".   *)
(* The first change of a chunk is the one across the gap.                  *)
NoChangeAcrossGap ==
  \A s \in Isins : \A d \in DOMAIN rsi[s] :
    \A change \in rsi[s][d] : ~IsGap(change[1].day, change[2].day)

=============================================================================
