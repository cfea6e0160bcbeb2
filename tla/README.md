# A verification of market-data-loader

This directory holds TLA+ models of the long-running services of market-data-loader, the TLC
configurations that model-check them on small instances, and theorems about them with proofs
that TLAPS checks for every value of the constants.

Contents: 1 the system; 2 the modules and how they follow the code; 3 the runs; 4 bounds and
fairness; 5 the proofs; 6 what the code does that its comments deny; 7 what is not modelled;
8 the plan.

## 1. The system

Three processes and a web application share one PostgreSQL database. The processes never call
each other: they meet in the `maintenance_status` row (two flags, and a derived third one that
locks users out), in the upload metadata and the enrichment cursor, and in the tables that one
step writes and the next one reads.

| component | source | state it keeps | operations | talks to |
|---|---|---|---|---|
| scheduler loop | `bhavcopy_scheduler_main.py` `run()` | `last_completed_cycle_id` in memory; completion and next-run times in the row | start, load, idle, run a cycle, retry, save, sleep | the row, the cycle |
| cycle bracket | same, `check_and_process()`, `reconcile_stale_scheduler_lock()`, `_wait_for_stock_universe_ready()` | `scheduler_running`, `scheduler_started_at` | heal a stale lock, wait for the stock universe, check the listener, log in, plan, raise, clear | the row, the application |
| STEP 2, prices of a day | `runners/price_actions/bhav_copy_d_unadjusted_price_runner.py`, `core/bhavcopy/`, `core/trading_calendar.py` | `bhav_copy`, `bhav_copy_metadata`, files on disk, holidays in memory | walk the pending days, download or reuse, parse, persist | exchanges, holiday calendar |
| STEP 3, corporate actions | `corporate_actions_runner.py`, `core/corporate_actions/` | raw and canonical actions, their metadata | request a stretch of days, resolve, persist, reconcile the exchanges, record | exchanges, `stock_universe` |
| STEP 4, adjusted series | `bhav_copy_d_price_adjustment_runner.py`, `core/price_series/` | `bhav_copy_adjusted`, one metadata row per exchange | rebuild batch by batch | tables of STEPS 2 and 3, `security_identity_lineage` |
| STEPS 5 and 6, rollups | `bhav_copy_w_runner.py`, `bhav_copy_m_runner.py`, `core/rollup/` | `bhav_copy_w`, `bhav_copy_m`, a metadata row per period | walk the periods from the first one | table of STEP 4 |
| STEPS 7 and 8, indicators | `core/indicators/`, `core/rsi/`, `core/ma/`, `runners/technicals/` | registry, workbook metadata, open failures, workbooks | activate what is behind, run two at a time, compute, record success or failure | tables of STEPS 4 to 6 |
| stock universe listener | `stock_universe_update_listener.py`, `core/stock_universe/` | `enrichment_running`, cursor, work queue, counters | poll, gate, enrich with worker threads, record, clear | the row, exchanges, fallback tiers |
| market brief listener | `market_brief_listener.py`, `core/market_brief/loader.py` | `inbox/`, `processed/`, `failed/`, the brief table | scan, test stability, load, save, move | a user's browser, the database |
| clients and infrastructure | `core/*_client.py`, logging, environment | none | HTTP, connections | outside |

**What is hard.** Two processes test and set flags of one row in different transactions. Any
transaction, request or step may fail, and any process may be killed between two of them; the
only memory is the database (and, for STEP 2, the files on its disk), and each step of the cycle
decides what is left to do from the metadata of its own target. A cycle of the night has to keep
its identity over midnight and over restarts. Two exchanges report the same corporate action at
different times and amend it. A security changes its ISIN. Worker threads share the result of a
security that is listed twice. A browser writes the files the brief listener reads.
`PROJECT.json` lists these hazards one by one, each at its line, with the properties aimed at it.

**What makes each component correct.**

- *Row and bracket*: users are locked out whenever data change; a flag comes down again unless a
  transaction failed or a process was killed; cycles and uploads are served in the end.
- *Scheduler loop*: no window is slept through, no cycle is repeated unless its completion was
  forgotten, the row never claims a cycle that did not complete.
- *Prices of a day*: each day is stored once and whole; a day is passed over only for a reason on
  record; a session whose file is served arrives.
- *Corporate actions*: the reconciled row is a function of what the exchanges last reported,
  however it came; the incremental windows leave no hole.
- *Series, weeks, averages*: computed in batches, periods and chunks, and half committed now and
  then, they are what one computation over the whole history gives.
- *Pipeline*: metadata that says "complete through day d" is true; a clean cycle repairs whatever
  earlier ones left behind.
- *Enrichment*: each side of a security is counted whatever fails on the other; an official
  sector is neither lost nor blanked; the batch ends.
- *Brief inbox*: nothing is filed away unsaved, read half written, or replaced by an older file.

## 2. The modules

| module | models | source of its actions |
|---|---|---|
| `AppLockdown` | the promise of the row, whoever writes it: locked while somebody works, unlocked only when nobody does | abstract specification |
| `DayStore` | the promise of STEP 2 for one exchange: days are stored in order, once, and none is passed over without a reason | abstract specification |
| `Maintenance` | the two processes and the application around the row, one action per transaction or request | `check_and_process()`, `poll_once()`, `run_enrichment_batch()`, `core/stock_universe/persistence.py` |
| `SchedulerCycle` | the daily loop with the clock, restarts and the memory of completed cycles | `run()`, `_cycle_id_for()`, `_seconds_until_next_window_open()` |
| `Pipeline` | STEPS 2 to 8 over the tables and their metadata | `check_and_process()` from STEP 2 on, `runners/`, `core/rollup`, `core/price_series`, `core/indicators` |
| `DailyDownload` | STEP 2 down to the file: calendar, gap, disk, parser, transaction | `bhav_copy_d_unadjusted_price_runner.py`, `core/bhavcopy/`, `core/trading_calendar.py`, `core/holiday_client.py` |
| `CorporateActions` | STEP 3: two exchanges, raw and reconciled rows, windows | `corporate_actions_runner.py`, `core/corporate_actions/` |
| `PriceSeries` (`MCPriceSeries`) | what STEPS 4, 5 and 8 compute, row by row | `core/price_series/`, `core/rollup/`, `core/rsi/`, `core/ma/`, the runners |
| `Enrichment` | one batch: queue, workers, both sides of a security, counters | `_run_enrichment_batch_body()`, the worker functions, `taxonomy.resolve_ids` |
| `MarketBriefInbox` | downloads, passes over the inbox, the brief table | `process_inbox()`, `build_brief()`, the poll loop |
| `MaintenanceProofs`, `SchedulerCycleProofs`, `PipelineProofs`, `DailyDownloadProofs`, `CorporateActionsProofs`, `PriceSeriesProofs`, `EnrichmentProofs`, `MarketBriefInboxProofs` | theorems about the module each is named after | |

How they fit together. `Maintenance` composes scheduler, listener and application; a cycle and a
batch are one protected stretch in it. `SchedulerCycle` opens that scheduler up along the clock,
`Pipeline` opens up the protected stretch of a cycle and `Enrichment` that of a batch.
`DailyDownload`, `CorporateActions` and `PriceSeries` open up steps of `Pipeline`: there a day of
STEP 2, a run of STEP 3 and a batch of STEP 4 are one action each, whose outcomes these modules
justify. The modules share no variables but the meaning of "a cycle completes", "a day is
persisted", "an action is MATCHED" and "a batch is recorded". `Maintenance` implements
`AppLockdown` under

    working = the processes in their protected stretch        locked = is_running

and `DailyDownload` implements `DayStore` under

    stored = rows        left = pending        cut = interrupted
    excused = missed \cup believed

`Pipeline` implements it twice, once for each exchange, with one whole file for each day in
`raw[e]`, the days still to be asked for while STEP 2 is at that exchange, and the days not found
or without a session as excused. That is what makes one action of `Pipeline` a day: whatever
`DailyDownload` does in between, on the disk or in the parser, is a stutter of `DayStore`.

**Maintenance.** `sched_pc` and `list_pc` are the places in the two programs between
transactions. `SetSchedulerRunning` and `SetEnrichmentRunning` are the two UPDATEs with their
derived column. `SchedReconcile` and `SchedHeal` are the read and the write of the start-up
check; `SchedUniverseReady` is STEP 0; `SchedCheckEnrichment`, `SchedLogin`, `SchedPlan`,
`SchedEnter`, `SchedWork`, `SchedClear` are the stations of a cycle. `ListPoll` to `ListClear`
are those of a poll. The check of the other's flag fails open in the scheduler and ends the poll
in the listener, as coded. A commit that reports an error may have happened. `UploadBegin` and
`UploadCommit` are the application (external): its filter is passed before, its row commits
later.

**SchedulerCycle.** Time passes while the process sleeps, runs a cycle or is down. A cycle that
began before the close may end after it. `Load` may fail to read the row and `Save` may fail to
write it; `forgotten` counts completions lost that way, or by a kill between the two. The code
saves an aware time in IST and takes what it reads back for IST, while the column holds the local
time of the database session, whose zone nothing in the code sets: `RememberedCycle` goes through
`SessionTime`, `SessionLag` ticks behind. `misread` counts the start-ups at which a completion
inside its window was read back as a time of no window. `next_run_at` is the announcement in the
row, a write that may fail; on a retry it is computed from the clock as it was before the cycle.

**Pipeline.** A derived table is modelled by what its rows were computed from: an adjusted price
is the set of corporate actions applied to it, a rolled-up period the adjusted prices it was
taken from, a workbook the rows of its source. "Up to date" is then an equation between tables.
Each action is one exchange's turn at a step, down to one day, one batch (the rows of one commit)
or one period where the code loops. `NextExchange` is the loop over the exchanges and the order
of the steps. `LookAt` is the gate of STEPS 4 to 6. One indicator stands for all of a time frame.

**DailyDownload.** `StartCycle` fetches the holidays (once in the life of a process), walks back
from today to `LATEST_TRADE_DATE` and lists the days after the last one with SUCCESS metadata; a
freshness that cannot be read counts as none. `Download` looks at the file on the disk first:
one with a first byte is not asked for again. `WriteFile`, `Parse` and `Persist` follow, each of
which may fail and end the walk; a file that cannot be decoded ends the process instead
(`ParseAborts`). A kill while a file is written leaves a part of it on the disk;
the parser notices a missing header or a wrong date, but not missing rows. The exchange may
publish late, or answer with a file that is not the day's until it is corrected; the application
may correct its calendar. `missed`, `believed` and `interrupted` record why a day may be absent
or short.

**CorporateActions.** `raw` is what each exchange last reported for a key of security and
ex-date, `canonical` the reconciled row. `Request`, `PersistRaw`, `Reconcile` and `Record` are
one run for one exchange: the download of a window, the resolution by symbol or scrip code and
the upsert, the reconciliation of the touched keys with the commit of both, and the metadata row
in a transaction of its own. A ratio is one the parser can read or text it cannot. `Publish`
and `Relist` are the exchanges, which publish, amend and withdraw, and the uploads of the
universe. `StartCycle` gives each exchange with a gap the window from its last price on, or, when
the freshness cannot be read, every exchange the window from the first day. `changed` and
`excused` record which keys changed after they had been asked for, and which ones a run that did
not finish was to ask for; both are cleared for a window that is answered and stored.

**PriceSeries.** Numbers are symbolic: a close is the row it comes from and the set of actions
whose factors it was multiplied by; an average is the set of what was averaged. `AdjustBatch`
rebuilds the securities of a batch over all their ISINs, and may break off after a commit;
`RollUp` is one period, with the previous close read from the table it writes; `Rsi` is the walk
over the whole series, cut where the calendar has a gap; `MaChunk` is one chunk of days with the
rows read back before it. Prices, actions and rows of the lineage arrive in between.

**Enrichment.** Of a row only the source of its sector is kept. A side's row is written in its
own transaction; the sharing step of the BSE side writes the NSE row afterwards.

**MarketBriefInbox.** The content of a file is its quality: good, refused by the checks, or
accepted by the checks and refused by the database every time (JSON with `NaN` or `\u0000`). A
pass can break off between any two of its steps.

Operators commented `Mutant` are plausible wrong versions of the definition they stand before.
No specification uses them; they show that each property can fail.

## 3. The runs

Run one with `tlc -config X.cfg M`. Sizes are distinct states.

| run | states | checks |
|---|---|---|
| `maintenance` | 38 000 | `UniverseEnrichedFirst`, `CursorCovered`, `FlagReleased`, the refinement `LocksApplication`, and under fairness `CycleCompletes` and `UploadEnriched` |
| `scheduler_cycle` | 356 000 | `NotRepeated`, `NotSleptThrough`, `RowTruthful`, `AnnouncedInTime` |
| `pipeline` | 714 000 | the refinement `StoresDays`, `FreshIsComplete`, `IndicatorNotAhead`, `OpenFailureIsDue`, `CleanCycleCatchesUp`, `LastDayArrives` |
| `daily_download` | 183 000 | the refinement `StoresDays`, `RowsMatchMetadata`, `HolesExplained`, `ShortOnlyIfInterrupted`, `ServedDayArrives` |
| `corporate_actions` | 2 999 000 | `CanonicalFollowsRaw`, `SuccessIsStored`, `NoHoleInWindows`, `RecordIsTruthful` |
| `price_series` | 149 000 | `UnbrokenSeries`, `WeeksChained`, `WalkSinceGap`, `AverageOfLastRows` |
| `enrichment` | 975 000 | `AllSidesCounted`, `OfficialSectorShared`, `RowNeverWorse`, `BatchEnds` |
| `brief_inbox` | 347 000 | `ProcessedIsSaved`, `OnlyFinishedFiles`, `NewestWinsUndisturbed`, `JsonSettled` |
| `maintenance_overlap` | violation | both processes work at once although nothing failed |
| `enrichment_done` | violation | a batch whose workers died is recorded as SUCCESS |
| `pipeline_rollup` | violation | rollups of a failed STEP 4 are not repeated |
| `price_series_gap` | violation | an RSI seed contains the change across a gap |

What they show, beyond the names:

- The lock holds: users are locked out whenever either process changes data. Cycles and uploads
  are served in the end, unless a flag was left up by a failure or a kill.
- A walk of STEP 2 that is begun again anywhere inserts no row twice, passes over no day that
  failed, and stores a day short of rows only if a kill cut off its file.
- Whatever the exchanges report, in which order and amended how often, and whichever runs are
  rolled back, the reconciled row is the reconciliation of what they last reported.
- A rebuild that goes through leaves one unbroken series for each security, also after a change
  of ISIN and after rebuilds of other identities that were half committed; chunks and periods
  give what the whole series gives.
- After a cycle without failures in which both exchanges had new days, every table is what a
  computation from scratch would give.

Each of the runs `price_series`, `enrichment` and `brief_inbox` checks the type invariant of its
module too; the type invariant of every module is proved. A run marked
*violation* checks one statement of a comment that the code does not keep; section 6 explains
each.

## 4. Bounds and fairness

| constant | bound | why it is enough |
|---|---|---|
| `StaleAfter` 1 | lock age in ticks | young, at the limit and over it all occur |
| `MaxUploads` 2, `MaxWindows` 2 | uploads, due cycles | a second upload can commit during the batch of the first, a second cycle meets the flag left by the first |
| `MaxFaults` 2, `MaxCrashes` 1 (`Maintenance`) | failures, kills | one to leave a flag up, another to hit the recovery |
| `DayLength` 6, `Close` 1, `Open` 3, `RetryInterval` 1, `MaxRunTime` 1, `SessionLag` 1, `MaxDay` 3 | the clock | a cycle can start before and end after the close and cross midnight; a completion just after the opening is read back as before it, one after midnight as of the evening; three days let a repeated or skipped cycle show |
| `LastDay` 3, `TradingDays` {1, 3}, weeks of 2 days, months of 3 (`Pipeline`) | the calendar | two weeks, an open month that grows, a day without a session, an action between the two days |
| two batches, one fault, one kill (`Pipeline`) | a rebuild | broken off between batches, followed by a kill |
| `LastDay` 3, `FirstCalendar` {1, 2, 3}, `MaxFaults` 2, `MaxNews` 1 (`DailyDownload`) | three sessions | a day can fail between two others; a kill leaves a part of a file and a failure follows; one day turns into a holiday or is answered wrongly |
| one security, `LastDay` 2, `ExDates` {2}, two ratios, `MaxNews` 3, `MaxFaults` 1 (`CorporateActions`) | one key | keys are independent: an action of one key is never read for another. Three changes report it on both exchanges and amend it; two ratios agree or contradict, and are interchangeable (symmetry) |
| two ISINs, `LastDay` 6, weeks of 2, `BatchSize` 1, `RsiPeriod` 2, `GapThreshold` 2, `Window` 2, `ChunkDays` 2, `MaxCycles` 2, `MaxFaults` 1 (`PriceSeries`) | a series | one change of ISIN with a gap, an overlap, or no rows of the new one; a period, a window and a chunk shorter than the series; a second cycle over what the first left half committed |
| `NseListed` {i1, i2}, `BseListed` {i1, i3}, two workers, `MaxFaults` 2 | enrichment | a security on both exchanges and one on each, as two threads see them |
| `MaxFiles` 3, `MaxDate` 1, `MaxFaults` 1 | inbox | two versions of a date and its page |

*Fairness.* `Maintenance!FairSpec`: each process keeps taking steps and is restarted when it ends
(container restart or redeploy), time passes, a request that passed the filter is answered. Weak
fairness is enough: a process between two transactions is always able to take its next step.
`Enrichment!FairSpec`: each thread goes on; all its requests have timeouts. `MarketBriefInbox!
FairSpec`: the listener polls, time passes, a download ends. `DailyDownload!FairSpec`: there is a
cycle every day, also after the last day modelled, and one that has begun goes on.
`Pipeline!FairSpec`: a cycle that has begun goes on, and cycles for the last day keep being
started (strong fairness, since a cycle can only start between cycles): the scheduler's window of
the next day has the same or a later latest trade date. Failures, kills and news are never fair,
and are bounded. Liveness formulas name what may really stop the system: a flag left up with no
process to clear it (`[]FlagOrphaned`), a file the parser refuses (`Blocked`), a holiday the
process still believes in.

`CHECK_DEADLOCK FALSE` stands where the system may really stop: a batch that has ended, a clock
and budgets used up.

## 5. The proofs

`tlapm M.tla` on a proof module checks every obligation of it, and so covers every value of the
constants, from the ASSUME of the module and nothing else. Each argument is an inductive
invariant, because what the runs check is seldom inductive by itself.

*Maintenance*, from `ConstantsAreNaturals`. That the application is locked while the scheduler
works (`ProtectedWork`) depends on the listener recomputing the combined flag from the
scheduler's own. `ConsistentLock` adds `RowConsistent` (the combined flag is the disjunction of
the two), `OwnFlagUp` (a process in its protected stretch has its own flag up, as nobody else
clears it) and `BatchCommitted` (ids in the listener's memory are ids of committed uploads, so
that the cursor cannot pass them). From it follow `SpecTypeOK`, `SpecProtectedWork`,
`SpecUniverseEnrichedFirst`, `SpecCursorCovered`, the action property `SpecFlagReleased`, and
`SpecLocksApplication`: every step of the two processes is a step of `AppLockdown` or a stutter.

*SchedulerCycle*, from `WindowAssumption`: the window is not empty, the retry interval is shorter
than a day, and a cycle is shorter than the gap between two windows (the code calls 6 hours a
generous upper bound of a cycle; the gap is 7), and the database session is at most that gap
behind IST. `NotRepeated` needs to know where a completion is
remembered, `NotSleptThrough` how long a sleep may be and which cycle it can overrun. `LoopInv`
has both: `RunInWindow`, `SleepsToNextOpen`, `MemoryTruthful`, `Remembered`, which speaks of the
completion as it was saved (`RecordedCycle`) and leaves to `misread` what the session makes of
it. `AnnouncesNextOpen` carries an announcement over the window in which it was made, over failed
writes and kills, until it has passed. `SpecTypeOK`, `SpecNotRepeated`, `SpecRowTruthful`,
`SpecNotSleptThrough`, `SpecAnnouncedInTime` follow, and `SpecNotRepeatedInIST`: where the
session is in IST nothing is misread, and only a failure or a kill repeats a cycle.

*Pipeline*, from `PipelineAssumption`: the first day is a session, periods are not empty. Every
promise of the metadata rests on one habit of the code: each walk goes from the oldest day, batch
or period on and ends where it fails. `NoHole` says it of the days, `Rebuilding` of the batches,
`RollingUp` and `Recorded` of the periods; `Control` says what a step in flight may rely on, and
`NotAhead` that nothing is dated after the last cycle. `FreshIsComplete` follows from `Complete`,
`Recorded` and the fact that two periods of one length are at least a length apart. An indicator
is never ahead of its workbook because no table has a row that its source does not have
(`Within`). `CleanCycleCatchesUp` is the end of a chain through the steps of one cycle:
`GoodAdjust`, `GoodRollup`, `GoodActivate`, `GoodRun` say what each has left, as long as nothing
failed, for the exchanges it is over with. `GoodActivate` is where new prices of every exchange
are needed: only then is each indicator due. `SpecStoresDays` maps each step to one of `DayStore`
for each exchange: it leaves the store alone (`Kept`), begins a walk (`Begun`) or deals with the
first day left (`Dealt`). The walk of BSE begins only after that of NSE, by the freshness read
before both; that nothing was stored for it in between is `FreshToWalk`. Results: `SpecTypeOK`,
`SpecFreshIsComplete`, `SpecIndicatorNotAhead`, `SpecOpenFailureIsDue`,
`SpecCleanCycleCatchesUp`, `SpecStoresDays`.

*DailyDownload*, from `DailyDownloadAssumption`. The cursor of the walk is the maximum of the
metadata, so `HolesExplained` must survive the moment a later day is stored: `NoHole` says it for
every stored day, `Passed` for the days a walk under way has behind it, and `ToStore` that a day
about to be inserted has no rows yet (the INSERT has no ON CONFLICT). `FilesCut` and `RowsCut`
follow a truncated file from the disk into the table. That a set of days has a greatest member,
and the current day is the least, is proved from the well-foundedness of the subset ordering.
`SpecStoresDays`, that each step is one of `DayStore` or a stutter, rests on the same invariant:
a day has rows exactly if its metadata say so (`HeldIs`), and the days a walk leaves out are the
gaps between its days, since it reaches to the last session (`GapsOfWalk`). Results: `SpecTypeOK`,
`SpecRowsMatchMetadata`, `SpecHolesExplained`, `SpecShortOnlyIfInterrupted`, `SpecStoresDays`.

*CorporateActions*, from `CorporateActionsAssumption`. `Windows` relates the start of each window
to the last price and the end of the previous window; `Transaction` says what the open
transaction may differ in from the tables; `Stored` is `NoHoleInWindows` in the middle of a
cycle, up to a bound that moves with the steps; `Recorded` is `RecordIsTruthful` while an answer
is on its way into the tables. With them `CanonicalFollowsRaw` and `SuccessIsStored` are
inductive. Results: `Typed`, `CanonicalCorrect`, `SuccessCorrect`, `WindowsCorrect`,
`RecordCorrect`.

*PriceSeries*, from `PriceSeriesAssumption`: finitely many ISINs, lengths and windows at least 1.
What is behind a walk is final: a security is in a batch still to come or has the rows it would
have been given in one piece (`Rebuilding`, with `WholeBatches`: no security is cut in two), a
week before the current one is the week of the whole series and chained to the last one traded
before it (`RollingUp`), and a day before the current chunk has the average over the whole series
(`Averaging`). The rest are lemmas about the operators:

- *lineage*: the walk of ten hops is unrolled hop by hop, since induction over a recursive
  function cannot be instantiated. A walk that comes to the end of a chain stays there
  (`WalkEnds`), so rows added to the lineage move an ISIN away from a security only if one of
  them begins at that security (`SecurityStays`); hence a current security has rows of its own
  days only (`OwnDays`), whatever lineage an earlier rebuild went by;
- *batches*: the sequence made of a set has every member, and the quotient of its position by the
  batch size puts each into exactly one batch (`ChunksIs`);
- *averages*: the last `n` of a set are the last `n` of any end of it that has them
  (`LastOfEnd`), and there are fewer than `n` only of a set of fewer than `n` (`FewerLast`). With
  them a chunk and the rows read back before it give each of its days the window it has in the
  whole series (`SameWindow`);
- *RSI*: a row holds as many changes as its stretch has rows, because each has another day
  (`AsManyChanges`).

Results: `SpecTypeOK`, `SpecUnbrokenSeries`, `SpecWeeksChained`, `SpecWalkSinceGap`,
`SpecAverageOfLastRows`. The proof of `SpecWalkSinceGap` needs neither a finished rebuild nor a
current identity, so the property no longer asks for them.

*Enrichment*, from `BatchAssumption`: at least one worker (the code has four; with none nothing
would be counted). An ISIN is in the queue, or with one worker (`Alone`), or done with; `Queued`
says that nothing has been written for one in the queue, `Stations` what a worker may rely on
where it stands, `SidesOwed` and `ShareOwed` that a side not counted, or a sector not shared, is
still to come as long as no worker has died. Results: `SpecTypeOK`, `SpecAllSidesCounted`,
`SpecOfficialSectorShared`, and the action property `SpecRowNeverWorse`.

*MarketBriefInbox*, from `InboxAssumption`. `Clock` is what keeps a half-written file out: a file
being written is as new as now, a pass began earlier, and a file must be older than the pass.
`Picking`, `Moving` and `Unmoved` follow the files of a group from the decision to their folder;
`NoneOlder` says that as long as nothing has failed the inbox has no `.json` file older than the
row of its date, but for those about to be moved. Results: `SpecTypeOK`, `SpecProcessedIsSaved`,
`SpecOnlyFinishedFiles`, and the action property `SpecNewestWins`.

*Only model-checked*: liveness, that is `CycleCompletes`, `UploadEnriched`, `LastDayArrives`,
`ServedDayArrives`, `BatchEnds` and `JsonSettled`. The prover does neither fairness nor ENABLED.
Every safety invariant and action property of the passing runs is proved.

## 6. What the code does that its comments deny

Each is a violation run with a finding in `PROJECT.json`:

1. *Mutual exclusion* (`maintenance_overlap`). Each process reads the other's flag long before it
   raises its own. Both may work at once; users stay locked out, which is what is proved.
2. *Enrichment done* (`enrichment_done`). Workers that cannot connect end without counting; with
   nothing counted as failed the batch is a SUCCESS and the cursor moves.
3. *Rollup retry* (`pipeline_rollup`). STEP 5 and 6 record that they are current through the
   latest day even when STEP 4 failed before them; the next cycle repeats STEP 4 alone.
4. *Gaps* (`price_series_gap`). A chunk of the RSI walk begins with the first row after the gap,
   whose gain is taken against the close before the gap.

Met while modelling and kept as hazards, or as exceptions that a property names, without a run of
their own:

- a scheduler killed in mid-cycle and restarted before its lock is six hours old never heals its
  flag, and its own flag refuses its logins (`CycleCompletes` excepts it);
- one brief the database refuses blocks all later dates on every poll (`JsonSettled` is checked
  without such a brief);
- a file the parser refuses stays on the disk and ends the walk of STEP 2 on every cycle
  (`Blocked`), and a part of a file left by a kill is stored as a whole
  (`ShortOnlyIfInterrupted` excepts it);
- the holidays are fetched once per process, so that a corrected calendar is not seen;
- an answer of "not found" is final as soon as a later day is stored, unless the freshness of a
  later cycle cannot be read: the walk then starts from the first day again and may store the day
  after all, under adjusted series whose metadata are already past it. The next STEP 4 repairs
  that; until then the metadata promise too much. The proof of `FreshIsComplete` found this (two
  failures in two cycles), and the property excepts such days (`missed`);
- a kill between save and move can let an older brief replace a newer one;
- a BSE side may be counted as enriched and as failed when sharing fails;
- a completion saved between 16:00 and 21:30 IST, which a database session in UTC gives back as a
  time between the windows, is no completion to a restart: it repeats the cycle, although the
  comments derive the cycle from that time as equivalent to storing it
  (`bhavcopy_scheduler_main.py:314-318`, `core/stock_universe/persistence.py:648-651`). `NotRepeated` counts such start-ups (`misread`);
- the row announces a retry earlier than it comes, by the time the failed cycle took, although
  `bhavcopy_scheduler_main.py:373-374` calls it the exact time of the next wake-up: the clock is
  read before the cycle and the sleep begins after it. Near the close the retry may not fall
  "within this same cycle's window" (line 1219) either. `AnnouncedInTime` says what is kept: the
  announcement is never later than a retry from now;
- a week without rows of an exchange ends its rollup walk there on every run; the daily indicators
  of an exchange that catches up later on the same date are not due; an action confirmed by one
  exchange's gap rescales only that exchange.

## 7. What is not modelled

- `--once`, and a second instance of a process: nothing in the code detects one, and it would
  clear the first one's flag.
- The application beyond its filter and uploads; files a browser writes under a partial suffix,
  which the pass does not see.
- A database session in a zone east of IST or more than 7 hours west of it. A lag up to the time
  between the windows can only lose a completion; beyond it, one could be read as another cycle's.
- HTTP clients, session handling, environment checks and logging: only their outcomes, success,
  no data or failure, reach the state.
- The fields of a row and the three file formats; filters on eligible series and liquidity; open,
  high, low and volume; decimal arithmetic and rounding. `PriceSeries` says which values are
  combined, not what they come to.
- The id maps of the taxonomy and the inserts of new names: each is a single statement with ON
  CONFLICT, and no modelled decision depends on an id.
- The run audit table of STEP 2, which nothing reads; the JSON downloaders of corporate actions
  and `core/rsi/rsi_incremental.py`, which the cycle does not call.
- The border of two years in the calendar: days are those of one year.
- Offline loaders, manual scripts and repair scripts.

## 8. The plan

Done: the row, the loop, the pipeline and three of its steps in detail, the batch, the inbox, two
abstract specifications, and the proofs of all their safety properties and refinements.

1. Abstract specifications of two other components: one table of briefs, in which a date has the
   newest file that was finished, for `MarketBriefInbox`; one computation over the whole history
   for the rebuilds of `PriceSeries`.
2. The insert path of the taxonomy maps under two threads; a second scheduler beside the first.
