------------------------- MODULE SchedulerCycleProofs -------------------------
(***************************************************************************)
(* Proofs about SchedulerCycle for every length of the day, every window   *)
(* and every retry interval that satisfy WindowAssumption.                 *)
(***************************************************************************)
EXTENDS SchedulerCycle, TLAPS

USE DEF vars, clockVars, rowVars, Goes, NoCycle, Never, Days, Cycles

-----------------------------------------------------------------------------
(* Types.  The clock and the row are typed apart from the counters.         *)

LEMMA TimeTypes ==
  ASSUME TypeOK, NEW k \in -DayLength .. DayLength
  PROVE  FromNow(k) \in Times
<1> USE WindowAssumption DEF TypeOK, FromNow, Shifted, Times
<1>1. CASE tod + k >= DayLength
  <2>1. day + 1 \in 0 .. MaxDay + 1 /\ tod + k - DayLength \in 0 .. DayLength - 1
        BY <1>1
  <2> QED
      BY <1>1, <2>1
<1>2. CASE tod + k < 0
  <2>1. day - 1 \in 0 .. MaxDay + 1 /\ tod + k + DayLength \in 0 .. DayLength - 1
        BY <1>2
  <2>2. ~(tod + k >= DayLength)
        BY <1>2
  <2> QED
      BY <1>2, <2>1, <2>2
<1>3. CASE ~(tod + k >= DayLength) /\ ~(tod + k < 0)
  <2>1. day \in 0 .. MaxDay + 1 /\ tod + k \in 0 .. DayLength - 1
        BY <1>3
  <2> QED
      BY <1>3, <2>1
<1> QED
    BY <1>1, <1>2, <1>3

LEMMA UntilType ==
  ASSUME TypeOK
  PROVE  UntilNextOpen \in 1 .. DayLength
  BY WindowAssumption DEF TypeOK, UntilNextOpen

LEMMA CycleType ==
  ASSUME NEW d \in Days, NEW t \in 0 .. DayLength - 1
  PROVE  CycleIdFor(d, t) \in Cycles \cup {NoCycle}
  BY WindowAssumption DEF CycleIdFor

(* The cycle read off the session's clock is the one on the process's, or  *)
(* none: the lag is no longer than the time between the windows.  Only a   *)
(* completion that came late, between them, may gain a cycle, the one that *)
(* was over.                                                               *)
LEMMA LaggedCycle ==
  ASSUME NEW d \in Days, NEW t \in 0 .. DayLength - 1,
         NEW u, u = Shifted(d, t, -SessionLag)
  PROVE  \/ CycleIdFor(u[1], u[2]) \in {CycleIdFor(d, t), NoCycle}
         \/ CycleIdFor(d, t) = NoCycle /\ CycleIdFor(u[1], u[2]) = d - 1
<1>1. CASE t - SessionLag < 0
  <2>1. u[1] = d - 1 /\ u[2] = t - SessionLag + DayLength
        BY <1>1, WindowAssumption DEF Shifted
  <2>2. u[2] >= Close /\ (u[2] < Open \/ t < Open)
        BY <1>1, <2>1, WindowAssumption
  <2> QED
      BY <1>1, <2>1, <2>2, WindowAssumption DEF CycleIdFor
<1>2. CASE ~(t - SessionLag < 0)
  <2>1. u[1] = d /\ u[2] = t - SessionLag
        BY <1>2, WindowAssumption DEF Shifted
  <2> QED
      BY <1>2, <2>1, WindowAssumption DEF CycleIdFor
<1> QED
    BY <1>1, <1>2

LEMMA RecordedType ==
  ASSUME TypeOK
  PROVE  /\ RecordedCycle \in Cycles \cup {NoCycle}
         /\ completed_at # Never =>
              completed_at[1] \in Days /\ completed_at[2] \in 0 .. DayLength - 1
<1>1. CASE completed_at = Never
      BY <1>1 DEF RecordedCycle
<1>2. CASE completed_at # Never
  <2>1. completed_at[1] \in Days /\ completed_at[2] \in 0 .. DayLength - 1
        BY <1>2 DEF TypeOK
  <2> QED
      BY <1>2, <2>1, CycleType DEF RecordedCycle
<1> QED
    BY <1>1, <1>2

(* What is remembered is what is recorded, or nothing, or the cycle that   *)
(* was just over; nothing in place of a cycle is a misreading.             *)
LEMMA RememberedIs ==
  ASSUME TypeOK
  PROVE  /\ \/ RememberedCycle \in {RecordedCycle, NoCycle}
            \/ RecordedCycle = NoCycle /\ RememberedCycle = completed_at[1] - 1
         /\ RecordedCycle # NoCycle /\ ~Misread => RememberedCycle = RecordedCycle
<1>1. CASE completed_at = Never
      BY <1>1 DEF RecordedCycle, RememberedCycle
<1>2. CASE completed_at # Never
  <2>1. completed_at[1] \in Days /\ completed_at[2] \in 0 .. DayLength - 1
        BY <1>2, RecordedType
  <2> DEFINE d == completed_at[1]
             t == completed_at[2]
             u == SessionTime
  <2>2. u = Shifted(d, t, -SessionLag)
        BY DEF SessionTime
  <2>3. /\ RecordedCycle = CycleIdFor(d, t)
        /\ RememberedCycle = CycleIdFor(u[1], u[2])
        /\ Misread <=> CycleIdFor(d, t) # NoCycle /\ CycleIdFor(u[1], u[2]) = NoCycle
        BY <1>2 DEF RecordedCycle, RememberedCycle, Misread
  <2> HIDE DEF d, t, u
  <2>4. \/ CycleIdFor(u[1], u[2]) \in {CycleIdFor(d, t), NoCycle}
        \/ CycleIdFor(d, t) = NoCycle /\ CycleIdFor(u[1], u[2]) = d - 1
        BY <2>1, <2>2, LaggedCycle DEF d, t
  <2> QED
      BY <2>3, <2>4 DEF d
<1> QED
    BY <1>1, <1>2

LEMMA RememberedType ==
  ASSUME TypeOK
  PROVE  RememberedCycle \in Cycles \cup {NoCycle}
<1>1. RememberedCycle \in {RecordedCycle, NoCycle} =>
        RememberedCycle \in Cycles \cup {NoCycle}
      BY RecordedType
<1>2. CASE completed_at # Never /\ RememberedCycle = completed_at[1] - 1
  <2>1. completed_at[1] - 1 \in 0 .. MaxDay
        BY <1>2, RecordedType, WindowAssumption
  <2> QED
      BY <1>2, <2>1
<1>3. CASE completed_at = Never
      BY <1>3 DEF RememberedCycle
<1> QED
    BY <1>1, <1>2, <1>3, RememberedIs

(* Where the session's clock is that of the process nothing is misread.    *)
LEMMA NoLag ==
  ASSUME TypeOK, SessionLag = 0
  PROVE  ~Misread
<1>1. CASE completed_at = Never
      BY <1>1 DEF Misread
<1>2. CASE completed_at # Never
  <2> DEFINE d == completed_at[1]
             t == completed_at[2]
  <2>1. d \in Days /\ t \in 0 .. DayLength - 1
        BY <1>2, RecordedType
  <2> HIDE DEF d, t
  <2>2. Shifted(d, t, -SessionLag) = <<d, t>>
        BY <2>1, WindowAssumption DEF Shifted
  <2>3. SessionTime[1] = d /\ SessionTime[2] = t
        BY <2>2 DEF SessionTime, d, t
  <2> QED
      BY <2>3 DEF Misread, d, t
<1> QED
    BY <1>1, <1>2

LEMMA TypeStep ==
  ASSUME LoopInv, Next
  PROVE  TypeOK'
<1> USE WindowAssumption DEF LoopInv, TypeOK
<1>1. CASE Start
      BY <1>1 DEF Start
<1>2. CASE Load
      BY <1>2, RememberedType DEF Load, Forget, Misreads
<1>3. CASE LoopIdle
  <2>1. Announce(UntilNextOpen) => next_run_at' \in Times
        BY TimeTypes, UntilType DEF Announce
  <2> QED
      BY <1>3, <2>1, UntilType DEF LoopIdle, SleepFor
<1>4. CASE LoopRuns
      BY <1>4, CycleType DEF LoopRuns
<1>5. CASE RunFails
  <2>1. RetryInterval - elapsed \in -DayLength .. DayLength
        OBVIOUS
  <2>2. next_run_at' \in Times
        BY <1>5, <2>1, TimeTypes DEF RunFails, Announce
  <2> QED
      BY <1>5, <2>2 DEF RunFails
<1>6. CASE RunCompletes
  <2>1. completions[cycle_id] + 1 \in 0 .. 2 * MaxForgotten + 1
        BY <1>6 DEF RunCompletes, Remembered, Lost
  <2> QED
      BY <1>6, <2>1 DEF RunCompletes
<1>7. CASE Save
  <2>1. next_run_at' \in Times
        BY <1>7, TimeTypes, UntilType DEF Save, SleepFor, Announce
  <2>2. completed_at' \in {Never} \cup Days \X (0 .. DayLength - 1)
        BY <1>7 DEF Save
  <2> QED
      BY <1>7, <2>1, <2>2, UntilType DEF Save, SleepFor, Forget
<1>8. CASE Wake
      BY <1>8 DEF Wake
<1>9. CASE Killed
      BY <1>9 DEF Killed, Forget
<1>10. CASE TimePasses
  <2>1. day' \in Days /\ tod' \in 0 .. DayLength - 1
        BY <1>10 DEF TimePasses, Tick
  <2>2. elapsed' \in 0 .. MaxRunTime /\ sleep_left' \in 0 .. DayLength
        BY <1>10 DEF TimePasses
  <2> QED
      BY <1>10, <2>1, <2>2 DEF TimePasses
<1> QED
    BY <1>1, <1>2, <1>3, <1>4, <1>5, <1>6, <1>7, <1>8, <1>9, <1>10 DEF Next

-----------------------------------------------------------------------------
(* The row.                                                                *)

(* A step that leaves the column alone leaves the remembered cycle alone. *)
LEMMA RowKept ==
  ASSUME UNCHANGED completed_at
  PROVE  RememberedCycle' = RememberedCycle /\ RecordedCycle' = RecordedCycle
  BY DEF RememberedCycle, RecordedCycle, SessionTime, Shifted, CycleIdFor

LEMMA RowWritten ==
  ASSUME TypeOK, completed_at' = <<day, tod>>
  PROVE  /\ RecordedCycle' = CurrentCycle
         /\ \/ RememberedCycle' \in {CurrentCycle, NoCycle}
            \/ CurrentCycle = NoCycle /\ RememberedCycle' = day - 1
<1>1. day \in Days /\ tod \in 0 .. DayLength - 1 /\ <<day, tod>> # Never
      BY DEF TypeOK
<1>2. RecordedCycle' = CurrentCycle
      BY <1>1 DEF RecordedCycle, CycleIdFor, CurrentCycle
<1>3. PICK u : u = Shifted(day, tod, -SessionLag)
      OBVIOUS
<1>4. RememberedCycle' = CycleIdFor(u[1], u[2])
      BY <1>1, <1>3 DEF RememberedCycle, SessionTime, Shifted, CycleIdFor
<1>5. \/ CycleIdFor(u[1], u[2]) \in {CurrentCycle, NoCycle}
      \/ CurrentCycle = NoCycle /\ CycleIdFor(u[1], u[2]) = day - 1
      BY <1>1, <1>3, LaggedCycle DEF CurrentCycle
<1> QED
    BY <1>2, <1>4, <1>5

(* The clock only moves on, and the current cycle lies between the first   *)
(* one that may still run and the last one that has opened.                *)
LEMMA ClockKept ==
  ASSUME UNCHANGED clockVars
  PROVE  /\ CurrentCycle' = CurrentCycle
         /\ Earliest' = Earliest
         /\ Latest' = Latest
         /\ UntilNextOpen' = UntilNextOpen
  BY DEF CurrentCycle, CycleIdFor, Earliest, Latest, UntilNextOpen

LEMMA ClockRange ==
  ASSUME TypeOK
  PROVE  /\ Earliest \in Int /\ Latest \in Int
         /\ CurrentCycle # NoCycle =>
              CurrentCycle = Earliest /\ CurrentCycle = Latest
         /\ CurrentCycle = NoCycle =>
              Latest = day - 1 /\ Earliest = day /\ Close <= tod /\ tod < Open
  BY WindowAssumption
  DEF TypeOK, Earliest, Latest, CurrentCycle, CycleIdFor

LEMMA ClockTicks ==
  ASSUME TypeOK, Tick
  PROVE  /\ Earliest <= Earliest' /\ Latest <= Latest'
  BY WindowAssumption DEF TypeOK, Tick, Earliest, Latest

-----------------------------------------------------------------------------
(* The parts of the invariant.                                             *)

LEMMA RunInWindowStep ==
  ASSUME LoopInv, Next
  PROVE  RunInWindow'
<1> USE DEF LoopInv, RunInWindow
<1>1. CASE UNCHANGED clockVars
      BY <1>1, ClockKept
      DEF Next, Start, Load, LoopIdle, LoopRuns, RunFails, RunCompletes,
          Save, Wake, Killed, TimePasses, CurrentCycle, Tick, TypeOK
<1>2. CASE TimePasses
      BY <1>2, WindowAssumption
      DEF TimePasses, Tick, CurrentCycle, CycleIdFor, TypeOK
<1> QED
    BY <1>1, <1>2
    DEF Next, Start, Load, LoopIdle, LoopRuns, RunFails, RunCompletes, Save,
        Wake, Killed

LEMMA MemoryStep ==
  ASSUME LoopInv, Next
  PROVE  MemoryTruthful'
<1> USE DEF LoopInv, TypeOK, MemoryTruthful
<1>1. CASE Load
      BY <1>1, RememberedType, ClockKept DEF Load, RowTruthful
<1>2. CASE RunCompletes
  <2>1. cycle_id <= Latest
        BY <1>2, WindowAssumption
        DEF RunCompletes, RunInWindow, CurrentCycle, CycleIdFor, Latest
  <2> QED
      BY <1>2, <2>1, ClockKept DEF RunCompletes
<1>3. CASE TimePasses
  <2>1. Latest <= Latest' /\ Latest \in Int /\ Latest' \in Int
        BY <1>3, ClockTicks, WindowAssumption DEF TimePasses, Latest, Tick
  <2> QED
      BY <1>3, <2>1 DEF TimePasses
<1>4. CASE Killed
      BY <1>4, ClockKept DEF Killed
<1>5. CASE Start \/ LoopIdle \/ LoopRuns \/ RunFails \/ Save \/ Wake
      BY <1>5, ClockKept
      DEF Start, LoopIdle, LoopRuns, RunFails, Save, Wake
<1> QED
    BY <1>1, <1>2, <1>3, <1>4, <1>5 DEF Next

LEMMA RowTruthfulStep ==
  ASSUME LoopInv, Next
  PROVE  RowTruthful'
<1> USE DEF LoopInv, TypeOK, RowTruthful
<1>1. CASE UNCHANGED <<completed_at, completions>>
      BY <1>1, RowKept
<1>2. CASE RunCompletes
  <2>1. RememberedCycle # NoCycle => completions'[RememberedCycle] > 0
        BY <1>2, RememberedType DEF RunCompletes
  <2> QED
      BY <1>2, <2>1, RowKept DEF RunCompletes
<1>3. CASE Save /\ completed_at' = <<day, tod>>
  <2>1. completions[cycle_id] > 0
        BY <1>3 DEF Save, MemoryTruthful
  <2>2. \/ CurrentCycle = cycle_id
        \/ CurrentCycle = NoCycle /\ cycle_id = day - 1
        BY <1>3, WindowAssumption
        DEF Save, RunInWindow, CurrentCycle, CycleIdFor
  <2>3. CurrentCycle # NoCycle \/ RememberedCycle' \in {NoCycle, day - 1}
        BY <1>3, RowWritten
  <2>4. RememberedCycle' \in {cycle_id, NoCycle}
        BY <1>3, <2>2, <2>3, RowWritten
  <2> QED
      BY <1>3, <2>1, <2>4 DEF Save
<1> QED
    BY <1>1, <1>2, <1>3
    DEF Next, Start, Load, LoopIdle, LoopRuns, RunFails, Save, Wake, Killed,
        TimePasses

(* Every long sleep ends when the next window opens, and none begins in    *)
(* the window of a cycle that has not completed.                           *)
LEMMA SleepStep ==
  ASSUME LoopInv, Next
  PROVE  SleepsToNextOpen'
<1> USE DEF LoopInv, TypeOK, SleepsToNextOpen
<1>1. CASE LoopIdle
      BY <1>1, ClockKept DEF LoopIdle, SleepFor, MemoryTruthful, CurrentCycle
<1>2. CASE RunFails
      BY <1>2, WindowAssumption DEF RunFails
<1>3. CASE Save
  <2>1. CurrentCycle \in {cycle_id, NoCycle}
        BY <1>3, WindowAssumption
        DEF Save, RunInWindow, CurrentCycle, CycleIdFor
  <2> QED
      BY <1>3, <2>1, ClockKept DEF Save, SleepFor, MemoryTruthful
<1>4. CASE TimePasses /\ pc = "sleep"
  <2>1. CASE sleep_left <= RetryInterval
        BY <1>4, <2>1, WindowAssumption DEF TimePasses
  <2>2. CASE sleep_left = UntilNextOpen /\ tod = Open - 1
        BY <1>4, <2>2, WindowAssumption DEF TimePasses, UntilNextOpen
  <2>3. CASE /\ sleep_left = UntilNextOpen /\ tod # Open - 1
             /\ CurrentCycle # NoCycle => completions[CurrentCycle] > 0
    <3>1. sleep_left' = UntilNextOpen'
      <4>1. sleep_left' = sleep_left - 1
            BY <1>4 DEF TimePasses
      <4>2. CASE tod < DayLength - 1
        <5>1. tod' = tod + 1
              BY <1>4, <4>2, WindowAssumption DEF TimePasses, Tick
        <5> QED
            BY <2>3, <4>1, <4>2, <5>1, WindowAssumption DEF UntilNextOpen
      <4>3. CASE tod = DayLength - 1
        <5>1. tod' = 0
              BY <1>4, <4>3, WindowAssumption DEF TimePasses, Tick
        <5> QED
            BY <2>3, <4>1, <4>3, <5>1, WindowAssumption DEF UntilNextOpen
      <4> QED
          BY <4>2, <4>3, WindowAssumption
    <3>2. CurrentCycle' \in {CurrentCycle, NoCycle}
          BY <1>4, <2>3, WindowAssumption
          DEF TimePasses, Tick, CurrentCycle, CycleIdFor
    <3> QED
        BY <1>4, <2>3, <3>1, <3>2 DEF TimePasses
  <2> QED
      BY <1>4, <2>1, <2>2, <2>3
<1> QED
    BY <1>1, <1>2, <1>3, <1>4
    DEF Next, Start, Load, LoopRuns, RunCompletes, Wake, Killed, TimePasses

(* The announced times, as they stand to the clock. *)
LEMMA NextOpenAt ==
  ASSUME NEW d \in Days, NEW t \in 0 .. DayLength - 1, NEW k,
         k = IF t < Open THEN Open - t ELSE Open + DayLength - t
  PROVE  Shifted(d, t, k) = IF t < Open THEN <<d, Open>> ELSE <<d + 1, Open>>
<1>1. CASE t < Open
  <2>1. k = Open - t /\ t + k = Open
        BY <1>1, WindowAssumption
  <2> QED
      BY <1>1, <2>1, WindowAssumption DEF Shifted
<1>2. CASE ~(t < Open)
  <2>1. k = Open + DayLength - t /\ t + k = Open + DayLength
        BY <1>2, WindowAssumption
  <2>2. t + k >= DayLength /\ t + k - DayLength = Open
        BY <2>1, WindowAssumption
  <2> QED
      BY <1>2, <2>2 DEF Shifted
<1> QED
    BY <1>1, <1>2

LEMMA RetryAt ==
  ASSUME NEW d \in Days, NEW t \in 0 .. DayLength - 1
  PROVE  Shifted(d, t, RetryInterval) =
           IF t + RetryInterval >= DayLength
           THEN <<d + 1, t + RetryInterval - DayLength>>
           ELSE <<d, t + RetryInterval>>
  BY WindowAssumption DEF Shifted

LEMMA NextOpenIs ==
  ASSUME TypeOK
  PROVE  FromNow(UntilNextOpen) =
           IF tod < Open THEN <<day, Open>> ELSE <<day + 1, Open>>
  BY NextOpenAt DEF TypeOK, FromNow, UntilNextOpen

LEMMA RetryIs ==
  ASSUME TypeOK
  PROVE  FromNow(RetryInterval) =
           IF tod + RetryInterval >= DayLength
           THEN <<day + 1, tod + RetryInterval - DayLength>>
           ELSE <<day, tod + RetryInterval>>
  BY RetryAt DEF TypeOK, FromNow

LEMMA AnnouncedNext ==
  ASSUME TypeOK'
  PROVE  /\ FromNow(UntilNextOpen)' =
              IF tod' < Open THEN <<day', Open>> ELSE <<day' + 1, Open>>
         /\ FromNow(RetryInterval)' =
              IF tod' + RetryInterval >= DayLength
              THEN <<day' + 1, tod' + RetryInterval - DayLength>>
              ELSE <<day', tod' + RetryInterval>>
<1>1. day' \in Days /\ tod' \in 0 .. DayLength - 1
      BY DEF TypeOK
<1>2. FromNow(UntilNextOpen)' = Shifted(day', tod', UntilNextOpen')
      BY DEF FromNow, Shifted
<1>3. FromNow(RetryInterval)' = Shifted(day', tod', RetryInterval)
      BY DEF FromNow, Shifted
<1>4. UntilNextOpen' = IF tod' < Open THEN Open - tod' ELSE Open + DayLength - tod'
      BY DEF UntilNextOpen
<1> QED
    BY <1>1, <1>2, <1>3, <1>4, NextOpenAt, RetryAt

(* A time that is no later than a retry is so one tick later, and the next *)
(* opening is when it has come.                                            *)
LEMMA LaterKept ==
  ASSUME TypeOK, TypeOK', Tick, NEW u \in Times, ~Later(u, FromNow(RetryInterval))
  PROVE  ~Later(u, FromNow(RetryInterval)')
<1> DEFINE v == FromNow(RetryInterval)
           w == FromNow(RetryInterval)'
<1>1. u[1] \in Int /\ u[2] \in Int
      BY WindowAssumption DEF Times
<1>2. day \in Int /\ tod \in 0 .. DayLength - 1
      BY DEF TypeOK
<1>v. /\ v[1] = IF tod + RetryInterval >= DayLength THEN day + 1 ELSE day
      /\ v[2] = IF tod + RetryInterval >= DayLength
                THEN tod + RetryInterval - DayLength ELSE tod + RetryInterval
      BY RetryIs
<1>w. /\ w[1] = IF tod' + RetryInterval >= DayLength THEN day' + 1 ELSE day'
      /\ w[2] = IF tod' + RetryInterval >= DayLength
                THEN tod' + RetryInterval - DayLength ELSE tod' + RetryInterval
      BY AnnouncedNext
<1> HIDE DEF v, w
<1>3. /\ v[1] \in Int /\ v[2] \in Int /\ w[1] \in Int /\ w[2] \in Int
      /\ v[1] < w[1] \/ (v[1] = w[1] /\ v[2] <= w[2])
  <2>1. CASE tod < DayLength - 1
    <3>1. tod' = tod + 1 /\ day' = day
          BY <2>1, <1>2, WindowAssumption DEF Tick
    <3> QED
        BY <3>1, <1>2, <1>v, <1>w, WindowAssumption
  <2>2. CASE tod = DayLength - 1
    <3>1. tod' = 0 /\ day' = day + 1
          BY <2>2, <1>2, WindowAssumption DEF Tick
    <3> QED
        BY <2>2, <3>1, <1>2, <1>v, <1>w, WindowAssumption
  <2> QED
      BY <2>1, <2>2 DEF Tick
<1>4. ~Later(u, v)
      BY DEF v
<1>5. ~Later(u, w)
      BY <1>1, <1>3, <1>4 DEF Later
<1> QED
    BY <1>5 DEF w

LEMMA OpenComes ==
  ASSUME TypeOK, TypeOK', Tick
  PROVE  \/ FromNow(UntilNextOpen)' = FromNow(UntilNextOpen) /\ tod' # Open
         \/ ~Later(FromNow(UntilNextOpen), FromNow(RetryInterval)')
<1>0. day \in Int /\ tod \in 0 .. DayLength - 1
      BY DEF TypeOK
<1>1. CASE tod = Open - 1
  <2>1. day' = day /\ tod' = Open
        BY <1>0, <1>1, WindowAssumption DEF Tick
  <2>2. FromNow(UntilNextOpen) = <<day, Open>>
        BY <1>1, NextOpenIs, WindowAssumption
  <2>3. \/ FromNow(RetryInterval)' = <<day + 1, Open + RetryInterval - DayLength>>
        \/ FromNow(RetryInterval)' = <<day, Open + RetryInterval>>
        BY <2>1, AnnouncedNext
  <2>4. ~Later(<<day, Open>>, <<day + 1, Open + RetryInterval - DayLength>>)
        BY <1>0 DEF Later
  <2>5. ~Later(<<day, Open>>, <<day, Open + RetryInterval>>)
        BY <1>0, WindowAssumption DEF Later
  <2> QED
      BY <2>2, <2>3, <2>4, <2>5
<1>2. CASE tod # Open - 1 /\ tod < DayLength - 1
  <2>1. day' = day /\ tod' = tod + 1
        BY <1>0, <1>2, WindowAssumption DEF Tick
  <2>2. tod' # Open /\ (tod' < Open <=> tod < Open)
        BY <1>0, <1>2, <2>1, WindowAssumption
  <2> QED
      BY <2>1, <2>2, NextOpenIs, AnnouncedNext
<1>3. CASE tod = DayLength - 1
  <2>1. day' = day + 1 /\ tod' = 0
        BY <1>0, <1>3, WindowAssumption DEF Tick
  <2>2. tod' # Open /\ tod' < Open /\ ~(tod < Open)
        BY <1>3, <2>1, WindowAssumption
  <2> QED
      BY <2>1, <2>2, NextOpenIs, AnnouncedNext
<1> QED
    BY <1>1, <1>2, <1>3 DEF Tick

(* A retry is announced from a clock read earlier. *)
LEMMA RetryAnnounced ==
  ASSUME TypeOK
  PROVE  ~Later(FromNow(RetryInterval - elapsed), FromNow(RetryInterval))
<1> DEFINE k == RetryInterval - elapsed
           v == FromNow(k)
           w == FromNow(RetryInterval)
<1>0. /\ day \in Int /\ tod \in 0 .. DayLength - 1
      /\ k \in Int /\ k <= RetryInterval
      BY WindowAssumption DEF TypeOK
<1>1. /\ w[1] = IF tod + RetryInterval >= DayLength THEN day + 1 ELSE day
      /\ w[2] = IF tod + RetryInterval >= DayLength
                THEN tod + RetryInterval - DayLength ELSE tod + RetryInterval
      BY RetryIs
<1>2. v = IF tod + k >= DayLength THEN <<day + 1, tod + k - DayLength>>
          ELSE IF tod + k < 0 THEN <<day - 1, tod + k + DayLength>>
          ELSE <<day, tod + k>>
      BY DEF FromNow, Shifted
<1> HIDE DEF k, v, w
<1>3. CASE tod + k >= DayLength
  <2>1. v[1] = day + 1 /\ v[2] = tod + k - DayLength
        BY <1>2, <1>3
  <2>2. w[1] = day + 1 /\ w[2] = tod + RetryInterval - DayLength
        BY <1>0, <1>1, <1>3, WindowAssumption
  <2>3. ~Later(v, w)
        BY <1>0, <2>1, <2>2, WindowAssumption DEF Later
  <2> QED
      BY <2>3 DEF k, v, w
<1>4. CASE ~(tod + k >= DayLength) /\ tod + k < 0
  <2>1. v[1] = day - 1
        BY <1>2, <1>4
  <2>2. w[1] >= day /\ w[1] \in Int
        BY <1>0, <1>1
  <2>3. ~Later(v, w)
        BY <1>0, <2>1, <2>2 DEF Later
  <2> QED
      BY <2>3 DEF k, v, w
<1>5. CASE ~(tod + k >= DayLength) /\ ~(tod + k < 0)
  <2>1. v[1] = day /\ v[2] = tod + k
        BY <1>2, <1>5
  <2>2. w[1] = day + 1 \/ (w[1] = day /\ w[2] = tod + RetryInterval)
        BY <1>1
  <2>3. ~Later(v, w)
        BY <1>0, <2>1, <2>2, WindowAssumption DEF Later
  <2> QED
      BY <2>3 DEF k, v, w
<1> QED
    BY <1>3, <1>4, <1>5

LEMMA AnnounceStep ==
  ASSUME LoopInv, Next
  PROVE  AnnouncesNextOpen'
<1> USE DEF LoopInv, AnnouncesNextOpen
<1>k. ASSUME UNCHANGED clockVars
      PROVE  /\ FromNow(UntilNextOpen)' = FromNow(UntilNextOpen)
             /\ FromNow(RetryInterval)' = FromNow(RetryInterval)
             /\ CurrentCycle' = CurrentCycle
      BY <1>k, ClockKept DEF FromNow, Shifted, UntilNextOpen
<1>c. CurrentCycle # NoCycle => CurrentCycle \in Cycles
      BY CycleType DEF CurrentCycle, TypeOK
<1>1. CASE UNCHANGED <<clockVars, next_run_at, completions>>
      BY <1>1, <1>k DEF Later
<1>2. CASE LoopIdle
  <2>1. CurrentCycle # NoCycle => completions[CurrentCycle] > 0
        BY <1>2 DEF LoopIdle, CurrentCycle, MemoryTruthful
  <2> QED
      BY <1>2, <1>k, <2>1 DEF LoopIdle, SleepFor, Announce, Later
<1>3. CASE RunFails
  <2>1. next_run_at' \in {FromNow(RetryInterval - elapsed), next_run_at}
        BY <1>3 DEF RunFails, Announce
  <2>2. UNCHANGED <<clockVars, completions>>
        BY <1>3 DEF RunFails
  <2> QED
      BY <1>k, <2>1, <2>2, RetryAnnounced DEF Later
<1>4. CASE RunCompletes
  <2>1. CurrentCycle # NoCycle /\ completions[CurrentCycle] > 0 =>
          completions'[CurrentCycle] > 0
        BY <1>4, <1>c DEF RunCompletes, TypeOK
  <2> QED
      BY <1>4, <1>k, <2>1 DEF RunCompletes, Later
<1>5. CASE Save
  <2>1. CurrentCycle \in {cycle_id, NoCycle} /\ completions[cycle_id] > 0
        BY <1>5, WindowAssumption
        DEF Save, RunInWindow, CurrentCycle, CycleIdFor, MemoryTruthful, TypeOK
  <2> QED
      BY <1>5, <1>k, <2>1 DEF Save, SleepFor, Announce, Later
<1>6. CASE TimePasses
  <2>1. /\ Tick /\ next_run_at' = next_run_at /\ completions' = completions
        /\ TypeOK' /\ next_run_at \in Times
        BY <1>6, TypeStep DEF TimePasses, TypeOK
  <2>2. CASE ~Later(next_run_at, FromNow(RetryInterval))
        BY <2>1, <2>2, LaterKept DEF Later
  <2>3. CASE /\ next_run_at = FromNow(UntilNextOpen)
             /\ CurrentCycle # NoCycle => completions[CurrentCycle] > 0
    <3>1. CASE FromNow(UntilNextOpen)' = FromNow(UntilNextOpen) /\ tod' # Open
      <4>1. day \in Int /\ tod \in Int
            BY DEF TypeOK
      <4>2. ASSUME tod < DayLength - 1 PROVE CurrentCycle' \in {CurrentCycle, NoCycle}
        <5>1. day' = day /\ tod' = tod + 1 /\ tod' # Open
              BY <2>1, <3>1, <4>1, <4>2 DEF Tick
        <5> QED
            BY <4>1, <5>1, WindowAssumption DEF CurrentCycle, CycleIdFor
      <4>3. ASSUME tod = DayLength - 1 PROVE CurrentCycle' \in {CurrentCycle, NoCycle}
        <5>1. day' = day + 1 /\ tod' = 0
              BY <2>1, <4>1, <4>3, WindowAssumption DEF Tick
        <5> QED
            BY <4>1, <4>3, <5>1, WindowAssumption DEF CurrentCycle, CycleIdFor
      <4>4. CurrentCycle' \in {CurrentCycle, NoCycle}
            BY <2>1, <4>2, <4>3 DEF Tick
      <4> QED
          BY <2>1, <2>3, <3>1, <4>4
    <3>2. CASE ~Later(FromNow(UntilNextOpen), FromNow(RetryInterval)')
          BY <2>1, <2>3, <3>2 DEF Later
    <3> QED
        BY <2>1, <3>1, <3>2, OpenComes
  <2> QED
      BY <2>2, <2>3
<1> QED
    BY <1>1, <1>2, <1>3, <1>4, <1>5, <1>6
    DEF Next, Start, Load, LoopRuns, Wake, Killed

(* Only a cycle that completed no more often than completions were         *)
(* forgotten is started, so that one more completion is within the bound.  *)
LEMMA RememberedStep ==
  ASSUME LoopInv, Next
  PROVE  Remembered'
<1> USE DEF LoopInv, TypeOK, Remembered, Lost
<1>1. CASE Start
      BY <1>1, RowKept, ClockKept DEF Start
<1>2. CASE Load
  <2>1. CASE last_completed' = RememberedCycle /\ UNCHANGED <<forgotten, misread>>
            /\ ~Misread
    <3>1. ASSUME NEW c \in Cycles, completions[c] > Lost, ~(c < Earliest)
          PROVE  RecordedCycle = c /\ RememberedCycle = c
      <4>1. RecordedCycle = c /\ c # NoCycle
            BY <1>2, <3>1, WindowAssumption DEF Load
      <4> QED
          BY <2>1, <4>1, RememberedIs
    <3> QED
        BY <1>2, <2>1, <3>1, RowKept, ClockKept DEF Load
  <2>2. CASE forgotten' + misread' = forgotten + misread + 1
    <3>1. \A c \in Cycles : ~(completions'[c] > forgotten' + misread')
          BY <1>2, <2>2, WindowAssumption DEF Load, NotRepeated
    <3> QED
        BY <1>2, <3>1 DEF Load
  <2>3. \/ last_completed' = RememberedCycle /\ UNCHANGED <<forgotten, misread>>
            /\ ~Misread
        \/ forgotten' + misread' = forgotten + misread + 1
        BY <1>2, WindowAssumption DEF Load, Forget, Misreads
  <2> QED
      BY <2>1, <2>2, <2>3
<1>3. CASE LoopIdle
      BY <1>3, RowKept, ClockKept DEF LoopIdle
<1>4. CASE LoopRuns
  <2>1. cycle_id' = Earliest /\ cycle_id' # last_completed
        BY <1>4, ClockRange DEF LoopRuns, CurrentCycle
  <2>2. cycle_id' \in Cycles
        BY <1>4, CycleType DEF LoopRuns
  <2>3. completions[cycle_id'] <= Lost
        BY <1>4, <2>1, <2>2, ClockRange DEF LoopRuns
  <2> QED
      BY <1>4, <2>3, RowKept, ClockKept DEF LoopRuns
<1>5. CASE RunFails
      BY <1>5, RowKept, ClockKept DEF RunFails
<1>6. CASE RunCompletes
  <2>1. ASSUME NEW c \in Cycles, completions'[c] > Lost', c # cycle_id
        PROVE  c < Earliest
    <3>1. c <= Latest /\ completions[c] > 0
          BY <1>6, <2>1 DEF RunCompletes, MemoryTruthful
    <3>2. CASE CurrentCycle = NoCycle
          BY <3>1, <3>2, ClockRange
    <3>3. CASE CurrentCycle # NoCycle
          BY <1>6, <2>1, <3>1, <3>3, ClockRange, WindowAssumption
          DEF RunCompletes, RunInWindow, CurrentCycle, CycleIdFor
    <3> QED
        BY <3>2, <3>3
  <2> QED
      BY <1>6, <2>1, ClockKept DEF RunCompletes
<1>7. CASE Save
  <2>1. CASE UNCHANGED completed_at /\ Forget
    <3>1. \A c \in Cycles : ~(completions[c] > Lost')
          BY <1>7, <2>1, WindowAssumption DEF Save, Forget, NotRepeated
    <3> QED
        BY <1>7, <3>1 DEF Save
  <2>2. CASE completed_at' = <<day, tod>>
    <3>1. \/ CurrentCycle = cycle_id
          \/ CurrentCycle = NoCycle /\ cycle_id < Earliest
          BY <1>7, WindowAssumption
          DEF Save, RunInWindow, CurrentCycle, CycleIdFor, Earliest
    <3>2. last_completed = cycle_id
          BY <1>7 DEF Save, MemoryTruthful
    <3>3. ASSUME NEW c \in Cycles, completions[c] > Lost
          PROVE  c < Earliest \/ c = cycle_id
          BY <1>7, <3>2, <3>3 DEF Save
    <3>4. Lost' >= Lost /\ Lost' \in Int /\ Lost \in Int
          BY <1>7, WindowAssumption DEF Save, Forget
    <3>5. ASSUME NEW c \in Cycles, completions[c] > Lost'
          PROVE  c < Earliest \/ (CurrentCycle = c /\ last_completed = c)
      <4>1. completions[c] > Lost
            BY <3>4, <3>5, WindowAssumption
      <4> QED
          BY <3>1, <3>2, <3>3, <4>1
    <3>6. RecordedCycle' = CurrentCycle
          BY <2>2, RowWritten
    <3> QED
        BY <1>7, <3>5, <3>6, ClockKept DEF Save
  <2> QED
      BY <1>7, <2>1, <2>2 DEF Save
<1>8. CASE Wake
      BY <1>8, RowKept, ClockKept DEF Wake
<1>9. CASE Killed
  <2>1. CASE pc = "save"
    <3>1. \A c \in Cycles : ~(completions[c] > Lost')
          BY <1>9, <2>1, WindowAssumption DEF Killed, Forget, NotRepeated
    <3> QED
        BY <1>9, <3>1 DEF Killed
  <2>2. CASE pc # "save"
        BY <1>9, <2>2, RowKept, ClockKept DEF Killed
  <2> QED
      BY <2>1, <2>2
<1>10. CASE TimePasses
  <2>1. Earliest <= Earliest' /\ Earliest \in Int /\ Earliest' \in Int
        BY <1>10, ClockTicks, WindowAssumption DEF TimePasses, Earliest, Tick
  <2>2. \A c \in Cycles : c < Earliest => c < Earliest'
        BY <2>1
  <2>3. RecordedCycle' = RecordedCycle
        BY <1>10, RowKept DEF TimePasses
  <2> QED
      BY <1>10, <2>2, <2>3 DEF TimePasses
<1> QED
    BY <1>1, <1>2, <1>3, <1>4, <1>5, <1>6, <1>7, <1>8, <1>9, <1>10 DEF Next

LEMMA NotRepeatedStep ==
  ASSUME LoopInv, Next
  PROVE  NotRepeated' /\ (SessionLag = 0 => misread' = 0)
<1> USE DEF LoopInv, TypeOK, NotRepeated
<1>m. SessionLag = 0 => misread' = 0
      BY NoLag
      DEF Next, Start, Load, LoopIdle, LoopRuns, RunFails, RunCompletes, Save,
          Wake, Killed, TimePasses
<1>1. CASE RunCompletes
      BY <1>1, <1>m DEF RunCompletes, Remembered, Lost
<1>2. CASE ~RunCompletes
  <2>1. completions' = completions /\ forgotten' >= forgotten /\ misread' >= misread
        BY <1>2
        DEF Next, Start, Load, LoopIdle, LoopRuns, RunFails, Save, Wake,
            Killed, TimePasses, Forget, Misreads
  <2>2. forgotten' \in Int /\ misread' \in Int
        BY TypeStep, WindowAssumption
  <2>3. ASSUME NEW c \in Cycles
        PROVE  completions'[c] <= 1 + forgotten' + misread'
    <3>1. completions[c] \in Int /\ completions[c] <= 1 + forgotten + misread
          BY WindowAssumption
    <3> QED
        BY <2>1, <2>2, <3>1
  <2> QED
      BY <1>m, <2>3
<1> QED
    BY <1>1, <1>2

-----------------------------------------------------------------------------
LEMMA InitLoopInv == Init => LoopInv
<1> SUFFICES ASSUME Init PROVE LoopInv
    OBVIOUS
<1>1. TypeOK
      BY WindowAssumption DEF Init, TypeOK, Times
<1>2. RememberedCycle = NoCycle
      BY DEF Init, RememberedCycle
<1>3. AnnouncesNextOpen
      BY <1>1, RetryIs, WindowAssumption DEF Init, AnnouncesNextOpen, Later
<1> QED
    BY <1>1, <1>2, <1>3
    DEF Init, LoopInv, NotRepeated, RowTruthful, RunInWindow,
        SleepsToNextOpen, MemoryTruthful, Remembered, Lost

LEMMA NextLoopInv == LoopInv /\ [Next]_vars => LoopInv'
<1>1. LoopInv /\ Next => LoopInv'
      BY TypeStep, NotRepeatedStep, RowTruthfulStep, RunInWindowStep,
         SleepStep, AnnounceStep, MemoryStep, RememberedStep
      DEF LoopInv
<1>2. LoopInv /\ UNCHANGED vars => LoopInv'
  <2> SUFFICES ASSUME LoopInv, UNCHANGED vars PROVE LoopInv'
      OBVIOUS
  <2> QED
      BY ClockKept, RowKept
      DEF LoopInv, TypeOK, NotRepeated, RowTruthful, RunInWindow,
          SleepsToNextOpen, AnnouncesNextOpen, FromNow, Shifted, Later,
          MemoryTruthful, Remembered, Lost
<1> QED
    BY <1>1, <1>2

(* What the loop keeps in memory and in the row agrees with what completed *)
(* and with the clock.                                                     *)
THEOREM SpecLoopInv == Spec => []LoopInv
  BY InitLoopInv, NextLoopInv, PTL DEF Spec

(* Every variable keeps its type. *)
THEOREM SpecTypeOK == Spec => []TypeOK
<1>1. LoopInv => TypeOK
      BY DEF LoopInv
<1> QED
    BY <1>1, SpecLoopInv, PTL

(* A cycle runs again only when its completion was not remembered, or was  *)
(* misread in the time zone of the session.                                *)
THEOREM SpecNotRepeated == Spec => []NotRepeated
<1>1. LoopInv => NotRepeated
      BY DEF LoopInv
<1> QED
    BY <1>1, SpecLoopInv, PTL

(* With a session in IST no completion is misread: only a failure, or a    *)
(* kill before the save, makes a cycle run again.                          *)
THEOREM SpecNotRepeatedInIST == Spec => []NotRepeatedInIST
<1>1. LoopInv => NotRepeatedInIST
      BY DEF LoopInv, NotRepeated, NotRepeatedInIST, TypeOK
<1> QED
    BY <1>1, SpecLoopInv, PTL

(* The row never claims the completion of a cycle that did not complete. *)
THEOREM SpecRowTruthful == Spec => []RowTruthful
<1>1. LoopInv => RowTruthful
      BY DEF LoopInv
<1> QED
    BY <1>1, SpecLoopInv, PTL

(* The process never sleeps through the window of a cycle that has not     *)
(* completed.                                                              *)
THEOREM SpecNotSleptThrough == Spec => []NotSleptThrough
<1>1. LoopInv => NotSleptThrough
      BY ClockRange
      DEF LoopInv, SleepsToNextOpen, NotSleptThrough, TypeOK
<1> QED
    BY <1>1, SpecLoopInv, PTL

(* In the window of a cycle that has not completed the row announces no    *)
(* run later than a retry.                                                 *)
THEOREM SpecAnnouncedInTime == Spec => []AnnouncedInTime
<1>1. LoopInv => AnnouncedInTime
      BY DEF LoopInv, AnnouncesNextOpen, AnnouncedInTime
<1> QED
    BY <1>1, SpecLoopInv, PTL

=============================================================================
