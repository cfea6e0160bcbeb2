---------------------------- MODULE SchedulerCycle ----------------------------
(***************************************************************************)
(* The daily loop of bhavcopy_scheduler_main.py: one price cycle per       *)
(* window (16:00 IST to 09:00 IST of the next day), known by the date on   *)
(* which its window opens; retries inside the window; and what a restart   *)
(* remembers, the time of the last completion in the maintenance_status    *)
(* row.                                                                    *)
(*                                                                         *)
(* A day has DayLength ticks.  Time passes while the process sleeps, runs  *)
(* a cycle or is down; the rest of the loop takes none.  What a cycle does *)
(* is left to Maintenance: here it completes, or fails to start.           *)
(***************************************************************************)
EXTENDS Integers

CONSTANTS
  DayLength,      \* ticks of a day
  Close,          \* tick of WINDOW_END_HOUR_IST
  Open,           \* tick of WINDOW_START_HOUR_IST
  RetryInterval,  \* CHECK_INTERVAL_SECONDS, in ticks
  MaxRunTime,     \* the longest check_and_process() takes, in ticks
  SessionLag,     \* ticks the clock of the database session is behind IST
  MaxDay,         \* bound: days modelled
  MaxForgotten    \* bound: completions the database never learns of

(* A cycle that starts just before the close is over before the next       *)
(* window opens: 6 hours is the code's "generous upper bound" of a cycle,  *)
(* and 7 hours lie between the windows.  Nothing sets the time zone of the *)
(* database session: it is the server's, IST or a zone up to 7 hours west  *)
(* of it (UTC is 5.5 hours behind).                                        *)
ASSUME WindowAssumption ==
  /\ DayLength \in Nat /\ Close \in Nat /\ Open \in Nat
  /\ RetryInterval \in Nat /\ MaxRunTime \in Nat
  /\ MaxDay \in Nat \ {0} /\ MaxForgotten \in Nat
  /\ 0 < Close /\ Close < Open /\ Open < DayLength
  /\ 0 < RetryInterval /\ RetryInterval < DayLength
  /\ MaxRunTime < Open - Close
  /\ SessionLag \in 0 .. Open - Close

VARIABLES
  day, tod,               \* the clock: the day and the tick of the day
  pc,
  cycle_id,               \* the cycle that runs, or 0
  elapsed,                \* ticks since the loop last read the clock
  sleep_left,             \* ticks left of time.sleep()
  last_completed,         \* last_completed_cycle_id, in memory
  completed_at,           \* scheduler_last_cycle_completed_at, in the row
  next_run_at,            \* scheduler_next_run_at, in the row
  completions,            \* history: how often each cycle completed
  forgotten,              \* history: completions that were not remembered
  misread                 \* history: completions read back as of no window

clockVars == <<day, tod>>
rowVars   == <<completed_at, next_run_at>>
vars == <<clockVars, pc, cycle_id, elapsed, sleep_left, last_completed,
          rowVars, completions, forgotten, misread>>

NoCycle == -1
Never   == <<0, 0>>

Days   == 1 .. MaxDay
Cycles == 0 .. MaxDay
Times  == {Never} \cup (0 .. MaxDay + 1) \X (0 .. DayLength - 1)

TypeOK ==
  /\ day \in Days
  /\ tod \in 0 .. DayLength - 1
  /\ pc \in {"down", "load", "loop", "run", "save", "sleep"}
  /\ cycle_id \in Cycles
  /\ elapsed \in 0 .. MaxRunTime
  /\ sleep_left \in 0 .. DayLength
  /\ last_completed \in Cycles \cup {NoCycle}
  /\ completed_at \in {Never} \cup Days \X (0 .. DayLength - 1)
  /\ next_run_at \in Times
  /\ completions \in [Cycles -> 0 .. 2 * MaxForgotten + 1]
  /\ forgotten \in 0 .. MaxForgotten /\ misread \in 0 .. MaxForgotten

-----------------------------------------------------------------------------
(* The clock.                                                              *)

(* Mutants: the window opens just after 16:00; the hours after midnight    *)
(* belong to the cycle of the new day.                                     *)
OpensAfterTheHour(d, t) ==
  IF t > Open THEN d ELSE IF t < Close THEN d - 1 ELSE NoCycle

CalendarDay(d, t) == IF t >= Open \/ t < Close THEN d ELSE NoCycle

(* _cycle_id_for(): the day on which the current window opened. *)
CycleIdFor(d, t) ==
  IF t >= Open THEN d ELSE IF t < Close THEN d - 1 ELSE NoCycle

(* _seconds_until_next_window_open(): strictly after now. *)
UntilNextOpen == IF tod < Open THEN Open - tod ELSE Open + DayLength - tod

(* The time k ticks after a time, or before it when k is negative. *)
Shifted(d, t, k) ==
  IF t + k >= DayLength THEN <<d + 1, t + k - DayLength>>
  ELSE IF t + k < 0 THEN <<d - 1, t + k + DayLength>>
  ELSE <<d, t + k>>

FromNow(k) == Shifted(day, tod, k)

Later(u, v) == u[1] > v[1] \/ (u[1] = v[1] /\ u[2] > v[2])

Tick ==
  \/ tod < DayLength - 1 /\ tod' = tod + 1 /\ UNCHANGED day
  \/ tod = DayLength - 1 /\ tod' = 0 /\ day < MaxDay /\ day' = day + 1

-----------------------------------------------------------------------------
Init ==
  /\ day = 1 /\ tod \in 0 .. DayLength - 1
  /\ pc = "down"
  /\ cycle_id = 0 /\ elapsed = 0 /\ sleep_left = 0
  /\ last_completed = NoCycle
  /\ completed_at = Never /\ next_run_at = Never
  /\ completions = [c \in Cycles |-> 0]
  /\ forgotten = 0 /\ misread = 0

Goes(from, to) == pc = from /\ pc' = to

Forget == forgotten < MaxForgotten /\ forgotten' = forgotten + 1

(* Mutant: the next window is announced, whatever the sleep. *)
AnnounceNextOpen(k) == next_run_at' \in {FromNow(UntilNextOpen), next_run_at}

(* A best-effort write of scheduler_next_run_at. *)
Announce(k) == next_run_at' \in {FromNow(k), next_run_at}

SleepFor(k) == sleep_left' = k /\ Announce(k)

Start ==
  /\ Goes("down", "load")
  /\ UNCHANGED <<clockVars, cycle_id, elapsed, sleep_left, last_completed,
                 rowVars, completions, forgotten, misread>>

(* Mutant: the state is not there after a restart, as when it was a file   *)
(* in the container.                                                       *)
NothingRemembered == NoCycle

(* The column holds the local time of the session; _cycle_id_for() takes   *)
(* it for IST.                                                             *)
SessionTime == Shifted(completed_at[1], completed_at[2], -SessionLag)

RememberedCycle ==
  IF completed_at = Never THEN NoCycle
  ELSE CycleIdFor(SessionTime[1], SessionTime[2])

(* A completion inside its window that the session's clock puts outside.   *)
Misread ==
  /\ completed_at # Never
  /\ CycleIdFor(completed_at[1], completed_at[2]) # NoCycle
  /\ CycleIdFor(SessionTime[1], SessionTime[2]) = NoCycle

Misreads == misread < MaxForgotten /\ misread' = misread + 1

(* _load_last_completed_cycle_id() *)
Load ==
  /\ Goes("load", "loop")
  /\ \/ /\ last_completed' = RememberedCycle /\ UNCHANGED forgotten
        /\ IF Misread THEN Misreads ELSE UNCHANGED misread
     \/ last_completed' = NoCycle /\ Forget /\ UNCHANGED misread
  /\ UNCHANGED <<clockVars, cycle_id, elapsed, sleep_left, rowVars,
                 completions>>

(* The loop between the windows, or in the window of a completed cycle. *)
LoopIdle ==
  /\ CycleIdFor(day, tod) \in {NoCycle, last_completed}
  /\ Goes("loop", "sleep")
  /\ SleepFor(UntilNextOpen)
  /\ UNCHANGED <<clockVars, cycle_id, elapsed, last_completed, completed_at,
                 completions, forgotten, misread>>

LoopRuns ==
  /\ CycleIdFor(day, tod) \notin {NoCycle, last_completed}
  /\ Goes("loop", "run")
  /\ cycle_id' = CycleIdFor(day, tod) /\ elapsed' = 0
  /\ UNCHANGED <<clockVars, sleep_left, last_completed, rowVars,
                 completions, forgotten, misread>>

(* check_and_process() returns False.  The retry time is announced from    *)
(* the clock as the loop read it, the sleep starts now.                    *)
RunFails ==
  /\ Goes("run", "sleep")
  /\ sleep_left' = RetryInterval
  /\ Announce(RetryInterval - elapsed)
  /\ cycle_id' = 0 /\ elapsed' = 0
  /\ UNCHANGED <<clockVars, last_completed, completed_at, completions,
                 forgotten, misread>>

(* check_and_process() returns True. *)
RunCompletes ==
  /\ Goes("run", "save")
  /\ last_completed' = cycle_id
  /\ completions' = [completions EXCEPT ![cycle_id] = @ + 1]
  /\ UNCHANGED <<clockVars, cycle_id, elapsed, sleep_left, rowVars,
                 forgotten, misread>>

(* _save_last_completed_cycle_id(), then the idle sleep. *)
Save ==
  /\ Goes("save", "sleep")
  /\ \/ completed_at' = <<day, tod>> /\ UNCHANGED forgotten
     \/ UNCHANGED completed_at /\ Forget
  /\ SleepFor(UntilNextOpen)
  /\ cycle_id' = 0 /\ elapsed' = 0
  /\ UNCHANGED <<clockVars, last_completed, completions, misread>>

Wake ==
  /\ sleep_left = 0
  /\ Goes("sleep", "loop")
  /\ UNCHANGED <<clockVars, cycle_id, elapsed, sleep_left, last_completed,
                 rowVars, completions, forgotten, misread>>

(* Ctrl+C, an exception out of check_and_process(), or a kill.  Between    *)
(* the return of a cycle and its save the completion is lost.              *)
Killed ==
  /\ pc # "down" /\ pc' = "down"
  /\ IF pc = "save" THEN Forget ELSE UNCHANGED forgotten
  /\ cycle_id' = 0 /\ elapsed' = 0 /\ sleep_left' = 0
  /\ last_completed' = NoCycle
  /\ UNCHANGED <<clockVars, rowVars, completions, misread>>

TimePasses ==
  /\ Tick
  /\ \/ pc = "down" /\ UNCHANGED <<elapsed, sleep_left>>
     \/ pc = "run" /\ elapsed < MaxRunTime /\ elapsed' = elapsed + 1
        /\ UNCHANGED sleep_left
     \/ pc = "sleep" /\ sleep_left > 0 /\ sleep_left' = sleep_left - 1
        /\ UNCHANGED elapsed
  /\ UNCHANGED <<pc, cycle_id, last_completed, rowVars, completions,
                 forgotten, misread>>

Next ==
  \/ Start \/ Load \/ LoopIdle \/ LoopRuns \/ RunFails \/ RunCompletes
  \/ Save \/ Wake \/ Killed \/ TimePasses

Spec == Init /\ [][Next]_vars

-----------------------------------------------------------------------------
(* Properties.                                                             *)

(* A cycle that has completed runs again only because a completion was     *)
(* not remembered: its save failed, the process was killed before the      *)
(* save, the row could not be read at start-up, or a restart read it back, *)
(* in the time zone of the session, as a time between the windows.         *)
NotRepeated == \A c \in Cycles : completions[c] <= 1 + forgotten + misread

(* Where the session is in IST the last never happens: a restart by itself *)
(* repeats no cycle, even one whose run went past the close.               *)
NotRepeatedInIST ==
  SessionLag = 0 => \A c \in Cycles : completions[c] <= 1 + forgotten

(* In the window of a cycle that has not completed, the process never      *)
(* sleeps longer than the retry interval: neither a retry that began in    *)
(* the last window, nor a cycle that ended late, nor a restart makes it    *)
(* sleep through a whole window.                                           *)
CurrentCycle == CycleIdFor(day, tod)

NotSleptThrough ==
  pc = "sleep" /\ CurrentCycle # NoCycle /\ completions[CurrentCycle] = 0
    => sleep_left <= RetryInterval

(* The row never says that a cycle is complete that is not, whatever the   *)
(* session's clock makes of the time.                                      *)
RowTruthful ==
  RememberedCycle # NoCycle => completions[RememberedCycle] > 0

(* While a cycle has not completed in its window, the row announces no run *)
(* later than a retry: an announcement of an earlier cycle, of a process   *)
(* that was killed, or one that a failed write left standing has passed by *)
(* the time the window opens.                                              *)
AnnouncedInTime ==
  CurrentCycle # NoCycle /\ completions[CurrentCycle] = 0
    => ~Later(next_run_at, FromNow(RetryInterval))

(* The inductive invariant.  Earliest is the first cycle that may still be *)
(* run; a cycle that completed more often than completions were lost       *)
(* is over, is about to be saved, or is recorded in the row and, once      *)
(* loaded, in memory.                                                      *)
Earliest == IF tod < Close THEN day - 1 ELSE day
Latest   == IF tod >= Open THEN day ELSE day - 1

RunInWindow ==
  pc \in {"run", "save"} =>
    \/ CurrentCycle = cycle_id
    \/ cycle_id = day - 1 /\ Close <= tod /\ tod - Close < elapsed

SleepsToNextOpen ==
  pc = "sleep" =>
    \/ sleep_left <= RetryInterval
    \/ /\ sleep_left = UntilNextOpen
       /\ CurrentCycle # NoCycle => completions[CurrentCycle] > 0

AnnouncesNextOpen ==
  \/ ~Later(next_run_at, FromNow(RetryInterval))
  \/ /\ next_run_at = FromNow(UntilNextOpen)
     /\ CurrentCycle # NoCycle => completions[CurrentCycle] > 0

MemoryTruthful ==
  /\ last_completed # NoCycle => completions[last_completed] > 0
  /\ pc = "save" => last_completed = cycle_id
  /\ \A c \in Cycles : completions[c] > 0 => c <= Latest

(* The cycle of the completion in the row, on the clock of the process. *)
RecordedCycle ==
  IF completed_at = Never THEN NoCycle
  ELSE CycleIdFor(completed_at[1], completed_at[2])

Lost == forgotten + misread

Remembered ==
  /\ pc = "run" => completions[cycle_id] <= Lost
  /\ \A c \in Cycles :
       completions[c] > Lost =>
         \/ c < Earliest
         \/ pc = "save" /\ c = cycle_id
         \/ /\ RecordedCycle = c
            /\ pc \in {"loop", "run", "save", "sleep"} => last_completed = c

LoopInv ==
  /\ TypeOK
  /\ NotRepeated
  /\ SessionLag = 0 => misread = 0
  /\ RowTruthful
  /\ RunInWindow
  /\ SleepsToNextOpen
  /\ AnnouncesNextOpen
  /\ MemoryTruthful
  /\ Remembered

=============================================================================
