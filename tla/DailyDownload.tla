--------------------------- MODULE DailyDownload ---------------------------
(***************************************************************************)
(* STEP 2 for one exchange, down to the file: which days the holiday       *)
(* calendar makes sessions, the file of a day on the disk of the service,  *)
(* the request that is left out when a file is there, the parser, and the  *)
(* transaction that stores a day's rows with its metadata row.  Pipeline   *)
(* takes a day as one action; here are its steps, and what a kill between  *)
(* two of them leaves behind on the disk.                                  *)
(*                                                                         *)
(* Days are the weekdays of one year, counted from DEFAULT_START_DATE.     *)
(* A file is empty, unreadable for the day ("bad": its header or its first *)
(* rows are cut off, it is another day's, or no text), short of some rows, *)
(* or whole.                                                               *)
(***************************************************************************)
EXTENDS Integers, Sequences, FiniteSetsExt

CONSTANTS
  LastDay,        \* bound: days modelled
  FirstCalendar,  \* the sessions the application lists at first
  Unknown,        \* the holidays have not been fetched by this process
  MaxFaults,      \* bound: failed requests and transactions, kills
  MaxNews         \* bound: corrections of the calendar, wrong files

Days == 1 .. LastDay

ASSUME DailyDownloadAssumption ==
  /\ LastDay \in Nat \ {0}
  /\ FirstCalendar \subseteq Days /\ 1 \in FirstCalendar
  /\ MaxFaults \in Nat /\ MaxNews \in Nat

VARIABLES
  today,          \* ceiling_date
  calendar,       \* the sessions, as the application answers today
  served,         \* what the exchange answers for a day
  disk,           \* DATA_MARKET_DATA_LOADER_BHAV_COPY_DOWNLOAD_DIR
  rows,           \* bhav_copy: the files whose rows were inserted for a day
  metadata,       \* days with a SUCCESS row in bhav_copy_metadata
  known,          \* _year_cache of the process
  pc,             \* where the walk is
  pending,        \* days left in the walk
  faults, news,
  missed,         \* history: days the exchange answered "not found" for
  believed,       \* history: days a walk left out as no session
  interrupted     \* history: days whose file a kill has cut off

world   == <<today, calendar, served, news>>
history == <<missed, believed, interrupted>>
vars == <<world, disk, rows, metadata, known, pc, pending, faults, history>>

Contents == {"empty", "bad", "short", "whole"}

TypeOK ==
  /\ today \in Days
  /\ calendar \subseteq Days
  /\ served \in [Days -> {"none", "bad", "whole"}]
  /\ disk \in [Days -> Contents \cup {"none"}]
  /\ rows \in [Days -> Seq({"short", "whole"})]
  /\ metadata \subseteq Days
  /\ known = Unknown \/ known \subseteq Days
  /\ pc \in {"idle", "day", "write", "parse", "persist"}
  /\ pending \subseteq {d \in Days : d <= today} /\ (pc = "idle" <=> pending = {})
  /\ faults \in 0 .. MaxFaults /\ news \in 0 .. MaxNews
  /\ missed \subseteq Days /\ believed \subseteq Days /\ interrupted \subseteq Days

Last(S) == Max(S \cup {0})

(* Mutant: the days are left as the walk back collects them. *)
NewestFirst == Max(pending)

(* The days collected are sorted: the oldest is asked for first. *)
Current == Min(pending)

-----------------------------------------------------------------------------
Init ==
  /\ today = 1 /\ calendar = FirstCalendar /\ served = [d \in Days |-> "none"]
  /\ disk = [d \in Days |-> "none"] /\ rows = [d \in Days |-> << >>]
  /\ metadata = {} /\ known = Unknown
  /\ pc = "idle" /\ pending = {}
  /\ faults = 0 /\ news = 0
  /\ missed = {} /\ believed = {} /\ interrupted = {}

Fault   == faults < MaxFaults /\ faults' = faults + 1
NoFault == UNCHANGED faults

-----------------------------------------------------------------------------
(* The world.                                                              *)

NextDay ==
  /\ today < LastDay /\ today' = today + 1
  /\ UNCHANGED <<calendar, served, news, disk, rows, metadata, known, pc, pending,
                 faults, history>>

(* The exchange publishes the file of a day. *)
PublishFile(d) ==
  /\ d <= today /\ served[d] # "whole"
  /\ served' = [served EXCEPT ![d] = "whole"]
  /\ UNCHANGED <<today, calendar, news, disk, rows, metadata, known, pc, pending,
                 faults, history>>

(* It answers with a file that is not that day's, until it is corrected. *)
PublishWrongFile(d) ==
  /\ d <= today /\ served[d] = "none"
  /\ news < MaxNews /\ news' = news + 1
  /\ served' = [served EXCEPT ![d] = "bad"]
  /\ UNCHANGED <<today, calendar, disk, rows, metadata, known, pc, pending,
                 faults, history>>

(* A holiday is added to the application's calendar, or taken out of it. *)
CorrectCalendar(d) ==
  /\ news < MaxNews /\ news' = news + 1
  /\ calendar' = IF d \in calendar THEN calendar \ {d} ELSE calendar \cup {d}
  /\ UNCHANGED <<today, served, disk, rows, metadata, known, pc, pending, faults,
                 history>>

-----------------------------------------------------------------------------
(* The cycle: the calendar, the gap and the walk.                          *)

(* get_holiday_dates_for_year(): fetched once in the life of the process. *)
Sessions == IF known = Unknown THEN calendar ELSE known

(* _latest_trade_date(): backward from the ceiling to a session. *)
LatestTradeDate(sessions) == Last({d \in sessions : d <= today})

(* MAX(trade_date) of the SUCCESS rows. *)
Freshness == Last(metadata)

EndWalk  == pc' = "idle" /\ pending' = {}
NextDate == IF pending = {Current} THEN EndWalk
            ELSE pc' = "day" /\ pending' = pending \ {Current}

(* The holidays are fetched, the gap found and the walk begun; or the      *)
(* fetch fails and the cycle is skipped.  A freshness that cannot be read  *)
(* makes the walk begin on day 1.                                          *)
StartCycle ==
  /\ pc = "idle"
  /\ \/ /\ known' = Sessions
        /\ \E fresh \in {Freshness, 0} :
             /\ IF fresh = Freshness THEN NoFault ELSE Fault
             /\ pending' = {d \in Sessions :
                              fresh < d /\ d <= LatestTradeDate(Sessions)}
             /\ believed' = believed \cup
                  {d \in Days \ Sessions : fresh < d /\ d <= LatestTradeDate(Sessions)}
        /\ pc' = IF pending' = {} THEN "idle" ELSE "day"
     \/ known = Unknown /\ Fault /\ UNCHANGED <<known, pc, pending, believed>>
  /\ UNCHANGED <<world, disk, rows, metadata, missed, interrupted>>

-----------------------------------------------------------------------------
(* One day, download_bhavcopy() first.                                     *)

(* Mutant: a file that is there is taken, whatever its size. *)
ReusedIfThere(d) == disk[d] # "none"

(* A file with a first byte is not asked for again. *)
Reused(d) == disk[d] \notin {"none", "empty"}

(* Mutant: the walk goes on after a day that failed. *)
FailedGoesOn == NextDate

(* A day that failed ends the walk. *)
Failed == EndWalk

(* The file is there; or the exchange has none; or the request fails; or   *)
(* its answer is about to be written.                                      *)
Download ==
  /\ pc = "day"
  /\ LET d == Current
     IN \/ /\ Reused(d) /\ pc' = "parse"
           /\ NoFault /\ UNCHANGED <<disk, pending, missed>>
        \/ /\ ~Reused(d) /\ served[d] = "none"
           /\ missed' = missed \cup {d} /\ NextDate
           /\ NoFault /\ UNCHANGED disk
        \/ /\ ~Reused(d) /\ Fault /\ Failed
           /\ UNCHANGED <<disk, missed>>
        \/ /\ ~Reused(d) /\ served[d] # "none"
           /\ disk' = [disk EXCEPT ![d] = "empty"] /\ pc' = "write"
           /\ NoFault /\ UNCHANGED <<pending, missed>>
  /\ UNCHANGED <<world, rows, metadata, known, believed, interrupted>>

(* Mutant: the end of the answer is not waited for. *)
StreamedBody(d) == {served[d]} \cup {"short"}

(* The whole answer is in memory before it is written. *)
Body(d) == {served[d]}

(* The content of the archive is written at once; or the archive is found  *)
(* damaged, with the file created and nothing in it.                       *)
WriteFile ==
  /\ pc = "write"
  /\ \/ /\ \E content \in Body(Current) : disk' = [disk EXCEPT ![Current] = content]
        /\ pc' = "parse" /\ NoFault /\ UNCHANGED pending
     \/ Fault /\ Failed /\ UNCHANGED disk
  /\ UNCHANGED <<world, rows, metadata, known, history>>

(* Mutant: a day that is there is stored again. *)
NeverPersisted(d) == FALSE

(* is_already_persisted() *)
AlreadyPersisted(d) == d \in metadata

(* parse_bhavcopy_csv(): no header, no rows or another date is an error;   *)
(* rows that are missing are not noticed.                                  *)
Readable(d) == disk[d] \in {"short", "whole"}

Parse ==
  /\ pc = "parse"
  /\ LET d == Current
     IN \/ AlreadyPersisted(d) /\ NextDate /\ NoFault
        \/ ~AlreadyPersisted(d) /\ ~Readable(d) /\ Failed /\ NoFault
        \/ /\ ~AlreadyPersisted(d) /\ Readable(d) /\ pc' = "persist"
           /\ NoFault /\ UNCHANGED pending
        \/ Fault /\ Failed
  /\ UNCHANGED <<world, disk, rows, metadata, known, history>>

(* A file that is no text: the parser catches no UnicodeDecodeError, nor   *)
(* does anything up to run(), and the process ends.                        *)
ParseAborts ==
  /\ pc = "parse" /\ ~AlreadyPersisted(Current) /\ disk[Current] = "bad"
  /\ known' = Unknown /\ EndWalk
  /\ UNCHANGED <<world, disk, rows, metadata, faults, history>>

(* persist_nse(), persist_bse(): the rows and the metadata row in one      *)
(* transaction; a failure may be one of the answer to the commit.          *)
Persist ==
  /\ pc = "persist"
  /\ \/ /\ rows' = [rows EXCEPT ![Current] = Append(@, disk[Current])]
        /\ metadata' = metadata \cup {Current}
        /\ (NextDate /\ NoFault) \/ (Failed /\ Fault)
     \/ UNCHANGED <<rows, metadata>> /\ Failed /\ Fault
  /\ UNCHANGED <<world, disk, known, history>>

(* A kill, or a full disk, which no handler catches: the file being        *)
(* written keeps some of its bytes, the process its calendar no longer.    *)
Crash ==
  /\ pc # "idle" /\ Fault
  /\ IF pc = "write"
     THEN /\ \E content \in {"empty", "bad", "short"} :
               disk' = [disk EXCEPT ![Current] = content]
          /\ interrupted' = interrupted \cup {Current}
     ELSE UNCHANGED <<disk, interrupted>>
  /\ known' = Unknown /\ EndWalk
  /\ UNCHANGED <<world, rows, metadata, missed, believed>>

-----------------------------------------------------------------------------
Run ==
  StartCycle \/ Download \/ WriteFile \/ Parse \/ ParseAborts \/ Persist

Next ==
  \/ Run \/ Crash \/ NextDay
  \/ \E d \in Days : PublishFile(d) \/ PublishWrongFile(d) \/ CorrectCalendar(d)

Spec == Init /\ [][Next]_vars

(* There is a cycle every day, also on the days after the last one         *)
(* modelled, and a cycle that has begun goes on.                           *)
FairSpec == Spec /\ WF_vars(Run) /\ WF_vars(NextDay)

-----------------------------------------------------------------------------
(* Properties.                                                             *)

(* The rows of a day are in bhav_copy once, exactly when its metadata says *)
(* so, whatever walk was begun again from an earlier day.                  *)
RowsMatchMetadata ==
  \A d \in Days : Len(rows[d]) = IF d \in metadata THEN 1 ELSE 0

(* A day before the last persisted one is persisted too, unless the        *)
(* exchange had no file when it was asked, or the calendar of the process  *)
(* made it no session.  A day that failed is not passed over.              *)
HolesExplained ==
  \A d \in Days : d < Last(metadata) => d \in metadata \cup missed \cup believed

(* A day is stored short of rows only if a kill cut off its file: nothing  *)
(* else leaves a part of a file where the next walk takes it for a whole.  *)
ShortOnlyIfInterrupted ==
  \A d \in Days : rows[d] = <<"short">> => d \in interrupted

(* A file the parser refuses stays on the disk and is never asked for      *)
(* again: the walk ends there on every cycle.                              *)
Blocked == \E d \in Days \ metadata : disk[d] = "bad"

(* Every session whose file the exchange serves is stored in the end,      *)
(* unless a later one was stored before, the process still takes it for a  *)
(* holiday, or the walk is blocked by a file.                              *)
ServedDayArrives ==
  \A d \in Days :
    (d \in calendar /\ served[d] = "whole") ~>
      \/ d <= Last(metadata) \/ Blocked
      \/ d \notin calendar \/ (known # Unknown /\ d \notin known)

-----------------------------------------------------------------------------
(* The days as a store of days: what the file, the parser and the          *)
(* transactions of STEP 2 come to.  A day counts as excused if it was not  *)
(* found or was left out as no session.                                    *)
Walk == INSTANCE DayStore WITH
          stored <- rows, left <- pending,
          excused <- missed \cup believed, cut <- interrupted

(* STEP 2 implements it: a step stores no day but the first of the walk,   *)
(* and that one once, leaves what is stored alone, and leaves a day out of *)
(* the walk or goes past it only as DayStore lets it.                      *)
StoresDays == Walk!Spec

=============================================================================
