------------------------ MODULE DailyDownloadProofs ------------------------
(***************************************************************************)
(* Proofs about DailyDownload, for every number of days, every calendar    *)
(* and every bound.  The cursor of the walk is the greatest day of the     *)
(* metadata, so the proofs need what the greatest and the least of a set   *)
(* of days are.                                                            *)
(***************************************************************************)
EXTENDS DailyDownload, FiniteSetTheorems, SequenceTheorems, TLAPS

(* Days that are stored, were answered "not found", or were no session. *)
Explained == metadata \cup missed \cup believed

(* A day the walk has behind it, or had never before it, is explained. *)
Passed ==
  \A d \in Days \ pending :
    (\E p \in pending : d < p) => d \in Explained

(* The same of the days before a stored one. *)
NoHole == \A d \in Days, m \in metadata : d < m => d \in Explained

(* A day about to be stored is not, and its file could be read. *)
ToStore == pc = "persist" => Current \notin metadata /\ Readable(Current)

(* A file short of rows is one a kill has cut off; so is what was stored. *)
FilesCut == \A d \in Days : disk[d] = "short" => d \in interrupted
RowsCut ==
  \A d \in Days : \A i \in 1 .. Len(rows[d]) :
    rows[d][i] = "short" => d \in interrupted

-----------------------------------------------------------------------------
(* The greatest and the least of a set of days.                            *)

(* A finite set of integers has a greatest member: the set of the members  *)
(* not below it is the least of its kind.                                  *)
LEMMA Greatest ==
  ASSUME NEW S, IsFiniteSet(S), S \subseteq Int, S # {}
  PROVE  \E x \in S : \A y \in S : x >= y
<1> DEFINE up(x) == {y \in S : y >= x}
<1> DEFINE ups == {up(x) : x \in S}
<1>1. PICK u \in ups : \A v \in ups : <<v, u>> \notin StrictSubsetOrdering(S)
  <2>1. ups \subseteq SUBSET S /\ ups # {}
    OBVIOUS
  <2>2. IsWellFoundedOn(StrictSubsetOrdering(S), SUBSET S)
    BY FS_StrictSubsetOrderingWellFounded, FS_FiniteSubsetsOfFinite
  <2> HIDE DEF ups
  <2> QED
    BY <2>1, <2>2, WFMin
<1>2. PICK x \in S : u = up(x)
  BY <1>1
<1>3. ASSUME NEW y \in S, ~(x >= y)
      PROVE  FALSE
  <2>1. x \in Int /\ y \in Int
    OBVIOUS
  <2>2. up(y) \subseteq up(x) /\ x \in up(x) /\ x \notin up(y)
    <3>1. ASSUME NEW z \in S, z >= y PROVE z >= x
      BY <1>3, <2>1, <3>1
    <3>2. x >= x /\ ~(x >= y)
      BY <1>3, <2>1
    <3> QED
      BY <3>1, <3>2
  <2>3. up(y) \in ups /\ up(x) \in ups
    OBVIOUS
  <2>4. <<up(y), up(x)>> \in StrictSubsetOrdering(S)
    <3>1. up(y) \in SUBSET S /\ up(x) \in SUBSET S
      OBVIOUS
    <3> HIDE DEF up
    <3> QED
      BY <2>2, <3>1 DEF StrictSubsetOrdering
  <2> QED
    BY <1>1, <1>2, <2>3, <2>4
<1> QED
  BY <1>3

LEMMA DaysTyped == LastDay \in Nat \ {0} /\ Days \subseteq 1 .. LastDay
  BY DailyDownloadAssumption DEF DailyDownloadAssumption, Days

LEMMA DayTyped == ASSUME NEW d \in Days PROVE d \in Int /\ 1 <= d /\ d <= LastDay
  BY DaysTyped

LEMMA FiniteDays ==
  ASSUME NEW S, S \subseteq 0 .. LastDay PROVE IsFiniteSet(S)
<1>1. IsFiniteSet(0 .. LastDay)
  BY FS_Interval, DaysTyped
<1> QED
  BY <1>1, FS_Subset

(* Last() is the greatest day of the set, and 0 of the empty set. *)
LEMMA LastIs ==
  ASSUME NEW S, S \subseteq Days
  PROVE  /\ Last(S) \in 0 .. LastDay
         /\ Last(S) \in S \cup {0}
         /\ \A d \in S : d <= Last(S)
<1> DEFINE T == S \cup {0}
<1>1. T \subseteq 0 .. LastDay /\ T # {}
  BY DaysTyped
<1>2. \E x \in T : \A y \in T : x >= y
  <2>1. T \subseteq Int
    BY <1>1
  <2> HIDE DEF T
  <2> QED
    BY <1>1, <2>1, Greatest, FiniteDays
<1>3. Last(S) \in T /\ \A y \in T : Last(S) >= y
  BY <1>2 DEF Last, Max
<1>4. ASSUME NEW d \in S PROVE d <= Last(S)
  <2>1. d \in Int /\ Last(S) \in Int
    BY <1>1, <1>3
  <2> QED
    BY <1>3, <2>1
<1> QED
  BY <1>1, <1>3, <1>4

(* The current day is the least of the pending ones. *)
LEMMA CurrentIs ==
  ASSUME pending \subseteq Days, pending # {}
  PROVE  /\ Current \in pending /\ Current \in Days
         /\ \A p \in pending : Current <= p
<1> DEFINE T == {LastDay - p : p \in pending}
<1>1. \A p \in pending : p \in Int /\ 1 <= p /\ p <= LastDay
  BY DayTyped
<1>2. T \subseteq 0 .. LastDay /\ T # {}
  <2>1. \A p \in pending : LastDay - p \in 0 .. LastDay
    BY <1>1, DaysTyped
  <2> QED
    BY <2>1
<1>3. PICK x \in T : \A y \in T : x >= y
  <2>1. T \subseteq Int
    BY <1>2
  <2> HIDE DEF T
  <2> QED
    BY <1>2, <2>1, Greatest, FiniteDays
<1>4. PICK p \in pending : x = LastDay - p
  BY <1>3
<1>5. \A q \in pending : p <= q
  <2> TAKE q \in pending
  <2>1. LastDay - q \in T
    OBVIOUS
  <2>2. LastDay - p >= LastDay - q
    BY <1>3, <1>4, <2>1
  <2> QED
    BY <1>1, <2>2, DaysTyped
<1>6. \E r \in pending : \A q \in pending : r <= q
  BY <1>5
<1> QED
  BY <1>6 DEF Current, Min

-----------------------------------------------------------------------------
(* Typing.                                                                 *)

LEMMA NextDateTyped ==
  ASSUME pending \subseteq {d \in Days : d <= today}, pending # {}, NextDate
  PROVE  /\ pending' \subseteq pending
         /\ pc' \in {"idle", "day"} /\ (pc' = "idle" <=> pending' = {})
<1>1. CASE pending = {Current}
  BY <1>1 DEF NextDate, EndWalk
<1>2. CASE pending # {Current}
  <2>1. pending' = pending \ {Current} /\ pc' = "day"
    BY <1>2 DEF NextDate
  <2>2. pending \ {Current} # {}
    BY <1>2, CurrentIs
  <2> QED
    BY <2>1, <2>2
<1> QED
  BY <1>1, <1>2

LEMMA EndWalkTyped ==
  ASSUME EndWalk
  PROVE  /\ pending' \subseteq {d \in Days : d <= today}
         /\ pc' \in {"idle", "day"} /\ (pc' = "idle" <=> pending' = {})
  BY DEF EndWalk

LEMMA FaultTyped ==
  ASSUME faults \in 0 .. MaxFaults, Fault \/ NoFault
  PROVE  faults' \in 0 .. MaxFaults
  BY DailyDownloadAssumption DEF DailyDownloadAssumption, Fault, NoFault

LEMMA InitTyped == Init => TypeOK
<1> SUFFICES ASSUME Init PROVE TypeOK
  OBVIOUS
<1>1. rows \in [Days -> Seq({"short", "whole"})]
  BY EmptySeq DEF Init
<1>2. today \in Days /\ calendar \subseteq Days
  BY DailyDownloadAssumption DEF Init, DailyDownloadAssumption
<1>3. faults \in 0 .. MaxFaults /\ news \in 0 .. MaxNews
  BY DailyDownloadAssumption DEF Init, DailyDownloadAssumption
<1> QED
  BY <1>1, <1>2, <1>3 DEF Init, TypeOK, Contents

(* A walk begins with sessions up to today. *)
LEMMA WalkBegins ==
  ASSUME TypeOK, NEW fresh \in {Freshness, 0},
         pending' = {d \in Sessions : fresh < d /\ d <= LatestTradeDate(Sessions)}
  PROVE  /\ Sessions \subseteq Days
         /\ pending' \subseteq {d \in Days : d <= today}
<1>1. Sessions \subseteq Days
  BY DEF TypeOK, Sessions
<1> DEFINE past == {d \in Sessions : d <= today}
<1>2. Last(past) \in past \cup {0}
  <2>1. past \subseteq Days
    BY <1>1
  <2> HIDE DEF past
  <2> QED
    BY <2>1, LastIs
<1>3. ASSUME NEW d \in Sessions, d <= Last(past) PROVE d <= today
  <2>1. d \in Int /\ 1 <= d /\ today \in Int
    BY <1>1, DayTyped DEF TypeOK
  <2>2. CASE Last(past) = 0
    BY <2>1, <2>2, <1>3
  <2>3. CASE Last(past) \in past
    <3>1. Last(past) \in Int /\ Last(past) <= today
      BY <2>3, <1>1, DayTyped
    <3> QED
      BY <3>1, <2>1, <1>3
  <2> QED
    BY <1>2, <2>2, <2>3
<1> QED
  BY <1>1, <1>3 DEF LatestTradeDate

LEMMA StepTyped == ASSUME TypeOK, ToStore, [Next]_vars PROVE TypeOK'
<1>1. CASE StartCycle
  <2>1. pending' \subseteq {d \in Days : d <= today} /\ believed' \subseteq Days
    <3>1. CASE UNCHANGED <<known, pc, pending, believed>>
      BY <3>1 DEF TypeOK
    <3>2. ASSUME NEW fresh \in {Freshness, 0},
                 pending' = {d \in Sessions :
                               fresh < d /\ d <= LatestTradeDate(Sessions)},
                 believed' = believed \cup
                   {d \in Days \ Sessions : fresh < d /\ d <= LatestTradeDate(Sessions)}
          PROVE  pending' \subseteq {d \in Days : d <= today} /\ believed' \subseteq Days
      BY <3>2, WalkBegins DEF TypeOK
    <3> QED
      BY <1>1, <3>1, <3>2 DEF StartCycle
  <2>2. known' = Unknown \/ known' \subseteq Days
    BY <1>1 DEF StartCycle, TypeOK, Sessions
  <2>3. pc' \in {"idle", "day"} /\ (pc' = "idle" <=> pending' = {})
    BY <1>1 DEF StartCycle, TypeOK
  <2>4. faults' \in 0 .. MaxFaults
    BY <1>1, FaultTyped DEF StartCycle, TypeOK
  <2> QED
    BY <1>1, <2>1, <2>2, <2>3, <2>4 DEF StartCycle, world, TypeOK
<1>2. CASE Download
  <2>1. pending # {} /\ pending \subseteq {d \in Days : d <= today} /\ Current \in Days
    BY <1>2, CurrentIs DEF Download, TypeOK
  <2>2. faults' \in 0 .. MaxFaults
    BY <1>2, FaultTyped DEF Download, TypeOK
  <2>3. /\ disk' \in [Days -> Contents \cup {"none"}] /\ missed' \subseteq Days
    BY <1>2, <2>1 DEF Download, TypeOK, Contents
  <2>4. /\ pending' \subseteq {d \in Days : d <= today}
        /\ pc' \in {"idle", "day", "write", "parse"} /\ (pc' = "idle" <=> pending' = {})
    BY <1>2, <2>1, NextDateTyped, EndWalkTyped DEF Download, Failed
  <2> QED
    BY <1>2, <2>2, <2>3, <2>4 DEF Download, world, TypeOK
<1>3. CASE WriteFile
  <2>1. pending # {} /\ pending \subseteq {d \in Days : d <= today} /\ Current \in Days
    BY <1>3, CurrentIs DEF WriteFile, TypeOK
  <2>2. faults' \in 0 .. MaxFaults
    BY <1>3, FaultTyped DEF WriteFile, TypeOK
  <2>3. disk' \in [Days -> Contents \cup {"none"}]
    BY <1>3, <2>1 DEF WriteFile, Body, TypeOK, Contents
  <2>4. /\ pending' \subseteq {d \in Days : d <= today}
        /\ pc' \in {"idle", "day", "write", "parse"} /\ (pc' = "idle" <=> pending' = {})
    BY <1>3, <2>1, EndWalkTyped DEF WriteFile, Failed
  <2> QED
    BY <1>3, <2>2, <2>3, <2>4 DEF WriteFile, world, history, TypeOK
<1>4. CASE Parse
  <2>1. pending # {} /\ pending \subseteq {d \in Days : d <= today} /\ Current \in Days
    BY <1>4, CurrentIs DEF Parse, TypeOK
  <2>2. faults' \in 0 .. MaxFaults
    BY <1>4, FaultTyped DEF Parse, TypeOK
  <2>4. /\ pending' \subseteq {d \in Days : d <= today}
        /\ pc' \in {"idle", "day", "persist"} /\ (pc' = "idle" <=> pending' = {})
    BY <1>4, <2>1, NextDateTyped, EndWalkTyped DEF Parse, Failed
  <2> QED
    BY <1>4, <2>2, <2>4 DEF Parse, world, history, TypeOK
<1>a. CASE ParseAborts
  BY <1>a, EndWalkTyped DEF ParseAborts, world, history, TypeOK
<1>5. CASE Persist
  <2>1. pending # {} /\ pending \subseteq {d \in Days : d <= today} /\ Current \in Days
    BY <1>5, CurrentIs DEF Persist, TypeOK
  <2>2. faults' \in 0 .. MaxFaults
    BY <1>5, FaultTyped DEF Persist, TypeOK
  <2>3. rows' \in [Days -> Seq({"short", "whole"})] /\ metadata' \subseteq Days
    <3>1. rows[Current] \in Seq({"short", "whole"}) /\ disk[Current] \in {"short", "whole"}
      BY <1>5, <2>1 DEF Persist, ToStore, Readable, TypeOK
    <3>2. Append(rows[Current], disk[Current]) \in Seq({"short", "whole"})
      BY <3>1, AppendProperties
    <3> QED
      BY <1>5, <2>1, <3>2 DEF Persist, TypeOK
  <2>4. /\ pending' \subseteq {d \in Days : d <= today}
        /\ pc' \in {"idle", "day"} /\ (pc' = "idle" <=> pending' = {})
    BY <1>5, <2>1, NextDateTyped, EndWalkTyped DEF Persist, Failed
  <2> QED
    BY <1>5, <2>2, <2>3, <2>4 DEF Persist, world, history, TypeOK
<1>6. CASE Crash
  <2>1. pending # {} /\ pending \subseteq {d \in Days : d <= today} /\ Current \in Days
    BY <1>6, CurrentIs DEF Crash, TypeOK
  <2>2. faults' \in 0 .. MaxFaults
    BY <1>6, FaultTyped DEF Crash, TypeOK
  <2>3. disk' \in [Days -> Contents \cup {"none"}] /\ interrupted' \subseteq Days
    BY <1>6, <2>1 DEF Crash, TypeOK, Contents
  <2> QED
    BY <1>6, <2>2, <2>3, EndWalkTyped DEF Crash, world, TypeOK
<1>7. CASE NextDay
  <2>1. today \in Int /\ 1 <= today /\ LastDay \in Int /\ today' = today + 1
        /\ today' <= LastDay
    BY <1>7, DayTyped, DaysTyped DEF NextDay, TypeOK
  <2>2. today' \in Days
    BY <2>1 DEF Days
  <2>3. \A d \in Days : d <= today => d <= today'
    BY <2>1, DayTyped
  <2> QED
    BY <1>7, <2>2, <2>3 DEF NextDay, history, TypeOK
<1>8. ASSUME NEW d \in Days, PublishFile(d) PROVE TypeOK'
  BY <1>8 DEF PublishFile, history, TypeOK
<1>9. ASSUME NEW d \in Days, PublishWrongFile(d) PROVE TypeOK'
  <2>1. news' \in 0 .. MaxNews
    BY <1>9, DailyDownloadAssumption DEF PublishWrongFile, TypeOK, DailyDownloadAssumption
  <2>2. served' \in [Days -> {"none", "bad", "whole"}]
    BY <1>9 DEF PublishWrongFile, TypeOK
  <2> QED
    BY <1>9, <2>1, <2>2 DEF PublishWrongFile, history, TypeOK
<1>10. ASSUME NEW d \in Days, CorrectCalendar(d) PROVE TypeOK'
  <2>1. news' \in 0 .. MaxNews
    BY <1>10, DailyDownloadAssumption DEF CorrectCalendar, TypeOK, DailyDownloadAssumption
  <2>2. calendar' \subseteq Days
    BY <1>10 DEF CorrectCalendar, TypeOK
  <2> QED
    BY <1>10, <2>1, <2>2 DEF CorrectCalendar, history, TypeOK
<1>11. CASE UNCHANGED vars
  BY <1>11 DEF vars, world, history, TypeOK
<1> QED
  BY <1>1, <1>2, <1>3, <1>4, <1>a, <1>5, <1>6, <1>7, <1>8, <1>9, <1>10, <1>11
     DEF Next, Run

-----------------------------------------------------------------------------
(* No day is passed over.                                                  *)

LEMMA NextDatePasses ==
  ASSUME TypeOK, pending # {}, Passed, NextDate,
         Explained \subseteq Explained', Current \in Explained'
  PROVE  Passed'
<1>1. pending' = pending \ {Current} \/ pending' = {}
  BY DEF NextDate, EndWalk
<1>2. ASSUME NEW d \in Days, d \notin pending', NEW p \in pending', d < p
      PROVE  d \in Explained'
  <2>1. p \in pending /\ (d \notin pending \/ d = Current)
    BY <1>1, <1>2
  <2> QED
    BY <1>2, <2>1 DEF Passed
<1> QED
  BY <1>2 DEF Passed

LEMMA EndWalkPasses == EndWalk => Passed'
  BY DEF EndWalk, Passed

LEMMA KeptPasses ==
  ASSUME Passed, pending' = pending, Explained \subseteq Explained'
  PROVE  Passed'
  BY DEF Passed

(* What a walk leaves out is stored, before a stored day, or no session. *)
LEMMA WalkPasses ==
  ASSUME TypeOK, NoHole, NEW fresh \in {Freshness, 0},
         pending' = {d \in Sessions : fresh < d /\ d <= LatestTradeDate(Sessions)},
         believed' = believed \cup
           {d \in Days \ Sessions : fresh < d /\ d <= LatestTradeDate(Sessions)},
         metadata' = metadata, missed' = missed
  PROVE  Passed'
<1> SUFFICES ASSUME NEW d \in Days, d \notin pending', NEW p \in pending', d < p
             PROVE  d \in Explained'
  BY DEF Passed
<1>1. d \in Int /\ 1 <= d
  BY DayTyped
<1>2. Sessions \subseteq Days
  BY DEF TypeOK, Sessions
<1>3. /\ Freshness \in 0 .. LastDay /\ Freshness \in metadata \cup {0}
  BY LastIs DEF TypeOK, Freshness
<1>4. fresh \in Int
  BY <1>3, DaysTyped
<1>5. CASE fresh < d
  <2>1. LatestTradeDate(Sessions) \in Int
    <3>1. {x \in Sessions : x <= today} \subseteq Days
      BY <1>2
    <3> QED
      BY <3>1, LastIs, DaysTyped DEF LatestTradeDate
  <2>2. p \in Int /\ p <= LatestTradeDate(Sessions)
    BY <1>2, DayTyped
  <2>3. d <= LatestTradeDate(Sessions)
    BY <1>1, <2>1, <2>2
  <2> QED
    BY <1>5, <2>3 DEF Explained
<1>6. CASE ~(fresh < d)
  <2>1. fresh = Freshness /\ fresh \in metadata /\ (d < fresh \/ d = fresh)
    BY <1>1, <1>3, <1>4, <1>6
  <2>2. d \in Explained
    BY <2>1 DEF NoHole, Explained
  <2> QED
    BY <2>2 DEF Explained
<1> QED
  BY <1>5, <1>6

LEMMA WalkStep ==
  ASSUME TypeOK, NoHole, Passed, [Next]_vars
  PROVE  NoHole' /\ Passed'
<1>1. CASE StartCycle
  <2>1. NoHole'
    BY <1>1 DEF StartCycle, NoHole, Explained
  <2>2. CASE UNCHANGED <<known, pc, pending, believed>>
    BY <1>1, <2>1, <2>2, KeptPasses DEF StartCycle, Explained
  <2>3. ASSUME NEW fresh \in {Freshness, 0},
               pending' = {d \in Sessions :
                             fresh < d /\ d <= LatestTradeDate(Sessions)},
               believed' = believed \cup
                 {d \in Days \ Sessions : fresh < d /\ d <= LatestTradeDate(Sessions)}
        PROVE  Passed'
    BY <1>1, <2>3, WalkPasses DEF StartCycle
  <2> QED
    BY <1>1, <2>1, <2>2, <2>3 DEF StartCycle
<1>2. CASE Download
  <2>1. Explained \subseteq Explained' /\ metadata' = metadata /\ pending # {}
    BY <1>2 DEF Download, Explained, TypeOK
  <2>2. NoHole'
    BY <2>1 DEF NoHole
  <2>3. CASE UNCHANGED pending
    BY <2>1, <2>2, <2>3, KeptPasses
  <2>4. CASE Failed
    BY <2>2, <2>4, EndWalkPasses DEF Failed
  <2>5. CASE missed' = missed \cup {Current} /\ NextDate
    BY <2>1, <2>2, <2>5, NextDatePasses DEF Explained
  <2> QED
    BY <1>2, <2>2, <2>3, <2>4, <2>5 DEF Download
<1>3. CASE WriteFile
  <2>1. Explained' = Explained /\ metadata' = metadata
    BY <1>3 DEF WriteFile, history, Explained
  <2>2. NoHole'
    BY <2>1 DEF NoHole
  <2> QED
    BY <1>3, <2>1, <2>2, KeptPasses, EndWalkPasses DEF WriteFile, Failed
<1>4. CASE Parse
  <2>1. Explained' = Explained /\ metadata' = metadata /\ pending # {}
    BY <1>4 DEF Parse, history, Explained, TypeOK
  <2>2. NoHole'
    BY <2>1 DEF NoHole
  <2>3. CASE AlreadyPersisted(Current) /\ NextDate
    <3>1. Current \in Explained
      BY <2>3 DEF AlreadyPersisted, Explained
    <3> QED
      BY <2>1, <2>2, <2>3, <3>1, NextDatePasses
  <2> QED
    BY <1>4, <2>1, <2>2, <2>3, KeptPasses, EndWalkPasses DEF Parse, Failed
<1>5. CASE Persist
  <2>1. pending # {} /\ pending \subseteq Days
    BY <1>5 DEF Persist, TypeOK
  <2>2. Explained \subseteq Explained'
    BY <1>5 DEF Persist, history, Explained
  <2>3. CASE UNCHANGED <<rows, metadata>> /\ Failed
    BY <2>2, <2>3, EndWalkPasses DEF Failed, NoHole
  <2>4. CASE metadata' = metadata \cup {Current}
    <3>1. ASSUME NEW d \in Days, NEW m \in metadata', d < m
          PROVE  d \in Explained'
      <4>1. CASE m \in metadata
        BY <2>2, <3>1, <4>1 DEF NoHole
      <4>2. CASE m = Current
        <5>1. Current \in pending /\ d \notin pending
          <6>1. ~(Current <= d)
            BY <2>1, <3>1, <4>2, CurrentIs, DayTyped
          <6> QED
            BY <2>1, <6>1, CurrentIs
        <5> QED
          BY <2>2, <3>1, <4>2, <5>1 DEF Passed
      <4> QED
        BY <2>4, <3>1, <4>1, <4>2
    <3>2. Current \in Explained'
      BY <2>4 DEF Explained
    <3>3. Passed'
      BY <1>5, <2>1, <2>2, <3>2, NextDatePasses, EndWalkPasses DEF Persist, Failed
    <3> QED
      BY <3>1, <3>3 DEF NoHole
  <2> QED
    BY <1>5, <2>3, <2>4 DEF Persist
<1>6. CASE ParseAborts \/ Crash
  BY <1>6, EndWalkPasses DEF ParseAborts, Crash, history, NoHole, Explained
<1>7. CASE UNCHANGED <<metadata, pending, missed, believed>>
  BY <1>7 DEF NoHole, Passed, Explained
<1>8. CASE NextDay \/ \E d \in Days : PublishFile(d) \/ PublishWrongFile(d)
                                      \/ CorrectCalendar(d)
  BY <1>7, <1>8 DEF NextDay, PublishFile, PublishWrongFile, CorrectCalendar, history
<1>9. CASE UNCHANGED vars
  BY <1>7, <1>9 DEF vars, history
<1> QED
  BY <1>1, <1>2, <1>3, <1>4, <1>5, <1>6, <1>8, <1>9 DEF Next, Run

-----------------------------------------------------------------------------
(* The rows of a day.                                                      *)

LEMMA StoreStep ==
  ASSUME TypeOK, RowsMatchMetadata, ToStore, [Next]_vars
  PROVE  RowsMatchMetadata' /\ ToStore'
<1>1. CASE Persist
  <2>1. pending # {} /\ pending \subseteq Days /\ Current \in Days
    BY <1>1, CurrentIs DEF Persist, TypeOK
  <2>2. ToStore'
    BY <1>1 DEF Persist, ToStore, Failed, NextDate, EndWalk
  <2>3. CASE UNCHANGED <<rows, metadata>>
    BY <2>2, <2>3 DEF RowsMatchMetadata
  <2>4. CASE /\ rows' = [rows EXCEPT ![Current] = Append(@, disk[Current])]
             /\ metadata' = metadata \cup {Current}
    <3>1. rows[Current] \in Seq({"short", "whole"}) /\ disk[Current] \in {"short", "whole"}
      BY <1>1, <2>1 DEF Persist, ToStore, Readable, TypeOK
    <3>2. Len(rows[Current]) = 0
      BY <1>1, <2>1 DEF Persist, ToStore, RowsMatchMetadata
    <3>3. Len(Append(rows[Current], disk[Current])) = 1
      BY <3>1, <3>2, AppendProperties
    <3>4. rows'[Current] = Append(rows[Current], disk[Current])
          /\ \A d \in Days \ {Current} : rows'[d] = rows[d]
      BY <2>1, <2>4 DEF TypeOK
    <3> QED
      BY <2>1, <2>2, <2>4, <3>3, <3>4 DEF RowsMatchMetadata
  <2> QED
    BY <1>1, <2>3, <2>4 DEF Persist
<1>2. CASE Parse
  <2>1. RowsMatchMetadata'
    BY <1>2 DEF Parse, RowsMatchMetadata
  <2>2. CASE ~AlreadyPersisted(Current) /\ Readable(Current) /\ UNCHANGED pending
    BY <1>2, <2>1, <2>2 DEF Parse, ToStore, AlreadyPersisted, Readable, Current
  <2>3. CASE pc' # "persist"
    BY <2>1, <2>3 DEF ToStore
  <2> QED
    BY <1>2, <2>1, <2>2, <2>3 DEF Parse, Failed, NextDate, EndWalk
<1>3. CASE StartCycle \/ Download \/ WriteFile \/ ParseAborts \/ Crash
  <2>1. pc' # "persist" /\ UNCHANGED <<rows, metadata>>
    BY <1>3 DEF StartCycle, Download, WriteFile, ParseAborts, Crash, Failed, NextDate,
                EndWalk
  <2> QED
    BY <2>1 DEF RowsMatchMetadata, ToStore
<1>4. CASE UNCHANGED <<rows, metadata, disk, pc, pending>>
  BY <1>4 DEF RowsMatchMetadata, ToStore, Readable, Current
<1>5. CASE NextDay \/ \E d \in Days : PublishFile(d) \/ PublishWrongFile(d)
                                      \/ CorrectCalendar(d)
  BY <1>4, <1>5 DEF NextDay, PublishFile, PublishWrongFile, CorrectCalendar
<1>6. CASE UNCHANGED vars
  BY <1>4, <1>6 DEF vars
<1> QED
  BY <1>1, <1>2, <1>3, <1>5, <1>6 DEF Next, Run

LEMMA CutStep ==
  ASSUME TypeOK, ToStore, FilesCut, RowsCut, [Next]_vars
  PROVE  FilesCut' /\ RowsCut'
<1>1. CASE Persist
  <2>1. pending # {} /\ pending \subseteq Days /\ Current \in Days
    BY <1>1, CurrentIs DEF Persist, TypeOK
  <2>2. FilesCut' /\ interrupted' = interrupted
    BY <1>1 DEF Persist, history, FilesCut
  <2>3. CASE UNCHANGED rows
    BY <2>2, <2>3 DEF RowsCut
  <2>4. CASE rows' = [rows EXCEPT ![Current] = Append(@, disk[Current])]
    <3>1. rows[Current] \in Seq({"short", "whole"}) /\ disk[Current] \in {"short", "whole"}
      BY <1>1, <2>1 DEF Persist, ToStore, Readable, TypeOK
    <3> DEFINE old == rows[Current]
               new == Append(old, disk[Current])
    <3>2. Len(old) \in Nat /\ Len(new) = Len(old) + 1 /\ new[Len(old) + 1] = disk[Current]
          /\ \A i \in 1 .. Len(old) : new[i] = old[i]
      BY <3>1, AppendProperties, LenProperties
    <3>3. rows'[Current] = new /\ \A d \in Days \ {Current} : rows'[d] = rows[d]
      BY <2>1, <2>4 DEF TypeOK
    <3>4. ASSUME NEW i \in 1 .. Len(new), new[i] = "short" PROVE Current \in interrupted
      <4> HIDE DEF new, old
      <4>1. CASE i = Len(old) + 1
        BY <2>1, <3>2, <3>4, <4>1 DEF FilesCut
      <4>2. CASE i \in 1 .. Len(old)
        <5>1. old[i] = "short"
          BY <3>2, <3>4, <4>2
        <5> QED
          BY <2>1, <4>2, <5>1 DEF RowsCut, old
      <4> QED
        BY <3>2, <4>1, <4>2
    <3> HIDE DEF new, old
    <3> QED
      BY <2>2, <3>3, <3>4 DEF RowsCut
  <2> QED
    BY <1>1, <2>3, <2>4 DEF Persist
<1>2. CASE WriteFile
  <2>1. pending # {} /\ pending \subseteq Days /\ Current \in Days
    BY <1>2, CurrentIs DEF WriteFile, TypeOK
  <2>2. served[Current] # "short"
    BY <2>1 DEF TypeOK
  <2> QED
    BY <1>2, <2>1, <2>2 DEF WriteFile, Body, history, FilesCut, RowsCut, TypeOK
<1>3. CASE Download
  <2>1. pending # {} /\ pending \subseteq Days /\ Current \in Days
    BY <1>3, CurrentIs DEF Download, TypeOK
  <2> QED
    BY <1>3, <2>1 DEF Download, FilesCut, RowsCut, TypeOK
<1>4. CASE Crash
  <2>1. pending # {} /\ pending \subseteq Days /\ Current \in Days
    BY <1>4, CurrentIs DEF Crash, TypeOK
  <2> QED
    BY <1>4, <2>1 DEF Crash, FilesCut, RowsCut, TypeOK
<1>5. CASE UNCHANGED <<rows, disk, interrupted>>
  BY <1>5 DEF FilesCut, RowsCut
<1>6. CASE \/ StartCycle \/ Parse \/ ParseAborts \/ NextDay
           \/ \E d \in Days : PublishFile(d) \/ PublishWrongFile(d) \/ CorrectCalendar(d)
  BY <1>5, <1>6 DEF StartCycle, Parse, ParseAborts, NextDay, PublishFile,
                    PublishWrongFile, CorrectCalendar, history
<1>7. CASE UNCHANGED vars
  BY <1>5, <1>7 DEF vars, history
<1> QED
  BY <1>1, <1>2, <1>3, <1>4, <1>6, <1>7 DEF Next, Run

-----------------------------------------------------------------------------
IInv ==
  /\ TypeOK
  /\ NoHole /\ Passed
  /\ RowsMatchMetadata /\ ToStore
  /\ FilesCut /\ RowsCut

LEMMA InitInv == Init => IInv
<1> SUFFICES ASSUME Init PROVE IInv
  OBVIOUS
<1>1. TypeOK
  BY InitTyped
<1>2. NoHole /\ Passed /\ ToStore /\ FilesCut
  BY DEF Init, NoHole, Passed, ToStore, FilesCut
<1>3. \A d \in Days : Len(rows[d]) = 0
  BY EmptySeq DEF Init
<1>4. RowsMatchMetadata /\ RowsCut
  BY <1>3 DEF Init, RowsMatchMetadata, RowsCut
<1> QED
  BY <1>1, <1>2, <1>4 DEF IInv

(* IInv holds in every state: STEP 2 keeps its cursor honest, whatever     *)
(* fails, is killed, or is corrected, and wherever.                        *)
THEOREM SpecIInv == Spec => []IInv
<1>1. ASSUME IInv, [Next]_vars PROVE IInv'
  BY <1>1, StepTyped, WalkStep, StoreStep, CutStep DEF IInv
<1> QED
  BY InitInv, <1>1, PTL DEF Spec

(* The state of the walk, the disk and the tables keep their types.        *)
THEOREM SpecTypeOK == Spec => []TypeOK
<1>1. IInv => TypeOK
  BY DEF IInv
<1> QED
  BY <1>1, SpecIInv, PTL

(* The rows of a day are inserted once, exactly when its metadata row is:  *)
(* persist_nse() and persist_bse() insert without ON CONFLICT, and only    *)
(* is_already_persisted() stands before them.                              *)
THEOREM SpecRowsMatchMetadata == Spec => []RowsMatchMetadata
<1>1. IInv => RowsMatchMetadata
  BY DEF IInv
<1> QED
  BY <1>1, SpecIInv, PTL

(* The walk of run() never passes over a day that failed: a day before     *)
(* the stored maximum is stored, or the exchange had no file for it, or    *)
(* the calendar of the process made it no session.                         *)
THEOREM SpecHolesExplained == Spec => []HolesExplained
<1>1. ASSUME IInv PROVE HolesExplained
  <2> SUFFICES ASSUME NEW d \in Days, d < Last(metadata)
               PROVE  d \in metadata \cup missed \cup believed
    BY DEF HolesExplained
  <2>1. Last(metadata) \in metadata \cup {0}
    BY <1>1, LastIs DEF IInv, TypeOK
  <2>2. Last(metadata) # 0
    BY DayTyped
  <2> QED
    BY <1>1, <2>1, <2>2 DEF IInv, NoHole, Explained
<1> QED
  BY <1>1, SpecIInv, PTL

(* Rows are missing from a stored day only if a kill cut off its file:     *)
(* download_bhavcopy() takes a file with a first byte for a whole one.     *)
THEOREM SpecShortOnlyIfInterrupted == Spec => []ShortOnlyIfInterrupted
<1>1. ASSUME IInv PROVE ShortOnlyIfInterrupted
  <2> SUFFICES ASSUME NEW d \in Days, rows[d] = <<"short">>
               PROVE  d \in interrupted
    BY DEF ShortOnlyIfInterrupted
  <2>1. 1 \in 1 .. Len(rows[d]) /\ rows[d][1] = "short"
    OBVIOUS
  <2> QED
    BY <1>1, <2>1 DEF IInv, RowsCut
<1> QED
  BY <1>1, SpecIInv, PTL

-----------------------------------------------------------------------------
(* The days as a store of days.                                            *)

(* The days held are those with a metadata row. *)
LEMMA HeldIs == ASSUME TypeOK, RowsMatchMetadata PROVE Walk!Held = metadata
<1>1. ASSUME NEW d \in Days PROVE rows[d] # << >> <=> d \in metadata
  <2>1. rows[d] \in Seq({"short", "whole"}) /\ Len(rows[d]) = IF d \in metadata THEN 1 ELSE 0
    BY DEF TypeOK, RowsMatchMetadata
  <2> QED
    BY <2>1, EmptySeq
<1> QED
  BY <1>1 DEF Walk!Held, TypeOK

(* The days a walk has left out are the gaps between its days: the walk    *)
(* reaches to the last session of the calendar, if it has a day at all.    *)
LEMMA GapsOfWalk ==
  ASSUME TypeOK, NEW fresh \in {Freshness, 0},
         pending' = {d \in Sessions : fresh < d /\ d <= LatestTradeDate(Sessions)}
  PROVE  {d \in Days \ Sessions : fresh < d /\ d <= LatestTradeDate(Sessions)}
           = {d \in Days \ pending' : fresh < d /\ \E x \in pending' : d < x}
<1> DEFINE last == LatestTradeDate(Sessions)
<1>1. Sessions \subseteq Days
  BY DEF TypeOK, Sessions
<1>2. fresh \in Int
  <2>1. Freshness \in 0 .. LastDay
    BY LastIs DEF TypeOK, Freshness
  <2> QED
    BY <2>1, DaysTyped
<1>3. last \in Int /\ last \in Sessions \cup {0}
  <2>1. {x \in Sessions : x <= today} \subseteq Days
    BY <1>1
  <2> QED
    BY <2>1, LastIs, DaysTyped DEF LatestTradeDate
<1> HIDE DEF last
<1>4. pending' = {d \in Sessions : fresh < d /\ d <= last}
  BY DEF last
<1>5. ASSUME NEW d \in Days \ Sessions, fresh < d, d <= last
      PROVE  d \notin pending' /\ \E x \in pending' : d < x
  <2>1. d \in Int /\ 1 <= d
    BY DayTyped
  <2>2. last \in Sessions /\ d < last
    BY <1>3, <1>5, <2>1
  <2>3. last \in pending'
    BY <1>2, <1>3, <1>4, <1>5, <2>1, <2>2
  <2> QED
    BY <1>4, <2>2, <2>3
<1>6. ASSUME NEW d \in Days \ pending', fresh < d, NEW x \in pending', d < x
      PROVE  d \notin Sessions /\ d <= last
  <2>1. d \in Int /\ x \in Int /\ x <= last
    BY <1>1, <1>4, DayTyped
  <2>2. d <= last
    BY <1>3, <1>6, <2>1
  <2> QED
    BY <1>4, <1>6, <2>2
<1> QED
  BY <1>5, <1>6 DEF last

LEMMA WalkBegun == ASSUME IInv, StartCycle PROVE Walk!Begin \/ UNCHANGED Walk!vars
<1>1. pending = {} /\ UNCHANGED <<rows, missed, interrupted>>
  BY DEF IInv, TypeOK, StartCycle
<1>2. CASE UNCHANGED <<known, pc, pending, believed>>
  BY <1>1, <1>2 DEF Walk!vars
<1>3. ASSUME NEW fresh \in {Freshness, 0},
             pending' = {d \in Sessions : fresh < d /\ d <= LatestTradeDate(Sessions)},
             believed' = believed \cup
               {d \in Days \ Sessions : fresh < d /\ d <= LatestTradeDate(Sessions)}
      PROVE  Walk!Begin
  <2>1. Walk!Held = metadata
    BY HeldIs DEF IInv
  <2>2. fresh \in Walk!Held \cup {0} /\ (fresh = 0 \/ \A h \in Walk!Held : h <= fresh)
    BY <2>1, LastIs DEF IInv, TypeOK, Freshness
  <2>3. Sessions \subseteq Days
    BY DEF IInv, TypeOK, Sessions
  <2>4. pending' \subseteq {d \in Days : fresh < d}
    BY <1>3, <2>3
  <2>5. missed' \cup believed' = (missed \cup believed) \cup
          {d \in Days \ pending' : fresh < d /\ \E x \in pending' : d < x}
    BY <1>1, <1>3, GapsOfWalk DEF IInv
  <2> QED
    BY <1>1, <2>2, <2>4, <2>5 DEF Walk!Begin
<1> QED
  BY <1>2, <1>3 DEF StartCycle

(* The current day is the first of the walk. *)
LEMMA CurrentFirst ==
  ASSUME IInv, pc # "idle"
  PROVE  /\ Current \in Days /\ Walk!First(Current)
         /\ Failed => pending' = {}
         /\ NextDate => pending' = pending \ {Current}
<1>1. pending # {} /\ pending \subseteq Days
  BY DEF IInv, TypeOK
<1>2. Current \in Days /\ Walk!First(Current)
  BY <1>1, CurrentIs DEF Walk!First
<1> QED
  BY <1>2 DEF Failed, NextDate, EndWalk

LEMMA WalkGoesOn ==
  ASSUME IInv, Download \/ WriteFile \/ Parse \/ ParseAborts \/ Persist \/ Crash
  PROVE  [Walk!Next]_(Walk!vars)
<1> DEFINE c == Current
<1>1. /\ c \in Days /\ Walk!First(c)
      /\ Failed => pending' = {}
      /\ NextDate => pending' = pending \ {c}
  <2>1. pc # "idle"
    BY DEF Download, WriteFile, Parse, ParseAborts, Persist, Crash
  <2> QED
    BY <2>1, CurrentFirst
<1>2. c \in Walk!Held <=> c \in metadata
  BY HeldIs DEF IInv
<1>3. \/ UNCHANGED <<rows, pending, missed, believed, interrupted>>
      \/ /\ pending' = {} /\ UNCHANGED <<rows, missed, believed>>
         /\ interrupted' \in {interrupted, interrupted \cup {c}}
      \/ /\ pending' = pending \ {c} /\ UNCHANGED <<rows, believed, interrupted>>
         /\ missed' = missed \cup {c}
      \/ /\ pending' = pending \ {c} /\ c \in metadata
         /\ UNCHANGED <<rows, missed, believed, interrupted>>
      \/ /\ pc = "persist" /\ rows' = [rows EXCEPT ![c] = Append(@, disk[c])]
         /\ pending' \in {pending \ {c}, {}}
         /\ UNCHANGED <<missed, believed, interrupted>>
  <2>1. CASE Download
    BY <1>1, <2>1 DEF Download
  <2>2. CASE WriteFile
    BY <1>1, <2>2 DEF WriteFile, history
  <2>3. CASE Parse
    BY <1>1, <2>3 DEF Parse, history, AlreadyPersisted
  <2>4. CASE Persist
    BY <1>1, <2>4 DEF Persist, history
  <2>5. CASE ParseAborts \/ Crash
    BY <1>1, <2>5 DEF ParseAborts, Crash, history, EndWalk
  <2> QED
    BY <2>1, <2>2, <2>3, <2>4, <2>5
<1>4. CASE pc = "persist" /\ rows' = [rows EXCEPT ![c] = Append(@, disk[c])]
           /\ pending' \in {pending \ {c}, {}}
           /\ UNCHANGED <<missed, believed, interrupted>>
  <2>1. c \notin metadata /\ disk[c] \in {"short", "whole"}
    BY <1>4 DEF IInv, ToStore, Readable
  <2>2. rows[c] = << >>
    BY <1>1, <1>2, <2>1 DEF Walk!Held
  <2>3. Append(rows[c], disk[c]) = <<disk[c]>>
    BY <2>2
  <2>4. rows' = [rows EXCEPT ![c] = <<disk[c]>>]
    BY <1>4, <2>3
  <2>5. disk[c] = "short" => c \in interrupted
    BY <1>1 DEF IInv, FilesCut
  <2>6. Walk!Store(c)
    BY <1>1, <1>2, <1>4, <2>1, <2>4, <2>5 DEF Walk!Store
  <2> QED
    BY <1>1, <2>6 DEF Walk!Next
<1>5. CASE pending' = {} /\ UNCHANGED <<rows, missed, believed>>
           /\ interrupted' \in {interrupted, interrupted \cup {c}}
  <2>1. Walk!Stop(c)
    BY <1>1, <1>5 DEF Walk!Stop
  <2> QED
    BY <1>1, <2>1 DEF Walk!Next
<1>6. CASE pending' = pending \ {c} /\ UNCHANGED <<rows, believed, interrupted>>
           /\ missed' = missed \cup {c}
  <2>1. Walk!Excuse(c)
    BY <1>1, <1>6 DEF Walk!Excuse
  <2> QED
    BY <1>1, <2>1 DEF Walk!Next
<1>7. CASE pending' = pending \ {c} /\ c \in metadata
           /\ UNCHANGED <<rows, missed, believed, interrupted>>
  <2>1. Walk!Pass(c)
    BY <1>1, <1>2, <1>7 DEF Walk!Pass
  <2> QED
    BY <1>1, <2>1 DEF Walk!Next
<1>8. CASE UNCHANGED <<rows, pending, missed, believed, interrupted>>
  BY <1>8 DEF Walk!vars
<1> HIDE DEF c
<1> QED
  BY <1>3, <1>4, <1>5, <1>6, <1>7, <1>8

(* STEP 2, down to the file, implements DayStore: whatever fails or is     *)
(* killed and wherever, a step stores no day but the first of the walk,    *)
(* stores it once and leaves it as it is, and gives up a day of the walk   *)
(* only as the exchange's answer, the calendar or a failure allows.        *)
THEOREM SpecStoresDays == Spec => StoresDays
<1>1. Init => Walk!Init
  BY DEF Init, Walk!Init
<1>2. ASSUME IInv, [Next]_vars PROVE [Walk!Next]_(Walk!vars)
  <2>1. CASE StartCycle
    BY <1>2, <2>1, WalkBegun DEF Walk!Next
  <2>2. CASE Download \/ WriteFile \/ Parse \/ ParseAborts \/ Persist \/ Crash
    BY <1>2, <2>2, WalkGoesOn
  <2>3. CASE UNCHANGED <<rows, pending, missed, believed, interrupted>>
    BY <2>3 DEF Walk!vars
  <2>4. CASE NextDay \/ \E d \in Days : PublishFile(d) \/ PublishWrongFile(d)
                                        \/ CorrectCalendar(d)
    BY <2>3, <2>4 DEF NextDay, PublishFile, PublishWrongFile, CorrectCalendar, history
  <2>5. CASE UNCHANGED vars
    BY <2>3, <2>5 DEF vars, history
  <2> QED
    BY <1>2, <2>1, <2>2, <2>4, <2>5 DEF Next, Run
<1> QED
  BY <1>1, <1>2, SpecIInv, PTL DEF Spec, StoresDays, Walk!Spec

=============================================================================
