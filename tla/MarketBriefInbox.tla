--------------------------- MODULE MarketBriefInbox ---------------------------
(***************************************************************************)
(* The watched folder of market_brief_listener.py and its loader           *)
(* (core/market_brief/loader.py).  A user downloads a .json and an .html   *)
(* file per trade date into inbox/; each poll is a pass over the files it  *)
(* finds there: it loads the newest pair of each trade date into the row   *)
(* of that date and then moves the files away one by one.  A pass can end  *)
(* between any two of its steps: a database error, a file that cannot be   *)
(* moved, a killed process.                                                *)
(*                                                                         *)
(* The content of a file is its quality: "good", "bad" (build_brief()      *)
(* refuses it), or "unsavable" (it passes the checks, and the database     *)
(* refuses it every time).  Files are numbered as they appear.  A browser  *)
(* that writes under a partial suffix and renames is not modelled apart:   *)
(* the pass does not see the file before.                                  *)
(***************************************************************************)
EXTENDS Integers, FiniteSets

CONSTANTS
  MaxFiles,       \* bound: downloads
  MaxDate,        \* trade dates, in the order of their file names
  Qualities,      \* which qualities occur
  Stable, Grace,  \* STABLE_SECONDS, HTML_GRACE_SECONDS, in ticks
  LastDownload,   \* bound: no download is being written after this tick
  MaxTime,        \* bound: the clock stops here
  MaxFaults       \* bound: failed reads, saves, moves and kills

ASSUME InboxAssumption ==
  /\ MaxFiles \in Nat /\ MaxDate \in Nat \ {0} /\ MaxFaults \in Nat
  /\ Qualities \subseteq {"good", "bad", "unsavable"}
  /\ Stable \in Nat \ {0} /\ Grace \in Nat /\ Stable <= Grace
  /\ LastDownload \in Nat /\ MaxTime \in Nat /\ LastDownload + Grace < MaxTime

Files == 1 .. MaxFiles
Dates == 1 .. MaxDate
Kinds == {"json", "html", "other"}
None == 0  \* no file

VARIABLES
  now,       \* the wall clock
  place,     \* where each file is
  label,     \* its trade date, kind and quality
  mtime,     \* its modification time
  row,       \* market_daily_brief: the files each trade date's row came from
  saved,     \* history: the .json files that were ever saved
  pc,        \* process_inbox()
  pass_now,  \* its now
  listed,    \* the files it found
  todo,      \* the trade dates it has not come to
  picked,    \* json_path, html_path
  moving,    \* the files of the group it still has to move
  faults

fileVars == <<place, label, mtime>>
passVars == <<pc, pass_now, listed, todo, picked, moving>>
vars == <<now, fileVars, row, saved, passVars, faults>>

Pair == [json : Files \cup {None}, html : Files \cup {None}]
NoPair == [json |-> None, html |-> None]

(* The files of a row are of its trade date and of the right kind.         *)
RowOK(d) ==
  /\ row[d].json # None => label[row[d].json].kind = "json"
  /\ row[d].html # None => label[row[d].html].kind = "html"
  /\ \A n \in {row[d].json, row[d].html} \ {None} : label[n].date = d

TypeOK ==
  /\ now \in 0 .. MaxTime
  /\ place \in [Files -> {"none", "writing", "inbox", "processed", "failed"}]
  /\ label \in [Files -> [date : Dates, kind : Kinds, quality : Qualities]]
  /\ mtime \in [Files -> 0 .. MaxTime]
  /\ row \in [Dates -> Pair] /\ \A d \in Dates : RowOK(d)
  /\ saved \subseteq Files
  /\ pc \in {"idle", "group", "save", "move", "fail"}
  /\ pass_now \in 0 .. MaxTime
  /\ listed \subseteq Files
  /\ todo \subseteq Dates
  /\ picked \in Pair
  /\ moving \subseteq Files
  /\ faults \in 0 .. MaxFaults

Init ==
  /\ now = 0
  /\ place = [n \in Files |-> "none"]
  /\ \E q \in Qualities :
       label = [n \in Files |-> [date |-> 1, kind |-> "json", quality |-> q]]
  /\ mtime = [n \in Files |-> 0]
  /\ row = [d \in Dates |-> NoPair]
  /\ saved = {}
  /\ pc = "idle" /\ pass_now = 0
  /\ listed = {} /\ todo = {} /\ picked = NoPair /\ moving = {}
  /\ faults = 0

Fault == faults < MaxFaults /\ faults' = faults + 1

-----------------------------------------------------------------------------
(* The user, the browser and the clock.                                    *)

Writing == {n \in Files : place[n] = "writing"}

(* The next file appears in the inbox and is being written.                *)
StartDownload(n, d, k, q) ==
  /\ place[n] = "none" /\ \A m \in 1 .. n - 1 : place[m] # "none"
  /\ now <= LastDownload
  /\ place' = [place EXCEPT ![n] = "writing"]
  /\ label' = [label EXCEPT ![n] = [date |-> d, kind |-> k, quality |-> q]]
  /\ mtime' = [mtime EXCEPT ![n] = now]
  /\ UNCHANGED <<now, row, saved, passVars, faults>>

FinishDownload(n) ==
  /\ place[n] = "writing"
  /\ place' = [place EXCEPT ![n] = "inbox"]
  /\ UNCHANGED <<now, label, mtime, row, saved, passVars, faults>>

(* A browser that is writing a file touches it in every tick.              *)
Tick ==
  /\ now < MaxTime
  /\ now >= LastDownload => Writing = {}
  /\ now' = now + 1
  /\ mtime' = [n \in Files |-> IF n \in Writing THEN now + 1 ELSE mtime[n]]
  /\ UNCHANGED <<place, label, row, saved, passVars, faults>>

-----------------------------------------------------------------------------
(* One pass.                                                               *)

PassOver ==
  /\ pc' = "idle" /\ pass_now' = 0
  /\ listed' = {} /\ todo' = {} /\ picked' = NoPair /\ moving' = {}

InInbox == {n \in Files : place[n] \in {"writing", "inbox"}}
Stray == {n \in InInbox : label[n].kind = "other"}

(* The clock is read, the files are listed, unexpected names go to failed/,*)
(* and the rest is grouped by trade date.                                  *)
StartPass ==
  /\ pc = "idle" /\ InInbox # {}
  /\ place' = [n \in Files |-> IF n \in Stray THEN "failed" ELSE place[n]]
  /\ IF InInbox = Stray THEN PassOver
     ELSE /\ pc' = "group" /\ pass_now' = now
          /\ listed' = InInbox \ Stray
          /\ todo' = {label[n].date : n \in InInbox \ Stray}
          /\ UNCHANGED <<picked, moving>>
  /\ UNCHANGED <<now, label, mtime, row, saved, faults>>

Current == CHOOSE d \in todo : \A e \in todo : d <= e
Of(kind) ==
  {n \in listed : label[n].date = Current /\ label[n].kind = kind}
Group == Of("json") \cup Of("html")

Age(n) == pass_now - mtime[n]

Newest(S) == {n \in S : \A m \in S : mtime[m] <= mtime[n]}

(* Mutant: only the newest .json has to be stable. *)
JsonUnstable == \E n \in Newest(Of("json")) : Age(n) < Stable

Unstable == \E n \in Group : Age(n) < Stable

(* Mutant: a .json waits for its .html for ever. *)
AlwaysAwaited == Of("json") = {} \/ Of("html") = {}

(* An .html waits for its .json for ever, a .json for its .html for a      *)
(* while.                                                                  *)
CounterpartAwaited ==
  \/ Of("json") = {}
  \/ Of("html") = {} /\ \E n \in Newest(Of("json")) : Age(n) < Grace

NextGroup ==
  IF todo = {Current} THEN PassOver
  ELSE /\ todo' = todo \ {Current}
       /\ pc' = "group" /\ picked' = NoPair /\ moving' = {}
       /\ UNCHANGED <<pass_now, listed>>

GroupWaits ==
  /\ pc = "group"
  /\ Unstable \/ CounterpartAwaited
  /\ NextGroup
  /\ UNCHANGED <<now, fileVars, row, saved, faults>>

Rejected(n) == n # None /\ label[n].quality = "bad"

(* build_brief(): a file that is bad, or cannot be read just now, sends    *)
(* all files of the trade date to failed/.                                 *)
BuildBrief ==
  /\ pc = "group"
  /\ ~Unstable /\ ~CounterpartAwaited
  /\ \E j \in Newest(Of("json")),
        h \in IF Of("html") = {} THEN {None} ELSE Newest(Of("html")) :
       /\ picked' = [json |-> j, html |-> h]
       /\ \/ /\ Rejected(j) \/ Rejected(h)
             /\ pc' = "fail" /\ moving' = Group /\ UNCHANGED faults
          \/ pc' = "fail" /\ moving' = Group /\ Fault
          \/ /\ ~Rejected(j) /\ ~Rejected(h)
             /\ pc' = "save" /\ UNCHANGED <<moving, faults>>
  /\ UNCHANGED <<now, fileVars, row, saved, pass_now, listed, todo>>

Savable(pair) ==
  \A n \in {pair.json, pair.html} \ {None} : label[n].quality # "unsavable"

(* Mutant: the two files are passed to the upsert in the wrong order. *)
RowSwapped ==
  /\ row' = [row EXCEPT ![Current] = [json |-> picked.html,
                                      html |-> picked.json]]
  /\ saved' = saved \cup {picked.json}

(* save_brief(): the row of the trade date is replaced by the upsert.      *)
RowReplaced ==
  /\ row' = [row EXCEPT ![Current] = picked]
  /\ saved' = saved \cup {picked.json}

(* Mutant: the error of a save is logged and the files are moved. *)
MovesAnyway ==
  /\ pc' = "move" /\ moving' = Group
  /\ UNCHANGED <<pass_now, listed, todo, picked>>

(* Mutant: the older files of the trade date stay in the inbox. *)
PickedOnly == {picked.json, picked.html} \ {None}

(* A loaded trade date takes all its listed files along. *)
LoadedFiles == Group

(* The error of a save leaves process_inbox(): poll_once() logs it and     *)
(* the rest of the pass is not made.                                       *)
AfterFailedSave == PassOver

SaveBrief ==
  /\ pc = "save" /\ Savable(picked)
  /\ RowReplaced
  /\ pc' = "move" /\ moving' = LoadedFiles
  /\ UNCHANGED <<now, fileVars, pass_now, listed, todo, picked, faults>>

(* The database cannot be reached, refuses the brief, or commits it        *)
(* without the listener learning of it.                                    *)
SaveFails ==
  /\ pc = "save"
  /\ \/ ~Savable(picked) /\ UNCHANGED <<row, saved, faults>>
     \/ Savable(picked) /\ Fault /\ UNCHANGED <<row, saved>>
     \/ Savable(picked) /\ Fault /\ RowReplaced
  /\ AfterFailedSave
  /\ UNCHANGED <<now, fileVars>>

(* Loaded files leave in this order: the .json, the .html, the older ones. *)
NextToMove ==
  IF pc = "fail" THEN moving
  ELSE IF picked.json \in moving THEN {picked.json}
  ELSE IF picked.html \in moving THEN {picked.html}
  ELSE moving

MoveFile ==
  /\ pc \in {"move", "fail"}
  /\ \E n \in NextToMove :
       /\ place' = [place EXCEPT ![n] = IF pc = "fail" THEN "failed"
                                        ELSE "processed"]
       /\ IF moving = {n} THEN NextGroup
          ELSE /\ moving' = moving \ {n}
               /\ UNCHANGED <<pc, pass_now, listed, todo, picked>>
  /\ UNCHANGED <<now, label, mtime, row, saved, faults>>

(* A file cannot be moved, or the process is killed and started again.     *)
PassBreaksOff ==
  /\ pc # "idle" /\ Fault
  /\ PassOver
  /\ UNCHANGED <<now, fileVars, row, saved>>

-----------------------------------------------------------------------------
Listener ==
  StartPass \/ GroupWaits \/ BuildBrief \/ SaveBrief \/ SaveFails \/ MoveFile

Next ==
  \/ \E n \in Files, d \in Dates, k \in Kinds, q \in Qualities :
       StartDownload(n, d, k, q)
  \/ \E n \in Files : FinishDownload(n)
  \/ Tick
  \/ Listener
  \/ PassBreaksOff

Spec == Init /\ [][Next]_vars

(* A listener that runs polls for ever, time passes, and a download that   *)
(* has begun ends.                                                         *)
FairSpec ==
  /\ Spec
  /\ WF_vars(Listener)
  /\ WF_vars(Tick)
  /\ WF_vars(\E n \in Files : FinishDownload(n))

-----------------------------------------------------------------------------
(* Properties.                                                             *)

IsGoodJson(n) == label[n].kind = "json" /\ label[n].quality = "good"

(* A .json file leaves the inbox for processed/ only when the database has *)
(* it, or has had a newer one of its trade date: whatever fails, no brief  *)
(* is filed away unsaved.                                                  *)
ProcessedIsSaved ==
  \A n \in Files : place[n] = "processed" /\ label[n].kind = "json" =>
    \E m \in saved : /\ label[m].date = label[n].date
                     /\ mtime[m] >= mtime[n]

(* Nothing is read that is still being written: the two files of a row     *)
(* were complete when the pass picked them.                                *)
OnlyFinishedFiles ==
  \A d \in Dates : {row[d].json, row[d].html} \cap Writing = {}

(* As long as nothing has failed, the row of a trade date is never         *)
(* replaced by an older .json file.                                        *)
NewestWinsUndisturbed ==
  [][faults = 0 => \A d \in Dates : row[d].json # None =>
       mtime[row'[d].json] >= mtime[row[d].json]]_vars

(* Every .json file leaves the inbox in the end, however often a pass      *)
(* breaks off, when no brief is refused by the database for good.          *)
JsonSettled ==
  \A n \in Files :
    place[n] = "inbox" /\ label[n].kind = "json" ~> place[n] # "inbox"

=============================================================================
