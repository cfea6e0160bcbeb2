----------------------- MODULE MarketBriefInboxProofs -----------------------
(***************************************************************************)
(* Proofs about MarketBriefInbox, for every number of files, dates and     *)
(* failures and every pair of waiting times.  What keeps a half-written    *)
(* file out is the clock: a file being written carries the time of now,    *)
(* and a pass takes only files older than the time it began.               *)
(***************************************************************************)
EXTENDS MarketBriefInbox, WellFoundedInduction, TLAPS

(* A file that is there and that nobody writes any more. *)
Finished(n) == place[n] \in {"inbox", "processed", "failed"}

(* No file is newer than the clock; one being written is as new; a pass    *)
(* began in the past, and what it did not list has come since.             *)
Clock ==
  /\ pass_now <= now
  /\ \A n \in Files :
       /\ mtime[n] <= now
       /\ place[n] = "writing" => mtime[n] = now
       /\ pc # "idle" /\ n \in InInbox \ listed => pass_now <= mtime[n]

(* What a pass has listed is there, and while it goes on there is a date   *)
(* to do.                                                                  *)
Listing ==
  /\ \A n \in listed : place[n] # "none"
  /\ pc # "idle" => todo # {}

(* Of the group a pass has decided to load all files are finished, and the *)
(* .json file picked is the newest.                                        *)
Picking ==
  pc \in {"save", "move"} =>
    /\ picked.json \in Of("json")
    /\ picked.html # None => picked.html \in Of("html")
    /\ \A n \in Group : Finished(n)
    /\ \A n \in Of("json") : mtime[n] <= mtime[picked.json]
    /\ mtime[picked.json] <= pass_now

Moving ==
  /\ pc = "move" => picked.json \in saved
  /\ pc \in {"move", "fail"} => moving \subseteq Group

(* Files of the groups a pass has not come to, or has not moved yet, are   *)
(* where it found them.                                                    *)
Unmoved ==
  \A n \in listed :
    label[n].date \in todo /\ (pc \in {"move", "fail"} => label[n].date # Current \/ n \in moving)
      => n \in InInbox

SavedFinished == \A n \in saved : Finished(n)

RowsFinished ==
  \A d \in Dates :
    /\ row[d].json # None => Finished(row[d].json)
    /\ row[d].html # None => Finished(row[d].html)

(* As long as nothing has failed no .json file in the inbox is older than  *)
(* the one its row came from, but for those about to be moved away.        *)
Outdated(d, n) == pc = "move" /\ d = Current /\ n \in moving

NoneOlder ==
  faults = 0 =>
    \A d \in Dates : row[d].json # None =>
      \A n \in InInbox : label[n].kind = "json" /\ label[n].date = d =>
        mtime[row[d].json] <= mtime[n] \/ Outdated(d, n)

IInv ==
  /\ TypeOK /\ Clock /\ Listing /\ Picking /\ Moving /\ Unmoved
  /\ SavedFinished /\ RowsFinished /\ ProcessedIsSaved /\ NoneOlder

-----------------------------------------------------------------------------
(* What is unchanged in the group while the pass stays with it.            *)

LEMMA GroupKept ==
  ASSUME UNCHANGED <<listed, todo>>, \A n \in listed : label'[n] = label[n]
  PROVE  /\ Current' = Current
         /\ Of("json")' = Of("json") /\ Of("html")' = Of("html")
         /\ Group' = Group
<1>1. Current' = Current
  BY DEF Current
<1>2. Of("json")' = Of("json") /\ Of("html")' = Of("html")
  BY <1>1 DEF Of
<1> QED
  BY <1>1, <1>2 DEF Group

LEMMA GroupListed ==
  ASSUME TypeOK
  PROVE  /\ Group \subseteq listed /\ Group \subseteq Files
         /\ Of("json") \subseteq Group /\ Of("html") \subseteq Group
         /\ \A n \in Group : label[n].date = Current
         /\ \A n \in Of("json") : label[n].kind = "json"
         /\ \A n \in Of("html") : label[n].kind = "html"
         /\ \A n \in Group : label[n].kind = "json" => n \in Of("json")
  BY DEF TypeOK, Group, Of

(* The current trade date is one of those to do. *)
LEMMA CurrentIs ==
  ASSUME TypeOK, todo # {}
  PROVE  Current \in todo
<1>1. todo \subseteq Nat
  BY InboxAssumption DEF TypeOK, Dates, InboxAssumption
<1>2. IsWellFoundedOn(OpToRel(<, Nat), Nat)
  BY NatLessThanWellFounded
<1>3. PICK d \in todo : \A e \in todo : <<e, d>> \notin OpToRel(<, Nat)
  BY <1>1, <1>2, WFMin
<1>4. \A e \in todo : ~(e < d)
  BY <1>1, <1>3 DEF OpToRel
<1>5. \A e \in todo : d <= e
  BY <1>1, <1>4
<1> QED
  BY <1>5 DEF Current

LEMMA FilesAreNumbers == \A n \in Files : n \in Nat /\ n # None
  BY InboxAssumption DEF InboxAssumption, Files, None

LEMMA Times ==
  /\ MaxTime \in Nat /\ 0 \in 0 .. MaxTime
  /\ MaxFaults \in Nat /\ 0 \in 0 .. MaxFaults
  /\ Stable \in Nat /\ Stable > 0
  BY InboxAssumption DEF InboxAssumption

(* A failure uses up one of the budget. *)
LEMMA FaultTyped ==
  ASSUME faults \in 0 .. MaxFaults, Fault
  PROVE  faults' \in 0 .. MaxFaults /\ faults' # 0
  BY Times DEF Fault

(* A pass that is over keeps nothing of what it was about. *)
LEMMA OverTyped ==
  ASSUME PassOver
  PROVE  /\ pc' = "idle" /\ pass_now' = 0 /\ pass_now' \in 0 .. MaxTime
         /\ listed' = {} /\ todo' = {} /\ moving' = {}
         /\ picked' \in Pair
  BY Times DEF PassOver, NoPair, Pair

(* The next group, or the end of the pass. *)
LEMMA NextGroupTyped ==
  ASSUME TypeOK, NextGroup
  PROVE  /\ pc' \in {"idle", "group"}
         /\ pass_now' \in {0, pass_now} /\ listed' \in {{}, listed}
         /\ pc' = "group" => pass_now' = pass_now /\ listed' = listed
         /\ pc' = "idle" => pass_now' = 0 /\ listed' = {}
         /\ pc' = "group" => todo' = todo \ {Current} /\ todo # {Current}
         /\ todo' \subseteq todo /\ moving' = {} /\ picked' \in Pair
<1>1. CASE PassOver
  BY <1>1, OverTyped
<1>2. CASE ~PassOver
  BY <1>2 DEF NextGroup, NoPair, Pair
<1> QED
  BY <1>1, <1>2

-----------------------------------------------------------------------------
(* Types.                                                                  *)

(* A row keeps files of its own date and kind, as the label of a file that *)
(* is there does not change.                                               *)
LEMMA RowsKept ==
  ASSUME TypeOK, RowsFinished, row' = row,
         \A n \in Files : Finished(n) => label'[n] = label[n]
  PROVE  \A d \in Dates : RowOK(d)'
<1> SUFFICES ASSUME NEW d \in Dates PROVE RowOK(d)'
  OBVIOUS
<1>1. RowOK(d) /\ row[d] \in Pair
  BY DEF TypeOK
<1>2. /\ row[d].json \in Files \cup {None} /\ row[d].html \in Files \cup {None}
      /\ row[d].json # None => Finished(row[d].json)
      /\ row[d].html # None => Finished(row[d].html)
  BY <1>1 DEF Pair, RowsFinished
<1> QED
  BY <1>1, <1>2 DEF RowOK

(* The row of a brief that is saved. *)
LEMMA RowReplacedIs ==
  ASSUME TypeOK, Picking, pc = "save", RowReplaced
  PROVE  /\ picked \in Pair /\ picked.json \in Files /\ picked.json # None
         /\ row' \in [Dates -> Pair]
         /\ \A d \in Dates : row'[d] = IF d = Current THEN picked ELSE row[d]
         /\ saved' = saved \cup {picked.json} /\ saved' \subseteq Files
         /\ Finished(picked.json)
         /\ picked.html # None => Finished(picked.html)
<1>1. picked.json \in Of("json") /\ (picked.html # None => picked.html \in Of("html"))
  BY DEF Picking
<1>2. \A n \in Group : Finished(n)
  BY DEF Picking
<1>3. picked.json \in Files /\ picked.json # None
  BY <1>1, GroupListed, FilesAreNumbers
<1>4. row' = [row EXCEPT ![Current] = picked]
  BY DEF RowReplaced
<1>5. picked \in Pair /\ row \in [Dates -> Pair]
  BY DEF TypeOK
<1>6. row' \in [Dates -> Pair]
      /\ \A d \in Dates : row'[d] = IF d = Current THEN picked ELSE row[d]
  BY <1>4, <1>5
<1> QED
  BY <1>1, <1>2, <1>3, <1>5, <1>6, GroupListed DEF RowReplaced, TypeOK

LEMMA RowReplacedTyped ==
  ASSUME TypeOK, Picking, RowsFinished, pc = "save", RowReplaced, UNCHANGED label
  PROVE  \A d \in Dates : RowOK(d)'
<1> SUFFICES ASSUME NEW d \in Dates PROVE RowOK(d)'
  OBVIOUS
<1>1. CASE d = Current
  <2>1. row'[d] = picked
    BY <1>1, RowReplacedIs
  <2>2. picked.json \in Of("json") /\ (picked.html # None => picked.html \in Of("html"))
    BY DEF Picking
  <2> QED
    BY <1>1, <2>1, <2>2, GroupListed DEF RowOK
<1>2. CASE d # Current
  BY <1>2, RowReplacedIs DEF TypeOK, RowOK
<1> QED
  BY <1>1, <1>2

(* The parts of the type invariant the world changes. *)
LEMMA WorldTyped ==
  ASSUME IInv, UNCHANGED <<row, saved, passVars, faults>>,
         now' \in 0 .. MaxTime,
         place' \in [Files -> {"none", "writing", "inbox", "processed", "failed"}],
         label' \in [Files -> [date : Dates, kind : Kinds, quality : Qualities]],
         mtime' \in [Files -> 0 .. MaxTime],
         \A n \in Files : Finished(n) => label'[n] = label[n]
  PROVE  TypeOK'
<1>1. \A d \in Dates : RowOK(d)'
  BY RowsKept DEF IInv
<1> QED
  BY <1>1 DEF IInv, TypeOK, passVars

(* And those a pass changes when it saves nothing. *)
LEMMA PassTyped ==
  ASSUME IInv, UNCHANGED <<now, label, mtime, row, saved>>,
         place' \in [Files -> {"none", "writing", "inbox", "processed", "failed"}],
         pc' \in {"idle", "group", "save", "move", "fail"},
         pass_now' \in 0 .. MaxTime, listed' \subseteq Files,
         todo' \subseteq Dates, picked' \in Pair, moving' \subseteq Files,
         faults' \in 0 .. MaxFaults
  PROVE  TypeOK'
<1>1. \A d \in Dates : RowOK(d)'
  BY RowsKept DEF IInv
<1> QED
  BY <1>1 DEF IInv, TypeOK

LEMMA TypeStep == IInv /\ [Next]_vars => TypeOK'
<1> SUFFICES ASSUME IInv, [Next]_vars PROVE TypeOK'
  OBVIOUS
<1>t. TypeOK /\ Picking /\ RowsFinished
  BY DEF IInv
<1>p. /\ pass_now \in 0 .. MaxTime /\ listed \subseteq Files /\ todo \subseteq Dates
      /\ picked \in Pair /\ moving \subseteq Files /\ faults \in 0 .. MaxFaults
      /\ pc \in {"idle", "group", "save", "move", "fail"}
      /\ place \in [Files -> {"none", "writing", "inbox", "processed", "failed"}]
      /\ label \in [Files -> [date : Dates, kind : Kinds, quality : Qualities]]
      /\ mtime \in [Files -> 0 .. MaxTime] /\ now \in 0 .. MaxTime
      /\ row \in [Dates -> Pair] /\ saved \subseteq Files
  BY <1>t DEF TypeOK
<1>1. ASSUME NEW n \in Files, NEW d \in Dates, NEW k \in Kinds, NEW q \in Qualities,
             StartDownload(n, d, k, q)
      PROVE  TypeOK'
  <2>1. \A m \in Files : Finished(m) => label'[m] = label[m]
    BY <1>1, <1>p DEF StartDownload, Finished
  <2> QED
    BY <1>1, <1>p, <2>1, WorldTyped DEF StartDownload
<1>2. ASSUME NEW n \in Files, FinishDownload(n) PROVE TypeOK'
  BY <1>2, <1>p, WorldTyped DEF FinishDownload
<1>3. CASE Tick
  <2>1. now' \in 0 .. MaxTime
    BY <1>3, <1>p, Times DEF Tick
  <2>2. mtime' \in [Files -> 0 .. MaxTime]
    BY <1>3, <1>p, <2>1 DEF Tick
  <2> QED
    BY <1>3, <1>p, <2>1, <2>2, WorldTyped DEF Tick
<1>4. CASE StartPass
  <2>1. place' \in [Files -> {"none", "writing", "inbox", "processed", "failed"}]
    BY <1>4, <1>p DEF StartPass
  <2>2. CASE PassOver
    BY <1>4, <1>p, <2>1, <2>2, OverTyped, PassTyped DEF StartPass
  <2>3. CASE ~PassOver
    <3>1. \A n \in Files : label[n].date \in Dates
      BY <1>p
    <3>2. todo' \subseteq Dates /\ listed' \subseteq Files
      BY <1>4, <2>3, <3>1 DEF StartPass, InInbox
    <3> QED
      BY <1>4, <1>p, <2>1, <2>3, <3>2, PassTyped DEF StartPass
  <2> QED
    BY <2>2, <2>3
<1>5. CASE GroupWaits
  BY <1>5, <1>p, <1>t, NextGroupTyped, PassTyped, Times DEF GroupWaits, fileVars
<1>6. CASE BuildBrief
  <2>1. PICK j \in Newest(Of("json")),
             h \in IF Of("html") = {} THEN {None} ELSE Newest(Of("html")) :
          picked' = [json |-> j, html |-> h]
    BY <1>6 DEF BuildBrief
  <2>2. picked' \in Pair
    BY <1>t, <2>1, GroupListed DEF Newest, Pair
  <2>3. /\ pc' \in {"fail", "save"} /\ moving' \subseteq Files
        /\ faults' \in 0 .. MaxFaults
    BY <1>6, <1>t, <1>p, GroupListed, FaultTyped DEF BuildBrief
  <2> QED
    BY <1>6, <1>p, <2>2, <2>3, PassTyped DEF BuildBrief, fileVars
<1>7. CASE SaveBrief
  <2>1. \A d \in Dates : RowOK(d)'
    BY <1>7, <1>t, RowReplacedTyped DEF SaveBrief, fileVars
  <2>2. row' \in [Dates -> Pair] /\ saved' \subseteq Files
    BY <1>7, <1>t, RowReplacedIs DEF SaveBrief
  <2>3. pc' = "move" /\ moving' \subseteq Files
    BY <1>7, <1>t, GroupListed DEF SaveBrief, LoadedFiles
  <2> QED
    BY <1>7, <1>p, <2>1, <2>2, <2>3 DEF SaveBrief, TypeOK, fileVars
<1>8. CASE SaveFails
  <2>0. PassOver /\ pc = "save" /\ UNCHANGED <<now, fileVars>>
    BY <1>8 DEF SaveFails, AfterFailedSave
  <2>f. faults' \in 0 .. MaxFaults
    BY <1>8, <1>p, FaultTyped DEF SaveFails
  <2>1. CASE UNCHANGED <<row, saved>>
    BY <1>p, <2>0, <2>f, <2>1, OverTyped, PassTyped DEF fileVars
  <2>2. CASE RowReplaced
    <3>1. \A d \in Dates : RowOK(d)'
      BY <1>t, <2>0, <2>2, RowReplacedTyped DEF fileVars
    <3>2. row' \in [Dates -> Pair] /\ saved' \subseteq Files
      BY <1>t, <2>0, <2>2, RowReplacedIs
    <3> QED
      BY <1>p, <2>0, <2>f, <3>1, <3>2, OverTyped DEF TypeOK, fileVars
  <2> QED
    BY <1>8, <2>1, <2>2 DEF SaveFails
<1>9. CASE MoveFile
  <2>1. place' \in [Files -> {"none", "writing", "inbox", "processed", "failed"}]
    BY <1>9, <1>p DEF MoveFile
  <2>2. CASE NextGroup
    BY <1>9, <1>p, <1>t, <2>1, <2>2, NextGroupTyped, PassTyped, Times DEF MoveFile
  <2>3. CASE ~NextGroup
    BY <1>9, <1>p, <2>1, <2>3, PassTyped DEF MoveFile
  <2> QED
    BY <2>2, <2>3
<1>10. CASE PassBreaksOff
  BY <1>10, <1>p, OverTyped, FaultTyped, PassTyped DEF PassBreaksOff, fileVars
<1>11. CASE UNCHANGED vars
  BY <1>11, <1>t DEF vars, fileVars, passVars, TypeOK, RowOK
<1> QED
  BY <1>1, <1>2, <1>3, <1>4, <1>5, <1>6, <1>7, <1>8, <1>9, <1>10, <1>11
  DEF Next, Listener

-----------------------------------------------------------------------------
(* What every step keeps of a file.                                        *)

World ==
  \/ \E n \in Files, d \in Dates, k \in Kinds, q \in Qualities :
       StartDownload(n, d, k, q)
  \/ \E n \in Files : FinishDownload(n)
  \/ Tick

InPass ==
  GroupWaits \/ BuildBrief \/ SaveBrief \/ SaveFails \/ MoveFile \/ PassBreaksOff

LEMMA StepIs == [Next]_vars => World \/ StartPass \/ InPass \/ UNCHANGED vars
  BY DEF Next, Listener, World, InPass

LEMMA UnfoldIInv ==
  ASSUME IInv
  PROVE  /\ TypeOK /\ Clock /\ Listing /\ Picking /\ Moving /\ Unmoved
         /\ SavedFinished /\ RowsFinished /\ ProcessedIsSaved /\ NoneOlder
         /\ now \in Nat /\ pass_now \in Nat
         /\ \A n \in Files : mtime[n] \in Nat
         /\ place \in [Files -> {"none", "writing", "inbox", "processed", "failed"}]
         /\ label \in [Files -> [date : Dates, kind : Kinds, quality : Qualities]]
         /\ mtime \in [Files -> 0 .. MaxTime]
<1>1. TypeOK
  BY DEF IInv
<1>2. \A n \in Files : mtime[n] \in 0 .. MaxTime
  BY <1>1 DEF TypeOK
<1>3. now \in 0 .. MaxTime /\ pass_now \in 0 .. MaxTime
  BY <1>1 DEF TypeOK
<1> QED
  BY <1>1, <1>2, <1>3, Times DEF IInv, TypeOK

(* The world adds files and writes at those it is writing. *)
LEMMA WorldStep ==
  ASSUME IInv, World
  PROVE  /\ UNCHANGED <<row, saved, passVars, faults>>
         /\ now' \in Nat /\ now <= now'
         /\ \A n \in Files :
              /\ place[n] # "none" =>
                   /\ place'[n] = place[n] \/ (place[n] = "writing" /\ place'[n] = "inbox")
                   /\ label'[n] = label[n]
              /\ Finished(n) => mtime'[n] = mtime[n]
              /\ mtime'[n] \in Nat /\ mtime[n] <= mtime'[n] /\ mtime'[n] <= now'
              /\ place'[n] = "writing" => mtime'[n] = now'
              /\ place[n] = "none" /\ place'[n] # "none" => mtime'[n] = now'
              /\ place'[n] = place[n] \/ place'[n] \in {"writing", "inbox"}
<1>1. CASE \E n \in Files, d \in Dates, k \in Kinds, q \in Qualities :
             StartDownload(n, d, k, q)
  <2>1. PICK x \in Files : \E d \in Dates, k \in Kinds, q \in Qualities :
               StartDownload(x, d, k, q)
    BY <1>1
  <2> QED
    BY <2>1, UnfoldIInv DEF StartDownload, Clock, Finished
<1>2. CASE \E n \in Files : FinishDownload(n)
  <2>1. PICK x \in Files : FinishDownload(x)
    BY <1>2
  <2> QED
    BY <2>1, UnfoldIInv DEF FinishDownload, Clock, Finished
<1>3. CASE Tick
  BY <1>3, UnfoldIInv DEF Tick, Clock, Finished, Writing
<1> QED
  BY <1>1, <1>2, <1>3 DEF World

(* A pass moves files away, and goes on or is over. *)
LEMMA PassStep ==
  ASSUME IInv, InPass
  PROVE  /\ UNCHANGED <<now, label, mtime>> /\ pc # "idle"
         /\ \A n \in Files :
              place'[n] = place[n] \/ place'[n] \in {"processed", "failed"}
         /\ pass_now' \in {0, pass_now} /\ listed' \in {{}, listed}
         /\ pc' # "idle" => pass_now' = pass_now /\ listed' = listed
<1>1. CASE GroupWaits \/ (MoveFile /\ NextGroup)
  BY <1>1, UnfoldIInv, NextGroupTyped DEF GroupWaits, MoveFile, fileVars
<1>2. CASE BuildBrief
  BY <1>2, UnfoldIInv DEF BuildBrief, fileVars
<1>3. CASE SaveBrief
  BY <1>3, UnfoldIInv DEF SaveBrief, fileVars
<1>4. CASE SaveFails
  BY <1>4, UnfoldIInv, OverTyped DEF SaveFails, AfterFailedSave, fileVars
<1>5. CASE MoveFile /\ ~NextGroup
  BY <1>5, UnfoldIInv DEF MoveFile, fileVars
<1>6. CASE PassBreaksOff
  BY <1>6, UnfoldIInv, OverTyped DEF PassBreaksOff, fileVars
<1> QED
  BY <1>1, <1>2, <1>3, <1>4, <1>5, <1>6 DEF InPass

LEMMA StaysFinished ==
  ASSUME IInv, [Next]_vars, NEW n \in Files
  PROVE  /\ Finished(n) => Finished(n)' /\ mtime'[n] = mtime[n]
         /\ place[n] # "none" => place'[n] # "none" /\ label'[n] = label[n]
<1>1. CASE World
  BY <1>1, WorldStep DEF Finished
<1>2. CASE StartPass
  BY <1>2, UnfoldIInv DEF StartPass, Finished
<1>3. CASE InPass
  BY <1>3, PassStep DEF Finished
<1>4. CASE UNCHANGED vars
  BY <1>4 DEF vars, fileVars, Finished
<1> QED
  BY <1>1, <1>2, <1>3, <1>4, StepIs

(* A row changes only by a save, and a failure leaves its mark. *)
LEMMA RowStep ==
  ASSUME IInv, [Next]_vars
  PROVE  /\ (row' = row /\ saved' = saved) \/ (pc = "save" /\ RowReplaced)
         /\ faults' = 0 => faults = 0
         /\ faults' = 0 /\ row' # row => SaveBrief
<1>0. faults \in 0 .. MaxFaults
  BY UnfoldIInv DEF TypeOK
<1>1. CASE World
  BY <1>1, WorldStep
<1>2. CASE StartPass \/ GroupWaits \/ MoveFile \/ UNCHANGED vars
  BY <1>2 DEF StartPass, GroupWaits, MoveFile, vars
<1>3. CASE SaveBrief
  BY <1>3 DEF SaveBrief
<1>4. CASE BuildBrief
  BY <1>0, <1>4, FaultTyped DEF BuildBrief
<1>5. CASE SaveFails
  BY <1>0, <1>5, FaultTyped DEF SaveFails
<1>6. CASE PassBreaksOff
  BY <1>0, <1>6, FaultTyped DEF PassBreaksOff
<1> QED
  BY <1>1, <1>2, <1>3, <1>4, <1>5, <1>6, StepIs DEF InPass

-----------------------------------------------------------------------------
(* The parts of the invariant.                                             *)

LEMMA ClockStep == IInv /\ [Next]_vars => Clock'
<1> SUFFICES ASSUME IInv, [Next]_vars PROVE Clock'
  OBVIOUS
<1>1. CASE World
  <2>1. ASSUME NEW n \in Files, pc' # "idle", n \in InInbox' \ listed'
        PROVE  pass_now' <= mtime'[n]
    <3>1. CASE place[n] = "none"
      BY <1>1, <2>1, <3>1, WorldStep, UnfoldIInv DEF InInbox, Clock, passVars
    <3>2. CASE place[n] # "none"
      BY <1>1, <2>1, <3>2, WorldStep, UnfoldIInv DEF InInbox, Clock, passVars
    <3> QED
      BY <3>1, <3>2
  <2>2. pass_now' <= now'
    BY <1>1, WorldStep, UnfoldIInv DEF Clock, passVars
  <2> QED
    BY <1>1, <2>1, <2>2, WorldStep DEF Clock
<1>2. CASE StartPass
  <2>1. \A n \in Files : place'[n] = place[n] \/ place'[n] = "failed"
    BY <1>2, UnfoldIInv DEF StartPass
  <2>2. pass_now' <= now'
    BY <1>2, UnfoldIInv, OverTyped DEF StartPass, Clock
  <2>3. ASSUME NEW n \in Files, pc' # "idle", n \in InInbox' \ listed' PROVE FALSE
    <3>1. listed' = InInbox \ Stray
      BY <1>2, <2>3, OverTyped DEF StartPass
    <3> QED
      BY <1>2, <2>3, <3>1, UnfoldIInv DEF StartPass, InInbox, Stray
  <2> QED
    BY <1>2, <2>1, <2>2, <2>3, UnfoldIInv DEF StartPass, Clock
<1>3. CASE InPass
  BY <1>3, PassStep, UnfoldIInv DEF Clock, InInbox
<1>4. CASE UNCHANGED vars
  BY <1>4, UnfoldIInv DEF vars, fileVars, passVars, Clock, InInbox
<1> QED
  BY <1>1, <1>2, <1>3, <1>4, StepIs

LEMMA ListingStep == IInv /\ [Next]_vars => Listing'
<1> SUFFICES ASSUME IInv, [Next]_vars PROVE Listing'
  OBVIOUS
<1>1. ASSUME NEW n \in listed' PROVE place'[n] # "none"
  <2>1. CASE n \in listed
    BY <2>1, StaysFinished, UnfoldIInv DEF Listing, TypeOK
  <2>2. CASE n \notin listed
    <3>1. StartPass
      BY <1>1, <2>2, WorldStep, PassStep, StepIs DEF vars, passVars
    <3> QED
      BY <1>1, <3>1, OverTyped, UnfoldIInv DEF StartPass, InInbox
  <2> QED
    BY <2>1, <2>2
<1>2. ASSUME pc' # "idle" PROVE todo' # {}
  <2>1. CASE World \/ UNCHANGED vars
    BY <1>2, <2>1, WorldStep, UnfoldIInv DEF vars, passVars, Listing
  <2>2. CASE StartPass
    BY <1>2, <2>2, OverTyped DEF StartPass, Stray
  <2>3. CASE GroupWaits \/ MoveFile
    <3>1. todo # {}
      BY <2>3, UnfoldIInv DEF GroupWaits, MoveFile, Listing
    <3>2. UNCHANGED todo \/ NextGroup
      BY <2>3 DEF GroupWaits, MoveFile
    <3> QED
      BY <1>2, <3>1, <3>2, NextGroupTyped, UnfoldIInv
  <2>4. CASE BuildBrief \/ SaveBrief
    BY <2>4, UnfoldIInv DEF BuildBrief, SaveBrief, Listing
  <2>5. CASE SaveFails \/ PassBreaksOff
    BY <1>2, <2>5, OverTyped DEF SaveFails, AfterFailedSave, PassBreaksOff
  <2> QED
    BY <2>1, <2>2, <2>3, <2>4, <2>5, StepIs DEF InPass
<1> QED
  BY <1>1, <1>2 DEF Listing

(* As long as the pass stays with its group, what it picked stays picked. *)
LEMMA GroupStays ==
  ASSUME IInv, [Next]_vars, UNCHANGED <<listed, todo>>
  PROVE  /\ Group' = Group /\ Current' = Current
         /\ Of("json")' = Of("json") /\ Of("html")' = Of("html")
<1>1. \A n \in listed : label'[n] = label[n]
  BY StaysFinished, UnfoldIInv DEF Listing, TypeOK
<1> QED
  BY <1>1, GroupKept

LEMMA PickingKept ==
  ASSUME IInv, [Next]_vars, pc \in {"save", "move"},
         UNCHANGED <<pass_now, listed, todo, picked>>
  PROVE  Picking'
<1>1. Picking
  BY UnfoldIInv
<1>2. \A n \in Group : Finished(n)' /\ mtime'[n] = mtime[n]
  BY <1>1, StaysFinished, UnfoldIInv, GroupListed DEF Picking
<1>3. /\ picked.json \in Of("json")
      /\ picked.html # None => picked.html \in Of("html")
      /\ \A n \in Of("json") : mtime[n] <= mtime[picked.json]
      /\ mtime[picked.json] <= pass_now
  BY <1>1 DEF Picking
<1>4. \A n \in Of("json") : mtime'[n] = mtime[n]
  BY <1>2, UnfoldIInv, GroupListed
<1> QED
  BY <1>2, <1>3, <1>4, GroupStays DEF Picking

(* A file that is being written is not old enough. *)
LEMMA StableFinished ==
  ASSUME IInv, pc # "idle", ~Unstable, NEW n \in Group
  PROVE  Finished(n) /\ mtime[n] <= pass_now
<1>1. n \in Files /\ n \in listed
  BY UnfoldIInv, GroupListed
<1>2. place[n] # "none"
  BY <1>1, UnfoldIInv DEF Listing
<1>3. pass_now - mtime[n] >= Stable
  BY <1>1, UnfoldIInv, Times DEF Unstable, Age
<1>4. place[n] # "writing"
  BY <1>1, <1>3, UnfoldIInv, Times DEF Clock
<1> QED
  BY <1>1, <1>2, <1>3, <1>4, UnfoldIInv, Times DEF Finished

LEMMA BuildStep ==
  ASSUME IInv, BuildBrief, pc' = "save"
  PROVE  Picking'
<1>1. PICK j \in Newest(Of("json")),
           h \in IF Of("html") = {} THEN {None} ELSE Newest(Of("html")) :
        picked' = [json |-> j, html |-> h]
  BY DEF BuildBrief
<1>2. UNCHANGED <<now, place, label, mtime, pass_now, listed, todo>>
  BY DEF BuildBrief, fileVars
<1>3. Of("json")' = Of("json") /\ Of("html")' = Of("html") /\ Group' = Group
  BY <1>2, GroupKept
<1>4. \A n \in Group : Finished(n) /\ mtime[n] <= pass_now
  BY StableFinished DEF BuildBrief
<1>5. j \in Of("json") /\ \A n \in Of("json") : mtime[n] <= mtime[j]
  BY DEF Newest
<1>6. h # None => h \in Of("html")
  BY DEF Newest
<1>7. picked'.json = j /\ picked'.html = h
  BY <1>1
<1>8. mtime[j] <= pass_now
  BY <1>4, <1>5, UnfoldIInv, GroupListed
<1>9. \A n \in Group : Finished(n)'
  BY <1>2, <1>4 DEF Finished
<1> QED
  BY <1>2, <1>3, <1>5, <1>6, <1>7, <1>8, <1>9 DEF Picking

LEMMA SaveBriefIs ==
  ASSUME SaveBrief
  PROVE  /\ pc = "save" /\ pc' = "move" /\ moving' = Group /\ RowReplaced
         /\ UNCHANGED <<now, place, label, mtime, pass_now, listed, todo, picked, faults>>
  BY DEF SaveBrief, LoadedFiles, fileVars

(* The file moved, and what the pass does then. *)
LEMMA MoveFileIs ==
  ASSUME IInv, MoveFile
  PROVE  \E n \in moving :
           /\ pc \in {"move", "fail"} /\ moving \subseteq Group
           /\ place' = [place EXCEPT ![n] = IF pc = "fail" THEN "failed" ELSE "processed"]
           /\ UNCHANGED <<now, label, mtime, row, saved, faults>>
           /\ \/ moving = {n} /\ NextGroup
              \/ moving' = moving \ {n} /\ UNCHANGED <<pc, pass_now, listed, todo, picked>>
<1>1. \A n \in NextToMove : n \in moving
  BY DEF NextToMove
<1>2. pc \in {"move", "fail"} /\ moving \subseteq Group
  BY UnfoldIInv DEF MoveFile, Moving
<1> QED
  BY <1>1, <1>2 DEF MoveFile

LEMMA PickingStep == IInv /\ [Next]_vars => Picking'
<1> SUFFICES ASSUME IInv, [Next]_vars, pc' \in {"save", "move"} PROVE Picking'
  BY DEF Picking
<1>1. CASE pc \in {"save", "move"} /\ UNCHANGED <<pass_now, listed, todo, picked>>
  BY <1>1, PickingKept
<1>2. CASE World \/ UNCHANGED vars
  BY <1>1, <1>2, WorldStep DEF vars, passVars
<1>3. CASE StartPass \/ GroupWaits \/ SaveFails \/ PassBreaksOff
  BY <1>3, OverTyped, NextGroupTyped, UnfoldIInv
  DEF StartPass, GroupWaits, SaveFails, AfterFailedSave, PassBreaksOff
<1>4. CASE BuildBrief
  BY <1>4, BuildStep DEF BuildBrief
<1>5. CASE SaveBrief
  BY <1>1, <1>5, SaveBriefIs
<1>6. CASE MoveFile
  <2>1. NextGroup \/ (pc \in {"move", "fail"}
                     /\ UNCHANGED <<pc, pass_now, listed, todo, picked>>)
    BY <1>6, MoveFileIs
  <2> QED
    BY <1>1, <2>1, NextGroupTyped, UnfoldIInv
<1> QED
  BY <1>2, <1>3, <1>4, <1>5, <1>6, StepIs DEF InPass

LEMMA MovingStep == IInv /\ [Next]_vars => Moving'
<1> SUFFICES ASSUME IInv, [Next]_vars, pc' \in {"move", "fail"} PROVE Moving'
  BY DEF Moving
<1>0. Moving
  BY UnfoldIInv
<1>1. CASE World \/ UNCHANGED vars
  BY <1>0, <1>1, WorldStep, GroupStays DEF vars, passVars, Moving
<1>2. CASE StartPass \/ GroupWaits \/ SaveFails \/ PassBreaksOff
  BY <1>2, OverTyped, NextGroupTyped, UnfoldIInv
  DEF StartPass, GroupWaits, SaveFails, AfterFailedSave, PassBreaksOff
<1>3. CASE BuildBrief
  <2>1. pc' = "fail" /\ moving' = Group /\ UNCHANGED <<listed, todo>>
    BY <1>3 DEF BuildBrief
  <2> QED
    BY <2>1, GroupStays DEF Moving
<1>4. CASE SaveBrief
  BY <1>4, SaveBriefIs, GroupStays DEF Moving, RowReplaced
<1>5. CASE MoveFile
  <2>1. UNCHANGED saved /\ moving' \subseteq moving /\ UNCHANGED <<pc, listed, todo, picked>>
    BY <1>5, MoveFileIs, NextGroupTyped, UnfoldIInv
  <2> QED
    BY <1>0, <2>1, GroupStays DEF Moving
<1> QED
  BY <1>1, <1>2, <1>3, <1>4, <1>5, StepIs DEF InPass

LEMMA UnmovedStep == IInv /\ [Next]_vars => Unmoved'
<1> SUFFICES ASSUME IInv, [Next]_vars, NEW n \in listed', label'[n].date \in todo',
                    pc' \in {"move", "fail"} => label'[n].date # Current' \/ n \in moving'
             PROVE  n \in InInbox'
  BY DEF Unmoved
<1>0. \A m \in listed :
        label[m].date \in todo /\ (pc \in {"move", "fail"} => label[m].date # Current \/ m \in moving)
          => m \in InInbox
  BY UnfoldIInv DEF Unmoved
<1>1. CASE World \/ UNCHANGED vars
  <2>1. UNCHANGED <<pc, listed, todo, moving>> /\ Current' = Current
    BY <1>1, WorldStep, GroupStays DEF vars, passVars
  <2>2. n \in Files /\ label'[n] = label[n]
    BY <2>1, StaysFinished, UnfoldIInv DEF Listing, TypeOK
  <2>3. n \in InInbox
    BY <1>0, <2>1, <2>2
  <2> QED
    BY <1>1, <2>2, <2>3, WorldStep DEF InInbox, vars, fileVars
<1>2. CASE StartPass
  BY <1>2, OverTyped, UnfoldIInv DEF StartPass, InInbox
<1>3. CASE GroupWaits
  <2>1. n \in listed /\ label[n].date \in todo /\ pc = "group" /\ UNCHANGED place
    BY <1>3, NextGroupTyped, UnfoldIInv DEF GroupWaits, fileVars
  <2> QED
    BY <1>0, <2>1 DEF InInbox
<1>4. CASE BuildBrief \/ SaveBrief
  <2>1. n \in listed /\ label[n].date \in todo /\ pc \in {"group", "save"} /\ UNCHANGED place
    BY <1>4 DEF BuildBrief, SaveBrief, fileVars
  <2> QED
    BY <1>0, <2>1 DEF InInbox
<1>5. CASE SaveFails \/ PassBreaksOff
  BY <1>5, OverTyped DEF SaveFails, AfterFailedSave, PassBreaksOff
<1>6. CASE MoveFile
  <2>1. PICK x \in moving :
          /\ pc \in {"move", "fail"} /\ moving \subseteq Group
          /\ place' = [place EXCEPT ![x] = IF pc = "fail" THEN "failed" ELSE "processed"]
          /\ UNCHANGED label
          /\ \/ moving = {x} /\ NextGroup
             \/ moving' = moving \ {x} /\ UNCHANGED <<pc, listed, todo>>
    BY <1>6, MoveFileIs
  <2>2. label[x].date = Current
    BY <2>1, UnfoldIInv, GroupListed
  <2>3. n # x /\ n \in InInbox
    <3>1. CASE NextGroup
      BY <1>0, <2>1, <2>2, <3>1, NextGroupTyped, UnfoldIInv
    <3>2. CASE moving' = moving \ {x} /\ UNCHANGED <<pc, listed, todo>>
      <4>1. Current' = Current
        BY <3>2, GroupStays
      <4> QED
        BY <1>0, <2>1, <2>2, <3>2, <4>1
    <3> QED
      BY <2>1, <3>1, <3>2
  <2> QED
    BY <2>1, <2>3, UnfoldIInv DEF InInbox
<1> QED
  BY <1>1, <1>2, <1>3, <1>4, <1>5, <1>6, StepIs DEF InPass

LEMMA FinishedStep == IInv /\ [Next]_vars => SavedFinished' /\ RowsFinished'
<1> SUFFICES ASSUME IInv, [Next]_vars PROVE SavedFinished' /\ RowsFinished'
  OBVIOUS
<1>1. \A n \in Files : Finished(n) => Finished(n)'
  BY StaysFinished
<1>2. /\ saved \subseteq Files /\ \A n \in saved : Finished(n)
      /\ row \in [Dates -> Pair]
      /\ \A d \in Dates : /\ row[d].json # None => Finished(row[d].json)
                          /\ row[d].html # None => Finished(row[d].html)
  BY UnfoldIInv DEF TypeOK, SavedFinished, RowsFinished
<1>3. CASE row' = row /\ saved' = saved
  BY <1>1, <1>2, <1>3 DEF SavedFinished, RowsFinished, Pair
<1>4. CASE pc = "save" /\ RowReplaced
  <2>1. /\ picked \in Pair /\ saved' = saved \cup {picked.json}
        /\ \A d \in Dates : row'[d] = IF d = Current THEN picked ELSE row[d]
        /\ picked.json \in Files /\ Finished(picked.json)
        /\ picked.html # None => Finished(picked.html)
    BY <1>4, RowReplacedIs, UnfoldIInv
  <2> QED
    BY <1>1, <1>2, <2>1 DEF SavedFinished, RowsFinished, Pair
<1> QED
  BY <1>3, <1>4, RowStep

LEMMA ProcessedStep == IInv /\ [Next]_vars => ProcessedIsSaved'
<1> SUFFICES ASSUME IInv, [Next]_vars, NEW n \in Files,
                    place'[n] = "processed", label'[n].kind = "json"
             PROVE  \E m \in saved' : /\ label'[m].date = label'[n].date
                                      /\ mtime'[m] >= mtime'[n]
  BY DEF ProcessedIsSaved
<1>s. saved \subseteq saved' /\ saved \subseteq Files
  BY RowStep, UnfoldIInv DEF RowReplaced, TypeOK
<1>k. \A m \in saved : label'[m] = label[m] /\ mtime'[m] = mtime[m]
  BY <1>s, StaysFinished, UnfoldIInv DEF SavedFinished, Finished
<1>1. CASE place[n] = "processed"
  <2>1. label'[n] = label[n] /\ mtime'[n] = mtime[n]
    BY <1>1, StaysFinished DEF Finished
  <2>2. PICK m \in saved : label[m].date = label[n].date /\ mtime[m] >= mtime[n]
    BY <1>1, <2>1, UnfoldIInv DEF ProcessedIsSaved
  <2> QED
    BY <1>s, <1>k, <2>1, <2>2
<1>2. CASE place[n] # "processed"
  <2>1. MoveFile
    <3>1. CASE World
      BY <1>2, <3>1, WorldStep
    <3>2. CASE StartPass
      BY <1>2, <3>2, UnfoldIInv DEF StartPass
    <3>3. CASE InPass
      BY <1>2, <3>3 DEF InPass, GroupWaits, BuildBrief, SaveBrief, SaveFails,
                        PassBreaksOff, fileVars
    <3>4. CASE UNCHANGED vars
      BY <1>2, <3>4 DEF vars, fileVars
    <3> QED
      BY <3>1, <3>2, <3>3, <3>4, StepIs
  <2>2. pc = "move" /\ n \in moving /\ UNCHANGED <<label, mtime, saved>>
    BY <1>2, <2>1, MoveFileIs, UnfoldIInv
  <2>3. n \in Group /\ picked.json \in saved
    BY <2>2, UnfoldIInv DEF Moving
  <2>4. n \in Of("json") /\ picked.json \in Of("json")
    BY <2>2, <2>3, UnfoldIInv, GroupListed DEF Picking
  <2>5. mtime[n] <= mtime[picked.json]
    BY <2>2, <2>4, UnfoldIInv DEF Picking
  <2>6. label[picked.json].date = label[n].date
    BY <2>4, UnfoldIInv, GroupListed
  <2>7. mtime[n] \in Nat /\ mtime[picked.json] \in Nat
    BY <2>4, UnfoldIInv, GroupListed
  <2> QED
    BY <2>2, <2>3, <2>5, <2>6, <2>7
<1> QED
  BY <1>1, <1>2

(* A file in the inbox after a step was there before, as old or older; or  *)
(* it has just come.                                                       *)
LEMMA InboxStep ==
  ASSUME IInv, [Next]_vars, NEW n \in InInbox'
  PROVE  /\ n \in Files /\ mtime'[n] \in Nat
         /\ \/ n \in InInbox /\ label'[n] = label[n] /\ mtime[n] <= mtime'[n]
            \/ World /\ mtime'[n] = now' /\ now <= now'
<1>0. n \in Files
  BY DEF InInbox
<1>1. CASE World
  BY <1>0, <1>1, WorldStep, UnfoldIInv DEF InInbox
<1>2. CASE StartPass
  BY <1>0, <1>2, UnfoldIInv DEF StartPass, InInbox
<1>3. CASE InPass
  BY <1>0, <1>3, PassStep, UnfoldIInv DEF InInbox
<1>4. CASE UNCHANGED vars
  BY <1>0, <1>4, UnfoldIInv DEF InInbox, vars, fileVars
<1> QED
  BY <1>1, <1>2, <1>3, <1>4, StepIs

(* What a step leaves of the files about to be moved away. *)
LEMMA OutdatedStep ==
  ASSUME IInv, [Next]_vars, faults' = 0, NEW d \in Dates, NEW n \in Files,
         Outdated(d, n), n \in InInbox'
  PROVE  Outdated(d, n)'
<1>1. pc = "move" /\ d = Current /\ n \in moving
  BY DEF Outdated
<1>2. ASSUME UNCHANGED <<pc, todo>>, n \in moving' PROVE Outdated(d, n)'
  BY <1>1, <1>2 DEF Outdated, Current
<1>3. CASE World \/ UNCHANGED vars
  BY <1>1, <1>2, <1>3, WorldStep DEF vars, passVars
<1>4. CASE MoveFile
  <2>1. PICK x \in moving :
          /\ place' = [place EXCEPT ![x] = IF pc = "fail" THEN "failed" ELSE "processed"]
          /\ \/ moving = {x}
             \/ moving' = moving \ {x} /\ UNCHANGED <<pc, todo>>
    BY <1>4, MoveFileIs
  <2>2. n # x
    BY <1>1, <2>1, UnfoldIInv DEF InInbox
  <2> QED
    BY <1>1, <1>2, <2>1, <2>2
<1>5. CASE PassBreaksOff
  BY <1>5, FaultTyped, UnfoldIInv DEF PassBreaksOff, TypeOK
<1>6. CASE StartPass \/ GroupWaits \/ BuildBrief \/ SaveBrief \/ SaveFails
  BY <1>1, <1>6 DEF StartPass, GroupWaits, BuildBrief, SaveBrief, SaveFails
<1> QED
  BY <1>3, <1>4, <1>5, <1>6, StepIs DEF InPass

LEMMA NoneOlderStep == IInv /\ [Next]_vars => NoneOlder'
<1> SUFFICES ASSUME IInv, [Next]_vars, faults' = 0, NEW d \in Dates,
                    row'[d].json # None, NEW n \in InInbox',
                    label'[n].kind = "json", label'[n].date = d
             PROVE  mtime'[row'[d].json] <= mtime'[n] \/ Outdated(d, n)'
  BY DEF NoneOlder
<1>0. faults = 0 /\ n \in Files /\ row \in [Dates -> Pair]
  BY RowStep, InboxStep, UnfoldIInv DEF TypeOK
<1>1. CASE row' = row
  <2>1. row[d].json \in Files /\ Finished(row[d].json)
    BY <1>0, <1>1, UnfoldIInv DEF Pair, RowsFinished
  <2>2. mtime'[row[d].json] = mtime[row[d].json] /\ mtime[row[d].json] \in Nat
        /\ mtime[row[d].json] <= now
    BY <2>1, StaysFinished, UnfoldIInv DEF Clock
  <2>3. CASE World /\ mtime'[n] = now' /\ now <= now'
    BY <1>1, <2>2, <2>3, WorldStep, UnfoldIInv
  <2>4. CASE n \in InInbox /\ label'[n] = label[n] /\ mtime[n] <= mtime'[n]
    <3>1. mtime[row[d].json] <= mtime[n] \/ Outdated(d, n)
      BY <1>0, <1>1, <2>4, UnfoldIInv DEF NoneOlder
    <3>2. CASE mtime[row[d].json] <= mtime[n]
      <4>1. mtime[n] \in Nat /\ mtime'[n] \in Nat
        BY <1>0, UnfoldIInv, InboxStep
      <4> QED
        BY <1>1, <2>2, <2>4, <3>2, <4>1
    <3>3. CASE Outdated(d, n)
      BY <1>0, <3>3, OutdatedStep
    <3> QED
      BY <3>1, <3>2, <3>3
  <2> QED
    BY <2>3, <2>4, InboxStep
<1>2. CASE row' # row
  <2>1. SaveBrief /\ pc = "save" /\ pc' = "move" /\ moving' = Group
        /\ RowReplaced
        /\ UNCHANGED <<place, label, mtime, pass_now, listed, todo>>
    BY <1>2, RowStep, SaveBriefIs
  <2>2. Current' = Current /\ InInbox' = InInbox
    BY <2>1, GroupKept DEF InInbox
  <2>3. \A e \in Dates : row'[e] = IF e = Current THEN picked ELSE row[e]
    BY <2>1, RowReplacedIs, UnfoldIInv
  <2>4. CASE d # Current
    BY <1>0, <2>1, <2>2, <2>3, <2>4, UnfoldIInv DEF NoneOlder, Outdated
  <2>5. CASE d = Current /\ n \in listed
    <3>1. n \in Group
      BY <2>1, <2>5 DEF Group, Of
    <3> QED
      BY <2>1, <2>2, <2>5, <3>1 DEF Outdated
  <2>6. CASE d = Current /\ n \notin listed
    <3>1. pass_now <= mtime[n]
      BY <1>0, <2>1, <2>2, <2>6, UnfoldIInv DEF Clock
    <3>2. mtime[picked.json] <= pass_now /\ picked.json \in Files
      BY <2>1, UnfoldIInv, RowReplacedIs DEF Picking
    <3>3. mtime[picked.json] \in Nat /\ mtime[n] \in Nat
      BY <1>0, <3>2, UnfoldIInv
    <3> QED
      BY <2>1, <2>3, <2>6, <3>1, <3>2, <3>3, UnfoldIInv
  <2> QED
    BY <2>4, <2>5, <2>6
<1> QED
  BY <1>1, <1>2

LEMMA InitIInv == Init => IInv
<1> SUFFICES ASSUME Init PROVE IInv
  OBVIOUS
<1>1. PICK q \in Qualities :
        label = [n \in Files |-> [date |-> 1, kind |-> "json", quality |-> q]]
  BY DEF Init
<1>2. 1 \in Dates /\ "json" \in Kinds
  BY InboxAssumption DEF InboxAssumption, Dates, Kinds
<1>3. NoPair \in Pair /\ NoPair.json = None /\ NoPair.html = None
  BY DEF NoPair, Pair
<1>4. TypeOK
  BY <1>1, <1>2, <1>3, Times DEF Init, TypeOK, RowOK
<1>5. Clock /\ Listing /\ Picking /\ Moving /\ Unmoved /\ SavedFinished
  BY DEF Init, Clock, Listing, Picking, Moving, Unmoved, SavedFinished
<1>6. RowsFinished /\ ProcessedIsSaved /\ NoneOlder
  BY <1>3 DEF Init, RowsFinished, ProcessedIsSaved, NoneOlder
<1> QED
  BY <1>4, <1>5, <1>6 DEF IInv

-----------------------------------------------------------------------------
(* The theorems.                                                           *)

(* The inductive invariant. *)
THEOREM SpecIInv == Spec => []IInv
<1>1. IInv /\ [Next]_vars => IInv'
  BY TypeStep, ClockStep, ListingStep, PickingStep, MovingStep, UnmovedStep,
     FinishedStep, ProcessedStep, NoneOlderStep DEF IInv
<1> QED
  BY InitIInv, <1>1, PTL DEF Spec

(* The variables keep their types, a row has files of its own date. *)
THEOREM SpecTypeOK == Spec => []TypeOK
<1>1. IInv => TypeOK
  BY DEF IInv
<1> QED
  BY SpecIInv, <1>1, PTL

(* No brief is filed away unsaved, whatever fails and whenever the pass is *)
(* broken off: process_inbox() moves a group only after its save.          *)
THEOREM SpecProcessedIsSaved == Spec => []ProcessedIsSaved
<1>1. IInv => ProcessedIsSaved
  BY DEF IInv
<1> QED
  BY SpecIInv, <1>1, PTL

(* No file is loaded that a browser is still writing, for every pair of    *)
(* waiting times.                                                          *)
THEOREM SpecOnlyFinishedFiles == Spec => []OnlyFinishedFiles
<1>1. IInv => OnlyFinishedFiles
  BY FilesAreNumbers DEF IInv, RowsFinished, OnlyFinishedFiles, Writing, Finished
<1> QED
  BY SpecIInv, <1>1, PTL

(* As long as nothing has failed a row is replaced only by a brief as new  *)
(* or newer.                                                               *)
THEOREM SpecNewestWins == Spec => NewestWinsUndisturbed
<1> DEFINE A == faults = 0 => \A d \in Dates : row[d].json # None =>
                  mtime[row'[d].json] >= mtime[row[d].json]
<1>1. ASSUME IInv, [Next]_vars, faults = 0, NEW d \in Dates, row[d].json # None
      PROVE  mtime[row'[d].json] >= mtime[row[d].json]
  <2>0. row \in [Dates -> Pair]
    BY <1>1, UnfoldIInv DEF TypeOK
  <2>1. row[d].json \in Files /\ mtime[row[d].json] \in Nat
    BY <1>1, <2>0, UnfoldIInv DEF Pair
  <2>2. CASE row'[d] = row[d]
    BY <2>1, <2>2
  <2>3. CASE row'[d] # row[d]
    <3>1. pc = "save" /\ RowReplaced
      BY <1>1, <2>3, RowStep
    <3>2. d = Current /\ row'[d] = picked /\ picked.json \in Files
      BY <1>1, <2>3, <3>1, RowReplacedIs, UnfoldIInv
    <3>3. picked.json \in Of("json")
      BY <1>1, <3>1, UnfoldIInv DEF Picking
    <3>4. picked.json \in listed /\ label[picked.json].kind = "json"
          /\ label[picked.json].date = d
      BY <3>2, <3>3 DEF Of
    <3>5. picked.json \in InInbox
      <4>1. pc # "idle" /\ todo # {}
        BY <1>1, <3>1, UnfoldIInv DEF Listing
      <4>2. Current \in todo
        BY <1>1, <4>1, UnfoldIInv, CurrentIs
      <4> QED
        BY <1>1, <3>1, <3>2, <3>4, <4>2, UnfoldIInv DEF Unmoved
    <3>6. mtime[row[d].json] <= mtime[picked.json]
      BY <1>1, <3>1, <3>4, <3>5, UnfoldIInv DEF NoneOlder, Outdated
    <3> QED
      BY <1>1, <2>1, <3>2, <3>6, UnfoldIInv
  <2> QED
    BY <2>2, <2>3
<1>2. IInv /\ [Next]_vars => [A]_vars
  BY <1>1
<1> QED
  BY SpecIInv, <1>2, PTL DEF Spec, NewestWinsUndisturbed


=============================================================================
