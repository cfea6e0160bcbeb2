---------------------- MODULE CorporateActionsProofs ----------------------
(***************************************************************************)
(* Proofs about CorporateActions, for every set of securities, ex-dates    *)
(* and ratios and every bound.  The inductive invariant relates the open   *)
(* transaction to the tables and the windows asked for to what is stored.  *)
(***************************************************************************)
EXTENDS CorporateActions, FiniteSetTheorems, TLAPS

(* A day asked for is no later than the cycle's, and no exchange is ahead. *)
Windows ==
  /\ step = "idle" => todo = {}
  /\ \A e \in Exchanges : prices[e] <= today
  /\ \A e \in todo : from[e] <= today

(* What the run of the current exchange holds on its way to the commit. *)
Transaction ==
  /\ step \in {"persist", "reconcile"} => outcome = "SUCCESS"
  /\ step = "persist" => rows = Answer(Current)
  /\ step = "reconcile" =>
       /\ rows = [k \in Keys |-> IF k[1] \in listed[Current]
                                 THEN Answer(Current)[k] ELSE None]
       /\ staged = Upserted(Current, rows)

(* A key that must be stored once its day has been asked for. *)
Live(e, k) == Settled(e, k) /\ k \notin excused[e]

(* The first day an exchange has not been asked for. *)
Bound(e) == IF e \in todo THEN from[e] ELSE today + 1

(* What was asked for is stored; at the end of a run its window too. *)
Stored ==
  /\ \A e \in Exchanges : \A k \in Keys :
       k[2] < Bound(e) /\ Live(e, k) => raw[e][k] = published[e][k]
  /\ step = "record" => \A k \in Window(Current) :
       Live(Current, k) => raw[Current][k] = published[Current][k]

(* The windows of the SUCCESS rows, and the one that is about to be one.   *)
Recorded ==
  /\ \A w \in metadata : w[3] <= today
  /\ RecordIsTruthful
  /\ step = "record" /\ outcome = "SUCCESS" => \A k \in Window(Current) :
       Settled(Current, k) => raw[Current][k] = published[Current][k]

-----------------------------------------------------------------------------
(* Typing.                                                                 *)

LEMMA KeyTyped == ASSUME NEW k \in Keys PROVE k[2] \in Int /\ k[2] >= 1 /\ k[2] <= LastDay
<1>1. k[2] \in ExDates
  BY DEF Keys
<1>2. LastDay \in Int /\ ExDates \subseteq 1 .. LastDay
  BY CorporateActionsAssumption DEF Days, CorporateActionsAssumption
<1> QED
  <2> DEFINE d == k[2]
  <2>1. d \in 1 .. LastDay
    BY <1>1, <1>2
  <2> HIDE DEF d
  <2>2. d \in Int /\ d >= 1 /\ d <= LastDay
    BY <1>2, <2>1
  <2> QED
    BY <2>2 DEF d

LEMMA CurrentTyped == Current \in Exchanges
  BY DEF Current, Exchanges

LEMMA CurrentInTodo ==
  ASSUME todo \subseteq Exchanges, todo # {} PROVE Current \in todo
  BY DEF Current, Exchanges

LEMMA NoneTyped == NoKeys \in [Keys -> Texts \cup {None}]
  BY DEF NoKeys

LEMMA AnswerTyped ==
  ASSUME TypeOK, NEW e \in Exchanges
  PROVE  Answer(e) \in [Keys -> Texts \cup {None}]
  BY DEF TypeOK, Answer

LEMMA ResolvedTyped ==
  ASSUME TypeOK, NEW e \in Exchanges
  PROVE  Resolved(e) \in [Keys -> Texts \cup {None}]
  BY DEF TypeOK, Resolved

LEMMA UpsertedTyped ==
  ASSUME TypeOK, NEW e \in Exchanges, NEW new \in [Keys -> Texts \cup {None}]
  PROVE  Upserted(e, new) \in [Exchanges -> [Keys -> Texts \cup {None}]]
  BY DEF TypeOK, Upserted

(* A reconciled row has a status and the factor of one of the two. *)
LEMMA ReconciledTyped ==
  ASSUME NEW n \in Texts \cup {None}, NEW b \in Texts \cup {None}
  PROVE  Reconciled(n, b) \in Rows \cup {None}
  BY SMT DEF Reconciled, Rows, Statuses, Factor, Texts

(* What an upsert leaves in the table. *)
LEMMA UpsertedIs ==
  ASSUME TypeOK, NEW e \in Exchanges, NEW new \in [Keys -> Texts \cup {None}],
         NEW x \in Exchanges, NEW k \in Keys
  PROVE  Upserted(e, new)[x][k] =
           IF x = e /\ new[k] # None THEN new[k] ELSE raw[x][k]
  BY DEF TypeOK, Upserted

(* What the two endings of a run do to the history. *)
LEMMA HistoryIs ==
  ASSUME TypeOK, NEW e \in Exchanges, NEW x \in Exchanges
  PROVE  /\ Asked(e) =>
              /\ changed'[x] = IF x = e THEN changed[x] \ Window(e) ELSE changed[x]
              /\ excused'[x] = IF x = e THEN excused[x] \ Window(e) ELSE excused[x]
         /\ NotAsked(e) =>
              /\ changed' = changed
              /\ excused'[x] = IF x = e THEN excused[x] \cup Window(e) ELSE excused[x]
  BY DEF TypeOK, Asked, NotAsked

LEMMA HistoryTyped ==
  ASSUME TypeOK, [Next]_vars
  PROVE  /\ changed' \in [Exchanges -> SUBSET Keys]
         /\ excused' \in [Exchanges -> SUBSET Keys]
<1>a. ASSUME Asked(Current) \/ NotAsked(Current)
      PROVE  /\ changed' \in [Exchanges -> SUBSET Keys]
             /\ excused' \in [Exchanges -> SUBSET Keys]
  <2> DEFINE e == Current
             W == Window(e)
  <2>1. e \in Exchanges /\ W \subseteq Keys
    BY CurrentTyped DEF Window
  <2>2. \/ /\ changed' = [changed EXCEPT ![e] = @ \ W]
           /\ excused' = [excused EXCEPT ![e] = @ \ W]
        \/ /\ excused' = [excused EXCEPT ![e] = @ \cup W]
           /\ changed' = changed
    BY <1>a DEF Asked, NotAsked
  <2> HIDE DEF e, W
  <2>3. ASSUME NEW f \in [Exchanges -> SUBSET Keys]
        PROVE  /\ [f EXCEPT ![e] = @ \ W] \in [Exchanges -> SUBSET Keys]
               /\ [f EXCEPT ![e] = @ \cup W] \in [Exchanges -> SUBSET Keys]
    BY <2>1
  <2>4. changed \in [Exchanges -> SUBSET Keys] /\ excused \in [Exchanges -> SUBSET Keys]
    BY DEF TypeOK
  <2>5. /\ [changed EXCEPT ![e] = @ \ W] \in [Exchanges -> SUBSET Keys]
        /\ [excused EXCEPT ![e] = @ \ W] \in [Exchanges -> SUBSET Keys]
        /\ [excused EXCEPT ![e] = @ \cup W] \in [Exchanges -> SUBSET Keys]
    BY <2>3, <2>4
  <2> QED
    BY <2>2, <2>4, <2>5
<1>1. CASE Request
  BY <1>1, <1>a DEF Request, TypeOK
<1>2. CASE PersistRaw
  BY <1>2, <1>a DEF PersistRaw, Fails, TypeOK
<1>3. CASE Reconcile
  BY <1>3, <1>a DEF Reconcile, Fails
<1>4. CASE Crash
  BY <1>4 DEF Crash, TypeOK, Window
<1>5. ASSUME NEW e \in Exchanges, NEW k \in Keys, NEW t \in Texts \cup {None},
             Publish(e, k, t)
      PROVE  /\ changed' \in [Exchanges -> SUBSET Keys]
             /\ excused' \in [Exchanges -> SUBSET Keys]
  BY <1>5 DEF Publish, TypeOK
<1>6. ASSUME NEW e \in Exchanges, NEW i \in Isins, Relist(e, i)
      PROVE  /\ changed' \in [Exchanges -> SUBSET Keys]
             /\ excused' \in [Exchanges -> SUBSET Keys]
  BY <1>6 DEF Relist, TypeOK
<1> QED
  BY <1>1, <1>2, <1>3, <1>4, <1>5, <1>6
     DEF Next, StartCycle, Record, vars, TypeOK

-----------------------------------------------------------------------------
LEMMA InitTyped == Init => TypeOK
<1> SUFFICES ASSUME Init PROVE TypeOK
  OBVIOUS
<1> USE DEF Init
<1>1. /\ published \in [Exchanges -> [Keys -> Texts \cup {None}]]
      /\ rows \in [Keys -> Texts \cup {None}]
      /\ staged \in [Exchanges -> [Keys -> Texts \cup {None}]]
      /\ raw \in [Exchanges -> [Keys -> Texts \cup {None}]]
  BY NoneTyped
<1>2. canonical \in [Keys -> Rows \cup {None}]
  BY DEF NoKeys
<1>3. /\ today \in 0 .. LastDay /\ prices \in [Exchanges -> 0 .. LastDay]
      /\ from \in [Exchanges -> 1 .. LastDay + 1]
      /\ news \in 0 .. MaxNews /\ faults \in 0 .. MaxFaults
  BY CorporateActionsAssumption, SMT DEF CorporateActionsAssumption
<1> QED
  BY <1>1, <1>2, <1>3 DEF TypeOK, Steps

(* TypeOK without the variables a step leaves alone is kept by it. *)
LEMMA StepTyped ==
  ASSUME TypeOK, Windows, Transaction, [Next]_vars
  PROVE  TypeOK'
<1>h. /\ changed' \in [Exchanges -> SUBSET Keys]
      /\ excused' \in [Exchanges -> SUBSET Keys]
  BY HistoryTyped
<1>1. ASSUME NEW e \in Exchanges, NEW k \in Keys, NEW t \in Texts \cup {None},
             Publish(e, k, t)
      PROVE  TypeOK'
  <2>1. published' \in [Exchanges -> [Keys -> Texts \cup {None}]]
    BY <1>1 DEF Publish, TypeOK
  <2>2. news' \in 0 .. MaxNews
    BY <1>1, CorporateActionsAssumption DEF Publish, TypeOK, CorporateActionsAssumption
  <2> QED
    BY <1>h, <1>1, <2>1, <2>2 DEF Publish, TypeOK, worldVars, runVars, tables
<1>2. ASSUME NEW e \in Exchanges, NEW i \in Isins, Relist(e, i)
      PROVE  TypeOK'
  <2>1. listed' \in [Exchanges -> SUBSET Isins]
    BY <1>2 DEF Relist, TypeOK
  <2>2. news' \in 0 .. MaxNews
    BY <1>2, CorporateActionsAssumption DEF Relist, TypeOK, CorporateActionsAssumption
  <2> QED
    BY <1>h, <1>2, <2>1, <2>2 DEF Relist, TypeOK, worldVars, runVars, tables
<1>3. ASSUME NEW d \in Days, StartCycle(d)
      PROVE  TypeOK'
  <2>1. todo' \subseteq Exchanges /\ todo' # {} /\ step' = "request"
    BY <1>3 DEF StartCycle
  <2>2. today' \in 0 .. LastDay /\ prices' \in [Exchanges -> 0 .. LastDay]
    BY <1>3, CorporateActionsAssumption DEF StartCycle, Days, CorporateActionsAssumption
  <2>3. from' \in [Exchanges -> 1 .. LastDay + 1]
    <3>1. PICK fresh \in {prices, NoFreshness} :
            from' = [e \in Exchanges |->
                      IF e \in todo' THEN IncrementalStart(fresh[e]) ELSE 1]
      BY <1>3 DEF StartCycle
    <3>2. \A e \in Exchanges : fresh[e] + 1 \in 1 .. LastDay + 1
      BY CorporateActionsAssumption DEF TypeOK, NoFreshness, CorporateActionsAssumption
    <3>3. 1 \in 1 .. LastDay + 1
      BY CorporateActionsAssumption DEF CorporateActionsAssumption
    <3> QED
      BY <3>1, <3>2, <3>3 DEF IncrementalStart
  <2>4. faults' \in 0 .. MaxFaults
    BY <1>3, CorporateActionsAssumption
       DEF StartCycle, Fault, NoFault, TypeOK, CorporateActionsAssumption
  <2> QED
    BY <1>h, <1>3, <2>1, <2>2, <2>3, <2>4
       DEF StartCycle, TypeOK, Steps, worldVars, runVars, tables
<1>4. ASSUME Request PROVE TypeOK'
  <2>1. rows' \in [Keys -> Texts \cup {None}]
    BY <1>4, AnswerTyped, CurrentTyped, NoneTyped DEF Request
  <2>2. faults' \in 0 .. MaxFaults
    BY <1>4, CorporateActionsAssumption
       DEF Request, Fault, NoFault, TypeOK, CorporateActionsAssumption
  <2>3. step' \in Steps /\ outcome' \in {"SUCCESS", "FAILED"} /\ todo' = todo /\ step # "idle"
    BY <1>4 DEF Request, Steps
  <2> QED
    BY <1>h, <1>4, <2>1, <2>2, <2>3 DEF Request, TypeOK, worldVars, tables
<1>f. ASSUME Fails
      PROVE  /\ faults' \in 0 .. MaxFaults /\ outcome' \in {"SUCCESS", "FAILED"}
             /\ staged' \in [Exchanges -> [Keys -> Texts \cup {None}]]
             /\ rows' \in [Keys -> Texts \cup {None}]
             /\ raw' \in [Exchanges -> [Keys -> Texts \cup {None}]]
             /\ canonical' \in [Keys -> Rows \cup {None}]
             /\ step' = "record"
  <2>1. faults' \in 0 .. MaxFaults
    BY <1>f, CorporateActionsAssumption
       DEF Fails, Fault, TypeOK, CorporateActionsAssumption
  <2> QED
    BY <1>f, <2>1 DEF Fails, Failure, TypeOK, tables
<1>5. ASSUME PersistRaw PROVE TypeOK'
  <2> DEFINE e == Current
  <2>0. e \in Exchanges
    BY CurrentTyped
  <2>1. CASE /\ rows' = Resolved(e) /\ staged' = Upserted(e, Resolved(e))
             /\ step' = "reconcile" /\ NoFault
             /\ UNCHANGED <<tables, outcome>>
    <3>1. /\ rows' \in [Keys -> Texts \cup {None}]
          /\ staged' \in [Exchanges -> [Keys -> Texts \cup {None}]]
      BY <2>0, <2>1, ResolvedTyped, UpsertedTyped
    <3>2. step # "idle"
      BY <1>5 DEF PersistRaw
    <3> QED
      BY <1>h, <1>5, <2>1, <3>1, <3>2 DEF PersistRaw, TypeOK, Steps, NoFault, worldVars, tables
  <2>2. CASE Fails
    <3>1. step # "idle" /\ "record" \in Steps
      BY <1>5 DEF PersistRaw, Steps
    <3> QED
      BY <1>h, <1>5, <1>f, <2>2, <3>1 DEF PersistRaw, TypeOK, worldVars
  <2> QED
    BY <1>5, <2>1, <2>2 DEF PersistRaw
<1>6. ASSUME Reconcile PROVE TypeOK'
  <2> DEFINE e == Current
             new == [k \in Keys |-> IF k \in Touched(e)
                       THEN Reconciled(staged["NSE"][k], staged["BSE"][k])
                       ELSE canonical[k]]
  <2>1. CASE /\ raw' = staged /\ canonical' = new
             /\ step' = "record" /\ NoFault
             /\ UNCHANGED <<rows, staged, outcome>>
    <3>1. \A k \in Keys : Reconciled(staged["NSE"][k], staged["BSE"][k]) \in Rows \cup {None}
      BY ReconciledTyped DEF TypeOK, Exchanges
    <3>2. canonical' \in [Keys -> Rows \cup {None}]
      <4> HIDE DEF e
      <4>1. canonical \in [Keys -> Rows \cup {None}]
        BY DEF TypeOK
      <4> QED
        BY <2>1, <3>1, <4>1
    <3>3. step # "idle" /\ "record" \in Steps
      BY <1>6 DEF Reconcile, Steps
    <3> HIDE DEF new
    <3> QED
      BY <1>h, <1>6, <2>1, <3>2, <3>3 DEF Reconcile, TypeOK, NoFault, worldVars
  <2>2. CASE Fails
    <3>1. step # "idle" /\ "record" \in Steps
      BY <1>6 DEF Reconcile, Steps
    <3> QED
      BY <1>h, <1>6, <1>f, <2>2, <3>1 DEF Reconcile, TypeOK, worldVars
  <2> QED
    BY <1>6, <2>1, <2>2 DEF Reconcile
<1>7. ASSUME Record PROVE TypeOK'
  <2>1. todo # {} /\ todo \subseteq Exchanges
    BY <1>7 DEF Record, TypeOK
  <2>2. Current \in todo /\ from[Current] \in Int /\ from[Current] >= 1
        /\ from[Current] <= today /\ today \in Days
    BY <2>1, CurrentInTodo, CorporateActionsAssumption
       DEF Windows, TypeOK, Days, CorporateActionsAssumption
  <2>3. <<Current, from[Current], today>> \in Exchanges \X Days \X Days
    BY <2>1, <2>2, CorporateActionsAssumption DEF Days, CorporateActionsAssumption
  <2>4. /\ metadata' \subseteq Exchanges \X Days \X Days
        /\ \A w \in metadata' : w[2] <= w[3]
    BY <1>7, <2>2, <2>3 DEF Record, RecordedWindow, TypeOK
  <2>5. faults' \in 0 .. MaxFaults
    BY <1>7, CorporateActionsAssumption
       DEF Record, Fault, NoFault, TypeOK, CorporateActionsAssumption
  <2>6. /\ step' \in Steps /\ todo' \subseteq Exchanges
        /\ (step' # "idle" => todo' # {})
    <3>1. CASE Cardinality(todo) > 1
      <4>1. todo' # {}
        <5>1. SUFFICES ASSUME todo = {Current} PROVE FALSE
          BY <1>7, <2>1, <3>1 DEF Record
        <5> QED
          BY <3>1, <5>1, FS_Singleton
      <4> QED
        BY <1>7, <2>1, <3>1, <4>1 DEF Record, Steps
    <3>2. CASE ~(Cardinality(todo) > 1)
      BY <1>7, <3>2 DEF Record, Idle, Steps
    <3> QED
      BY <3>1, <3>2
  <2>7. from' \in [Exchanges -> 1 .. LastDay + 1]
    <3>1. 1 \in 1 .. LastDay + 1
      BY CorporateActionsAssumption DEF CorporateActionsAssumption
    <3> QED
      BY <1>7, <3>1 DEF Record, Idle, TypeOK
  <2> QED
    BY <1>h, <1>7, <2>4, <2>5, <2>6, <2>7, NoneTyped DEF Record, TypeOK, worldVars, tables
<1>8. ASSUME Crash PROVE TypeOK'
  <2>1. faults' \in 0 .. MaxFaults
    BY <1>8, CorporateActionsAssumption
       DEF Crash, Fault, TypeOK, CorporateActionsAssumption
  <2>2. from' \in [Exchanges -> 1 .. LastDay + 1]
    <3>1. 1 \in 1 .. LastDay + 1
      BY CorporateActionsAssumption DEF CorporateActionsAssumption
    <3> QED
      BY <1>8, <3>1 DEF Crash, Idle
  <2> QED
    BY <1>h, <1>8, <2>1, <2>2, NoneTyped DEF Crash, Idle, TypeOK, Steps, worldVars, tables
<1>9. ASSUME UNCHANGED vars PROVE TypeOK'
  BY <1>9 DEF vars, worldVars, runVars, tables, TypeOK
<1> QED
  BY <1>1, <1>2, <1>3, <1>4, <1>5, <1>6, <1>7, <1>8, <1>9 DEF Next

-----------------------------------------------------------------------------
(* The windows and the transaction.                                        *)

LEMMA StepWindows ==
  ASSUME TypeOK, Windows, [Next]_vars
  PROVE  Windows'
<1>1. ASSUME NEW d \in Days, StartCycle(d) PROVE Windows'
  <2>0. PICK fresh \in {prices, NoFreshness} :
          /\ todo' = {e \in Exchanges : fresh[e] < d}
          /\ from' = [e \in Exchanges |->
                       IF e \in todo' THEN IncrementalStart(fresh[e]) ELSE 1]
    BY <1>1 DEF StartCycle
  <2>1. /\ step' = "request" /\ today' = d
        /\ d \in Int /\ today \in Int /\ today <= d
    BY <1>1, CorporateActionsAssumption
       DEF StartCycle, TypeOK, Days, CorporateActionsAssumption
  <2>2. ASSUME NEW e \in Exchanges PROVE prices'[e] <= today'
    <3>1. /\ prices[e] \in Int /\ prices'[e] \in Int
          /\ prices'[e] <= IF e \in todo' THEN d ELSE prices[e]
          /\ prices[e] <= today
      BY <1>1, <2>1, CorporateActionsAssumption
         DEF StartCycle, TypeOK, Windows, CorporateActionsAssumption
    <3> QED
      BY <2>1, <3>1
  <2>3. ASSUME NEW e \in todo' PROVE from'[e] <= today'
    <3>1. e \in Exchanges /\ from'[e] = fresh[e] + 1 /\ fresh[e] < d
      BY <2>0, <2>3 DEF IncrementalStart
    <3>2. fresh[e] \in Int
      BY <3>1, CorporateActionsAssumption
         DEF TypeOK, NoFreshness, CorporateActionsAssumption
    <3> QED
      BY <2>1, <3>1, <3>2
  <2> QED
    BY <2>1, <2>2, <2>3 DEF Windows
<1>2. ASSUME Record PROVE Windows'
  BY <1>2 DEF Record, Idle, Windows, TypeOK
<1>3. CASE Request
  BY <1>3 DEF Request, Windows
<1>4. CASE PersistRaw
  BY <1>4 DEF PersistRaw, Fails, Windows
<1>5. CASE Reconcile
  BY <1>5 DEF Reconcile, Fails, Windows
<1>6. CASE Crash
  BY <1>6 DEF Crash, Idle, Windows
<1>7. ASSUME NEW e \in Exchanges, NEW k \in Keys, NEW t \in Texts \cup {None},
             Publish(e, k, t)
      PROVE  Windows'
  BY <1>7 DEF Publish, runVars, Windows
<1>8. ASSUME NEW e \in Exchanges, NEW i \in Isins, Relist(e, i) PROVE Windows'
  BY <1>8 DEF Relist, runVars, Windows
<1>9. CASE UNCHANGED vars
  BY <1>9 DEF vars, runVars, Windows
<1> QED
  BY <1>1, <1>2, <1>3, <1>4, <1>5, <1>6, <1>7, <1>8, <1>9 DEF Next

LEMMA StepTransaction ==
  ASSUME TypeOK, Windows, Transaction, [Next]_vars
  PROVE  Transaction'
<1>1. ASSUME NEW d \in Days, StartCycle(d) PROVE Transaction'
  BY <1>1 DEF StartCycle, Transaction
<1>2. CASE Record
  BY <1>2 DEF Record, Idle, Transaction
<1>3. CASE Request
  <2>1. UNCHANGED <<todo, from, today, published, listed, raw>>
    BY <1>3 DEF Request, worldVars, tables
  <2>2. step' # "reconcile" /\ (step' = "persist" => outcome' = "SUCCESS" /\ rows' = Answer(Current))
    BY <1>3 DEF Request
  <2> QED
    BY <2>1, <2>2 DEF Transaction, Answer, Current, Window
<1>4. CASE PersistRaw
  <2>1. UNCHANGED <<todo, from, today, published, listed>> /\ step = "persist"
    BY <1>4 DEF PersistRaw, worldVars
  <2>2. CASE Fails
    BY <2>2 DEF Fails, Transaction
  <2>3. CASE /\ rows' = Resolved(Current) /\ staged' = Upserted(Current, Resolved(Current))
             /\ step' = "reconcile" /\ UNCHANGED <<tables, outcome>>
    <3>1. rows = Answer(Current) /\ outcome = "SUCCESS"
      BY <2>1 DEF Transaction
    <3>2. rows' = [k \in Keys |-> IF k[1] \in listed[Current]
                                   THEN Answer(Current)[k] ELSE None]
      BY <2>3, <3>1 DEF Resolved
    <3>3. staged' = Upserted(Current, rows')
      BY <2>3
    <3>4. /\ Current' = Current /\ Answer(Current)' = Answer(Current)
          /\ raw' = raw /\ listed' = listed
      BY <2>1, <2>3 DEF Current, Answer, Window, tables
    <3>5. Upserted(Current, rows)' = Upserted(Current, rows')
      BY <3>4 DEF Upserted
    <3> QED
      BY <2>3, <3>1, <3>2, <3>3, <3>4, <3>5 DEF Transaction
  <2> QED
    BY <1>4, <2>2, <2>3 DEF PersistRaw
<1>5. CASE Reconcile
  BY <1>5 DEF Reconcile, Fails, Transaction
<1>6. CASE Crash
  BY <1>6 DEF Crash, Idle, Transaction
<1>7. ASSUME NEW e \in Exchanges, NEW k \in Keys, NEW t \in Texts \cup {None},
             Publish(e, k, t)
      PROVE  Transaction'
  BY <1>7 DEF Publish, runVars, Transaction
<1>8. ASSUME NEW e \in Exchanges, NEW i \in Isins, Relist(e, i) PROVE Transaction'
  BY <1>8 DEF Relist, runVars, Transaction
<1>9. CASE UNCHANGED vars
  BY <1>9 DEF vars, worldVars, runVars, tables, Transaction, Current, Answer, Window, Upserted
<1> QED
  BY <1>1, <1>2, <1>3, <1>4, <1>5, <1>6, <1>7, <1>8, <1>9 DEF Next

-----------------------------------------------------------------------------
(* The reconciled table.                                                   *)

(* Reconcile is the only step that writes the two tables. *)
LEMMA OnlyReconcileWrites ==
  ASSUME [Next]_vars, ~Reconcile PROVE UNCHANGED tables
  BY DEF Next, Publish, Relist, StartCycle, Request, PersistRaw, Fails, Record,
         Crash, Idle, vars, tables

(* A committed run touches the keys its rows have, and no other. *)
LEMMA Committed ==
  ASSUME TypeOK, Transaction, Reconcile, step' = "record", outcome' = "SUCCESS",
         NEW x \in Exchanges, NEW k \in Keys
  PROVE  /\ raw' = staged /\ staged = Upserted(Current, rows)
         /\ rows' = rows
         /\ raw'[x][k] = IF x = Current /\ rows[k] # None THEN rows[k] ELSE raw[x][k]
         /\ canonical'[k] = IF k \in Touched(Current)
                             THEN Reconciled(raw'["NSE"][k], raw'["BSE"][k])
                             ELSE canonical[k]
<1>1. ~Fails
  BY DEF Fails, Failure
<1>2. /\ raw' = staged /\ staged = Upserted(Current, rows) /\ rows' = rows
      /\ canonical' = [q \in Keys |-> IF q \in Touched(Current)
                         THEN Reconciled(staged["NSE"][q], staged["BSE"][q])
                         ELSE canonical[q]]
  BY <1>1 DEF Reconcile, Transaction
<1>3. rows \in [Keys -> Texts \cup {None}]
  BY DEF TypeOK
<1>4. Upserted(Current, rows)[x][k] =
        IF x = Current /\ rows[k] # None THEN rows[k] ELSE raw[x][k]
  BY <1>3, CurrentTyped, UpsertedIs
<1> QED
  BY <1>2, <1>4

LEMMA StepCanonical ==
  ASSUME TypeOK, Transaction, CanonicalFollowsRaw, [Next]_vars
  PROVE  CanonicalFollowsRaw'
<1>1. CASE UNCHANGED tables
  BY <1>1 DEF tables, CanonicalFollowsRaw
<1>2. CASE Reconcile /\ step' = "record" /\ outcome' = "SUCCESS"
  <2> SUFFICES ASSUME NEW k \in Keys
               PROVE  canonical'[k] = Reconciled(raw'["NSE"][k], raw'["BSE"][k])
    BY DEF CanonicalFollowsRaw
  <2>1. CASE k \in Touched(Current)
    BY <1>2, <2>1, Committed DEF Exchanges
  <2>2. CASE k \notin Touched(Current)
    <3>1. rows[k] = None
      BY <2>2 DEF Touched
    <3>2. raw'["NSE"][k] = raw["NSE"][k] /\ raw'["BSE"][k] = raw["BSE"][k]
      BY <1>2, <3>1, Committed DEF Exchanges
    <3>3. canonical'[k] = canonical[k]
      BY <1>2, <2>2, Committed DEF Exchanges
    <3> QED
      BY <3>2, <3>3 DEF CanonicalFollowsRaw
  <2> QED
    BY <2>1, <2>2
<1>3. CASE Reconcile /\ ~(step' = "record" /\ outcome' = "SUCCESS")
  BY <1>1, <1>3 DEF Reconcile, Fails, Transaction
<1> QED
  BY <1>1, <1>2, <1>3, OnlyReconcileWrites

LEMMA StepSuccess ==
  ASSUME TypeOK, Windows, Transaction, SuccessIsStored, [Next]_vars
  PROVE  SuccessIsStored'
<1> SUFFICES ASSUME step' = "record", outcome' = "SUCCESS",
                    NEW k \in Keys, rows'[k] # None
             PROVE  raw'[Current'][k] = rows'[k]
  BY DEF SuccessIsStored
<1>1. CASE Reconcile
  <2>1. Current' = Current
    BY <1>1 DEF Reconcile, Current
  <2> QED
    BY <1>1, <2>1, Committed, CurrentTyped
<1>2. CASE Request
  BY <1>2 DEF Request, NoKeys
<1>3. CASE PersistRaw
  BY <1>3 DEF PersistRaw, Fails, Failure
<1>4. CASE UNCHANGED <<step, outcome, rows, raw, todo>>
  <2>1. Current' = Current
    BY <1>4 DEF Current
  <2> QED
    BY <1>4, <2>1 DEF SuccessIsStored
<1> QED
  BY <1>1, <1>2, <1>3, <1>4 DEF Next, Publish, Relist, StartCycle, Record, Crash,
     Idle, vars, runVars, tables

-----------------------------------------------------------------------------
(* No hole between the windows.                                            *)

LEMMA BothLeft ==
  ASSUME todo \subseteq Exchanges, ~(Cardinality(todo) > 1), NEW e \in todo
  PROVE  e = Current
<1>1. CASE todo = Exchanges
  <2>1. IsFiniteSet({"NSE"}) /\ Cardinality({"NSE"}) = 1
    BY FS_Singleton
  <2>2. Exchanges = {"NSE"} \cup {"BSE"} /\ "BSE" \notin {"NSE"}
    BY DEF Exchanges
  <2>3. Cardinality(Exchanges) = 2
    BY <2>1, <2>2, FS_AddElement
  <2> QED
    BY <1>1, <2>3
<1>2. CASE todo # Exchanges
  BY <1>2 DEF Exchanges, Current
<1> QED
  BY <1>1, <1>2

LEMMA NumbersTyped ==
  ASSUME TypeOK
  PROVE  /\ today \in Int
         /\ \A e \in Exchanges : from[e] \in Int /\ prices[e] \in Int
BY CorporateActionsAssumption DEF TypeOK, CorporateActionsAssumption

(* The rows of a run of the current exchange, before the commit. *)
LEMMA RowsAre ==
  ASSUME TypeOK, Transaction, step = "reconcile", NEW k \in Keys
  PROVE  /\ k \notin Window(Current) => rows[k] = None
         /\ k \in Window(Current) /\ k[1] \in listed[Current] =>
              rows[k] = published[Current][k]
  BY DEF Transaction, Answer

(* The end of a run: what the exchange reports of its window is stored, or *)
(* the run has failed and its window is excused.                           *)
LEMMA RunEnds ==
  ASSUME TypeOK, Transaction, Request \/ PersistRaw \/ Reconcile,
         step' = "record", NEW k \in Window(Current), Settled(Current, k)'
  PROVE  \/ raw'[Current][k] = published'[Current][k]
         \/ k \in excused'[Current] /\ outcome' = "FAILED"
<1>0. /\ UNCHANGED <<published, listed>> /\ Current' = Current
      /\ Current \in Exchanges /\ k \in Keys
  BY CurrentTyped DEF Request, PersistRaw, Reconcile, worldVars, Window, Current
<1>f. ASSUME NotAsked(Current), outcome' = "FAILED"
      PROVE  k \in excused'[Current] /\ outcome' = "FAILED"
  BY <1>0, <1>f, HistoryIs
<1>1. CASE Request /\ rows' = Answer(Current) /\ rows' = NoKeys
  <2>1. published[Current][k] = None
    BY <1>0, <1>1 DEF Answer, NoKeys
  <2> QED
    BY <1>0, <2>1 DEF Settled
<1>2. CASE Request /\ NotAsked(Current) /\ outcome' = "FAILED"
  BY <1>2, <1>f
<1>3. CASE PersistRaw \/ (Reconcile /\ Fails)
  <2>1. Fails
    BY <1>3 DEF PersistRaw
  <2> QED
    BY <2>1, <1>f DEF Fails, Failure
<1>4. CASE Reconcile /\ ~Fails
  <2>1. step = "reconcile" /\ outcome' = "SUCCESS"
    BY <1>4 DEF Reconcile, Transaction
  <2>2. k[1] \in listed[Current] /\ published[Current][k] # None
    BY <1>0 DEF Settled
  <2>3. rows[k] = published[Current][k]
    BY <1>0, <2>1, <2>2, RowsAre
  <2> QED
    BY <1>0, <1>4, <2>1, <2>2, <2>3, Committed
<1>5. Request => \/ rows' = Answer(Current) /\ rows' = NoKeys
                 \/ NotAsked(Current) /\ outcome' = "FAILED"
  BY DEF Request
<1> QED
  BY <1>1, <1>2, <1>3, <1>4, <1>5

(* What a step does to a day that has been asked for: the exchange's       *)
(* answer is stored, or nothing about the key changes but its excuse.      *)
LEMMA Settles ==
  ASSUME TypeOK, Transaction, [Next]_vars, NEW e \in Exchanges, NEW k \in Keys,
         k[2] <= today, Settled(e, k)'
  PROVE  \/ raw'[e][k] = published'[e][k]
         \/ /\ Settled(e, k)
            /\ raw'[e][k] = raw[e][k] /\ published'[e][k] = published[e][k]
            /\ k \in excused[e] => k \in excused'[e]
<1> DEFINE Same == /\ Settled(e, k)
                   /\ raw'[e][k] = raw[e][k] /\ published'[e][k] = published[e][k]
                   /\ k \in excused[e] => k \in excused'[e]
<1>1. ASSUME NEW x \in Exchanges, NEW q \in Keys, NEW t \in Texts \cup {None},
             Publish(x, q, t)
      PROVE  Same
  <2>1. UNCHANGED <<raw, listed, excused>>
    BY <1>1 DEF Publish, tables
  <2>2. e = x /\ k = q => k \in changed'[e]
    BY <1>1 DEF Publish, TypeOK
  <2>3. ~(e = x /\ k = q) => published'[e][k] = published[e][k]
    BY <1>1 DEF Publish, TypeOK
  <2>4. changed[e] \subseteq changed'[e]
    BY <1>1 DEF Publish, TypeOK
  <2> QED
    BY <2>1, <2>2, <2>3, <2>4 DEF Settled
<1>2. ASSUME NEW x \in Exchanges, NEW i \in Isins, Relist(x, i) PROVE Same
  <2>1. UNCHANGED <<raw, published, excused>>
    BY <1>2 DEF Relist, tables
  <2>2. e = x /\ k[1] = i => k \in changed'[e]
    BY <1>2 DEF Relist, TypeOK
  <2>3. ~(e = x /\ k[1] = i) /\ k[1] \in listed'[e] => k[1] \in listed[e]
    BY <1>2 DEF Relist, TypeOK
  <2>4. changed[e] \subseteq changed'[e]
    BY <1>2 DEF Relist, TypeOK
  <2> QED
    BY <2>1, <2>2, <2>3, <2>4 DEF Settled
<1>3. CASE Request
  <2>1. UNCHANGED <<raw, published, listed>>
    BY <1>3 DEF Request, worldVars, tables
  <2>2. CASE rows' = Answer(Current) /\ rows' = NoKeys /\ Asked(Current)
    <3>1. ~(e = Current /\ k \in Window(Current))
      <4>1. SUFFICES ASSUME e = Current, k \in Window(Current) PROVE FALSE
        OBVIOUS
      <4>2. published[e][k] = None
        BY <2>2, <4>1 DEF Answer, NoKeys
      <4> QED
        BY <2>1, <4>2 DEF Settled
    <3>2. (k \in changed'[e] <=> k \in changed[e]) /\ (k \in excused'[e] <=> k \in excused[e])
      BY <2>2, <3>1, CurrentTyped, HistoryIs
    <3> QED
      BY <2>1, <3>2 DEF Settled
  <2>3. CASE NotAsked(Current)
    BY <2>1, <2>3, CurrentTyped, HistoryIs DEF Settled
  <2>4. CASE UNCHANGED <<changed, excused>>
    BY <2>1, <2>4 DEF Settled
  <2> QED
    BY <1>3, <2>2, <2>3, <2>4 DEF Request
<1>f. ASSUME Fails, UNCHANGED <<published, listed>> PROVE Same
  BY <1>f, CurrentTyped, HistoryIs DEF Fails, tables, Settled
<1>4. CASE PersistRaw
  <2>1. UNCHANGED <<published, listed>>
    BY <1>4 DEF PersistRaw, worldVars
  <2>2. CASE UNCHANGED <<tables, changed, excused>>
    BY <2>1, <2>2 DEF tables, Settled
  <2> QED
    BY <1>4, <1>f, <2>1, <2>2 DEF PersistRaw
<1>5. CASE Reconcile /\ ~Fails
  <2>1. UNCHANGED <<published, listed>> /\ step = "reconcile" /\ step' = "record"
        /\ outcome' = "SUCCESS" /\ Asked(Current)
    BY <1>5 DEF Reconcile, worldVars, Transaction
  <2>2. CASE e = Current /\ k \in Window(Current)
    <3>1. k[1] \in listed[e] /\ published[e][k] # None
      BY <2>1 DEF Settled
    <3>2. rows[k] = published[e][k]
      BY <2>1, <2>2, <3>1, RowsAre
    <3> QED
      BY <1>5, <2>1, <2>2, <3>1, <3>2, Committed
  <2>3. CASE ~(e = Current /\ k \in Window(Current))
    <3>1. (k \in changed'[e] <=> k \in changed[e]) /\ (k \in excused'[e] <=> k \in excused[e])
      BY <2>1, <2>3, CurrentTyped, HistoryIs
    <3>2. raw'[e][k] = raw[e][k]
      BY <1>5, <2>1, <2>3, Committed, RowsAre
    <3> QED
      BY <2>1, <3>1, <3>2 DEF Settled
  <2> QED
    BY <2>2, <2>3
<1>6. CASE Reconcile /\ Fails
  BY <1>f, <1>6 DEF Reconcile, worldVars
<1>7. CASE Crash
  BY <1>7 DEF Crash, worldVars, tables, Settled
<1>8. ASSUME NEW d \in Days, StartCycle(d) PROVE Same
  BY <1>8 DEF StartCycle, worldVars, tables, Settled
<1>9. CASE Record
  BY <1>9 DEF Record, worldVars, tables, Settled
<1>10. CASE UNCHANGED vars
  BY <1>10 DEF vars, worldVars, tables, Settled
<1> QED
  BY <1>1, <1>2, <1>3, <1>4, <1>5, <1>6, <1>7, <1>8, <1>9, <1>10 DEF Next

(* Only the end of a run, or of a cycle, moves the first day an exchange   *)
(* has not been asked for.                                                 *)
LEMMA BoundStep ==
  ASSUME TypeOK, Windows, [Next]_vars, ~Record, ~Crash, NEW e \in Exchanges
  PROVE  Bound(e) \in Int /\ Bound(e)' \in Int /\ Bound(e)' <= Bound(e)
<1>1. Bound(e) \in Int
  BY NumbersTyped DEF Bound
<1>2. ASSUME NEW d \in Days, StartCycle(d)
      PROVE  Bound(e)' \in Int /\ Bound(e)' <= Bound(e)
  <2>0. PICK fresh \in {prices, NoFreshness} :
          /\ todo' = {x \in Exchanges : fresh[x] < d}
          /\ from' = [x \in Exchanges |->
                       IF x \in todo' THEN IncrementalStart(fresh[x]) ELSE 1]
    BY <1>2 DEF StartCycle
  <2>1. /\ todo = {} /\ today' = d /\ d \in Int /\ today <= d
    BY <1>2, CorporateActionsAssumption
       DEF StartCycle, Windows, Days, CorporateActionsAssumption
  <2>2. Bound(e) = today + 1
    BY <2>1 DEF Bound
  <2>3. fresh[e] \in Int /\ fresh[e] <= today /\ today \in Int
    BY CorporateActionsAssumption, NumbersTyped
       DEF TypeOK, Windows, NoFreshness, CorporateActionsAssumption
  <2>4. CASE fresh[e] < d
    <3>1. e \in todo' /\ from'[e] = fresh[e] + 1
      BY <2>0, <2>4 DEF IncrementalStart
    <3> QED
      BY <2>2, <2>3, <3>1 DEF Bound
  <2>5. CASE ~(fresh[e] < d)
    <3>1. e \notin todo'
      BY <2>0, <2>5
    <3> QED
      BY <2>1, <2>2, <2>3, <2>5, <3>1 DEF Bound
  <2> QED
    BY <2>4, <2>5
<1>3. CASE UNCHANGED <<todo, from, today>>
  BY <1>1, <1>3 DEF Bound
<1> QED
  BY <1>1, <1>2, <1>3
     DEF Next, Publish, Relist, Request, PersistRaw, Reconcile, vars, runVars

LEMMA StepStored ==
  ASSUME TypeOK, Windows, Transaction, Stored, [Next]_vars
  PROVE  Stored'
<1>1. ASSUME NEW e \in Exchanges, NEW k \in Keys, k[2] < Bound(e)', Live(e, k)'
      PROVE  raw'[e][k] = published'[e][k]
  <2>1. CASE Record
    <3>1. /\ UNCHANGED <<today, published, listed, raw, changed, excused>>
          /\ step = "record" /\ todo \subseteq Exchanges /\ todo # {}
      BY <2>1 DEF Record, Idle, worldVars, tables, TypeOK
    <3>2. Live(e, k)
      BY <1>1, <3>1 DEF Live, Settled
    <3>3. CASE e = Current
      <4>1. e \notin todo' /\ e \in todo
        BY <2>1, <3>1, <3>3, CurrentInTodo DEF Record, Idle
      <4>2. k[2] < today + 1
        BY <1>1, <3>1, <4>1 DEF Bound
      <4>3. k[2] < from[e] \/ k \in Window(e)
        BY <4>2, NumbersTyped, KeyTyped DEF Window
      <4> QED
        BY <3>1, <3>2, <3>3, <4>1, <4>3 DEF Stored, Bound
    <3>4. CASE e # Current
      <4>1. (e \in todo' <=> e \in todo) /\ (e \in todo => from' = from)
        BY <2>1, <3>1, <3>4, BothLeft DEF Record, Idle
      <4>2. k[2] < Bound(e)
        BY <1>1, <3>1, <4>1 DEF Bound
      <4> QED
        BY <3>1, <3>2, <4>2 DEF Stored
    <3> QED
      BY <3>3, <3>4
  <2>2. CASE Crash
    <3>1. /\ UNCHANGED <<today, published, listed, raw, changed>>
          /\ step' = "idle" /\ todo' = {}
      BY <2>2 DEF Crash, Idle, worldVars, tables
    <3>2. excused'[e] = IF e \in todo THEN excused[e] \cup Window(e) ELSE excused[e]
      BY <2>2 DEF Crash
    <3>3. Live(e, k)
      BY <1>1, <3>1, <3>2 DEF Live, Settled
    <3>4. e \in todo => k \notin Window(e)
      BY <1>1, <3>2 DEF Live
    <3>5. k[2] < today + 1
      BY <1>1, <3>1 DEF Bound
    <3>6. k[2] < Bound(e)
      BY <3>4, <3>5, NumbersTyped, KeyTyped DEF Bound, Window
    <3> QED
      BY <3>1, <3>3, <3>6 DEF Stored
  <2>3. CASE ~Record /\ ~Crash
    <3>1. k[2] < Bound(e)
      BY <1>1, <2>3, BoundStep, KeyTyped
    <3>2. k[2] <= today
      BY <3>1, NumbersTyped, KeyTyped DEF Bound, Windows
    <3>3. \/ raw'[e][k] = published'[e][k]
          \/ Live(e, k) /\ raw'[e][k] = raw[e][k] /\ published'[e][k] = published[e][k]
      BY <1>1, <3>2, Settles DEF Live
    <3> QED
      BY <3>1, <3>3 DEF Stored
  <2> QED
    BY <2>1, <2>2, <2>3
<1>2. ASSUME step' = "record", NEW k \in Window(Current)', Live(Current, k)'
      PROVE  raw'[Current'][k] = published'[Current'][k]
  <2>1. CASE UNCHANGED vars
    BY <1>2, <2>1 DEF vars, worldVars, runVars, tables, Stored, Live, Settled, Current, Window
  <2>2. CASE Request \/ PersistRaw \/ Reconcile
    <3>1. Current' = Current /\ Window(Current)' = Window(Current)
      BY <2>2 DEF Request, PersistRaw, Reconcile, Current, Window
    <3>2. k \in Window(Current) /\ Settled(Current, k)' /\ k \notin excused'[Current]
      BY <1>2, <3>1 DEF Live
    <3> QED
      BY <1>2, <2>2, <3>1, <3>2, RunEnds
  <2> QED
    BY <1>2, <2>1, <2>2 DEF Next, Publish, Relist, StartCycle, Record, Crash, Idle, runVars
<1> QED
  BY <1>1, <1>2 DEF Stored

LEMMA StepRecorded ==
  ASSUME TypeOK, Windows, Transaction, Recorded, [Next]_vars
  PROVE  Recorded'
<1>m. UNCHANGED metadata \/ Record
  BY DEF Next, Publish, Relist, StartCycle, Request, PersistRaw, Reconcile, Crash, vars
<1>r. ASSUME Record, NEW w \in metadata', w \notin metadata
      PROVE  outcome = "SUCCESS" /\ w = <<Current, from[Current], today>>
  BY <1>r DEF Record, RecordedWindow
<1>t. today \in Int /\ today' \in Int /\ today <= today'
  <2>1. ASSUME NEW d \in Days, StartCycle(d) PROVE today' \in Int /\ today <= today'
    BY <2>1, CorporateActionsAssumption
       DEF StartCycle, Days, CorporateActionsAssumption
  <2> QED
    BY <2>1, NumbersTyped
       DEF Next, Publish, Relist, Request, PersistRaw, Reconcile, Record, Crash, vars
<1>w. \A w \in metadata : w[1] \in Exchanges /\ w[3] \in Int /\ w[3] <= today
  BY CorporateActionsAssumption DEF TypeOK, Recorded, Days, CorporateActionsAssumption
<1>1. ASSUME NEW w \in metadata' PROVE w[3] <= today'
  <2>1. CASE w \in metadata
    BY <1>t, <1>w, <2>1
  <2>2. CASE w \notin metadata
    BY <1>1, <1>m, <1>r, <1>t, <2>2
  <2> QED
    BY <2>1, <2>2
<1>2. ASSUME NEW w \in metadata', NEW k \in Keys,
             w[2] <= k[2], k[2] <= w[3], Settled(w[1], k)'
      PROVE  raw'[w[1]][k] = published'[w[1]][k]
  <2>1. CASE w \in metadata
    <3>1. k[2] <= today
      BY <1>2, <1>t, <1>w, <2>1, KeyTyped
    <3>2. \/ raw'[w[1]][k] = published'[w[1]][k]
          \/ /\ Settled(w[1], k) /\ raw'[w[1]][k] = raw[w[1]][k]
             /\ published'[w[1]][k] = published[w[1]][k]
      BY <1>2, <1>w, <2>1, <3>1, Settles
    <3> QED
      BY <1>2, <2>1, <3>2 DEF Recorded, RecordIsTruthful
  <2>2. CASE w \notin metadata
    <3>1. Record /\ outcome = "SUCCESS" /\ w = <<Current, from[Current], today>>
      BY <1>2, <1>m, <1>r, <2>2
    <3>2. k \in Window(Current) /\ w[1] = Current
      BY <1>2, <3>1 DEF Window
    <3>3. UNCHANGED <<published, listed, raw, changed>> /\ step = "record"
      BY <3>1 DEF Record, worldVars, tables
    <3>4. Settled(Current, k)
      BY <1>2, <3>2, <3>3 DEF Settled
    <3> QED
      BY <3>1, <3>2, <3>3, <3>4 DEF Recorded
  <2> QED
    BY <2>1, <2>2
<1>3. ASSUME step' = "record", outcome' = "SUCCESS",
             NEW k \in Window(Current)', Settled(Current, k)'
      PROVE  raw'[Current'][k] = published'[Current'][k]
  <2>1. CASE UNCHANGED vars
    BY <1>3, <2>1 DEF vars, worldVars, runVars, tables, Recorded, Settled, Current, Window
  <2>2. CASE Request \/ PersistRaw \/ Reconcile
    <3>1. Current' = Current /\ Window(Current)' = Window(Current)
      BY <2>2 DEF Request, PersistRaw, Reconcile, Current, Window
    <3>2. k \in Window(Current) /\ Settled(Current, k)'
      BY <1>3, <3>1
    <3> QED
      BY <1>3, <2>2, <3>1, <3>2, RunEnds
  <2> QED
    BY <1>3, <2>1, <2>2 DEF Next, Publish, Relist, StartCycle, Record, Crash, Idle, runVars
<1> QED
  BY <1>1, <1>2, <1>3 DEF Recorded, RecordIsTruthful

-----------------------------------------------------------------------------
(* The theorems.                                                           *)

(* The inductive invariant. *)
IInv ==
  /\ TypeOK /\ Windows /\ Transaction /\ Stored /\ Recorded
  /\ CanonicalFollowsRaw /\ SuccessIsStored

LEMMA InitInv == Init => IInv
<1> SUFFICES ASSUME Init PROVE IInv
  OBVIOUS
<1>1. TypeOK
  BY InitTyped
<1>2. Windows /\ Transaction /\ SuccessIsStored
  BY <1>1, NumbersTyped DEF Init, Windows, Transaction, SuccessIsStored
<1>3. CanonicalFollowsRaw
  BY DEF Init, CanonicalFollowsRaw, NoKeys, Reconciled, Exchanges
<1>4. Stored
  BY DEF Init, Stored, Live, Settled, NoKeys
<1>5. Recorded
  BY DEF Init, Recorded, RecordIsTruthful
<1> QED
  BY <1>1, <1>2, <1>3, <1>4, <1>5 DEF IInv

LEMMA NextInv == IInv /\ [Next]_vars => IInv'
  BY StepTyped, StepWindows, StepTransaction, StepStored, StepRecorded,
     StepCanonical, StepSuccess
     DEF IInv

LEMMA Invariant == Spec => []IInv
  BY InitInv, NextInv, PTL DEF Spec

(* Every variable keeps its type: the tables hold what the parser can      *)
(* produce, a recorded window is not empty.                                *)
THEOREM Typed == Spec => []TypeOK
  BY Invariant, PTL DEF IInv

(* The reconciled table always agrees with the two exchanges' rows.        *)
THEOREM CanonicalCorrect == Spec => []CanonicalFollowsRaw
  BY Invariant, PTL DEF IInv

(* A run recorded as SUCCESS has stored what it could resolve.             *)
THEOREM SuccessCorrect == Spec => []SuccessIsStored
  BY Invariant, PTL DEF IInv

(* The windows of the cycles leave no day out.                             *)
THEOREM WindowsCorrect == Spec => []NoHoleInWindows
<1>1. IInv => NoHoleInWindows
  <2> SUFFICES ASSUME IInv, step = "idle", NEW e \in Exchanges, NEW k \in Keys,
                      k[2] <= today, Live(e, k)
               PROVE  raw[e][k] = published[e][k]
    BY DEF NoHoleInWindows, Live
  <2>1. Bound(e) = today + 1
    BY DEF IInv, Windows, Bound
  <2>2. k[2] < Bound(e)
    BY <2>1, NumbersTyped, KeyTyped DEF IInv
  <2> QED
    BY <2>2 DEF IInv, Stored
<1> QED
  BY <1>1, Invariant, PTL

(* A window recorded as SUCCESS stays covered. *)
THEOREM RecordCorrect == Spec => []RecordIsTruthful
  BY Invariant, PTL DEF IInv, Recorded

=============================================================================
