------------------------- MODULE CorporateActions -------------------------
(***************************************************************************)
(* STEP 3 of the cycle: the splits and bonuses two exchanges report, each  *)
(* in a row of its own in corporate_actions_raw, and the reconciled row in *)
(* corporate_actions that says whether, and by which factor, prices are    *)
(* scaled.  corporate_actions_runner.run() is called for one exchange at a *)
(* time with the stretch of days STEP 2 had to catch up on, downloads what *)
(* the exchange now says of that stretch, persists it in one transaction   *)
(* and records the outcome in a second one.                                *)
(*                                                                         *)
(* An action is keyed by its security (isin and kind of action) and its    *)
(* ex-date.  Its ratio is a value the parser can read, or free text it     *)
(* cannot.  Exchanges publish, amend and withdraw at any time.  Days are   *)
(* counted from DEFAULT_START_DATE, day 1.                                 *)
(***************************************************************************)
EXTENDS Integers, FiniteSets, TLC

CONSTANTS
  Isins,          \* securities with an action, one kind of action each
  LastDay,        \* bound: days modelled
  ExDates,        \* bound: the ex-dates an action may have
  Ratios,         \* the ratios _extract_bonus_ratio and the like can read
  Unreadable,     \* a subject whose ratio matches no known wording
  None,           \* SQL NULL, or no row
  MaxNews,        \* bound: publications, amendments and withdrawals
  MaxFaults       \* bound: failed requests and transactions, and kills

Days == 1 .. LastDay
Keys == Isins \X ExDates
Exchanges == {"NSE", "BSE"}
Texts == Ratios \cup {Unreadable}

ASSUME CorporateActionsAssumption ==
  /\ LastDay \in Nat \ {0} /\ ExDates \subseteq Days
  /\ Unreadable \notin Ratios /\ None \notin Texts
  /\ MaxNews \in Nat /\ MaxFaults \in Nat

Statuses == {"MATCHED", "NSE_ONLY", "BSE_ONLY", "CONFLICT"}
Rows == [status : Statuses, factor : Ratios \cup {None}]

VARIABLES
  published,      \* published[exchange][key], what its export answers today
  listed,         \* securities of stock_universe, per exchange
  today,          \* LATEST_TRADE_DATE of the last cycle
  prices,         \* MAX(trade_date) of the raw prices, per exchange
  step,           \* where the run of STEP 3 is
  todo,           \* exchanges with a gap that are left in this cycle
  from,           \* incremental start of each exchange in this cycle
  rows,           \* the rows the parser made of the download
  staged,         \* corporate_actions_raw as the open transaction sees it
  outcome,        \* what the metadata row will say
  raw,            \* corporate_actions_raw
  canonical,      \* corporate_actions
  metadata,       \* corporate_actions_metadata: <<exchange, from, to>>, SUCCESS
  news, faults,
  changed,        \* history: keys that changed after they had been asked for
  excused         \* history: keys a run that did not finish was to ask for

worldVars == <<published, listed>>
runVars   == <<step, todo, from, rows, staged, outcome>>
tables    == <<raw, canonical>>
vars == <<worldVars, today, prices, runVars, tables, metadata,
          news, faults, changed, excused>>

Steps == {"idle", "request", "persist", "reconcile", "record"}

TypeOK ==
  /\ published \in [Exchanges -> [Keys -> Texts \cup {None}]]
  /\ listed \in [Exchanges -> SUBSET Isins]
  /\ today \in 0 .. LastDay
  /\ prices \in [Exchanges -> 0 .. LastDay]
  /\ step \in Steps
  /\ todo \subseteq Exchanges /\ (step # "idle" => todo # {})
  /\ from \in [Exchanges -> 1 .. LastDay + 1]
  /\ rows \in [Keys -> Texts \cup {None}]
  /\ staged \in [Exchanges -> [Keys -> Texts \cup {None}]]
  /\ outcome \in {"SUCCESS", "FAILED"}
  /\ raw \in [Exchanges -> [Keys -> Texts \cup {None}]]
  /\ canonical \in [Keys -> Rows \cup {None}]
  /\ metadata \subseteq Exchanges \X Days \X Days
  /\ \A w \in metadata : w[2] <= w[3]
  /\ news \in 0 .. MaxNews /\ faults \in 0 .. MaxFaults
  /\ changed \in [Exchanges -> SUBSET Keys]
  /\ excused \in [Exchanges -> SUBSET Keys]

-----------------------------------------------------------------------------
(* Reconciliation of the two exchanges' rows of one key.                   *)

(* _factor_from_face_values() of what the parser read. *)
Factor(text) == IF text \in Ratios THEN text ELSE None

(* _ratios_agree() is False: both are readable, and differ. *)
Disagree(nse, bse) == {nse, bse} \subseteq Ratios /\ nse # bse

(* The canonical row of what the exchanges report. *)
Reconciled(nse, bse) ==
  CASE nse = None /\ bse = None -> None
    [] nse # None /\ bse = None ->
         [status |-> "NSE_ONLY", factor |-> Factor(nse)]
    [] nse = None /\ bse # None ->
         [status |-> "BSE_ONLY", factor |-> Factor(bse)]
    [] nse # None /\ bse # None /\ Disagree(nse, bse) ->
         [status |-> "CONFLICT", factor |-> None]
    [] OTHER ->
         [status |-> "MATCHED",
          factor |-> IF Factor(nse) # None THEN Factor(nse) ELSE Factor(bse)]

(* Mutant: a key that is stored already is not reconciled again. *)
TouchedNewOnly(e) == {k \in Keys : rows[k] # None /\ raw[e][k] = None}

(* The keys persist_raw() returns. *)
Touched(e) == {k \in Keys : rows[k] # None}

-----------------------------------------------------------------------------
NoKeys == [k \in Keys |-> None]

Init ==
  /\ published = [e \in Exchanges |-> NoKeys]
  /\ listed = [e \in Exchanges |-> Isins]
  /\ today = 0 /\ prices = [e \in Exchanges |-> 0]
  /\ step = "idle" /\ todo = {} /\ from = [e \in Exchanges |-> 1]
  /\ rows = NoKeys /\ staged = [e \in Exchanges |-> NoKeys]
  /\ outcome = "SUCCESS"
  /\ raw = [e \in Exchanges |-> NoKeys] /\ canonical = NoKeys
  /\ metadata = {} /\ news = 0 /\ faults = 0
  /\ changed = [e \in Exchanges |-> {}] /\ excused = [e \in Exchanges |-> {}]

Current == IF "NSE" \in todo THEN "NSE" ELSE "BSE"

(* Mutant: the window ends before its last day. *)
OpenWindow(e) == {k \in Keys : from[e] <= k[2] /\ k[2] < today}

(* The keys a request for the stretch of days can answer. *)
Window(e) == {k \in Keys : from[e] <= k[2] /\ k[2] <= today}

Fault   == faults < MaxFaults /\ faults' = faults + 1
NoFault == UNCHANGED faults

-----------------------------------------------------------------------------
(* The exchanges and the uploads of the stock universe.  A run reads an    *)
(* export once, and stock_universe once: a change in the middle of a cycle *)
(* is one before it or after it.                                           *)

(* An exchange publishes an action, amends its ratio or withdraws it. *)
Publish(e, k, text) ==
  /\ step = "idle" /\ news < MaxNews /\ news' = news + 1
  /\ published[e][k] # text
  /\ published' = [published EXCEPT ![e][k] = text]
  /\ changed' = [changed EXCEPT ![e] = IF k[2] <= today THEN @ \cup {k} ELSE @]
  /\ UNCHANGED <<listed, today, prices, runVars, tables, metadata, faults,
                 excused>>

(* A security leaves, or joins, the uploaded universe of an exchange. *)
Relist(e, isin) ==
  /\ step = "idle" /\ news < MaxNews /\ news' = news + 1
  /\ listed' = [listed EXCEPT
                  ![e] = IF isin \in @ THEN @ \ {isin} ELSE @ \cup {isin}]
  /\ changed' = [changed EXCEPT
                   ![e] = @ \cup {k \in Keys : k[1] = isin /\ k[2] <= today}]
  /\ UNCHANGED <<published, today, prices, runVars, tables, metadata, faults,
                 excused>>

-----------------------------------------------------------------------------
(* The cycle around the step.                                              *)

(* _incremental_start() of the last persisted trade date. *)
IncrementalStart(d) == d + 1

(* The freshness read failed: no exchange has a price. *)
NoFreshness == [e \in Exchanges |-> 0]

(* A cycle begins on day d: the freshness of the raw prices decides which  *)
(* exchanges have a gap, and STEP 2 catches up on some or all of it.       *)
StartCycle(d) ==
  /\ step = "idle" /\ d >= today
  /\ today' = d
  /\ \E fresh \in {prices, NoFreshness} :
       /\ \/ fresh = prices /\ NoFault
          \/ fresh = NoFreshness /\ Fault
       /\ todo' = {e \in Exchanges : fresh[e] < d}
       /\ from' = [e \in Exchanges |->
                     IF e \in todo' THEN IncrementalStart(fresh[e]) ELSE 1]
  /\ todo' # {}
  /\ \E reached \in [Exchanges -> 0 .. LastDay] :
       /\ \A e \in Exchanges :
            /\ prices[e] <= reached[e]
            /\ reached[e] <= IF e \in todo' THEN d ELSE prices[e]
       /\ prices' = reached
  /\ step' = "request"
  /\ UNCHANGED <<worldVars, rows, staged, outcome, tables, metadata, news,
                 changed, excused>>

-----------------------------------------------------------------------------
(* run() for one exchange.                                                 *)

(* What the export answers for the window. *)
Answer(e) == [k \in Keys |-> IF k \in Window(e) THEN published[e][k] ELSE None]

(* The rows whose symbol or scrip code stock_universe knows; the rest is   *)
(* dropped and counted.                                                    *)
Resolved(e) == [k \in Keys |-> IF k[1] \in listed[e] THEN rows[k] ELSE None]

(* Mutant: a row that is there already is left alone. *)
InsertedOnly(e, new) ==
  [raw EXCEPT ![e] = [k \in Keys |-> IF @[k] = None THEN new[k] ELSE @[k]]]

(* The table after persist_raw(): an upsert by exchange and key. *)
Upserted(e, new) ==
  [raw EXCEPT ![e] = [k \in Keys |-> IF new[k] # None THEN new[k] ELSE @[k]]]

(* The exchange has answered for the window, and its answer is stored. *)
Asked(e) ==
  /\ changed' = [changed EXCEPT ![e] = @ \ Window(e)]
  /\ excused' = [excused EXCEPT ![e] = @ \ Window(e)]

(* The window has not been asked for. *)
NotAsked(e) ==
  /\ excused' = [excused EXCEPT ![e] = @ \cup Window(e)]
  /\ UNCHANGED changed

(* The download: rows, none at all, or an error. *)
Request ==
  /\ step = "request"
  /\ LET e == Current
     IN \/ /\ NoFault /\ rows' = Answer(e)
           /\ outcome' = "SUCCESS"
           /\ IF rows' = NoKeys
              THEN step' = "record" /\ Asked(e)
              ELSE step' = "persist" /\ UNCHANGED <<changed, excused>>
        \/ /\ Fault /\ rows' = NoKeys
           /\ outcome' = "FAILED" /\ step' = "record"
           /\ NotAsked(e)
  /\ UNCHANGED <<worldVars, today, prices, todo, from, staged, tables, metadata,
                 news>>

(* Mutant: a run that failed is recorded as one that succeeded. *)
FailedAsSuccess == "SUCCESS"

Failure == "FAILED"

(* A failure of the connection, the resolution, the parser or a statement  *)
(* rolls everything back. *)
Fails ==
  /\ Fault
  /\ outcome' = Failure /\ step' = "record"
  /\ staged' = raw
  /\ NotAsked(Current)
  /\ UNCHANGED <<rows, tables>>

(* Resolve and parse the rows, then persist_raw() inside the transaction. *)
PersistRaw ==
  /\ step = "persist"
  /\ LET e == Current
     IN \/ /\ rows' = Resolved(e)
           /\ staged' = Upserted(e, Resolved(e))
           /\ step' = "reconcile"
           /\ NoFault
           /\ UNCHANGED <<tables, outcome, changed, excused>>
        \/ Fails
  /\ UNCHANGED <<worldVars, today, prices, todo, from, metadata, news>>

(* reconcile() of the touched keys, and the commit of both. *)
Reconcile ==
  /\ step = "reconcile"
  /\ \/ LET e == Current
            new == [k \in Keys |-> IF k \in Touched(e)
                      THEN Reconciled(staged["NSE"][k], staged["BSE"][k])
                      ELSE canonical[k]]
        IN /\ raw' = staged /\ canonical' = new
           /\ step' = "record"
           /\ NoFault /\ Asked(e)
           /\ UNCHANGED <<rows, staged, outcome>>
     \/ Fails
  /\ UNCHANGED <<worldVars, today, prices, todo, from, metadata, news>>

Idle ==
  /\ step' = "idle" /\ todo' = {} /\ from' = [e \in Exchanges |-> 1]

(* upsert_corporate_actions_metadata(): one row per exchange and window. *)
RecordedWindow(w) ==
  IF outcome = "SUCCESS" THEN metadata \cup {w} ELSE metadata \ {w}

(* _write_ca_metadata(), a failure of which is only logged.  Then the next *)
(* exchange, or the next step.                                             *)
Record ==
  /\ step = "record"
  /\ \/ metadata' = RecordedWindow(<<Current, from[Current], today>>) /\ NoFault
     \/ UNCHANGED metadata /\ Fault
  /\ IF Cardinality(todo) > 1
     THEN step' = "request" /\ todo' = todo \ {Current} /\ UNCHANGED from
     ELSE Idle
  /\ rows' = NoKeys /\ staged' = raw /\ outcome' = "SUCCESS"
  /\ UNCHANGED <<worldVars, today, prices, tables, news, changed, excused>>

(* A kill loses the open transaction and the rest of the cycle. *)
Crash ==
  /\ step # "idle"
  /\ Fault
  /\ Idle
  /\ rows' = NoKeys /\ staged' = raw /\ outcome' = "SUCCESS"
  /\ excused' = [e \in Exchanges |->
                   IF e \in todo THEN excused[e] \cup Window(e) ELSE excused[e]]
  /\ UNCHANGED <<worldVars, today, prices, tables, metadata, news, changed>>

Symmetry == Permutations(Ratios)

-----------------------------------------------------------------------------
Next ==
  \/ \E e \in Exchanges, k \in Keys, t \in Texts \cup {None} : Publish(e, k, t)
  \/ \E e \in Exchanges, i \in Isins : Relist(e, i)
  \/ \E d \in Days : StartCycle(d)
  \/ Request \/ PersistRaw \/ Reconcile \/ Record
  \/ Crash

Spec == Init /\ [][Next]_vars

-----------------------------------------------------------------------------
(* Properties.                                                             *)

(* Whatever was reported, in which order, amended how often and with which *)
(* runs rolled back or killed: the reconciled row of every key is the      *)
(* reconciliation of what the two exchanges last reported.                 *)
CanonicalFollowsRaw ==
  \A k \in Keys : canonical[k] = Reconciled(raw["NSE"][k], raw["BSE"][k])

(* A run is recorded as SUCCESS only when every row of the download that   *)
(* could be resolved is stored.                                            *)
SuccessIsStored ==
  step = "record" /\ outcome = "SUCCESS" =>
    \A k \in Keys : rows[k] # None => raw[Current][k] = rows[k]

(* What an exchange reports of a security in its universe, and has not     *)
(* changed since it last answered for the day.                             *)
Settled(e, k) ==
  k \notin changed[e] /\ k[1] \in listed[e] /\ published[e][k] # None

(* The windows of successive cycles leave no hole: what an exchange had    *)
(* published before the day was asked for is stored after the cycle that   *)
(* asked for it, unless that run failed or was killed and the day has not  *)
(* been asked for again.                                                   *)
NoHoleInWindows ==
  step = "idle" =>
    \A e \in Exchanges : \A k \in Keys :
      k[2] <= today /\ Settled(e, k) /\ k \notin excused[e] =>
        raw[e][k] = published[e][k]

(* A window whose row says SUCCESS stays covered, as is_fresh_through()    *)
(* takes it to be: whatever later runs of overlapping windows amend, fail  *)
(* to write, roll back or lose to a kill, what the exchange reports of its *)
(* days is stored, but for what has changed since it last answered.        *)
RecordIsTruthful ==
  \A w \in metadata : \A k \in Keys :
    w[2] <= k[2] /\ k[2] <= w[3] /\ Settled(w[1], k) =>
      raw[w[1]][k] = published[w[1]][k]

=============================================================================
