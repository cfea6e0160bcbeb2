------------------------------ MODULE Enrichment ------------------------------
(***************************************************************************)
(* One enrichment batch of stock_universe_update_listener.py: worker       *)
(* threads drain a queue of ISINs, resolve the NSE side and the BSE side   *)
(* of each from the exchanges and the fallback tiers, write each side's    *)
(* row in its own transaction, and count the outcomes under a lock; the    *)
(* batch then turns the counts into the status that moves the cursor.      *)
(*                                                                         *)
(* Of a row only its sector is kept (where it came from), the one field    *)
(* that later steps of the same batch may overwrite.  The order of the     *)
(* queue is left open.                                                     *)
(***************************************************************************)
EXTENDS Integers

CONSTANTS
  NseListed, BseListed,  \* ISINs with an NSE symbol, with a BSE code
  Workers,               \* the threads, WORKER_THREAD_COUNT of them
  MaxFaults              \* bound: failed connections, writes and sessions

ASSUME BatchAssumption == Workers # {} /\ MaxFaults \in Nat

Isins == NseListed \cup BseListed
Sides == {"nse", "bse"}
Listed(i) == {s \in Sides : i \in (IF s = "nse" THEN NseListed ELSE BseListed)}

VARIABLES
  batch_pc,       \* _run_enrichment_batch_body()
  queue,          \* work_queue
  wpc, item,      \* what each worker does, and with which ISIN
  nse_source,     \* nse_taxonomy_source: the tier the NSE sector came from
  shareable,      \* nse_row_shareable
  sector,         \* where the sector of each row came from
  outcomes,       \* the shared counters, by side: what it was counted as
  recorded,       \* status of the stock_universe_enrichment_run row
  audited,        \* the audit rows are in the database
  faults

workerVars == <<queue, wpc, item, nse_source, shareable>>
endVars    == <<recorded, audited>>
vars == <<batch_pc, workerVars, sector, outcomes, endVars, faults>>

NoIsin == "no isin"

(* "missing": no sector key; "others": the catch-all; "known": from an     *)
(* earlier batch; "tier": Yahoo or TradingView; "nse", "bse": the official *)
(* API of that exchange.                                                   *)
Sectors == {"missing", "others", "known", "tier", "nse", "bse"}
Sources == {"none", "tier", "nse"}
Outcomes == {"enriched", "failed", "excluded"}

TypeOK ==
  /\ batch_pc \in {"maps", "work", "record", "audit", "end"}
  /\ queue \subseteq Isins
  /\ wpc \in [Workers -> {"start", "get", "nse", "bse", "share", "done",
                          "dead"}]
  /\ item \in [Workers -> Isins \cup {NoIsin}]
  /\ nse_source \in [Workers -> Sources]
  /\ shareable \in [Workers -> BOOLEAN]
  /\ sector \in [Isins -> [Sides -> Sectors]]
  /\ outcomes \in [Isins -> [Sides -> SUBSET Outcomes]]
  /\ recorded \in {"none", "SUCCESS", "PARTIAL", "FAILED"}
  /\ audited \in BOOLEAN
  /\ faults \in 0 .. MaxFaults

Init ==
  /\ batch_pc = "maps"
  /\ queue = Isins
  /\ wpc = [w \in Workers |-> "start"]
  /\ item = [w \in Workers |-> NoIsin]
  /\ nse_source = [w \in Workers |-> "none"]
  /\ shareable = [w \in Workers |-> FALSE]
  /\ \E old \in {"missing", "others", "known"} :
       sector = [i \in Isins |-> [s \in Sides |-> old]]
  /\ outcomes = [i \in Isins |-> [s \in Sides |-> {}]]
  /\ recorded = "none" /\ audited = FALSE
  /\ faults = 0

Fault == faults < MaxFaults /\ faults' = faults + 1
NoFault == UNCHANGED faults

-----------------------------------------------------------------------------
(* The batch.                                                              *)

OthersFilled ==
  [i \in Isins |-> [s \in Sides |->
     IF sector[i][s] = "missing" THEN "others" ELSE sector[i][s]]]

(* TaxonomyMaps(): _fill_others() gives every row without a sector key the *)
(* catch-all.  When the maps cannot be loaded, or the ISINs cannot be read *)
(* before, the batch ends with nothing recorded.                           *)
LoadMaps ==
  /\ batch_pc = "maps"
  /\ \/ batch_pc' = "work" /\ NoFault /\ sector' = OthersFilled
     \/ batch_pc' = "end" /\ Fault /\ sector' \in {sector, OthersFilled}
  /\ UNCHANGED <<workerVars, outcomes, endVars>>

(* Every thread has been joined. *)
JoinWorkers ==
  /\ batch_pc = "work" /\ batch_pc' = "record"
  /\ \A w \in Workers : wpc[w] \in {"done", "dead"}
  /\ UNCHANGED <<workerVars, sector, outcomes, endVars, faults>>

Some(kind) == \E i \in Isins, s \in Sides : kind \in outcomes[i][s]

Status ==
  IF ~Some("failed") THEN "SUCCESS"
  ELSE IF Some("enriched") THEN "PARTIAL"
  ELSE "FAILED"

(* record_enrichment_run(), then record_enrichment_audit_rows(), each with *)
(* a commit of its own.                                                    *)
RecordRun ==
  /\ batch_pc = "record"
  /\ \/ recorded' = Status /\ batch_pc' = "audit" /\ NoFault
     \/ batch_pc' = "end" /\ UNCHANGED recorded /\ Fault
  /\ UNCHANGED <<workerVars, sector, outcomes, audited>>

RecordAudit ==
  /\ batch_pc = "audit" /\ batch_pc' = "end"
  /\ \/ audited' = TRUE /\ NoFault
     \/ UNCHANGED audited /\ Fault
  /\ UNCHANGED <<workerVars, sector, outcomes, recorded>>

-----------------------------------------------------------------------------
(* A worker.                                                               *)

Goes(w, from, to) == wpc[w] = from /\ wpc' = [wpc EXCEPT ![w] = to]

(* Its own connection and sessions. *)
OpenConnection(w) ==
  /\ batch_pc = "work"
  /\ \/ Goes(w, "start", "get") /\ NoFault
     \/ Goes(w, "start", "dead") /\ Fault
  /\ UNCHANGED <<batch_pc, queue, item, nse_source, shareable, sector,
                 outcomes, endVars>>

FirstSide(i) == IF i \in NseListed THEN "nse" ELSE "bse"

TakeIsin(w) ==
  /\ batch_pc = "work"
  /\ \E i \in queue :
       /\ Goes(w, "get", FirstSide(i))
       /\ queue' = queue \ {i}
       /\ item' = [item EXCEPT ![w] = i]
  /\ nse_source' = [nse_source EXCEPT ![w] = "none"]
  /\ shareable' = [shareable EXCEPT ![w] = FALSE]
  /\ UNCHANGED <<batch_pc, sector, outcomes, endVars, faults>>

(* Mutant: the worker waits for more work. *)
QueueClosed == FALSE

QueueEmpty == queue = {}

QueueDrained(w) ==
  /\ batch_pc = "work"
  /\ QueueEmpty
  /\ Goes(w, "get", "done")
  /\ UNCHANGED <<batch_pc, queue, item, nse_source, shareable, sector,
                 outcomes, endVars, faults>>

(* One outcome of one side, under results_lock. *)
Count(kind, i, s) == outcomes' = [outcomes EXCEPT ![i][s] = @ \cup {kind}]

(* Mutant: a source gap turns the sector into the catch-all. *)
GapIsOthers(i, s, src) == IF src = "none" THEN "others" ELSE src

(* Mutant: whatever the sources gave is written, and nothing is a value.   *)
AsFetched(i, s, src) == src

(* TaxonomyMaps.apply(): without a sector from any source the row keeps    *)
(* the one it has, and takes the catch-all when it has none.               *)
AppliedSector(i, s, src) ==
  IF src # "none" THEN src
  ELSE IF sector[i][s] = "missing" THEN "others"
  ELSE sector[i][s]

Written(i, s, src) == [sector EXCEPT ![i][s] = AppliedSector(i, s, src)]

(* What becomes of a side: its exchange excludes it; no source has data or *)
(* no field survives sanitation; it is written; or a request, the write or *)
(* the commit fails and is rolled back.                                    *)
SideExcluded(i, s) == Count("excluded", i, s) /\ NoFault /\ UNCHANGED sector

SideEmpty(i, s) == Count("failed", i, s) /\ NoFault /\ UNCHANGED sector

SideWritten(i, s, src) ==
  /\ Count("enriched", i, s) /\ NoFault
  /\ sector' = Written(i, s, src)

SideFails(i, s) == Count("failed", i, s) /\ Fault /\ UNCHANGED sector

(* Mutant: the BSE side of an ISIN whose NSE side gave nothing is skipped. *)
SkipsBse(i) == "get"

SideAfterNse(i) == IF i \in BseListed THEN "bse" ELSE "get"

(* Mutant: a row the NSE excludes may take the BSE's sector. *)
AlwaysShareable(w, excluded) == shareable' = [shareable EXCEPT ![w] = TRUE]

ShareableUnless(w, excluded) ==
  shareable' = [shareable EXCEPT ![w] = ~excluded]

NseSide(w) ==
  LET i == item[w] IN
  /\ Goes(w, "nse", SideAfterNse(i))
  /\ \E src \in {"none", "tier", "nse"} :
       /\ nse_source' = [nse_source EXCEPT ![w] = src]
       /\ \/ src = "none" /\ SideExcluded(i, "nse") /\ ShareableUnless(w, TRUE)
          \/ src = "none" /\ SideEmpty(i, "nse") /\ ShareableUnless(w, FALSE)
          \/ SideWritten(i, "nse", src) /\ ShareableUnless(w, FALSE)
          \/ SideFails(i, "nse") /\ \E x \in BOOLEAN : ShareableUnless(w, x)
  /\ UNCHANGED <<batch_pc, queue, item, endVars>>

(* Mutant: the official sector of the NSE row is not looked at. *)
SharesAlways(w) == item[w] \in NseListed /\ shareable[w]

(* Mutant: only a row without any sector takes that of the BSE. *)
SharesIntoGap(w) ==
  item[w] \in NseListed /\ shareable[w] /\ nse_source[w] = "none"

(* An NSE row without an official sector takes that of the BSE.            *)
SharesSector(w) ==
  item[w] \in NseListed /\ shareable[w] /\ nse_source[w] # "nse"

BseSide(w) ==
  LET i == item[w] IN
  /\ \/ /\ Goes(w, "bse", "get")
        /\ SideExcluded(i, "bse") \/ SideEmpty(i, "bse") \/ SideFails(i, "bse")
     \/ \E src \in {"none", "tier", "bse"} :
          /\ Goes(w, "bse",
                  IF src = "bse" /\ SharesSector(w) THEN "share" ELSE "get")
          /\ SideWritten(i, "bse", src)
  /\ UNCHANGED <<batch_pc, queue, item, nse_source, shareable, endVars>>

SharedFromBse(i) == [sector EXCEPT ![i]["nse"] = "bse"]

(* The sharing step is inside the BSE side's try block, after its count.   *)
ShareSector(w) ==
  /\ Goes(w, "share", "get")
  /\ \/ sector' = SharedFromBse(item[w]) /\ UNCHANGED outcomes /\ NoFault
     \/ SideFails(item[w], "bse")
  /\ UNCHANGED <<batch_pc, queue, item, nse_source, shareable, endVars>>

(* The rollback in the handler fails as well, as it does on a connection   *)
(* that is gone: the exception ends the thread before the side is counted, *)
(* with its write committed or not.                                        *)
WorkerDies(w) ==
  /\ \/ /\ wpc[w] \in Sides
        /\ \/ UNCHANGED sector
           \/ \E src \in {"none", "tier", wpc[w]} :
                sector' = Written(item[w], wpc[w], src)
     \/ wpc[w] = "share" /\ sector' \in {sector, SharedFromBse(item[w])}
  /\ wpc' = [wpc EXCEPT ![w] = "dead"]
  /\ Fault
  /\ UNCHANGED <<batch_pc, queue, item, nse_source, shareable, outcomes,
                 endVars>>

-----------------------------------------------------------------------------
WorkerStep(w) ==
  \/ OpenConnection(w) \/ TakeIsin(w) \/ QueueDrained(w)
  \/ NseSide(w) \/ BseSide(w) \/ ShareSector(w) \/ WorkerDies(w)

BatchStep == LoadMaps \/ JoinWorkers \/ RecordRun \/ RecordAudit

Next == BatchStep \/ \E w \in Workers : WorkerStep(w)

Spec == Init /\ [][Next]_vars

(* The main thread and the workers are threads of one process that is not  *)
(* killed, and every request has a timeout.                                *)
FairSpec ==
  /\ Spec
  /\ WF_vars(BatchStep)
  /\ \A w \in Workers : WF_vars(WorkerStep(w))

-----------------------------------------------------------------------------
(* Properties.                                                             *)

Died == {w \in Workers : wpc[w] = "dead"}

Counted == batch_pc \in {"record", "audit"} /\ Died = {}

(* When the batch is counted and no worker has died, both sides of every   *)
(* ISIN have been counted, whatever failed on the other side of the same   *)
(* ISIN.                                                                   *)
AllSidesCounted ==
  Counted => \A i \in Isins : \A s \in Listed(i) : outcomes[i][s] # {}

(* What no step of a batch does to a row: a sector that it wrote from the   *)
(* official NSE API is not lost to the BSE side of the same ISIN, resolved *)
(* later; a source gap does not turn a known sector into the catch-all;    *)
(* and once an exchange has excluded a side nothing writes that row,       *)
(* neither its own side nor the sharing step of the other.                 *)
RowNeverWorse ==
  [][\A i \in Isins : \A s \in Sides :
       /\ sector[i]["nse"] = "nse" => sector'[i]["nse"] = "nse"
       /\ sector[i][s] \notin {"missing", "others"}
            => sector'[i][s] \notin {"missing", "others"}
       /\ "excluded" \in outcomes[i][s] => sector'[i][s] = sector[i][s]]_vars

(* The official sector of the BSE reaches both rows of an ISIN: once the   *)
(* batch is counted, an enriched NSE row next to it has an official sector *)
(* too, or the BSE side is among the failed.                               *)
OfficialSectorShared ==
  Counted =>
    \A i \in NseListed \cap BseListed :
      sector[i]["bse"] = "bse" /\ outcomes[i]["nse"] = {"enriched"} =>
        sector[i]["nse"] \in {"nse", "bse"} \/ "failed" \in outcomes[i]["bse"]

(* The batch ends, whatever the workers meet: none of them waits for work  *)
(* that will not come, and the main thread does not wait for a dead one.   *)
BatchEnds == <>(batch_pc = "end")

-----------------------------------------------------------------------------
(* What comments of the code say and its steps do not do.                  *)

(* "cursor >= max_metadata_id means enrichment for this exact upload is    *)
(* done": a recorded run has counted every side.                           *)
RecordedIsDone ==
  recorded \in {"SUCCESS", "PARTIAL"} =>
    \A i \in Isins : \A s \in Listed(i) : outcomes[i][s] # {}

=============================================================================
