-------------------------- MODULE EnrichmentProofs --------------------------
(***************************************************************************)
(* Proofs about Enrichment, for every set of securities and every number   *)
(* of workers, one at least.  An ISIN is in the queue, or with one worker, *)
(* or done with; from that follow what a step may do to its two rows and   *)
(* that none of its sides is forgotten.                                    *)
(***************************************************************************)
EXTENDS Enrichment, TLAPS

(* A worker has an ISIN in hand, and no other worker has the same. *)
Busy(w) == wpc[w] \in {"nse", "bse", "share"}

Alone ==
  \A w \in Workers : Busy(w) =>
    /\ item[w] \in Isins \ queue
    /\ \A v \in Workers \ {w} : Busy(v) => item[v] # item[w]

(* Nothing has been written to a row of the ISIN, or counted. *)
Earlier == {"missing", "others", "known"}
Untouched(i) ==
  \A s \in Sides : outcomes[i][s] = {} /\ sector[i][s] \in Earlier

Queued == \A i \in queue : Untouched(i)

(* What a worker may rely on at each of its stations. *)
AtNse(w) ==
  wpc[w] = "nse" => item[w] \in NseListed /\ Untouched(item[w])

AtBse(w) ==
  wpc[w] = "bse" =>
    /\ item[w] \in BseListed
    /\ outcomes[item[w]]["bse"] = {} /\ sector[item[w]]["bse"] \in Earlier
    /\ sector[item[w]]["nse"] = "nse" => nse_source[w] = "nse"
    /\ "excluded" \in outcomes[item[w]]["nse"] => ~shareable[w]
    /\ item[w] \in NseListed /\ outcomes[item[w]]["nse"] = {"enriched"} =>
         /\ shareable[w]
         /\ nse_source[w] = "nse" => sector[item[w]]["nse"] = "nse"

AtShare(w) ==
  wpc[w] = "share" =>
    /\ sector[item[w]]["nse"] # "nse"
    /\ "excluded" \notin outcomes[item[w]]["nse"]

Stations == \A w \in Workers : AtNse(w) /\ AtBse(w) /\ AtShare(w)

(* The batch around the workers. *)
Phases ==
  /\ batch_pc = "maps" =>
       /\ \A w \in Workers : wpc[w] = "start"
       /\ \A i \in Isins : Untouched(i)
  /\ batch_pc \in {"record", "audit"} =>
       \A w \in Workers : wpc[w] \in {"done", "dead"}
  /\ (\E w \in Workers : wpc[w] = "done") => queue = {}

(* A side that is not counted is still to come, unless a worker has died. *)
SideToCome(i, s) ==
  \/ i \in queue
  \/ \E w \in Workers : /\ item[w] = i
                        /\ wpc[w] = "nse" \/ (wpc[w] = "bse" /\ s = "bse")

SidesOwed ==
  Died = {} =>
    \A i \in Isins : \A s \in Listed(i) : outcomes[i][s] # {} \/ SideToCome(i, s)

(* So is a sharing step. *)
ShareOwed ==
  Died = {} =>
    \A i \in NseListed \cap BseListed :
      sector[i]["bse"] = "bse" /\ outcomes[i]["nse"] = {"enriched"} =>
        \/ sector[i]["nse"] \in {"nse", "bse"} \/ "failed" \in outcomes[i]["bse"]
        \/ \E w \in Workers : item[w] = i /\ wpc[w] = "share"

-----------------------------------------------------------------------------
(* Typing.                                                                 *)

LEMMA FaultTyped ==
  ASSUME faults \in 0 .. MaxFaults, Fault \/ NoFault
  PROVE  faults' \in 0 .. MaxFaults
  BY BatchAssumption DEF BatchAssumption, Fault, NoFault

LEMMA GoesTyped ==
  ASSUME TypeOK, NEW w \in Workers, NEW from,
         NEW to \in {"start", "get", "nse", "bse", "share", "done", "dead"},
         Goes(w, from, to)
  PROVE  wpc' \in [Workers -> {"start", "get", "nse", "bse", "share", "done", "dead"}]
  BY DEF TypeOK, Goes

LEMMA CountTyped ==
  ASSUME TypeOK, NEW i \in Isins, NEW s \in Sides, NEW kind \in Outcomes,
         Count(kind, i, s)
  PROVE  outcomes' \in [Isins -> [Sides -> SUBSET Outcomes]]
  BY DEF TypeOK, Count

LEMMA AppliedTyped ==
  ASSUME TypeOK, NEW i \in Isins, NEW s \in Sides, NEW src \in {"none", "tier", "nse", "bse"}
  PROVE  /\ AppliedSector(i, s, src) \in Sectors
         /\ AppliedSector(i, s, src) = "nse" => src = "nse" \/ sector[i][s] = "nse"
         /\ AppliedSector(i, s, src) = "bse" => src = "bse" \/ sector[i][s] = "bse"
         /\ src = "nse" => AppliedSector(i, s, src) = "nse"
         /\ sector[i][s] \notin {"missing", "others"} =>
              AppliedSector(i, s, src) \notin {"missing", "others"}
  BY DEF TypeOK, AppliedSector, Sectors

LEMMA WrittenTyped ==
  ASSUME TypeOK, NEW i \in Isins, NEW s \in Sides, NEW src \in {"none", "tier", "nse", "bse"}
  PROVE  Written(i, s, src) \in [Isins -> [Sides -> Sectors]]
  BY AppliedTyped DEF TypeOK, Written

LEMMA SharedTyped ==
  ASSUME TypeOK, NEW i \in Isins
  PROVE  SharedFromBse(i) \in [Isins -> [Sides -> Sectors]]
  BY DEF TypeOK, SharedFromBse, Sides, Sectors

LEMMA FilledTyped ==
  ASSUME TypeOK PROVE OthersFilled \in [Isins -> [Sides -> Sectors]]
  BY DEF TypeOK, OthersFilled, Sectors

LEMMA ShareableTyped ==
  ASSUME shareable \in [Workers -> BOOLEAN], NEW w \in Workers, NEW x \in BOOLEAN,
         ShareableUnless(w, x)
  PROVE  shareable' \in [Workers -> BOOLEAN]
  BY Zenon DEF ShareableUnless

(* What the outcome of a side does to the counters and the sectors. *)
LEMMA SideTyped ==
  ASSUME TypeOK, NEW i \in Isins, NEW s \in Sides, NEW src \in {"none", "tier", "nse", "bse"},
         \/ SideExcluded(i, s) \/ SideEmpty(i, s) \/ SideFails(i, s)
         \/ SideWritten(i, s, src)
  PROVE  /\ sector' \in [Isins -> [Sides -> Sectors]]
         /\ outcomes' \in [Isins -> [Sides -> SUBSET Outcomes]]
         /\ faults' \in 0 .. MaxFaults
<1>1. faults' \in 0 .. MaxFaults
  BY FaultTyped DEF TypeOK, SideExcluded, SideEmpty, SideFails, SideWritten
<1>2. sector' \in [Isins -> [Sides -> Sectors]]
  BY WrittenTyped DEF TypeOK, SideExcluded, SideEmpty, SideFails, SideWritten
<1>3. \E kind \in Outcomes : Count(kind, i, s)
  BY DEF SideExcluded, SideEmpty, SideFails, SideWritten, Outcomes
<1> QED
  BY <1>1, <1>2, <1>3, CountTyped

LEMMA InitTyped == Init => TypeOK
<1> SUFFICES ASSUME Init PROVE TypeOK
  OBVIOUS
<1>1. shareable \in [Workers -> BOOLEAN] /\ audited \in BOOLEAN
  BY Zenon DEF Init
<1>2. faults \in 0 .. MaxFaults
  BY BatchAssumption DEF Init, BatchAssumption
<1> QED
  BY <1>1, <1>2 DEF Init, TypeOK, Sources, Sectors

LEMMA BatchTyped == ASSUME TypeOK, BatchStep PROVE TypeOK'
<1>1. CASE LoadMaps
  <2>1. sector' \in [Isins -> [Sides -> Sectors]] /\ faults' \in 0 .. MaxFaults
    BY <1>1, FilledTyped, FaultTyped DEF LoadMaps, TypeOK
  <2> QED
    BY <1>1, <2>1 DEF LoadMaps, TypeOK, workerVars, endVars
<1>2. CASE JoinWorkers
  BY <1>2 DEF JoinWorkers, TypeOK, workerVars, endVars
<1>3. CASE RecordRun
  <2>1. faults' \in 0 .. MaxFaults /\ recorded' \in {"none", "SUCCESS", "PARTIAL", "FAILED"}
    BY <1>3, FaultTyped DEF RecordRun, TypeOK, Status
  <2> QED
    BY <1>3, <2>1 DEF RecordRun, TypeOK, workerVars
<1>4. CASE RecordAudit
  <2>1. faults' \in 0 .. MaxFaults
    BY <1>4, FaultTyped DEF RecordAudit, TypeOK
  <2>2. audited' \in BOOLEAN
    BY <1>4, Zenon DEF RecordAudit, TypeOK
  <2> QED
    BY <1>4, <2>1, <2>2 DEF RecordAudit, TypeOK, workerVars
<1> QED
  BY <1>1, <1>2, <1>3, <1>4 DEF BatchStep

LEMMA WorkerTyped ==
  ASSUME TypeOK, Alone, NEW w \in Workers, WorkerStep(w) PROVE TypeOK'
<1>1. CASE OpenConnection(w)
  <2>1. faults' \in 0 .. MaxFaults
    BY <1>1, FaultTyped DEF OpenConnection, TypeOK
  <2> QED
    BY <1>1, <2>1, GoesTyped DEF OpenConnection, TypeOK, endVars
<1>2. CASE TakeIsin(w)
  <2>1. PICK i \in queue : /\ Goes(w, "get", FirstSide(i))
                           /\ queue' = queue \ {i} /\ item' = [item EXCEPT ![w] = i]
    BY <1>2 DEF TakeIsin
  <2>2. wpc' \in [Workers -> {"start", "get", "nse", "bse", "share", "done", "dead"}]
    BY <2>1, GoesTyped DEF FirstSide
  <2>3. shareable' \in [Workers -> BOOLEAN]
    BY <1>2, Zenon DEF TakeIsin, TypeOK
  <2>4. nse_source' \in [Workers -> Sources]
    BY <1>2 DEF TakeIsin, TypeOK, Sources
  <2> QED
    BY <1>2, <2>1, <2>2, <2>3, <2>4 DEF TakeIsin, TypeOK, endVars
<1>3. CASE QueueDrained(w)
  BY <1>3, GoesTyped DEF QueueDrained, TypeOK, endVars
<1>4. CASE NseSide(w)
  <2>1. item[w] \in Isins /\ "nse" \in Sides
    BY <1>4 DEF NseSide, Goes, Alone, Busy, Sides
  <2>2. wpc' \in [Workers -> {"start", "get", "nse", "bse", "share", "done", "dead"}]
    BY <1>4, GoesTyped DEF NseSide, SideAfterNse
  <2>3. PICK src \in {"none", "tier", "nse"} :
          /\ nse_source' = [nse_source EXCEPT ![w] = src]
          /\ \/ SideExcluded(item[w], "nse") /\ ShareableUnless(w, TRUE)
             \/ SideEmpty(item[w], "nse") /\ ShareableUnless(w, FALSE)
             \/ SideWritten(item[w], "nse", src) /\ ShareableUnless(w, FALSE)
             \/ SideFails(item[w], "nse") /\ \E x \in BOOLEAN : ShareableUnless(w, x)
    BY <1>4 DEF NseSide
  <2>4. shareable' \in [Workers -> BOOLEAN]
    BY <2>3, ShareableTyped, Zenon DEF TypeOK
  <2>5. nse_source' \in [Workers -> Sources]
    BY <2>3 DEF TypeOK, Sources
  <2>6. /\ sector' \in [Isins -> [Sides -> Sectors]]
        /\ outcomes' \in [Isins -> [Sides -> SUBSET Outcomes]]
        /\ faults' \in 0 .. MaxFaults
    BY <2>1, <2>3, SideTyped
  <2> QED
    BY <1>4, <2>2, <2>4, <2>5, <2>6 DEF NseSide, TypeOK, endVars
<1>5. CASE BseSide(w)
  <2>1. item[w] \in Isins /\ "bse" \in Sides
    BY <1>5 DEF BseSide, Goes, Alone, Busy, Sides
  <2>2. wpc' \in [Workers -> {"start", "get", "nse", "bse", "share", "done", "dead"}]
    BY <1>5, GoesTyped DEF BseSide
  <2>3. /\ sector' \in [Isins -> [Sides -> Sectors]]
        /\ outcomes' \in [Isins -> [Sides -> SUBSET Outcomes]]
        /\ faults' \in 0 .. MaxFaults
    BY <1>5, <2>1, SideTyped DEF BseSide
  <2> QED
    BY <1>5, <2>2, <2>3 DEF BseSide, TypeOK, endVars
<1>6. CASE ShareSector(w)
  <2>1. item[w] \in Isins /\ "bse" \in Sides
    BY <1>6 DEF ShareSector, Goes, Alone, Busy, Sides
  <2>2. wpc' \in [Workers -> {"start", "get", "nse", "bse", "share", "done", "dead"}]
    BY <1>6, GoesTyped DEF ShareSector
  <2>3. CASE SideFails(item[w], "bse")
    BY <1>6, <2>1, <2>2, <2>3, SideTyped DEF ShareSector, TypeOK, endVars
  <2>4. CASE sector' = SharedFromBse(item[w]) /\ UNCHANGED outcomes /\ NoFault
    BY <1>6, <2>1, <2>2, <2>4, SharedTyped, FaultTyped DEF ShareSector, TypeOK, endVars
  <2> QED
    BY <1>6, <2>3, <2>4 DEF ShareSector
<1>7. CASE WorkerDies(w)
  <2>1. wpc[w] \in {"nse", "bse", "share"} /\ item[w] \in Isins
    BY <1>7 DEF WorkerDies, Alone, Busy, Sides
  <2>2. sector' \in [Isins -> [Sides -> Sectors]]
    <3>1. CASE UNCHANGED sector
      BY <3>1 DEF TypeOK
    <3>2. CASE sector' = SharedFromBse(item[w])
      BY <2>1, <3>2, SharedTyped
    <3>3. ASSUME wpc[w] \in Sides, NEW src \in {"none", "tier", wpc[w]},
                 sector' = Written(item[w], wpc[w], src)
          PROVE  sector' \in [Isins -> [Sides -> Sectors]]
      <4>1. src \in {"none", "tier", "nse", "bse"}
        BY <3>3 DEF Sides
      <4> QED
        BY <2>1, <3>3, <4>1, WrittenTyped
    <3> QED
      BY <1>7, <3>1, <3>2, <3>3 DEF WorkerDies
  <2>3. faults' \in 0 .. MaxFaults
    BY <1>7, FaultTyped DEF WorkerDies, TypeOK
  <2> QED
    BY <1>7, <2>2, <2>3 DEF WorkerDies, TypeOK, endVars
<1> QED
  BY <1>1, <1>2, <1>3, <1>4, <1>5, <1>6, <1>7 DEF WorkerStep

-----------------------------------------------------------------------------
(* What a worker with an ISIN does, it does to the rows of that ISIN.      *)

OwnStep(w) ==
  /\ w \in Workers /\ Busy(w)
  /\ wpc'[w] \in {"get", "bse", "share", "dead"}
  /\ \A v \in Workers \ {w} :
       /\ wpc'[v] = wpc[v]
       /\ nse_source'[v] = nse_source[v] /\ shareable'[v] = shareable[v]
  /\ UNCHANGED <<item, queue, batch_pc>>
  /\ \A j \in Isins \ {item[w]} : sector'[j] = sector[j] /\ outcomes'[j] = outcomes[j]

LEMMA SideIsOwn ==
  ASSUME TypeOK, NEW i \in Isins, NEW s \in Sides, NEW src,
         \/ SideExcluded(i, s) \/ SideEmpty(i, s) \/ SideFails(i, s)
         \/ SideWritten(i, s, src)
  PROVE  /\ \A j \in Isins \ {i} : sector'[j] = sector[j] /\ outcomes'[j] = outcomes[j]
         /\ \A t \in Sides \ {s} :
              sector'[i][t] = sector[i][t] /\ outcomes'[i][t] = outcomes[i][t]
  BY DEF TypeOK, SideExcluded, SideEmpty, SideFails, SideWritten, Written, Count

(* The four outcomes, on the side itself. *)
LEMMA SideIs ==
  ASSUME TypeOK, NEW i \in Isins, NEW s \in Sides, NEW src
  PROVE  /\ SideExcluded(i, s) =>
              sector' = sector /\ outcomes'[i][s] = outcomes[i][s] \cup {"excluded"}
         /\ SideEmpty(i, s) \/ SideFails(i, s) =>
              sector' = sector /\ outcomes'[i][s] = outcomes[i][s] \cup {"failed"}
         /\ SideWritten(i, s, src) =>
              /\ sector'[i][s] = AppliedSector(i, s, src)
              /\ outcomes'[i][s] = outcomes[i][s] \cup {"enriched"}
  BY DEF TypeOK, SideExcluded, SideEmpty, SideFails, SideWritten, Written, Count

LEMMA SharedIs ==
  ASSUME TypeOK, NEW i \in Isins
  PROVE  /\ \A j \in Isins \ {i} : SharedFromBse(i)[j] = sector[j]
         /\ SharedFromBse(i)[i]["nse"] = "bse"
         /\ SharedFromBse(i)[i]["bse"] = sector[i]["bse"]
  BY DEF TypeOK, SharedFromBse, Sides

LEMMA WrittenIs ==
  ASSUME TypeOK, NEW i \in Isins, NEW s \in Sides, NEW src
  PROVE  /\ \A j \in Isins \ {i} : Written(i, s, src)[j] = sector[j]
         /\ \A t \in Sides \ {s} : Written(i, s, src)[i][t] = sector[i][t]
         /\ Written(i, s, src)[i][s] = AppliedSector(i, s, src)
  BY DEF TypeOK, Written

(* Each step of a worker that holds an ISIN is such a step. *)
LEMMA StepIsOwn ==
  ASSUME TypeOK, Alone, NEW w \in Workers,
         NseSide(w) \/ BseSide(w) \/ ShareSector(w) \/ WorkerDies(w)
  PROVE  OwnStep(w)
<1>1. CASE NseSide(w)
  <2>1. wpc[w] = "nse" /\ item[w] \in Isins /\ "nse" \in Sides
    BY <1>1 DEF NseSide, Goes, Alone, Busy, Sides
  <2>2. \A j \in Isins \ {item[w]} : sector'[j] = sector[j] /\ outcomes'[j] = outcomes[j]
    BY <1>1, <2>1, SideIsOwn DEF NseSide
  <2>3. \A v \in Workers \ {w} : nse_source'[v] = nse_source[v]
    BY <1>1 DEF NseSide, TypeOK
  <2>4. \A v \in Workers \ {w} : shareable'[v] = shareable[v]
    BY <1>1 DEF NseSide, ShareableUnless, TypeOK
  <2>5. /\ wpc'[w] \in {"get", "bse"} /\ \A v \in Workers \ {w} : wpc'[v] = wpc[v]
    BY <1>1 DEF NseSide, Goes, SideAfterNse, TypeOK
  <2> QED
    BY <1>1, <2>1, <2>2, <2>3, <2>4, <2>5 DEF NseSide, OwnStep, Busy
<1>2. CASE BseSide(w)
  <2>1. wpc[w] = "bse" /\ item[w] \in Isins /\ "bse" \in Sides
    BY <1>2 DEF BseSide, Goes, Alone, Busy, Sides
  <2>2. \A j \in Isins \ {item[w]} : sector'[j] = sector[j] /\ outcomes'[j] = outcomes[j]
    BY <1>2, <2>1, SideIsOwn DEF BseSide
  <2>3. /\ wpc'[w] \in {"get", "share"} /\ \A v \in Workers \ {w} : wpc'[v] = wpc[v]
    BY <1>2 DEF BseSide, Goes, TypeOK
  <2> QED
    BY <1>2, <2>1, <2>2, <2>3 DEF BseSide, OwnStep, Busy
<1>3. CASE ShareSector(w)
  <2>1. wpc[w] = "share" /\ item[w] \in Isins /\ "bse" \in Sides
    BY <1>3 DEF ShareSector, Goes, Alone, Busy, Sides
  <2>2. \A j \in Isins \ {item[w]} : sector'[j] = sector[j] /\ outcomes'[j] = outcomes[j]
    BY <1>3, <2>1, SideIsOwn, SharedIs DEF ShareSector
  <2>3. /\ wpc'[w] = "get" /\ \A v \in Workers \ {w} : wpc'[v] = wpc[v]
    BY <1>3 DEF ShareSector, Goes, TypeOK
  <2> QED
    BY <1>3, <2>1, <2>2, <2>3 DEF ShareSector, OwnStep, Busy
<1>4. CASE WorkerDies(w)
  <2>1. wpc[w] \in {"nse", "bse", "share"} /\ item[w] \in Isins
    BY <1>4 DEF WorkerDies, Alone, Busy, Sides
  <2>2. \A j \in Isins \ {item[w]} : sector'[j] = sector[j]
    BY <1>4, <2>1, WrittenIs, SharedIs DEF WorkerDies
  <2>3. /\ wpc'[w] = "dead" /\ \A v \in Workers \ {w} : wpc'[v] = wpc[v]
    BY <1>4 DEF WorkerDies, TypeOK
  <2> QED
    BY <1>4, <2>1, <2>2, <2>3 DEF WorkerDies, OwnStep, Busy
<1> QED
  BY <1>1, <1>2, <1>3, <1>4

-----------------------------------------------------------------------------
(* Each ISIN is with one worker.                                           *)

LEMMA OwnKeeps ==
  ASSUME TypeOK, Alone, Queued, Stations, Phases, NEW w \in Workers, OwnStep(w)
  PROVE  /\ Alone' /\ Queued' /\ Phases'
         /\ \A v \in Workers \ {w} : AtNse(v)' /\ AtBse(v)' /\ AtShare(v)'
<1>1. \A v \in Workers : Busy(v)' => Busy(v)
  BY DEF OwnStep, Busy
<1>2. Alone'
  BY <1>1 DEF OwnStep, Alone
<1>3. item[w] \in Isins \ queue /\ queue \subseteq Isins
  BY DEF OwnStep, Alone, TypeOK
<1>4. Queued'
  BY <1>3 DEF OwnStep, Queued, Untouched
<1>5. Phases'
  <2>1. wpc[w] \notin {"start", "done", "dead"} /\ wpc'[w] # "done"
    BY DEF OwnStep, Busy
  <2>2. batch_pc' \notin {"maps", "record", "audit"}
    BY <2>1 DEF OwnStep, Phases
  <2>3. (\E v \in Workers : wpc'[v] = "done") => queue' = {}
    BY <2>1 DEF OwnStep, Phases
  <2> QED
    BY <2>2, <2>3 DEF Phases
<1>6. ASSUME NEW v \in Workers \ {w} PROVE AtNse(v)' /\ AtBse(v)' /\ AtShare(v)'
  <2>1. CASE ~Busy(v)
    BY <2>1 DEF OwnStep, Busy, AtNse, AtBse, AtShare
  <2>2. CASE Busy(v)
    <3>1. item[v] \in Isins \ {item[w]}
      BY <2>2 DEF OwnStep, Alone
    <3>2. /\ sector'[item[v]] = sector[item[v]] /\ outcomes'[item[v]] = outcomes[item[v]]
          /\ item'[v] = item[v] /\ wpc'[v] = wpc[v]
          /\ nse_source'[v] = nse_source[v] /\ shareable'[v] = shareable[v]
      BY <3>1 DEF OwnStep
    <3>3. AtNse(v)'
      BY <3>2 DEF Stations, AtNse, Untouched
    <3>4. AtBse(v)'
      BY <3>2 DEF Stations, AtBse
    <3>5. AtShare(v)'
      BY <3>2 DEF Stations, AtShare
    <3> QED
      BY <3>3, <3>4, <3>5
  <2> QED
    BY <2>1, <2>2
<1> QED
  BY <1>2, <1>4, <1>5, <1>6

(* Nothing is forgotten of the ISINs of the other workers, and of its own  *)
(* what the worker still owes.                                             *)
OwnOwed(w) ==
  /\ \A s \in Listed(item[w]) :
       outcomes[item[w]][s] # {} \/ (wpc[w] = "bse" /\ s = "bse")
  /\ item[w] \in NseListed \cap BseListed /\ sector[item[w]]["bse"] = "bse"
     /\ outcomes[item[w]]["nse"] = {"enriched"} =>
       \/ sector[item[w]]["nse"] \in {"nse", "bse"} \/ "failed" \in outcomes[item[w]]["bse"]
       \/ wpc[w] = "share"

LEMMA OwnOwes ==
  ASSUME TypeOK, Alone, SidesOwed, ShareOwed, NEW w \in Workers, OwnStep(w),
         wpc'[w] # "dead" => OwnOwed(w)'
  PROVE  SidesOwed' /\ ShareOwed'
<1> SUFFICES ASSUME Died' = {} PROVE SidesOwed' /\ ShareOwed'
  BY DEF SidesOwed, ShareOwed
<1>1. wpc'[w] # "dead" /\ OwnOwed(w)'
  BY DEF Died
<1>2. Died = {}
  BY DEF Died, OwnStep, Busy
<1>3. item[w] \in Isins \ queue /\ item' = item /\ queue' = queue
  BY DEF OwnStep, Alone
<1>4. ASSUME NEW i \in Isins, NEW s \in Listed(i)
      PROVE  outcomes'[i][s] # {} \/ SideToCome(i, s)'
  <2>1. CASE i = item[w]
    BY <1>1, <1>3, <1>4, <2>1 DEF OwnOwed, SideToCome
  <2>2. CASE i # item[w]
    <3>1. outcomes[i][s] # {} \/ SideToCome(i, s)
      BY <1>2, <1>4 DEF SidesOwed
    <3>2. SideToCome(i, s) => SideToCome(i, s)'
      BY <1>3, <2>2 DEF SideToCome, OwnStep
    <3> QED
      BY <2>2, <3>1, <3>2 DEF OwnStep
  <2> QED
    BY <2>1, <2>2
<1>5. ASSUME NEW i \in NseListed \cap BseListed,
             sector'[i]["bse"] = "bse", outcomes'[i]["nse"] = {"enriched"}
      PROVE  \/ sector'[i]["nse"] \in {"nse", "bse"} \/ "failed" \in outcomes'[i]["bse"]
             \/ \E v \in Workers : item'[v] = i /\ wpc'[v] = "share"
  <2>1. CASE i = item[w]
    BY <1>1, <1>3, <1>5, <2>1 DEF OwnOwed
  <2>2. CASE i # item[w]
    <3>1. sector'[i] = sector[i] /\ outcomes'[i] = outcomes[i]
      BY <2>2 DEF OwnStep, Isins
    <3>2. \/ sector[i]["nse"] \in {"nse", "bse"} \/ "failed" \in outcomes[i]["bse"]
          \/ \E v \in Workers : item[v] = i /\ wpc[v] = "share"
      BY <1>2, <1>5, <3>1 DEF ShareOwed
    <3>3. \A v \in Workers : item[v] = i => wpc'[v] = wpc[v] /\ item'[v] = i
      BY <1>3, <2>2 DEF OwnStep
    <3> QED
      BY <3>1, <3>2, <3>3
  <2> QED
    BY <2>1, <2>2
<1> QED
  BY <1>4, <1>5 DEF SidesOwed, ShareOwed

(* A side a worker is past was counted. *)
LEMMA PastCounted ==
  ASSUME Alone, SidesOwed, Died = {}, NEW w \in Workers, Busy(w),
         NEW s \in Listed(item[w]), wpc[w] # "nse", wpc[w] = "bse" => s # "bse"
  PROVE  outcomes[item[w]][s] # {}
<1>1. item[w] \in Isins \ queue
  BY DEF Alone
<1>2. ~SideToCome(item[w], s)
  <2>1. ASSUME NEW v \in Workers, item[v] = item[w],
               wpc[v] = "nse" \/ (wpc[v] = "bse" /\ s = "bse")
        PROVE  FALSE
    BY <2>1 DEF Alone, Busy
  <2> QED
    BY <1>1, <2>1 DEF SideToCome
<1> QED
  BY <1>1, <1>2 DEF SidesOwed

-----------------------------------------------------------------------------
(* The steps of a worker on its own ISIN.                                  *)

RowsKeep(i) ==
  /\ sector[i]["nse"] = "nse" => sector'[i]["nse"] = "nse"
  /\ \A s \in Sides :
       /\ sector[i][s] \notin {"missing", "others"}
            => sector'[i][s] \notin {"missing", "others"}
       /\ "excluded" \in outcomes[i][s] => sector'[i][s] = sector[i][s]

LEMMA NseOwn ==
  ASSUME TypeOK, Alone, Stations, NEW w \in Workers, NseSide(w)
  PROVE  /\ AtNse(w)' /\ AtBse(w)' /\ AtShare(w)'
         /\ OwnOwed(w)' /\ RowsKeep(item[w])
<1> DEFINE i == item[w]
<1>1. /\ wpc[w] = "nse" /\ wpc'[w] = SideAfterNse(i) /\ item' = item
      /\ i \in Isins /\ i \in NseListed /\ "nse" \in Sides /\ "bse" \in Sides
      /\ Untouched(i)
  BY DEF NseSide, Goes, TypeOK, Alone, Busy, Stations, AtNse, Sides
<1>2. PICK src \in {"none", "tier", "nse"} :
        /\ nse_source' = [nse_source EXCEPT ![w] = src]
        /\ \/ src = "none" /\ SideExcluded(i, "nse") /\ ShareableUnless(w, TRUE)
           \/ src = "none" /\ SideEmpty(i, "nse") /\ ShareableUnless(w, FALSE)
           \/ SideWritten(i, "nse", src) /\ ShareableUnless(w, FALSE)
           \/ SideFails(i, "nse") /\ \E x \in BOOLEAN : ShareableUnless(w, x)
  BY DEF NseSide
<1>3. nse_source'[w] = src
  BY <1>2 DEF TypeOK
<1>4. sector'[i]["bse"] = sector[i]["bse"] /\ outcomes'[i]["bse"] = outcomes[i]["bse"]
  BY <1>1, <1>2, SideIsOwn DEF Sides
<1>5. /\ sector[i]["nse"] \in Earlier /\ sector[i]["bse"] \in Earlier
      /\ outcomes[i]["nse"] = {} /\ outcomes[i]["bse"] = {}
  BY <1>1 DEF Untouched
<1>6. \/ /\ SideExcluded(i, "nse")
         /\ sector' = sector /\ outcomes'[i]["nse"] = {"excluded"} /\ ~shareable'[w]
      \/ sector' = sector /\ outcomes'[i]["nse"] = {"failed"}
      \/ /\ sector'[i]["nse"] = AppliedSector(i, "nse", src)
         /\ outcomes'[i]["nse"] = {"enriched"} /\ shareable'[w]
  <2>1. CASE SideExcluded(i, "nse") /\ ShareableUnless(w, TRUE)
    <3>1. ~shareable'[w]
      BY <2>1 DEF ShareableUnless, TypeOK
    <3> QED
      BY <1>1, <1>5, <2>1, <3>1, SideIs
  <2>2. CASE SideEmpty(i, "nse") \/ SideFails(i, "nse")
    BY <1>1, <1>5, <2>2, SideIs
  <2>3. CASE SideWritten(i, "nse", src) /\ ShareableUnless(w, FALSE)
    <3>1. shareable'[w]
      BY <2>3 DEF ShareableUnless, TypeOK
    <3> QED
      BY <1>1, <1>5, <2>3, <3>1, SideIs
  <2> QED
    BY <1>2, <2>1, <2>2, <2>3
<1>7. sector'[i]["nse"] = "nse" => src = "nse"
  BY <1>1, <1>5, <1>6, AppliedTyped DEF Earlier
<1>8. /\ AtNse(w)' /\ AtShare(w)'
  BY <1>1 DEF AtNse, AtShare, SideAfterNse
<1>9. AtBse(w)'
  <2>1. CASE wpc'[w] # "bse"
    BY <2>1 DEF AtBse
  <2>2. CASE wpc'[w] = "bse"
    <3>1. i \in BseListed
      BY <1>1, <2>2 DEF SideAfterNse
    <3>2. "excluded" \in outcomes'[i]["nse"] => ~shareable'[w]
      BY <1>6
    <3>3. outcomes'[i]["nse"] = {"enriched"} =>
            shareable'[w] /\ (src = "nse" => sector'[i]["nse"] = "nse")
      BY <1>1, <1>6, AppliedTyped
    <3> QED
      BY <1>1, <1>3, <1>4, <1>5, <1>7, <3>1, <3>2, <3>3 DEF AtBse
  <2> QED
    BY <2>1, <2>2
<1>10. OwnOwed(w)'
  <2>1. outcomes'[i]["nse"] # {}
    BY <1>6
  <2>2. \A s \in Listed(i) : s = "nse" \/ (s = "bse" /\ i \in BseListed)
    BY DEF Listed, Sides
  <2>3. sector'[i]["bse"] # "bse"
    BY <1>4, <1>5 DEF Earlier
  <2> QED
    BY <1>1, <2>1, <2>2, <2>3 DEF OwnOwed, SideAfterNse
<1>11. RowsKeep(item[w])
  BY <1>1, <1>4, <1>5, <1>6, AppliedTyped DEF RowsKeep, Sides, Earlier
<1> QED
  BY <1>8, <1>9, <1>10, <1>11

LEMMA BseOwn ==
  ASSUME TypeOK, Alone, Stations, SidesOwed, NEW w \in Workers, BseSide(w)
  PROVE  /\ AtNse(w)' /\ AtBse(w)' /\ AtShare(w)'
         /\ Died' = {} => OwnOwed(w)'
         /\ RowsKeep(item[w])
<1> DEFINE i == item[w]
<1>1. /\ wpc[w] = "bse" /\ wpc'[w] \in {"get", "share"} /\ item' = item
      /\ i \in Isins /\ i \in BseListed /\ "nse" \in Sides /\ "bse" \in Sides
      /\ outcomes[i]["bse"] = {} /\ sector[i]["bse"] \in Earlier
      /\ nse_source' = nse_source /\ shareable' = shareable
  BY DEF BseSide, Goes, TypeOK, Alone, Busy, Stations, AtBse, Sides
<1>2. PICK src \in {"none", "tier", "bse"} :
        \/ /\ wpc'[w] = "get"
           /\ SideExcluded(i, "bse") \/ SideEmpty(i, "bse") \/ SideFails(i, "bse")
        \/ /\ wpc'[w] = IF src = "bse" /\ SharesSector(w) THEN "share" ELSE "get"
           /\ SideWritten(i, "bse", src)
  BY DEF BseSide, Goes, TypeOK
<1>3. sector'[i]["nse"] = sector[i]["nse"] /\ outcomes'[i]["nse"] = outcomes[i]["nse"]
  BY <1>1, <1>2, SideIsOwn DEF Sides
<1>4. \/ /\ wpc'[w] = "get" /\ sector' = sector /\ outcomes'[i]["bse"] # {}
      \/ /\ wpc'[w] = IF src = "bse" /\ SharesSector(w) THEN "share" ELSE "get"
         /\ sector'[i]["bse"] = AppliedSector(i, "bse", src)
         /\ outcomes'[i]["bse"] = {"enriched"}
  BY <1>1, <1>2, SideIs
<1>5. AtNse(w)' /\ AtBse(w)'
  BY <1>1 DEF AtNse, AtBse
<1>6. AtShare(w)'
  <2>1. CASE wpc'[w] # "share"
    BY <2>1 DEF AtShare
  <2>2. CASE wpc'[w] = "share"
    <3>1. SharesSector(w)
      BY <1>4, <2>2
    <3>2. sector[i]["nse"] # "nse" /\ "excluded" \notin outcomes[i]["nse"]
      BY <1>1, <3>1 DEF SharesSector, Stations, AtBse
    <3> QED
      BY <1>1, <1>3, <3>2 DEF AtShare
  <2> QED
    BY <2>1, <2>2
<1>7. ASSUME Died' = {} PROVE OwnOwed(w)'
  <2>1. Died = {}
    BY <1>7 DEF Died, BseSide, Goes, TypeOK
  <2>2. ASSUME NEW s \in Listed(i) PROVE outcomes'[i][s] # {}
    <3>1. CASE s = "bse"
      BY <1>4, <3>1
    <3>2. CASE s # "bse"
      <4>1. s = "nse"
        BY <3>2 DEF Listed, Sides
      <4>2. outcomes[i][s] # {}
        BY <1>1, <2>1, <3>2, PastCounted DEF Busy
      <4> QED
        BY <1>3, <4>1, <4>2
    <3> QED
      BY <3>1, <3>2
  <2>3. ASSUME i \in NseListed \cap BseListed, sector'[i]["bse"] = "bse",
               outcomes'[i]["nse"] = {"enriched"}
        PROVE  sector'[i]["nse"] \in {"nse", "bse"} \/ wpc'[w] = "share"
    <3>1. src = "bse" /\ wpc'[w] = IF src = "bse" /\ SharesSector(w) THEN "share" ELSE "get"
      BY <1>1, <1>4, <2>3, AppliedTyped DEF Earlier
    <3>2. shareable[w] /\ (nse_source[w] = "nse" => sector[i]["nse"] = "nse")
      BY <1>1, <1>3, <2>3 DEF Stations, AtBse
    <3> QED
      BY <1>3, <2>3, <3>1, <3>2 DEF SharesSector
  <2> QED
    BY <1>1, <2>2, <2>3 DEF OwnOwed
<1>8. RowsKeep(item[w])
  BY <1>1, <1>3, <1>4, AppliedTyped DEF RowsKeep, Sides, Earlier
<1> QED
  BY <1>5, <1>6, <1>7, <1>8

LEMMA ShareOwn ==
  ASSUME TypeOK, Alone, Stations, SidesOwed, NEW w \in Workers, ShareSector(w)
  PROVE  /\ AtNse(w)' /\ AtBse(w)' /\ AtShare(w)'
         /\ Died' = {} => OwnOwed(w)'
         /\ RowsKeep(item[w])
<1> DEFINE i == item[w]
<1>1. /\ wpc[w] = "share" /\ wpc'[w] = "get" /\ item' = item
      /\ i \in Isins /\ "nse" \in Sides /\ "bse" \in Sides
      /\ sector[i]["nse"] # "nse" /\ "excluded" \notin outcomes[i]["nse"]
  BY DEF ShareSector, Goes, TypeOK, Alone, Busy, Stations, AtShare, Sides
<1>2. \/ sector'[i]["nse"] = "bse" /\ sector'[i]["bse"] = sector[i]["bse"]
         /\ outcomes' = outcomes
      \/ sector' = sector /\ "failed" \in outcomes'[i]["bse"]
         /\ outcomes'[i]["nse"] = outcomes[i]["nse"]
  <2>1. CASE SideFails(i, "bse")
    BY <1>1, <2>1, SideIs, SideIsOwn DEF Sides
  <2>2. CASE sector' = SharedFromBse(i) /\ UNCHANGED outcomes
    BY <1>1, <2>2, SharedIs
  <2> QED
    BY <2>1, <2>2 DEF ShareSector
<1>3. AtNse(w)' /\ AtBse(w)' /\ AtShare(w)'
  BY <1>1 DEF AtNse, AtBse, AtShare
<1>4. ASSUME Died' = {} PROVE OwnOwed(w)'
  <2>1. Died = {}
    BY <1>4 DEF Died, ShareSector, Goes, TypeOK
  <2>2. \A s \in Listed(i) : outcomes[i][s] # {}
    BY <1>1, <2>1, PastCounted DEF Busy
  <2>3. \A s \in Listed(i) : outcomes'[i][s] # {}
    BY <1>2, <2>2 DEF Listed, Sides
  <2> QED
    BY <1>1, <1>2, <2>3 DEF OwnOwed
<1>5. RowsKeep(item[w])
  BY <1>1, <1>2 DEF RowsKeep, Sides
<1> QED
  BY <1>3, <1>4, <1>5

LEMMA DiesOwn ==
  ASSUME TypeOK, Alone, Stations, NEW w \in Workers, WorkerDies(w)
  PROVE  /\ AtNse(w)' /\ AtBse(w)' /\ AtShare(w)'
         /\ wpc'[w] = "dead"
         /\ RowsKeep(item[w])
<1> DEFINE i == item[w]
<1>1. /\ wpc'[w] = "dead" /\ Busy(w) /\ i \in Isins /\ "nse" \in Sides /\ "bse" \in Sides
      /\ outcomes' = outcomes
  BY DEF WorkerDies, TypeOK, Alone, Busy, Sides
<1>2. AtNse(w)' /\ AtBse(w)' /\ AtShare(w)'
  BY <1>1 DEF AtNse, AtBse, AtShare
<1>3. RowsKeep(i)
  <2>1. CASE UNCHANGED sector
    BY <2>1 DEF RowsKeep
  <2>2. CASE wpc[w] = "share" /\ sector' = SharedFromBse(i)
    <3>1. sector[i]["nse"] # "nse" /\ "excluded" \notin outcomes[i]["nse"]
      BY <2>2 DEF Stations, AtShare
    <3>2. sector'[i]["nse"] = "bse" /\ sector'[i]["bse"] = sector[i]["bse"]
      BY <1>1, <2>2, SharedIs
    <3> QED
      BY <3>1, <3>2 DEF RowsKeep, Sides
  <2>3. ASSUME wpc[w] \in Sides, NEW src \in {"none", "tier", wpc[w]},
               sector' = Written(i, wpc[w], src)
        PROVE  RowsKeep(i)
    <3>1. outcomes[i][wpc[w]] = {} /\ sector[i][wpc[w]] \in Earlier
      BY <2>3 DEF Stations, AtNse, AtBse, Untouched, Sides
    <3>2. src \in {"none", "tier", "nse", "bse"}
      BY <2>3 DEF Sides
    <3>3. /\ \A t \in Sides \ {wpc[w]} : sector'[i][t] = sector[i][t]
          /\ sector'[i][wpc[w]] = AppliedSector(i, wpc[w], src)
      BY <1>1, <2>3, WrittenIs
    <3>4. sector[i][wpc[w]] \notin {"missing", "others"} =>
            AppliedSector(i, wpc[w], src) \notin {"missing", "others"}
      BY <1>1, <2>3, <3>2, AppliedTyped
    <3> QED
      BY <1>1, <2>3, <3>1, <3>3, <3>4 DEF RowsKeep, Sides, Earlier
  <2> QED
    BY <2>1, <2>2, <2>3 DEF WorkerDies
<1> QED
  BY <1>1, <1>2, <1>3

-----------------------------------------------------------------------------
IInv ==
  /\ TypeOK
  /\ Alone /\ Queued /\ Stations /\ Phases
  /\ SidesOwed /\ ShareOwed

LEMMA InitInv == Init => IInv
<1> SUFFICES ASSUME Init PROVE IInv
  OBVIOUS
<1>1. TypeOK
  BY InitTyped
<1>2. \A w \in Workers : wpc[w] = "start"
  BY DEF Init
<1>3. \A i \in Isins : Untouched(i)
  BY DEF Init, Untouched, Earlier
<1>4. Alone /\ Stations
  BY <1>2 DEF Alone, Busy, Stations, AtNse, AtBse, AtShare
<1>5. Queued /\ Phases
  BY <1>2, <1>3 DEF Init, Queued, Phases
<1>6. SidesOwed
  BY DEF Init, SidesOwed, SideToCome
<1>7. ShareOwed
  BY <1>3 DEF ShareOwed, Untouched, Earlier, Isins, Sides
<1> QED
  BY <1>1, <1>4, <1>5, <1>6, <1>7 DEF IInv

(* A step of a worker that holds an ISIN. *)
LEMMA OwnInv ==
  ASSUME IInv, NEW w \in Workers,
         NseSide(w) \/ BseSide(w) \/ ShareSector(w) \/ WorkerDies(w)
  PROVE  /\ IInv'
         /\ \A i \in Isins : RowsKeep(i)
<1>1. TypeOK' /\ OwnStep(w)
  BY WorkerTyped, StepIsOwn DEF IInv, WorkerStep
<1>2. /\ AtNse(w)' /\ AtBse(w)' /\ AtShare(w)' /\ RowsKeep(item[w])
      /\ wpc'[w] # "dead" /\ Died' = {} => OwnOwed(w)'
  BY NseOwn, BseOwn, ShareOwn, DiesOwn DEF IInv
<1>3. Alone' /\ Queued' /\ Phases' /\ Stations'
  BY <1>1, <1>2, OwnKeeps DEF IInv, Stations
<1>4. SidesOwed' /\ ShareOwed'
  <2>1. CASE Died' = {}
    BY <1>1, <1>2, <2>1, OwnOwes DEF IInv
  <2>2. CASE Died' # {}
    BY <2>2 DEF SidesOwed, ShareOwed
  <2> QED
    BY <2>1, <2>2
<1>5. \A i \in Isins : RowsKeep(i)
  BY <1>1, <1>2 DEF OwnStep, RowsKeep
<1> QED
  BY <1>1, <1>3, <1>4, <1>5 DEF IInv

(* A step of the main thread, or of a worker at the queue. *)
LEMMA OtherInv ==
  ASSUME IInv,
         \/ BatchStep
         \/ \E w \in Workers : OpenConnection(w) \/ TakeIsin(w) \/ QueueDrained(w)
  PROVE  /\ IInv'
         /\ \A i \in Isins : RowsKeep(i)
<1>1. TypeOK'
  BY BatchTyped, WorkerTyped DEF IInv, WorkerStep
<1>2. CASE LoadMaps
  <2>1. /\ batch_pc' # "maps" /\ batch_pc' \notin {"record", "audit"}
        /\ \A w \in Workers : wpc[w] = "start" /\ wpc'[w] = "start"
        /\ UNCHANGED <<workerVars, outcomes>> /\ sector' \in {sector, OthersFilled}
        /\ \A i \in Isins : Untouched(i)
    BY <1>2 DEF LoadMaps, IInv, Phases, workerVars
  <2>2. \A i \in Isins : Untouched(i)' /\ RowsKeep(i)
    BY <2>1 DEF Untouched, RowsKeep, OthersFilled, Earlier, Sides
  <2>3. Alone' /\ Stations'
    BY <2>1 DEF Alone, Busy, Stations, AtNse, AtBse, AtShare
  <2>4. Queued' /\ Phases'
    BY <1>1, <2>1, <2>2 DEF Queued, Phases, workerVars, TypeOK
  <2>5. SidesOwed'
    BY <2>1 DEF IInv, SidesOwed, SideToCome, Died, workerVars
  <2>6. ShareOwed'
    BY <2>2 DEF ShareOwed, Untouched, Earlier, Isins, Sides
  <2> QED
    BY <1>1, <2>2, <2>3, <2>4, <2>5, <2>6 DEF IInv
<1>3. CASE JoinWorkers \/ RecordRun \/ RecordAudit
  <2>1. /\ UNCHANGED <<workerVars, sector, outcomes>> /\ batch_pc' # "maps"
        /\ batch_pc' \in {"record", "audit"} =>
             \A w \in Workers : wpc[w] \in {"done", "dead"}
    BY <1>3 DEF JoinWorkers, RecordRun, RecordAudit, IInv, Phases
  <2>2. Alone' /\ Queued' /\ Stations' /\ Phases' /\ SidesOwed' /\ ShareOwed'
    BY <2>1 DEF IInv, workerVars, Alone, Busy, Queued, Untouched, Stations, AtNse, AtBse,
                AtShare, Phases, SidesOwed, SideToCome, ShareOwed, Died
  <2> QED
    BY <1>1, <2>1, <2>2 DEF IInv, RowsKeep
<1>4. ASSUME NEW w \in Workers, OpenConnection(w) \/ QueueDrained(w)
      PROVE  IInv' /\ \A i \in Isins : RowsKeep(i)
  <2>1. /\ UNCHANGED <<batch_pc, queue, item, nse_source, shareable, sector, outcomes>>
        /\ batch_pc = "work" /\ ~Busy(w) /\ wpc'[w] \in {"get", "dead", "done"}
        /\ wpc'[w] = "done" => queue = {}
        /\ \A v \in Workers \ {w} : wpc'[v] = wpc[v]
    BY <1>4 DEF OpenConnection, QueueDrained, QueueEmpty, Goes, Busy, IInv, TypeOK
  <2>2. Alone' /\ Stations'
    BY <2>1 DEF IInv, Alone, Busy, Stations, AtNse, AtBse, AtShare, Untouched
  <2>3. Queued' /\ Phases'
    BY <2>1 DEF IInv, Queued, Untouched, Phases
  <2>4. Died' = {} => Died = {}
    BY <2>1, <1>4 DEF Died, OpenConnection, QueueDrained, Goes, IInv, TypeOK
  <2>5. \A i \in Isins : \A s \in Sides : SideToCome(i, s) => SideToCome(i, s)'
    BY <2>1 DEF SideToCome, Busy
  <2>6. SidesOwed'
    BY <2>1, <2>4, <2>5 DEF IInv, SidesOwed, Listed
  <2>7. ShareOwed'
    BY <2>1, <2>4 DEF IInv, ShareOwed, Busy
  <2> QED
    BY <1>1, <2>1, <2>2, <2>3, <2>6, <2>7 DEF IInv, RowsKeep
<1>5. ASSUME NEW w \in Workers, TakeIsin(w)
      PROVE  IInv' /\ \A i \in Isins : RowsKeep(i)
  <2>1. PICK i \in queue : /\ Goes(w, "get", FirstSide(i))
                           /\ queue' = queue \ {i} /\ item' = [item EXCEPT ![w] = i]
    BY <1>5 DEF TakeIsin
  <2>2. /\ wpc[w] = "get" /\ wpc'[w] = FirstSide(i) /\ item'[w] = i
        /\ \A v \in Workers \ {w} : /\ wpc'[v] = wpc[v] /\ item'[v] = item[v]
                                    /\ nse_source'[v] = nse_source[v]
                                    /\ shareable'[v] = shareable[v]
        /\ UNCHANGED <<batch_pc, sector, outcomes>> /\ batch_pc = "work"
        /\ i \in Isins /\ Untouched(i)
    BY <1>5, <2>1 DEF TakeIsin, Goes, IInv, TypeOK, Queued
  <2>3. Alone'
    BY <2>1, <2>2 DEF IInv, Alone, Busy
  <2>4. Stations'
    <3>1. ASSUME NEW v \in Workers \ {w} PROVE AtNse(v)' /\ AtBse(v)' /\ AtShare(v)'
      BY <2>2 DEF IInv, Stations, AtNse, AtBse, AtShare, Untouched
    <3>2. AtNse(w)' /\ AtShare(w)'
      BY <2>2 DEF AtNse, AtShare, FirstSide, Untouched
    <3>3. AtBse(w)'
      BY <2>2 DEF AtBse, FirstSide, Untouched, Earlier, Sides, Isins
    <3> QED
      BY <3>1, <3>2, <3>3 DEF Stations
  <2>5. Queued'
    BY <2>1, <2>2 DEF IInv, Queued, Untouched
  <2>6. Phases'
    BY <2>1, <2>2 DEF IInv, Phases, FirstSide
  <2>7. Died' = {} => Died = {}
    BY <2>2 DEF Died
  <2>8. ASSUME Died = {}, NEW j \in Isins, NEW s \in Listed(j)
        PROVE  outcomes'[j][s] # {} \/ SideToCome(j, s)'
    <3>1. outcomes[j][s] # {} \/ SideToCome(j, s)
      BY <2>8 DEF IInv, SidesOwed
    <3>2. CASE j = i
      BY <2>2, <2>8, <3>2 DEF SideToCome, FirstSide, Listed, Sides
    <3>3. CASE j # i
      <4>1. SideToCome(j, s) => SideToCome(j, s)'
        BY <2>1, <2>2, <3>3 DEF SideToCome
      <4> QED
        BY <2>2, <3>1, <4>1
    <3> QED
      BY <3>2, <3>3
  <2>9. SidesOwed'
    BY <2>7, <2>8 DEF SidesOwed
  <2>10. ShareOwed'
    <3> SUFFICES ASSUME Died = {}, NEW j \in NseListed \cap BseListed,
                        sector[j]["bse"] = "bse", outcomes[j]["nse"] = {"enriched"}
                 PROVE  \/ sector[j]["nse"] \in {"nse", "bse"}
                        \/ "failed" \in outcomes[j]["bse"]
                        \/ \E v \in Workers : item'[v] = j /\ wpc'[v] = "share"
      BY <2>2, <2>7 DEF ShareOwed
    <3>1. \/ sector[j]["nse"] \in {"nse", "bse"} \/ "failed" \in outcomes[j]["bse"]
          \/ \E v \in Workers : item[v] = j /\ wpc[v] = "share"
      BY DEF IInv, ShareOwed
    <3> QED
      BY <2>2, <3>1
  <2> QED
    BY <1>1, <2>2, <2>3, <2>4, <2>5, <2>6, <2>9, <2>10 DEF IInv, RowsKeep
<1> QED
  BY <1>2, <1>3, <1>4, <1>5 DEF BatchStep

(* IInv holds in every state of a batch, however many threads take part. *)
THEOREM SpecIInv == Spec => []IInv
<1>1. ASSUME IInv, [Next]_vars PROVE IInv'
  <2>1. CASE Next
    BY <1>1, <2>1, OwnInv, OtherInv DEF Next, WorkerStep
  <2>2. CASE UNCHANGED vars
    <3>1. UNCHANGED <<batch_pc, queue, wpc, item, nse_source, shareable, sector,
                      outcomes, recorded, audited, faults>>
      BY <2>2 DEF vars, workerVars, endVars
    <3>2. TypeOK'
      BY <1>1, <3>1 DEF IInv, TypeOK
    <3>3. Alone' /\ Queued' /\ Phases'
      BY <1>1, <3>1 DEF IInv, Alone, Busy, Queued, Untouched, Phases
    <3>4. Stations'
      BY <1>1, <3>1 DEF IInv, Stations, AtNse, AtBse, AtShare, Untouched
    <3>5. SidesOwed' /\ ShareOwed'
      BY <1>1, <3>1 DEF IInv, SidesOwed, SideToCome, ShareOwed, Died
    <3> QED
      BY <3>2, <3>3, <3>4, <3>5 DEF IInv
  <2> QED
    BY <1>1, <2>1, <2>2
<1> QED
  BY InitInv, <1>1, PTL DEF Spec

(* The batch, its threads, rows and counters keep their types. *)
THEOREM SpecTypeOK == Spec => []TypeOK
<1>1. IInv => TypeOK
  BY DEF IInv
<1> QED
  BY <1>1, SpecIInv, PTL

(* _run_enrichment_batch_body() joins its threads before it counts: when   *)
(* it counts and none has died, every side of every ISIN was counted.      *)
THEOREM SpecAllSidesCounted == Spec => []AllSidesCounted
<1>1. ASSUME IInv, Counted PROVE /\ Died = {} /\ queue = {}
                                 /\ \A w \in Workers : wpc[w] = "done"
  <2>1. \A w \in Workers : wpc[w] = "done"
    BY <1>1 DEF IInv, Counted, Phases, Died
  <2> QED
    BY <1>1, <2>1, BatchAssumption DEF IInv, Counted, Phases, BatchAssumption
<1>2. IInv => AllSidesCounted
  BY <1>1 DEF IInv, AllSidesCounted, SidesOwed, SideToCome
<1> QED
  BY <1>2, SpecIInv, PTL

(* The sharing step of the BSE side reaches every NSE row that has no      *)
(* official sector of its own, or the BSE side is among the failed.        *)
THEOREM SpecOfficialSectorShared == Spec => []OfficialSectorShared
<1>1. ASSUME IInv, Counted PROVE Died = {} /\ \A w \in Workers : wpc[w] # "share"
  BY <1>1 DEF IInv, Counted, Phases
<1>2. IInv => OfficialSectorShared
  BY <1>1 DEF IInv, OfficialSectorShared, ShareOwed
<1> QED
  BY <1>2, SpecIInv, PTL

(* No step of TaxonomyMaps.apply() or of the sharing loses an official NSE *)
(* sector, turns a known sector into the catch-all, or writes a row whose  *)
(* exchange has excluded it.                                               *)
THEOREM SpecRowNeverWorse == Spec => RowNeverWorse
<1>1. ASSUME IInv, [Next]_vars
      PROVE  \A i \in Isins : \A s \in Sides :
               /\ sector[i]["nse"] = "nse" => sector'[i]["nse"] = "nse"
               /\ sector[i][s] \notin {"missing", "others"}
                    => sector'[i][s] \notin {"missing", "others"}
               /\ "excluded" \in outcomes[i][s] => sector'[i][s] = sector[i][s]
  <2>1. CASE Next
    <3>1. \A i \in Isins : RowsKeep(i)
      BY <1>1, <2>1, OwnInv, OtherInv DEF Next, WorkerStep
    <3> QED
      BY <3>1 DEF RowsKeep
  <2>2. CASE UNCHANGED vars
    BY <2>2 DEF vars
  <2> QED
    BY <1>1, <2>1, <2>2
<1> QED
  BY <1>1, SpecIInv, PTL DEF Spec, RowNeverWorse

=============================================================================
