----------------------------- MODULE Maintenance -----------------------------
(***************************************************************************)
(* The two long-running processes that share the maintenance_status row    *)
(* (id = 1) of the database:                                               *)
(*                                                                         *)
(*   - bhavcopy_scheduler_main.py, one price cycle per day (STEPS 2 to 8); *)
(*   - stock_universe_update_listener.py, one enrichment batch per upload. *)
(*                                                                         *)
(* Each process reads the other's flag, does more work (log in, resolve a  *)
(* date, read freshness), and only then raises its own flag, in another    *)
(* transaction.  Every database transaction and every request to the       *)
(* application is a step of its own here, either process may be killed     *)
(* between two steps, and a transaction may fail.                          *)
(*                                                                         *)
(* What a cycle and a batch do to the market data is left to the modules   *)
(* of those parts: here they only begin, end, fail, or are killed.         *)
(***************************************************************************)
EXTENDS Integers

CONSTANTS
  StaleAfter,    \* MAX_SCHEDULER_CYCLE_SECONDS, in clock ticks
  MaxUploads,    \* bound: complete sets of stock-universe uploads
  MaxWindows,    \* bound: scheduler cycles that become due
  MaxFaults,     \* bound: failed transactions, requests and steps
  MaxCrashes     \* bound: hard kills of either process

ASSUME ConstantsAreNaturals ==
  /\ StaleAfter \in Nat
  /\ MaxUploads \in Nat
  /\ MaxWindows \in Nat
  /\ MaxFaults \in Nat
  /\ MaxCrashes \in Nat

VARIABLES
  \* the maintenance_status row
  is_running,           \* the combined flag, read by the application's filter
  scheduler_running,
  enrichment_running,
  lock_age,             \* ticks since scheduler_started_at, saturating
  \* the scheduler process
  sched_pc,
  sched_raised,         \* the cycle's body left with an exception
  due,                  \* the current cycle has not been completed yet
  \* the listener process
  list_pc,
  list_raised,          \* the batch's body left with an exception
  batch,                \* max_metadata_id as poll_once() read it
  worklist,             \* the latest upload that the fetched work list holds
  \* the other tables the two processes meet in
  uploading,            \* an upload request passed the filter, not committed
  uploaded,             \* id of the latest complete set of uploads
  cursor,               \* last_processed_metadata_id of the enrichment runs
  covered,              \* history: the latest upload some recorded batch read
  \* the budgets of the environment
  windows, faults, crashes

rowVars   == <<is_running, scheduler_running, enrichment_running, lock_age>>
schedVars == <<sched_pc, sched_raised, due>>
listVars  == <<list_pc, list_raised, batch, worklist>>
tableVars == <<uploading, uploaded, cursor, covered>>
envVars   == <<windows, faults, crashes>>
vars      == <<rowVars, schedVars, listVars, tableVars, envVars>>

SchedStates == {"down", "reconcile", "heal", "wait", "idle", "check", "login",
                "plan", "enter", "work", "clear"}
ListStates  == {"down", "poll", "poll_flag", "sleep", "enter", "fetch",
                "work", "clear"}

Ages == 0 .. StaleAfter + 1

FlagsOK ==
  /\ is_running \in BOOLEAN
  /\ scheduler_running \in BOOLEAN
  /\ enrichment_running \in BOOLEAN
  /\ sched_raised \in BOOLEAN
  /\ due \in BOOLEAN
  /\ list_raised \in BOOLEAN
  /\ uploading \in BOOLEAN

StatesOK ==
  /\ lock_age \in Ages
  /\ sched_pc \in SchedStates
  /\ list_pc \in ListStates
  /\ batch \in 0 .. MaxUploads
  /\ worklist \in 0 .. MaxUploads
  /\ uploaded \in 0 .. MaxUploads
  /\ cursor \in 0 .. MaxUploads
  /\ covered \in 0 .. MaxUploads
  /\ windows \in 0 .. MaxWindows
  /\ faults \in 0 .. MaxFaults
  /\ crashes \in 0 .. MaxCrashes

TypeOK == FlagsOK /\ StatesOK

Init ==
  /\ is_running = FALSE
  /\ scheduler_running = FALSE
  /\ enrichment_running = FALSE
  /\ lock_age = 0
  /\ sched_pc = "down" /\ sched_raised = FALSE /\ due = FALSE
  /\ list_pc = "down" /\ list_raised = FALSE /\ batch = 0 /\ worklist = 0
  /\ uploading = FALSE /\ uploaded = 0 /\ cursor = 0 /\ covered = 0
  /\ windows = 0 /\ faults = 0 /\ crashes = 0

-----------------------------------------------------------------------------
(* The row: each UPDATE writes its own flag and recomputes the combined    *)
(* one from both, in the same statement.                                   *)

(* Mutant: the row as it was before the flags were split, when a process   *)
(* wrote the combined flag for both.                                       *)
SchedulerSetsSharedFlag(v) ==
  /\ scheduler_running' = v /\ is_running' = v
  /\ lock_age' = IF v THEN 0 ELSE lock_age
  /\ UNCHANGED enrichment_running

SetSchedulerRunning(v) ==
  /\ scheduler_running' = v
  /\ lock_age' = IF v THEN 0 ELSE lock_age
  /\ is_running' = (v \/ enrichment_running)
  /\ UNCHANGED enrichment_running

SetEnrichmentRunning(v) ==
  /\ enrichment_running' = v
  /\ is_running' = (v \/ scheduler_running)
  /\ UNCHANGED <<scheduler_running, lock_age>>

(* One more transaction, request or step fails. *)
Fault ==
  /\ faults < MaxFaults
  /\ faults' = faults + 1
  /\ UNCHANGED <<windows, crashes>>

NoFault == UNCHANGED envVars

SchedGoes(from, to) == sched_pc = from /\ sched_pc' = to
ListGoes(from, to)  == list_pc = from /\ list_pc' = to

OthersThanSched == UNCHANGED <<listVars, tableVars>>
OthersThanList  == UNCHANGED <<schedVars, uploading, uploaded>>

-----------------------------------------------------------------------------
(* The scheduler: start-up.                                                *)

SchedStart ==
  /\ SchedGoes("down", "reconcile")
  /\ UNCHANGED <<sched_raised, due, rowVars>> /\ NoFault /\ OthersThanSched

StaleLock == scheduler_running /\ lock_age > StaleAfter

(* reconcile_stale_scheduler_lock(): a read, then a second transaction.  A  *)
(* failure of either is logged and the process carries on.                 *)
SchedReconcile ==
  /\ \/ StaleLock /\ SchedGoes("reconcile", "heal") /\ NoFault
     \/ ~StaleLock /\ SchedGoes("reconcile", "wait") /\ NoFault
     \/ SchedGoes("reconcile", "wait") /\ Fault
  /\ UNCHANGED <<sched_raised, due, rowVars>> /\ OthersThanSched

SchedHeal ==
  /\ SchedGoes("heal", "wait")
  /\ \/ SetSchedulerRunning(FALSE) /\ NoFault
     \/ UNCHANGED rowVars /\ Fault
  /\ UNCHANGED <<sched_raised, due>> /\ OthersThanSched

(* Mutants: STEP 0 as it was before it looked at the cursor, and with a     *)
(* cursor comparison that is off by one.                                   *)
UploadsPresent == uploaded > 0
CursorPastUploads == uploaded > 0 /\ cursor > uploaded

(* STEP 0: every required upload is in and enrichment has caught up.  A     *)
(* query error, unlike a failed connection, ends the process.              *)
StockUniverseReady == uploaded > 0 /\ cursor >= uploaded

SchedUniverseReady ==
  /\ \/ StockUniverseReady /\ SchedGoes("wait", "idle") /\ NoFault
     \/ SchedGoes("wait", "down") /\ Fault
  /\ UNCHANGED <<sched_raised, due, rowVars>> /\ OthersThanSched

-----------------------------------------------------------------------------
(* The scheduler: check_and_process().                                     *)

SchedWake ==
  /\ due
  /\ SchedGoes("idle", "check")
  /\ UNCHANGED <<sched_raised, due, rowVars>> /\ NoFault /\ OthersThanSched

(* Fails open: a flag that cannot be read counts as not set. *)
SchedCheckEnrichment ==
  /\ \/ ~enrichment_running /\ SchedGoes("check", "login") /\ NoFault
     \/ enrichment_running /\ SchedGoes("check", "idle") /\ NoFault
     \/ SchedGoes("check", "login") /\ Fault
  /\ UNCHANGED <<sched_raised, due, rowVars>> /\ OthersThanSched

(* The application's filter refuses every request while is_running. *)
SchedLogin ==
  /\ \/ ~is_running /\ SchedGoes("login", "plan") /\ NoFault
     \/ is_running /\ SchedGoes("login", "idle") /\ NoFault
     \/ SchedGoes("login", "idle") /\ Fault
  /\ UNCHANGED <<sched_raised, due, rowVars>> /\ OthersThanSched

(* The latest trade date, freshness and pending indicators: reads only.    *)
(* Without real work the cycle is done; a holiday lookup that fails defers *)
(* it; a query error that is no DbConnectionError ends the process.        *)
SchedPlan ==
  /\ \/ SchedGoes("plan", "enter") /\ UNCHANGED due /\ NoFault
     \/ SchedGoes("plan", "idle") /\ due' = FALSE /\ NoFault
     \/ SchedGoes("plan", "idle") /\ UNCHANGED due /\ Fault
     \/ SchedGoes("plan", "down") /\ UNCHANGED due /\ Fault
  /\ UNCHANGED <<sched_raised, rowVars>> /\ OthersThanSched

(* A commit that fails may have reached the database all the same; the     *)
(* cycle is put off either way.                                            *)
SchedEnter ==
  /\ \/ SchedGoes("enter", "work") /\ SetSchedulerRunning(TRUE) /\ NoFault
     \/ /\ SchedGoes("enter", "idle") /\ Fault
        /\ UNCHANGED rowVars \/ SetSchedulerRunning(TRUE)
  /\ UNCHANGED <<sched_raised, due>> /\ OthersThanSched

SchedWork ==
  /\ SchedGoes("work", "clear")
  /\ \/ sched_raised' = FALSE /\ NoFault
     \/ sched_raised' = TRUE /\ Fault
  /\ UNCHANGED <<due, rowVars>> /\ OthersThanSched

(* Mutant: no finally, the clear is the last statement of the body. *)
ClearAtEndOfBody ==
  \/ sched_raised /\ UNCHANGED rowVars /\ NoFault
  \/ ~sched_raised /\ SetSchedulerRunning(FALSE) /\ NoFault
  \/ ~sched_raised /\ UNCHANGED rowVars /\ Fault

ClearInFinally ==
  \/ SetSchedulerRunning(FALSE) /\ NoFault
  \/ UNCHANGED rowVars /\ Fault

(* The finally block, then either the exception ends the process or the    *)
(* cycle counts as done.  A clear that fails is only logged.               *)
SchedClear ==
  /\ ClearInFinally
  /\ \/ sched_raised /\ SchedGoes("clear", "down") /\ UNCHANGED due
     \/ ~sched_raised /\ SchedGoes("clear", "idle") /\ due' = FALSE
  /\ sched_raised' = FALSE
  /\ OthersThanSched

-----------------------------------------------------------------------------
(* The listener: poll_once() and run_enrichment_batch().                   *)

ListStart ==
  /\ ListGoes("down", "poll")
  /\ UNCHANGED <<list_raised, batch, worklist, rowVars, cursor, covered>>
  /\ NoFault /\ OthersThanList

(* Mutant: new since the last attempt, not since the last recorded batch. *)
NewSinceLastAttempt == uploaded > batch

NewBatch == uploaded > cursor

(* The upload status and the cursor. *)
ListPoll ==
  /\ \/ NewBatch /\ ListGoes("poll", "poll_flag")
        /\ batch' = uploaded /\ NoFault
     \/ ~NewBatch /\ ListGoes("poll", "sleep")
        /\ UNCHANGED batch /\ NoFault
     \/ ListGoes("poll", "sleep") /\ UNCHANGED batch /\ Fault
  /\ UNCHANGED <<list_raised, worklist, rowVars, cursor, covered>>
  /\ OthersThanList

(* is_scheduler_running(); a failed read ends this poll. *)
ListCheckScheduler ==
  /\ \/ ~scheduler_running /\ ListGoes("poll_flag", "enter") /\ NoFault
     \/ scheduler_running /\ ListGoes("poll_flag", "sleep") /\ NoFault
     \/ ListGoes("poll_flag", "sleep") /\ Fault
  /\ UNCHANGED <<list_raised, batch, worklist, rowVars, cursor, covered>>
  /\ OthersThanList

(* A NOTIFY or the 300 s fallback. *)
ListWake ==
  /\ ListGoes("sleep", "poll")
  /\ UNCHANGED <<list_raised, batch, worklist, rowVars, cursor, covered>>
  /\ NoFault /\ OthersThanList

(* As in SchedEnter, a commit that fails may have been done. *)
ListEnter ==
  /\ \/ ListGoes("enter", "fetch") /\ SetEnrichmentRunning(TRUE) /\ NoFault
     \/ /\ ListGoes("enter", "sleep") /\ Fault
        /\ UNCHANGED rowVars \/ SetEnrichmentRunning(TRUE)
  /\ UNCHANGED <<list_raised, batch, worklist, cursor, covered>>
  /\ OthersThanList

(* fetch_isin_exchange_map(): the whole work list, as it is now. *)
ListFetch ==
  /\ \/ ListGoes("fetch", "work") /\ worklist' = uploaded /\ NoFault
     \/ ListGoes("fetch", "clear") /\ UNCHANGED worklist /\ Fault
  /\ UNCHANGED <<list_raised, batch, rowVars, cursor, covered>>
  /\ OthersThanList

(* Mutant: the upload status is read again when the batch is recorded.     *)
LatestAtRecording == uploaded

(* record_enrichment_run() is given the id that poll_once() read. *)
RecordedCursor == batch

(* The workers finish and the outcome is recorded: SUCCESS or PARTIAL moves *)
(* the cursor; FAILED, a record that could not be written and an exception *)
(* do not.                                                                 *)
ListWork ==
  /\ ListGoes("work", "clear")
  /\ \/ cursor' = RecordedCursor /\ covered' = worklist /\ NoFault
        /\ UNCHANGED list_raised
     \/ UNCHANGED <<cursor, covered>> /\ list_raised' \in BOOLEAN /\ Fault
  /\ UNCHANGED <<batch, worklist, rowVars>> /\ OthersThanList

ListClear ==
  /\ \/ SetEnrichmentRunning(FALSE) /\ NoFault
     \/ UNCHANGED rowVars /\ Fault
  /\ \/ list_raised /\ ListGoes("clear", "down")
     \/ ~list_raised /\ ListGoes("clear", "sleep")
  /\ list_raised' = FALSE
  /\ UNCHANGED <<batch, worklist, cursor, covered>> /\ OthersThanList

-----------------------------------------------------------------------------
(* The environment.                                                        *)

CrashBudget ==
  /\ crashes < MaxCrashes
  /\ crashes' = crashes + 1
  /\ UNCHANGED <<windows, faults>>

(* SIGKILL, OOM or power loss: the database keeps what was committed. *)
SchedCrash ==
  /\ sched_pc # "down"
  /\ sched_pc' = "down" /\ sched_raised' = FALSE
  /\ UNCHANGED <<due, rowVars>> /\ CrashBudget /\ OthersThanSched

ListCrash ==
  /\ list_pc # "down"
  /\ list_pc' = "down" /\ list_raised' = FALSE
  /\ UNCHANGED <<batch, worklist, rowVars, cursor, covered>>
  /\ CrashBudget /\ OthersThanList

(* The clock: the lock grows older, and a new cycle becomes due. *)
Age ==
  /\ lock_age <= StaleAfter
  /\ lock_age' = lock_age + 1
  /\ UNCHANGED <<is_running, scheduler_running, enrichment_running>>
  /\ UNCHANGED <<schedVars, listVars, tableVars, envVars>>

WindowOpens ==
  /\ ~due /\ windows < MaxWindows
  /\ due' = TRUE /\ windows' = windows + 1
  /\ UNCHANGED <<sched_pc, sched_raised, faults, crashes>>
  /\ UNCHANGED <<rowVars, listVars, tableVars>>

(* The application (external): an upload request passes its maintenance    *)
(* filter first and its metadata row commits later.                        *)
UploadBegin ==
  /\ ~is_running /\ ~uploading /\ uploaded < MaxUploads
  /\ uploading' = TRUE
  /\ UNCHANGED <<uploaded, cursor, covered>>
  /\ UNCHANGED <<rowVars, schedVars, listVars, envVars>>

UploadCommit ==
  /\ uploading
  /\ uploading' = FALSE /\ uploaded' = uploaded + 1
  /\ UNCHANGED <<cursor, covered>>
  /\ UNCHANGED <<rowVars, schedVars, listVars, envVars>>

-----------------------------------------------------------------------------
SchedStep ==
  \/ SchedStart \/ SchedReconcile \/ SchedHeal \/ SchedUniverseReady
  \/ SchedWake \/ SchedCheckEnrichment \/ SchedLogin \/ SchedPlan
  \/ SchedEnter \/ SchedWork \/ SchedClear

ListStep ==
  \/ ListStart \/ ListPoll \/ ListCheckScheduler \/ ListWake \/ ListEnter
  \/ ListFetch \/ ListWork \/ ListClear

EnvStep ==
  \/ SchedCrash \/ ListCrash \/ Age \/ WindowOpens \/ UploadBegin
  \/ UploadCommit

Next == SchedStep \/ ListStep \/ EnvStep

Spec == Init /\ [][Next]_vars

(* Both processes keep running their loops and are restarted when they     *)
(* stop (the container is started again by hand or on redeploy), the clock *)
(* keeps going, and a committed request is answered.                       *)
Fairness ==
  /\ WF_vars(SchedStep)
  /\ WF_vars(ListStep)
  /\ WF_vars(Age)
  /\ WF_vars(UploadCommit)

FairSpec == Spec /\ Fairness

-----------------------------------------------------------------------------
(* Properties.                                                             *)

SchedWorking == sched_pc = "work"
ListWorking  == list_pc \in {"fetch", "work"}

(* Users are locked out whenever either process is changing data: its own  *)
(* flag is up, and the combined flag the filter reads is up, whatever the  *)
(* other process has done to the row in the meantime (the shared-boolean   *)
(* bug that split the row into two flags).                                 *)
ProtectedWork ==
  /\ SchedWorking => scheduler_running /\ is_running
  /\ ListWorking => enrichment_running /\ is_running

(* A cycle never runs on a stock universe that enrichment has not finished *)
(* at least once: STEP 0 waits for the listener, not for the uploads.      *)
UniverseEnrichedFirst ==
  sched_pc \in {"idle", "check", "login", "plan", "enter", "work", "clear"}
    => cursor > 0

(* The enrichment cursor never passes an upload that no recorded batch had *)
(* in its work list, though uploads commit while a batch is running.       *)
CursorCovered == cursor <= covered

FlagLeftUp ==
  /\ sched_pc \in {"work", "clear"}
  /\ sched_pc' \notin {"work", "clear"}
  /\ scheduler_running'

(* A process lets go of a raised flag only by clearing it; leaving it up   *)
(* takes a failed transaction or a kill, never an exception by itself.     *)
FlagReleased ==
  [][FlagLeftUp => faults' > faults \/ crashes' > crashes]_vars

(* The inductive invariant behind the ones above.  The combined flag is    *)
(* the disjunction of the two; a process inside its protected stretch      *)
(* still has its own flag up, because nobody else clears it; and the ids   *)
(* the listener carries in memory are ids of uploads that did commit.      *)
RowConsistent == is_running <=> (scheduler_running \/ enrichment_running)

OwnFlagUp ==
  /\ sched_pc \in {"work", "clear"} => scheduler_running
  /\ list_pc \in {"fetch", "work", "clear"} => enrichment_running

BatchCommitted ==
  /\ uploading => uploaded < MaxUploads
  /\ batch <= uploaded
  /\ list_pc \in {"poll_flag", "enter", "fetch", "work"} => batch > 0
  /\ list_pc = "work" => batch <= worklist

ConsistentLock ==
  /\ TypeOK
  /\ RowConsistent
  /\ OwnFlagUp
  /\ BatchCommitted
  /\ UniverseEnrichedFirst
  /\ CursorCovered

(* A flag that is up though its process is not inside the stretch of code  *)
(* that clears it again.                                                   *)
FlagOrphaned ==
  \/ scheduler_running /\ sched_pc \notin {"work", "clear"}
  \/ enrichment_running /\ list_pc \notin {"fetch", "work", "clear"}

(* A due cycle is completed, even though enrichment batches keep it        *)
(* waiting and keep it from logging in, and steps fail and processes are   *)
(* killed: only a flag left up for good stops it.                          *)
CycleCompletes == (due /\ uploaded > 0) ~> (~due \/ []FlagOrphaned)

(* Every upload is enriched in the end, even though the scheduler's cycles *)
(* keep the listener waiting: only a flag left up for good stops it.       *)
UploadEnriched ==
  \A n \in 1 .. MaxUploads :
    uploaded = n ~> (cursor >= n \/ []FlagOrphaned)

(* What the application sees of the two processes is the abstract lock.    *)
Lockdown ==
  INSTANCE AppLockdown
    WITH Jobs <- {"scheduler", "listener"},
         working <- (IF SchedWorking THEN {"scheduler"} ELSE {})
                      \cup (IF ListWorking THEN {"listener"} ELSE {}),
         locked <- is_running

LocksApplication == Lockdown!Spec

-----------------------------------------------------------------------------
(* What comments of the code say and its steps do not do.                  *)

(* "only one of {bhavcopy_scheduler_main.py, this listener} should ever be *)
(* active at a time" (poll_once).                                          *)
NeverBothWorking == ~(SchedWorking /\ ListWorking)

=============================================================================
