-------------------------- MODULE MaintenanceProofs --------------------------
(***************************************************************************)
(* Proofs about Maintenance for every value of its constants: the          *)
(* inductive invariant ConsistentLock, the safety properties it gives, and *)
(* that the two processes together implement AppLockdown.                  *)
(***************************************************************************)
EXTENDS Maintenance, TLAPS

(* The shorthands every action is written with. *)
USE DEF vars, rowVars, schedVars, listVars, tableVars, envVars,
        SchedGoes, ListGoes, OthersThanSched, OthersThanList,
        NoFault, Fault, CrashBudget, Ages, SchedStates, ListStates

-----------------------------------------------------------------------------
(* The row.                                                                *)

(* Writing one flag keeps the row consistent, whatever the other flag is:  *)
(* both statements recompute the combined flag from the two.               *)
LEMMA SchedulerWrite ==
  ASSUME NEW v \in BOOLEAN, FlagsOK, RowConsistent, SetSchedulerRunning(v)
  PROVE  RowConsistent'
  BY Zenon DEF FlagsOK, RowConsistent, SetSchedulerRunning

LEMMA EnrichmentWrite ==
  ASSUME NEW v \in BOOLEAN, FlagsOK, RowConsistent, SetEnrichmentRunning(v)
  PROVE  RowConsistent'
  BY Zenon DEF FlagsOK, RowConsistent, SetEnrichmentRunning

LEMMA RowUntouched ==
  ASSUME RowConsistent, UNCHANGED rowVars
  PROVE  RowConsistent'
  BY DEF RowConsistent

(* Every step writes the row through one of the two statements or not.     *)
LEMMA RowStep ==
  ASSUME FlagsOK, RowConsistent, Next
  PROVE  RowConsistent'
<1> USE SchedulerWrite, EnrichmentWrite, RowUntouched
<1>1. CASE SchedStep
  <2>1. CASE SchedStart
        BY <2>1, Zenon DEF SchedStart
  <2>2. CASE SchedReconcile
        BY <2>2, Zenon DEF SchedReconcile
  <2>3. CASE SchedHeal
        BY <2>3, Zenon DEF SchedHeal
  <2>4. CASE SchedUniverseReady
        BY <2>4, Zenon DEF SchedUniverseReady
  <2>5. CASE SchedWake
        BY <2>5, Zenon DEF SchedWake
  <2>6. CASE SchedCheckEnrichment
        BY <2>6, Zenon DEF SchedCheckEnrichment
  <2>7. CASE SchedLogin
        BY <2>7, Zenon DEF SchedLogin
  <2>8. CASE SchedPlan
        BY <2>8, Zenon DEF SchedPlan
  <2>9. CASE SchedEnter
        BY <2>9, Zenon DEF SchedEnter
  <2>10. CASE SchedWork
        BY <2>10, Zenon DEF SchedWork
  <2>11. CASE SchedClear
        BY <2>11, Zenon DEF SchedClear, ClearInFinally
  <2> QED
      BY <1>1, <2>1, <2>2, <2>3, <2>4, <2>5, <2>6, <2>7, <2>8, <2>9,
      <2>10, <2>11 DEF SchedStep
<1>2. CASE ListStep
  <2>1. CASE ListStart
        BY <2>1, Zenon DEF ListStart
  <2>2. CASE ListPoll
        BY <2>2, Zenon DEF ListPoll
  <2>3. CASE ListCheckScheduler
        BY <2>3, Zenon DEF ListCheckScheduler
  <2>4. CASE ListWake
        BY <2>4, Zenon DEF ListWake
  <2>5. CASE ListEnter
        BY <2>5, Zenon DEF ListEnter
  <2>6. CASE ListFetch
        BY <2>6, Zenon DEF ListFetch
  <2>7. CASE ListWork
        BY <2>7, Zenon DEF ListWork
  <2>8. CASE ListClear
        BY <2>8, Zenon DEF ListClear
  <2> QED
      BY <1>2, <2>1, <2>2, <2>3, <2>4, <2>5, <2>6, <2>7, <2>8 DEF
      ListStep
<1>3. CASE EnvStep
  <2>1. CASE Age
        BY <2>1 DEF Age, RowConsistent
  <2>2. CASE ~Age
        BY <1>3, <2>2
        DEF EnvStep, SchedCrash, ListCrash, WindowOpens, UploadBegin,
            UploadCommit
  <2> QED
      BY <2>1, <2>2
<1> QED
    BY <1>1, <1>2, <1>3 DEF Next

-----------------------------------------------------------------------------
(* The inductive invariant.                                                *)

LEMMA FlagsStep ==
  ASSUME FlagsOK, Next
  PROVE  FlagsOK'
<1> USE DEF FlagsOK
<1>1. CASE SchedStep
  <2>1. CASE SchedStart
        BY <2>1, Zenon DEF SchedStart
  <2>2. CASE SchedReconcile
        BY <2>2, Zenon DEF SchedReconcile
  <2>3. CASE SchedHeal
        BY <2>3, Zenon DEF SchedHeal, SetSchedulerRunning
  <2>4. CASE SchedUniverseReady
        BY <2>4, Zenon DEF SchedUniverseReady, StockUniverseReady
  <2>5. CASE SchedWake
        BY <2>5, Zenon DEF SchedWake
  <2>6. CASE SchedCheckEnrichment
        BY <2>6, Zenon DEF SchedCheckEnrichment
  <2>7. CASE SchedLogin
        BY <2>7, Zenon DEF SchedLogin
  <2>8. CASE SchedPlan
        BY <2>8, Zenon DEF SchedPlan
  <2>9. CASE SchedEnter
        BY <2>9, Zenon DEF SchedEnter, SetSchedulerRunning
  <2>10. CASE SchedWork
        BY <2>10, Zenon DEF SchedWork
  <2>11. CASE SchedClear
        BY <2>11, Zenon DEF SchedClear, ClearInFinally, SetSchedulerRunning
  <2> QED
      BY <1>1, <2>1, <2>2, <2>3, <2>4, <2>5, <2>6, <2>7, <2>8, <2>9,
      <2>10, <2>11 DEF SchedStep
<1>2. CASE ListStep
  <2>1. CASE ListStart
        BY <2>1, Zenon DEF ListStart
  <2>2. CASE ListPoll
        BY <2>2, Zenon DEF ListPoll, NewBatch
  <2>3. CASE ListCheckScheduler
        BY <2>3, Zenon DEF ListCheckScheduler
  <2>4. CASE ListWake
        BY <2>4, Zenon DEF ListWake
  <2>5. CASE ListEnter
        BY <2>5, Zenon DEF ListEnter, SetEnrichmentRunning
  <2>6. CASE ListFetch
        BY <2>6, Zenon DEF ListFetch
  <2>7. CASE ListWork
        BY <2>7, Zenon DEF ListWork, RecordedCursor
  <2>8. CASE ListClear
        BY <2>8, Zenon DEF ListClear, SetEnrichmentRunning
  <2> QED
      BY <1>2, <2>1, <2>2, <2>3, <2>4, <2>5, <2>6, <2>7, <2>8 DEF
      ListStep
<1>3. CASE EnvStep
  <2>1. CASE SchedCrash
        BY <2>1, Zenon DEF SchedCrash
  <2>2. CASE ListCrash
        BY <2>2, Zenon DEF ListCrash
  <2>3. CASE Age
        BY <2>3, Zenon DEF Age
  <2>4. CASE WindowOpens
        BY <2>4, Zenon DEF WindowOpens
  <2>5. CASE UploadBegin
        BY <2>5, Zenon DEF UploadBegin
  <2>6. CASE UploadCommit
        BY <2>6, Zenon DEF UploadCommit
  <2> QED
      BY <1>3, <2>1, <2>2, <2>3, <2>4, <2>5, <2>6 DEF EnvStep
<1> QED
    BY <1>1, <1>2, <1>3 DEF Next

(* The part of the invariant about program counters and upload ids.        *)
Ids ==
  /\ StatesOK
  /\ OwnFlagUp
  /\ BatchCommitted
  /\ UniverseEnrichedFirst
  /\ CursorCovered

(* The scheduler starts a cycle only with a cursor past 0 and clears only  *)
(* its own flag; the listener carries the id of a committed upload and     *)
(* reads its work list after that id; kills only take processes out of     *)
(* their protected stretch.                                                *)
LEMMA IdsStep ==
  ASSUME Ids, Next
  PROVE  Ids'
<1> USE ConstantsAreNaturals
        DEF Ids, StatesOK, OwnFlagUp, BatchCommitted,
            UniverseEnrichedFirst, CursorCovered
<1>1. CASE SchedStep
  <2>1. CASE SchedStart
        BY <2>1 DEF SchedStart
  <2>2. CASE SchedReconcile
        BY <2>2 DEF SchedReconcile
  <2>3. CASE SchedHeal
        BY <2>3 DEF SchedHeal, SetSchedulerRunning
  <2>4. CASE SchedUniverseReady
        BY <2>4 DEF SchedUniverseReady, StockUniverseReady
  <2>5. CASE SchedWake
        BY <2>5 DEF SchedWake
  <2>6. CASE SchedCheckEnrichment
        BY <2>6 DEF SchedCheckEnrichment
  <2>7. CASE SchedLogin
        BY <2>7 DEF SchedLogin
  <2>8. CASE SchedPlan
        BY <2>8 DEF SchedPlan
  <2>9. CASE SchedEnter
        BY <2>9 DEF SchedEnter, SetSchedulerRunning
  <2>10. CASE SchedWork
        BY <2>10 DEF SchedWork
  <2>11. CASE SchedClear
        BY <2>11 DEF SchedClear, ClearInFinally, SetSchedulerRunning
  <2> QED
      BY <1>1, <2>1, <2>2, <2>3, <2>4, <2>5, <2>6, <2>7, <2>8, <2>9,
      <2>10, <2>11 DEF SchedStep
<1>2. CASE ListStep
  <2>1. CASE ListStart
        BY <2>1 DEF ListStart
  <2>2. CASE ListPoll
        BY <2>2 DEF ListPoll, NewBatch
  <2>3. CASE ListCheckScheduler
        BY <2>3 DEF ListCheckScheduler
  <2>4. CASE ListWake
        BY <2>4 DEF ListWake
  <2>5. CASE ListEnter
        BY <2>5 DEF ListEnter, SetEnrichmentRunning
  <2>6. CASE ListFetch
        BY <2>6 DEF ListFetch
  <2>7. CASE ListWork
        BY <2>7 DEF ListWork, RecordedCursor
  <2>8. CASE ListClear
        BY <2>8 DEF ListClear, SetEnrichmentRunning
  <2> QED
      BY <1>2, <2>1, <2>2, <2>3, <2>4, <2>5, <2>6, <2>7, <2>8 DEF
      ListStep
<1>3. CASE EnvStep
  <2>1. CASE SchedCrash
        BY <2>1 DEF SchedCrash
  <2>2. CASE ListCrash
        BY <2>2 DEF ListCrash
  <2>3. CASE Age
        BY <2>3 DEF Age
  <2>4. CASE WindowOpens
        BY <2>4 DEF WindowOpens
  <2>5. CASE UploadBegin
        BY <2>5 DEF UploadBegin
  <2>6. CASE UploadCommit
        BY <2>6 DEF UploadCommit
  <2> QED
      BY <1>3, <2>1, <2>2, <2>3, <2>4, <2>5, <2>6 DEF EnvStep
<1> QED
    BY <1>1, <1>2, <1>3 DEF Next

LEMMA InitConsistent == Init => ConsistentLock
<1>1. Init => FlagsOK
      BY Zenon DEF Init, FlagsOK
<1>2. Init => RowConsistent
      BY DEF Init, RowConsistent
<1>3. Init => Ids
      BY ConstantsAreNaturals
      DEF Init, Ids, StatesOK, OwnFlagUp, BatchCommitted,
          UniverseEnrichedFirst, CursorCovered
<1> QED
    BY <1>1, <1>2, <1>3 DEF ConsistentLock, TypeOK, Ids

LEMMA NextConsistent == ConsistentLock /\ [Next]_vars => ConsistentLock'
<1>1. ConsistentLock /\ Next => ConsistentLock'
      BY FlagsStep, RowStep, IdsStep DEF ConsistentLock, TypeOK, Ids
<1>2. ConsistentLock /\ UNCHANGED vars => ConsistentLock'
      BY DEF ConsistentLock, TypeOK, FlagsOK, StatesOK, RowConsistent,
             OwnFlagUp, BatchCommitted, UniverseEnrichedFirst, CursorCovered
<1> QED
    BY <1>1, <1>2

(* The combined flag always agrees with the two it is made of, each        *)
(* process finds its own flag as it left it, and the ids in memory are     *)
(* ids of committed uploads.                                               *)
THEOREM SpecConsistentLock == Spec => []ConsistentLock
  BY InitConsistent, NextConsistent, PTL DEF Spec

-----------------------------------------------------------------------------
(* What follows from it.                                                   *)

(* Every variable keeps its type. *)
THEOREM SpecTypeOK == Spec => []TypeOK
<1>1. ConsistentLock => TypeOK
      BY DEF ConsistentLock
<1> QED
    BY <1>1, SpecConsistentLock, PTL

(* The application is locked whenever either process changes data. *)
THEOREM SpecProtectedWork == Spec => []ProtectedWork
<1>1. ConsistentLock => ProtectedWork
      BY DEF ConsistentLock, RowConsistent, OwnFlagUp, ProtectedWork,
             SchedWorking, ListWorking
<1> QED
    BY <1>1, SpecConsistentLock, PTL

(* No cycle runs on a stock universe that was never enriched. *)
THEOREM SpecUniverseEnrichedFirst == Spec => []UniverseEnrichedFirst
<1>1. ConsistentLock => UniverseEnrichedFirst
      BY DEF ConsistentLock
<1> QED
    BY <1>1, SpecConsistentLock, PTL

(* The cursor never passes an upload that no recorded batch had read. *)
THEOREM SpecCursorCovered == Spec => []CursorCovered
<1>1. ConsistentLock => CursorCovered
      BY DEF ConsistentLock
<1> QED
    BY <1>1, SpecConsistentLock, PTL

(* The scheduler leaves its flag up only by a failed clear or a kill. *)
THEOREM SpecFlagReleased == Spec => FlagReleased
<1>1. ASSUME TypeOK, Next, FlagLeftUp
      PROVE  faults' > faults \/ crashes' > crashes
  <2> USE ConstantsAreNaturals DEF TypeOK, StatesOK, FlagLeftUp
  <2>1. CASE SchedWork
        BY <1>1, <2>1 DEF SchedWork
  <2>2. CASE SchedClear
    <3>1. CASE SetSchedulerRunning(FALSE)
          BY <1>1, <3>1 DEF SetSchedulerRunning
    <3>2. CASE Fault
          BY <1>1, <3>2
    <3> QED
        BY <2>2, <3>1, <3>2 DEF SchedClear, ClearInFinally
  <2>3. CASE SchedCrash
        BY <1>1, <2>3 DEF SchedCrash
  <2>4. CASE SchedStep /\ ~SchedWork /\ ~SchedClear
        BY <1>1, <2>4
        DEF SchedStep, SchedStart, SchedReconcile, SchedHeal,
            SchedUniverseReady, SchedWake, SchedCheckEnrichment, SchedLogin,
            SchedPlan, SchedEnter
  <2>5. CASE ListStep
        BY <1>1, <2>5
        DEF ListStep, ListStart, ListPoll, ListCheckScheduler, ListWake,
            ListEnter, ListFetch, ListWork, ListClear
  <2>6. CASE EnvStep /\ ~SchedCrash
        BY <1>1, <2>6
        DEF EnvStep, ListCrash, Age, WindowOpens, UploadBegin, UploadCommit
  <2> QED
      BY <1>1, <2>1, <2>2, <2>3, <2>4, <2>5, <2>6 DEF Next
<1>2. TypeOK /\ [Next]_vars
        => [FlagLeftUp => faults' > faults \/ crashes' > crashes]_vars
      BY <1>1
<1> QED
    BY <1>2, SpecTypeOK, PTL DEF Spec, FlagReleased

-----------------------------------------------------------------------------
(* The refinement.                                                         *)

(* The jobs at work, as the refinement maps them. *)
Working ==
  (IF SchedWorking THEN {"scheduler"} ELSE {})
    \cup (IF ListWorking THEN {"listener"} ELSE {})

(* A step that leaves both processes where the abstract lock sees them     *)
(* stutters, locks, or unlocks; it unlocks only when nobody works.         *)
LEMMA SameWork ==
  ASSUME ConsistentLock, ConsistentLock', Working' = Working
  PROVE  [Lockdown!Next]_(Lockdown!lockdownVars)
<1>1. CASE is_running' = is_running
      BY <1>1 DEF Working, Lockdown!lockdownVars
<1>2. CASE ~is_running /\ is_running'
      BY <1>2 DEF Working, ConsistentLock, TypeOK, FlagsOK,
                  Lockdown!Next, Lockdown!Lock
<1>3. CASE is_running /\ ~is_running'
  <2>1. Working' = {}
        BY <1>3 DEF Working, SchedWorking, ListWorking, ConsistentLock,
                    RowConsistent, OwnFlagUp
  <2> QED
      BY <1>3, <2>1 DEF Working, ConsistentLock, TypeOK, FlagsOK,
                        Lockdown!Next, Lockdown!Unlock
<1> QED
    BY <1>1, <1>2, <1>3 DEF ConsistentLock, TypeOK, FlagsOK

LEMMA JobBegins ==
  ASSUME NEW j \in {"scheduler", "listener"}, j \notin Working,
         Working' = Working \cup {j}, is_running' = TRUE
  PROVE  Lockdown!Next
  BY DEF Working, Lockdown!Next, Lockdown!Begin

LEMMA JobStops ==
  ASSUME NEW j \in {"scheduler", "listener"}, j \in Working,
         Working' = Working \ {j}, is_running' = is_running
  PROVE  Lockdown!Next
  BY DEF Working, Lockdown!Next, Lockdown!Stop

(* Entering maintenance mode locks and begins in one step, because the     *)
(* flag is raised by one statement; finishing, failing and being killed    *)
(* stop the job and leave the lock; clearing unlocks when the other        *)
(* process is not at work.                                                 *)
LEMMA StepLocks ==
  ASSUME ConsistentLock, ConsistentLock', Next
  PROVE  [Lockdown!Next]_(Lockdown!lockdownVars)
<1> USE DEF Working, SchedWorking, ListWorking
<1>1. CASE SchedEnter /\ SetSchedulerRunning(TRUE) /\ sched_pc' = "work"
  <2>1. is_running' = TRUE
        BY <1>1, Zenon DEF SetSchedulerRunning
  <2> QED
      BY <1>1, <2>1, JobBegins DEF SchedEnter
<1>2. CASE SchedWork
      BY <1>2, JobStops DEF SchedWork
<1>3. CASE SchedCrash /\ sched_pc = "work"
      BY <1>3, JobStops DEF SchedCrash
<1>4. CASE ListEnter /\ SetEnrichmentRunning(TRUE) /\ list_pc' = "fetch"
  <2>1. is_running' = TRUE
        BY <1>4, Zenon DEF SetEnrichmentRunning
  <2> QED
      BY <1>4, <2>1, JobBegins DEF ListEnter
<1>5. CASE ListFetch
      BY <1>5, JobStops, SameWork DEF ListFetch
<1>6. CASE ListWork
      BY <1>6, JobStops DEF ListWork
<1>7. CASE ListCrash /\ list_pc \in {"fetch", "work"}
      BY <1>7, JobStops DEF ListCrash
<1> DEFINE Same == Working' = Working
<1>8. CASE SchedStep /\ ~SchedWork
             /\ ~(SchedEnter /\ SetSchedulerRunning(TRUE) /\ sched_pc' = "work")
  <2>1. Same
        BY <1>8 DEF SchedStep, SchedStart, SchedReconcile, SchedHeal,
            SchedUniverseReady, SchedWake, SchedCheckEnrichment, SchedLogin,
            SchedPlan, SchedEnter, SchedClear
  <2> QED
      BY <2>1, SameWork
<1>9. CASE ListStep /\ ~ListFetch /\ ~ListWork
             /\ ~(ListEnter /\ SetEnrichmentRunning(TRUE) /\ list_pc' = "fetch")
  <2>1. Same
        BY <1>9 DEF ListStep, ListStart, ListPoll, ListCheckScheduler,
            ListWake, ListEnter, ListClear
  <2> QED
      BY <2>1, SameWork
<1>10. CASE EnvStep /\ ~(SchedCrash /\ sched_pc = "work")
              /\ ~(ListCrash /\ list_pc \in {"fetch", "work"})
  <2>1. Same
        BY <1>10 DEF EnvStep, SchedCrash, ListCrash, Age, WindowOpens,
            UploadBegin, UploadCommit
  <2> QED
      BY <2>1, SameWork
<1> QED
    BY <1>1, <1>2, <1>3, <1>4, <1>5, <1>6, <1>7, <1>8, <1>9, <1>10
    DEF Next

(* The two processes and their row implement the abstract lock. *)
THEOREM SpecLocksApplication == Spec => LocksApplication
<1>1. Init => Lockdown!Init
      BY DEF Init, Lockdown!Init, SchedWorking, ListWorking
<1>2. ConsistentLock /\ ConsistentLock' /\ [Next]_vars
        => [Lockdown!Next]_(Lockdown!lockdownVars)
  <2>1. CASE Next
        BY <2>1, StepLocks
  <2>2. CASE UNCHANGED vars
        BY <2>2 DEF Lockdown!lockdownVars, SchedWorking, ListWorking
  <2> QED
      BY <2>1, <2>2
<1> QED
    BY <1>1, <1>2, SpecConsistentLock, PTL
    DEF Spec, LocksApplication, Lockdown!Spec

=============================================================================
