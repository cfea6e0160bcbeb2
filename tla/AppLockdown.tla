----------------------------- MODULE AppLockdown -----------------------------
(***************************************************************************)
(* What the shared maintenance_status row promises the rest of the system, *)
(* whatever processes write it: the application is locked whenever a       *)
(* maintenance process is changing data, and is unlocked only when none    *)
(* is.  It says nothing of how the row stores this, nor that the lock is   *)
(* released in the end.                                                    *)
(***************************************************************************)

CONSTANT Jobs   \* the processes that may put the application in maintenance

VARIABLES
  working,      \* the jobs that are changing data now
  locked        \* what the application's request filter reads

lockdownVars == <<working, locked>>

TypeOK ==
  /\ working \subseteq Jobs
  /\ locked \in BOOLEAN

Init ==
  /\ working = {}
  /\ locked = FALSE

(* A job begins to change data and locks the application in one step. *)
Begin(j) ==
  /\ j \notin working
  /\ working' = working \cup {j}
  /\ locked' = TRUE

(* A job stops changing data: it finished, it failed, or it was killed. *)
Stop(j) ==
  /\ j \in working
  /\ working' = working \ {j}
  /\ UNCHANGED locked

(* The application is locked and the job does not begin: it never learned   *)
(* that its request to lock had been done.                                 *)
Lock ==
  /\ ~locked
  /\ locked' = TRUE
  /\ UNCHANGED working

(* The lock is released, and only when nobody works under it. *)
Unlock ==
  /\ working = {}
  /\ locked
  /\ locked' = FALSE
  /\ UNCHANGED working

Next ==
  \/ \E j \in Jobs : Begin(j) \/ Stop(j)
  \/ Lock
  \/ Unlock

Spec == Init /\ [][Next]_lockdownVars

=============================================================================
