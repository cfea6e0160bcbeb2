------------------------------ MODULE DayStore ------------------------------
(***************************************************************************)
(* What STEP 2 promises the steps after it about the raw prices of one     *)
(* exchange, whatever becomes of files, parsers and transactions.  The     *)
(* days are walked oldest first from the last stored one, each is stored   *)
(* once and never changed, and none is passed over that is not excused.    *)
(* DailyDownload implements this down to the file and Pipeline, which      *)
(* takes a day as one action, implements it for each exchange.             *)
(***************************************************************************)
EXTENDS Naturals, Sequences

CONSTANT Days           \* the days there are, from 1 on

VARIABLES
  stored,         \* the files whose rows a day was given, one after the other
  left,           \* the days left in the walk
  excused,        \* days the exchange had no file for, or no session
  cut             \* days whose file was cut off by a kill

vars == <<stored, left, excused, cut>>

Held == {d \in Days : stored[d] # << >>}

(* Before the first walk nothing is held; days without a session may be    *)
(* excused from the start.                                                 *)
Init ==
  /\ stored = [d \in Days |-> << >>]
  /\ left = {} /\ cut = {}
  /\ excused \in SUBSET Days

(* The day that is next. *)
First(d) == d \in left /\ \A x \in left : d <= x

-----------------------------------------------------------------------------
(* A walk begins after the last day held, or from the start when that      *)
(* cannot be read.  A day between two of its days that is not one of them  *)
(* is excused.                                                             *)
Begin ==
  /\ left = {}
  /\ \E from \in Held \cup {0} :
       /\ from = 0 \/ \A h \in Held : h <= from
       /\ left' \subseteq {d \in Days : from < d}
       /\ excused' = excused \cup
            {d \in Days \ left' : from < d /\ \E x \in left' : d < x}
  /\ UNCHANGED <<stored, cut>>

(* The rows of the day are inserted, from a whole file or one cut off by a *)
(* kill.  The walk goes on, or ends if the answer to the commit was lost.  *)
Store(d) ==
  /\ First(d) /\ d \notin Held
  /\ \E content \in {"short", "whole"} :
       /\ content = "short" => d \in cut
       /\ stored' = [stored EXCEPT ![d] = <<content>>]
  /\ left' \in {left \ {d}, {}}
  /\ UNCHANGED <<excused, cut>>

(* The day was stored by an earlier walk. *)
Pass(d) ==
  /\ First(d) /\ d \in Held
  /\ left' = left \ {d}
  /\ UNCHANGED <<stored, excused, cut>>

(* The exchange has no file for the day. *)
Excuse(d) ==
  /\ First(d)
  /\ excused' = excused \cup {d}
  /\ left' = left \ {d}
  /\ UNCHANGED <<stored, cut>>

(* A failure ends the walk; a kill may cut off the file of the day. *)
Stop(d) ==
  /\ First(d)
  /\ left' = {}
  /\ cut' \in {cut, cut \cup {d}}
  /\ UNCHANGED <<stored, excused>>

Next ==
  \/ Begin
  \/ \E d \in Days : Store(d) \/ Pass(d) \/ Excuse(d) \/ Stop(d)

Spec == Init /\ [][Next]_vars

=============================================================================
