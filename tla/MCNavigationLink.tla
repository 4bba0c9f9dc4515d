--------------------------- MODULE MCNavigationLink ---------------------------
(* NavigationLink for TLC: one robot, its enrollment in force.               *)
EXTENDS NavigationLink

(* One kind of delivery, and one command waiting for its response to leave.  *)
OneMission ==
  /\ readiness[Bot] # "REVOKED"
  /\ \A t \in Tasks : priority[t] = "NORMAL"
  /\ Cardinality(sends) <= 1

(* An emergency stop is not combined with an offline request half done.      *)
StopOrOffline == latched[Bot] => ~clearing /\ ~torn

(* Operators neither stop the robot nor mark it offline.                     *)
Undisturbed == ~latched[Bot] /\ ~clearing

(* Readiness is reported only where it decides something: before a delivery  *)
(* is created.                                                               *)
ReadyToCreate ==
  readiness'[Bot] # readiness[Bot] =>
    \/ connected' # connected
    \/ \E t \in Tasks : status[t] = "ABSENT"
=============================================================================
