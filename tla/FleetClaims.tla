----------------------------- MODULE FleetClaims -----------------------------
(* Sentences of the documentation and comments about missions, stated of    *)
(* FleetMission.  Each is refuted by a run of its own; README.md says how.  *)
EXTENDS FleetMission

(* docs/resilience-testing.md:13, an Agent that disconnects during an       *)
(* active mission raises an alert: raised where the socket's end is         *)
(* recorded, which also turns the robot offline.                            *)
LostLinkRecorded ==
  [][\A r \in open \ open' :
       current[r] # NoTask /\ status[current[r]] \in ActiveStatuses => ~online'[r]]_vars

(* docs/resilience-testing.md:19, when a robot goes offline while           *)
(* navigating its active task is preserved for safe reconnect.              *)
OfflineMissionPreserved ==
  [][\A r \in Robots :
       LET t == current[r]
       IN t # NoTask /\ status[t] \in ActiveStatuses /\ status'[t] = status[t] =>
            current'[r] = t]_vars

(* docs/HARDWARE_INTERFACE_CONTRACT.md:102, while mapping pauses AMCL and   *)
(* Nav2 the robot does not accept delivery assignments.                     *)
NoAssignmentWhileMapping ==
  [][\A r \in Robots : slam[r] /\ slam'[r] =>
       ActiveOn(status', assigned', r) \subseteq ActiveOn(status, assigned, r)]_vars
=============================================================================
