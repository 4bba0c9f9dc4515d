---------------------------- MODULE TaskLifecycle ----------------------------
(***************************************************************************)
(* What the control plane promises of a delivery, whatever requests,       *)
(* messages and failures it handles: it stays with the robot it was        *)
(* created for, it moves along the edges of its life cycle only, one step  *)
(* at a time, and a robot is handed a delivery only when it has none.      *)
(***************************************************************************)
CONSTANTS Tasks, Robots, NoRobot

VARIABLES status, assigned

vars == <<status, assigned>>

UnderWay == {"GOING_TO_PICKUP", "WAITING_FOR_LOADING",
             "DELIVERING", "WAITING_FOR_UNLOADING"}

(* Every edge but the dispatch, QUEUED to GOING_TO_PICKUP.                 *)
Onward == [GOING_TO_PICKUP       |-> "WAITING_FOR_LOADING",
           WAITING_FOR_LOADING   |-> "DELIVERING",
           DELIVERING            |-> "WAITING_FOR_UNLOADING",
           WAITING_FOR_UNLOADING |-> "COMPLETED"]

Edge(from, to) ==
  \/ from \in UnderWay /\ to \in {Onward[from], "FAILED"}
  \/ from \in UnderWay \cup {"QUEUED"} /\ to = "CANCELLED"
  \/ from = "FAILED" /\ to = "QUEUED"

Reached == {"QUEUED", "COMPLETED", "FAILED", "CANCELLED"} \cup UnderWay

Init ==
  /\ status   = [t \in Tasks |-> "ABSENT"]
  /\ assigned = [t \in Tasks |-> NoRobot]

(* With the deliveries in st, r may take one of its own if it has none.    *)
MayDispatch(st, r) ==
  \/ status' = st
  \/ /\ \A t \in Tasks : assigned'[t] = r => st[t] \notin UnderWay
     /\ \E t \in Tasks : /\ assigned'[t] = r /\ st[t] = "QUEUED"
                         /\ status' = [st EXCEPT ![t] = "GOING_TO_PICKUP"]

Create(t, r) ==
  /\ status[t] = "ABSENT"
  /\ assigned' = [assigned EXCEPT ![t] = r]
  /\ MayDispatch([status EXCEPT ![t] = "QUEUED"], r)

Move(t, s) ==
  /\ Edge(status[t], s)
  /\ assigned' = assigned
  /\ MayDispatch([status EXCEPT ![t] = s], assigned[t])

Dispatch(r) == assigned' = assigned /\ MayDispatch(status, r)

Next ==
  \/ \E r \in Robots : Dispatch(r)
  \/ \E t \in Tasks, r \in Robots : Create(t, r)
  \/ \E t \in Tasks, s \in Reached : Move(t, s)

Spec == Init /\ [][Next]_vars
=============================================================================
