---------------------------- MODULE FleetMission ----------------------------
(***************************************************************************)
(* The mission state the control plane owns: delivery tasks, robots, the   *)
(* emergency latch, the mapping session flag and the registered Robot      *)
(* Agent sockets (backend/app/service.py, with the parts of                *)
(* emergency_service.py, robot_ws.py, websocket_manager.py, mapping.py and *)
(* robot_registry.py that change the same rows).                           *)
(*                                                                         *)
(* One action is one request, message or socket event.  Every handler that *)
(* touches a mission holds the robot's row lock from before its first      *)
(* decision until commit, so a handler is one step.                        *)
(***************************************************************************)
EXTENDS Integers, FiniteSets

CONSTANTS
  Robots,      \* robot ids
  Legacy,      \* the robots that were never paired (shared-token simulator)
  NoRobot,     \* the assignment of a task that does not exist yet
  MaxTasks     \* bound: how many tasks are ever created

(* A paired robot in the fleet makes every legacy robot ineligible for     *)
(* deliveries (list_fleet's allow_legacy), so a fleet is one or the other. *)
ASSUME FleetAssumption ==
  /\ Legacy \in {{}, Robots}
  /\ NoRobot \notin Robots
  /\ MaxTasks \in Nat

Tasks  == 1 .. MaxTasks   \* ids in creation order, which is also created_at order
NoTask == 0               \* current_task_id = None

ActiveStatuses == {"GOING_TO_PICKUP", "WAITING_FOR_LOADING",
                   "DELIVERING", "WAITING_FOR_UNLOADING"}
TerminalStatuses == {"COMPLETED", "FAILED", "CANCELLED"}
TaskStatus  == {"QUEUED"} \cup ActiveStatuses \cup TerminalStatuses
RobotState  == {"IDLE", "ERROR", "OFFLINE"} \cup ActiveStatuses
(* "READY" stands for DEGRADED too, which accepts supervised deliveries;    *)
(* "REVOKED" for an enrollment that is no longer PAIRED.                    *)
Readiness   == {"NOT_READY", "READY", "REVOKED"}
Priorities  == {"NORMAL", "HIGH"}

VARIABLES
  status,      \* status[t], "ABSENT" before the row exists
  assigned,    \* robot_id of t
  priority,    \* priority of t
  queueOrder,  \* queue_order of t
  online,      \* RobotORM.online
  state,       \* RobotORM.state
  current,     \* RobotORM.current_task_id
  readiness,   \* RobotORM.readiness_status and enrollment_status
  latched,     \* EmergencyStopORM.latched
  mapping,     \* mapping_store.is_active(r), in memory
  slam,        \* the robot itself is in mapping mode (external)
  connected,   \* robots with a registered Agent socket, in memory
  open         \* robots with a receive loop, registered or not

queueVars == <<priority, queueOrder>>
taskVars  == <<status, assigned, queueVars>>
robotVars == <<online, state, current>>
mapVars   == <<mapping, slam>>
linkVars  == <<connected, open>>
vars == <<taskVars, robotVars, readiness, latched, mapVars, linkVars>>

Init ==
  /\ status     = [t \in Tasks |-> "ABSENT"]
  /\ assigned   = [t \in Tasks |-> NoRobot]
  /\ priority   = [t \in Tasks |-> "NORMAL"]
  /\ queueOrder = [t \in Tasks |-> 0]
  /\ online     = [r \in Robots |-> r \in Legacy]
  /\ state      = [r \in Robots |-> IF r \in Legacy THEN "IDLE" ELSE "OFFLINE"]
  /\ current    = [r \in Robots |-> NoTask]
  /\ readiness  = [r \in Robots |-> "NOT_READY"]
  /\ latched    = [r \in Robots |-> FALSE]
  /\ mapping    = [r \in Robots |-> FALSE]
  /\ slam       = [r \in Robots |-> FALSE]
  /\ connected  = {}
  /\ open       = {}

-----------------------------------------------------------------------------
(* Queue order: HIGH before NORMAL, then queue_order, then creation.       *)

Before(pr, ord, u, v) ==
  \/ pr[u] = "HIGH" /\ pr[v] # "HIGH"
  \/ /\ (pr[u] = "HIGH") <=> (pr[v] = "HIGH")
     /\ \/ ord[u] < ord[v]
        \/ ord[u] = ord[v] /\ u < v

(* Seeded fault: the queue query forgets whose queue it reads.              *)
QueueOf_AnyRobot(st, asg, r) == {t \in Tasks : st[t] = "QUEUED"}

QueueOf(st, asg, r) == {t \in Tasks : st[t] = "QUEUED" /\ asg[t] = r}

(* max(queue_order) of the robot's queue, 0 when it is empty.              *)
LastOrder(r) ==
  {m \in {0} \cup {queueOrder[t] : t \in QueueOf(status, assigned, r)} :
     \A t \in QueueOf(status, assigned, r) : queueOrder[t] <= m}

(* Seeded fault: rows are not renumbered before two of them are swapped.    *)
Position_Unnumbered(pr, ord, q, u) == ord[u]

(* Position of u among q, 1 for the head: the renumbering of queue_order.  *)
Position(pr, ord, q, u) == 1 + Cardinality({v \in q : Before(pr, ord, v, u)})

-----------------------------------------------------------------------------
(* Dispatch.  A handler first computes the rows it changed (st, asg, onl,  *)
(* rs, cur); dispatch_next_queued_task runs last and reads those.          *)

ActiveOn(st, asg, r) == {t \in Tasks : st[t] \in ActiveStatuses /\ asg[t] = r}

(* Seeded faults: the emergency latch is not consulted; no query for an     *)
(* active task; the query runs before the handler's own changes are flushed.*)
RobotAvailable_Unlatched(st, asg, onl, rs, cur, r) ==
  /\ onl[r] /\ rs[r] = "IDLE" /\ cur[r] = NoTask
  /\ ActiveOn(st, asg, r) = {} /\ ~mapping[r]

RobotAvailable_CurrentOnly(st, asg, onl, rs, cur, r) ==
  /\ onl[r] /\ rs[r] = "IDLE" /\ cur[r] = NoTask
  /\ ~latched[r] /\ ~mapping[r]

RobotAvailable_Unflushed(st, asg, onl, rs, cur, r) ==
  /\ onl[r] /\ rs[r] = "IDLE" /\ cur[r] = NoTask
  /\ ActiveOn(status, asg, r) = {}
  /\ ~latched[r] /\ ~mapping[r]

RobotAvailable(st, asg, onl, rs, cur, r) ==
  /\ onl[r] /\ rs[r] = "IDLE" /\ cur[r] = NoTask
  /\ ActiveOn(st, asg, r) = {}
  /\ ~latched[r] /\ ~mapping[r]

AssignTask(st, rs, cur, t, r) ==
  /\ status'  = [st  EXCEPT ![t] = "GOING_TO_PICKUP"]
  /\ state'   = [rs  EXCEPT ![r] = "GOING_TO_PICKUP"]
  /\ current' = [cur EXCEPT ![r] = t]

(* The mission under way on r fails: the first row of active_task_for_robot.*)
FailMission_All(r) ==   \* seeded fault: queued deliveries fail with it
  status' = [t \in Tasks |->
    IF assigned[t] = r /\ status[t] \in {"QUEUED"} \cup ActiveStatuses
    THEN "FAILED" ELSE status[t]]

FailMission(r) ==
  LET active == ActiveOn(status, assigned, r)
  IN status' = [t \in Tasks |->
       IF t \in active /\ \A u \in active : t <= u THEN "FAILED" ELSE status[t]]

DispatchNext(st, asg, pr, ord, onl, rs, cur, r) ==
  LET q == QueueOf(st, asg, r)
      available == RobotAvailable(st, asg, onl, rs, cur, r)
  IN \/ /\ ~available \/ q = {}
        /\ status' = st /\ state' = rs /\ current' = cur
     \/ /\ available
        /\ \E t \in q : /\ \A u \in q \ {t} : Before(pr, ord, t, u)
                        /\ AssignTask(st, rs, cur, t, r)

-----------------------------------------------------------------------------
(* Deliveries.                                                             *)

(* accepts_deliveries, or allows_supervised_navigation when an admin asks. *)
Eligible(r) ==
  /\ online[r] /\ ~latched[r] /\ ~mapping[r]
  /\ r \in Legacy \/ readiness[r] = "READY"

CreateTask(t, r, p) ==
  LET st  == [status   EXCEPT ![t] = "QUEUED"]
      asg == [assigned EXCEPT ![t] = r]
      pr  == [priority EXCEPT ![t] = p]
  IN /\ status[t] = "ABSENT" /\ \A u \in Tasks : u < t => status[u] # "ABSENT"
     /\ Eligible(r)
     /\ assigned' = asg /\ priority' = pr
     /\ \E m \in LastOrder(r) :
          /\ queueOrder' = [queueOrder EXCEPT ![t] = m + 1]
          /\ DispatchNext(st, asg, pr, [queueOrder EXCEPT ![t] = m + 1],
                          online, state, current, r)
     /\ UNCHANGED <<online, readiness, latched, mapVars, linkVars>>

(* "KEEP" and "NONE" are the omitted fields of the request.                *)
UpdateQueuedTask(t, p, d) ==
  LET pr    == IF p = "KEEP" THEN priority ELSE [priority EXCEPT ![t] = p]
      q     == QueueOf(status, assigned, assigned[t])
      pos   == [u \in q |-> Position(pr, queueOrder, q, u)]
      other == {u \in q : /\ d # "NONE" /\ pr[u] = pr[t]
                          /\ pos[u] = pos[t] + (IF d = "UP" THEN -1 ELSE 1)}
  IN /\ status[t] = "QUEUED" /\ ~(p = "KEEP" /\ d = "NONE")
     /\ priority' = pr
     /\ queueOrder' = [u \in Tasks |->
          IF u \notin q THEN queueOrder[u]
          ELSE IF u \in other THEN pos[t]
          ELSE IF u = t /\ other # {} THEN pos[t] + (IF d = "UP" THEN -1 ELSE 1)
          ELSE pos[u]]
     /\ UNCHANGED <<status, assigned, robotVars, readiness, latched, mapVars, linkVars>>

CancelTask(t) ==
  /\ status[t] \in {"QUEUED"} \cup ActiveStatuses
  /\ status' = [status EXCEPT ![t] = "CANCELLED"]
  /\ UNCHANGED <<assigned, queueVars, robotVars, readiness, latched, mapVars, linkVars>>

(* The Agent reports the Nav2 goal cancelled.                              *)
FinalizeNavigationCancel(t, r) ==
  /\ r \in open
  /\ status[t] = "CANCELLED" /\ assigned[t] = r /\ current[r] = t
  /\ DispatchNext(status, assigned, priority, queueOrder, online,
                  [state EXCEPT ![r] = IF online[r] THEN "IDLE" ELSE "OFFLINE"],
                  [current EXCEPT ![r] = NoTask], r)
  /\ UNCHANGED <<assigned, queueVars, online, readiness, latched, mapVars, linkVars>>

RetryTask(t) ==
  LET r     == assigned[t]
      freed == current[r] = t \/ state[r] = "ERROR"
      rs    == IF freed /\ online[r] THEN [state EXCEPT ![r] = "IDLE"] ELSE state
      cur   == IF freed THEN [current EXCEPT ![r] = NoTask] ELSE current
  IN /\ status[t] = "FAILED"
     /\ DispatchNext([status EXCEPT ![t] = "QUEUED"], assigned, priority,
                     queueOrder, online, rs, cur, r)
     /\ UNCHANGED <<assigned, queueVars, online, readiness, latched, mapVars, linkVars>>

-----------------------------------------------------------------------------
(* The delivery state machine: from, event, to, state of the robot.        *)

(* Seeded fault: the robot's column keeps the stage it was in.              *)
Transition_StaleRobot(from, event, to, robot) ==
  [from |-> from, event |-> event, to |-> to, robot |-> from]

Transition(from, event, to, robot) ==
  [from |-> from, event |-> event, to |-> to, robot |-> robot]

Transitions == {
  Transition("GOING_TO_PICKUP", "ARRIVED_PICKUP",
             "WAITING_FOR_LOADING", "WAITING_FOR_LOADING"),
  Transition("WAITING_FOR_LOADING", "CONFIRM_LOADED", "DELIVERING", "DELIVERING"),
  Transition("DELIVERING", "ARRIVED_DESTINATION",
             "WAITING_FOR_UNLOADING", "WAITING_FOR_UNLOADING"),
  Transition("WAITING_FOR_UNLOADING", "CONFIRM_RECEIVED", "COMPLETED", "IDLE"),
  Transition("GOING_TO_PICKUP", "NAVIGATION_FAILED", "FAILED", "ERROR"),
  Transition("DELIVERING", "NAVIGATION_FAILED", "FAILED", "ERROR")}

OperatorEvents == {"CONFIRM_LOADED", "CONFIRM_RECEIVED"}

(* A failed navigation returns the robot to service unless it is stopped.  *)
AutoRecovers(r) == online[r] /\ ~latched[r]

ApplyTaskEvent(t, tr) ==
  LET r  == assigned[t]
      st == [status EXCEPT ![t] = tr.to]
      rs == [state  EXCEPT ![r] = tr.robot]
      idle == [state EXCEPT ![r] = "IDLE"]
      free == [current EXCEPT ![r] = NoTask]
      frees == tr.to = "COMPLETED" \/ (tr.to = "FAILED" /\ AutoRecovers(r))
  IN /\ status[t] = tr.from /\ current[r] = t /\ online[r]
     /\ tr.event \notin OperatorEvents => r \in open
     /\ \/ frees /\ DispatchNext(st, assigned, priority, queueOrder, online, idle, free, r)
        \/ ~frees /\ status' = st /\ state' = rs /\ current' = current
     /\ UNCHANGED <<assigned, queueVars, online, readiness, latched, mapVars, linkVars>>

-----------------------------------------------------------------------------
(* Operators put a robot out of service and back.                          *)

SetRobotOffline(r) ==
  /\ online[r] \/ state[r] # "OFFLINE"
  /\ FailMission(r)
  /\ online'  = [online  EXCEPT ![r] = FALSE]
  /\ state'   = [state   EXCEPT ![r] = "OFFLINE"]
  /\ current' = [current EXCEPT ![r] = NoTask]
  /\ UNCHANGED <<assigned, queueVars, readiness, latched, mapVars, linkVars>>

SetRobotOnline(r) ==
  LET onl == [online EXCEPT ![r] = TRUE]
  IN /\ ~(online[r] /\ state[r] # "OFFLINE")
     /\ online' = onl
     /\ DispatchNext(status, assigned, priority, queueOrder, onl,
                     [state EXCEPT ![r] = "IDLE"], [current EXCEPT ![r] = NoTask], r)
     /\ UNCHANGED <<assigned, queueVars, readiness, latched, mapVars, linkVars>>

RecoverRobot(r) ==
  /\ online[r] /\ state[r] = "ERROR"
  /\ DispatchNext(status, assigned, priority, queueOrder, online,
                  [state EXCEPT ![r] = "IDLE"], [current EXCEPT ![r] = NoTask], r)
  /\ UNCHANGED <<assigned, queueVars, online, readiness, latched, mapVars, linkVars>>

-----------------------------------------------------------------------------
(* The Agent's socket.                                                     *)

(* What the reconnecting robot's current task asks for: carry on with it,   *)
(* or wait for the Agent to confirm its cancellation.                       *)
ToResume_NotFailed(t) == t # NoTask /\ status[t] # "FAILED"   \* seeded fault
ToResume(t) == t # NoTask /\ status[t] \in ActiveStatuses

ToConfirm_Never(t) == FALSE   \* seeded fault: a cancelled task is settled
ToConfirm(t) == t # NoTask /\ status[t] = "CANCELLED"

(* A socket is registered, replacing an earlier one.  A paired Agent's     *)
(* hello resets readiness first; then record_robot_connection decides what *)
(* becomes of the mission the row still names.                             *)
Connect(r) ==
  LET t    == current[r]
      onl  == [online EXCEPT ![r] = TRUE]
      idle == [state EXCEPT ![r] = "IDLE"]
      free == [current EXCEPT ![r] = NoTask]
      failed == t # NoTask /\ status[t] = "FAILED" /\ latched[r]
      keeps  == ToResume(t) \/ ToConfirm(t) \/ failed
  IN /\ connected' = connected \cup {r} /\ open' = open \cup {r}
     /\ online' = onl
     /\ readiness' = IF r \in Legacy THEN readiness
                     ELSE [readiness EXCEPT ![r] = "NOT_READY"]
     /\ \/ /\ keeps
           /\ state' = [state EXCEPT ![r] = IF ToResume(t) THEN status[t]
                                          ELSE IF failed THEN "ERROR" ELSE "IDLE"]
           /\ UNCHANGED <<status, current>>
        \/ /\ ~keeps
           /\ DispatchNext(status, assigned, priority, queueOrder, onl, idle, free, r)
     /\ UNCHANGED <<assigned, queueVars, latched, mapVars>>

(* A receive loop ends.  It records that if its socket is the registered   *)
(* one still.                                                              *)
Disconnect(r) ==
  /\ r \in open
  /\ open' = open \ {r}
  /\ \/ /\ r \in connected
        /\ connected' = connected \ {r}
        /\ online' = [online EXCEPT ![r] = FALSE]
        /\ state'  = [state  EXCEPT ![r] = "OFFLINE"]
     \/ r \notin connected /\ UNCHANGED <<connected, online, state>>
  /\ UNCHANGED <<taskVars, current, readiness, latched, mapVars>>

(* send_json fails on a dying socket and unregisters it: its receive loop  *)
(* handles what has arrived, and ends later.                               *)
SendFails(r) ==
  /\ r \in connected
  /\ connected' = connected \ {r}
  /\ UNCHANGED <<taskVars, robotVars, readiness, latched, mapVars, open>>

ReportReadiness(r, s) ==
  /\ r \in open \ Legacy /\ readiness[r] # "REVOKED"
  /\ readiness' = [readiness EXCEPT ![r] = s]
  /\ UNCHANGED <<taskVars, robotVars, latched, mapVars, linkVars>>

(* The registry revokes the robot's credentials and closes its socket.     *)
Revoke(r) ==
  /\ r \notin Legacy
  /\ readiness' = [readiness EXCEPT ![r] = "REVOKED"]
  /\ online'    = [online EXCEPT ![r] = FALSE]
  /\ state'     = [state  EXCEPT ![r] = "OFFLINE"]
  /\ connected' = connected \ {r}
  /\ UNCHANGED <<taskVars, current, latched, mapVars, open>>

-----------------------------------------------------------------------------
(* Emergency stop: the latch and what activating it does to the mission.   *)

ActivateEmergencyStop(r) ==
  /\ ~latched[r]
  /\ latched' = [latched EXCEPT ![r] = TRUE]
  /\ FailMission(r)
  /\ current' = [current EXCEPT ![r] = NoTask]
  /\ state' = [state EXCEPT ![r] = IF online[r] THEN "ERROR" ELSE "OFFLINE"]
  /\ UNCHANGED <<assigned, queueVars, online, readiness, mapVars, linkVars>>

(* The Agent acknowledges the reset the operator asked for.                *)
AcknowledgeReset(r) ==
  /\ r \in open /\ latched[r]
  /\ latched' = [latched EXCEPT ![r] = FALSE]
  /\ UNCHANGED <<taskVars, robotVars, readiness, mapVars, linkVars>>

-----------------------------------------------------------------------------
(* Mapping: the backend's session flag and the robot's own mode.           *)

StartMapping(r) ==
  /\ online[r] /\ state[r] = "IDLE" /\ current[r] = NoTask
  /\ ActiveOn(status, assigned, r) = {} /\ QueueOf(status, assigned, r) = {}
  /\ ~latched[r] /\ ~mapping[r]
  /\ r \in connected
  /\ mapping' = [mapping EXCEPT ![r] = TRUE]
  /\ slam'    = [slam EXCEPT ![r] = TRUE]
  /\ UNCHANGED <<taskVars, robotVars, readiness, latched, linkVars>>

(* The robot leaves mapping mode: saved, discarded or failed.              *)
FinishMapping(r) ==
  /\ slam[r]
  /\ slam' = [slam EXCEPT ![r] = FALSE]
  /\ UNCHANGED <<taskVars, robotVars, readiness, latched, mapping, linkVars>>

(* mapping_status: the session takes whatever phase the robot reports.     *)
ReportMapping(r) ==
  /\ r \in open
  /\ mapping' = [mapping EXCEPT ![r] = slam[r]]
  /\ UNCHANGED <<taskVars, robotVars, readiness, latched, slam, linkVars>>

(* A stop, save or discard cannot be delivered: the session is FAILED, and *)
(* the robot still in mapping mode.                                         *)
MappingCommandUndelivered(r) ==
  /\ mapping[r]
  /\ mapping' = [mapping EXCEPT ![r] = FALSE]
  /\ connected' = connected \ {r}
  /\ UNCHANGED <<taskVars, robotVars, readiness, latched, slam, open>>

-----------------------------------------------------------------------------
(* The control plane restarts: memory is lost, paired robots read offline. *)
Restart ==
  /\ connected' = {} /\ open' = {}
  /\ mapping' = [r \in Robots |-> FALSE]
  /\ online' = [r \in Robots |-> online[r] /\ r \in Legacy]
  /\ state'  = [r \in Robots |-> IF online[r] /\ r \notin Legacy
                                 THEN "OFFLINE" ELSE state[r]]
  /\ UNCHANGED <<taskVars, current, readiness, latched, slam>>

RobotStep(r) ==
  \/ SetRobotOffline(r) \/ SetRobotOnline(r) \/ RecoverRobot(r)
  \/ Connect(r) \/ Disconnect(r) \/ SendFails(r) \/ Revoke(r)
  \/ \E s \in {"NOT_READY", "READY"} : ReportReadiness(r, s)
  \/ ActivateEmergencyStop(r) \/ AcknowledgeReset(r)
  \/ StartMapping(r) \/ FinishMapping(r) \/ ReportMapping(r)
  \/ MappingCommandUndelivered(r)

TaskStep(t) ==
  \/ \E r \in Robots, p \in Priorities : CreateTask(t, r, p)
  \/ \E p \in Priorities \cup {"KEEP"}, d \in {"UP", "DOWN", "NONE"} :
       UpdateQueuedTask(t, p, d)
  \/ CancelTask(t) \/ RetryTask(t)
  \/ \E r \in Robots : FinalizeNavigationCancel(t, r)
  \/ \E tr \in Transitions : ApplyTaskEvent(t, tr)

Next == Restart \/ (\E r \in Robots : RobotStep(r)) \/ (\E t \in Tasks : TaskStep(t))

Spec == Init /\ [][Next]_vars

-----------------------------------------------------------------------------
(* Safety.                                                                 *)

(* Every row holds a value its column can hold.                            *)
TypeOK ==
  /\ status     \in [Tasks -> TaskStatus \cup {"ABSENT"}]
  /\ assigned   \in [Tasks -> Robots \cup {NoRobot}]
  /\ priority   \in [Tasks -> Priorities]
  /\ queueOrder \in [Tasks -> Nat]
  /\ online     \in [Robots -> BOOLEAN]
  /\ state      \in [Robots -> RobotState]
  /\ current    \in [Robots -> Tasks \cup {NoTask}]
  /\ readiness  \in [Robots -> Readiness]
  /\ latched    \in [Robots -> BOOLEAN]
  /\ mapping    \in [Robots -> BOOLEAN]
  /\ slam       \in [Robots -> BOOLEAN]
  /\ connected  \subseteq open /\ open \subseteq Robots

(* A robot never has two deliveries under way, whichever handlers ran:     *)
(* active_task_for_robot returns the first row and relies on it.           *)
OneActiveTask ==
  \A r \in Robots : \A t, u \in ActiveOn(status, assigned, r) : t = u

(* current_task_id names a task of that robot that is under way, or whose  *)
(* cancellation the Agent has not confirmed; and a task under way is never *)
(* shadowed by another current task.                                       *)
CurrentIsOwn ==
  \A r \in Robots :
    /\ current[r] # NoTask =>
         /\ assigned[current[r]] = r
         /\ status[current[r]] \in ActiveStatuses \cup {"CANCELLED"}
    /\ \A t \in ActiveOn(status, assigned, r) : current[r] \in {t, NoTask}

(* While the emergency stop is latched no delivery of the robot is under   *)
(* way, and none is dispatched before the reset is acknowledged.           *)
StopInhibitsMission ==
  \A r \in Robots : latched[r] => ActiveOn(status, assigned, r) = {}

(* The state column mirrors the mission: a robot shown busy has a current  *)
(* task, in that very stage unless it is being cancelled, so that no robot *)
(* is left busy with nothing (recover and online would both refuse it).    *)
StateMirrorsMission ==
  \A r \in Robots :
    /\ online[r] <=> state[r] # "OFFLINE"
    /\ state[r] \in ActiveStatuses =>
         current[r] # NoTask /\ status[current[r]] \in {state[r], "CANCELLED"}
    /\ online[r] /\ current[r] # NoTask /\ status[current[r]] \in ActiveStatuses =>
         state[r] = status[current[r]]

-----------------------------------------------------------------------------
(* What a step may never do.                                               *)

(* Robot r stands available with a delivery in its queue.                  *)
IdleBacklog(r) ==
  /\ RobotAvailable(status, assigned, online, state, current, r)
  /\ QueueOf(status, assigned, r) # {}

(* A handler that frees a robot hands it the next delivery in the same     *)
(* transaction.  A backlog in front of an available robot arises only when *)
(* the emergency latch or the mapping flag falls (neither dispatches), or  *)
(* when a task that set_robot_online had detached is cancelled.            *)
NoLostHandover ==
  [][\A r \in Robots : IdleBacklog(r)' /\ ~IdleBacklog(r) =>
       \/ latched[r] /\ ~latched'[r]
       \/ mapping[r] /\ ~mapping'[r]
       \/ \E t \in ActiveOn(status, assigned, r) :
            current[r] = NoTask /\ status'[t] = "CANCELLED"]_vars

(* A cancelled delivery stays the robot's current one until the Agent      *)
(* confirms, except where an operator overrides: emergency stop, marking   *)
(* the robot offline, or bringing an offline robot online.                 *)
CancelHeldUntilConfirmed ==
  [][\A r \in Robots :
       LET t == current[r]
       IN t # NoTask /\ status[t] = "CANCELLED" /\ current'[r] # t =>
            \/ FinalizeNavigationCancel(t, r)
            \/ latched'[r] /\ ~latched[r]
            \/ ~online'[r]
            \/ state[r] = "OFFLINE" /\ online'[r] /\ connected' = connected]_vars

(* Changing the place of one queued delivery moves that one only: all the  *)
(* others keep their relative order, and so does every other queue.        *)
QueueReorderIsLocal ==
  [][(priority' # priority \/ queueOrder' # queueOrder) =>
       \E m \in Tasks : \A u, v \in Tasks \ {m} :
         status[u] = "QUEUED" /\ status[v] = "QUEUED" /\ assigned[u] = assigned[v] =>
           (Before(priority, queueOrder, u, v) <=> Before(priority', queueOrder', u, v))]_vars

-----------------------------------------------------------------------------
(* The tasks and their robots alone behave as TaskLifecycle promises.      *)
Lifecycle == INSTANCE TaskLifecycle WITH
  Tasks <- Tasks, Robots <- Robots, NoRobot <- NoRobot,
  status <- status, assigned <- assigned
ImplementsLifecycle == Lifecycle!Spec
=============================================================================
