------------------------- MODULE FleetMission_proofs -------------------------
(***************************************************************************)
(* FleetMission for every fleet and every number of tasks: the type        *)
(* invariant, the four safety invariants the runs check, that the mission  *)
(* state implements TaskLifecycle, and the three action properties.        *)
(*                                                                         *)
(* A handler computes the rows it changed and then dispatches.  Good is    *)
(* the invariant written over such rows, so that each handler needs two    *)
(* facts only: its own rows are Good, and dispatching keeps them so.       *)
(***************************************************************************)
EXTENDS FleetMission, FiniteSetTheorems, TLAPS

Rows(st, asg, onl, rs, cur, lat) ==
  /\ st  \in [Tasks -> TaskStatus \cup {"ABSENT"}]
  /\ asg \in [Tasks -> Robots \cup {NoRobot}]
  /\ onl \in [Robots -> BOOLEAN]
  /\ rs  \in [Robots -> RobotState]
  /\ cur \in [Robots -> Tasks \cup {NoTask}]
  /\ lat \in [Robots -> BOOLEAN]

(* A task that exists has a robot.                                         *)
HasRobot(st, asg) == \A t \in Tasks : st[t] # "ABSENT" => asg[t] \in Robots

OneActive(st, asg) ==
  \A t, u \in Tasks : st[t] \in ActiveStatuses /\ st[u] \in ActiveStatuses
                      /\ asg[t] = asg[u] => t = u

Own(st, asg, cur) ==
  /\ \A r \in Robots : cur[r] # NoTask =>
       asg[cur[r]] = r /\ st[cur[r]] \in ActiveStatuses \cup {"CANCELLED"}
  /\ \A t \in Tasks : st[t] \in ActiveStatuses => cur[asg[t]] \in {t, NoTask}

Inhibits(st, asg, lat) ==
  \A t \in Tasks : st[t] \in ActiveStatuses => ~lat[asg[t]]

Mirrors(st, onl, rs, cur) ==
  \A r \in Robots :
    /\ onl[r] <=> rs[r] # "OFFLINE"
    /\ rs[r] \in ActiveStatuses =>
         cur[r] # NoTask /\ st[cur[r]] \in {rs[r], "CANCELLED"}
    /\ onl[r] /\ cur[r] # NoTask /\ st[cur[r]] \in ActiveStatuses => rs[r] = st[cur[r]]

Good(st, asg, onl, rs, cur, lat) ==
  /\ Rows(st, asg, onl, rs, cur, lat)
  /\ HasRobot(st, asg)
  /\ OneActive(st, asg)
  /\ Own(st, asg, cur)
  /\ Inhibits(st, asg, lat)
  /\ Mirrors(st, onl, rs, cur)

Others ==
  /\ priority   \in [Tasks -> Priorities]
  /\ queueOrder \in [Tasks -> Nat]
  /\ readiness  \in [Robots -> Readiness]
  /\ mapping    \in [Robots -> BOOLEAN]
  /\ slam       \in [Robots -> BOOLEAN]
  /\ connected  \subseteq open /\ open \subseteq Robots

IInv == Others /\ Good(status, assigned, online, state, current, latched)

LEMMA NoTaskNotTask == NoTask \notin Tasks
  BY DEF NoTask, Tasks

(* Dispatching keeps Good rows Good: the robot it hands a task to has none *)
(* and is not stopped.                                                     *)
LEMMA DispatchKeepsGood ==
  ASSUME NEW st, NEW asg, NEW pr, NEW ord, NEW onl, NEW rs, NEW cur,
         NEW r \in Robots,
         Good(st, asg, onl, rs, cur, latched),
         DispatchNext(st, asg, pr, ord, onl, rs, cur, r)
  PROVE  Good(status', asg, onl, state', current', latched)
<1>1. CASE status' = st /\ state' = rs /\ current' = cur
  BY <1>1
<1>2. CASE \E t \in QueueOf(st, asg, r) :
             RobotAvailable(st, asg, onl, rs, cur, r) /\ AssignTask(st, rs, cur, t, r)
  <2>1. PICK t \in Tasks : /\ st[t] = "QUEUED" /\ asg[t] = r
                           /\ RobotAvailable(st, asg, onl, rs, cur, r)
                           /\ AssignTask(st, rs, cur, t, r)
    BY <1>2 DEF QueueOf
  <2>2. /\ status'  = [st  EXCEPT ![t] = "GOING_TO_PICKUP"]
        /\ state'   = [rs  EXCEPT ![r] = "GOING_TO_PICKUP"]
        /\ current' = [cur EXCEPT ![r] = t]
    BY <2>1 DEF AssignTask
  <2>3. /\ onl[r] /\ cur[r] = NoTask /\ ~latched[r]
        /\ \A u \in Tasks : st[u] \in ActiveStatuses => asg[u] # r
    BY <2>1 DEF RobotAvailable, ActiveOn
  <2>4. Rows(status', asg, onl, state', current', latched)
    BY <2>2 DEF Good, Rows, TaskStatus, RobotState, ActiveStatuses
  <2>5. HasRobot(status', asg)
    BY <2>1, <2>2 DEF Good, Rows, HasRobot
  <2>6. OneActive(status', asg)
    BY <2>1, <2>2, <2>3 DEF Good, Rows, OneActive, ActiveStatuses
  <2>7. Own(status', asg, current')
    BY <2>1, <2>2, <2>3, NoTaskNotTask DEF Good, Rows, HasRobot, Own, ActiveStatuses
  <2>8. Inhibits(status', asg, latched)
    BY <2>1, <2>2, <2>3 DEF Good, Rows, Inhibits
  <2>9. Mirrors(status', onl, state', current')
    BY <2>1, <2>2, <2>3, NoTaskNotTask DEF Good, Rows, Own, Mirrors, ActiveStatuses
  <2> QED
    BY <2>4, <2>5, <2>6, <2>7, <2>8, <2>9 DEF Good
<1> QED
  BY <1>1, <1>2 DEF DispatchNext

-----------------------------------------------------------------------------
(* The rows each handler computes, before it dispatches.                    *)

(* The order given to a new task, and every place in a queue, is a number.  *)
LEMMA LastOrderType ==
  ASSUME Others, NEW r \in Robots
  PROVE  LastOrder(r) \subseteq Nat
  BY DEF LastOrder, QueueOf, Others

LEMMA PositionType ==
  ASSUME NEW pr, NEW ord, NEW q \in SUBSET Tasks, NEW u
  PROVE  Position(pr, ord, q, u) \in Nat \ {0}
<1>1. IsFiniteSet(Tasks)
  BY FleetAssumption, FS_Interval DEF Tasks, FleetAssumption
<1>2. IsFiniteSet({v \in q : Before(pr, ord, v, u)})
  BY <1>1, FS_Subset
<1>3. Cardinality({v \in q : Before(pr, ord, v, u)}) \in Nat
  BY <1>2, FS_CardinalityType
<1> QED
  BY <1>3 DEF Position

(* A task leaves the active statuses, is created, or is queued again: no   *)
(* robot gains a mission.                                                  *)
LEMMA SettleKeepsGood ==
  ASSUME NEW st, NEW asg, NEW onl, NEW rs, NEW cur, NEW lat,
         Good(st, asg, onl, rs, cur, lat),
         NEW t \in Tasks, NEW s \in {"QUEUED", "CANCELLED"},
         st[t] \in {"QUEUED", "FAILED"} \cup ActiveStatuses,
         s = "QUEUED" => \A r \in Robots : cur[r] # t
  PROVE  Good([st EXCEPT ![t] = s], asg, onl, rs, cur, lat)
<1> DEFINE st1 == [st EXCEPT ![t] = s]
<1>1. Rows(st1, asg, onl, rs, cur, lat) /\ HasRobot(st1, asg)
  BY DEF Good, Rows, HasRobot, TaskStatus, ActiveStatuses, TerminalStatuses
<1>2. OneActive(st1, asg) /\ Inhibits(st1, asg, lat)
  BY DEF Good, Rows, OneActive, Inhibits, ActiveStatuses
<1>3. Own(st1, asg, cur)
  BY NoTaskNotTask DEF Good, Rows, Own, ActiveStatuses
<1>4. Mirrors(st1, onl, rs, cur)
  BY NoTaskNotTask DEF Good, Rows, Mirrors, ActiveStatuses
<1> QED
  BY <1>1, <1>2, <1>3, <1>4 DEF Good

(* A robot that is online and idle may forget its current task.            *)
LEMMA FreeKeepsGood ==
  ASSUME NEW st, NEW asg, NEW onl, NEW rs, NEW cur, NEW lat, NEW r \in Robots,
         Good(st, asg, onl, rs, cur, lat)
  PROVE  Good(st, asg, [onl EXCEPT ![r] = TRUE], [rs EXCEPT ![r] = "IDLE"],
              [cur EXCEPT ![r] = NoTask], lat)
  BY NoTaskNotTask DEF Good, Rows, HasRobot, OneActive, Own, Inhibits, Mirrors,
                       ActiveStatuses, RobotState

(* A robot taken offline keeps its current task or forgets it.             *)
LEMMA OfflineKeepsGood ==
  ASSUME NEW st, NEW asg, NEW onl, NEW rs, NEW cur, NEW lat, NEW r \in Robots,
         Good(st, asg, onl, rs, cur, lat),
         NEW c \in {cur[r], NoTask}
  PROVE  Good(st, asg, [onl EXCEPT ![r] = FALSE], [rs EXCEPT ![r] = "OFFLINE"],
              [cur EXCEPT ![r] = c], lat)
  BY NoTaskNotTask DEF Good, Rows, HasRobot, OneActive, Own, Inhibits, Mirrors,
                       ActiveStatuses, RobotState

(* The mission under way on r fails and r forgets it; r may be latched.    *)
LEMMA FailKeepsGood ==
  ASSUME Good(status, assigned, online, state, current, latched),
         NEW r \in Robots, FailMission(r),
         current' = [current EXCEPT ![r] = NoTask],
         NEW l \in BOOLEAN, l \in {latched[r], TRUE},
         NEW on \in BOOLEAN,
         NEW s \in {"ERROR", "OFFLINE"}, on <=> s = "ERROR"
  PROVE  Good(status', assigned, [online EXCEPT ![r] = on], [state EXCEPT ![r] = s],
              current', [latched EXCEPT ![r] = l])
<1> DEFINE st == [t \in Tasks |-> IF status[t] \in ActiveStatuses /\ assigned[t] = r
                                  THEN "FAILED" ELSE status[t]]
<1>1. status' = st
  BY DEF FailMission, ActiveOn, Good, Rows, OneActive, Tasks
<1>2. Rows(st, assigned, [online EXCEPT ![r] = on], [state EXCEPT ![r] = s],
           current', [latched EXCEPT ![r] = l]) /\ HasRobot(st, assigned)
  BY DEF Good, Rows, HasRobot, TaskStatus, TerminalStatuses, ActiveStatuses, RobotState
<1>3. OneActive(st, assigned) /\ Inhibits(st, assigned, [latched EXCEPT ![r] = l])
  BY DEF Good, Rows, OneActive, Inhibits, HasRobot, ActiveStatuses
<1>4. Own(st, assigned, current')
  BY NoTaskNotTask DEF Good, Rows, HasRobot, Own, ActiveStatuses
<1>5. Mirrors(st, [online EXCEPT ![r] = on], [state EXCEPT ![r] = s], current')
  BY NoTaskNotTask DEF Good, Rows, Own, Mirrors, ActiveStatuses
<1> QED
  BY <1>1, <1>2, <1>3, <1>4, <1>5 DEF Good

-----------------------------------------------------------------------------
(* One lemma per handler that touches a mission.                           *)

LEMMA CreateTaskStep ==
  ASSUME IInv, NEW t \in Tasks, NEW r \in Robots, NEW p \in Priorities, CreateTask(t, r, p)
  PROVE  IInv'
<1> DEFINE st  == [status   EXCEPT ![t] = "QUEUED"]
           asg == [assigned EXCEPT ![t] = r]
           pr  == [priority EXCEPT ![t] = p]
<1>1. status[t] = "ABSENT" /\ assigned' = asg
  BY DEF CreateTask
<1>2. PICK m \in LastOrder(r) :
        /\ queueOrder' = [queueOrder EXCEPT ![t] = m + 1]
        /\ DispatchNext(st, asg, pr, [queueOrder EXCEPT ![t] = m + 1],
                        online, state, current, r)
  BY DEF CreateTask
<1>3. Good(st, asg, online, state, current, latched)
  <2>1. \A q \in Robots : current[q] # t
    BY <1>1, NoTaskNotTask DEF IInv, Good, Own, ActiveStatuses
  <2>2. Rows(st, asg, online, state, current, latched) /\ HasRobot(st, asg)
    BY DEF IInv, Good, Rows, HasRobot, TaskStatus
  <2>3. OneActive(st, asg) /\ Inhibits(st, asg, latched)
    BY <1>1 DEF IInv, Good, Rows, OneActive, Inhibits, ActiveStatuses
  <2>4. Own(st, asg, current)
    BY <1>1, <2>1, NoTaskNotTask DEF IInv, Good, Rows, Own, ActiveStatuses
  <2>5. Mirrors(st, online, state, current)
    BY <1>1, <2>1, NoTaskNotTask DEF IInv, Good, Rows, Mirrors, ActiveStatuses
  <2> QED
    BY <2>2, <2>3, <2>4, <2>5 DEF Good
<1>4. Good(status', asg, online, state', current', latched)
  BY <1>2, <1>3, DispatchKeepsGood
<1>5. m + 1 \in Nat
  BY LastOrderType DEF IInv
<1>6. Others'
  BY <1>2, <1>5 DEF CreateTask, mapVars, linkVars, IInv, Others
<1> QED
  BY <1>1, <1>4, <1>6 DEF CreateTask, IInv

LEMMA UpdateQueuedTaskStep ==
  ASSUME IInv, NEW t \in Tasks, NEW p \in Priorities \cup {"KEEP"},
         NEW d \in {"UP", "DOWN", "NONE"}, UpdateQueuedTask(t, p, d)
  PROVE  IInv'
<1> DEFINE pr  == IF p = "KEEP" THEN priority ELSE [priority EXCEPT ![t] = p]
           q   == QueueOf(status, assigned, assigned[t])
           pos == [u \in q |-> Position(pr, queueOrder, q, u)]
           other == {u \in q : /\ d # "NONE" /\ pr[u] = pr[t]
                               /\ pos[u] = pos[t] + (IF d = "UP" THEN -1 ELSE 1)}
<1>1. t \in q /\ q \subseteq Tasks
  BY DEF UpdateQueuedTask, QueueOf
<1>2. \A u \in q : pos[u] \in Nat \ {0}
  BY <1>1, PositionType
<1>3. pos[t] - 1 \in Nat /\ pos[t] + 1 \in Nat
  <2>1. pos[t] \in Nat \ {0}
    BY <1>1, <1>2
  <2> QED
    BY <2>1
<1>4. queueOrder' \in [Tasks -> Nat]
  <2>1. queueOrder' = [u \in Tasks |->
          IF u \notin q THEN queueOrder[u]
          ELSE IF u \in other THEN pos[t]
          ELSE IF u = t /\ other # {} THEN pos[t] + (IF d = "UP" THEN -1 ELSE 1)
          ELSE pos[u]]
    BY DEF UpdateQueuedTask
  <2> HIDE DEF pos, q, other
  <2> QED
    BY <1>1, <1>2, <1>3, <2>1 DEF IInv, Others
<1>5. priority' \in [Tasks -> Priorities]
  BY DEF UpdateQueuedTask, IInv, Others
<1>6. UNCHANGED <<status, assigned, robotVars, readiness, latched, mapVars, linkVars>>
  BY DEF UpdateQueuedTask
<1> QED
  BY <1>4, <1>5, <1>6 DEF IInv, Others, robotVars, mapVars, linkVars

LEMMA CancelTaskStep ==
  ASSUME IInv, NEW t \in Tasks, CancelTask(t)
  PROVE  IInv'
<1>1. Good(status', assigned, online, state, current, latched)
  BY SettleKeepsGood DEF CancelTask, IInv
<1>2. Others'
  BY DEF CancelTask, queueVars, mapVars, linkVars, IInv, Others
<1> QED
  BY <1>1, <1>2 DEF CancelTask, robotVars, IInv

LEMMA RetryTaskStep ==
  ASSUME IInv, NEW t \in Tasks, RetryTask(t)
  PROVE  IInv'
<1> DEFINE r     == assigned[t]
           st    == [status EXCEPT ![t] = "QUEUED"]
           freed == current[r] = t \/ state[r] = "ERROR"
           rs    == IF freed /\ online[r] THEN [state EXCEPT ![r] = "IDLE"] ELSE state
           cur   == IF freed THEN [current EXCEPT ![r] = NoTask] ELSE current
<1>1. status[t] = "FAILED" /\ r \in Robots
  BY DEF RetryTask, IInv, Good, HasRobot
<1>2. \A s \in Robots : current[s] # t
  BY <1>1, NoTaskNotTask DEF IInv, Good, Own, ActiveStatuses
<1>3. Good(st, assigned, online, state, current, latched)
  BY <1>1, <1>2, SettleKeepsGood DEF IInv
<1>4. online[r] => online = [online EXCEPT ![r] = TRUE]
  BY <1>1 DEF IInv, Good, Rows
<1>5. ~online[r] => state[r] = "OFFLINE"
  BY <1>1 DEF IInv, Good, Mirrors
<1>6. Good(st, assigned, online, rs, cur, latched)
  <2>1. CASE freed /\ online[r]
    <3>1. Good(st, assigned, [online EXCEPT ![r] = TRUE], [state EXCEPT ![r] = "IDLE"],
               [current EXCEPT ![r] = NoTask], latched)
      BY <1>1, <1>3, FreeKeepsGood
    <3> QED
      BY <2>1, <3>1, <1>4
  <2>2. CASE ~(freed /\ online[r])
    BY <2>2, <1>2, <1>1, <1>3, <1>5
  <2> QED
    BY <2>1, <2>2
<1>7. DispatchNext(st, assigned, priority, queueOrder, online, rs, cur, r)
  BY DEF RetryTask
<1>8. Good(status', assigned, online, state', current', latched)
  BY <1>1, <1>6, <1>7, DispatchKeepsGood
<1>9. Others'
  BY DEF RetryTask, queueVars, mapVars, linkVars, IInv, Others
<1> QED
  BY <1>8, <1>9 DEF RetryTask, IInv

LEMMA FinalizeNavigationCancelStep ==
  ASSUME IInv, NEW t \in Tasks, NEW r \in Robots, FinalizeNavigationCancel(t, r)
  PROVE  IInv'
<1> DEFINE rs  == [state EXCEPT ![r] = IF online[r] THEN "IDLE" ELSE "OFFLINE"]
           cur == [current EXCEPT ![r] = NoTask]
<1>1. Good(status, assigned, online, rs, cur, latched)
  <2>1. CASE online[r]
    <3>1. online = [online EXCEPT ![r] = TRUE]
      BY <2>1 DEF IInv, Good, Rows
    <3> QED
      BY <2>1, <3>1, FreeKeepsGood DEF IInv
  <2>2. CASE ~online[r]
    <3>1. online = [online EXCEPT ![r] = FALSE]
      BY <2>2 DEF IInv, Good, Rows
    <3>2. Good(status, assigned, [online EXCEPT ![r] = FALSE],
               [state EXCEPT ![r] = "OFFLINE"], cur, latched)
      BY OfflineKeepsGood DEF IInv
    <3>3. rs = [state EXCEPT ![r] = "OFFLINE"]
      BY <2>2
    <3> QED
      BY <3>1, <3>2, <3>3
  <2> QED
    BY <2>1, <2>2
<1>2. Good(status', assigned, online, state', current', latched)
  BY <1>1, DispatchKeepsGood DEF FinalizeNavigationCancel
<1>3. Others'
  BY DEF FinalizeNavigationCancel, queueVars, mapVars, linkVars, IInv, Others
<1> QED
  BY <1>2, <1>3 DEF FinalizeNavigationCancel, IInv

(* An event that does not end the delivery moves it and the robot's column *)
(* together; one that does frees the robot, which then dispatches.  A      *)
(* latched robot has no delivery that could fail.                          *)
LEMMA ApplyTaskEventStep ==
  ASSUME IInv, NEW t \in Tasks, NEW tr \in Transitions, ApplyTaskEvent(t, tr)
  PROVE  IInv'
<1> DEFINE r  == assigned[t]
           st == [status EXCEPT ![t] = tr.to]
           rs == [state  EXCEPT ![r] = tr.robot]
           idle == [state EXCEPT ![r] = "IDLE"]
           free == [current EXCEPT ![r] = NoTask]
<1>1. /\ status[t] = tr.from /\ current[r] = t /\ online[r]
      /\ \/ /\ tr.to = "COMPLETED" \/ (tr.to = "FAILED" /\ AutoRecovers(r))
            /\ DispatchNext(st, assigned, priority, queueOrder, online, idle, free, r)
         \/ /\ ~(tr.to = "COMPLETED" \/ (tr.to = "FAILED" /\ AutoRecovers(r)))
            /\ status' = st /\ state' = rs /\ current' = current
  BY DEF ApplyTaskEvent
<1>2. /\ tr.from \in ActiveStatuses
      /\ \/ tr.to \in ActiveStatuses /\ tr.robot = tr.to
         \/ tr.to \in {"COMPLETED", "FAILED"}
  BY DEF Transitions, Transition, ActiveStatuses
<1>3. r \in Robots /\ t # NoTask
  BY <1>1, <1>2, NoTaskNotTask DEF IInv, Good, HasRobot, ActiveStatuses
<1>4. Good(status', assigned, online, state', current', latched)
  <2>1. CASE tr.to \in ActiveStatuses
    <3>1. status' = st /\ state' = rs /\ current' = current
      BY <1>1, <2>1 DEF ActiveStatuses
    <3>2. Rows(st, assigned, online, rs, current, latched) /\ HasRobot(st, assigned)
      BY <1>1, <1>2, <1>3, <2>1 DEF IInv, Good, Rows, HasRobot, TaskStatus, RobotState,
                                    ActiveStatuses
    <3>3. OneActive(st, assigned) /\ Inhibits(st, assigned, latched)
      BY <1>1, <1>2, <1>3, <2>1 DEF IInv, Good, Rows, OneActive, Inhibits
    <3>4. Own(st, assigned, current)
      BY <1>1, <1>2, <1>3, <2>1 DEF IInv, Good, Rows, Own
    <3>5. Mirrors(st, online, rs, current)
      BY <1>1, <1>2, <1>3, <2>1, NoTaskNotTask DEF IInv, Good, Rows, Own, Mirrors,
                                                   ActiveStatuses
    <3> QED
      BY <3>1, <3>2, <3>3, <3>4, <3>5 DEF Good
  <2>2. CASE tr.to \in {"COMPLETED", "FAILED"}
    <3>1. ~latched[r]
      BY <1>1, <1>2 DEF IInv, Good, Inhibits
    <3>2. DispatchNext(st, assigned, priority, queueOrder, online, idle, free, r)
      BY <1>1, <2>2, <3>1 DEF AutoRecovers
    <3>3. Rows(st, assigned, online, idle, free, latched) /\ HasRobot(st, assigned)
      BY <1>1, <1>3, <2>2 DEF IInv, Good, Rows, HasRobot, TaskStatus, TerminalStatuses,
                              RobotState
    <3>4. OneActive(st, assigned) /\ Inhibits(st, assigned, latched)
      BY <1>1, <1>3, <2>2 DEF IInv, Good, Rows, OneActive, Inhibits, ActiveStatuses
    <3>5. Own(st, assigned, free)
      BY <1>1, <1>3, <2>2, NoTaskNotTask DEF IInv, Good, Rows, Own, ActiveStatuses
    <3>6. Mirrors(st, online, idle, free)
      BY <1>1, <1>3, <2>2, NoTaskNotTask DEF IInv, Good, Rows, Own, Mirrors, ActiveStatuses
    <3>7. Good(st, assigned, online, idle, free, latched)
      BY <3>3, <3>4, <3>5, <3>6 DEF Good
    <3> QED
      BY <1>3, <3>2, <3>7, DispatchKeepsGood
  <2> QED
    BY <1>2, <2>1, <2>2
<1>5. Others'
  BY DEF ApplyTaskEvent, queueVars, mapVars, linkVars, IInv, Others
<1> QED
  BY <1>4, <1>5 DEF ApplyTaskEvent, IInv

LEMMA SetRobotOfflineStep ==
  ASSUME IInv, NEW r \in Robots, SetRobotOffline(r)
  PROVE  IInv'
<1>1. Good(status', assigned, [online EXCEPT ![r] = FALSE], [state EXCEPT ![r] = "OFFLINE"],
           current', [latched EXCEPT ![r] = latched[r]])
  BY FailKeepsGood DEF SetRobotOffline, IInv, Good, Rows
<1>2. latched = [latched EXCEPT ![r] = latched[r]]
  BY DEF IInv, Good, Rows
<1>3. Others'
  BY DEF SetRobotOffline, queueVars, mapVars, linkVars, IInv, Others
<1> QED
  BY <1>1, <1>2, <1>3 DEF SetRobotOffline, IInv

LEMMA SetRobotOnlineStep ==
  ASSUME IInv, NEW r \in Robots, SetRobotOnline(r)
  PROVE  IInv'
<1>1. Good(status, assigned, [online EXCEPT ![r] = TRUE], [state EXCEPT ![r] = "IDLE"],
           [current EXCEPT ![r] = NoTask], latched)
  BY FreeKeepsGood DEF IInv
<1>2. Good(status', assigned, online', state', current', latched)
  BY <1>1, DispatchKeepsGood DEF SetRobotOnline
<1>3. Others'
  BY DEF SetRobotOnline, queueVars, mapVars, linkVars, IInv, Others
<1> QED
  BY <1>2, <1>3 DEF SetRobotOnline, IInv

LEMMA RecoverRobotStep ==
  ASSUME IInv, NEW r \in Robots, RecoverRobot(r)
  PROVE  IInv'
<1>1. Good(status, assigned, [online EXCEPT ![r] = TRUE], [state EXCEPT ![r] = "IDLE"],
           [current EXCEPT ![r] = NoTask], latched)
  BY FreeKeepsGood DEF IInv
<1>2. online = [online EXCEPT ![r] = TRUE]
  BY DEF RecoverRobot, IInv, Good, Rows
<1>3. Good(status', assigned, online, state', current', latched)
  BY <1>1, <1>2, DispatchKeepsGood DEF RecoverRobot
<1>4. Others'
  BY DEF RecoverRobot, queueVars, mapVars, linkVars, IInv, Others
<1> QED
  BY <1>3, <1>4 DEF RecoverRobot, IInv

(* The mission the row names goes on, waits for its cancellation, or is    *)
(* over, and then the robot dispatches.  No current task has FAILED.       *)
LEMMA ConnectStep ==
  ASSUME IInv, NEW r \in Robots, Connect(r)
  PROVE  IInv'
<1> DEFINE t    == current[r]
           onl  == [online EXCEPT ![r] = TRUE]
           idle == [state EXCEPT ![r] = "IDLE"]
           free == [current EXCEPT ![r] = NoTask]
           failed == t # NoTask /\ status[t] = "FAILED" /\ latched[r]
           keeps  == ToResume(t) \/ ToConfirm(t) \/ failed
<1>1. ~failed
  BY DEF IInv, Good, Own, ActiveStatuses
<1>2. Good(status', assigned, onl, state', current', latched)
  <2>1. CASE keeps
    <3>1. /\ UNCHANGED <<status, current>>
          /\ state' = [state EXCEPT ![r] = IF ToResume(t) THEN status[t] ELSE "IDLE"]
      BY <1>1, <2>1 DEF Connect
    <3>2. Rows(status', assigned, onl, state', current', latched)
      BY <3>1 DEF IInv, Good, Rows, RobotState, ToResume
    <3>3. Mirrors(status', onl, state', current')
      BY <1>1, <2>1, <3>1, NoTaskNotTask
         DEF IInv, Good, Rows, Mirrors, ToResume, ToConfirm, ActiveStatuses
    <3> QED
      BY <3>1, <3>2, <3>3 DEF IInv, Good
  <2>2. CASE ~keeps
    <3>1. DispatchNext(status, assigned, priority, queueOrder, onl, idle, free, r)
      BY <2>2 DEF Connect
    <3>2. Good(status, assigned, onl, idle, free, latched)
      BY FreeKeepsGood DEF IInv
    <3> QED
      BY <3>1, <3>2, DispatchKeepsGood
  <2> QED
    BY <2>1, <2>2
<1>3. Others'
  BY DEF Connect, queueVars, mapVars, linkVars, IInv, Others, Readiness
<1> QED
  BY <1>2, <1>3 DEF Connect, IInv

(* The socket ends, or the registry revokes the robot: it keeps its task.  *)
LEMMA OfflineEdgeStep ==
  ASSUME IInv, NEW r \in Robots, Disconnect(r) \/ Revoke(r)
  PROVE  IInv'
<1>1. Good(status, assigned, [online EXCEPT ![r] = FALSE], [state EXCEPT ![r] = "OFFLINE"],
           [current EXCEPT ![r] = current[r]], latched)
  BY OfflineKeepsGood DEF IInv
<1>2. current = [current EXCEPT ![r] = current[r]]
  BY DEF IInv, Good, Rows
<1>3. Others'
  BY DEF Disconnect, Revoke, taskVars, queueVars, mapVars, linkVars, IInv, Others, Readiness
<1>4. UNCHANGED <<status, assigned, current, latched>>
  BY DEF Disconnect, Revoke, taskVars
<1>5. CASE UNCHANGED <<online, state>>
  BY <1>3, <1>4, <1>5 DEF IInv
<1>6. CASE /\ online' = [online EXCEPT ![r] = FALSE]
           /\ state'  = [state  EXCEPT ![r] = "OFFLINE"]
  BY <1>1, <1>2, <1>3, <1>4, <1>6 DEF IInv
<1> QED
  BY <1>5, <1>6 DEF Disconnect, Revoke

(* Messages that touch no mission.                                         *)
LEMMA AgentMessageStep ==
  ASSUME IInv, NEW r \in Robots,
         \/ SendFails(r) \/ \E s \in {"NOT_READY", "READY"} : ReportReadiness(r, s)
         \/ StartMapping(r) \/ FinishMapping(r) \/ ReportMapping(r)
         \/ MappingCommandUndelivered(r)
  PROVE  IInv'
<1>1. UNCHANGED <<taskVars, robotVars, latched>>
  BY DEF SendFails, ReportReadiness, StartMapping, FinishMapping, ReportMapping,
         MappingCommandUndelivered
<1>2. Others'
  BY DEF SendFails, ReportReadiness, StartMapping, FinishMapping, ReportMapping,
         MappingCommandUndelivered, taskVars, queueVars, mapVars, linkVars,
         IInv, Others, Readiness
<1> QED
  BY <1>1, <1>2 DEF taskVars, robotVars, IInv

LEMMA EmergencyStopStep ==
  ASSUME IInv, NEW r \in Robots, ActivateEmergencyStop(r) \/ AcknowledgeReset(r)
  PROVE  IInv'
<1>1. CASE ActivateEmergencyStop(r)
  <2> DEFINE s == IF online[r] THEN "ERROR" ELSE "OFFLINE"
  <2>1. Good(status', assigned, [online EXCEPT ![r] = online[r]], [state EXCEPT ![r] = s],
             current', [latched EXCEPT ![r] = TRUE])
    <3>1. online[r] \in BOOLEAN
      BY DEF IInv, Good, Rows
    <3> QED
      BY <1>1, <3>1, FailKeepsGood DEF ActivateEmergencyStop, IInv
  <2>2. online = [online EXCEPT ![r] = online[r]]
    BY DEF IInv, Good, Rows
  <2>3. Others'
    BY <1>1 DEF ActivateEmergencyStop, queueVars, mapVars, linkVars, IInv, Others
  <2> QED
    BY <1>1, <2>1, <2>2, <2>3 DEF ActivateEmergencyStop, IInv
<1>2. CASE AcknowledgeReset(r)
  <2>1. latched' = [latched EXCEPT ![r] = FALSE] /\ UNCHANGED <<taskVars, robotVars>>
    BY <1>2 DEF AcknowledgeReset
  <2>2. Good(status, assigned, online, state, current, latched')
    BY <2>1 DEF IInv, Good, Rows, Inhibits
  <2>3. Others'
    BY <1>2 DEF AcknowledgeReset, taskVars, queueVars, mapVars, linkVars, IInv, Others
  <2> QED
    BY <2>1, <2>2, <2>3 DEF taskVars, robotVars, IInv
<1> QED
  BY <1>1, <1>2

LEMMA RestartStep ==
  ASSUME IInv, Restart
  PROVE  IInv'
<1>1. UNCHANGED <<status, assigned, current, latched>>
  BY DEF Restart, taskVars
<1>2. Rows(status, assigned, online', state', current, latched)
  BY DEF Restart, IInv, Good, Rows, RobotState
<1>3. Mirrors(status, online', state', current)
  BY DEF Restart, IInv, Good, Rows, Mirrors, ActiveStatuses
<1>4. Others'
  BY DEF Restart, taskVars, queueVars, linkVars, IInv, Others
<1> QED
  BY <1>1, <1>2, <1>3, <1>4 DEF IInv, Good

-----------------------------------------------------------------------------
(* The invariant.                                                          *)

LEMMA InitInvariant == Init => IInv
<1> SUFFICES ASSUME Init PROVE IInv
  OBVIOUS
<1>1. Others
  BY DEF Init, Others, Priorities, Readiness
<1>2. Rows(status, assigned, online, state, current, latched)
  <2>1. online \in [Robots -> BOOLEAN] /\ latched \in [Robots -> BOOLEAN]
    BY DEF Init
  <2>2. state \in [Robots -> RobotState] /\ current \in [Robots -> Tasks \cup {NoTask}]
    BY DEF Init, RobotState
  <2>3. status \in [Tasks -> TaskStatus \cup {"ABSENT"}]
        /\ assigned \in [Tasks -> Robots \cup {NoRobot}]
    BY DEF Init
  <2> QED
    BY <2>1, <2>2, <2>3 DEF Rows
<1>3. /\ HasRobot(status, assigned) /\ OneActive(status, assigned)
      /\ Own(status, assigned, current) /\ Inhibits(status, assigned, latched)
  BY DEF Init, HasRobot, OneActive, Own, Inhibits, ActiveStatuses
<1>4. Mirrors(status, online, state, current)
  BY DEF Init, Mirrors, ActiveStatuses
<1> QED
  BY <1>1, <1>2, <1>3, <1>4 DEF IInv, Good

LEMMA StepInvariant == IInv /\ [Next]_vars => IInv'
<1> SUFFICES ASSUME IInv, [Next]_vars PROVE IInv'
  OBVIOUS
<1>1. CASE Restart
  BY <1>1, RestartStep
<1>2. CASE \E r \in Robots : RobotStep(r)
  <2>1. PICK r \in Robots : RobotStep(r)
    BY <1>2
  <2> QED
    BY <2>1, SetRobotOfflineStep, SetRobotOnlineStep, RecoverRobotStep, ConnectStep,
       OfflineEdgeStep, AgentMessageStep, EmergencyStopStep DEF RobotStep
<1>3. CASE \E t \in Tasks : TaskStep(t)
  <2>1. PICK t \in Tasks : TaskStep(t)
    BY <1>3
  <2> QED
    BY <2>1, CreateTaskStep, UpdateQueuedTaskStep, CancelTaskStep, RetryTaskStep,
       FinalizeNavigationCancelStep, ApplyTaskEventStep DEF TaskStep
<1>4. CASE UNCHANGED vars
  BY <1>4 DEF vars, taskVars, queueVars, robotVars, mapVars, linkVars, IInv, Others
<1> QED
  BY <1>1, <1>2, <1>3, <1>4 DEF Next

LEMMA Invariance == Spec => []IInv
  BY InitInvariant, StepInvariant, PTL DEF Spec

(* Every row always holds a value its column can hold.                     *)
THEOREM TypeCorrect == Spec => []TypeOK
<1>1. IInv => TypeOK
  BY DEF IInv, Others, Good, Rows, TypeOK
<1> QED
  BY <1>1, Invariance, PTL

(* A robot never has two deliveries under way.                             *)
THEOREM OneActiveTaskHolds == Spec => []OneActiveTask
<1>1. IInv => OneActiveTask
  BY DEF IInv, Good, OneActive, OneActiveTask, ActiveOn
<1> QED
  BY <1>1, Invariance, PTL

(* current_task_id names a mission of that robot, and shadows none.        *)
THEOREM CurrentIsOwnHolds == Spec => []CurrentIsOwn
<1>1. IInv => CurrentIsOwn
  BY DEF IInv, Good, Own, CurrentIsOwn, ActiveOn
<1> QED
  BY <1>1, Invariance, PTL

(* No delivery is under way on a robot whose emergency stop is latched.    *)
THEOREM StopInhibitsMissionHolds == Spec => []StopInhibitsMission
<1>1. IInv => StopInhibitsMission
  BY DEF IInv, Good, Inhibits, StopInhibitsMission, ActiveOn
<1> QED
  BY <1>1, Invariance, PTL

(* The state column mirrors the mission: no robot is busy with nothing.    *)
THEOREM StateMirrorsMissionHolds == Spec => []StateMirrorsMission
<1>1. IInv => StateMirrorsMission
  BY DEF IInv, Good, Mirrors, StateMirrorsMission
<1> QED
  BY <1>1, Invariance, PTL

-----------------------------------------------------------------------------
(* Implementation of TaskLifecycle.  What a handler does to the deliveries *)
(* is one edge, or none, followed by at most one dispatch.                 *)

(* dispatch_next_queued_task is the abstract dispatch.                     *)
LEMMA DispatchRefines ==
  ASSUME NEW st \in [Tasks -> TaskStatus \cup {"ABSENT"}],
         NEW pr, NEW ord, NEW onl, NEW rs, NEW cur, NEW r \in Robots,
         DispatchNext(st, assigned', pr, ord, onl, rs, cur, r)
  PROVE  Lifecycle!MayDispatch(st, r)
  BY DEF DispatchNext, AssignTask, RobotAvailable, ActiveOn, QueueOf, ActiveStatuses,
         Lifecycle!MayDispatch, Lifecycle!UnderWay

(* The failed mission follows an edge; with none under way nothing moves.  *)
LEMMA FailRefines ==
  ASSUME IInv, NEW r \in Robots, FailMission(r), assigned' = assigned
  PROVE  Lifecycle!Next \/ UNCHANGED <<status, assigned>>
<1>1. CASE ActiveOn(status, assigned, r) = {}
  <2>1. status' = status
    BY <1>1 DEF FailMission, IInv, Good, Rows
  <2> QED
    BY <2>1
<1>2. CASE ActiveOn(status, assigned, r) # {}
  <2>1. PICK t \in Tasks : status[t] \in ActiveStatuses /\ assigned[t] = r
    BY <1>2 DEF ActiveOn
  <2>2. ActiveOn(status, assigned, r) = {t} /\ t \in Int
    BY <2>1 DEF ActiveOn, IInv, Good, OneActive, Tasks
  <2>3. status' = [u \in Tasks |-> IF u = t THEN "FAILED" ELSE status[u]]
    BY <2>2 DEF FailMission
  <2>4. status' = [status EXCEPT ![t] = "FAILED"]
    BY <2>3 DEF IInv, Good, Rows
  <2>5. Lifecycle!Edge(status[t], "FAILED") /\ "FAILED" \in Lifecycle!Reached
    BY <2>1 DEF ActiveStatuses, Lifecycle!Edge, Lifecycle!Onward,
           Lifecycle!Reached, Lifecycle!UnderWay
  <2>6. Lifecycle!Move(t, "FAILED")
    BY <2>4, <2>5 DEF Lifecycle!Move, Lifecycle!MayDispatch
  <2> QED
    BY <2>5, <2>6 DEF Lifecycle!Next
<1> QED
  BY <1>1, <1>2

LEMMA TaskStepRefines ==
  ASSUME IInv, NEW t \in Tasks, TaskStep(t)
  PROVE  Lifecycle!Next \/ UNCHANGED <<status, assigned>>
<1>1. status \in [Tasks -> TaskStatus \cup {"ABSENT"}]
  BY DEF IInv, Good, Rows
<1>2. CASE \E r \in Robots, p \in Priorities : CreateTask(t, r, p)
  <2>1. PICK r \in Robots, p \in Priorities : CreateTask(t, r, p)
    BY <1>2
  <2> DEFINE st == [status EXCEPT ![t] = "QUEUED"]
  <2>2. status[t] = "ABSENT" /\ assigned' = [assigned EXCEPT ![t] = r]
    BY <2>1 DEF CreateTask
  <2>3. \E pr, ord : DispatchNext(st, assigned', pr, ord, online, state, current, r)
    BY <2>1 DEF CreateTask
  <2>4. st \in [Tasks -> TaskStatus \cup {"ABSENT"}]
    BY <1>1 DEF TaskStatus
  <2>5. Lifecycle!MayDispatch(st, r)
    BY <2>3, <2>4, DispatchRefines
  <2> QED
    BY <2>2, <2>5 DEF Lifecycle!Next, Lifecycle!Create
<1>3. CASE \E p \in Priorities \cup {"KEEP"}, d \in {"UP", "DOWN", "NONE"} :
             UpdateQueuedTask(t, p, d)
  BY <1>3 DEF UpdateQueuedTask
<1>4. CASE CancelTask(t)
  <2>1. Lifecycle!Edge(status[t], "CANCELLED") /\ "CANCELLED" \in Lifecycle!Reached
    BY <1>4 DEF CancelTask, ActiveStatuses, Lifecycle!Edge, Lifecycle!Onward,
           Lifecycle!Reached, Lifecycle!UnderWay
  <2>2. Lifecycle!Move(t, "CANCELLED")
    BY <1>4, <2>1 DEF CancelTask, Lifecycle!Move, Lifecycle!MayDispatch
  <2> QED
    BY <2>1, <2>2 DEF Lifecycle!Next
<1>5. CASE RetryTask(t)
  <2> DEFINE st == [status EXCEPT ![t] = "QUEUED"]
  <2>1. status[t] = "FAILED" /\ assigned' = assigned
    BY <1>5 DEF RetryTask
  <2>2. \E rs, cur : DispatchNext(st, assigned', priority, queueOrder, online,
                                  rs, cur, assigned[t])
    BY <1>5, <2>1 DEF RetryTask
  <2>3. assigned[t] \in Robots
    BY <2>1 DEF IInv, Good, HasRobot
  <2>4. st \in [Tasks -> TaskStatus \cup {"ABSENT"}]
    BY <1>1 DEF TaskStatus
  <2>5. Lifecycle!MayDispatch(st, assigned[t])
    BY <2>2, <2>3, <2>4, DispatchRefines
  <2>6. Lifecycle!Edge(status[t], "QUEUED") /\ "QUEUED" \in Lifecycle!Reached
    BY <2>1 DEF Lifecycle!Edge, Lifecycle!Reached
  <2> QED
    BY <2>1, <2>5, <2>6 DEF Lifecycle!Next, Lifecycle!Move
<1>6. CASE \E r \in Robots : FinalizeNavigationCancel(t, r)
  <2>1. PICK r \in Robots : FinalizeNavigationCancel(t, r)
    BY <1>6
  <2>2. assigned' = assigned
    BY <2>1 DEF FinalizeNavigationCancel
  <2>3. \E rs, cur : DispatchNext(status, assigned', priority, queueOrder, online, rs, cur, r)
    BY <2>1, <2>2 DEF FinalizeNavigationCancel
  <2>4. Lifecycle!MayDispatch(status, r)
    BY <1>1, <2>3, DispatchRefines
  <2> QED
    BY <2>2, <2>4 DEF Lifecycle!Next, Lifecycle!Dispatch
<1>7. CASE \E tr \in Transitions : ApplyTaskEvent(t, tr)
  <2>1. PICK tr \in Transitions : ApplyTaskEvent(t, tr)
    BY <1>7
  <2> DEFINE st == [status EXCEPT ![t] = tr.to]
  <2>2. /\ status[t] = tr.from /\ assigned' = assigned
        /\ \/ \E rs, cur : DispatchNext(st, assigned', priority, queueOrder, online,
                                        rs, cur, assigned[t])
           \/ status' = st
    BY <2>1 DEF ApplyTaskEvent
  <2>3. /\ Lifecycle!Edge(tr.from, tr.to) /\ tr.to \in Lifecycle!Reached
        /\ tr.from \in ActiveStatuses /\ tr.to \in TaskStatus
    BY DEF Transitions, Transition, ActiveStatuses, TaskStatus, TerminalStatuses,
           Lifecycle!Edge, Lifecycle!Onward,
           Lifecycle!Reached, Lifecycle!UnderWay
  <2>4. assigned[t] \in Robots
    BY <2>2, <2>3 DEF IInv, Good, HasRobot, ActiveStatuses
  <2>5. st \in [Tasks -> TaskStatus \cup {"ABSENT"}]
    BY <1>1, <2>3
  <2>6. Lifecycle!MayDispatch(st, assigned[t])
    <3>1. CASE status' = st
      BY <3>1 DEF Lifecycle!MayDispatch
    <3>2. CASE \E rs, cur : DispatchNext(st, assigned', priority, queueOrder, online,
                                         rs, cur, assigned[t])
      BY <3>2, <2>4, <2>5, DispatchRefines
    <3> QED
      BY <2>2, <3>1, <3>2
  <2>7. Lifecycle!Move(t, tr.to)
    BY <2>2, <2>3, <2>6 DEF Lifecycle!Move
  <2> QED
    BY <2>3, <2>7 DEF Lifecycle!Next
<1> QED
  BY <1>2, <1>3, <1>4, <1>5, <1>6, <1>7 DEF TaskStep

LEMMA RobotStepRefines ==
  ASSUME IInv, NEW r \in Robots, RobotStep(r)
  PROVE  Lifecycle!Next \/ UNCHANGED <<status, assigned>>
<1>1. CASE SetRobotOffline(r) \/ ActivateEmergencyStop(r)
  BY <1>1, FailRefines DEF SetRobotOffline, ActivateEmergencyStop
<1>2. CASE SetRobotOnline(r) \/ RecoverRobot(r) \/ Connect(r)
  <2>1. assigned' = assigned
    BY <1>2 DEF SetRobotOnline, RecoverRobot, Connect
  <2>2. \/ status' = status
        \/ \E onl, rs, cur : DispatchNext(status, assigned', priority, queueOrder,
                                          onl, rs, cur, r)
    BY <1>2, <2>1 DEF SetRobotOnline, RecoverRobot, Connect
  <2>3. CASE \E onl, rs, cur : DispatchNext(status, assigned', priority, queueOrder,
                                            onl, rs, cur, r)
    <3>1. Lifecycle!MayDispatch(status, r)
      BY <2>3, DispatchRefines DEF IInv, Good, Rows
    <3> QED
      BY <2>1, <3>1 DEF Lifecycle!Next, Lifecycle!Dispatch
  <2> QED
    BY <2>1, <2>2, <2>3
<1>3. CASE \/ Disconnect(r) \/ SendFails(r) \/ Revoke(r)
           \/ \E s \in {"NOT_READY", "READY"} : ReportReadiness(r, s)
           \/ AcknowledgeReset(r)
           \/ StartMapping(r) \/ FinishMapping(r) \/ ReportMapping(r)
           \/ MappingCommandUndelivered(r)
  BY <1>3 DEF Disconnect, SendFails, Revoke, ReportReadiness, AcknowledgeReset,
              StartMapping, FinishMapping, ReportMapping, MappingCommandUndelivered,
              taskVars
<1> QED
  BY <1>1, <1>2, <1>3 DEF RobotStep

(* Whatever requests, messages and failures the control plane handles, a   *)
(* delivery stays with its robot, follows the edges of its life cycle one  *)
(* at a time, and is handed only to a robot that has none.                 *)
THEOREM LifecycleImplemented == Spec => ImplementsLifecycle
<1>1. Init => Lifecycle!Init
  BY DEF Init, Lifecycle!Init
<1>2. IInv /\ [Next]_vars => [Lifecycle!Next]_(Lifecycle!vars)
  <2> SUFFICES ASSUME IInv, [Next]_vars
               PROVE  Lifecycle!Next \/ UNCHANGED <<status, assigned>>
    BY DEF Lifecycle!vars
  <2>1. CASE Restart
    BY <2>1 DEF Restart, taskVars
  <2>2. CASE \E r \in Robots : RobotStep(r)
    BY <2>2, RobotStepRefines
  <2>3. CASE \E t \in Tasks : TaskStep(t)
    BY <2>3, TaskStepRefines
  <2>4. CASE UNCHANGED vars
    BY <2>4 DEF vars, taskVars
  <2> QED
    BY <2>1, <2>2, <2>3, <2>4 DEF Next
<1> QED
  BY <1>1, <1>2, Invariance, PTL DEF Spec, ImplementsLifecycle, Lifecycle!Spec

(* What is delivered or cancelled stays so, and with its robot: no late      *)
(* result, retry, recovery or stop brings it back (state_machine.py 19-68).  *)
Finished(t) == status[t] \in {"COMPLETED", "CANCELLED"}

FinishedStays ==
  [][\A t \in Tasks : Finished(t) =>
       status'[t] = status[t] /\ assigned'[t] = assigned[t]]_(Lifecycle!vars)

THEOREM FinishedStaysHolds == Spec => FinishedStays
<1>1. IInv /\ [Lifecycle!Next]_(Lifecycle!vars) =>
        [\A t \in Tasks : Finished(t) =>
           status'[t] = status[t] /\ assigned'[t] = assigned[t]]_(Lifecycle!vars)
  <2> SUFFICES ASSUME IInv, Lifecycle!Next, NEW t \in Tasks, Finished(t)
               PROVE  status'[t] = status[t] /\ assigned'[t] = assigned[t]
    OBVIOUS
  <2>1. DOMAIN status = Tasks /\ DOMAIN assigned = Tasks
    BY DEF IInv, Good, Rows
  <2>2. ASSUME NEW st, DOMAIN st = Tasks, st[t] = status[t],
               NEW r, Lifecycle!MayDispatch(st, r)
        PROVE  status'[t] = status[t]
    BY <2>2 DEF Lifecycle!MayDispatch, Finished
  <2>3. ASSUME NEW r \in Robots, Lifecycle!Dispatch(r)
        PROVE  status'[t] = status[t] /\ assigned'[t] = assigned[t]
    BY <2>1, <2>2, <2>3 DEF Lifecycle!Dispatch
  <2>4. ASSUME NEW u \in Tasks, NEW r \in Robots, Lifecycle!Create(u, r)
        PROVE  status'[t] = status[t] /\ assigned'[t] = assigned[t]
    BY <2>1, <2>2, <2>4 DEF Lifecycle!Create, Finished
  <2>5. ASSUME NEW u \in Tasks, NEW s \in Lifecycle!Reached, Lifecycle!Move(u, s)
        PROVE  status'[t] = status[t] /\ assigned'[t] = assigned[t]
    <3>1. t # u
      BY <2>5 DEF Lifecycle!Move, Lifecycle!Edge, Lifecycle!UnderWay, Finished
    <3> QED BY <2>1, <2>2, <2>5, <3>1 DEF Lifecycle!Move
  <2> QED BY <2>3, <2>4, <2>5 DEF Lifecycle!Next
<1> QED
  BY <1>1, LifecycleImplemented, Invariance, PTL
     DEF Spec, ImplementsLifecycle, Lifecycle!Spec, FinishedStays

-----------------------------------------------------------------------------
(* What a step may never do.  Of a robot that is not dispatched to, neither *)
(* the current task nor the queue moves; of the one that is, the first only *)
(* when it had no task, and nothing waits for it afterwards.               *)

LEMMA DispatchKeepsCurrent ==
  ASSUME NEW st, NEW asg, NEW pr, NEW ord, NEW onl, NEW rs,
         NEW cur, DOMAIN cur = Robots, NEW s \in Robots,
         DispatchNext(st, asg, pr, ord, onl, rs, cur, s), NEW r \in Robots
  PROVE  current'[r] = cur[r] \/ (r = s /\ cur[s] = NoTask)
  BY DEF DispatchNext, AssignTask, RobotAvailable

(* A robot in the error state has no task: a failure releases it unless the *)
(* stop is latched, and a latched stop has failed the mission before.      *)
ErrorHasNoTask == \A r \in Robots : state[r] = "ERROR" => current[r] = NoTask

LEMMA DispatchKeepsError ==
  ASSUME NEW st, NEW asg, NEW pr, NEW ord, NEW onl,
         NEW rs, DOMAIN rs = Robots, NEW cur, DOMAIN cur = Robots, NEW s \in Robots,
         DispatchNext(st, asg, pr, ord, onl, rs, cur, s),
         \A r \in Robots : rs[r] = "ERROR" => cur[r] = NoTask
  PROVE  ErrorHasNoTask'
<1>1. CASE state' = rs /\ current' = cur
  BY <1>1 DEF ErrorHasNoTask
<1>2. CASE \E t : AssignTask(st, rs, cur, t, s)
  BY <1>2 DEF AssignTask, ErrorHasNoTask
<1> QED
  BY <1>1, <1>2 DEF DispatchNext

LEMMA TaskStepKeepsError ==
  ASSUME IInv, ErrorHasNoTask, NEW t \in Tasks, TaskStep(t)
  PROVE  ErrorHasNoTask'
<1>1. DOMAIN state = Robots /\ DOMAIN current = Robots
  BY DEF IInv, Good, Rows
<1>2. ASSUME NEW r \in Robots, NEW p \in Priorities, CreateTask(t, r, p)
      PROVE  ErrorHasNoTask'
  <2>1. PICK pr, ord : DispatchNext([status EXCEPT ![t] = "QUEUED"], [assigned EXCEPT ![t] = r],
                                    pr, ord, online, state, current, r)
    BY <1>2 DEF CreateTask
  <2>2. \A q \in Robots : state[q] = "ERROR" => current[q] = NoTask
    BY DEF ErrorHasNoTask
  <2> QED
    BY <1>1, <2>1, <2>2, DispatchKeepsError
<1>3. CASE CancelTask(t) \/ \E p \in Priorities \cup {"KEEP"}, d \in {"UP", "DOWN", "NONE"} :
                              UpdateQueuedTask(t, p, d)
  BY <1>3 DEF CancelTask, UpdateQueuedTask, robotVars, ErrorHasNoTask
<1>4. CASE RetryTask(t)
  <2> DEFINE r     == assigned[t]
             freed == current[r] = t \/ state[r] = "ERROR"
             rs    == IF freed /\ online[r] THEN [state EXCEPT ![r] = "IDLE"] ELSE state
             cur   == IF freed THEN [current EXCEPT ![r] = NoTask] ELSE current
  <2>1. r \in Robots
    BY <1>4 DEF RetryTask, IInv, Good, HasRobot
  <2>2. DispatchNext([status EXCEPT ![t] = "QUEUED"], assigned, priority, queueOrder,
                     online, rs, cur, r)
    BY <1>4 DEF RetryTask
  <2>3. /\ DOMAIN rs = Robots /\ DOMAIN cur = Robots
        /\ \A q \in Robots : rs[q] = "ERROR" => cur[q] = NoTask
    BY <1>1 DEF ErrorHasNoTask
  <2> HIDE DEF r, rs, cur
  <2> QED
    BY <2>1, <2>2, <2>3, DispatchKeepsError
<1>5. ASSUME NEW r \in Robots, FinalizeNavigationCancel(t, r)
      PROVE  ErrorHasNoTask'
  <2> DEFINE rs  == [state EXCEPT ![r] = IF online[r] THEN "IDLE" ELSE "OFFLINE"]
             cur == [current EXCEPT ![r] = NoTask]
  <2>1. DispatchNext(status, assigned, priority, queueOrder, online, rs, cur, r)
    BY <1>5 DEF FinalizeNavigationCancel
  <2>2. /\ DOMAIN rs = Robots /\ DOMAIN cur = Robots
        /\ \A q \in Robots : rs[q] = "ERROR" => cur[q] = NoTask
    BY <1>1 DEF ErrorHasNoTask
  <2> HIDE DEF rs, cur
  <2> QED
    BY <2>1, <2>2, DispatchKeepsError
<1>6. ASSUME NEW tr \in Transitions, ApplyTaskEvent(t, tr)
      PROVE  ErrorHasNoTask'
  <2> DEFINE r == assigned[t]
  <2>1. /\ r \in Robots /\ tr.from \in ActiveStatuses /\ status[t] = tr.from
        /\ online[r] /\ ~latched[r]
    BY <1>6 DEF ApplyTaskEvent, Transitions, Transition, ActiveStatuses, IInv, Good,
                HasRobot, Inhibits
  <2>2. CASE DispatchNext([status EXCEPT ![t] = tr.to], assigned, priority, queueOrder, online,
                          [state EXCEPT ![r] = "IDLE"], [current EXCEPT ![r] = NoTask], r)
    <3>1. \A q \in Robots : [state EXCEPT ![r] = "IDLE"][q] = "ERROR"
                              => [current EXCEPT ![r] = NoTask][q] = NoTask
      BY <1>1 DEF ErrorHasNoTask
    <3> QED
      BY <1>1, <2>1, <2>2, <3>1, DispatchKeepsError
  <2>3. CASE tr.to # "FAILED" /\ state' = [state EXCEPT ![r] = tr.robot] /\ current' = current
    <3>1. tr.robot # "ERROR"
      BY <2>3 DEF Transitions, Transition
    <3> QED
      BY <1>1, <2>3, <3>1 DEF ErrorHasNoTask
  <2> QED
    BY <1>6, <2>1, <2>2, <2>3 DEF ApplyTaskEvent, AutoRecovers
<1> QED
  BY <1>2, <1>3, <1>4, <1>5, <1>6 DEF TaskStep

LEMMA RobotStepKeepsError ==
  ASSUME IInv, ErrorHasNoTask, NEW r \in Robots, RobotStep(r)
  PROVE  ErrorHasNoTask'
<1>1. DOMAIN state = Robots /\ DOMAIN current = Robots
  BY DEF IInv, Good, Rows
<1> DEFINE idle == [state EXCEPT ![r] = "IDLE"]
           free == [current EXCEPT ![r] = NoTask]
<1>2. ASSUME NEW onl, DispatchNext(status, assigned, priority, queueOrder, onl, idle, free, r)
      PROVE  ErrorHasNoTask'
  <2>1. /\ DOMAIN idle = Robots /\ DOMAIN free = Robots
        /\ \A q \in Robots : idle[q] = "ERROR" => free[q] = NoTask
    BY <1>1 DEF ErrorHasNoTask
  <2> HIDE DEF idle, free
  <2> QED
    BY <1>2, <2>1, DispatchKeepsError
<1>3. CASE SetRobotOffline(r) \/ ActivateEmergencyStop(r)
  BY <1>1, <1>3 DEF SetRobotOffline, ActivateEmergencyStop, ErrorHasNoTask
<1>4. CASE SetRobotOnline(r) \/ RecoverRobot(r)
  BY <1>2, <1>4 DEF SetRobotOnline, RecoverRobot
<1>5. CASE Connect(r)
  <2>1. CASE UNCHANGED current /\ ~ToResume(current[r])
             /\ ~(current[r] # NoTask /\ status[current[r]] = "FAILED" /\ latched[r])
             /\ state' = idle
    BY <1>1, <2>1 DEF ErrorHasNoTask
  <2>2. CASE UNCHANGED current /\ ToResume(current[r])
             /\ state' = [state EXCEPT ![r] = status[current[r]]]
    <3>1. status[current[r]] # "ERROR"
      BY <2>2 DEF ToResume, ActiveStatuses
    <3> QED
      BY <1>1, <2>2, <3>1 DEF ErrorHasNoTask
  <2>3. ~(current[r] # NoTask /\ status[current[r]] = "FAILED")
    BY DEF IInv, Good, Own, ActiveStatuses
  <2>4. \/ \E onl : DispatchNext(status, assigned, priority, queueOrder, onl, idle, free, r)
        \/ UNCHANGED current /\ ToResume(current[r])
           /\ state' = [state EXCEPT ![r] = status[current[r]]]
        \/ UNCHANGED current /\ ~ToResume(current[r]) /\ state' = idle
    BY <1>5, <2>3 DEF Connect
  <2> QED
    BY <1>2, <2>1, <2>2, <2>3, <2>4
<1>6. CASE Disconnect(r) \/ Revoke(r)
  BY <1>1, <1>6 DEF Disconnect, Revoke, ErrorHasNoTask
<1>7. CASE \/ SendFails(r) \/ (\E s \in {"NOT_READY", "READY"} : ReportReadiness(r, s))
           \/ AcknowledgeReset(r) \/ StartMapping(r) \/ FinishMapping(r)
           \/ ReportMapping(r) \/ MappingCommandUndelivered(r)
  BY <1>7 DEF SendFails, ReportReadiness, AcknowledgeReset, StartMapping, FinishMapping,
              ReportMapping, MappingCommandUndelivered, robotVars, ErrorHasNoTask
<1> QED
  BY <1>3, <1>4, <1>5, <1>6, <1>7 DEF RobotStep

LEMMA ErrorInvariance == Spec => []ErrorHasNoTask
<1>1. Init => ErrorHasNoTask
  BY DEF Init, ErrorHasNoTask
<1>2. IInv /\ ErrorHasNoTask /\ [Next]_vars => ErrorHasNoTask'
  <2> SUFFICES ASSUME IInv, ErrorHasNoTask, [Next]_vars
               PROVE  ErrorHasNoTask'
    OBVIOUS
  <2>1. CASE Restart
    BY <2>1 DEF Restart, ErrorHasNoTask
  <2>2. CASE UNCHANGED vars
    BY <2>2 DEF vars, robotVars, ErrorHasNoTask
  <2> QED
    BY <2>1, <2>2, TaskStepKeepsError, RobotStepKeepsError DEF Next
<1> QED
  BY <1>1, <1>2, Invariance, PTL DEF Spec

-----------------------------------------------------------------------------
(* Whose current task is a cancelled one.                                  *)
Awaits(r) == current[r] # NoTask /\ status[current[r]] = "CANCELLED"

Overridden(r) ==
  \/ FinalizeNavigationCancel(current[r], r)
  \/ latched'[r] /\ ~latched[r]
  \/ ~online'[r]
  \/ state[r] = "OFFLINE" /\ online'[r] /\ connected' = connected

LEMMA TaskStepHolds ==
  ASSUME IInv, ErrorHasNoTask, NEW t \in Tasks, TaskStep(t),
         NEW r \in Robots, Awaits(r), current'[r] # current[r]
  PROVE  Overridden(r)
<1>1. DOMAIN state = Robots /\ DOMAIN current = Robots
  BY DEF IInv, Good, Rows
<1>2. state[r] # "ERROR"
  BY DEF ErrorHasNoTask, Awaits
<1>3. ASSUME NEW q \in Robots, NEW p \in Priorities, CreateTask(t, q, p)
      PROVE  FALSE
  <2>1. PICK st, asg, pr, ord : DispatchNext(st, asg, pr, ord, online, state, current, q)
    BY <1>3 DEF CreateTask
  <2> QED
    BY <1>1, <2>1, DispatchKeepsCurrent DEF Awaits
<1>4. CASE CancelTask(t) \/ \E p \in Priorities \cup {"KEEP"}, d \in {"UP", "DOWN", "NONE"} :
                              UpdateQueuedTask(t, p, d)
  BY <1>4 DEF CancelTask, UpdateQueuedTask, robotVars
<1>5. ~RetryTask(t)
  <2> SUFFICES ASSUME RetryTask(t) PROVE FALSE
    OBVIOUS
  <2> DEFINE s     == assigned[t]
             freed == current[s] = t \/ state[s] = "ERROR"
             cur   == IF freed THEN [current EXCEPT ![s] = NoTask] ELSE current
  <2>1. s \in Robots /\ status[t] = "FAILED"
    BY DEF RetryTask, IInv, Good, HasRobot
  <2>2. PICK st, rs : DispatchNext(st, assigned, priority, queueOrder, online, rs, cur, s)
    BY DEF RetryTask
  <2>3. DOMAIN cur = Robots /\ cur[r] = current[r]
    BY <1>1, <1>2, <2>1 DEF Awaits
  <2> HIDE DEF s, cur
  <2> QED
    BY <2>1, <2>2, <2>3, DispatchKeepsCurrent DEF Awaits
<1>6. ASSUME NEW q \in Robots, FinalizeNavigationCancel(t, q)
      PROVE  Overridden(r)
  <2> DEFINE cur == [current EXCEPT ![q] = NoTask]
  <2>1. PICK rs : DispatchNext(status, assigned, priority, queueOrder, online, rs, cur, q)
    BY <1>6 DEF FinalizeNavigationCancel
  <2>2. DOMAIN cur = Robots /\ (r # q => cur[r] = current[r])
    BY <1>1
  <2> HIDE DEF cur
  <2>3. r = q
    BY <2>1, <2>2, DispatchKeepsCurrent
  <2> QED
    BY <1>6, <2>3 DEF FinalizeNavigationCancel, Overridden
<1>7. ASSUME NEW tr \in Transitions, ApplyTaskEvent(t, tr)
      PROVE  FALSE
  <2> DEFINE s   == assigned[t]
             cur == [current EXCEPT ![s] = NoTask]
  <2>1. /\ s \in Robots /\ current[s] = t /\ status[t] # "CANCELLED"
        /\ \/ current' = current
           \/ \E st, rs : DispatchNext(st, assigned, priority, queueOrder, online, rs, cur, s)
    BY <1>7 DEF ApplyTaskEvent, Transitions, Transition, IInv, Good, HasRobot
  <2>2. r # s /\ DOMAIN cur = Robots /\ (r # s => cur[r] = current[r])
    BY <1>1, <2>1 DEF Awaits
  <2> HIDE DEF s, cur
  <2> QED
    BY <2>1, <2>2, DispatchKeepsCurrent
<1> QED
  BY <1>3, <1>4, <1>5, <1>6, <1>7 DEF TaskStep

LEMMA RobotStepHolds ==
  ASSUME IInv, ErrorHasNoTask, NEW s \in Robots, RobotStep(s),
         NEW r \in Robots, Awaits(r), current'[r] # current[r]
  PROVE  Overridden(r)
<1>1. DOMAIN current = Robots /\ DOMAIN online = Robots /\ DOMAIN latched = Robots
  BY DEF IInv, Good, Rows
<1> DEFINE free == [current EXCEPT ![s] = NoTask]
<1>2. ASSUME NEW onl, NEW rs,
             DispatchNext(status, assigned, priority, queueOrder, onl, rs, free, s)
      PROVE  r = s
  <2>1. DOMAIN free = Robots /\ (r # s => free[r] = current[r])
    BY <1>1
  <2> HIDE DEF free
  <2> QED
    BY <1>2, <2>1, DispatchKeepsCurrent
<1>3. CASE SetRobotOffline(s) \/ ActivateEmergencyStop(s)
  BY <1>1, <1>3 DEF SetRobotOffline, ActivateEmergencyStop, Overridden
<1>4. CASE SetRobotOnline(s)
  <2>1. r = s
    BY <1>2, <1>4 DEF SetRobotOnline
  <2>2. state[s] = "OFFLINE"
    BY <1>4 DEF SetRobotOnline, IInv, Good, Mirrors
  <2> QED
    BY <1>1, <1>4, <2>1, <2>2 DEF SetRobotOnline, linkVars, Overridden
<1>5. ~RecoverRobot(s)
  <2>1. RecoverRobot(s) => r = s /\ state[s] = "ERROR"
    BY <1>2 DEF RecoverRobot
  <2> QED
    BY <2>1 DEF ErrorHasNoTask, Awaits
<1>6. ~Connect(s)
  <2>1. Connect(s) => r = s /\ ~ToConfirm(current[s])
    BY <1>2 DEF Connect
  <2> QED
    BY <2>1 DEF ToConfirm, Awaits
<1>7. CASE \/ Disconnect(s) \/ Revoke(s) \/ SendFails(s)
           \/ (\E readyNow \in {"NOT_READY", "READY"} : ReportReadiness(s, readyNow))
           \/ AcknowledgeReset(s) \/ StartMapping(s) \/ FinishMapping(s)
           \/ ReportMapping(s) \/ MappingCommandUndelivered(s)
  BY <1>7 DEF Disconnect, Revoke, SendFails, ReportReadiness, AcknowledgeReset, StartMapping,
              FinishMapping, ReportMapping, MappingCommandUndelivered, robotVars
<1> QED
  BY <1>3, <1>4, <1>5, <1>6, <1>7 DEF RobotStep

(* A cancelled delivery stays the robot's current one until the Agent      *)
(* confirms or an operator overrides (service.py, robot_ws.py).            *)
THEOREM CancelHeldHolds == Spec => CancelHeldUntilConfirmed
<1>1. IInv /\ ErrorHasNoTask /\ [Next]_vars =>
        \A r \in Robots :
          LET t == current[r]
          IN  t # NoTask /\ status[t] = "CANCELLED" /\ current'[r] # t =>
                \/ FinalizeNavigationCancel(t, r)
                \/ latched'[r] /\ ~latched[r]
                \/ ~online'[r]
                \/ state[r] = "OFFLINE" /\ online'[r] /\ connected' = connected
  <2> SUFFICES ASSUME IInv, ErrorHasNoTask, [Next]_vars, NEW r \in Robots,
                      Awaits(r), current'[r] # current[r]
               PROVE  Overridden(r)
    BY DEF Awaits, Overridden
  <2>1. CASE Restart \/ UNCHANGED vars
    BY <2>1 DEF Restart, vars, robotVars
  <2> QED
    BY <2>1, TaskStepHolds, RobotStepHolds DEF Next
<1> QED
  BY <1>1, Invariance, ErrorInvariance, PTL DEF Spec, CancelHeldUntilConfirmed

-----------------------------------------------------------------------------
(* Who may be left available in front of a delivery.                       *)
Excused(r) ==
  \/ latched[r] /\ ~latched'[r]
  \/ mapping[r] /\ ~mapping'[r]
  \/ \E t \in ActiveOn(status, assigned, r) : current[r] = NoTask /\ status'[t] = "CANCELLED"

(* The missions and the queue of r are what they were; and its row is.     *)
SameTasks(st, asg, r) ==
  /\ ActiveOn(st, asg, r) = ActiveOn(status, assigned, r)
  /\ QueueOf(st, asg, r) = QueueOf(status, assigned, r)

SameRows(r) ==
  /\ SameTasks(status', assigned', r)
  /\ online'[r] = online[r] /\ state'[r] = state[r] /\ current'[r] = current[r]

LEMMA SameStays ==
  ASSUME NEW r \in Robots, SameRows(r),
         latched'[r] = latched[r] \/ latched'[r], mapping'[r] = mapping[r] \/ mapping'[r]
  PROVE  IdleBacklog(r)' => IdleBacklog(r)
<1> QED
  BY DEF IdleBacklog, RobotAvailable, SameRows, SameTasks

(* After a dispatch the robot has a delivery, or could take none.          *)
LEMMA DispatchLeavesNone ==
  ASSUME NEW st, NEW pr, NEW ord, NEW rs, NEW cur, DOMAIN cur = Robots, NEW s \in Robots,
         DispatchNext(st, assigned', pr, ord, online', rs, cur, s), UNCHANGED <<latched, mapping>>
  PROVE  ~IdleBacklog(s)'
<1>1. CASE ~RobotAvailable(st, assigned', online', rs, cur, s) /\ status' = st /\ state' = rs
           /\ current' = cur
  BY <1>1 DEF IdleBacklog, RobotAvailable, ActiveOn
<1>2. CASE QueueOf(st, assigned', s) = {} /\ status' = st
  BY <1>2 DEF IdleBacklog, QueueOf
<1>3. CASE \E t \in QueueOf(st, assigned', s) : AssignTask(st, rs, cur, t, s)
  <2>1. PICK t \in Tasks : current' = [cur EXCEPT ![s] = t]
    BY <1>3 DEF AssignTask, QueueOf
  <2>2. current'[s] # NoTask
    BY <2>1, NoTaskNotTask
  <2> QED
    BY <2>2 DEF IdleBacklog, RobotAvailable
<1> QED
  BY <1>1, <1>2, <1>3 DEF DispatchNext

(* A dispatch to s, after its handler changed rows of s only, moves nothing *)
(* of another robot.                                                       *)
LEMMA DispatchKeepsOthers ==
  ASSUME NEW st, DOMAIN st = Tasks, NEW asg, NEW pr, NEW ord, NEW onl,
         NEW rs, DOMAIN rs = Robots, NEW cur, DOMAIN cur = Robots, NEW s \in Robots,
         DispatchNext(st, asg, pr, ord, onl, rs, cur, s), NEW r \in Robots, r # s,
         assigned' = asg,
         SameTasks(st, asg, r),
         online'[r] = online[r], rs[r] = state[r], cur[r] = current[r]
  PROVE  SameRows(r)
<1>1. CASE status' = st /\ state' = rs /\ current' = cur
  BY <1>1 DEF SameRows
<1>2. CASE \E t \in Tasks : asg[t] = s /\ AssignTask(st, rs, cur, t, s)
  <2>1. PICK t \in Tasks : /\ asg[t] = s
                           /\ status' = [st EXCEPT ![t] = "GOING_TO_PICKUP"]
                           /\ state' = [rs EXCEPT ![s] = "GOING_TO_PICKUP"]
                           /\ current' = [cur EXCEPT ![s] = t]
    BY <1>2 DEF AssignTask
  <2>2. \A u \in Tasks : u # t => status'[u] = st[u]
    BY <2>1
  <2>3. SameTasks(status', assigned', r)
    BY <2>1, <2>2 DEF SameTasks, ActiveOn, QueueOf
  <2>4. state'[r] = rs[r] /\ current'[r] = cur[r]
    BY <2>1
  <2> QED
    BY <2>3, <2>4 DEF SameRows
<1> QED
  BY <1>1, <1>2 DEF DispatchNext, QueueOf

LEMMA FailKeepsOthers ==
  ASSUME IInv, NEW s \in Robots, FailMission(s), NEW r \in Robots, r # s, assigned' = assigned
  PROVE  SameTasks(status', assigned', r)
<1>1. \A t \in Tasks : assigned[t] = r => status'[t] = status[t]
  BY DEF FailMission, ActiveOn
<1> QED
  BY <1>1 DEF SameTasks, ActiveOn, QueueOf

LEMMA TaskStepHandsOver ==
  ASSUME IInv, NEW t \in Tasks, TaskStep(t), NEW r \in Robots, IdleBacklog(r)', ~IdleBacklog(r)
  PROVE  Excused(r)
<1>1. /\ DOMAIN status = Tasks /\ DOMAIN assigned = Tasks /\ DOMAIN state = Robots
      /\ DOMAIN current = Robots /\ DOMAIN online = Robots
  BY DEF IInv, Good, Rows
<1>2. UNCHANGED <<latched, mapping>>
  BY DEF TaskStep, CreateTask, UpdateQueuedTask, CancelTask, RetryTask,
         FinalizeNavigationCancel, ApplyTaskEvent, mapVars
<1>3. ~SameRows(r)
  BY <1>2, SameStays
(* A handler that changes rows of s and dispatches to it.                  *)
<1>4. ASSUME NEW s \in Robots, NEW st, DOMAIN st = Tasks, NEW asg, NEW pr, NEW ord,
             NEW rs, DOMAIN rs = Robots, NEW cur, DOMAIN cur = Robots,
             DispatchNext(st, asg, pr, ord, online, rs, cur, s),
             assigned' = asg, online' = online,
             r # s => rs[r] = state[r] /\ cur[r] = current[r] /\ SameTasks(st, asg, r)
      PROVE  FALSE
  <2>1. r # s
    BY <1>2, <1>4, DispatchLeavesNone
  <2> QED
    BY <1>3, <1>4, <2>1, DispatchKeepsOthers
<1>5. ASSUME NEW s \in Robots, NEW p \in Priorities, CreateTask(t, s, p)
      PROVE  SameRows(r)
  <2> DEFINE st == [status EXCEPT ![t] = "QUEUED"]
             asg == [assigned EXCEPT ![t] = s]
  <2>1. PICK pr, ord : DispatchNext(st, asg, pr, ord, online, state, current, s)
    BY <1>5 DEF CreateTask
  <2>2. assigned' = asg /\ online' = online /\ status[t] = "ABSENT"
    BY <1>5 DEF CreateTask
  <2>3. DOMAIN st = Tasks /\ (r # s => SameTasks(st, asg, r))
    BY <1>1, <2>2 DEF SameTasks, ActiveOn, QueueOf, ActiveStatuses
  <2> HIDE DEF st, asg
  <2> QED
    BY <1>1, <1>4, <2>1, <2>2, <2>3
<1>6. CASE CancelTask(t)
  <2>1. /\ status' = [status EXCEPT ![t] = "CANCELLED"] /\ assigned' = assigned
        /\ UNCHANGED robotVars /\ status[t] \in {"QUEUED"} \cup ActiveStatuses
    BY <1>6 DEF CancelTask
  <2>2. \A u \in Tasks : status'[u] = IF u = t THEN "CANCELLED" ELSE status[u]
    BY <1>1, <2>1
  <2>3. current[r] = NoTask /\ assigned[t] = r
    <3>1. current'[r] = NoTask
      BY DEF IdleBacklog, RobotAvailable
    <3>2. assigned[t] # r => SameRows(r)
      BY <2>1, <2>2 DEF SameRows, SameTasks, ActiveOn, QueueOf, robotVars
    <3> QED
      BY <1>3, <2>1, <3>1, <3>2 DEF robotVars
  <2>4. QueueOf(status, assigned, r)' \subseteq QueueOf(status, assigned, r)
    BY <2>1, <2>2 DEF QueueOf
  <2>5. status[t] \in ActiveStatuses
    <3>1. status[t] = "QUEUED" => ActiveOn(status, assigned, r)' = ActiveOn(status, assigned, r)
      BY <2>1, <2>2 DEF ActiveOn, ActiveStatuses
    <3> QED
      BY <1>2, <2>1, <2>4, <3>1 DEF IdleBacklog, RobotAvailable, robotVars
  <2> QED
    BY <2>2, <2>3, <2>5 DEF ActiveOn, Excused
<1>7. ~\E p \in Priorities \cup {"KEEP"}, d \in {"UP", "DOWN", "NONE"} : UpdateQueuedTask(t, p, d)
  BY <1>3 DEF UpdateQueuedTask, robotVars, SameRows, SameTasks
<1>8. ~RetryTask(t)
  <2> SUFFICES ASSUME RetryTask(t) PROVE FALSE
    OBVIOUS
  <2> DEFINE s     == assigned[t]
             freed == current[s] = t \/ state[s] = "ERROR"
             rs    == IF freed /\ online[s] THEN [state EXCEPT ![s] = "IDLE"] ELSE state
             cur   == IF freed THEN [current EXCEPT ![s] = NoTask] ELSE current
             st    == [status EXCEPT ![t] = "QUEUED"]
  <2>1. /\ s \in Robots /\ assigned' = assigned /\ online' = online
        /\ DispatchNext(st, assigned, priority, queueOrder, online, rs, cur, s)
    BY DEF RetryTask, IInv, Good, HasRobot
  <2>2. DOMAIN rs = Robots /\ (r # s => rs[r] = state[r])
    BY <1>1
  <2>3. DOMAIN cur = Robots /\ (r # s => cur[r] = current[r])
    BY <1>1
  <2>4. DOMAIN st = Tasks /\ (r # s => SameTasks(st, assigned, r))
    BY <1>1 DEF SameTasks, ActiveOn, QueueOf
  <2> HIDE DEF s, rs, cur, st
  <2> QED
    BY <1>4, <2>1, <2>2, <2>3, <2>4
<1>9. ASSUME NEW s \in Robots, FinalizeNavigationCancel(t, s)
      PROVE  FALSE
  <2> DEFINE rs  == [state EXCEPT ![s] = IF online[s] THEN "IDLE" ELSE "OFFLINE"]
             cur == [current EXCEPT ![s] = NoTask]
  <2>1. /\ assigned' = assigned /\ online' = online
        /\ DispatchNext(status, assigned, priority, queueOrder, online, rs, cur, s)
    BY <1>9 DEF FinalizeNavigationCancel
  <2>2. /\ DOMAIN rs = Robots /\ DOMAIN cur = Robots
        /\ r # s => rs[r] = state[r] /\ cur[r] = current[r]
        /\ SameTasks(status, assigned, r)
    BY <1>1 DEF SameTasks
  <2> HIDE DEF rs, cur
  <2> QED
    BY <1>1, <1>4, <2>1, <2>2
<1>10. ASSUME NEW tr \in Transitions, ApplyTaskEvent(t, tr)
       PROVE  FALSE
  <2> DEFINE s   == assigned[t]
             st  == [status EXCEPT ![t] = tr.to]
             rs  == [state EXCEPT ![s] = "IDLE"]
             cur == [current EXCEPT ![s] = NoTask]
  <2>1. /\ assigned' = assigned /\ online' = online /\ current[s] = t /\ status[t] = tr.from
        /\ \/ DispatchNext(st, assigned, priority, queueOrder, online, rs, cur, s)
           \/ status' = st /\ state' = [state EXCEPT ![s] = tr.robot] /\ current' = current
    BY <1>10 DEF ApplyTaskEvent
  <2>2. s \in Robots
    BY <2>1 DEF Transitions, Transition, IInv, Good, HasRobot
  <2>3. DOMAIN st = Tasks /\ (r # s => SameTasks(st, assigned, r))
    BY <1>1 DEF SameTasks, ActiveOn, QueueOf
  <2>4. CASE DispatchNext(st, assigned, priority, queueOrder, online, rs, cur, s)
    <3>1. /\ DOMAIN rs = Robots /\ DOMAIN cur = Robots
          /\ r # s => rs[r] = state[r] /\ cur[r] = current[r]
      BY <1>1
    <3> HIDE DEF s, st, rs, cur
    <3> QED
      BY <1>4, <2>1, <2>2, <2>3, <2>4, <3>1
  <2>5. CASE status' = st /\ state' = [state EXCEPT ![s] = tr.robot] /\ current' = current
    <3>1. r # s
      BY <2>1, <2>5, NoTaskNotTask DEF IdleBacklog, RobotAvailable
    <3>2. state'[r] = state[r]
      BY <1>1, <2>5, <3>1
    <3> QED
      BY <1>3, <2>1, <2>3, <2>5, <3>1, <3>2 DEF SameRows
  <2> QED
    BY <2>1, <2>4, <2>5
<1> QED
  BY <1>3, <1>5, <1>6, <1>7, <1>8, <1>9, <1>10 DEF TaskStep

LEMMA RobotStepHandsOver ==
  ASSUME IInv, NEW s \in Robots, RobotStep(s), NEW r \in Robots, IdleBacklog(r)', ~IdleBacklog(r)
  PROVE  Excused(r)
<1>1. /\ DOMAIN status = Tasks /\ DOMAIN state = Robots /\ DOMAIN current = Robots
      /\ DOMAIN online = Robots /\ DOMAIN latched = Robots /\ DOMAIN mapping = Robots
  BY DEF IInv, Good, Rows, Others
<1> DEFINE idle == [state EXCEPT ![s] = "IDLE"]
           free == [current EXCEPT ![s] = NoTask]
<1>2. ASSUME DispatchNext(status, assigned, priority, queueOrder, online', idle, free, s),
             UNCHANGED <<assigned, latched, mapping>>,
             \A q \in Robots : q # s => online'[q] = online[q]
      PROVE  FALSE
  <2>1. /\ DOMAIN idle = Robots /\ DOMAIN free = Robots
        /\ r # s => idle[r] = state[r] /\ free[r] = current[r]
        /\ SameTasks(status, assigned, r)
    BY <1>1 DEF SameTasks
  <2> HIDE DEF idle, free
  <2>2. r # s
    BY <1>2, <2>1, DispatchLeavesNone
  <2>3. SameRows(r)
    BY <1>1, <1>2, <2>1, <2>2, DispatchKeepsOthers
  <2> QED
    BY <1>2, <2>3, SameStays
<1>3. CASE SetRobotOffline(s) \/ ActivateEmergencyStop(s)
  <2>1. r # s
    BY <1>1, <1>3 DEF SetRobotOffline, ActivateEmergencyStop, IdleBacklog, RobotAvailable
  <2>2. /\ FailMission(s) /\ assigned' = assigned /\ mapping' = mapping /\ latched'[r] = latched[r]
        /\ online'[r] = online[r] /\ state'[r] = state[r] /\ current'[r] = current[r]
    BY <1>1, <1>3, <2>1 DEF SetRobotOffline, ActivateEmergencyStop, mapVars
  <2>3. SameRows(r)
    BY <2>1, <2>2, FailKeepsOthers DEF SameRows
  <2> QED
    BY <2>2, <2>3, SameStays
<1>4. CASE SetRobotOnline(s)
  <2>1. online' = [online EXCEPT ![s] = TRUE]
    BY <1>4 DEF SetRobotOnline
  <2> QED
    BY <1>1, <1>2, <1>4, <2>1 DEF SetRobotOnline, mapVars
<1>5. CASE RecoverRobot(s)
  BY <1>2, <1>5 DEF RecoverRobot, mapVars
<1>6. CASE Connect(s)
  <2>1. /\ online' = [online EXCEPT ![s] = TRUE] /\ UNCHANGED <<assigned, latched, mapping>>
        /\ \/ DispatchNext(status, assigned, priority, queueOrder, online', idle, free, s)
           \/ /\ current[s] # NoTask /\ UNCHANGED <<status, current>>
              /\ \E value : state' = [state EXCEPT ![s] = value]
    BY <1>6 DEF Connect, ToResume, ToConfirm, mapVars
  <2>2. CASE /\ current[s] # NoTask /\ UNCHANGED <<status, current>>
             /\ \E value : state' = [state EXCEPT ![s] = value]
    <3>1. r # s
      BY <2>2 DEF IdleBacklog, RobotAvailable
    <3>2. SameRows(r)
      BY <1>1, <2>1, <2>2, <3>1 DEF SameRows, SameTasks
    <3> QED
      BY <2>1, <3>2, SameStays
  <2> QED
    BY <1>1, <1>2, <2>1, <2>2
<1>7. CASE Disconnect(s) \/ Revoke(s)
  <2>1. UNCHANGED <<status, assigned, current, latched, mapping>>
    BY <1>7 DEF Disconnect, Revoke, taskVars, mapVars
  <2>2. \/ UNCHANGED <<online, state>>
        \/ /\ online' = [online EXCEPT ![s] = FALSE]
           /\ state' = [state EXCEPT ![s] = "OFFLINE"]
    BY <1>7 DEF Disconnect, Revoke
  <2>3. SameRows(r)
    <3>1. CASE r = s /\ online' = [online EXCEPT ![s] = FALSE]
      BY <1>1, <3>1 DEF IdleBacklog, RobotAvailable
    <3> QED
      BY <1>1, <2>1, <2>2, <3>1 DEF SameRows, SameTasks
  <2> QED
    BY <2>1, <2>3, SameStays
<1>8. CASE \/ SendFails(s) \/ (\E ready \in {"NOT_READY", "READY"} : ReportReadiness(s, ready))
           \/ AcknowledgeReset(s) \/ StartMapping(s) \/ FinishMapping(s)
           \/ ReportMapping(s) \/ MappingCommandUndelivered(s)
  <2>1. UNCHANGED <<status, assigned, online, state, current>>
    BY <1>8 DEF SendFails, ReportReadiness, AcknowledgeReset, StartMapping, FinishMapping,
                ReportMapping, MappingCommandUndelivered, taskVars, robotVars
  <2>2. SameRows(r)
    BY <2>1 DEF SameRows, SameTasks
  <2>3. IdleBacklog(r)' /\ ~IdleBacklog(r) =>
          \/ latched[r] /\ ~latched'[r]
          \/ mapping[r] /\ ~mapping'[r]
    BY <2>2 DEF IdleBacklog, RobotAvailable, SameRows, SameTasks
  <2> QED
    BY <2>3 DEF Excused
<1> QED
  BY <1>3, <1>4, <1>5, <1>6, <1>7, <1>8 DEF RobotStep

LEMMA RestartHandsOver ==
  ASSUME Restart, NEW r \in Robots, IdleBacklog(r)', ~IdleBacklog(r)
  PROVE  Excused(r)
<1>1. /\ UNCHANGED <<status, assigned, current, latched>> /\ ~mapping'[r]
      /\ online'[r] = (online[r] /\ r \in Legacy)
      /\ state'[r] = IF online[r] /\ r \notin Legacy THEN "OFFLINE" ELSE state[r]
  BY DEF Restart, taskVars
<1>2. online'[r] /\ current'[r] = NoTask /\ ~latched'[r]
  BY DEF IdleBacklog, RobotAvailable
<1>3. online[r] /\ state'[r] = state[r]
  BY <1>1, <1>2
<1> QED
  BY <1>1, <1>3 DEF Excused, IdleBacklog, RobotAvailable, ActiveOn, QueueOf

(* A robot that becomes available is given its next delivery in the same   *)
(* transaction (dispatch_next at the end of every handler that frees one), *)
(* except when the latch or the mapping flag falls, or a detached task is  *)
(* cancelled.                                                              *)
THEOREM NoLostHandoverHolds == Spec => NoLostHandover
<1>1. ASSUME IInv, [Next]_vars, NEW r \in Robots, IdleBacklog(r)', ~IdleBacklog(r)
      PROVE  Excused(r)
  <2>1. CASE UNCHANGED vars
    BY <1>1, <2>1 DEF vars, taskVars, queueVars, robotVars, mapVars, IdleBacklog,
                      RobotAvailable, ActiveOn, QueueOf
  <2>2. CASE Restart
    BY <1>1, <2>2, RestartHandsOver
  <2> QED
    BY <1>1, <2>1, <2>2, TaskStepHandsOver, RobotStepHandsOver DEF Next
<1>2. IInv /\ [Next]_vars =>
        [\A r \in Robots : IdleBacklog(r)' /\ ~IdleBacklog(r) =>
           \/ latched[r] /\ ~latched'[r]
           \/ mapping[r] /\ ~mapping'[r]
           \/ \E t \in ActiveOn(status, assigned, r) :
                current[r] = NoTask /\ status'[t] = "CANCELLED"]_vars
  BY <1>1 DEF Excused
<1> QED
  BY <1>2, Invariance, PTL DEF Spec, NoLostHandover

-----------------------------------------------------------------------------
(* The order of a queue.                                                   *)
LEMMA BeforeIsTotal ==
  ASSUME NEW pr \in [Tasks -> Priorities], NEW ord \in [Tasks -> Nat],
         NEW u \in Tasks, NEW v \in Tasks
  PROVE  /\ u # v => Before(pr, ord, u, v) \/ Before(pr, ord, v, u)
         /\ Before(pr, ord, u, v) => ~Before(pr, ord, v, u)
         /\ \A x \in Tasks : Before(pr, ord, x, u) /\ Before(pr, ord, u, v) => Before(pr, ord, x, v)
  BY DEF Before, Tasks, Priorities

(* Renumbering keeps the order, and gives no number twice.                 *)
LEMMA PositionsOrdered ==
  ASSUME NEW pr \in [Tasks -> Priorities], NEW ord \in [Tasks -> Nat],
         NEW q \in SUBSET Tasks, NEW u \in q, NEW v \in q
  PROVE  /\ Position(pr, ord, q, u) \in Nat
         /\ Before(pr, ord, u, v) <=> Position(pr, ord, q, u) < Position(pr, ord, q, v)
         /\ u # v => Position(pr, ord, q, u) # Position(pr, ord, q, v)
<1> DEFINE ahead(x) == {y \in q : Before(pr, ord, y, x)}
<1>1. IsFiniteSet(q)
  <2>1. IsFiniteSet(Tasks)
    BY FleetAssumption, FS_Interval DEF Tasks
  <2> QED
    BY <2>1, FS_Subset
<1>2. ASSUME NEW x \in q
      PROVE  IsFiniteSet(ahead(x)) /\ Cardinality(ahead(x)) \in Nat
  BY <1>1, FS_Subset, FS_CardinalityType
<1>3. ASSUME NEW x \in q, NEW y \in q, Before(pr, ord, x, y)
      PROVE  Cardinality(ahead(x)) < Cardinality(ahead(y))
  <2>1. ahead(x) \subseteq ahead(y) /\ x \in ahead(y) /\ x \notin ahead(x)
    BY <1>3, BeforeIsTotal
  <2>2. /\ Cardinality(ahead(x)) <= Cardinality(ahead(y))
        /\ Cardinality(ahead(x)) # Cardinality(ahead(y))
    BY <1>2, <2>1, FS_Subset
  <2> HIDE DEF ahead
  <2> QED
    BY <1>2, <2>2
<1>4. \A x \in q : Position(pr, ord, q, x) = 1 + Cardinality(ahead(x))
  BY DEF Position
<1>5. /\ u # v => Before(pr, ord, u, v) \/ Before(pr, ord, v, u)
      /\ Before(pr, ord, u, v) => ~Before(pr, ord, v, u)
  BY BeforeIsTotal
<1> HIDE DEF ahead
<1> QED
  BY <1>2, <1>3, <1>4, <1>5

LEMMA UpdateIsLocal ==
  ASSUME IInv, NEW t \in Tasks, NEW p \in Priorities \cup {"KEEP"},
         NEW d \in {"UP", "DOWN", "NONE"}, UpdateQueuedTask(t, p, d),
         NEW u \in Tasks \ {t}, NEW v \in Tasks \ {t},
         status[u] = "QUEUED", status[v] = "QUEUED", assigned[u] = assigned[v]
  PROVE  Before(priority, queueOrder, u, v) <=> Before(priority', queueOrder', u, v)
<1> DEFINE pr    == IF p = "KEEP" THEN priority ELSE [priority EXCEPT ![t] = p]
           q     == QueueOf(status, assigned, assigned[t])
           pos   == [x \in q |-> Position(pr, queueOrder, q, x)]
           other == {x \in q : /\ d # "NONE" /\ pr[x] = pr[t]
                               /\ pos[x] = pos[t] + (IF d = "UP" THEN -1 ELSE 1)}
<1>1. /\ priority' = pr /\ t \in q
      /\ queueOrder' = [x \in Tasks |->
           IF x \notin q THEN queueOrder[x]
           ELSE IF x \in other THEN pos[t]
           ELSE IF x = t /\ other # {} THEN pos[t] + (IF d = "UP" THEN -1 ELSE 1)
           ELSE pos[x]]
  BY DEF UpdateQueuedTask, QueueOf
<1>2. /\ pr \in [Tasks -> Priorities] /\ queueOrder \in [Tasks -> Nat] /\ q \in SUBSET Tasks
      /\ pr[u] = priority[u] /\ pr[v] = priority[v]
  BY DEF IInv, Others, QueueOf
<1>3. (u \in q) <=> (v \in q)
  BY DEF QueueOf
<1>4. ASSUME NEW x \in q, NEW y \in q
      PROVE  /\ pos[x] \in Nat
             /\ Before(pr, queueOrder, x, y) <=> pos[x] < pos[y]
             /\ x # y => pos[x] # pos[y]
  <2> HIDE DEF pr, q
  <2> QED
    BY <1>2, PositionsOrdered
<1>5. ASSUME NEW x \in q, x \in other
      PROVE  pos[x] = pos[t] - 1 \/ pos[x] = pos[t] + 1
  BY <1>1, <1>4, <1>5
<1>6. CASE u \notin q
  <2>1. queueOrder'[u] = queueOrder[u] /\ queueOrder'[v] = queueOrder[v]
    BY <1>1, <1>3, <1>6
  <2> HIDE DEF pr
  <2> QED
    BY <1>1, <1>2, <2>1 DEF Before
<1>7. CASE u \in q
  <2>1. /\ queueOrder'[u] = IF u \in other THEN pos[t] ELSE pos[u]
        /\ queueOrder'[v] = IF v \in other THEN pos[t] ELSE pos[v]
    <3> HIDE DEF pr, q, pos, other
    <3> QED
      BY <1>1, <1>3, <1>7
  <2>2. /\ pos[u] \in Nat /\ pos[v] \in Nat /\ pos[t] \in Nat
        /\ pos[u] # pos[t] /\ pos[v] # pos[t] /\ (u # v => pos[u] # pos[v])
        /\ Before(pr, queueOrder, u, v) <=> pos[u] < pos[v]
    BY <1>1, <1>3, <1>4, <1>7
  <2>3. /\ u \in other => pos[u] = pos[t] - 1 \/ pos[u] = pos[t] + 1
        /\ v \in other => pos[v] = pos[t] - 1 \/ pos[v] = pos[t] + 1
    BY <1>3, <1>5, <1>7
  <2>4. u \in other /\ v \in other => u = v
    BY <1>3, <1>4, <1>7
  <2> HIDE DEF pr, q, pos, other
  <2>5. queueOrder'[u] < queueOrder'[v] <=> pos[u] < pos[v]
    BY <2>1, <2>2, <2>3, <2>4
  <2>6. u # v => queueOrder'[u] # queueOrder'[v]
    BY <2>1, <2>2, <2>3, <2>4
  <2>7. Before(pr, queueOrder, u, v) /\ pr[u] # "HIGH" => pr[v] # "HIGH"
    BY DEF Before
  <2>8. Before(pr, queueOrder', u, v) <=> Before(pr, queueOrder, u, v)
    <3>1. CASE (pr[u] = "HIGH") <=> (pr[v] = "HIGH")
      BY <2>2, <2>5, <2>6, <3>1 DEF Before
    <3>2. CASE ~((pr[u] = "HIGH") <=> (pr[v] = "HIGH"))
      BY <3>2 DEF Before
    <3> QED
      BY <3>1, <3>2
  <2>9. Before(pr, queueOrder, u, v) <=> Before(priority, queueOrder, u, v)
    BY <1>2 DEF Before
  <2> QED
    BY <1>1, <2>8, <2>9
<1> QED
  BY <1>6, <1>7

(* Changing the place or the priority of a queued delivery (PATCH of       *)
(* update_queued_task, which renumbers the whole queue) moves that one     *)
(* only, and a new delivery moves none.                                    *)
THEOREM QueueReorderIsLocalHolds == Spec => QueueReorderIsLocal
<1> DEFINE Kept(m) == \A u, v \in Tasks \ {m} :
             status[u] = "QUEUED" /\ status[v] = "QUEUED" /\ assigned[u] = assigned[v] =>
               (Before(priority, queueOrder, u, v) <=> Before(priority', queueOrder', u, v))
<1>1. ASSUME IInv, [Next]_vars, priority' # priority \/ queueOrder' # queueOrder
      PROVE  \E m \in Tasks : Kept(m)
  <2>1. ASSUME NEW t \in Tasks, TaskStep(t)
        PROVE  Kept(t)
    <3>1. ASSUME NEW r \in Robots, NEW p \in Priorities, CreateTask(t, r, p)
          PROVE  Kept(t)
      <4>1. \A u \in Tasks \ {t} : priority'[u] = priority[u] /\ queueOrder'[u] = queueOrder[u]
        BY <3>1 DEF CreateTask
      <4> QED
        BY <4>1 DEF Before
    <3>2. ASSUME NEW p \in Priorities \cup {"KEEP"}, NEW d \in {"UP", "DOWN", "NONE"},
                 UpdateQueuedTask(t, p, d)
          PROVE  Kept(t)
      BY <1>1, <3>2, UpdateIsLocal
    <3>3. CASE \/ CancelTask(t) \/ RetryTask(t)
               \/ \E r \in Robots : FinalizeNavigationCancel(t, r)
               \/ \E tr \in Transitions : ApplyTaskEvent(t, tr)
      BY <1>1, <3>3 DEF CancelTask, RetryTask, FinalizeNavigationCancel, ApplyTaskEvent, queueVars
    <3> QED
      BY <2>1, <3>1, <3>2, <3>3 DEF TaskStep
  <2>2. ASSUME NEW r \in Robots, RobotStep(r)
        PROVE  UNCHANGED queueVars
    BY <2>2 DEF RobotStep, SetRobotOffline, SetRobotOnline, RecoverRobot, Connect, Disconnect,
                SendFails, ReportReadiness, Revoke, ActivateEmergencyStop, AcknowledgeReset,
                StartMapping, FinishMapping, ReportMapping, MappingCommandUndelivered, taskVars
  <2>3. Restart \/ UNCHANGED vars => UNCHANGED queueVars
    BY DEF Restart, vars, taskVars
  <2> QED
    BY <1>1, <2>1, <2>2, <2>3 DEF Next, queueVars
<1>2. IInv /\ [Next]_vars =>
        [(priority' # priority \/ queueOrder' # queueOrder) =>
           \E m \in Tasks : \A u, v \in Tasks \ {m} :
             status[u] = "QUEUED" /\ status[v] = "QUEUED" /\ assigned[u] = assigned[v] =>
               (Before(priority, queueOrder, u, v) <=> Before(priority', queueOrder', u, v))]_vars
  BY <1>1
<1> QED
  BY <1>2, Invariance, PTL DEF Spec, QueueReorderIsLocal

=============================================================================
