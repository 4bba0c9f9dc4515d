---------------------------- MODULE Console_proofs ----------------------------
(***************************************************************************)
(* What a tab shows, for every fleet, every course of its deliveries and    *)
(* any number of refreshes, map reads and messages under way.              *)
(*                                                                         *)
(* That the drawn path is the shown leg's is inductive once messages are   *)
(* known to be messages.  That one robot is on the screen is not: a        *)
(* refresh may be applied long after it was started and read, so the       *)
(* invariant says what a refresh under way knows (IsRefresh: the fleet it   *)
(* read has every robot that is still there) and what can have happened     *)
(* before a robot was selected at all (NothingBefore).                      *)
(***************************************************************************)
EXTENDS Console, FiniteSetTheorems, SequenceTheorems, TLAPS

Messages == [type: {"navigation_path", "navigation_path_clear", "workflow_updated"},
             robot: Robots, phase: Nat]

IsRefresh(q) ==
    /\ q \in [sel: Robots \cup {None}, answered: BOOLEAN, fleet: SUBSET Robots,
              robot: Robots \cup {None}, tasks: {None} \cup [Robots -> Nat]]
    /\ q.answered =>
         /\ q.robot \in Robots /\ (q.sel = None => q.robot = DefaultRobot)
         /\ role = "ADMIN" => fleet \subseteq q.fleet

ConsoleTyped ==
    /\ role \in {"ADMIN", "USER"} /\ fleet \subseteq Robots /\ phase \in [Robots -> Nat]
    /\ selected \in Robots \cup {None} /\ closure \in Robots \cup {None}
    /\ \A q \in refreshes : IsRefresh(q)
    /\ inbox \in Seq(Messages)

\* Until a robot is selected nothing was asked for one, and an administrator
\* is shown none; a map, if any, is the default robot's.
NothingBefore ==
    /\ role = "USER" => selected = None
    /\ selected = None =>
         /\ closure = None /\ (\A q \in refreshes : q.sel = None)
         /\ \A s \in fetches : s = None
         /\ role = "ADMIN" =>
              /\ robot = None /\ robotRef = None
              /\ tracked \in {"map", "navigation_feedback"} => feed \in {None, DefaultRobot}
    /\ tracked # "map" => fetches = {}

ConsoleInv == ConsoleTyped /\ NothingBefore

-----------------------------------------------------------------------------
(* Messages and requests are what their readers take them for              *)

LEMMA SayIsMessage ==
    ASSUME ConsoleTyped, NEW r \in Robots,
           NEW type \in {"navigation_path", "navigation_path_clear", "workflow_updated"}
    PROVE  Say(type, r) \in Messages
  BY DEF ConsoleTyped, Messages, Say

\* The elements of a finite set, in some order, are a sequence of them.
LEMMA SetToSeqIsSeq ==
    ASSUME NEW T, NEW S \in SUBSET T, IsFiniteSet(S)
    PROVE  SetToSeq(S) \in Seq(T)
  <1>1. Cardinality(S) \in Nat /\ ExistsBijection(1..Cardinality(S), S)
    BY FS_CardinalityType
  <1>2. \E f \in [1..Cardinality(S) -> S] : IsInjective(f)
    BY <1>1 DEF ExistsBijection, Bijection, Injection, IsInjective
  <1>3. SetToSeq(S) \in [1..Cardinality(S) -> S]
    BY <1>2, Zenon DEF SetToSeq
  <1>4. SetToSeq(S) \in [1..Cardinality(S) -> T]
    BY <1>3
  <1> QED BY <1>1, <1>4, SeqDef

LEMMA HeldPathsAreMessages ==
    ASSUME ConsoleTyped, NEW held \in SUBSET Robots
    PROVE  SetToSeq({Say("navigation_path", r) : r \in held}) \in Seq(Messages)
  <1> DEFINE S == {Say("navigation_path", r) : r \in held}
             f == [r \in held |-> Say("navigation_path", r)]
  <1>1. IsFiniteSet(held)
    BY FS_Subset, DashboardAssumption
  <1>2. f \in Surjection(held, S)
    BY DEF Surjection
  <1>3. IsFiniteSet(S)
    BY <1>1, <1>2, FS_Surjection DEF ExistsSurjection
  <1>4. S \in SUBSET Messages
    BY SayIsMessage
  <1> QED BY <1>3, <1>4, SetToSeqIsSeq

-----------------------------------------------------------------------------
(* The drawn path                                                          *)

LEMMA PathStep ==
    ASSUME ConsoleTyped, PathOfShownLeg, [Next]_vars
    PROVE  PathOfShownLeg'
  <1> USE DEF PathOfShownLeg, RouteOf, Stage
  <1>1. CASE UNCHANGED <<path, status, activeRef>>
    BY <1>1
  <1>2. CASE ClearRoute("unavailable") /\ UNCHANGED refs
    BY <1>2 DEF ClearRoute, refs
  <1>3. ASSUME NEW s \in fetches, NEW ok \in BOOLEAN, ApplyMap(s, ok)
        PROVE  PathOfShownLeg'
    BY <1>3, Zenon DEF ApplyMap, KeepFittingPath, route, refs
  <1>4. ASSUME NEW young \in BOOLEAN, Commit(young)
        PROVE  PathOfShownLeg'
    <2>1. activeRef' = ActiveTask /\ path' = PathAfterCommit(young)
          /\ status' = StatusAfterCommit(young)
      BY <1>4, Zenon DEF Commit
    <2>2. CASE activeRef = ActiveTask
      BY <2>1, <2>2, Zenon DEF PathAfterCommit, StatusAfterCommit
    <2>3. CASE activeRef # ActiveTask
      BY <2>1, <2>3 DEF PathAfterCommit, StatusAfterCommit, Adoptable
    <2> QED BY <2>2, <2>3
  <1>5. ASSUME Receive
        PROVE  PathOfShownLeg'
    <2> DEFINE m == Head(inbox)
               p == [robot |-> m.robot, phase |-> m.phase]
    <2>1. m \in Messages
      BY <1>5, HeadTailProperties DEF Receive, ConsoleTyped
    <2>2. p # None
      BY <2>1, DashboardAssumption DEF Messages
    <2>3. CASE OnNavigationPath(m)
      BY <1>5, <2>2, <2>3 DEF Receive, OnNavigationPath, refs
    <2>4. CASE OnNavigationPathClear(m)
      BY <1>5, <2>4 DEF Receive, OnNavigationPathClear, refs
    <2>5. CASE OnWorkflowUpdated(m)
      BY <1>5, <2>5 DEF Receive, OnWorkflowUpdated, route, refs
    <2> QED BY <1>5, <2>3, <2>4, <2>5 DEF Receive
  <1>6. CASE UNCHANGED vars
    BY <1>6 DEF vars, route, refs
  <1>7. ASSUME NEW code \in {1006, 1008}, SocketClosed(code)
        PROVE  PathOfShownLeg'
    <2>1. CASE code = 1008
      <3>1. UNCHANGED <<path, status, activeRef>>
        BY <1>7, <2>1 DEF SocketClosed, route, refs
      <3> QED BY <1>1, <3>1
    <2>2. CASE code # 1008
      <3>1. ClearRoute("unavailable") /\ UNCHANGED refs
        BY <1>7, <2>2 DEF SocketClosed
      <3> QED BY <1>2, <3>1
    <2> QED BY <2>1, <2>2
  <1>8. ASSUME NEW r \in Robots, SelectRobot(r) \/ OnMapSwitchChanged(r)
        PROVE  PathOfShownLeg'
    BY <1>8, <1>2 DEF SelectRobot, OnMapSwitchChanged
  <1>9. ASSUME NEW q \in refreshes, FailRefresh(q)
        PROVE  PathOfShownLeg'
    BY <1>9, <1>2 DEF FailRefresh
  <1>10. ASSUME NEW r \in Robots,
                \/ RunAndRefresh(r) \/ Advance(r) \/ OnTelemetry(r) \/ OnRobotData(r)
                \/ OnMapUpdated(r) \/ Archive(r) \/ Plan(r)
         PROVE  PathOfShownLeg'
    BY <1>10, <1>1 DEF RunAndRefresh, Advance, OnTelemetry, OnRobotData, OnMapUpdated,
                       Archive, Plan, route, refs
  <1>11. ASSUME NEW q \in refreshes, Read(q) \/ Apply(q)
         PROVE  PathOfShownLeg'
    BY <1>11, <1>1 DEF Read, Apply, route, refs
  <1>12. ASSUME NEW held \in SUBSET Robots, Connect(held)
         PROVE  PathOfShownLeg'
    BY <1>12, <1>1 DEF Connect, route, refs
  <1>13. ASSUME Poll \/ PollMap \/ LoseSession \/ OnReadinessChanged \/ Revoke
         PROVE  PathOfShownLeg'
    BY <1>13, <1>1 DEF Poll, PollMap, LoseSession, OnReadinessChanged, Revoke, route, refs
  <1> QED BY <1>3, <1>4, <1>5, <1>6, <1>7, <1>8, <1>9, <1>10, <1>11, <1>12, <1>13 DEF Next

-----------------------------------------------------------------------------
(* Robots selected, and refreshes under way                                *)

\* A refresh that is started was asked for what the closures see, and has read
\* nothing yet; any other was under way.
LEMMA StartedRefresh ==
    ASSUME NEW others, StartRefresh(others), NEW q \in refreshes'
    PROVE  \/ q \in others
           \/ q = [sel |-> closure', answered |-> FALSE, fleet |-> {}, robot |-> None,
                   tasks |-> None]
  BY DEF StartRefresh

\* What is told is queued, or lost.
LEMMA EmitKeeps ==
    ASSUME ConsoleTyped, NEW msgs \in Seq(Messages), Emit(msgs)
    PROVE  inbox' \in Seq(Messages)
  BY ConcatProperties DEF ConsoleTyped, Emit

\* Fewer robots in the fleet leave a refresh as truthful as it was.
LEMMA RefreshStays ==
    ASSUME ConsoleTyped, NEW q \in refreshes, role' = role, fleet' \subseteq fleet
    PROVE  IsRefresh(q)'
  BY DEF ConsoleTyped, IsRefresh

LEMMA StartKeeps ==
    ASSUME ConsoleInv, StartRefresh(refreshes), UNCHANGED <<role, selected>>,
           fleet' = fleet, closure' \in {closure, selected}
    PROVE  /\ \A q \in refreshes' : IsRefresh(q)'
           /\ selected' = None => \A q \in refreshes' : q.sel = None
  <1>1. closure' \in Robots \cup {None} /\ (selected' = None => closure' = None)
    BY DEF ConsoleInv, ConsoleTyped, NothingBefore
  <1> SUFFICES ASSUME NEW q \in refreshes'
               PROVE  IsRefresh(q)' /\ (selected' = None => q.sel = None)
    OBVIOUS
  <1>2. CASE q \in refreshes
    BY <1>2, RefreshStays DEF ConsoleInv, NothingBefore
  <1>3. CASE q = [sel |-> closure', answered |-> FALSE, fleet |-> {}, robot |-> None,
                  tasks |-> None]
    BY <1>1, <1>3 DEF IsRefresh
  <1> QED BY <1>2, <1>3, StartedRefresh

LEMMA FetchKeeps ==
    ASSUME ConsoleInv, UNCHANGED <<tracked, selected>>, fetches' = StartFetch,
           closure' \in {closure, selected}
    PROVE  /\ selected' = None => \A s \in fetches' : s = None
           /\ tracked' # "map" => fetches' = {}
  BY DEF ConsoleInv, ConsoleTyped, NothingBefore, StartFetch

LEMMA ConsoleInitial ==
    ASSUME Init
    PROVE  ConsoleInv
  <1>1. ConsoleTyped
    BY DashboardAssumption, EmptySeq DEF Init, ConsoleTyped, IsRefresh
  <1>2. NothingBefore
    BY DashboardAssumption DEF Init, NothingBefore
  <1> QED BY <1>1, <1>2 DEF ConsoleInv

LEMMA ConsoleStep ==
    ASSUME ConsoleInv, [Next]_vars
    PROVE  ConsoleInv'
  <1> USE DEF ConsoleInv
  <1>1. CASE UNCHANGED vars
    BY <1>1 DEF vars, backend, refs, route, calls, link, ConsoleTyped, NothingBefore, IsRefresh
  <1>2. ASSUME NEW r \in Robots, SelectRobot(r)
        PROVE  ConsoleInv'
    BY <1>2, DashboardAssumption
       DEF SelectRobot, Drop, backend, refs, calls, link, ConsoleTyped, NothingBefore, IsRefresh
  <1>3. ASSUME NEW r \in Robots, RunAndRefresh(r)
        PROVE  ConsoleInv'
    BY <1>3, StartKeeps DEF RunAndRefresh, refs, link, route, ConsoleTyped, NothingBefore
  <1>4. ASSUME NEW r \in Robots, Advance(r)
        PROVE  ConsoleInv'
    <2>1. << Say("navigation_path_clear", r), Say("workflow_updated", r) >> \in Seq(Messages)
          /\ <<>> \in Seq(Messages)
      <3>1. Say("navigation_path_clear", r) \in Messages /\ Say("workflow_updated", r) \in Messages
        BY SayIsMessage
      <3> QED BY <3>1, EmptySeq
    <2>2. inbox' \in Seq(Messages)
      BY <1>4, <2>1, EmitKeeps, Zenon DEF Advance
    <2>3. phase' \in [Robots -> Nat]
      BY <1>4 DEF Advance, ConsoleTyped
    <2> QED BY <1>4, <2>2, <2>3 DEF Advance, refs, calls, ConsoleTyped, NothingBefore, IsRefresh
  <1>5. ASSUME NEW r \in Robots, OnTelemetry(r) \/ OnRobotData(r)
        PROVE  ConsoleInv'
    BY <1>5, DashboardAssumption
       DEF OnTelemetry, OnRobotData, ActiveRobotId, backend, refs, calls, link, ConsoleTyped,
           NothingBefore, IsRefresh
  <1>6. ASSUME NEW r \in Robots, OnMapUpdated(r)
        PROVE  ConsoleInv'
    BY <1>6, FetchKeeps DEF OnMapUpdated, backend, refs, link, ConsoleTyped, NothingBefore, IsRefresh
  <1>7. ASSUME NEW r \in Robots, OnMapSwitchChanged(r)
        PROVE  ConsoleInv'
    BY <1>7, FetchKeeps, StartKeeps
       DEF OnMapSwitchChanged, Drop, backend, refs, link, ConsoleTyped, NothingBefore
  <1>8. ASSUME NEW r \in Robots, Archive(r)
        PROVE  ConsoleInv'
    BY <1>8 DEF Archive, refs, calls, link, ConsoleTyped, NothingBefore, IsRefresh
  <1>9. ASSUME NEW r \in Robots, Plan(r)
        PROVE  ConsoleInv'
    <2>1. << Say("navigation_path", r) >> \in Seq(Messages)
      <3>1. Say("navigation_path", r) \in Messages
        BY SayIsMessage
      <3> QED BY <3>1
    <2>2. inbox' \in Seq(Messages)
      BY <1>9, <2>1, EmitKeeps, Zenon DEF Plan
    <2> QED BY <1>9, <2>2 DEF Plan, backend, refs, calls, ConsoleTyped, NothingBefore, IsRefresh
  <1>10. ASSUME NEW q \in refreshes, Read(q)
         PROVE  ConsoleInv'
    <2> DEFINE answered == [q EXCEPT !.answered = TRUE, !.robot = Resolved(q), !.tasks = phase,
                                     !.fleet = FleetAnswer]
    <2>1. refreshes' = (refreshes \ {q}) \cup {answered}
      BY <1>10 DEF Read
    <2>2. UNCHANGED <<backend, role, tracked, selected, closure, robot, feed, refs, fetches, link>>
      BY <1>10 DEF Read
    <2>3. /\ Resolved(q) \in Robots /\ FleetAnswer \in SUBSET Robots
          /\ q.sel = None => Resolved(q) = DefaultRobot
          /\ role = "ADMIN" => FleetAnswer = fleet
      BY DashboardAssumption DEF Resolved, FleetAnswer, ConsoleTyped
    <2>4. answered.sel = q.sel
      OBVIOUS
    <2>5. /\ answered \in [sel: Robots \cup {None}, answered: BOOLEAN, fleet: SUBSET Robots,
                           robot: Robots \cup {None}, tasks: {None} \cup [Robots -> Nat]]
          /\ answered.robot = Resolved(q) /\ answered.fleet = FleetAnswer
      BY <1>10, <2>3 DEF IsRefresh, ConsoleTyped
    <2> HIDE DEF answered
    <2>6. \A p \in refreshes' : IsRefresh(p)'
      <3> SUFFICES ASSUME NEW p \in refreshes' PROVE IsRefresh(p)'
        OBVIOUS
      <3>1. CASE p \in refreshes
        BY <2>2, <3>1, RefreshStays DEF backend
      <3>2. CASE p = answered
        BY <2>2, <2>3, <2>4, <2>5, <3>2 DEF IsRefresh, backend
      <3> QED BY <2>1, <3>1, <3>2
    <2>7. selected' = None => \A p \in refreshes' : p.sel = None
      BY <2>1, <2>2, <2>4 DEF NothingBefore
    <2> QED BY <2>2, <2>6, <2>7 DEF backend, refs, link, ConsoleTyped, NothingBefore
  <1>11. ASSUME NEW q \in refreshes, Apply(q)
         PROVE  ConsoleInv'
    BY <1>11, DashboardAssumption
       DEF Apply, Foreign, FeedAfter, backend, refs, link, ConsoleTyped, NothingBefore, IsRefresh
  <1>12. ASSUME NEW q \in refreshes, FailRefresh(q)
         PROVE  ConsoleInv'
    BY <1>12 DEF FailRefresh, Drop, backend, refs, link, ConsoleTyped, NothingBefore, IsRefresh
  <1>13. ASSUME NEW s \in fetches, NEW ok \in BOOLEAN, ApplyMap(s, ok)
         PROVE  ConsoleInv'
    BY <1>13 DEF ApplyMap, backend, refs, link, ConsoleTyped, NothingBefore, IsRefresh
  <1>14. ASSUME NEW young \in BOOLEAN, Commit(young)
         PROVE  ConsoleInv'
    BY <1>14, StartKeeps, FetchKeeps, EmptySeq
       DEF Commit, backend, calls, link, ConsoleTyped, NothingBefore, IsRefresh
  <1>15. ASSUME NEW code \in {1006, 1008}, SocketClosed(code)
         PROVE  ConsoleInv'
    <2>1. /\ UNCHANGED <<backend, role, tracked, selected, closure, robot, refs>>
          /\ inbox' = <<>>
      BY <1>15 DEF SocketClosed
    <2>2. refreshes' \subseteq refreshes /\ fetches' \subseteq fetches /\ feed' \in {None, feed}
      <3>1. CASE code = 1008
        BY <1>15, <3>1 DEF SocketClosed
      <3>2. CASE code # 1008
        BY <1>15, <3>2 DEF SocketClosed, Drop, calls
      <3> QED BY <3>1, <3>2
    <2> QED BY <2>1, <2>2, EmptySeq DEF backend, refs, ConsoleTyped, NothingBefore, IsRefresh
  <1>16. ASSUME NEW held \in SUBSET Robots, Connect(held)
         PROVE  ConsoleInv'
    BY <1>16, HeldPathsAreMessages DEF Connect, backend, refs, calls, ConsoleTyped, NothingBefore,
           IsRefresh
  <1>17. ASSUME Receive
         PROVE  ConsoleInv'
    BY <1>17, StartKeeps, HeadTailProperties
       DEF Receive, OnNavigationPath, OnNavigationPathClear, OnWorkflowUpdated, backend, refs,
           ConsoleTyped, NothingBefore, IsRefresh
  <1>18. ASSUME Poll \/ OnReadinessChanged
         PROVE  ConsoleInv'
    BY <1>18, StartKeeps
       DEF Poll, OnReadinessChanged, backend, refs, link, ConsoleTyped, NothingBefore
  <1>19. ASSUME PollMap
         PROVE  ConsoleInv'
    BY <1>19, FetchKeeps DEF PollMap, backend, refs, link, ConsoleTyped, NothingBefore, IsRefresh
  <1>20. ASSUME LoseSession \/ Revoke
         PROVE  ConsoleInv'
    BY <1>20 DEF LoseSession, Revoke, backend, refs, calls, link, ConsoleTyped, NothingBefore,
           IsRefresh
  <1> QED BY <1>1, <1>2, <1>3, <1>4, <1>5, <1>6, <1>7, <1>8, <1>9, <1>10, <1>11, <1>12, <1>13,
             <1>14, <1>15, <1>16, <1>17, <1>18, <1>19, <1>20 DEF Next

-----------------------------------------------------------------------------
(* One robot on the screen                                                 *)

LEMMA ScreenInitial ==
    ASSUME Init
    PROVE  OneRobotOnScreen
  BY DEF Init, OneRobotOnScreen

\* What is on the screen may be taken off it while the selection stands, or
\* together with a new one; robots leave the fleet and do not come back.
LEMMA ScreenKept ==
    ASSUME OneRobotOnScreen, feed' \in {None, feed}, fleet' \subseteq fleet,
           UNCHANGED <<role, tracked, selected, robot>>
    PROVE  OneRobotOnScreen'
  BY DEF OneRobotOnScreen

\* An answer that is applied is the selected robot's, or the selected robot has
\* left the fleet, or none had been selected.
LEMMA AppliedIsSelected ==
    ASSUME ConsoleInv, NEW q \in refreshes, Apply(q), ~Foreign(q), role = "ADMIN"
    PROVE  /\ robot' = q.robot /\ selected' # None
           /\ selected' = q.robot \/ (selected' = selected /\ selected \notin fleet)
           /\ selected' # selected => selected = None \/ selected \notin fleet
           /\ selected = None => selected' = DefaultRobot
  <1>1. /\ q.robot \in Robots /\ q.sel \in Robots \cup {None} /\ fleet \subseteq q.fleet
        /\ selected = None => q.sel = None
        /\ q.sel = None => q.robot = DefaultRobot
    BY DEF Apply, ConsoleInv, ConsoleTyped, NothingBefore, IsRefresh
  <1>2. selected = None \/ selected = q.robot \/ selected \notin fleet
    BY <1>1 DEF Foreign
  <1>3. /\ robot' = q.robot
        /\ selected' = IF q.robot # q.sel THEN q.robot ELSE selected
    BY Zenon DEF Apply
  <1>4. None \notin Robots
    BY DashboardAssumption
  <1> QED BY <1>1, <1>2, <1>3, <1>4

LEMMA ScreenStep ==
    ASSUME ConsoleInv, OneRobotOnScreen, [Next]_vars
    PROVE  OneRobotOnScreen'
  <1> USE DEF ConsoleInv
  <1>1. CASE UNCHANGED vars
    BY <1>1, ScreenKept DEF vars, backend
  <1>2. ASSUME NEW r \in Robots, SelectRobot(r)
        PROVE  OneRobotOnScreen'
    BY <1>2 DEF SelectRobot, Drop, backend, OneRobotOnScreen
  <1>3. ASSUME NEW r \in Robots,
               RunAndRefresh(r) \/ Advance(r) \/ OnMapUpdated(r) \/ Archive(r) \/ Plan(r)
        PROVE  OneRobotOnScreen'
    BY <1>3, ScreenKept DEF RunAndRefresh, Advance, OnMapUpdated, Archive, Plan, backend
  <1>4. ASSUME NEW r \in Robots, OnTelemetry(r) \/ OnRobotData(r)
        PROVE  OneRobotOnScreen'
    BY <1>4 DEF OnTelemetry, OnRobotData, ActiveRobotId, backend, OneRobotOnScreen
  <1>5. ASSUME NEW r \in Robots, OnMapSwitchChanged(r)
        PROVE  OneRobotOnScreen'
    BY <1>5, ScreenKept DEF OnMapSwitchChanged, Drop, backend
  <1>6. ASSUME NEW q \in refreshes, Read(q) \/ FailRefresh(q)
        PROVE  OneRobotOnScreen'
    BY <1>6, ScreenKept DEF Read, FailRefresh, Drop, backend
  <1>7. ASSUME NEW q \in refreshes, Apply(q)
        PROVE  OneRobotOnScreen'
    BY <1>7, AppliedIsSelected, ScreenKept, DashboardAssumption
       DEF Apply, FeedAfter, backend, OneRobotOnScreen, ConsoleTyped, NothingBefore
  <1>8. ASSUME NEW s \in fetches, NEW ok \in BOOLEAN, ApplyMap(s, ok)
        PROVE  OneRobotOnScreen'
    BY <1>8, ScreenKept DEF ApplyMap, backend, OneRobotOnScreen, ConsoleTyped, NothingBefore
  <1>9. ASSUME NEW young \in BOOLEAN, Commit(young)
        PROVE  OneRobotOnScreen'
    BY <1>9, ScreenKept DEF Commit, backend
  <1>10. ASSUME NEW code \in {1006, 1008}, SocketClosed(code)
         PROVE  OneRobotOnScreen'
    <2>1. feed' \in {None, feed}
      <3>1. CASE code = 1008
        BY <1>10, <3>1 DEF SocketClosed
      <3>2. CASE code # 1008
        BY <1>10, <3>2 DEF SocketClosed, Drop
      <3> QED BY <3>1, <3>2
    <2> QED BY <1>10, <2>1, ScreenKept DEF SocketClosed, backend
  <1>11. ASSUME NEW held \in SUBSET Robots, Connect(held)
         PROVE  OneRobotOnScreen'
    BY <1>11, ScreenKept DEF Connect, backend
  <1>12. ASSUME Poll \/ PollMap \/ LoseSession \/ Receive \/ OnReadinessChanged \/ Revoke
         PROVE  OneRobotOnScreen'
    BY <1>12, ScreenKept
       DEF Poll, PollMap, LoseSession, Receive, OnReadinessChanged, Revoke, backend
  <1> QED BY <1>1, <1>2, <1>3, <1>4, <1>5, <1>6, <1>7, <1>8, <1>9, <1>10, <1>11, <1>12 DEF Next

\* The shown robot is another one only when an answer is applied.
LEMMA OnlyApplyShows ==
    ASSUME [Next]_vars, robot' # robot
    PROVE  \E q \in refreshes : Apply(q) /\ ~Foreign(q)
  <1>1. CASE \E q \in refreshes : Apply(q)
    BY <1>1 DEF Apply
  <1>2. ASSUME NEW code \in {1006, 1008}, SocketClosed(code)
        PROVE  robot' = robot
    BY <1>2 DEF SocketClosed
  <1>3. ASSUME NEW young \in BOOLEAN, Commit(young)
        PROVE  robot' = robot
    BY <1>3 DEF Commit
  <1>4. ASSUME NEW r \in Robots,
               \/ SelectRobot(r) \/ RunAndRefresh(r) \/ Advance(r) \/ OnTelemetry(r)
               \/ OnRobotData(r) \/ OnMapUpdated(r) \/ OnMapSwitchChanged(r) \/ Archive(r)
               \/ Plan(r)
        PROVE  robot' = robot
    BY <1>4 DEF SelectRobot, RunAndRefresh, Advance, OnTelemetry, OnRobotData, OnMapUpdated,
                OnMapSwitchChanged, Archive, Plan
  <1>5. ASSUME NEW q \in refreshes, Read(q) \/ FailRefresh(q)
        PROVE  robot' = robot
    BY <1>5 DEF Read, FailRefresh
  <1>6. ASSUME NEW s \in fetches, NEW ok \in BOOLEAN, ApplyMap(s, ok)
        PROVE  robot' = robot
    BY <1>6 DEF ApplyMap
  <1>7. ASSUME NEW held \in SUBSET Robots, Connect(held)
        PROVE  robot' = robot
    BY <1>7 DEF Connect
  <1>8. ASSUME Poll \/ PollMap \/ LoseSession \/ Receive \/ OnReadinessChanged \/ Revoke
        PROVE  robot' = robot
    BY <1>8 DEF Poll, PollMap, LoseSession, Receive, OnReadinessChanged, Revoke
  <1>9. UNCHANGED vars => robot' = robot
    BY DEF vars
  <1> QED BY <1>1, <1>2, <1>3, <1>4, <1>5, <1>6, <1>7, <1>8, <1>9 DEF Next

LEMMA SelectedStep ==
    ASSUME ConsoleInv, [Next]_vars
    PROVE  [robot' # robot /\ role = "ADMIN" => robot' = selected' \/ selected' \notin fleet]_vars
  BY OnlyApplyShows, AppliedIsSelected

-----------------------------------------------------------------------------
(* The console                                                             *)

LEMMA ConsoleStarts == ConsoleInit => ConsoleInv /\ PathOfShownLeg /\ OneRobotOnScreen
  BY ConsoleInitial, ScreenInitial, Zenon DEF ConsoleInit, Init, PathOfShownLeg

\* Whoever is followed, the provider of the data takes a step of its own or none.
LEMMA ConsoleMoves == [ConsoleNext]_consoleVars => [Next]_vars
  BY DEF ConsoleNext, consoleVars, vars

LEMMA ConsoleInvHolds == ConsoleSpec => []ConsoleInv
  <1>1. ConsoleInit => ConsoleInv
    BY ConsoleStarts
  <1>2. ConsoleInv /\ [ConsoleNext]_consoleVars => ConsoleInv'
    BY ConsoleMoves, ConsoleStep
  <1> QED BY <1>1, <1>2, PTL DEF ConsoleSpec

\* The path on the map is the plan of the shown robot's delivery in its present
\* stage, in whatever order plans, clears, refreshes and effects come
\* (ApiDeliveryContext.tsx 431-474, 613-688).
THEOREM PathOfShownLegHolds == ConsoleSpec => []PathOfShownLeg
  <1>1. ConsoleInit => PathOfShownLeg
    BY ConsoleStarts
  <1>2. ConsoleInv /\ PathOfShownLeg /\ [ConsoleNext]_consoleVars => PathOfShownLeg'
    BY ConsoleMoves, PathStep DEF ConsoleInv
  <1> QED BY <1>1, <1>2, ConsoleInvHolds, PTL DEF ConsoleSpec

\* What stands beside a robot's name is that robot's, however selections,
\* overlapping refreshes, map reads, messages and archivals interleave
\* (ApiDeliveryContext.tsx 321-332, 366-388, 476-518).
THEOREM OneRobotOnScreenHolds == ConsoleSpec => []OneRobotOnScreen
  <1>1. ConsoleInit => OneRobotOnScreen
    BY ConsoleStarts
  <1>2. ConsoleInv /\ OneRobotOnScreen /\ [ConsoleNext]_consoleVars => OneRobotOnScreen'
    BY ConsoleMoves, ScreenStep
  <1> QED BY <1>1, <1>2, ConsoleInvHolds, PTL DEF ConsoleSpec

\* A refresh that was under way when another robot was selected does not bring
\* the robot that was left back on the screen (ApiDeliveryContext.tsx 366-378).
THEOREM ShowsOnlySelectedHolds == ConsoleSpec => ShowsOnlySelected
  <1>1. ConsoleInv /\ [ConsoleNext]_consoleVars
          => [robot' # robot /\ role = "ADMIN" => robot' = selected' \/ selected' \notin fleet]_vars
    BY ConsoleMoves, SelectedStep
  <1> QED BY <1>1, ConsoleInvHolds, PTL DEF ConsoleSpec, ShowsOnlySelected
=============================================================================
