---------------------------- MODULE DashboardView ----------------------------
(***************************************************************************)
(* The dashboard's data provider (src/src/context/ApiDeliveryContext.tsx)  *)
(* in one browser tab: the robot the operator has selected, the answers of *)
(* overlapping refreshes, the messages of the dashboard socket, and the    *)
(* React effects that run one commit later and read the refs the handlers  *)
(* wrote.                                                                  *)
(*                                                                         *)
(* A robot's delivery goes through the phases of Script[r]; a phase stands *)
(* for a state of its task and, while it navigates, for one navigation     *)
(* command.  Of the robot-scoped data kept beside the tasks (pose,         *)
(* stations, diagnostics, e-stop, feedback, map) a behaviour follows one,  *)
(* "tracked": none of them is read when another one is written.            *)
(***************************************************************************)
EXTENDS Integers, FiniteSets, Sequences, SequencesExt

CONSTANTS
    Robots, DefaultRobot, None,
    Script,       \* Script[r] : the phases of r's delivery, see Phases
    PlanFrame,    \* PlanFrame[r] : the frame r's paths come in
    Roles, Feeds,
    MaxRefreshes, MaxFetches, MaxInbox, MaxEvents  \* bounds of the instance

Phases == {"idle", "pickup", "loading", "destination", "unloading"}

ASSUME DashboardAssumption ==
    /\ IsFiniteSet(Robots) /\ DefaultRobot \in Robots
    /\ None \notin Robots /\ None \notin [robot: Robots, phase: Nat]
    /\ \A r \in Robots : Script[r] \in Seq(Phases) /\ Script[r] # <<>>
    /\ Roles \subseteq {"ADMIN", "USER"}
    /\ PlanFrame \in [Robots -> STRING]
    /\ Feeds \subseteq {"telemetry", "stations", "diagnostics",
                        "emergency_stop", "navigation_feedback", "map"}
    /\ MaxRefreshes \in Nat /\ MaxInbox \in Nat /\ MaxFetches \in Nat /\ MaxEvents \in [Feeds -> Nat]

VARIABLES
    fleet, phase, revoked,               \* the backend: robots, deliveries, session
    role, tracked,                       \* fixed from the start
    selected,                            \* selectedRobotIdRef
    closure,                             \* the selection the live effects closed over
    robot, tasks, feed,                  \* what the last answers and messages set
    path, pending, status,               \* navigation path, its parked copy, its status
    robotRef, activeRef,                 \* refs written by the effects of a commit
    refreshes, fetches,                  \* refreshAll and refreshMap calls in flight
    socket, inbox,                       \* the dashboard socket and its messages
    mounted, events

backend == <<fleet, phase, revoked>>
refs    == <<robotRef, activeRef>>
route   == <<path, pending, status>>
calls   == <<refreshes, fetches>>
link    == <<socket, inbox>>
vars    == <<backend, role, tracked, selected, closure, robot, tasks, feed,
             route, refs, calls, link, mounted, events>>

-----------------------------------------------------------------------------
Stage(r, p) == IF Script[r][p] \in {"pickup", "destination"}
               THEN Script[r][p] ELSE None
Navigating(r) == Stage(r, phase[r]) # None

\* The first task of the shown robot with an active status.
ActiveTask ==
    IF robot \in Robots /\ tasks # None
    THEN IF Script[robot][tasks[robot]] # "idle"
         THEN [task |-> robot, stage |-> Stage(robot, tasks[robot])]
         ELSE None
    ELSE None

ExpectedStage(t) == IF t = None THEN None ELSE t.stage
RouteOf(p) == [task |-> p.robot, stage |-> Stage(p.robot, p.phase)]
ActiveRobotId == IF selected # None THEN selected ELSE robotRef

\* Every map is drawn in frame "map"; a robot may plan in another one.
FrameFits(m, p) == m = None \/ PlanFrame[p.robot] = "map"
MapShown == IF tracked = "map" THEN feed ELSE None

\* Seeded fault: the data of the robot that was left stays on the screen.
Drop_Nothing(kinds) == feed
Drop(kinds) == IF tracked \in kinds THEN None ELSE feed

StartRefresh(others) ==
    /\ Cardinality(others) < MaxRefreshes
    /\ refreshes' = others \cup
         {[sel |-> closure', answered |-> FALSE, fleet |-> {}, robot |-> None,
           tasks |-> None]}

\* A map read beyond MaxFetches is one whose answer never comes.
StartFetch ==
    IF tracked = "map" /\ Cardinality(fetches) < MaxFetches
    THEN fetches \cup {closure'} ELSE fetches

ClearRoute(s) == path' = None /\ pending' = None /\ status' = s

Spend == events < MaxEvents[tracked] /\ events' = events + 1

-----------------------------------------------------------------------------
(* The operator, the tab and the timers                                    *)

SelectRobot(r) ==
    /\ mounted /\ role = "ADMIN" /\ r \in fleet /\ Spend
    /\ selected' = r
    /\ feed' = Drop({"diagnostics", "map", "navigation_feedback"})
    /\ ClearRoute("unavailable")
    /\ UNCHANGED <<backend, role, tracked, closure, robot, tasks, refs, calls,
                   link, mounted>>

\* Seeded fault: the interval never fires.
Poll_Never == FALSE /\ UNCHANGED vars

\* Both intervals skip their turn while the tab is hidden: polling is optional
\* here, and its fairness is the hypothesis of a visible tab.
Poll ==
    /\ mounted /\ UNCHANGED closure /\ StartRefresh(refreshes)
    /\ UNCHANGED <<backend, role, tracked, selected, robot, tasks, feed, route,
                   refs, fetches, link, mounted, events>>

PollMap ==
    /\ mounted /\ tracked = "map" /\ UNCHANGED closure
    /\ fetches' = StartFetch /\ fetches' # fetches
    /\ UNCHANGED <<backend, role, tracked, selected, robot, tasks, feed, route,
                   refs, refreshes, link, mounted, events>>

\* createTask, retryTask, confirmations and the other operations of
\* runAndRefresh: the backend acts first, then everything is read again.
RunAndRefresh(r) ==
    /\ mounted /\ ~revoked /\ ~Navigating(r) /\ phase[r] < Len(Script[r]) /\ Spend
    /\ phase' = [phase EXCEPT ![r] = @ + 1]
    /\ UNCHANGED closure /\ StartRefresh(refreshes)
    /\ UNCHANGED <<fleet, revoked, role, tracked, selected, robot, tasks, feed,
                   route, refs, fetches, link, mounted>>

-----------------------------------------------------------------------------
(* A refresh                                                               *)

\* The fleet is asked first (by an administrator), then overview and tasks, then
\* the robot's stations, diagnostics and e-stop: one read here, since a change
\* between two of them either fails the refresh or is met by a later one.
Resolved(q) == IF role = "ADMIN" /\ q.sel \in fleet THEN q.sel ELSE DefaultRobot

FleetAnswer == IF role = "ADMIN" THEN fleet ELSE {}

Read(q) ==
    /\ mounted /\ ~revoked /\ ~q.answered
    /\ refreshes' = (refreshes \ {q}) \cup
         {[q EXCEPT !.answered = TRUE, !.robot = Resolved(q), !.tasks = phase,
                    !.fleet = FleetAnswer]}
    /\ UNCHANGED <<backend, role, tracked, selected, closure, robot, tasks, feed,
                   route, refs, fetches, link, mounted, events>>

\* Seeded fault: the selection is the one the refresh closed over.
Foreign_Closure(q) ==
    role = "ADMIN" /\ q.sel # None /\ q.sel # q.robot /\ q.sel \in q.fleet

\* The answer is for a robot the operator has left in the meantime.
Foreign(q) ==
    role = "ADMIN" /\ selected # None /\ selected # q.robot /\ selected \in q.fleet

FeedAfter(q) ==
    CASE tracked \in {"telemetry", "stations"} -> q.robot
      [] tracked \in {"diagnostics", "emergency_stop"} ->
            IF role = "ADMIN" THEN q.robot ELSE None
      [] OTHER -> feed

Apply(q) ==
    /\ mounted /\ q.answered
    /\ refreshes' = refreshes \ {q}
    /\ IF Foreign(q)
       THEN UNCHANGED <<selected, robot, tasks, feed>>
       ELSE /\ robot' = q.robot /\ tasks' = q.tasks /\ feed' = FeedAfter(q)
            /\ selected' = IF role = "ADMIN" /\ q.robot # q.sel
                           THEN q.robot ELSE selected
    /\ UNCHANGED <<backend, role, tracked, closure, route, refs, fetches, link,
                   mounted, events>>

\* A request of the refresh failed, over HTTP or in the network.
FailRefresh(q) ==
    /\ mounted /\ Spend
    /\ refreshes' = refreshes \ {q}
    /\ feed' = Drop({"diagnostics"}) /\ ClearRoute("unavailable")
    /\ UNCHANGED <<backend, role, tracked, selected, closure, robot, tasks, refs,
                   fetches, link, mounted>>

\* Any 401 ends the session in the browser: the provider leaves the screen.
LoseSession ==
    /\ mounted /\ revoked /\ (refreshes # {} \/ fetches # {})
    /\ mounted' = FALSE /\ refreshes' = {} /\ fetches' = {}
    /\ UNCHANGED <<backend, role, tracked, selected, closure, robot, tasks, feed,
                   route, refs, link, events>>

\* The map's effect takes a path of another frame off the screen.
KeepFittingPath ==
    IF path = None \/ FrameFits(feed', path) THEN UNCHANGED route
    ELSE path' = None /\ status' = "unavailable" /\ UNCHANGED pending

\* refreshMap: dropped when the selection moved on, undefined when it failed.
ApplyMap(s, ok) ==
    LET r == IF s = None THEN DefaultRobot ELSE s IN
    /\ mounted /\ s \in fetches /\ fetches' = fetches \ {s}
    /\ ok => ~revoked /\ r \in fleet
    /\ feed' = IF role = "ADMIN" /\ selected # None /\ selected # s THEN feed
               ELSE IF ok THEN r ELSE None
    /\ KeepFittingPath
    /\ UNCHANGED <<backend, role, tracked, selected, closure, robot, tasks, refs,
                   refreshes, link, mounted, events>>

-----------------------------------------------------------------------------
(* The effects of a commit, in the order the component declares them       *)

\* Seeded fault: a parked path is adopted for the task, whatever its stage.
Adoptable_TaskOnly(p) ==
    p # None /\ ActiveTask # None /\ p.robot = ActiveTask.task /\ p.robot = robot

Adoptable(p) ==
    /\ p # None /\ ActiveTask # None /\ RouteOf(p) = ActiveTask
    /\ p.robot = robot /\ FrameFits(MapShown, p)

PathAfterCommit(young) ==
    IF activeRef = ActiveTask THEN path
    ELSE IF young /\ Adoptable(pending) THEN pending ELSE None

StatusAfterCommit(young) ==
    IF activeRef = ActiveTask THEN status
    ELSE IF PathAfterCommit(young) # None THEN "live"
    ELSE IF ExpectedStage(ActiveTask) # None THEN "waiting" ELSE "unavailable"

\* "young": the parked path is at most 30 s old.  A new selection renews the
\* closures: a refresh and a map read start, and the socket is replaced.
Commit(young) ==
    /\ mounted
    /\ activeRef # ActiveTask \/ robotRef # robot \/ closure # selected
    /\ path' = PathAfterCommit(young) /\ status' = StatusAfterCommit(young)
    /\ pending' = IF activeRef # ActiveTask THEN None ELSE pending
    /\ activeRef' = ActiveTask /\ robotRef' = robot
    /\ closure' = selected
    /\ IF closure # selected
       THEN /\ StartRefresh(refreshes) /\ fetches' = StartFetch
            /\ socket' = "connecting" /\ inbox' = <<>>
       ELSE UNCHANGED <<calls, link>>
    /\ UNCHANGED <<backend, role, tracked, selected, robot, tasks, feed,
                   mounted, events>>
-----------------------------------------------------------------------------
(* The messages of the dashboard socket                                    *)

Say(type, r) == [type |-> type, robot |-> r, phase |-> phase[r]]

\* What the tab hears; a message sent while its socket is not open is lost.
Emit(msgs) ==
    /\ socket = "open" => Len(inbox) + Len(msgs) <= MaxInbox
    /\ inbox' = IF socket = "open" THEN inbox \o msgs ELSE inbox

\* The end of a navigation clears the robot's path and then tells of the
\* workflow; dispatch and operator confirmations send nothing.
Advance(r) ==
    /\ mounted /\ phase[r] < Len(Script[r]) /\ Spend
    /\ phase' = [phase EXCEPT ![r] = @ + 1]
    /\ Emit(IF Navigating(r)
            THEN << Say("navigation_path_clear", r),
                    Say("workflow_updated", r) >>
            ELSE <<>>)
    /\ UNCHANGED <<fleet, revoked, role, tracked, selected, closure, robot, tasks,
                   feed, route, refs, calls, socket, mounted>>

Plan(r) ==
    /\ mounted /\ Navigating(r) /\ socket = "open"
    /\ Emit(<< Say("navigation_path", r) >>)
    /\ UNCHANGED <<backend, role, tracked, selected, closure, robot, tasks, feed,
                   route, refs, calls, socket, mounted, events>>

OnNavigationPath(m) ==
    LET p == [robot |-> m.robot, phase |-> m.phase]
        superseded == path # None /\ RouteOf(path) = RouteOf(p) /\ path # p
                      /\ path.phase # p.phase
        shown == /\ activeRef # None /\ activeRef = RouteOf(p)
                 /\ p.robot = ActiveRobotId /\ FrameFits(MapShown, p) /\ ~superseded
    IN  /\ m.type = "navigation_path"
        /\ pending' = IF activeRef = None THEN p ELSE pending
        /\ path' = IF shown THEN p ELSE path
        /\ status' = IF shown THEN "live" ELSE status
        /\ UNCHANGED refreshes

\* The end of a plan counts for the path on screen, or when none is shown.
OnNavigationPathClear(m) ==
    LET counts == /\ m.robot = ActiveRobotId /\ activeRef = RouteOf(m)
                  /\ path # None => path.phase = m.phase
    IN  /\ m.type = "navigation_path_clear"
        /\ path' = IF counts THEN None ELSE path
        /\ status' = IF counts THEN "waiting" ELSE status
        /\ UNCHANGED <<pending, refreshes>>

OnWorkflowUpdated(m) ==
    /\ m.type = "workflow_updated"
    /\ IF m.robot # ActiveRobotId
       THEN UNCHANGED <<route, refreshes>>
       ELSE /\ path' = None /\ status' = "waiting" /\ UNCHANGED pending
            /\ StartRefresh(refreshes)

Receive ==
    /\ mounted /\ socket = "open" /\ inbox # <<>> /\ inbox' = Tail(inbox)
    /\ UNCHANGED closure
    /\ \/ OnNavigationPath(Head(inbox))
       \/ OnNavigationPathClear(Head(inbox))
       \/ OnWorkflowUpdated(Head(inbox))
    /\ UNCHANGED <<backend, role, tracked, selected, robot, tasks, feed, refs,
                   fetches, socket, mounted, events>>

\* Telemetry, diagnostics, feedback and e-stop messages, which arrive at any
\* time and are read on their own.
OnTelemetry(r) ==
    /\ mounted /\ socket = "open" /\ r \in fleet /\ tracked = "telemetry"
    /\ r = ActiveRobotId /\ robot = ActiveRobotId /\ feed' = r
    /\ UNCHANGED <<backend, role, tracked, selected, closure, robot, tasks, route,
                   refs, calls, link, mounted, events>>

OnRobotData(r) ==
    /\ mounted /\ socket = "open" /\ r \in fleet /\ r = ActiveRobotId
    /\ tracked \in {"diagnostics", "emergency_stop", "navigation_feedback"}
    /\ tracked \in {"diagnostics", "emergency_stop"} => role = "ADMIN"
    /\ feed' = r
    /\ UNCHANGED <<backend, role, tracked, selected, closure, robot, tasks, route,
                   refs, calls, link, mounted, events>>

OnReadinessChanged ==
    /\ mounted /\ socket = "open" /\ UNCHANGED closure /\ StartRefresh(refreshes)
    /\ UNCHANGED <<backend, role, tracked, selected, robot, tasks, feed, route,
                   refs, fetches, link, mounted, events>>

OnMapUpdated(r) ==
    /\ mounted /\ socket = "open" /\ r \in fleet /\ r = ActiveRobotId
    /\ UNCHANGED closure /\ fetches' = StartFetch /\ fetches' # fetches
    /\ UNCHANGED <<backend, role, tracked, selected, robot, tasks, feed, route,
                   refs, refreshes, link, mounted, events>>

\* The robot changed its map: nothing drawn on the old one may stay.
OnMapSwitchChanged(r) ==
    /\ mounted /\ socket = "open" /\ r \in fleet /\ r = ActiveRobotId /\ Spend
    /\ feed' = Drop({"stations", "map", "navigation_feedback"})
    /\ ClearRoute("unavailable")
    /\ UNCHANGED closure /\ StartRefresh(refreshes) /\ fetches' = StartFetch
    /\ UNCHANGED <<backend, role, tracked, selected, robot, tasks, refs, link,
                   mounted>>

\* A closed socket takes the live data with it and is opened again after 3 s;
\* code 1008 says that the session is over.
SocketClosed(code) ==
    /\ mounted /\ socket = "open" /\ socket' = "connecting" /\ inbox' = <<>>
    /\ IF code = 1008
       THEN /\ revoked /\ mounted' = FALSE /\ refreshes' = {} /\ fetches' = {}
            /\ UNCHANGED <<feed, route, events>>
       ELSE /\ Spend /\ feed' = Drop({"navigation_feedback", "diagnostics"})
            /\ ClearRoute("unavailable") /\ UNCHANGED <<calls, mounted>>
    /\ UNCHANGED <<backend, role, tracked, selected, closure, robot, tasks, refs>>

\* A new socket starts with the paths the backend holds.
Connect(held) ==
    /\ mounted /\ socket = "connecting" /\ ~revoked
    /\ \A r \in held : Navigating(r)
    /\ socket' = "open"
    /\ inbox' = SetToSeq({Say("navigation_path", r) : r \in held})
    /\ UNCHANGED <<backend, role, tracked, selected, closure, robot, tasks, feed,
                   route, refs, calls, mounted, events>>

-----------------------------------------------------------------------------
(* The backend                                                             *)

\* A robot that is not the default one is archived.
Archive(r) ==
    /\ mounted /\ r \in fleet \ {DefaultRobot} /\ ~Navigating(r) /\ Spend
    /\ fleet' = fleet \ {r}
    /\ UNCHANGED <<phase, revoked, role, tracked, selected, closure, robot, tasks,
                   feed, route, refs, calls, link, mounted>>

Revoke ==
    /\ mounted /\ ~revoked /\ Spend /\ revoked' = TRUE
    /\ UNCHANGED <<fleet, phase, role, tracked, selected, closure, robot, tasks,
                   feed, route, refs, calls, link, mounted>>

\* The provider mounts: it reads the stored selection, starts the first
\* refresh and map read, and opens its socket.
Init ==
    /\ fleet = Robots /\ phase = [r \in Robots |-> 1] /\ revoked = FALSE
    /\ role \in Roles /\ tracked \in Feeds
    /\ selected \in IF role = "ADMIN" THEN Robots \cup {None} ELSE {None}
    /\ closure = None
    /\ robot = None /\ tasks = None /\ feed = None
    /\ path = None /\ pending = None /\ status = "unavailable"
    /\ robotRef = None /\ activeRef = None
    /\ refreshes = {[sel |-> None, answered |-> FALSE, fleet |-> {}, robot |-> None,
                     tasks |-> None]}
    /\ fetches = IF tracked = "map" THEN {None} ELSE {}
    /\ socket = "connecting" /\ inbox = <<>>
    /\ mounted = TRUE /\ events = 0

Next ==
    \/ \E r \in Robots :
         \/ SelectRobot(r) \/ RunAndRefresh(r) \/ Advance(r) \/ OnTelemetry(r) \/ OnRobotData(r)
         \/ OnMapUpdated(r) \/ OnMapSwitchChanged(r) \/ Archive(r)
         \/ Plan(r)
    \/ \E q \in refreshes : Read(q) \/ Apply(q) \/ FailRefresh(q)
    \/ \E s \in fetches, ok \in BOOLEAN : ApplyMap(s, ok)
    \/ \E young \in BOOLEAN : Commit(young)
    \/ \E code \in {1006, 1008} : SocketClosed(code)
    \/ \E held \in SUBSET Robots : Connect(held)
    \/ Poll \/ PollMap \/ LoseSession \/ Receive
    \/ OnReadinessChanged \/ Revoke

Spec == Init /\ [][Next]_vars

-----------------------------------------------------------------------------
(* Properties                                                              *)

\* The plan on the map is the plan of the leg the dashboard believes in: the
\* shown robot's active delivery, in its present stage, whatever the order of
\* plans, clears, workflow messages, refreshes and effects (lines 431-474,
\* 613-688); and the label says "live" exactly when a plan is drawn.
PathOfShownLeg ==
    /\ path # None => activeRef # None /\ RouteOf(path) = activeRef
    /\ (status = "live") <=> (path # None)

\* What is shown beside a robot's name is that robot's: its pose and stations
\* are of the shown robot; map and feedback of the selected one, unless their
\* robot has left the fleet; diagnostics too, or of the shown robot when the
\* selected one has left it (lines 321-332, 366-388, 476-518).
OneRobotOnScreen ==
    feed # None =>
       CASE tracked \in {"telemetry", "stations"} -> feed = robot
         [] tracked \in {"map", "navigation_feedback"} ->
               selected # None => feed = selected \/ feed \notin fleet
         [] tracked = "diagnostics" ->
               selected # None => \/ feed = selected \/ feed \notin fleet
                                  \/ selected \notin fleet /\ feed = robot
         [] OTHER -> role = "ADMIN"

\* A refresh that was under way when the operator chose another robot does
\* not bring the old robot back: the shown robot changes only to the selected
\* one (lines 366-378).
ShowsOnlySelected ==
    [][robot' # robot /\ role = "ADMIN" => robot' = selected' \/ selected' \notin fleet]_vars

\* The screen and its refs say what is: the present deliveries of the selected
\* robot, in a session that holds.
Settled ==
    /\ ~revoked /\ tasks = phase /\ activeRef = ActiveTask /\ robotRef = robot
    /\ closure = selected /\ robot = (IF role = "ADMIN" THEN selected ELSE DefaultRobot)
=============================================================================
