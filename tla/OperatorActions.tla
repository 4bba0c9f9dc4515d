--------------------------- MODULE OperatorActions ---------------------------
(***************************************************************************)
(* The controls that act on the mission on screen: WorkflowControls.tsx, on *)
(* the home page of an administrator and on the tasks page, MissionPanel of *)
(* app/page.tsx, and the handover button of the requester's UserDashboard,  *)
(* against the transitions of src/backend/app/state_machine.py.  Requests   *)
(* are delayed, other operators act meanwhile and the screen lags behind.   *)
(* That a robot is online and its stop released only narrows the guards.    *)
(***************************************************************************)
EXTENDS Integers, FiniteSets, PageConstants

CONSTANTS MaxMissions, MaxRetries, MaxWaiting    \* three bounds

VARIABLES
    oaTask,            \* the backend: per robot its mission, attempt and stage
    oaPage,            \* the page open: home, tasks, or a requester's portal
    oaSelected,        \* the robot selected
    oaView,            \* the mission of the robot on screen, as last refreshed
    oaWaiting,         \* requests out, each with what it was asked for
    oaBusy             \* busy, confirming and stopping of the mounted controls

oaVars == <<oaTask, oaPage, oaSelected, oaView, oaWaiting, oaBusy>>

NoView == [robot |-> NoRobot, id |-> 0, attempt |-> 0, stage |-> "none"]
ActiveStages == {"pickup", "loading", "delivery", "unloading"}

\* The events of the two handovers and what they do.
EventOf == [loading |-> "CONFIRM_LOADED", unloading |-> "CONFIRM_RECEIVED"]
AfterEvent == [CONFIRM_LOADED |-> "delivery", CONFIRM_RECEIVED |-> "done"]

\* What a mission may do without this operator: the robot arrives or fails,
\* others confirm, cancel, recover the robot or retry; the next one begins.
Successors(task) ==
    LET to(stage) == [task EXCEPT !.stage = stage] IN
    CASE task.stage = "pickup"    -> {to("loading"), to("failed"), to("done")}
      [] task.stage = "loading"   -> {to("delivery"), to("done")}
      [] task.stage = "delivery"  -> {to("unloading"), to("failed"), to("done")}
      [] task.stage = "unloading" -> {to("done")}
      [] task.stage = "failed"    -> {to("recovered")}
      [] task.stage = "recovered" -> {[to("pickup") EXCEPT !.attempt = @ + 1], to("done")}
      [] task.stage = "done"      -> {[id |-> task.id + 1, attempt |-> 1, stage |-> "pickup"]}

OAMission(r) ==
    /\ oaTask' \in {[oaTask EXCEPT ![r] = next] : next \in Successors(oaTask[r])}
    /\ oaTask'[r].id <= MaxMissions /\ oaTask'[r].attempt <= MaxRetries + 1
    /\ UNCHANGED <<oaPage, oaSelected, oaView, oaWaiting, oaBusy>>

\* An administrator selects another robot: the mission of the one before stays
\* on screen until a refresh brings the new one.
OASelect(r) ==
    /\ oaPage # "portal" /\ r # oaSelected /\ oaSelected' = r
    /\ UNCHANGED <<oaTask, oaPage, oaView, oaWaiting, oaBusy>>

\* The controls of the home page are there as long as it shows a mission; those
\* that leave the screen forget that they were busy.
Unmount(controls) ==
    /\ oaBusy' = oaBusy \ controls
    /\ oaWaiting' = {IF request.control \in controls
                     THEN [request EXCEPT !.mounted = FALSE] ELSE request :
                     request \in oaWaiting}

OARefresh ==
    LET task == oaTask[oaSelected] IN
    /\ oaView' = [robot |-> oaSelected, id |-> task.id, attempt |-> task.attempt,
                  stage |-> task.stage]
    /\ oaView' # oaView
    /\ Unmount(IF oaPage = "home" /\ task.stage \notin ActiveStages
               THEN {"workflow"} ELSE {})
    /\ UNCHANGED <<oaTask, oaPage, oaSelected>>

\* Another page: its controls are new, the requests stay out.
OANavigate(to) ==
    /\ oaPage # "portal" /\ to \in {"home", "tasks"} \ {oaPage} /\ oaPage' = to
    /\ Unmount({"workflow", "stopping"})
    /\ UNCHANGED <<oaTask, oaSelected, oaView>>

\* "shown": what was asked for is the mission on screen.
Asks(kind, event, control, shown) ==
    /\ control \notin oaBusy /\ Cardinality(oaWaiting) < MaxWaiting
    /\ oaWaiting' = oaWaiting \cup {[kind |-> kind, event |-> event, control |-> control,
                      mounted |-> TRUE, shown |-> shown, seen |-> oaView]}
    /\ oaBusy' = oaBusy \cup {control}
    /\ UNCHANGED <<oaTask, oaPage, oaSelected, oaView>>

\* advanceRobotWorkflow(): the event belongs to the stage of the active task.
Advances(shown) ==
    oaView.stage \in DOMAIN EventOf /\ Asks("event", EventOf[oaView.stage], "workflow", shown)

OAConfirm == oaPage # "portal" /\ Advances(TRUE)

\* The portal shows the requester's newest active delivery, on whatever robot;
\* its button advances the one of the robot the provider reads.
OAHandover == oaPage = "portal" /\ \E shown \in BOOLEAN : Advances(shown)

\* recoverRobot(): a robot in error is freed.
OARecover ==
    oaPage = "tasks" /\ oaView.stage = "failed" /\ Asks("recover", "none", "workflow", TRUE)

\* stopMission()
OAStop ==
    /\ oaPage = "home" /\ oaView.stage \in ActiveStages
    /\ Asks("cancel", "none", "stopping", TRUE)

\* Seeded fault: a confirmation moves on whatever handover is waiting.
Transition_Any(task, request) ==
    IF task.stage \in DOMAIN EventOf /\ task.id = request.seen.id
    THEN AfterEvent[EventOf[task.stage]] ELSE task.stage

\* DeliveryTaskStateMachine.transition(), for the mission the request names.
Transition(task, request) ==
    IF /\ task.stage \in DOMAIN EventOf /\ task.id = request.seen.id
       /\ EventOf[task.stage] = request.event
    THEN AfterEvent[request.event] ELSE task.stage

\* cancel_task() and recover_robot()
Cancelled(task, request) ==
    IF task.id = request.seen.id /\ task.stage \in ActiveStages THEN "done" ELSE task.stage
Recovered(task) == IF task.stage = "failed" THEN "recovered" ELSE task.stage

\* A request reaches the backend and is answered; the control it was pressed on
\* opens again, if it is still there.  runAndRefresh() then reads everything
\* again, which is an OARefresh.
OADelivered(request) ==
    LET robot == request.seen.robot IN
    /\ oaWaiting' = oaWaiting \ {request}
    /\ oaBusy' = IF request.mounted THEN oaBusy \ {request.control} ELSE oaBusy
    /\ oaTask' = [oaTask EXCEPT ![robot].stage =
         CASE request.kind = "event"   -> Transition(oaTask[robot], request)
           [] request.kind = "cancel"  -> Cancelled(oaTask[robot], request)
           [] request.kind = "recover" -> Recovered(oaTask[robot])]
    /\ UNCHANGED <<oaPage, oaSelected, oaView>>

OAInit ==
    /\ oaTask = [r \in Robots |-> [id |-> 1, attempt |-> 1, stage |-> "pickup"]]
    /\ oaPage \in {"home", "portal"}
    /\ oaSelected = (CHOOSE r \in Robots : TRUE) /\ oaView = NoView
    /\ oaWaiting = {} /\ oaBusy = {}

OANext ==
    \/ OARefresh \/ OAConfirm \/ OAHandover \/ OARecover \/ OAStop
    \/ \E to \in {"home", "tasks"} : OANavigate(to)
    \/ \E r \in Robots : OAMission(r) \/ OASelect(r)
    \/ \E request \in oaWaiting : OADelivered(request)

-----------------------------------------------------------------------------
\* What happens on an operator's word is what was on that operator's screen: a
\* mission moves on, ends or is freed only at the very stage confirmed and of
\* the mission shown, on the robot shown, however late the request and whatever
\* others did: of the same attempt or, after a retry, of a later one, for no
\* request names its attempt.  Excepted is the button of a requester whose
\* screen shows a delivery of another robot than the one the provider reads
\* (WorkflowControls.tsx 25-48, app/page.tsx 125-133, context 948-991).
ActsAsConfirmed ==
    [][ \A request \in oaWaiting \ oaWaiting', r \in Robots :
          oaTask'[r] # oaTask[r] /\ request.shown =>
            /\ request.seen.robot = r
            /\ request.kind # "recover" => request.seen.id = oaTask[r].id
            /\ request.kind = "event" => request.seen.stage = oaTask[r].stage ]_oaVars
=============================================================================
