--------------------------- MODULE LocalizationPage ---------------------------
(***************************************************************************)
(* Giving the robot its pose (src/src/components/LocalizationWorkspace.tsx): *)
(* a command is ordered once, the page polls the robot's status until the  *)
(* backend's store (src/backend/app/localization_store.py) says how that   *)
(* very command ended, and for a pose until the robot is localized.        *)
(***************************************************************************)
EXTENDS Integers, FiniteSets, PageConstants

CONSTANTS MaxCommands                                  \* a bound

ASSUME CommandsAssumption == MaxCommands \in Nat

VARIABLES
    loTarget,              \* targetRobotId, and targetRobotIdRef
    loStatus,              \* the status shown: of which robot, with which command
    loLoads,               \* status requests out, each for a robot
    loFlow,                \* the operation of the page that is under way (busy)
    loToast,               \* what the page says: Nothing, Failure or the command done
    loLeft,                \* the robot was changed while the operation ran
    loStore,               \* the backend: per robot the pending and the last command
    loEnd                  \* how each command ended

loVars == <<loTarget, loStatus, loLoads, loFlow, loToast, loLeft, loStore, loEnd>>

Commands == 1..MaxCommands
Nothing == 0
Failure == -1
NoStatus == [robot |-> "none", pending |-> 0, last |-> 0, ok |-> FALSE]
NoFlow   == [stage |-> "none", kind |-> "none", robot |-> "none", id |-> 0]
StatusOf(r) ==
    [robot |-> r, pending |-> loStore[r].pending, last |-> loStore[r].last,
     ok |-> loStore[r].ok]
Created == {c \in Commands : loEnd[c] # "none"}

\* request(): one pending command per robot.
StoreRequest(r) ==
    /\ loStore[r].pending = 0 /\ Created # Commands
    /\ loStore' = [loStore EXCEPT ![r].pending = Cardinality(Created) + 1]
    /\ loEnd' = [loEnd EXCEPT ![Cardinality(Created) + 1] = "pending"]

\* apply(), fail_delivery() and the deadline: the pending command ends.
LOEnds(r, accepted) ==
    /\ loStore[r].pending # 0
    /\ loStore' = [loStore EXCEPT ![r] = [pending |-> 0, last |-> @.pending, ok |-> accepted]]
    /\ loEnd' = [loEnd EXCEPT ![loStore[r].pending] = IF accepted THEN "ok" ELSE "failed"]
    /\ UNCHANGED <<loTarget, loStatus, loLoads, loFlow, loToast, loLeft>>

\* Another operator orders something of the robot.
LOOther(r) ==
    /\ StoreRequest(r)
    /\ UNCHANGED <<loTarget, loStatus, loLoads, loFlow, loToast, loLeft>>

\* load(), every half second.
LOLoad ==
    /\ loTarget \notin loLoads /\ loLoads' = loLoads \cup {loTarget}
    /\ UNCHANGED <<loTarget, loStatus, loFlow, loToast, loLeft, loStore, loEnd>>

LOLoaded(r) ==
    /\ loLoads' = loLoads \ {r}
    /\ loStatus' = IF r = loTarget THEN StatusOf(r) ELSE loStatus
    /\ UNCHANGED <<loTarget, loFlow, loToast, loLeft, loStore, loEnd>>

LOLoadFails(r) ==
    /\ loLoads' = loLoads \ {r} /\ loToast' = IF r = loTarget THEN Failure ELSE loToast
    /\ UNCHANGED <<loTarget, loStatus, loFlow, loLeft, loStore, loEnd>>

\* The target effect forgets what was shown, not what is under way.
LOTarget(r) ==
    /\ r # loTarget /\ loTarget' = r /\ loStatus' = NoStatus /\ loToast' = Nothing
    /\ loLeft' = (loLeft \/ loFlow # NoFlow)
    /\ UNCHANGED <<loLoads, loFlow, loStore, loEnd>>

\* setInitialPose() and globalRelocalize(), open while no command is pending.
LOOrder(kind) ==
    /\ loFlow = NoFlow /\ loStatus.pending = 0
    /\ loFlow' = [stage |-> "order", kind |-> kind, robot |-> loTarget, id |-> 0]
    /\ loToast' = Nothing /\ loLeft' = FALSE
    /\ UNCHANGED <<loTarget, loStatus, loLoads, loStore, loEnd>>

\* The backend takes it; the pending status is shown, unguarded.
LOOrdered ==
    /\ loFlow.stage = "order" /\ StoreRequest(loFlow.robot)
    /\ loStatus' = [StatusOf(loFlow.robot) EXCEPT !.pending = Cardinality(Created) + 1]
    /\ loFlow' = [loFlow EXCEPT !.stage = "await", !.id = Cardinality(Created) + 1]
    /\ UNCHANGED <<loTarget, loLoads, loToast, loLeft>>

\* The order is refused, or a poll fails, or the thirty polls are used up.
LOGivesUp ==
    /\ loFlow # NoFlow /\ loFlow' = NoFlow /\ loToast' = Failure
    /\ UNCHANGED <<loTarget, loStatus, loLoads, loLeft, loStore, loEnd>>

\* Seeded fault: any command that just ended will do.
Acknowledged_Any(status, id) == status.pending = 0 /\ status.last # 0

Acknowledged(status, id) == status.pending = 0 /\ status.last = id

Succeeds == loToast' = loFlow.id /\ loFlow' = IF loFlow.kind = "pose"
                                              THEN [loFlow EXCEPT !.stage = "ready"]
                                              ELSE NoFlow

\* awaitCommand(): with another target it just returns, and the flow goes on.
LOAwait ==
    /\ loFlow.stage = "await"
    /\ IF loFlow.robot # loTarget THEN Succeeds /\ UNCHANGED loStatus
       ELSE LET status == StatusOf(loFlow.robot) IN
            /\ loStatus' = status
            /\ IF ~Acknowledged(status, loFlow.id) THEN UNCHANGED <<loToast, loFlow>>
               ELSE IF status.ok THEN Succeeds
               ELSE loToast' = Failure /\ loFlow' = NoFlow
    /\ UNCHANGED <<loTarget, loLoads, loLeft, loStore, loEnd>>

\* awaitLocalizationReady(): the robot is localized, or the target has changed.
LOReady ==
    /\ loFlow.stage = "ready" /\ loFlow' = NoFlow /\ loToast' = loFlow.id
    /\ loStatus' = IF loFlow.robot = loTarget THEN StatusOf(loTarget) ELSE loStatus
    /\ UNCHANGED <<loTarget, loLoads, loLeft, loStore, loEnd>>

LOInit ==
    /\ loTarget = (CHOOSE r \in Robots : TRUE) /\ loStatus = NoStatus /\ loLoads = {}
    /\ loFlow = NoFlow /\ loToast = Nothing /\ loLeft = FALSE
    /\ loStore = [r \in Robots |-> [pending |-> 0, last |-> 0, ok |-> FALSE]]
    /\ loEnd = [c \in Commands |-> "none"]

LONext ==
    \/ LOLoad \/ LOOrdered \/ LOGivesUp \/ LOAwait \/ LOReady
    \/ \E kind \in {"pose", "global"} : LOOrder(kind)
    \/ \E r \in Robots : LOOther(r) \/ LOTarget(r) \/ \E ok \in BOOLEAN : LOEnds(r, ok)
    \/ \E r \in loLoads : LOLoaded(r) \/ LOLoadFails(r)

-----------------------------------------------------------------------------
\* The page says a command succeeded only when the robot confirmed that very
\* command, although statuses are polled while other operators order commands,
\* and it shows the status of its target.  Both only as long as the target was
\* not changed under a running operation: that one goes on and reports success
\* for the robot left behind (lines 39-133).
SuccessIsConfirmed ==
    ~loLeft =>
        /\ loToast \in Commands => loEnd[loToast] = "ok"
        /\ loStatus # NoStatus => loStatus.robot = loTarget
=============================================================================
