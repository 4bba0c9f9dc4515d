--------------------------- MODULE MissionProgress ---------------------------
(***************************************************************************)
(* How far a delivery has come, as the dashboard and the tasks page say it: *)
(* lib/taskProgress.ts and lib/taskEta.ts, fed by three sources that do not *)
(* wait for each other: the task's row (refreshes answered out of order),   *)
(* the robot's Nav2 feedback (the socket) and the backend's estimates.      *)
(***************************************************************************)
EXTENDS Integers, Sequences, FiniteSets

CONSTANTS Distances,      \* route lengths a task may carry, 0 when unknown
          MaxAttempts, MaxSocket, MaxAnswers                  \* three bounds

\* A route's length, and what remains of one, is not negative.
ASSUME ProgressAssumption == Distances \subseteq Nat /\ MaxAttempts \in Nat

VARIABLES
    mpMission,         \* the backend's row: stage, attempt
    mpRoute,           \* pickupDistanceMeters and deliveryDistanceMeters
    mpSocket,          \* feedback on its way to the browser, in order
    mpAnswers,         \* stages read by refreshes under way
    mpShown,           \* the stage on screen
    mpFeedback,        \* navigationFeedback
    mpFits             \* whether the estimate on screen is for the stage shown

mpVars == <<mpMission, mpRoute, mpSocket, mpAnswers, mpShown, mpFeedback, mpFits>>

Stages == <<"queued", "pickup", "loading", "delivery", "unloading", "completed">>
Order(stage) == CHOOSE i \in 1..Len(Stages) : Stages[i] = stage
NoFeedback == [stage |-> "none", remaining |-> 0]

\* PROGRESS of service.py: the milestone in the row.
Milestone == [queued |-> 0, pickup |-> 20, loading |-> 35, delivery |-> 70,
              unloading |-> 90, completed |-> 100, failed |-> 0]

AtLeast(a, b) == IF a > b THEN a ELSE b

\* routeProgress(): the covered fraction, rounded, inside the band of the leg.
RouteProgress(total, remaining, start, end) ==
    IF total = 0 THEN start
    ELSE LET covered == AtLeast(0, total - AtLeast(0, remaining))
         IN  (2 * (start * total + covered * (end - start)) + total) \div (2 * total)

\* Seeded fault: any feedback of the task moves the bar.
DisplayedTaskProgress_AnyLeg(stage, feedback) ==
    CASE feedback.stage = "pickup" -> RouteProgress(mpRoute.pickup, feedback.remaining, 5, 30)
      [] feedback.stage = "delivery" -> RouteProgress(mpRoute.delivery, feedback.remaining, 40, 85)
      [] OTHER -> Milestone[stage]

\* displayedTaskProgress(): feedback counts for the leg that is under way.
DisplayedTaskProgress(stage, feedback) ==
    CASE stage = "pickup" /\ feedback.stage = "pickup" ->
           RouteProgress(mpRoute.pickup, feedback.remaining, 5, 30)
      [] stage = "delivery" /\ feedback.stage = "delivery" ->
           RouteProgress(mpRoute.delivery, feedback.remaining, 40, 85)
      [] OTHER -> Milestone[stage]

\* buildTaskEtaDisplay(): an estimate counts for the status it was made for.
Eta(stage, fits) ==
    LET value == IF fits THEN "estimate" ELSE "unavailable" IN
    CASE stage \in {"queued", "pickup"} -> [pickup |-> value, destination |-> value]
      [] stage = "loading"   -> [pickup |-> "arrived", destination |-> value]
      [] stage = "delivery"  -> [pickup |-> "picked-up", destination |-> value]
      [] stage = "unloading" -> [pickup |-> "picked-up", destination |-> "awaiting-confirmation"]
      [] stage = "completed" -> [pickup |-> "picked-up", destination |-> "completed"]
      [] OTHER               -> [pickup |-> "unavailable", destination |-> "unavailable"]

MPAdvances ==
    /\ mpMission.stage \notin {"completed", "failed"}
    /\ mpMission' = [mpMission EXCEPT !.stage = Stages[Order(@) + 1]]
    /\ UNCHANGED <<mpRoute, mpSocket, mpAnswers, mpShown, mpFeedback, mpFits>>

MPFails ==
    /\ mpMission.stage \in {"pickup", "delivery"}
    /\ mpMission' = [mpMission EXCEPT !.stage = "failed"]
    /\ UNCHANGED <<mpRoute, mpSocket, mpAnswers, mpShown, mpFeedback, mpFits>>

\* A retry queues the task again; the feedback on screen is not cleared.
MPRetried ==
    /\ mpMission.stage = "failed" /\ mpMission.attempt < MaxAttempts
    /\ mpMission' = [stage |-> "queued", attempt |-> mpMission.attempt + 1]
    /\ UNCHANGED <<mpRoute, mpSocket, mpAnswers, mpShown, mpFeedback, mpFits>>

\* A leg that is being driven reports what remains, at times more than planned.
MPReports(remaining) ==
    /\ mpMission.stage \in {"pickup", "delivery"} /\ Len(mpSocket) < MaxSocket
    /\ mpSocket' = Append(mpSocket, [stage |-> mpMission.stage, remaining |-> remaining])
    /\ UNCHANGED <<mpMission, mpRoute, mpAnswers, mpShown, mpFeedback, mpFits>>

MPFeedback ==
    /\ mpSocket # <<>> /\ mpSocket' = Tail(mpSocket) /\ mpFeedback' = Head(mpSocket)
    /\ UNCHANGED <<mpMission, mpRoute, mpAnswers, mpShown, mpFits>>

\* A map switch or another robot's selection drops the feedback.
MPDropped ==
    /\ mpFeedback # NoFeedback /\ mpFeedback' = NoFeedback
    /\ UNCHANGED <<mpMission, mpRoute, mpSocket, mpAnswers, mpShown, mpFits>>

\* refreshAll() reads the rows, then the estimates, and shows both together.
MPRefresh ==
    /\ Cardinality(mpAnswers) < MaxAnswers
    /\ mpAnswers' = mpAnswers \cup {mpMission.stage}
    /\ UNCHANGED <<mpMission, mpRoute, mpSocket, mpShown, mpFeedback, mpFits>>

MPRefreshed(stage) ==
    /\ mpAnswers' = mpAnswers \ {stage} /\ mpShown' = stage
    /\ mpFits' \in {TRUE, mpMission.stage = stage}
    /\ UNCHANGED <<mpMission, mpRoute, mpSocket, mpFeedback>>

MPInit ==
    /\ mpMission = [stage |-> "queued", attempt |-> 1]
    /\ mpRoute \in [pickup: Distances, delivery: Distances]
    /\ mpSocket = <<>> /\ mpAnswers = {} /\ mpShown = "queued"
    /\ mpFeedback = NoFeedback /\ mpFits = TRUE

MPNext ==
    \/ MPAdvances \/ MPFails \/ MPRetried \/ MPFeedback \/ MPDropped \/ MPRefresh
    \/ \E remaining \in Distances : MPReports(remaining)
    \/ \E stage \in mpAnswers : MPRefreshed(stage)

-----------------------------------------------------------------------------
MPBar == DisplayedTaskProgress(mpShown, mpFeedback)
MPCards == Eta(mpShown, mpFits)

\* The bar and the arrival cards tell one story, whatever the order in which
\* rows, feedback and estimates arrive: on the way through the stages on
\* screen the bar never falls, and it is past the pickup's band exactly when the
\* card says "picked up", at its end exactly when the delivery is completed
\* (lib/taskProgress.ts 7-56, lib/taskEta.ts 38-80; within a leg the bar does
\* fall, from the row's milestone to the first feedback).
BarFollowsMission ==
    [][ /\ (mpShown # mpShown' /\ {mpShown, mpShown'} \cap {"failed"} = {}
              /\ Order(mpShown') > Order(mpShown)) => MPBar' >= MPBar
        /\ MPCards'.pickup = "picked-up" <=> MPBar' >= 40
        /\ MPCards'.destination = "completed" <=> MPBar' = 100 ]_mpVars
=============================================================================
