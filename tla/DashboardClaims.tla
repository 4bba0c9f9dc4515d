--------------------------- MODULE DashboardClaims ---------------------------
(* What a test says of the plan on the map and the dashboard does not keep.  *)
EXTENDS DashboardView

\* One robot whose pickup fails and is tried again.
RetryScript == [r \in Robots |-> <<"idle", "pickup", "idle", "pickup">>]
RetryEvents == [f \in Feeds |-> 3]
RetryFrame == [r \in Robots |-> "map"]

\* "active navigation keeps the latest Nav2 plan until a stage change or clear
\* event" (tests/frontend_fleet_management.test.mjs:73): a plan received for
\* the active leg is the plan on the map.
LatestPlanShown ==
    [][Receive /\ Head(inbox).type = "navigation_path"
       /\ activeRef # None /\ activeRef = RouteOf(Head(inbox))
       /\ Head(inbox).robot = ActiveRobotId
         => path' # None /\ path'.phase = Head(inbox).phase]_vars
=============================================================================
