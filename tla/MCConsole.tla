------------------------------ MODULE MCConsole ------------------------------
(* Two robots: r1, the default one, carries a delivery through its legs, r2  *)
(* is sent to a pickup and plans in the odometry frame.                      *)
EXTENDS Console

CONSTANTS r1, r2

MCScript == [r \in Robots |-> IF r = r1 THEN <<"idle", "pickup", "loading">>
                              ELSE <<"idle", "pickup">>]
MCPlanFrame == [r \in Robots |-> IF r = r1 THEN "map" ELSE "odom"]
MCMaxEvents == [f \in Feeds |-> IF f = "diagnostics" THEN 2 ELSE 1]
=============================================================================
