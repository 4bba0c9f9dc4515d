--------------------------- MODULE MCFleetMission ---------------------------
(* FleetMission on small fleets.                                            *)
EXTENDS FleetMission

CONSTANT Quiet   \* robots nobody stops or maps with, and whose link holds

(* Two robots side by side: one leads a quiet life beside the other's       *)
(* troubles, and every delivery has the same priority.                      *)
QuietNeighbour ==
  /\ \A r \in Quiet : /\ ~mapping[r] /\ ~slam[r] /\ ~latched[r]
                      /\ r \in connected <=> online[r]
                      /\ r \in open <=> r \in connected
                      /\ readiness[r] # "REVOKED"
  /\ \A t \in Tasks : priority[t] = "NORMAL"

(* One queue: the mapping flag plays no part in its order.                  *)
NoMapping == \A r \in Robots : ~mapping[r] /\ ~slam[r]
=============================================================================
