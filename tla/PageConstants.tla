---------------------------- MODULE PageConstants ----------------------------
(***************************************************************************)
(* What the pages of the dashboard speak of: the fleet's robots and the     *)
(* maps of their catalogues, with a value for "none" of each.              *)
(***************************************************************************)
CONSTANTS Robots, NoRobot, Maps, NoMap

ASSUME PageAssumption == Robots # {} /\ NoRobot \notin Robots /\ NoMap \notin Maps
=============================================================================
