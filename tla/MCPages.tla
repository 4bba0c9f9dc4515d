------------------------------- MODULE MCPages -------------------------------
(***************************************************************************)
(* Pages on small fleets: the maps and the places of the canvas.           *)
(***************************************************************************)
EXTENDS Pages

\* A map at the origin, and one beside it turned by a right angle.
MCPlans == {[columns |-> 4, rows |-> 4, origin |-> <<0, 0>>, quarters |-> 0],
            [columns |-> 4, rows |-> 4, origin |-> <<3, -1>>, quarters |-> 1]}

\* Two stations on the map, and one outside it.
MCPlaces == [a |-> <<1, 1>>, b |-> <<0, 2>>, c |-> <<9, 9>>]

MCSpots == {<<0, 0>>, <<1, 1>>}
=============================================================================
