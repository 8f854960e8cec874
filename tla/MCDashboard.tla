---------------------------- MODULE MCDashboard ----------------------------
(***************************************************************************)
(* Dashboard for TLC: two panes in one tab or in two Spaces, the other way   *)
(* round, and sessions that begin without forwards and with two.            *)
(***************************************************************************)
EXTENDS Dashboard

At(space, tab) == [space |-> space, tab |-> tab]

MCPlaces ==
    {<<At(1, 1), At(1, 1)>>, <<At(2, 1), At(1, 2)>>}

MCStarts ==
    {<<>>,
     <<Forward(1, FALSE, FALSE, 1), Forward(2, TRUE, TRUE, 2)>>,
     <<Forward(1, TRUE, TRUE, 1), Forward(2, TRUE, FALSE, 2)>>}
=============================================================================
