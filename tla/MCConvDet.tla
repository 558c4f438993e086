----------------------------- MODULE MCConvDet ------------------------------
(***************************************************************************)
(* Instances of ConvDet for TLC: three routers in a line, so that the one  *)
(* in the middle has two neighbours.                                       *)
(***************************************************************************)
EXTENDS ConvDet, TLC

CONSTANTS left, middle, right

MCRouter == {left, middle, right}

MCAdjacent == left :> {middle} @@ middle :> {left, right} @@ right :> {middle}

\* the line read from its other end
MCMirror == {left :> right @@ middle :> middle @@ right :> left}

\* many decisions, or a session of which both ends stop in the middle of fewer
MCBudget ==
  {[changes |-> 3, commands |-> 2, stops |-> 0],
   [changes |-> 2, commands |-> 1, stops |-> 1],
   [changes |-> 1, commands |-> 1, stops |-> 3]}

MCBudgetUp == {[changes |-> 5, commands |-> 1, stops |-> 0]}
=============================================================================
