---------------------------- MODULE MCMowerSim ----------------------------
(* A small instance of MowerSim for TLC: one mower, whose load is full     *)
(* with both grasses, over a link that may fail.                           *)
EXTENDS MowerSim
CONSTANTS r1, g1, g2, n1, p1

OneRobot == {r1}
NoRobot == {}
TwoGrass == {g1, g2}
OneName == {n1}
OnePose == {p1}

\* Nothing near, something in front, and something at one side.
SomeRanges ==
  {FarAway, [front |-> 1, left |-> 5, right |-> 3], [front |-> 5, left |-> 3, right |-> 5]}
SomeBlobs == {Null, 1}
SomeDeltas == {-1, 1}
=============================================================================
