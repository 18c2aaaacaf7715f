---------------------------- MODULE MCWorldCtrl ----------------------------
(* A small instance of WorldCtrl for TLC: two robots, one of which may be  *)
(* interrupted, and two names, so that a name may be lost and the next     *)
(* bales go without.                                                       *)
EXTENDS WorldCtrl
CONSTANTS r1, r2, g1, g2, n1, n2, p1

TwoRobots == {r1, r2}
OneRobot == {r1}
TwoGrass == {g1, g2}
TwoNames == {n1, n2}
OnePose == {p1}
=============================================================================
