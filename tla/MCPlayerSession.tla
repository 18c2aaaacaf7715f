-------------------------- MODULE MCPlayerSession --------------------------
(* Two devices the server has, one of which may have a driver with a       *)
(* thread of its own, and one it has not.                                  *)
EXTENDS PlayerSession
CONSTANTS d1, d2, d3
ThreeDevices == {d1, d2, d3}
TwoDevices == {d1, d2}
OneDevice == {d1}
OtherDevice == {d2}
=============================================================================
