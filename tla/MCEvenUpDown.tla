--------------------------- MODULE MCEvenUpDown ---------------------------
(* Three agents, two missions, every input over small numbers.             *)
EXTENDS EvenUpDown
TwoEnergies == {1, 4}
SmallPerfs == {0, 2, 5}
SmallWorks == {3, 11}
=============================================================================
