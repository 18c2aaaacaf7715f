---------------------------- MODULE MCPlayerDriver ----------------------------
(* One client and one requesting driver.  Two threads are enough: the second *)
(* one of a restart is created while the first one ends.                     *)
EXTENDS PlayerDriver

MCThreads == 1..2
=============================================================================
