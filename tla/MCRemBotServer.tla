---------------------------- MODULE MCRemBotServer ----------------------------
(* Two servers in one directory, two callers on their host and one on        *)
(* another, two settings of two values.                                      *)
EXTENDS RemBotServer

TwoValues == {1, 2}
AllOnes == [f \in Fields |-> 1]

\* Nothing set, the port left to the default, and the port changed.
SomeFiles == {<<Unset, Unset>>, <<Unset, 2>>, <<2, 1>>}
=============================================================================
