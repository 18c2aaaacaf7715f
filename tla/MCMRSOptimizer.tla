-------------------------- MODULE MCMRSOptimizer --------------------------
(* Projects with a few components on a machine with ints of eight bits.    *)
EXTENDS MRSOptimizer, FiniteSetsExt

LOCAL SomeConstraints ==
  {[on |-> 0, type |-> "DependAny", refs |-> {1, 2}],
   [on |-> 0, type |-> "Exclude", refs |-> {3}],
   [on |-> 1, type |-> "DependAny", refs |-> {0}],
   [on |-> 1, type |-> "Exclude", refs |-> {0, 2}],
   [on |-> 2, type |-> "DependAny", refs |-> {}],
   [on |-> 3, type |-> "Exclude", refs |-> {1}]}

AFewConstraints == UNION {kSubset(k, SomeConstraints) : k \in 0..3}
TwoMissionSets == {{{{0, 1}}, {{2}, {3}}}, {{{0}, {1}}}}
FourComponentsOrTooMany == {4, 7, 8, 9}
SmallLimits == {0, 8}
SmallSteps == {0, 3}
TwoFitnesses == {5, 6}
=============================================================================
