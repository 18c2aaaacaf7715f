------------------------------ MODULE Project ------------------------------
(***************************************************************************)
(* Configuring a project: generating all kinds of agents that can be put   *)
(* together from the components (Project.java).                            *)
(*                                                                         *)
(* A component is its index in the list of components; an agent is a set   *)
(* of components.  What a mission asks for is a set of alternatives, each  *)
(* a set of components: one alternative, the base and the device, for the  *)
(* area coverage and transportation missions, one per component of the     *)
(* families for the dummy mission.                                         *)
(***************************************************************************)
EXTENDS Integers, Sequences, SequencesExt

CONSTANTS
  CompNums,        (* numbers of components of projects                    *)
  ConstraintSets,  (* sets of constraints between them                     *)
  MissionSets,     (* sets of missions                                     *)
  IntWidth         (* bits of an int, 32 in Java                           *)

Components(n) == 0..(n - 1)

ASSUME ProjectAssumption ==
  /\ CompNums \subseteq Nat \ {0}
  /\ IntWidth \in Nat \ {0, 1}

VARIABLES
  compNum, constraints, missions,  (* the project's file                   *)
  i,                               (* next pattern of generateAgents       *)
  agents                           (* the list of agents                   *)

file == <<compNum, constraints, missions>>

ProjectInit ==
  /\ compNum \in CompNums
  /\ constraints \in ConstraintSets
  /\ missions \in MissionSets
  /\ i = 1
  /\ agents = <<>>

-----------------------------------------------------------------------------

Excludes(c) == c.type = "Exclude"
DependsOnAny(c) == c.type = "DependAny"

\* An agent obeys the constraints of the components it has.
Obeys(agent, c) ==
  c.on \in agent =>
    /\ Excludes(c) => agent \intersect c.refs = {}
    /\ DependsOnAny(c) => agent \intersect c.refs # {}

\* getAgentPerformance(agent) > 0
CanPerform(agent, mission) == \E needed \in mission : needed \subseteq agent

IsAgentValid(agent) ==
  /\ \A c \in constraints : Obeys(agent, c)
  /\ \E m \in missions : CanPerform(agent, m)

Pow2(n) ==
  LET power[k \in 0..n] == IF k = 0 THEN 1 ELSE 2 * power[k - 1] IN power[n]

\* 1 << n of a two's complement int: only n modulo the width counts.
Shl(n) ==
  LET r == Pow2(n % IntWidth) IN IF n % IntWidth = IntWidth - 1 THEN -r ELSE r

\* The components the one bits of the pattern stand for.
Pattern(k) == {j \in Components(compNum) : (k \div Pow2(j)) % 2 = 1}

\* A plausible slip: an agent is kept as soon as a mission can use it.
GenerateAgent_Unconstrained ==
  /\ i < Shl(compNum)
  /\ i' = i + 1
  /\ agents' = IF \E m \in missions : CanPerform(Pattern(i), m)
                 THEN Append(agents, Pattern(i)) ELSE agents
  /\ UNCHANGED file

GenerateAgent ==
  /\ i < Shl(compNum)
  /\ i' = i + 1
  /\ agents' = IF IsAgentValid(Pattern(i)) THEN Append(agents, Pattern(i)) ELSE agents
  /\ UNCHANGED file

Generated == i >= Shl(compNum)

-----------------------------------------------------------------------------

\* Every agent that obeys the constraints and is of use for a mission is in the
\* list, and is there once, as long as 1 << compNum is a positive int.  From
\* then on only the components below compNum modulo the width take part, and
\* none does when the shift gives the smallest int.
AgentsComplete ==
  Generated =>
    LET bits == compNum % IntWidth
        taking == IF compNum < IntWidth THEN Components(compNum) ELSE Components(bits)
    IN /\ IsInjective(agents)
       /\ ToSet(agents) = IF bits = IntWidth - 1 THEN {}
                          ELSE {a \in SUBSET taking : a # {} /\ IsAgentValid(a)}
=============================================================================
