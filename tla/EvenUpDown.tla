----------------------------- MODULE EvenUpDown -----------------------------
(***************************************************************************)
(* How EvenUpDownOpCostCalculator shares the work of the missions among    *)
(* the agents (EvenUpDownOpCostCalculator.java, AgentMissionMatrix.java).  *)
(*                                                                         *)
(* First each mission is given to the agent that does it most cheaply.     *)
(* Then, pass after pass, one unit of time is taken from the agent that    *)
(* works longest, in its dearest mission, and the work it did is given to  *)
(* the cheapest agents that stay below that time.  One step of this module *)
(* is one search for a cell, one unit given, or the end of a pass.         *)
(*                                                                         *)
(* Performances, energies and amounts are whole numbers here, and time is  *)
(* in units of valueStep, which is 1 for the scale 0.                      *)
(***************************************************************************)
EXTENDS Integers

CONSTANTS
  NumAgents, NumMissions,
  Energies,   (* operating energies of agents, positive                    *)
  Perfs,      (* performances, 0 for an agent unfit for the mission        *)
  Works       (* amounts of work of missions, positive                     *)

Agents == 1..NumAgents       \* in the order of the list mrs
Missions == 1..NumMissions

ASSUME InputsAssumption ==
  /\ NumAgents \in Nat \ {0} /\ NumMissions \in Nat \ {0}
  /\ Energies \subseteq Nat \ {0}
  /\ Perfs \subseteq Nat
  /\ Works \subseteq Nat \ {0}

VARIABLES
  energy, perf, work,  (* the input                                        *)
  time,       (* data of the AgentMissionMatrix                            *)
  pc,         (* where calcOpCosts is                                      *)
  cell,       (* maxPair: the agent and the mission to take time from      *)
  maxValue,   (* its agent's working time when the pass began              *)
  deltaWork,  (* work of the unit of time that nobody has taken over yet   *)
  changed,
  costed      (* the matrix of which result is the cost; Unshared for 0d   *)

input == <<energy, perf, work>>
pass == <<cell, maxValue, deltaWork, changed>>
vars == <<input, time, pc, pass, costed>>

Unshared == [a \in Agents |-> [m \in Missions |-> 0]]

Init ==
  /\ energy \in [Agents -> Energies]
  /\ perf \in [Missions -> [Agents -> Perfs]]
  /\ work \in [Missions -> Works]
  /\ time = Unshared
  /\ pc = "fill"
  /\ cell = <<1, 1>>
  /\ maxValue = 0
  /\ deltaWork = 0
  /\ changed = FALSE
  /\ costed = Unshared

-----------------------------------------------------------------------------
(* AgentMissionMatrix                                                      *)

Sum(x, n) ==
  LET sum[k \in 0..n] == IF k = 0 THEN 0 ELSE sum[k - 1] + x[k] IN sum[n]

Total(t, a) == Sum(t[a], NumMissions)
WorkDone(t, m) == Sum([a \in Agents |-> t[a][m] * perf[m][a]], NumAgents)

\* Values are cut off at zero.
IncValue(t, a, m, d) == [t EXCEPT ![a][m] = IF @ + d > 0 THEN @ + d ELSE 0]

\* Cost of a unit of work, energy / performance, without the division.
Cheaper(a, m, b, k) == energy[a] * perf[k][b] < energy[b] * perf[m][a]

\* Searches keep the first of several equally good candidates.
FirstCheapest(S, m) ==
  CHOOSE a \in S : \A b \in S : ~Cheaper(b, m, a, m) /\ (b < a => Cheaper(a, m, b, m))

MaxCost(t, a) ==
  LET S == {m \in Missions : perf[m][a] > 0 /\ t[a][m] > 0} IN
  CHOOSE m \in S : \A k \in S : ~Cheaper(a, m, a, k) /\ (k < m => Cheaper(a, k, a, m))

-----------------------------------------------------------------------------
(* calcOpCosts                                                             *)

Able(m) == {a \in Agents : perf[m][a] > 0}
Ceil(n, d) == (n + d - 1) \div d

\* A mission nobody is fit for leaves minAgent null: NullPointerException.
Fill ==
  /\ pc = "fill"
  /\ IF \E m \in Missions : Able(m) = {}
       THEN pc' = "failed" /\ UNCHANGED time
       ELSE /\ pc' = "pick"
            /\ time' = [a \in Agents |-> [m \in Missions |->
                 IF a = FirstCheapest(Able(m), m) THEN Ceil(work[m], perf[m][a]) ELSE 0]]
  /\ UNCHANGED <<input, pass, costed>>

SysTime(t) == LET totals == {Total(t, a) : a \in Agents}
              IN CHOOSE n \in totals : \A k \in totals : k <= n
Longest == LET n == SysTime(time) IN {a \in Agents : Total(time, a) = n}

\* The cell of the longest working agents whose work is dearest.
MaxPair ==
  LET pairs == {<<a, MaxCost(time, a)>> : a \in Longest} IN
  CHOOSE p \in pairs : \A q \in pairs :
    /\ ~Cheaper(p[1], p[2], q[1], q[2])
    /\ q[1] < p[1] => Cheaper(q[1], q[2], p[1], p[2])

\* Surplus of a mission: what is done beyond the amount of work.
Surplus(m) == WorkDone(time, m) - work[m]

Delta(a, m) == perf[m][a] - Surplus(m)

Pick ==
  /\ pc = "pick"
  /\ cell' = MaxPair
  /\ maxValue' = SysTime(time)
  /\ deltaWork' = Delta(cell'[1], cell'[2])
  /\ changed' = (deltaWork' = 0)
  /\ pc' = IF deltaWork' > 0 THEN "spread" ELSE "settle"
  /\ UNCHANGED <<input, time, costed>>

\* Plausible slips: letting the taker reach the longest time; no limit at all.
Takers_ToTheTop ==
  {a \in Agents \ {cell[1]} : perf[cell[2]][a] > 0 /\ Total(time, a) + 1 <= maxValue}
Takers_NoLimit ==
  {a \in Agents \ {cell[1]} : perf[cell[2]][a] > 0}

Takers ==
  {a \in Agents \ {cell[1]} : perf[cell[2]][a] > 0 /\ Total(time, a) + 1 <= maxValue - 1}

Spread ==
  /\ pc = "spread"
  /\ Takers # {}
  /\ LET a == FirstCheapest(Takers, cell[2]) IN
       /\ time' = IncValue(time, a, cell[2], 1)
       /\ deltaWork' = deltaWork - perf[cell[2]][a]
       /\ pc' = IF deltaWork' > 0 THEN "spread" ELSE "settle"
  /\ changed' = TRUE
  /\ UNCHANGED <<input, cell, maxValue, costed>>

\* A plausible slip: the flag is left as the units given so far have set it.
NoTaker_KeepsFlag ==
  /\ pc = "spread"
  /\ Takers = {}
  /\ pc' = "settle"
  /\ UNCHANGED <<input, time, pass, costed>>

\* The units given before stay where they are.
NoTaker ==
  /\ pc = "spread"
  /\ Takers = {}
  /\ changed' = FALSE
  /\ pc' = "settle"
  /\ UNCHANGED <<input, time, cell, maxValue, deltaWork, costed>>

Settle ==
  /\ pc = "settle"
  /\ IF changed
       THEN /\ time' = IncValue(time, cell[1], cell[2], -1)
            /\ costed' = time'
            /\ pc' = "pick"
       ELSE pc' = "done" /\ UNCHANGED <<time, costed>>
  /\ UNCHANGED <<input, pass>>

Stopped == pc \in {"done", "failed"}

Next == Fill \/ Pick \/ Spread \/ NoTaker \/ Settle
Spec == Init /\ [][Next]_vars

\* A sequential method: it goes on until it returns or throws.
FairSpec == Spec /\ WF_vars(Next)

-----------------------------------------------------------------------------
(* Properties.                                                             *)

\* However passes overlap in a mission, and wherever a pass is broken off, the
\* shared out time is enough to do all work of all missions; and the matrix the
\* result is the cost of does it all, in the same time as the matrix the loop ends
\* with, although the last pass may have given units away before it found no taker.
WorkCovered ==
  /\ pc \notin {"fill", "failed"} => \A m \in Missions : Surplus(m) >= 0
  /\ pc = "done" /\ costed # Unshared =>
       /\ \A m \in Missions : WorkDone(costed, m) >= work[m]
       /\ SysTime(costed) = SysTime(time)

\* Evening up never makes the mission take longer: no agent that takes work over
\* gets to work as long as the longest did when the pass began.
NeverLonger ==
  [][pc # "fill" => SysTime(time') <= SysTime(time)]_vars

\* The do-while loop ends: no input makes work go round in circles.
Terminates == <>Stopped

\* "work around for case when time of agent can be decreased for free (without
\* increasing other agent)" (EvenUpDownOpCostCalculator.java:101): when the loop
\* ends, the longest working agent has no unit of time left that is not needed.
NoFreeTimeLeft ==
  pc = "done" =>
    LET a == cell[1]
        m == cell[2] IN WorkDone(IncValue(time, a, m, -1), m) < work[m]
=============================================================================
