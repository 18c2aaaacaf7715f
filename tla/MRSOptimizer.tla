--------------------------- MODULE MRSOptimizer ---------------------------
(***************************************************************************)
(* The optimizer: it configures the project, stores it, evolves solutions  *)
(* and stores an evolution record whenever it sees the best fitness has    *)
(* changed (MRSOptimizer.java).                                            *)
(*                                                                         *)
(* A transaction of the database may fail, with or without having been     *)
(* committed, and the program may be killed; both end it.  The genetic     *)
(* algorithm is outside: the fittest solution may be any after each step.  *)
(***************************************************************************)
EXTENDS Project

CONSTANTS
  Limits,        (* values of generationsLimit                             *)
  Steps,         (* values of generationsStep                              *)
  Fitness        (* fitness values, never negative                         *)

ASSUME OptimizerAssumption ==
  /\ Limits \subseteq Nat
  /\ Steps \subseteq Nat
  /\ Fitness \subseteq Nat

VARIABLES
  generationsLimit, generationsStep,
  pc,           (* where the program is                                    *)
  genNum, step, lastFitValue,
  database,     (* rows of Project and Evolution                           *)
  looks         (* history: what getFittestChromosome gave, and when       *)

config == <<generationsLimit, generationsStep>>
evolution == <<genNum, step, lastFitValue, looks>>
vars == <<file, i, agents, config, pc, evolution, database>>

Init ==
  /\ ProjectInit
  /\ generationsLimit \in Limits
  /\ generationsStep \in Steps
  /\ pc = "configure"
  /\ genNum = 0
  /\ step = 1
  /\ lastFitValue = -1
  /\ database = [project |-> FALSE, ended |-> FALSE, evolutions |-> <<>>]
  /\ looks = <<>>

Stopped == pc \in {"results", "failed"}

-----------------------------------------------------------------------------

Configure ==
  /\ pc = "configure"
  /\ GenerateAgent
  /\ UNCHANGED <<config, pc, evolution, database>>

\* A transaction that makes the database d: an exception out of it is caught
\* nowhere, and does not tell whether it was committed.
Commit(d, next) ==
  \/ database' = d /\ pc' = next
  \/ database' \in {database, d} /\ pc' = "failed"

StoreProject ==
  /\ pc = "configure"
  /\ Generated
  /\ Commit([database EXCEPT !.project = TRUE], "evolve")
  /\ UNCHANGED <<file, i, agents, config, evolution>>

\* A plausible slip: Doubles compared as objects.
Changed_AsObjects(best) == TRUE

Changed(best) == best # lastFitValue

\* A plausible slip: one step too long.
LongerStep_Past == IF step <= generationsStep THEN step + 1 ELSE step

LongerStep == IF step < generationsStep THEN step + 1 ELSE step

Evolve ==
  /\ pc = "evolve"
  /\ genNum < generationsLimit
  /\ genNum' = genNum + step
  /\ \E best \in Fitness :
       /\ looks' = Append(looks, [generation |-> genNum', fitness |-> best])
       /\ IF Changed(best)
            THEN pc' = "record" /\ lastFitValue' = best /\ UNCHANGED step
            ELSE step' = LongerStep /\ UNCHANGED <<pc, lastFitValue>>
  /\ UNCHANGED <<file, i, agents, config, database>>

\* A plausible slip: the generation the step began with.
Record_StepsBegin ==
  /\ pc = "record"
  /\ LET evo == [generation |-> genNum - step, fitness |-> lastFitValue] IN
       Commit([database EXCEPT !.evolutions = Append(@, evo)], "evolve")
  /\ UNCHANGED <<file, i, agents, config, evolution>>

Record ==
  /\ pc = "record"
  /\ LET evo == [generation |-> genNum, fitness |-> lastFitValue] IN
       Commit([database EXCEPT !.evolutions = Append(@, evo)], "evolve")
  /\ UNCHANGED <<file, i, agents, config, evolution>>

\* A plausible slip: the end is stored as soon as the last step is to be taken.
Finish_Early ==
  /\ pc = "evolve"
  /\ genNum + step >= generationsLimit
  /\ Commit([database EXCEPT !.ended = TRUE], "results")
  /\ UNCHANGED <<file, i, agents, config, evolution>>

\* setEndTime
Finish ==
  /\ pc = "evolve"
  /\ genNum >= generationsLimit
  /\ Commit([database EXCEPT !.ended = TRUE], "results")
  /\ UNCHANGED <<file, i, agents, config, evolution>>

Killed ==
  /\ ~Stopped
  /\ pc' = "failed"
  /\ UNCHANGED <<file, i, agents, config, evolution, database>>

Work == Configure \/ StoreProject \/ Evolve \/ Record \/ Finish
Next == Work \/ Killed
Spec == Init /\ [][Next]_vars

-----------------------------------------------------------------------------
(* Properties.                                                             *)

TypeOK ==
  /\ pc \in {"configure", "evolve", "record", "results", "failed"}
  /\ genNum \in Nat
  /\ step \in 1..(IF generationsStep > 1 THEN generationsStep ELSE 1)
  /\ lastFitValue \in Fitness \union {-1}
  /\ database \in [project : BOOLEAN, ended : BOOLEAN,
                   evolutions : Seq([generation : Nat, fitness : Fitness])]
  /\ database.evolutions # <<>> => database.project

\* The records of a project go up in generations, so that (project, generation)
\* is unique as Evolution.java:42-43 demands, and each tells of a change.
RecordsAscend ==
  \A k \in 2..Len(database.evolutions) :
    LET earlier == database.evolutions[k - 1]
        later == database.evolutions[k]
    IN earlier.generation < later.generation /\ earlier.fitness # later.fitness

\* Fitness a reader of the records takes for the best in generation g: that of
\* the last record up to g.
Told(records, g) ==
  LET upto == {k \in 1..Len(records) : records[k].generation <= g}
  IN IF upto = {} THEN -1 ELSE records[Max(upto)].fitness

CurveAt(g) == Told(database.evolutions, g)

Tells(records, look) == Told(records, look.generation) = look.fitness

\* However the steps grow, the few records that are stored tell the best fitness
\* at every generation the program looked at, except the one it was about to
\* record when it stopped.
CurveIsExact ==
  \A k \in 1..Len(looks) :
    \/ Tells(database.evolutions, looks[k])
    \/ k = Len(looks) /\ pc \in {"record", "failed"}

\* A project with an end time was evolved to the limit and has its last record:
\* no failure makes a broken off evolution look complete.
EndedIsComplete ==
  database.ended =>
    /\ genNum >= generationsLimit
    /\ genNum = (IF looks = <<>> THEN 0 ELSE Last(looks).generation)
    /\ CurveAt(genNum) = lastFitValue

\* The steps that grow while nothing changes overshoot the limit by less than
\* the longest step.
OvershootBounded ==
  genNum <= generationsLimit + (IF generationsStep > 1 THEN generationsStep ELSE 1) - 1
=============================================================================
