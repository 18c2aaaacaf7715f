---------------------------- MODULE MowerBrains ----------------------------
(***************************************************************************)
(* The behaviour network of a mower (RobotMowerBrains.java and the package *)
(* behavior): pure operators on a record that holds one robot's brain.     *)
(*                                                                         *)
(* Every behaviour caches its last output under the id of the request, the *)
(* tick, and is recomputed when the tick has changed or the output was     *)
(* null.  A chain of nodes that are always asked together (the DummyBeha-  *)
(* vior in front of a network and the nodes behind it) is one cache here.  *)
(* Ticks are told apart from the one before only: every output is asked    *)
(* for in every round, so the id in a cache is never older than that.      *)
(***************************************************************************)
EXTENDS Integers, FiniteSets

CONSTANTS
  Null,      (* a behaviour that has nothing to say                        *)
  MaxLoad    (* ids that fill the robot's load: new CreateStrawBehavior(20)*)

ASSUME LoadAssumption == MaxLoad \in Nat \ {0}

\* null is no output.
ASSUME NullAssumption ==
  /\ Null \notin [speed : Int, course : Int]
  /\ Null # "placeStraw"

NeverAsked == [id |-> -1, value |-> Null]
NextTick(t) == (t + 1) % 2

\* Distances come in the classes the behaviours tell apart.
FrontDist == 2
SideDist == 4
Distances == {1, 3, 5}
FarAway == [front |-> 5, left |-> 5, right |-> 5]

MaxCourse == 1
AvoidSpeed == 2
FollowSpeed == 4
WanderSpeed == 8

\* RobotMowerBrains(): no data yet, nothing loaded, nothing asked.
NewBrain ==
  [tick |-> 0, range |-> FarAway, blob |-> Null, crop |-> Null, load |-> {},
   wander |-> 0, pos |-> NeverAsked, grass |-> NeverAsked, straw |-> NeverAsked]

-----------------------------------------------------------------------------
(* CachedBehavior.getOutput                                                *)

\* Plausible slip: no cache at all.
Cached_Never(node, tick) == FALSE

Cached(node, tick) == node.id = tick /\ node.value # Null

Answer(tick, v) == [id |-> tick, value |-> v]

-----------------------------------------------------------------------------
(* Motion.                                                                 *)

\* AvoidObstaclesBehavior
Avoid(range) ==
  IF range.front < FrontDist
    THEN [speed |-> -(AvoidSpeed \div 2),
          course |-> IF range.left > range.right THEN MaxCourse ELSE -MaxCourse]
  ELSE IF range.left < SideDist THEN [speed |-> AvoidSpeed, course |-> -MaxCourse]
  ELSE IF range.right < SideDist THEN [speed |-> AvoidSpeed, course |-> MaxCourse]
  ELSE Null

\* FollowBlobBehavior: towards the nearest green blob, if there is one.  A blob
\* is given by the course that leads to it.
Follow(blob) ==
  IF blob = Null THEN Null ELSE [speed |-> FollowSpeed, course |-> blob]

\* WanderBehavior: a random walk of the course, within its limits.
Limit(c) == IF c > MaxCourse THEN MaxCourse ELSE IF c < -MaxCourse THEN -MaxCourse ELSE c
WanderStep(b, delta) == Limit(b.wander + delta)

\* SubsumptionNode: the slave is only asked when the master is silent.
\* Plausible slip: the two swapped.
Subsumption_Swapped(slave, master) == IF slave # Null THEN slave ELSE master

Subsumption(slave, master) == IF master # Null THEN master ELSE slave

Reflex(b) == Subsumption(Follow(b.blob), Avoid(b.range))

\* outPosition at the brain's tick; delta is what the random generator gives
\* if the wander behaviour is asked.
AskPosition(b, delta) ==
  IF Cached(b.pos, b.tick) THEN b
  ELSE IF Reflex(b) # Null
    THEN [b EXCEPT !.pos = Answer(b.tick, Reflex(b))]
    ELSE [b EXCEPT !.wander = WanderStep(b, delta),
                   !.pos = Answer(b.tick, [speed |-> WanderSpeed,
                                           course |-> WanderStep(b, delta)])]

-----------------------------------------------------------------------------
(* World control.                                                          *)

\* MowGrassBehavior: names the fiducials in sight and adds them to the load.
AskGrass(b) ==
  IF Cached(b.grass, b.tick) THEN b
  ELSE IF b.crop = Null \/ b.crop = {}
    THEN [b EXCEPT !.grass = Answer(b.tick, Null)]
    ELSE [b EXCEPT !.grass = Answer(b.tick, b.crop),
                   !.load = @ \cup b.crop]

\* Plausible slip: > for >=.
Full_Strict(load) == Cardinality(load) > MaxLoad

Full(load) == Cardinality(load) >= MaxLoad

\* CreateStrawBehavior: a full load becomes a bale.
\* Plausible slip: the load is not emptied.
AskStraw_KeepsLoad(b) ==
  IF Cached(b.straw, b.tick) THEN b
  ELSE IF Full(b.load)
    THEN [b EXCEPT !.straw = Answer(b.tick, "placeStraw")]
    ELSE [b EXCEPT !.straw = Answer(b.tick, Null)]

AskStraw(b) ==
  IF Cached(b.straw, b.tick) THEN b
  ELSE IF Full(b.load)
    THEN [b EXCEPT !.straw = Answer(b.tick, "placeStraw"), !.load = {}]
    ELSE [b EXCEPT !.straw = Answer(b.tick, Null)]

\* RobotMowerBrains.tick
Tick(b) == [b EXCEPT !.tick = NextTick(@)]
=============================================================================
