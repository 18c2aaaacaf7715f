------------------------------ MODULE MowerSim ------------------------------
(***************************************************************************)
(* The mowing simulation: mowers (RobotMowerCtrl.java) with their brains   *)
(* (MowerBrains) that share one world controller (WorldCtrl).  A round of  *)
(* a mower, process(), senses, drives, hands over the grass it sees item   *)
(* by item, asks for a bale when its load is full, and ticks; between any  *)
(* two accesses to the shared queues everybody else may move.              *)
(***************************************************************************)
EXTENDS WorldCtrl, MowerBrains

CONSTANTS
  Ranges,    (* what the ranger may report                                 *)
  Blobs,     (* courses to the grass the camera may report, or Null        *)
  Deltas     (* what the wander behaviour's generator may give             *)

\* Nothing in the program interrupts a mower: its calls never throw.
ASSUME NobodyInterrupts == Interruptible = {}

ASSUME SensesAssumption ==
  /\ Ranges \subseteq [front : Int, left : Int, right : Int]
  /\ Blobs \subseteq Int \cup {Null}
  /\ Deltas \subseteq Int
  /\ \A crop \in SUBSET Grass : crop # Null

VARIABLES
  brain,     (* the brain of each mower                                    *)
  phase,     (* where in process() each mower is                           *)
  todo,      (* the items of this round's mow signal not handed over yet   *)
  cmd,       (* speed and course the mower was last told                   *)
  fresh,     (* history: grass handed over since the last bale             *)
  walked     (* history: how often the wander course moved in this round   *)

mowerVars == <<brain, phase, todo, cmd, fresh, walked>>
simVars == <<vars, mowerVars>>

SimInit ==
  /\ Init
  /\ brain = [r \in Robots |-> NewBrain]
  /\ phase = [r \in Robots |-> "sense"]
  /\ todo = [r \in Robots |-> {}]
  /\ cmd = [r \in Robots |-> Null]
  /\ fresh = [r \in Robots |-> {}]
  /\ walked = [r \in Robots |-> 0]

Standing == {g \in Grass : simPose[g] # Away}

\* isDataReady() of ranger, camera and cropper: a sensor with no new data
\* leaves the last value in the brain, however old it is.
With(b, n, c, f) == [b EXCEPT !.range = n, !.blob = c, !.crop = f]
Sensed(b) ==
  {With(b, n, c, f) :
     n \in Ranges \cup {b.range}, c \in Blobs \cup {b.blob},
     f \in (SUBSET Standing) \cup {b.crop}}

\* What the brain was left with, the speed and the course decide the round.
SetOut(r, b, first, second, mowing) ==
  /\ brain' = [brain EXCEPT ![r] = mowing]
  /\ cmd' = [cmd EXCEPT ![r] = [speed |-> first.pos.value.speed,
                                course |-> second.pos.value.course]]
  /\ todo' = [todo EXCEPT ![r] =
                IF mowing.grass.value = Null THEN {} ELSE mowing.grass.value]
  /\ walked' = [walked EXCEPT ![r] =
                  (IF first.wander # b.wander THEN 1 ELSE 0)
                  + (IF mowing.wander # first.wander THEN 1 ELSE 0)]

\* Speed, course and the display each ask for the position of this tick.
Sense(r) ==
  /\ phase[r] = "sense"
  /\ at[r] = "out"
  /\ \E b \in Sensed(brain[r]), d1, d2 \in Deltas :
       \E first \in {AskPosition(b, d1)} : \E second \in {AskPosition(first, d2)} :
         \E mowing \in {AskGrass(AskPosition(second, d2))} :
           SetOut(r, b, first, second, mowing)
  /\ phase' = [phase EXCEPT ![r] = "mow"]
  /\ UNCHANGED <<vars, fresh>>

\* setSpeed throws a PlayerException, which neither process() nor run()
\* catches: the mower's thread ends.
SpeedFails(r) ==
  /\ phase[r] = "sense"
  /\ at[r] = "out"
  /\ LinkMayFail
  /\ phase' = [phase EXCEPT ![r] = "dead"]
  /\ UNCHANGED <<vars, brain, todo, cmd, fresh, walked>>

\* for (String item : ...) world.addGrassItemToQueue(item)
\* grassCache only feeds the display and is left out.
Mow(r) ==
  /\ phase[r] = "mow"
  /\ \E g \in todo[r] :
       /\ AddGrassItemToQueue(r, g)
       /\ fresh' = [fresh EXCEPT ![r] = @ \cup {g}]
       /\ todo' = [todo EXCEPT ![r] = @ \ {g}]
  /\ UNCHANGED <<brain, phase, cmd, walked>>

\* The call of addGrassItemToQueue returns.
MowReturns(r) == CountGrass(r) /\ UNCHANGED mowerVars

\* The load is looked at when all items are handed over.
CheckLoad(r) ==
  /\ phase[r] = "mow"
  /\ todo[r] = {}
  /\ at[r] = "out"
  /\ LET b == AskStraw(brain[r]) IN
       /\ brain' = [brain EXCEPT ![r] = b]
       /\ phase' = [phase EXCEPT ![r] = IF b.straw.value # Null THEN "bale" ELSE "tick"]
  /\ UNCHANGED <<vars, todo, cmd, fresh, walked>>

AskForBale(r) ==
  /\ phase[r] = "bale"
  /\ \E p \in Poses : PollStrawName(r, p)
  /\ phase' = [phase EXCEPT ![r] = "put"]
  /\ fresh' = [fresh EXCEPT ![r] = {}]
  /\ UNCHANGED <<brain, todo, cmd, walked>>

PutBale(r) ==
  /\ phase[r] = "put"
  /\ AddStrawItemToQueue(r)
  /\ phase' = [phase EXCEPT ![r] = "tick"]
  /\ UNCHANGED <<brain, todo, cmd, fresh, walked>>

EndRound(r) ==
  /\ phase[r] = "tick"
  /\ brain' = [brain EXCEPT ![r] = Tick(@)]
  /\ phase' = [phase EXCEPT ![r] = "sense"]
  /\ UNCHANGED <<vars, todo, cmd, fresh, walked>>

MowerStep(r) ==
  \/ Sense(r) \/ SpeedFails(r)
  \/ Mow(r) \/ MowReturns(r) \/ CheckLoad(r)
  \/ AskForBale(r) \/ PutBale(r)
  \/ EndRound(r)

SimNext ==
  \/ \E r \in Robots : MowerStep(r)
  \/ (WorldStep \/ SendStopSignal) /\ UNCHANGED mowerVars

\* Every thread is scheduled.  The queues are unbounded in the program, so a
\* put never waits: strong fairness makes up for the bounds of the model.
SimFairness ==
  /\ WF_simVars(WorldStep /\ UNCHANGED mowerVars)
  /\ \A r \in Robots : SF_simVars(MowerStep(r))

SimSpec == SimInit /\ [][SimNext]_simVars
SimFairSpec == SimSpec /\ SimFairness

-----------------------------------------------------------------------------
(* Properties.                                                             *)

Commands == [speed : {-1, AvoidSpeed, FollowSpeed, WanderSpeed}, course : -MaxCourse..MaxCourse]

\* A bale is made of grass: whenever process() asks for one, the mower has
\* handed over a full load of different grass since its last bale (the load is
\* filled by MowGrassBehavior before the items are handed over, and emptied by
\* CreateStrawBehavior).
BaleBacked ==
  \A r \in Robots : phase[r] = "bale" => Cardinality(fresh[r]) >= MaxLoad

Blocked(n) == n.front < FrontDist \/ n.left < SideDist \/ n.right < SideDist
Driving(r) == phase[r] \notin {"sense", "dead"}

LeftFree(n) == n.left > n.right /\ (n.left >= SideDist \/ n.front < FrontDist)
RightFree(n) == n.right > n.left /\ (n.right >= SideDist \/ n.front < FrontDist)

AvoidsObstacles(command, n) ==
  /\ command.speed <= AvoidSpeed
  /\ n.front < FrontDist => command.speed < 0
  /\ LeftFree(n) => command.course > 0
  /\ RightFree(n) => command.course < 0

SeeksGrass(command, blob) ==
  IF blob = Null THEN command.speed = WanderSpeed
  ELSE command = [speed |-> FollowSpeed, course |-> blob]

\* A mower reacts to what it senses in this round, whatever was cached in earlier
\* ones and however old the other sensors' values are.  It "avoids obstacles"
\* (RobotMowerBrains): with one in the way it never goes on at full speed, backs off
\* from one in front and turns to the side that is free, whatever the camera sees.
\* (In a gap that is narrow on both sides it turns right, even when the right wall
\* is the nearer one.)  Otherwise it "moves towards grass to trim" that it sees,
\* and "wanders to find grass" only when it sees none.
ReactsToSenses ==
  \A r \in Robots :
    LET b == brain[r] IN
    Driving(r) => IF Blocked(b.range) THEN AvoidsObstacles(cmd[r], b.range)
                  ELSE SeeksGrass(cmd[r], b.blob)

\* Speed and course of a round are of one mind: the wander course is drawn at
\* most once in a round however often outPosition is asked (the cache), and the
\* course sent is the one the behaviour remembers.
OneDrawPerRound ==
  \A r \in Robots :
    /\ walked[r] <= 1
    /\ Driving(r) /\ cmd[r].speed = WanderSpeed => cmd[r].course = brain[r].wander

\* A full load does not stay: it becomes a bale, or the world controller has
\* ended, or the mower is caught in the shared HashSet.
FullLoadIsBaled ==
  \A r \in Robots :
    Cardinality(brain[r].load) >= MaxLoad
      ~> (brain[r].load = {} \/ Halted \/ at[r] = "stuck")
=============================================================================
