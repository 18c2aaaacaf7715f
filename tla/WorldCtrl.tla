------------------------------ MODULE WorldCtrl ------------------------------
(***************************************************************************)
(* The world controller of the mowing simulation (WorldCtrl.java).         *)
(*                                                                         *)
(* Robot controllers run in threads of their own and hand two kinds of     *)
(* requests to the one world controller: "this grass is mowed" and "put a  *)
(* bale of straw here".  Both go through blocking queues.  The world       *)
(* controller's thread drains the queues and tells the simulator to move   *)
(* the named objects.  A bale is an object that already exists in the      *)
(* simulated world; its name is taken from a pool that is filled once and  *)
(* never refilled.                                                         *)
(*                                                                         *)
(* One step of a robot thread ends where it touches shared state, so every *)
(* interleaving of the queues, the pool and the unsynchronised HashSet of  *)
(* mowed grass is a behaviour of this module.                              *)
(***************************************************************************)
EXTENDS Integers, Sequences, FiniteSets

CONSTANTS
  Robots,         (* threads that call the world controller                *)
  Interruptible,  (* the robots whose thread somebody may interrupt        *)
  Grass,          (* names of the grass objects                            *)
  Names,          (* names put into the straw pool: "straw1".."straw100"   *)
  Poses,          (* where a robot may ask for a bale                      *)
  Idle,           (* a robot thread that is adding nothing                *)
  NoName,         (* null, what poll() answers on an empty pool            *)
  Away,           (* PlayerPose2d(-50, 0, 0), where mowed grass goes       *)
  Start,          (* where an object is before anybody moves it            *)
  LinkMayFail,    (* may a request to the simulator end in an exception?   *)
  MaxGrass,       (* bound of the model on the length of grassQueue        *)
  MaxStraw        (* the same of strawQueue, when a name is polled         *)

ASSUME RobotsAssumption ==
  /\ IsFiniteSet(Robots)
  /\ Interruptible \subseteq Robots

ASSUME ObjectsAssumption ==
  /\ IsFiniteSet(Names)
  /\ NoName \notin Names
  /\ Grass \cap Names = {}
  /\ Start \notin Poses \cup {Away}

ASSUME BoundsAssumption ==
  /\ LinkMayFail \in BOOLEAN
  /\ MaxGrass \in Nat
  /\ MaxStraw \in Nat

VARIABLES
  grassQueue,   (* LinkedBlockingQueue<String>, unbounded                  *)
  strawQueue,   (* LinkedBlockingQueue<StageObject>, unbounded             *)
  strawPool,    (* LinkedBlockingQueue<String>(100)                        *)
  grass,        (* HashSet<String> of the grass counted as mowed           *)
  at,           (* where in WorldCtrl's code each robot thread is          *)
  item,         (* the call's argument, or its StageObject under way       *)
  interrupted,  (* the interrupt flag of each robot's thread               *)
  stop,         (* stopSignal of the world controller                      *)
  wpc,          (* where the world controller's thread is                  *)
  simPose,      (* where the simulator was told each object is             *)
  raced         (* history: have two calls of grass.add ever overlapped?   *)

robotVars == <<at, item, interrupted>>
queueVars == <<grassQueue, strawQueue, strawPool>>
vars == <<queueVars, grass, robotVars, stop, wpc, simPose, raced>>

Objects == Grass \cup Names
StageObject == [name : Names \cup {NoName}, pose : Poses]

RangeOf(s) == {s[i] : i \in 1..Len(s)}

-----------------------------------------------------------------------------
(* The constructor: empty queues and one name after the other in the pool. *)

Injective(s) == \A i, j \in 1..Len(s) : s[i] = s[j] => i = j

Init ==
  /\ grassQueue = << >>
  /\ strawQueue = << >>
  /\ strawPool \in [1..Cardinality(Names) -> Names]
  /\ Injective(strawPool)
  /\ RangeOf(strawPool) = Names
  /\ grass = {}
  /\ at = [r \in Robots |-> "out"]
  /\ item = [r \in Robots |-> Idle]
  /\ interrupted = [r \in Robots |-> FALSE]
  /\ stop = FALSE
  /\ wpc = "test"
  /\ simPose = [o \in Objects |-> Start]
  /\ raced = FALSE

-----------------------------------------------------------------------------
(* Robot threads.  "out": outside WorldCtrl;  "add": after grassQueue.put, *)
(* inside grass.add;  "hold": after strawPool.poll, before strawQueue.put; *)
(* "stuck": caught in a loop of the damaged HashSet.                       *)

MoveTo(r, place, what) ==
  /\ at' = [at EXCEPT ![r] = place]
  /\ item' = [item EXCEPT ![r] = what]

Leave(r) == MoveTo(r, "out", Idle)

\* A plausible slip: a stack for a queue.
Put_OnTop(queue, e) == <<e>> \o queue

\* LinkedBlockingQueue.put appends; poll takes the head.
Put(queue, e) == Append(queue, e)

\* put() of an interrupted thread clears the flag and throws; the catch
\* clause logs, and the call returns with nothing put.
PutThrows(r) ==
  /\ interrupted[r]
  /\ interrupted' = [interrupted EXCEPT ![r] = FALSE]

AddGrassItemToQueue(r, g) ==
  /\ at[r] = "out"
  /\ Len(grassQueue) < MaxGrass
  /\ ~interrupted[r]
  /\ grassQueue' = Put(grassQueue, g)
  /\ MoveTo(r, "add", g)
  /\ UNCHANGED <<strawQueue, strawPool, grass, interrupted, stop, wpc, simPose, raced>>

\* A plausible slip: counting the grass before handing it over.
DropGrassItem_CountsFirst(r, g) ==
  /\ at[r] = "out"
  /\ PutThrows(r)
  /\ grass' = grass \cup {g}
  /\ UNCHANGED <<queueVars, at, item, stop, wpc, simPose, raced>>

DropGrassItem(r, g) ==
  /\ at[r] = "out"
  /\ PutThrows(r)
  /\ UNCHANGED <<queueVars, grass, at, item, stop, wpc, simPose, raced>>

\* grass.add on a HashSet no lock protects.  An add that overlaps another
\* one may be overwritten by it, or may run into a cycle of the table the
\* other is resizing and never return.
InAdd(r) == at[r] \in {"add", "stuck"}
Overlaps(r) == \E o \in Robots \ {r} : InAdd(o)

CountGrass(r) ==
  /\ at[r] = "add"
  /\ \/ /\ grass' = grass \cup {item[r]}
        /\ Leave(r)
     \/ /\ Overlaps(r)
        /\ UNCHANGED grass
        /\ Leave(r) \/ MoveTo(r, "stuck", Idle)
  /\ raced' = (raced \/ Overlaps(r))
  /\ UNCHANGED <<queueVars, interrupted, stop, wpc, simPose>>

PooledName == IF strawPool = << >> THEN NoName ELSE Head(strawPool)

\* A plausible slip: peek() for poll().
PoolAfterPoll_Peek == strawPool

PoolAfterPoll == IF strawPool = << >> THEN << >> ELSE Tail(strawPool)

PollStrawName(r, p) ==
  /\ at[r] = "out"
  /\ Len(strawQueue) < MaxStraw
  /\ strawPool' = PoolAfterPoll
  /\ MoveTo(r, "hold", [name |-> PooledName, pose |-> p])
  /\ UNCHANGED <<grassQueue, strawQueue, grass, interrupted, stop, wpc, simPose, raced>>

AddStrawItemToQueue(r) ==
  /\ at[r] = "hold"
  /\ ~interrupted[r]
  /\ strawQueue' = Put(strawQueue, item[r])
  /\ Leave(r)
  /\ UNCHANGED <<grassQueue, strawPool, grass, interrupted, stop, wpc, simPose, raced>>

\* The polled name is in neither the queue nor the pool afterwards.
DropStrawItem(r) ==
  /\ at[r] = "hold"
  /\ PutThrows(r)
  /\ Leave(r)
  /\ UNCHANGED <<queueVars, grass, stop, wpc, simPose, raced>>

Interrupt(r) ==
  /\ r \in Interruptible
  /\ ~interrupted[r]
  /\ interrupted' = [interrupted EXCEPT ![r] = TRUE]
  /\ UNCHANGED <<queueVars, grass, at, item, stop, wpc, simPose, raced>>

-----------------------------------------------------------------------------
(* The world controller's thread: AbstractPlayerCtrl.run around process(). *)

World(from, to) ==
  /\ wpc = from
  /\ wpc' = to

SendStopSignal ==
  /\ ~stop
  /\ stop' = TRUE
  /\ UNCHANGED <<queueVars, grass, robotVars, wpc, simPose, raced>>

LoopTest ==
  /\ World("test", IF stop THEN "ended" ELSE "mow")
  /\ UNCHANGED <<queueVars, grass, robotVars, stop, simPose, raced>>

\* while (!grassQueue.isEmpty())
AfterMowing_SkipsStraw == "test"
AfterMowing == "show"

\* A plausible slip: testing for size() > 1.
MowTest_LeavesLast ==
  /\ World("mow", IF Len(grassQueue) < 2 THEN AfterMowing ELSE "mowItem")
  /\ UNCHANGED <<queueVars, grass, robotVars, stop, simPose, raced>>

MowTest ==
  /\ World("mow", IF grassQueue = << >> THEN AfterMowing ELSE "mowItem")
  /\ UNCHANGED <<queueVars, grass, robotVars, stop, simPose, raced>>

\* simulation.set2DPose(grassQueue.poll(), ...): the item has left the queue
\* when the request to the simulator fails.
MowItem ==
  /\ wpc = "mowItem"
  /\ grassQueue' = Tail(grassQueue)
  /\ \/ /\ wpc' = "mow"
        /\ simPose' = [simPose EXCEPT ![Head(grassQueue)] = Away]
     \/ /\ LinkMayFail
        /\ wpc' = "dead"
        /\ UNCHANGED simPose
  /\ UNCHANGED <<strawQueue, strawPool, grass, robotVars, stop, raced>>

\* while (!strawQueue.isEmpty())
ShowTest ==
  /\ World("show", IF strawQueue = << >> THEN "test" ELSE "showItem")
  /\ UNCHANGED <<queueVars, grass, robotVars, stop, simPose, raced>>

\* A plausible slip: giving the name of a shown bale back to the pool.
ShowItem_Recycles ==
  LET obj == Head(strawQueue) IN
  /\ wpc = "showItem"
  /\ strawQueue' = Tail(strawQueue)
  /\ \/ /\ obj.name # NoName
        /\ wpc' = "show"
        /\ simPose' = [simPose EXCEPT ![obj.name] = obj.pose]
        /\ strawPool' = Append(strawPool, obj.name)
     \/ /\ obj.name = NoName
        /\ wpc' = "dead"
        /\ UNCHANGED <<simPose, strawPool>>
  /\ UNCHANGED <<grassQueue, grass, robotVars, stop, raced>>

\* set2DPose dereferences the name: a null name is a NullPointerException,
\* which run() does not catch.
ShowItem ==
  LET obj == Head(strawQueue) IN
  /\ wpc = "showItem"
  /\ strawQueue' = Tail(strawQueue)
  /\ \/ /\ obj.name # NoName
        /\ wpc' = "show"
        /\ simPose' = [simPose EXCEPT ![obj.name] = obj.pose]
     \/ /\ obj.name = NoName \/ LinkMayFail
        /\ wpc' = "dead"
        /\ UNCHANGED simPose
  /\ UNCHANGED <<grassQueue, strawPool, grass, robotVars, stop, raced>>

-----------------------------------------------------------------------------
RobotStep(r) ==
  \/ \E g \in Grass : AddGrassItemToQueue(r, g)
  \/ \E g \in Grass : DropGrassItem(r, g)
  \/ CountGrass(r)
  \/ \E p \in Poses : PollStrawName(r, p)
  \/ AddStrawItemToQueue(r)
  \/ DropStrawItem(r)

WorldStep == LoopTest \/ MowTest \/ MowItem \/ ShowTest \/ ShowItem

Next ==
  \/ \E r \in Robots : RobotStep(r) \/ Interrupt(r)
  \/ SendStopSignal
  \/ WorldStep

Spec == Init /\ [][Next]_vars

\* The world controller's thread is scheduled; nobody has to call it.
FairSpec == Spec /\ WF_vars(WorldStep)
-----------------------------------------------------------------------------
(* Properties.                                                             *)

Holding == {r \in Robots : at[r] = "hold"}
HeldNames == {item[r].name : r \in Holding} \ {NoName}
QueuedNames == {strawQueue[i].name : i \in 1..Len(strawQueue)} \ {NoName}
ShownNames == {n \in Names : simPose[n] # Start}
PoolNames == RangeOf(strawPool)
\* The types of the fields and locals of WorldCtrl, its callers and its thread.
TypeOK ==
  /\ grassQueue \in Seq(Grass)
  /\ strawQueue \in Seq(StageObject)
  /\ strawPool \in Seq(Names)
  /\ grass \subseteq Grass
  /\ at \in [Robots -> {"out", "add", "hold", "stuck"}]
  /\ item \in [Robots -> {Idle} \cup Grass \cup StageObject]
  /\ \A r \in Robots : at[r] = "add" => item[r] \in Grass
  /\ \A r \in Robots : at[r] = "hold" => item[r] \in StageObject
  /\ interrupted \in [Robots -> BOOLEAN]
  /\ stop \in BOOLEAN
  /\ wpc \in {"test", "mow", "mowItem", "show", "showItem", "ended", "dead"}
  /\ wpc = "mowItem" => grassQueue # << >>
  /\ wpc = "showItem" => strawQueue # << >>
  /\ simPose \in [Objects -> Poses \cup {Away, Start}]
  /\ raced \in BOOLEAN

\* A bale's name is never in two places: not twice in the pool, never with two
\* robots, in the queue at most once, and used up once it is shown
\* (strawPool.poll in addStrawItemToQueue is the only source of names).
NameInOnePlace ==
  /\ Injective(strawPool)
  /\ \A i, j \in 1..Len(strawQueue) :
       strawQueue[i].name = strawQueue[j].name /\ strawQueue[i].name # NoName => i = j
  /\ \A r, o \in Holding :
       item[r].name = item[o].name /\ item[r].name # NoName => r = o
  /\ PoolNames \cap (HeldNames \cup QueuedNames \cup ShownNames) = {}
  /\ HeldNames \cap (QueuedNames \cup ShownNames) = {}
  /\ QueuedNames \cap ShownNames = {}

NamelessBale ==
  \/ \E i \in 1..Len(strawQueue) : strawQueue[i].name = NoName
  \/ \E r \in Holding : item[r].name = NoName
  \/ wpc = "dead" /\ ~LinkMayFail

\* A bale without a name is only ever asked for when the pool has run dry; the
\* world controller's thread dies of it (or of a failed link), never of a grass.
NamelessOnlyWhenDry == NamelessBale => strawPool = << >>

\* The grass counted as mowed was handed to the world controller, also when a
\* put threw; and as long as no two adds overlapped, none is missing.
MovedGrass == {g \in Grass : simPose[g] = Away}
MowedCount ==
  wpc # "dead" =>
    LET handed == RangeOf(grassQueue) \cup MovedGrass IN
    /\ grass \subseteq handed
    /\ ~raced /\ (\A r \in Robots : ~InAdd(r)) => handed \subseteq grass

\* Every grass in the queue is moved away, unless the world controller ends:
\* mowGrass drains the queue whatever the robots add to it meanwhile.
Halted == wpc \in {"ended", "dead"}
QueuedGrassIsMoved ==
  \A g \in Grass : g \in RangeOf(grassQueue) ~> (simPose[g] = Away \/ Halted)

\* mowGrass returns only when it finds the queue empty, which robots that add
\* as fast as it drains can prevent.  If it returns again and again, every
\* queued bale is shown and a stop signal ends the loop.
MowingKeepsEnding == []<>(wpc \notin {"mow", "mowItem"})
QueuedBaleIsShown ==
  MowingKeepsEnding =>
    /\ \A n \in Names : n \in QueuedNames ~> (n \in ShownNames \/ Halted)
    /\ stop ~> Halted

-----------------------------------------------------------------------------
(* What a user of the world controller relies on.                          *)
Promise == INSTANCE SimWorld WITH
  Users  <- Robots,
  asked  <- grassQueue,
  bales  <- strawQueue,
  free   <- PoolNames \cup HeldNames,
  halted <- Halted

\* The queues, the pool and the loop implement the world SimWorld promises.
ImplementsSimWorld == Promise!Spec

=============================================================================
