-------------------------- MODULE WorldCtrlProofs --------------------------
(***************************************************************************)
(* Theorems about WorldCtrl, for any number of robots, names and objects   *)
(* and any length of the queues.                                           *)
(***************************************************************************)
EXTENDS WorldCtrl, FiniteSetTheorems, SequenceTheorems, TLAPS

USE RobotsAssumption, ObjectsAssumption, BoundsAssumption

LEMMA InitTypeOK == Init => TypeOK
<1> SUFFICES ASSUME Init PROVE TypeOK
  OBVIOUS
<1>1. Cardinality(Names) \in Nat
  BY FS_CardinalityType
<1>2. strawPool \in Seq(Names)
  BY <1>1 DEF Init
<1>3. simPose \in [Objects -> Poses \cup {Away, Start}]
  BY DEF Init
<1>4. grassQueue \in Seq(Grass) /\ strawQueue \in Seq(StageObject)
  BY DEF Init
<1>5. /\ at \in [Robots -> {"out", "add", "hold", "stuck"}]
      /\ \A r \in Robots : at[r] = "out"
      /\ item \in [Robots -> {Idle} \cup Grass \cup StageObject]
      /\ interrupted \in [Robots -> BOOLEAN]
  BY DEF Init
<1>6. grass \subseteq Grass /\ stop \in BOOLEAN /\ wpc = "test" /\ raced \in BOOLEAN
  BY DEF Init
<1> QED
  BY <1>2, <1>3, <1>4, <1>5, <1>6 DEF TypeOK

LEMMA RobotStepType ==
  ASSUME TypeOK, NEW r \in Robots, RobotStep(r)
  PROVE  TypeOK'
<1> USE DEF TypeOK, MoveTo, Leave, PutThrows
<1>1. ASSUME NEW g \in Grass, AddGrassItemToQueue(r, g) PROVE TypeOK'
  BY <1>1 DEF AddGrassItemToQueue, Put
<1>2. ASSUME NEW g \in Grass, DropGrassItem(r, g) PROVE TypeOK'
  BY <1>2 DEF DropGrassItem, queueVars
<1>3. CASE CountGrass(r)
  BY <1>3 DEF CountGrass, queueVars, Overlaps
<1>4. ASSUME NEW p \in Poses, PollStrawName(r, p) PROVE TypeOK'
  BY <1>4 DEF PollStrawName, PooledName, PoolAfterPoll, StageObject
<1>5. CASE AddStrawItemToQueue(r)
  BY <1>5 DEF AddStrawItemToQueue, Put
<1>6. CASE DropStrawItem(r)
  BY <1>6 DEF DropStrawItem, queueVars
<1> QED
  BY <1>1, <1>2, <1>3, <1>4, <1>5, <1>6 DEF RobotStep

LEMMA WorldStepType ==
  ASSUME TypeOK, WorldStep
  PROVE  TypeOK'
<1> USE DEF TypeOK, World, queueVars, robotVars
<1>1. CASE LoopTest
  BY <1>1 DEF LoopTest
<1>2. CASE MowTest
  BY <1>2 DEF MowTest, AfterMowing
<1>3. CASE MowItem
  <2>1. Head(grassQueue) \in Objects /\ grassQueue' \in Seq(Grass)
    BY <1>3 DEF MowItem, Objects
  <2> QED
    BY <1>3, <2>1 DEF MowItem
<1>4. CASE ShowTest
  BY <1>4 DEF ShowTest
<1>5. CASE ShowItem
  <2>1. Head(strawQueue) \in StageObject /\ strawQueue' \in Seq(StageObject)
    BY <1>5 DEF ShowItem
  <2> QED
    BY <1>5, <2>1 DEF ShowItem, StageObject, Objects
<1> QED
  BY <1>1, <1>2, <1>3, <1>4, <1>5 DEF WorldStep

LEMMA NextType == TypeOK /\ [Next]_vars => TypeOK'
<1> SUFFICES ASSUME TypeOK, [Next]_vars PROVE TypeOK'
  OBVIOUS
<1>1. ASSUME NEW r \in Robots, Interrupt(r) PROVE TypeOK'
  BY <1>1 DEF Interrupt, TypeOK, queueVars
<1>2. CASE SendStopSignal
  BY <1>2 DEF SendStopSignal, TypeOK, queueVars, robotVars
<1>3. CASE UNCHANGED vars
  BY <1>3 DEF vars, TypeOK, queueVars, robotVars
<1> QED
  BY <1>1, <1>2, <1>3, RobotStepType, WorldStepType DEF Next

(***************************************************************************)
(* Every field and local keeps its type, and the world controller's thread *)
(* only polls a queue it has found non-empty: with one consumer nothing    *)
(* can take the element between isEmpty() and poll().                      *)
(***************************************************************************)
THEOREM TypeCorrect == Spec => []TypeOK
<1> QED
  BY InitTypeOK, NextType, PTL DEF Spec

-----------------------------------------------------------------------------
(* Names.                                                                  *)

LEMMA InitNames == Init => NameInOnePlace
<1> SUFFICES ASSUME Init PROVE NameInOnePlace
  OBVIOUS
<1>1. Injective(strawPool)
  BY DEF Init
<1>2. Holding = {} /\ HeldNames = {}
  BY DEF Init, Holding, HeldNames
<1>3. QueuedNames = {} /\ Len(strawQueue) = 0
  BY DEF Init, QueuedNames
<1>4. ShownNames = {}
  BY DEF Init, ShownNames, Objects
<1> QED
  BY <1>1, <1>2, <1>3, <1>4 DEF NameInOnePlace

LEMMA UnchangedNames ==
  ASSUME NameInOnePlace,
         UNCHANGED <<strawPool, strawQueue>>,
         Holding' = Holding,
         \A r \in Holding : item'[r] = item[r],
         \A n \in Names : simPose'[n] = simPose[n]
  PROVE  NameInOnePlace'
<1>1. HeldNames' = HeldNames
  BY DEF HeldNames
<1>2. QueuedNames' = QueuedNames /\ PoolNames' = PoolNames
  BY DEF QueuedNames, PoolNames
<1>3. ShownNames' = ShownNames
  BY DEF ShownNames
<1> QED
  BY <1>1, <1>2, <1>3 DEF NameInOnePlace

LEMMA PollNames ==
  ASSUME TypeOK, NameInOnePlace, NEW r \in Robots, NEW p \in Poses, PollStrawName(r, p)
  PROVE  NameInOnePlace'
<1>1. Holding' = Holding \cup {r} /\ r \notin Holding
  BY DEF PollStrawName, MoveTo, Holding, TypeOK
<1>2. /\ item'[r] = [name |-> PooledName, pose |-> p]
      /\ \A o \in Holding : item'[o] = item[o]
  BY <1>1 DEF PollStrawName, MoveTo, TypeOK, Holding
<1>3. HeldNames' = HeldNames \cup ({PooledName} \ {NoName})
  BY <1>1, <1>2 DEF HeldNames
<1>4. QueuedNames' = QueuedNames /\ ShownNames' = ShownNames /\ strawQueue' = strawQueue
  BY DEF PollStrawName, QueuedNames, ShownNames
<1>5. CASE strawPool = << >>
  <2>1. strawPool' = strawPool /\ PooledName = NoName
    BY <1>5 DEF PollStrawName, PoolAfterPoll, PooledName
  <2>2. PoolNames' = PoolNames
    BY <2>1 DEF PoolNames
  <2> QED
    BY <1>1, <1>2, <1>3, <1>4, <2>1, <2>2 DEF NameInOnePlace
<1>6. CASE strawPool # << >>
  <2>1. /\ strawPool' = Tail(strawPool)
        /\ PooledName = strawPool[1]
        /\ strawPool \in Seq(Names)
        /\ Len(strawPool) >= 1
    BY <1>6 DEF PollStrawName, PoolAfterPoll, PooledName, TypeOK
  <2>2. /\ Len(strawPool') = Len(strawPool) - 1
        /\ \A i \in 1..Len(strawPool') : strawPool'[i] = strawPool[i + 1]
    BY <2>1, HeadTailProperties
  <2>3. Injective(strawPool') /\ PooledName \notin PoolNames' /\ PoolNames' \subseteq PoolNames
    BY <2>1, <2>2 DEF NameInOnePlace, Injective, PoolNames, RangeOf
  <2>4. PooledName \in PoolNames
    BY <2>1 DEF PoolNames, RangeOf
  <2>5. \A o \in Holding : item[o].name # PooledName
    <3>1. PooledName # NoName
      BY <2>1
    <3>2. PooledName \notin HeldNames
      BY <2>4 DEF NameInOnePlace
    <3> QED
      BY <3>1, <3>2 DEF HeldNames
  <2> QED
    BY <1>1, <1>2, <1>3, <1>4, <2>1, <2>3, <2>4, <2>5 DEF NameInOnePlace
<1> QED
  BY <1>5, <1>6

LEMMA AddStrawNames ==
  ASSUME TypeOK, NameInOnePlace, NEW r \in Robots, AddStrawItemToQueue(r)
  PROVE  NameInOnePlace'
<1> DEFINE n == item[r].name
<1>1. Holding' = Holding \ {r} /\ r \in Holding
  BY DEF AddStrawItemToQueue, Leave, MoveTo, Holding, TypeOK
<1>2. \A o \in Holding' : item'[o] = item[o]
  BY <1>1 DEF AddStrawItemToQueue, Leave, MoveTo, TypeOK, Holding
<1>3. HeldNames' = HeldNames \ {n}
  BY <1>1, <1>2 DEF HeldNames, NameInOnePlace
<1>4. /\ strawQueue \in Seq(StageObject) /\ item[r] \in StageObject
      /\ strawQueue' = Append(strawQueue, item[r])
  BY <1>1 DEF TypeOK, Holding, AddStrawItemToQueue, Put
<1>5. /\ Len(strawQueue') = Len(strawQueue) + 1
      /\ strawQueue'[Len(strawQueue) + 1] = item[r]
      /\ \A i \in 1..Len(strawQueue) : strawQueue'[i] = strawQueue[i]
  BY <1>4, AppendProperties
<1>6. QueuedNames' = QueuedNames \cup ({n} \ {NoName})
  <2>1. Len(strawQueue) \in Nat
    BY <1>4
  <2> QED
    BY <1>5, <2>1 DEF QueuedNames
<1>7. \A i \in 1..Len(strawQueue) : strawQueue[i].name = n => n = NoName
  BY <1>1 DEF NameInOnePlace, HeldNames, QueuedNames
<1>8. \A i, j \in 1..Len(strawQueue') :
        strawQueue'[i].name = strawQueue'[j].name /\ strawQueue'[i].name # NoName => i = j
  <2>1. Len(strawQueue) \in Nat
    BY <1>4
  <2> QED
    BY <1>5, <1>7, <2>1 DEF NameInOnePlace
<1>9. UNCHANGED <<strawPool, simPose>> /\ PoolNames' = PoolNames /\ ShownNames' = ShownNames
  BY DEF AddStrawItemToQueue, PoolNames, ShownNames
<1>10. n \in HeldNames \cup {NoName}
  BY <1>1 DEF HeldNames
<1>11. \A q, o \in Holding' :
         item'[q].name = item'[o].name /\ item'[q].name # NoName => q = o
  BY <1>1, <1>2 DEF NameInOnePlace
<1> HIDE DEF n
<1> QED
  BY <1>3, <1>6, <1>8, <1>9, <1>10, <1>11 DEF NameInOnePlace

LEMMA DropStrawNames ==
  ASSUME TypeOK, NameInOnePlace, NEW r \in Robots, DropStrawItem(r)
  PROVE  NameInOnePlace'
<1>1. Holding' \subseteq Holding /\ \A o \in Holding' : item'[o] = item[o]
  BY DEF DropStrawItem, Leave, MoveTo, Holding, TypeOK
<1>2. HeldNames' \subseteq HeldNames
  BY <1>1 DEF HeldNames
<1>3. UNCHANGED <<strawPool, strawQueue, simPose>>
  BY DEF DropStrawItem, queueVars
<1>4. PoolNames' = PoolNames /\ QueuedNames' = QueuedNames /\ ShownNames' = ShownNames
  BY <1>3 DEF PoolNames, QueuedNames, ShownNames
<1> QED
  BY <1>1, <1>2, <1>3, <1>4 DEF NameInOnePlace

LEMMA ShowNames ==
  ASSUME TypeOK, NameInOnePlace, ShowItem
  PROVE  NameInOnePlace'
<1> DEFINE n == Head(strawQueue).name
<1>1. /\ strawQueue \in Seq(StageObject) /\ strawQueue # << >>
      /\ strawQueue' = Tail(strawQueue)
      /\ Head(strawQueue) = strawQueue[1]
      /\ Len(strawQueue) \in Nat /\ Len(strawQueue) >= 1
  BY DEF ShowItem, TypeOK
<1>2. /\ Len(strawQueue') = Len(strawQueue) - 1
      /\ \A i \in 1..Len(strawQueue') : strawQueue'[i] = strawQueue[i + 1]
      /\ Head(strawQueue) \in StageObject
  BY <1>1, HeadTailProperties
<1>3. \A i \in 1..Len(strawQueue') : strawQueue'[i].name = n => n = NoName
  BY <1>1, <1>2 DEF NameInOnePlace
<1>4. QueuedNames' \subseteq QueuedNames \ {n}
  BY <1>1, <1>2, <1>3 DEF QueuedNames
<1>5. \A i, j \in 1..Len(strawQueue') :
        strawQueue'[i].name = strawQueue'[j].name /\ strawQueue'[i].name # NoName => i = j
  BY <1>1, <1>2 DEF NameInOnePlace
<1>6. n # NoName => n \in QueuedNames /\ n \in Names
  BY <1>1, <1>2 DEF QueuedNames, StageObject
<1>7. ShownNames' \subseteq ShownNames \cup ({n} \ {NoName})
  BY <1>6 DEF ShownNames, ShowItem, TypeOK, Objects
<1>8. UNCHANGED <<strawPool, at, item>>
  BY DEF ShowItem, robotVars
<1>9. PoolNames' = PoolNames /\ Holding' = Holding /\ HeldNames' = HeldNames
  BY <1>8 DEF PoolNames, Holding, HeldNames
<1> HIDE DEF n
<1> QED
  BY <1>4, <1>5, <1>6, <1>7, <1>8, <1>9 DEF NameInOnePlace

LEMMA NextNames == TypeOK /\ NameInOnePlace /\ [Next]_vars => NameInOnePlace'
<1> SUFFICES ASSUME TypeOK, NameInOnePlace, [Next]_vars PROVE NameInOnePlace'
  OBVIOUS
<1>1. ASSUME NEW r \in Robots, RobotStep(r) PROVE NameInOnePlace'
  <2> USE DEF MoveTo, Leave, Holding, TypeOK
  <2>1. ASSUME NEW g \in Grass, AddGrassItemToQueue(r, g) PROVE NameInOnePlace'
    BY <2>1, UnchangedNames DEF AddGrassItemToQueue
  <2>2. ASSUME NEW g \in Grass, DropGrassItem(r, g) PROVE NameInOnePlace'
    BY <2>2, UnchangedNames DEF DropGrassItem, queueVars
  <2>3. CASE CountGrass(r)
    BY <2>3, UnchangedNames DEF CountGrass, queueVars
  <2> QED
    BY <1>1, <2>1, <2>2, <2>3, PollNames, AddStrawNames, DropStrawNames DEF RobotStep
<1>2. ASSUME NEW r \in Robots, Interrupt(r) PROVE NameInOnePlace'
  BY <1>2, UnchangedNames DEF Interrupt, queueVars, Holding
<1>3. CASE SendStopSignal
  BY <1>3, UnchangedNames DEF SendStopSignal, queueVars, robotVars, Holding
<1>4. CASE WorldStep
  <2>1. CASE LoopTest
    BY <2>1, UnchangedNames DEF LoopTest, queueVars, robotVars, Holding
  <2>2. CASE MowTest
    BY <2>2, UnchangedNames DEF MowTest, queueVars, robotVars, Holding
  <2>3. CASE MowItem
    <3>1. Head(grassQueue) \notin Names
      BY <2>3 DEF MowItem, TypeOK
    <3>2. \A n \in Names : simPose'[n] = simPose[n]
      BY <2>3, <3>1 DEF MowItem, TypeOK, Objects
    <3> QED
      BY <2>3, <3>2, UnchangedNames DEF MowItem, robotVars, Holding
  <2>4. CASE ShowTest
    BY <2>4, UnchangedNames DEF ShowTest, queueVars, robotVars, Holding
  <2> QED
    BY <1>4, <2>1, <2>2, <2>3, <2>4, ShowNames DEF WorldStep
<1>5. CASE UNCHANGED vars
  BY <1>5, UnchangedNames DEF vars, queueVars, robotVars, Holding
<1> QED
  BY <1>1, <1>2, <1>3, <1>4, <1>5 DEF Next

(***************************************************************************)
(* A bale's name is in one place at a time, however the robots' calls and  *)
(* the drain interleave.  The invariant is inductive together with the     *)
(* types: a name leaves the pool into one robot's hands, goes from there   *)
(* to the queue, and from the queue to the simulator.                      *)
(***************************************************************************)
THEOREM NamesNeverShared == Spec => []NameInOnePlace
<1> QED
  BY InitNames, NextNames, TypeCorrect, PTL DEF Spec

-----------------------------------------------------------------------------
(* The dry pool.                                                           *)

LEMMA NextDry == TypeOK /\ NamelessOnlyWhenDry /\ [Next]_vars => NamelessOnlyWhenDry'
<1> SUFFICES ASSUME TypeOK, NamelessOnlyWhenDry, [Next]_vars, NamelessBale'
             PROVE  strawPool' = << >>
  BY DEF NamelessOnlyWhenDry
<1> USE DEF NamelessOnlyWhenDry
<1>1. ASSUME NEW r \in Robots, RobotStep(r) PROVE strawPool' = << >>
  <2> USE DEF MoveTo, Leave, Holding, TypeOK, NamelessBale
  <2>1. ASSUME NEW g \in Grass, AddGrassItemToQueue(r, g) PROVE strawPool' = << >>
    BY <1>1, <2>1 DEF AddGrassItemToQueue
  <2>2. ASSUME NEW g \in Grass, DropGrassItem(r, g) PROVE strawPool' = << >>
    BY <1>1, <2>2 DEF DropGrassItem, queueVars
  <2>3. CASE CountGrass(r)
    BY <1>1, <2>3 DEF CountGrass, queueVars
  <2>4. ASSUME NEW p \in Poses, PollStrawName(r, p) PROVE strawPool' = << >>
    <3>1. CASE strawPool = << >>
      BY <2>4, <3>1 DEF PollStrawName, PoolAfterPoll
    <3>2. CASE strawPool # << >>
      <4>1. item'[r].name # NoName
        BY <2>4, <3>2 DEF PollStrawName, PooledName
      <4>2. UNCHANGED <<strawQueue, wpc>> /\ \A o \in Robots \ {r} : at'[o] = at[o] /\ item'[o] = item[o]
        BY <2>4 DEF PollStrawName
      <4>3. NamelessBale
        BY <1>1, <4>1, <4>2
      <4> QED
        BY <3>2, <4>3
    <3> QED
      BY <3>1, <3>2
  <2>5. CASE AddStrawItemToQueue(r)
    <3>1. /\ at[r] = "hold" /\ item[r] \in StageObject /\ strawQueue \in Seq(StageObject)
          /\ strawQueue' = Append(strawQueue, item[r])
          /\ UNCHANGED <<strawPool, wpc>>
      BY <2>5 DEF AddStrawItemToQueue, Put
    <3>2. /\ Len(strawQueue') = Len(strawQueue) + 1
          /\ strawQueue'[Len(strawQueue) + 1] = item[r]
          /\ \A i \in 1..Len(strawQueue) : strawQueue'[i] = strawQueue[i]
      BY <3>1, AppendProperties
    <3>3. (\E i \in 1..Len(strawQueue') : strawQueue'[i].name = NoName) => NamelessBale
      BY <3>1, <3>2
    <3>4. (\E o \in Holding' : item'[o].name = NoName) => NamelessBale
      BY <2>5 DEF AddStrawItemToQueue
    <3> QED
      BY <3>1, <3>3, <3>4
  <2>6. CASE DropStrawItem(r)
    BY <1>1, <2>6 DEF DropStrawItem, queueVars
  <2> QED
    BY <1>1, <2>1, <2>2, <2>3, <2>4, <2>5, <2>6 DEF RobotStep
<1>2. ASSUME NEW r \in Robots, Interrupt(r) PROVE strawPool' = << >>
  BY <1>2 DEF Interrupt, queueVars, NamelessBale, Holding
<1>3. CASE SendStopSignal
  BY <1>3 DEF SendStopSignal, queueVars, robotVars, NamelessBale, Holding
<1>4. CASE LoopTest \/ MowTest \/ ShowTest
  BY <1>4 DEF LoopTest, MowTest, ShowTest, AfterMowing, World, queueVars, robotVars,
              NamelessBale, Holding
<1>5. CASE MowItem
  BY <1>5 DEF MowItem, robotVars, NamelessBale, Holding
<1>6. CASE ShowItem
  <2>1. /\ strawQueue \in Seq(StageObject) /\ strawQueue # << >>
        /\ strawQueue' = Tail(strawQueue)
        /\ Head(strawQueue) = strawQueue[1]
        /\ Len(strawQueue) \in Nat /\ Len(strawQueue) >= 1
    BY <1>6 DEF ShowItem, TypeOK
  <2>2. /\ Len(strawQueue') = Len(strawQueue) - 1
        /\ \A i \in 1..Len(strawQueue') : strawQueue'[i] = strawQueue[i + 1]
    BY <2>1, HeadTailProperties
  <2>3. (\E i \in 1..Len(strawQueue') : strawQueue'[i].name = NoName) => NamelessBale
    BY <2>1, <2>2 DEF NamelessBale
  <2>4. wpc' = "dead" /\ ~LinkMayFail => NamelessBale
    BY <1>6, <2>1 DEF ShowItem, NamelessBale
  <2>5. UNCHANGED <<strawPool, at, item>>
    BY <1>6 DEF ShowItem, robotVars
  <2> QED
    BY <2>3, <2>4, <2>5 DEF NamelessBale, Holding
<1>7. CASE UNCHANGED vars
  BY <1>7 DEF vars, queueVars, robotVars, NamelessBale, Holding
<1> QED
  BY <1>1, <1>2, <1>3, <1>4, <1>5, <1>6, <1>7 DEF Next, WorldStep

(***************************************************************************)
(* A bale goes without a name only when the pool has run dry, and without  *)
(* a failing link the world controller's thread dies of nothing else: a    *)
(* dry pool stays dry, because nothing puts a name back.                   *)
(***************************************************************************)
THEOREM BalesNamelessOnlyWhenDry == Spec => []NamelessOnlyWhenDry
<1>1. Init => NamelessOnlyWhenDry
  BY DEF Init, NamelessOnlyWhenDry, NamelessBale, Holding
<1> QED
  BY <1>1, NextDry, TypeCorrect, PTL DEF Spec

-----------------------------------------------------------------------------
(* The count of mowed grass.                                               *)

Handed == RangeOf(grassQueue) \cup MovedGrass
Adding == {r \in Robots : at[r] = "add"}

(* What the count relies on while the world controller lives: whoever is   *)
(* about to count a grass has handed it over; nobody is stuck unless two   *)
(* adds overlapped; and what is not counted yet is about to be.            *)
CountInv ==
  wpc # "dead" =>
    /\ grass \subseteq Handed
    /\ \A r \in Adding : item[r] \in Handed
    /\ ~raced => /\ \A r \in Robots : at[r] # "stuck"
                 /\ Handed \subseteq grass \cup {item[r] : r \in Adding}

LEMMA CountInvImplies == CountInv => MowedCount
  BY DEF CountInv, MowedCount, Handed, Adding, InAdd

LEMMA UnchangedCount ==
  ASSUME CountInv, wpc' # "dead" => wpc # "dead",
         UNCHANGED <<grass, raced>>, Handed' = Handed, Adding' = Adding,
         \A r \in Adding : item'[r] = item[r],
         \A r \in Robots : at'[r] = "stuck" => at[r] = "stuck"
  PROVE  CountInv'
  BY DEF CountInv

LEMMA NextCount == TypeOK /\ CountInv /\ [Next]_vars => CountInv'
<1> SUFFICES ASSUME TypeOK, CountInv, [Next]_vars PROVE CountInv'
  OBVIOUS
<1> USE DEF Adding
<1>1. ASSUME NEW r \in Robots, RobotStep(r) PROVE CountInv'
  <2> USE DEF MoveTo, Leave
  <2>1. ASSUME NEW g \in Grass, AddGrassItemToQueue(r, g) PROVE CountInv'
    <3>1. grassQueue' = Append(grassQueue, g) /\ grassQueue \in Seq(Grass)
      BY <2>1 DEF AddGrassItemToQueue, Put, TypeOK
    <3>2. /\ Len(grassQueue') = Len(grassQueue) + 1
          /\ grassQueue'[Len(grassQueue) + 1] = g
          /\ \A i \in 1..Len(grassQueue) : grassQueue'[i] = grassQueue[i]
          /\ Len(grassQueue) \in Nat
      BY <3>1, AppendProperties
    <3>3. RangeOf(grassQueue') = RangeOf(grassQueue) \cup {g}
      BY <3>2 DEF RangeOf
    <3>4. Handed' = Handed \cup {g}
      BY <2>1, <3>3 DEF Handed, MovedGrass, AddGrassItemToQueue
    <3>5. /\ Adding' = Adding \cup {r} /\ item'[r] = g
          /\ \A o \in Adding : item'[o] = item[o]
          /\ \A o \in Robots : at'[o] = "stuck" => at[o] = "stuck"
      BY <2>1 DEF AddGrassItemToQueue, TypeOK
    <3>6. UNCHANGED <<grass, raced, wpc>>
      BY <2>1 DEF AddGrassItemToQueue
    <3> QED
      BY <3>4, <3>5, <3>6 DEF CountInv
  <2>2. ASSUME NEW g \in Grass, DropGrassItem(r, g) PROVE CountInv'
    BY <2>2, UnchangedCount DEF DropGrassItem, queueVars, Handed, MovedGrass
  <2>3. CASE CountGrass(r)
    <3>1. Handed' = Handed /\ wpc' = wpc
      BY <2>3 DEF CountGrass, queueVars, Handed, MovedGrass
    <3>2. /\ r \in Adding /\ Adding' = Adding \ {r}
          /\ \A o \in Adding \ {r} : item'[o] = item[o]
      BY <2>3 DEF CountGrass, TypeOK
    <3>3. grass' \subseteq grass \cup {item[r]} /\ grass \subseteq grass'
      BY <2>3 DEF CountGrass
    <3>4. ~raced' => /\ ~raced /\ grass' = grass \cup {item[r]}
                     /\ \A o \in Robots : at'[o] = "stuck" => at[o] = "stuck"
      BY <2>3 DEF CountGrass, TypeOK
    <3> HIDE DEF Adding
    <3> QED
      BY <3>1, <3>2, <3>3, <3>4 DEF CountInv
  <2>4. ASSUME NEW p \in Poses, PollStrawName(r, p) PROVE CountInv'
    BY <2>4, UnchangedCount DEF PollStrawName, Handed, MovedGrass, TypeOK
  <2>5. CASE AddStrawItemToQueue(r)
    BY <2>5, UnchangedCount DEF AddStrawItemToQueue, Handed, MovedGrass, TypeOK
  <2>6. CASE DropStrawItem(r)
    BY <2>6, UnchangedCount DEF DropStrawItem, queueVars, Handed, MovedGrass, TypeOK
  <2> QED
    BY <1>1, <2>1, <2>2, <2>3, <2>4, <2>5, <2>6 DEF RobotStep
<1>2. ASSUME NEW r \in Robots, Interrupt(r) PROVE CountInv'
  BY <1>2, UnchangedCount DEF Interrupt, queueVars, Handed, MovedGrass
<1>3. CASE SendStopSignal
  BY <1>3, UnchangedCount DEF SendStopSignal, queueVars, robotVars, Handed, MovedGrass
<1>4. CASE LoopTest \/ MowTest \/ ShowTest
  BY <1>4, UnchangedCount DEF LoopTest, MowTest, ShowTest, World, queueVars, robotVars,
                              Handed, MovedGrass
<1>5. CASE MowItem
  <2>1. wpc' = "dead" => CountInv'
    BY DEF CountInv
  <2>2. ASSUME wpc' # "dead" PROVE CountInv'
    <3> DEFINE g == Head(grassQueue)
    <3>1. /\ grassQueue \in Seq(Grass) /\ grassQueue # << >>
          /\ grassQueue' = Tail(grassQueue) /\ g = grassQueue[1]
          /\ Len(grassQueue) \in Nat /\ Len(grassQueue) >= 1
      BY <1>5 DEF MowItem, TypeOK
    <3>2. /\ Len(grassQueue') = Len(grassQueue) - 1
          /\ \A i \in 1..Len(grassQueue') : grassQueue'[i] = grassQueue[i + 1]
          /\ g \in Grass
      BY <3>1, HeadTailProperties
    <3>3. RangeOf(grassQueue) = RangeOf(grassQueue') \cup {g}
      <4>1. RangeOf(grassQueue) \subseteq RangeOf(grassQueue') \cup {g}
        <5> SUFFICES ASSUME NEW i \in 1..Len(grassQueue), i # 1
                     PROVE  grassQueue[i] \in RangeOf(grassQueue')
          BY <3>1 DEF RangeOf
        <5>1. i - 1 \in 1..Len(grassQueue') /\ grassQueue'[i - 1] = grassQueue[i]
          BY <3>1, <3>2
        <5> QED
          BY <5>1 DEF RangeOf
      <4>2. RangeOf(grassQueue') \subseteq RangeOf(grassQueue)
        BY <3>1, <3>2 DEF RangeOf
      <4>3. g \in RangeOf(grassQueue)
        <5>1. 1 \in 1..Len(grassQueue) /\ g = grassQueue[1]
          BY <3>1
        <5> QED
          BY <5>1 DEF RangeOf
      <4> HIDE DEF g
      <4> QED
        BY <4>1, <4>2, <4>3
    <3>4. MovedGrass' = MovedGrass \cup {g}
      BY <1>5, <2>2, <3>2 DEF MowItem, MovedGrass, TypeOK, Objects
    <3>5. Handed' = Handed
      BY <3>3, <3>4 DEF Handed
    <3>6. UNCHANGED <<grass, raced, at, item>> /\ wpc # "dead"
      BY <1>5 DEF MowItem, robotVars
    <3> QED
      BY <3>5, <3>6, UnchangedCount
  <2> QED
    BY <2>1, <2>2
<1>6. CASE ShowItem
  <2>1. Head(strawQueue) \in StageObject
    BY <1>6 DEF ShowItem, TypeOK
  <2>2. \A g \in Grass : simPose'[g] = simPose[g]
    BY <1>6, <2>1 DEF ShowItem, TypeOK, StageObject, Objects
  <2>3. UNCHANGED <<grassQueue, grass, raced, at, item>> /\ wpc # "dead"
    BY <1>6 DEF ShowItem, robotVars
  <2>4. Handed' = Handed
    BY <2>2, <2>3 DEF Handed, MovedGrass
  <2> QED
    BY <2>3, <2>4, UnchangedCount
<1>7. CASE UNCHANGED vars
  BY <1>7, UnchangedCount DEF vars, queueVars, robotVars, Handed, MovedGrass
<1> QED
  BY <1>1, <1>2, <1>3, <1>4, <1>5, <1>6, <1>7 DEF Next, WorldStep

(***************************************************************************)
(* The set of mowed grass holds nothing that was not handed to the world   *)
(* controller, and misses nothing as long as no two calls of the           *)
(* unprotected grass.add overlapped.                                       *)
(***************************************************************************)
THEOREM MowedIsCounted == Spec => []MowedCount
<1>1. Init => CountInv
  BY DEF Init, CountInv, Handed, Adding, RangeOf, MovedGrass, Objects
<1>2. CountInv => MowedCount
  BY CountInvImplies
<1> QED
  BY <1>1, <1>2, NextCount, TypeCorrect, PTL DEF Spec

-----------------------------------------------------------------------------
(* The abstract world.                                                     *)

free == PoolNames \cup HeldNames

\* Fewer names than robots are free when a robot holds a bale without one.
LEMMA FewNamesLeft ==
  ASSUME TypeOK, NamelessOnlyWhenDry, NEW r \in Robots,
         at[r] = "hold", item[r].name = NoName
  PROVE  Cardinality(free) < Cardinality(Robots)
<1>1. strawPool = << >>
  BY DEF NamelessOnlyWhenDry, NamelessBale, Holding
<1>2. free = HeldNames
  BY <1>1 DEF free, PoolNames, RangeOf
<1> DEFINE Others == Robots \ {r}
           holder == [n \in HeldNames |-> CHOOSE o \in Holding : item[o].name = n]
<1>3. \A n \in HeldNames : holder[n] \in Others /\ item[holder[n]].name = n
  <2> SUFFICES ASSUME NEW n \in HeldNames
               PROVE  holder[n] \in Others /\ item[holder[n]].name = n
    OBVIOUS
  <2>1. n # NoName /\ \E o \in Holding : item[o].name = n
    BY DEF HeldNames
  <2>2. holder[n] \in Holding /\ item[holder[n]].name = n
    BY <2>1
  <2> HIDE DEF holder
  <2> QED
    BY <2>1, <2>2 DEF Holding
<1>4. holder \in Injection(HeldNames, Others)
  <2>1. holder \in [HeldNames -> Others]
    BY <1>3
  <2>2. \A m, n \in HeldNames : holder[m] = holder[n] => m = n
    BY <1>3
  <2> HIDE DEF holder
  <2> QED
    BY <2>1, <2>2 DEF Injection, IsInjective
<1>5. /\ IsFiniteSet(Others)
      /\ Cardinality(Others) = Cardinality(Robots) - 1
      /\ Cardinality(Robots) \in Nat
  BY FS_RemoveElement, FS_CardinalityType
<1> HIDE DEF holder, Others
<1>6. /\ IsFiniteSet(HeldNames)
      /\ Cardinality(HeldNames) <= Cardinality(Others)
  BY <1>4, <1>5, FS_Injection
<1>7. Cardinality(HeldNames) \in Nat
  BY <1>6, FS_CardinalityType
<1> QED
  BY <1>2, <1>5, <1>6, <1>7

LEMMA PollKeepsFree ==
  ASSUME TypeOK, NEW r \in Robots, NEW p \in Poses, PollStrawName(r, p)
  PROVE  free' = free
<1>1. Holding' = Holding \cup {r} /\ r \notin Holding
  BY DEF PollStrawName, MoveTo, Holding, TypeOK
<1>2. /\ item'[r] = [name |-> PooledName, pose |-> p]
      /\ \A o \in Holding : item'[o] = item[o]
  BY <1>1 DEF PollStrawName, MoveTo, TypeOK, Holding
<1>3. HeldNames' = HeldNames \cup ({PooledName} \ {NoName})
  BY <1>1, <1>2 DEF HeldNames
<1>4. CASE strawPool = << >>
  BY <1>3, <1>4 DEF PollStrawName, PoolAfterPoll, PooledName, free, PoolNames
<1>5. CASE strawPool # << >>
  <2>1. /\ strawPool' = Tail(strawPool)
        /\ PooledName = strawPool[1]
        /\ strawPool \in Seq(Names)
        /\ Len(strawPool) >= 1 /\ Len(strawPool) \in Nat
    BY <1>5 DEF PollStrawName, PoolAfterPoll, PooledName, TypeOK
  <2>2. /\ Len(strawPool') = Len(strawPool) - 1
        /\ \A i \in 1..Len(strawPool') : strawPool'[i] = strawPool[i + 1]
    BY <2>1, HeadTailProperties
  <2>3. PooledName # NoName
    BY <2>1
  <2>4. PoolNames \subseteq PoolNames' \cup {PooledName}
    <3> SUFFICES ASSUME NEW i \in 1..Len(strawPool), i # 1
                 PROVE  strawPool[i] \in PoolNames'
      BY <2>1 DEF PoolNames, RangeOf
    <3>1. i - 1 \in 1..Len(strawPool') /\ strawPool'[i - 1] = strawPool[i]
      BY <2>1, <2>2
    <3> QED
      BY <3>1 DEF PoolNames, RangeOf
  <2>5. PoolNames' \subseteq PoolNames
    BY <2>1, <2>2 DEF PoolNames, RangeOf
  <2>6. PooledName \in PoolNames
    <3>1. 1 \in 1..Len(strawPool)
      BY <2>1
    <3> QED
      BY <2>1, <3>1 DEF PoolNames, RangeOf
  <2> QED
    BY <1>3, <2>3, <2>4, <2>5, <2>6 DEF free
<1> QED
  BY <1>4, <1>5

LEMMA AddIsAskForBale ==
  ASSUME TypeOK, NameInOnePlace, NamelessOnlyWhenDry,
         NEW r \in Robots, AddStrawItemToQueue(r)
  PROVE  \E n \in Names \cup {NoName}, p \in Poses : Promise!AskForBale(n, p)
<1>0. Promise!Cardinality(free) = Cardinality(free) /\ Promise!Cardinality(Robots) = Cardinality(Robots)
  BY Zenon DEF Promise!Cardinality, Cardinality
<1> DEFINE n == item[r].name
           p == item[r].pose
<1>1. r \in Holding /\ Holding' = Holding \ {r}
  BY DEF AddStrawItemToQueue, Leave, MoveTo, Holding, TypeOK
<1>2. item[r] = [name |-> n, pose |-> p] /\ n \in Names \cup {NoName} /\ p \in Poses
  BY <1>1 DEF TypeOK, Holding, StageObject
<1>3. \A o \in Holding' : item'[o] = item[o]
  BY <1>1 DEF AddStrawItemToQueue, Leave, MoveTo, TypeOK, Holding
<1>4. HeldNames' = HeldNames \ {n}
  BY <1>1, <1>3 DEF HeldNames, NameInOnePlace
<1>5. n \notin PoolNames /\ (n # NoName => n \in HeldNames)
  <2>1. n # NoName => n \in HeldNames
    BY <1>1 DEF HeldNames
  <2>2. NoName \notin PoolNames
    BY DEF PoolNames, RangeOf, TypeOK
  <2> QED
    BY <2>1, <2>2 DEF NameInOnePlace
<1>6. UNCHANGED <<grassQueue, strawPool, simPose, wpc>> /\ strawQueue' = Append(strawQueue, item[r])
  BY DEF AddStrawItemToQueue, Put
<1>7. free' = free \ {n}
  BY <1>4, <1>5, <1>6 DEF free, PoolNames
<1>8. n = NoName => Cardinality(free) < Cardinality(Robots)
  BY <1>1, FewNamesLeft DEF Holding
<1> HIDE DEF n, p
<1> QED
  BY <1>0, <1>2, <1>5, <1>6, <1>7, <1>8 DEF Promise!AskForBale, free, Halted

LEMMA SimWorldStep ==
  ASSUME TypeOK, NameInOnePlace, NamelessOnlyWhenDry, [Next]_vars
  PROVE  [Promise!Next]_(Promise!vars)
<1> USE DEF Promise!Next, Promise!vars
<1>1. ASSUME NEW r \in Robots, RobotStep(r) PROVE [Promise!Next]_(Promise!vars)
  <2> USE DEF MoveTo, Leave
  <2>1. ASSUME NEW g \in Grass, AddGrassItemToQueue(r, g) PROVE Promise!AskForMowing(g)
    <3>1. HeldNames' = HeldNames /\ PoolNames' = PoolNames
      BY <2>1 DEF AddGrassItemToQueue, HeldNames, Holding, PoolNames, TypeOK
    <3> QED
      BY <2>1, <3>1 DEF AddGrassItemToQueue, Put, Promise!AskForMowing, Halted
  <2>2. ASSUME NEW g \in Grass, DropGrassItem(r, g) PROVE UNCHANGED Promise!vars
    BY <2>2 DEF DropGrassItem, queueVars, HeldNames, Holding, PoolNames, Halted
  <2>3. CASE CountGrass(r)
    <3>1. Holding' = Holding /\ \A o \in Holding : item'[o] = item[o]
      BY <2>3 DEF CountGrass, Holding, TypeOK
    <3>2. HeldNames' = HeldNames
      BY <3>1 DEF HeldNames
    <3> QED
      BY <2>3, <3>2 DEF CountGrass, queueVars, PoolNames, Halted
  <2>4. ASSUME NEW p \in Poses, PollStrawName(r, p) PROVE UNCHANGED Promise!vars
    BY <2>4, PollKeepsFree DEF PollStrawName, Halted, free
  <2>5. CASE AddStrawItemToQueue(r)
    BY <2>5, AddIsAskForBale
  <2>6. CASE DropStrawItem(r)
    <3> DEFINE n == item[r].name
    <3>1. r \in Holding /\ Holding' = Holding \ {r} /\ n \in Names \cup {NoName}
      BY <2>6 DEF DropStrawItem, Holding, TypeOK, StageObject
    <3>2. \A o \in Holding' : item'[o] = item[o]
      BY <2>6, <3>1 DEF DropStrawItem, TypeOK, Holding
    <3>3. HeldNames' = HeldNames \ {n}
      BY <3>1, <3>2 DEF HeldNames, NameInOnePlace
    <3>4. UNCHANGED <<grassQueue, strawQueue, strawPool, simPose, wpc>>
      BY <2>6 DEF DropStrawItem, queueVars
    <3>5. n # NoName => n \in HeldNames /\ n \notin PoolNames
      BY <3>1 DEF HeldNames, NameInOnePlace
    <3>6. NoName \notin HeldNames
      BY DEF HeldNames
    <3> HIDE DEF n
    <3>7. CASE n = NoName
      BY <3>3, <3>4, <3>6, <3>7 DEF PoolNames, Halted
    <3>8. CASE n # NoName
      BY <3>1, <3>3, <3>4, <3>5, <3>8 DEF Promise!LoseName, PoolNames, Halted
    <3> QED
      BY <3>7, <3>8
  <2> QED
    BY <1>1, <2>1, <2>2, <2>3, <2>4, <2>5, <2>6 DEF RobotStep
<1>2. ASSUME NEW r \in Robots, Interrupt(r) PROVE UNCHANGED Promise!vars
  BY <1>2 DEF Interrupt, queueVars, HeldNames, Holding, PoolNames, Halted
<1>3. CASE SendStopSignal
  BY <1>3 DEF SendStopSignal, queueVars, robotVars, HeldNames, Holding, PoolNames, Halted
<1>4. CASE LoopTest
  <2>1. UNCHANGED <<grassQueue, strawQueue, simPose, PoolNames, HeldNames>>
    BY <1>4 DEF LoopTest, queueVars, robotVars, HeldNames, Holding, PoolNames
  <2> QED
    BY <1>4, <2>1 DEF LoopTest, World, Halted, Promise!Halt
<1>5. CASE MowTest \/ ShowTest
  <2>1. UNCHANGED <<grassQueue, strawQueue, simPose, PoolNames, HeldNames>>
    BY <1>5 DEF MowTest, ShowTest, queueVars, robotVars, HeldNames, Holding, PoolNames
  <2> QED
    BY <1>5, <2>1 DEF MowTest, ShowTest, AfterMowing, World, Halted
<1>6. CASE MowItem
  <2>1. UNCHANGED <<strawQueue, PoolNames, HeldNames>>
    BY <1>6 DEF MowItem, robotVars, HeldNames, Holding, PoolNames
  <2>2. grassQueue # << >> /\ ~Halted
    BY <1>6 DEF MowItem, TypeOK, Halted
  <2> QED
    BY <1>6, <2>1, <2>2 DEF MowItem, Halted, Promise!Halt, Promise!Mow
<1>7. CASE ShowItem
  <2>1. UNCHANGED <<grassQueue, PoolNames, HeldNames>>
    BY <1>7 DEF ShowItem, robotVars, HeldNames, Holding, PoolNames
  <2>2. strawQueue # << >> /\ ~Halted
    BY <1>7 DEF ShowItem, TypeOK, Halted
  <2>3. Head(strawQueue).name # NoName => simPose[Head(strawQueue).name] = Start
    <3>1. Head(strawQueue) = strawQueue[1] /\ 1 \in 1..Len(strawQueue)
          /\ strawQueue[1] \in StageObject
      BY <2>2 DEF TypeOK
    <3> QED
      BY <3>1 DEF NameInOnePlace, QueuedNames, ShownNames, StageObject
  <2> QED
    BY <1>7, <2>1, <2>2, <2>3 DEF ShowItem, Halted, Promise!Halt, Promise!ShowBale
<1>8. CASE UNCHANGED vars
  BY <1>8 DEF vars, queueVars, robotVars, HeldNames, Holding, PoolNames, Halted
<1> QED
  BY <1>1, <1>2, <1>3, <1>4, <1>5, <1>6, <1>7, <1>8 DEF Next, WorldStep

(***************************************************************************)
(* The queues, the pool and the drain loop implement the world SimWorld    *)
(* promises: requests are applied in order and at most once, every bale's  *)
(* name is new, and a bale goes without one only when fewer names than     *)
(* robots are left.                                                        *)
(***************************************************************************)
THEOREM SimWorldImplemented == Spec => ImplementsSimWorld
<1>1. Init => Promise!Init
  BY DEF Init, Promise!Init, PoolNames, HeldNames, Holding, Halted, Objects
<1>2. /\ TypeOK /\ NameInOnePlace /\ NamelessOnlyWhenDry
      /\ [Next]_vars
      => [Promise!Next]_(Promise!vars)
  BY SimWorldStep
<1> QED
  BY <1>1, <1>2, TypeCorrect, NamesNeverShared, BalesNamelessOnlyWhenDry, PTL
     DEF Spec, Promise!Spec, ImplementsSimWorld
=============================================================================
