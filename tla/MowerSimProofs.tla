--------------------------- MODULE MowerSimProofs ---------------------------
(***************************************************************************)
(* Theorems about MowerSim, for any number of mowers and objects, whatever *)
(* the sensors report and the generator draws.                             *)
(***************************************************************************)
EXTENDS MowerSim, WorldCtrlProofs

Drive == [speed : Int, course : Int]
Range3 == [front : Int, left : Int, right : Int]
Cache(V) == [id : Int, value : {Null} \cup V]

Brain ==
  [tick : {0, 1}, range : Range3, blob : {Null} \cup Int,
   crop : {Null} \cup SUBSET Grass, load : SUBSET Grass, wander : Int,
   pos : Cache(Drive), grass : Cache(SUBSET Grass), straw : Cache({"placeStraw"})]

Phases == {"sense", "mow", "bale", "put", "tick", "dead"}

MowerTypeOK ==
  /\ brain \in [Robots -> Brain]
  /\ phase \in [Robots -> Phases]
  /\ todo \in [Robots -> SUBSET Grass]
  /\ cmd \in [Robots -> {Null} \cup Drive]
  /\ fresh \in [Robots -> SUBSET Grass]
  /\ walked \in [Robots -> 0..2]

(* Which outputs carry this round's tick: none while the mower senses, all *)
(* when it has driven and looked at its load.                              *)
Asked(r) ==
  LET b == brain[r] IN
  /\ phase[r] = "sense" => b.pos.id # b.tick /\ b.grass.id # b.tick
  /\ phase[r] \in {"sense", "mow"} => b.straw.id # b.tick
  /\ Driving(r) => b.pos.id = b.tick /\ b.grass.id = b.tick
  /\ phase[r] \in {"bale", "put", "tick"} => b.straw.id = b.tick

(* What is loaded and not baled is handed over or about to be.             *)
Backed(r) ==
  /\ phase[r] # "mow" => todo[r] = {}
  /\ IsFiniteSet(fresh[r])
  /\ phase[r] \in {"bale", "put"} => brain[r].load = {}
  /\ brain[r].load \subseteq fresh[r] \cup todo[r]

(* What the properties say of one mower.                                   *)
Reacts(r) ==
  Driving(r) => IF Blocked(brain[r].range) THEN AvoidsObstacles(cmd[r], brain[r].range)
                ELSE SeeksGrass(cmd[r], brain[r].blob)
OneMind(r) ==
  /\ walked[r] <= 1
  /\ Driving(r) /\ cmd[r].speed = WanderSpeed => cmd[r].course = brain[r].wander
Loaded(r) == phase[r] = "bale" => Cardinality(fresh[r]) >= MaxLoad

MowerOK(r) == Asked(r) /\ Backed(r) /\ Loaded(r) /\ Reacts(r) /\ OneMind(r)

MowerInv == MowerTypeOK /\ \A r \in Robots : MowerOK(r)

LEMMA MowerInvImplies == MowerInv => BaleBacked /\ ReactsToSenses /\ OneDrawPerRound
  BY DEF MowerInv, MowerOK, Loaded, Reacts, OneMind, BaleBacked, ReactsToSenses, OneDrawPerRound

-----------------------------------------------------------------------------
(* The behaviours.                                                         *)

LEMMA NullIsNoDrive == Null \notin Drive
  BY NullAssumption DEF Drive

\* What the network answers without the wander behaviour.
LEMMA ReflexType ==
  ASSUME NEW b \in Brain
  PROVE  Reflex(b) \in {Null} \cup Drive
<1>1. b.range \in Range3 /\ b.blob \in {Null} \cup Int
  BY DEF Brain
<1>2. Avoid(b.range) \in {Null} \cup Drive
  BY <1>1 DEF Avoid, Drive, Range3, MaxCourse, AvoidSpeed
<1>3. Follow(b.blob) \in {Null} \cup Drive
  BY <1>1 DEF Follow, Drive, FollowSpeed
<1> QED
  BY <1>2, <1>3 DEF Reflex, Subsumption

LEMMA ReflexAvoids ==
  ASSUME NEW b \in Brain, Blocked(b.range)
  PROVE  Reflex(b) # Null /\ AvoidsObstacles(Reflex(b), b.range)
<1>1. b.range \in Range3
  BY DEF Brain
<1>2. Avoid(b.range) \in Drive /\ AvoidsObstacles(Avoid(b.range), b.range)
  BY <1>1 DEF Avoid, Blocked, AvoidsObstacles, LeftFree, RightFree, FrontDist, SideDist,
              AvoidSpeed, MaxCourse, Range3, Drive
<1>3. Reflex(b) = Avoid(b.range)
  BY <1>2, NullIsNoDrive DEF Reflex, Subsumption
<1> QED
  BY <1>2, <1>3, NullIsNoDrive

LEMMA ReflexFollows ==
  ASSUME NEW b \in Brain, ~Blocked(b.range)
  PROVE  Reflex(b) = Follow(b.blob)
<1>1. Avoid(b.range) = Null
  BY DEF Avoid, Blocked
<1> QED
  BY <1>1 DEF Reflex, Subsumption

\* The first question of a round computes, and draws only when nothing else
\* has an answer.
LEMMA FirstAsk ==
  ASSUME NEW b \in Brain, NEW d \in Int, b.pos.id # b.tick
  PROVE  LET a == AskPosition(b, d) IN
         /\ a \in Brain
         /\ a = [b EXCEPT !.wander = a.wander, !.pos = a.pos]
         /\ a.pos.id = b.tick
         /\ a.pos.value \in Drive
         /\ a.pos.value = IF Reflex(b) # Null THEN Reflex(b)
                          ELSE [speed |-> WanderSpeed, course |-> a.wander]
<1> DEFINE a == AskPosition(b, d)
<1>1. ~Cached(b.pos, b.tick)
  BY DEF Cached
<1>2. b.tick \in Int /\ b.wander \in Int
  BY DEF Brain
<1>3. CASE Reflex(b) # Null
  <2> DEFINE p == Answer(b.tick, Reflex(b))
  <2>1. a = [b EXCEPT !.pos = p]
    BY <1>1, <1>3 DEF AskPosition
  <2>2. p \in Cache(Drive) /\ p.id = b.tick /\ p.value = Reflex(b) /\ Reflex(b) \in Drive
    BY <1>2, <1>3, ReflexType DEF Answer, Cache
  <2> HIDE DEF p, a
  <2>3. a.pos = p /\ a.wander = b.wander /\ a \in Brain
    BY <2>1, <2>2 DEF Brain
  <2>4. a = [b EXCEPT !.wander = a.wander, !.pos = a.pos]
    BY <2>1, <2>3 DEF Brain
  <2> QED
    BY <1>3, <2>2, <2>3, <2>4 DEF a
<1>4. CASE Reflex(b) = Null
  <2> DEFINE w == WanderStep(b, d)
             v == [speed |-> WanderSpeed, course |-> w]
             p == Answer(b.tick, v)
  <2>1. a = [b EXCEPT !.wander = w, !.pos = p]
    BY <1>1, <1>4 DEF AskPosition
  <2>2. w \in Int
    BY <1>2 DEF WanderStep, Limit, MaxCourse
  <2> HIDE DEF w
  <2>3. v \in Drive
    BY <2>2 DEF Drive, WanderSpeed
  <2>4. p \in Cache(Drive) /\ p.id = b.tick /\ p.value = v
    BY <1>2, <2>3 DEF Answer, Cache
  <2> HIDE DEF p, a
  <2>5. a.pos = p /\ a.wander = w /\ a \in Brain
    BY <2>1, <2>2, <2>4 DEF Brain
  <2>6. a = [b EXCEPT !.wander = a.wander, !.pos = a.pos]
    BY <2>1, <2>5
  <2> QED
    BY <1>4, <2>3, <2>4, <2>5, <2>6 DEF a
<1> QED
  BY <1>3, <1>4

\* The second one finds the answer in the cache.
LEMMA SecondAsk ==
  ASSUME NEW b, NEW d, b.pos.id = b.tick, b.pos.value \in Drive
  PROVE  AskPosition(b, d) = b
  BY NullIsNoDrive DEF AskPosition, Cached

\* MowGrassBehavior answers the crop it adds to the load.
LEMMA GrassAsked ==
  ASSUME NEW b \in Brain, b.grass.id # b.tick
  PROVE  LET a == AskGrass(b)
             items == IF a.grass.value = Null THEN {} ELSE a.grass.value
         IN  /\ a \in Brain
             /\ a = [b EXCEPT !.grass = a.grass, !.load = a.load]
             /\ a.grass.id = b.tick
             /\ items \in SUBSET Grass
             /\ a.load = b.load \cup items
<1> DEFINE a == AskGrass(b)
           items == IF a.grass.value = Null THEN {} ELSE a.grass.value
<1>1. ~Cached(b.grass, b.tick) /\ b.tick \in Int
  BY DEF Cached, Brain
<1>2. CASE b.crop = Null \/ b.crop = {}
  <2> DEFINE g == Answer(b.tick, Null)
  <2>1. a = [b EXCEPT !.grass = g]
    BY <1>1, <1>2 DEF AskGrass
  <2>2. g \in Cache(SUBSET Grass) /\ g.id = b.tick /\ g.value = Null
    BY <1>1 DEF Answer, Cache
  <2> HIDE DEF g, a
  <2>3. a.grass = g /\ a.load = b.load /\ a \in Brain
    BY <2>1, <2>2 DEF Brain
  <2>4. a = [b EXCEPT !.grass = a.grass, !.load = a.load]
    BY <2>1, <2>3 DEF Brain
  <2>5. items = {}
    BY <2>2, <2>3
  <2> HIDE DEF items
  <2> QED
    BY <2>2, <2>3, <2>4, <2>5 DEF a, items
<1>3. CASE b.crop # Null /\ b.crop # {}
  <2> DEFINE g == Answer(b.tick, b.crop)
             l == b.load \cup b.crop
  <2>1. a = [b EXCEPT !.grass = g, !.load = l]
    BY <1>1, <1>3 DEF AskGrass
  <2>2. b.crop \in SUBSET Grass /\ b.load \in SUBSET Grass
    BY <1>3 DEF Brain
  <2>3. g \in Cache(SUBSET Grass) /\ g.id = b.tick /\ g.value = b.crop
    BY <1>1, <2>2 DEF Answer, Cache
  <2>4. l \in SUBSET Grass
    BY <2>2
  <2> HIDE DEF g, a
  <2>5. a.grass = g /\ a.load = l /\ a \in Brain
    BY <2>1, <2>3, <2>4 DEF Brain
  <2>6. a = [b EXCEPT !.grass = a.grass, !.load = a.load]
    BY <2>1, <2>5
  <2>7. items = b.crop
    BY <1>3, <2>3, <2>5
  <2> HIDE DEF items
  <2> QED
    BY <2>2, <2>3, <2>5, <2>6, <2>7 DEF a, items
<1> QED
  BY <1>2, <1>3

\* CreateStrawBehavior empties a load that is full, and no other.
LEMMA StrawAsked ==
  ASSUME NEW b \in Brain, b.straw.id # b.tick
  PROVE  LET a == AskStraw(b)
         IN  /\ a \in Brain
             /\ a = [b EXCEPT !.straw = a.straw, !.load = a.load]
             /\ a.straw.id = b.tick
             /\ a.load \subseteq b.load
             /\ a.straw.value # Null => Full(b.load) /\ a.load = {}
<1> DEFINE a == AskStraw(b)
<1>1. ~Cached(b.straw, b.tick) /\ b.tick \in Int
  BY DEF Cached, Brain
<1>2. CASE Full(b.load)
  <2> DEFINE s == Answer(b.tick, "placeStraw")
  <2>1. a = [b EXCEPT !.straw = s, !.load = {}]
    BY <1>1, <1>2 DEF AskStraw
  <2>2. s \in Cache({"placeStraw"}) /\ s.id = b.tick
    BY <1>1 DEF Answer, Cache
  <2> HIDE DEF s, a
  <2>3. a.straw = s /\ a.load = {} /\ a \in Brain
    BY <2>1, <2>2 DEF Brain
  <2>4. a = [b EXCEPT !.straw = a.straw, !.load = a.load]
    BY <2>1, <2>3
  <2> QED
    BY <1>2, <2>2, <2>3, <2>4 DEF a
<1>3. CASE ~Full(b.load)
  <2> DEFINE s == Answer(b.tick, Null)
  <2>1. a = [b EXCEPT !.straw = s]
    BY <1>1, <1>3 DEF AskStraw
  <2>2. s \in Cache({"placeStraw"}) /\ s.id = b.tick /\ s.value = Null
    BY <1>1 DEF Answer, Cache
  <2> HIDE DEF s, a
  <2>3. a.straw = s /\ a.load = b.load /\ a \in Brain
    BY <2>1, <2>2 DEF Brain
  <2>4. a = [b EXCEPT !.straw = a.straw, !.load = a.load]
    BY <2>1, <2>3 DEF Brain
  <2> QED
    BY <2>2, <2>3, <2>4 DEF a
<1> QED
  BY <1>2, <1>3

-----------------------------------------------------------------------------
(* The steps of a mower.                                                   *)

OnlyMoves(r) ==
  \A o \in Robots \ {r} :
    /\ brain'[o] = brain[o] /\ phase'[o] = phase[o] /\ todo'[o] = todo[o]
    /\ cmd'[o] = cmd[o] /\ fresh'[o] = fresh[o] /\ walked'[o] = walked[o]

LEMMA OneMowerMoves ==
  ASSUME MowerInv, NEW r \in Robots, OnlyMoves(r), MowerTypeOK', MowerOK(r)'
  PROVE  MowerInv'
<1> SUFFICES ASSUME NEW o \in Robots \ {r} PROVE MowerOK(o)'
  BY DEF MowerInv
<1> QED
  BY DEF MowerInv, MowerOK, OnlyMoves, Asked, Backed, Loaded, Reacts, OneMind, Driving

LEMMA SenseKeeps ==
  ASSUME MowerInv, NEW r \in Robots, Sense(r)
  PROVE  MowerInv'
<1>1. PICK b \in Sensed(brain[r]), d1, d2 \in Deltas :
        LET first  == AskPosition(b, d1)
            second == AskPosition(first, d2)
            mowing == AskGrass(AskPosition(second, d2))
        IN /\ cmd' = [cmd EXCEPT ![r] = [speed |-> first.pos.value.speed,
                                         course |-> second.pos.value.course]]
           /\ brain' = [brain EXCEPT ![r] = mowing]
           /\ todo' = [todo EXCEPT ![r] =
                         IF mowing.grass.value = Null THEN {} ELSE mowing.grass.value]
           /\ walked' = [walked EXCEPT ![r] =
                           (IF first.wander # b.wander THEN 1 ELSE 0)
                           + (IF mowing.wander # first.wander THEN 1 ELSE 0)]
  <2>1. PICK b \in Sensed(brain[r]), d1, d2 \in Deltas :
          \E first \in {AskPosition(b, d1)} : \E second \in {AskPosition(first, d2)} :
            \E mowing \in {AskGrass(AskPosition(second, d2))} :
              SetOut(r, b, first, second, mowing)
    BY DEF Sense
  <2>2. SetOut(r, b, AskPosition(b, d1), AskPosition(AskPosition(b, d1), d2),
               AskGrass(AskPosition(AskPosition(AskPosition(b, d1), d2), d2)))
    BY <2>1
  <2> WITNESS b \in Sensed(brain[r]), d1 \in Deltas, d2 \in Deltas
  <2> QED
    BY <2>2 DEF SetOut
<1>2. /\ phase[r] = "sense" /\ phase' = [phase EXCEPT ![r] = "mow"] /\ fresh' = fresh
      /\ MowerTypeOK /\ MowerOK(r)
      /\ d1 \in Int
  BY SensesAssumption DEF Sense, MowerInv
<1> DEFINE old == brain[r]
           first == AskPosition(b, d1)
           mowing == AskGrass(first)
           items == IF mowing.grass.value = Null THEN {} ELSE mowing.grass.value
<1>3. /\ b \in Brain /\ b.pos = old.pos /\ b.grass = old.grass /\ b.straw = old.straw
      /\ b.tick = old.tick /\ b.load = old.load /\ b.wander = old.wander
  <2>1. old \in Brain
    BY <1>2 DEF MowerTypeOK
  <2>2. PICK n \in Ranges \cup {old.range}, c \in Blobs \cup {old.blob},
             f \in (SUBSET Standing) \cup {old.crop} : b = With(old, n, c, f)
    BY DEF Sensed
  <2>3. n \in Range3 /\ c \in {Null} \cup Int /\ f \in {Null} \cup SUBSET Grass
    BY <2>1, SensesAssumption DEF Brain, Range3, Standing
  <2> HIDE DEF old
  <2> QED
    BY <2>1, <2>2, <2>3 DEF Brain, With
<1>4. /\ first \in Brain
      /\ first.tick = b.tick /\ first.range = b.range /\ first.blob = b.blob
      /\ first.load = b.load /\ first.grass = b.grass /\ first.straw = b.straw
      /\ first.pos.id = b.tick
      /\ first.pos.value \in Drive
      /\ first.pos.value = IF Reflex(b) # Null THEN Reflex(b)
                           ELSE [speed |-> WanderSpeed, course |-> first.wander]
  <2>1. b.pos.id # b.tick
    BY <1>2, <1>3 DEF MowerOK, Asked
  <2>2. /\ first \in Brain
        /\ first = [b EXCEPT !.wander = first.wander, !.pos = first.pos]
        /\ first.pos.id = b.tick
        /\ first.pos.value \in Drive
        /\ first.pos.value = IF Reflex(b) # Null THEN Reflex(b)
                             ELSE [speed |-> WanderSpeed, course |-> first.wander]
    BY <1>2, <1>3, <2>1, FirstAsk
  <2> HIDE DEF first
  <2> QED
    BY <1>3, <2>2 DEF Brain
<1>5. \A d : AskPosition(first, d) = first
  BY <1>4, SecondAsk
<1>6. /\ mowing \in Brain
      /\ mowing.tick = b.tick /\ mowing.range = b.range /\ mowing.blob = b.blob
      /\ mowing.straw = b.straw /\ mowing.pos = first.pos /\ mowing.wander = first.wander
      /\ mowing.grass.id = b.tick
      /\ items \in SUBSET Grass
      /\ mowing.load = b.load \cup items
  <2>1. first.grass.id # first.tick
    BY <1>2, <1>3, <1>4 DEF MowerOK, Asked
  <2>2. /\ mowing \in Brain
        /\ mowing = [first EXCEPT !.grass = mowing.grass, !.load = mowing.load]
        /\ mowing.grass.id = first.tick
        /\ items \in SUBSET Grass
        /\ mowing.load = first.load \cup items
    BY <1>4, <2>1, GrassAsked
  <2> HIDE DEF first, mowing, items
  <2> QED
    BY <1>4, <2>2 DEF Brain
<1> DEFINE c == first.pos.value
<1>7. /\ cmd' = [cmd EXCEPT ![r] = c]
      /\ brain' = [brain EXCEPT ![r] = mowing]
      /\ todo' = [todo EXCEPT ![r] = items]
      /\ walked' = [walked EXCEPT ![r] = IF first.wander # b.wander THEN 1 ELSE 0]
  <2>1. c = [speed |-> c.speed, course |-> c.course]
    BY <1>4 DEF Drive
  <2>2. mowing.wander = first.wander /\ AskPosition(first, d2) = first
    BY <1>5, <1>6
  <2>3. AskPosition(AskPosition(first, d2), d2) = first
    BY <2>2
  <2>4. /\ cmd' = [cmd EXCEPT ![r] = [speed |-> c.speed, course |-> c.course]]
        /\ brain' = [brain EXCEPT ![r] = mowing]
        /\ todo' = [todo EXCEPT ![r] = items]
        /\ walked' = [walked EXCEPT ![r] =
                        (IF first.wander # b.wander THEN 1 ELSE 0)
                        + (IF mowing.wander # first.wander THEN 1 ELSE 0)]
    BY <1>1, <2>2, <2>3, Zenon
  <2> HIDE DEF first, mowing, items, c
  <2>5. (IF first.wander # b.wander THEN 1 ELSE 0)
          + (IF mowing.wander # first.wander THEN 1 ELSE 0)
        = IF first.wander # b.wander THEN 1 ELSE 0
    BY <2>2
  <2> QED
    BY <2>1, <2>4, <2>5
<1> HIDE DEF first, mowing, items, c
<1>8. c = IF Reflex(b) # Null THEN Reflex(b)
          ELSE [speed |-> WanderSpeed, course |-> mowing.wander]
  BY <1>4, <1>6 DEF c
<1>9. /\ cmd'[r] = c /\ brain'[r] = mowing /\ todo'[r] = items /\ phase'[r] = "mow"
      /\ walked'[r] \in {0, 1} /\ fresh'[r] = fresh[r]
  BY <1>2, <1>7 DEF MowerTypeOK
<1>10. OnlyMoves(r)
  BY <1>2, <1>7 DEF OnlyMoves, MowerTypeOK
<1>11. MowerTypeOK'
  BY <1>2, <1>4, <1>6, <1>7 DEF MowerTypeOK, Phases, c
<1>12. Asked(r)'
  BY <1>2, <1>3, <1>4, <1>6, <1>9 DEF Asked, MowerOK
<1>13. Backed(r)' /\ Loaded(r)'
  BY <1>2, <1>3, <1>6, <1>9 DEF Backed, Loaded, MowerOK
<1>14. Reacts(r)'
  <2>1. CASE Blocked(b.range)
    BY <1>3, <1>6, <1>8, <1>9, <2>1, ReflexAvoids DEF Reacts
  <2>2. CASE ~Blocked(b.range) /\ b.blob = Null
    <3>1. Reflex(b) = Null
      BY <1>3, <2>2, ReflexFollows DEF Follow
    <3> QED
      BY <1>6, <1>8, <1>9, <2>2, <3>1 DEF Reacts, SeeksGrass
  <2>3. CASE ~Blocked(b.range) /\ b.blob # Null
    <3>1. Reflex(b) = [speed |-> FollowSpeed, course |-> b.blob] /\ Reflex(b) # Null
      <4>1. b.blob \in Int /\ [speed |-> FollowSpeed, course |-> b.blob] \in Drive
        BY <1>3, <2>3 DEF Brain, Drive, FollowSpeed
      <4> QED
        BY <1>3, <2>3, <4>1, ReflexFollows, NullIsNoDrive DEF Follow
    <3> QED
      BY <1>6, <1>8, <1>9, <2>3, <3>1 DEF Reacts, SeeksGrass
  <2> QED
    BY <2>1, <2>2, <2>3
<1>15. OneMind(r)'
  <2>1. Reflex(b) # Null => Reflex(b).speed # WanderSpeed
    <3>1. b.range \in Range3
      BY <1>3 DEF Brain
    <3>2. Avoid(b.range) # Null => Avoid(b.range).speed # WanderSpeed
      BY <3>1 DEF Avoid, AvoidSpeed, WanderSpeed
    <3>3. Follow(b.blob) # Null => Follow(b.blob).speed # WanderSpeed
      BY DEF Follow, FollowSpeed, WanderSpeed
    <3> QED
      BY <3>2, <3>3 DEF Reflex, Subsumption
  <2>2. c.speed = WanderSpeed => c.course = mowing.wander
    BY <1>8, <2>1
  <2> QED
    BY <1>9, <2>2 DEF OneMind
<1> QED
  BY <1>10, <1>11, <1>12, <1>13, <1>14, <1>15, OneMowerMoves DEF MowerOK

LEMMA MowKeeps ==
  ASSUME MowerInv, NEW r \in Robots, Mow(r)
  PROVE  MowerInv'
<1>1. PICK g \in todo[r] : /\ fresh' = [fresh EXCEPT ![r] = @ \cup {g}]
                           /\ todo' = [todo EXCEPT ![r] = @ \ {g}]
  BY DEF Mow
<1>2. phase[r] = "mow" /\ UNCHANGED <<brain, phase, cmd, walked>> /\ MowerTypeOK /\ MowerOK(r)
  BY DEF Mow, MowerInv
<1>3. /\ todo'[r] = todo[r] \ {g} /\ fresh'[r] = fresh[r] \cup {g} /\ g \in Grass
      /\ OnlyMoves(r) /\ MowerTypeOK'
  BY <1>1, <1>2 DEF MowerTypeOK, OnlyMoves
<1>4. IsFiniteSet(fresh'[r])
  BY <1>2, <1>3, FS_AddElement DEF MowerOK, Backed
<1>5. MowerOK(r)'
  BY <1>2, <1>3, <1>4 DEF MowerOK, Asked, Backed, Loaded, Reacts, OneMind, Driving
<1> QED
  BY <1>3, <1>5, OneMowerMoves

LEMMA CheckLoadKeeps ==
  ASSUME MowerInv, NEW r \in Robots, CheckLoad(r)
  PROVE  MowerInv'
<1> DEFINE old == brain[r]
           b == AskStraw(old)
           next == IF b.straw.value # Null THEN "bale" ELSE "tick"
<1>1. /\ phase[r] = "mow" /\ todo[r] = {} /\ UNCHANGED <<todo, cmd, fresh, walked>>
      /\ brain' = [brain EXCEPT ![r] = b] /\ phase' = [phase EXCEPT ![r] = next]
      /\ MowerTypeOK /\ MowerOK(r)
  BY DEF CheckLoad, MowerInv
<1>2. old \in Brain /\ old.straw.id # old.tick
  BY <1>1 DEF MowerTypeOK, MowerOK, Asked
<1>3. /\ b \in Brain
      /\ b = [old EXCEPT !.straw = b.straw, !.load = b.load]
      /\ b.straw.id = old.tick
      /\ b.load \subseteq old.load
      /\ b.straw.value # Null => Full(old.load) /\ b.load = {}
  BY <1>2, StrawAsked
<1> HIDE DEF b, old
<1>4. /\ b.tick = old.tick /\ b.range = old.range /\ b.blob = old.blob /\ b.wander = old.wander
      /\ b.pos = old.pos /\ b.grass = old.grass
  BY <1>2, <1>3 DEF Brain
<1>5. next = "bale" => Full(old.load) /\ b.load = {}
  BY <1>3
<1>6. next \in {"bale", "tick"}
  OBVIOUS
<1> HIDE DEF next
<1>7. brain'[r] = b /\ phase'[r] = next /\ OnlyMoves(r) /\ MowerTypeOK'
  BY <1>1, <1>3, <1>6 DEF MowerTypeOK, OnlyMoves, Phases
<1>8. Asked(r)'
  BY <1>1, <1>3, <1>4, <1>6, <1>7 DEF MowerOK, Asked, Driving, old
<1>9. Backed(r)'
  BY <1>1, <1>3, <1>5, <1>6, <1>7 DEF MowerOK, Backed, old
<1>10. Loaded(r)'
  <2> SUFFICES ASSUME next = "bale" PROVE Cardinality(fresh[r]) >= MaxLoad
    BY <1>1, <1>7 DEF Loaded
  <2>1. old.load \in SUBSET fresh[r] /\ IsFiniteSet(fresh[r])
    BY <1>1 DEF MowerOK, Backed, old
  <2>2. /\ IsFiniteSet(old.load)
        /\ Cardinality(old.load) <= Cardinality(fresh[r])
    BY <2>1, FS_Subset
  <2>3. Cardinality(old.load) \in Nat /\ Cardinality(fresh[r]) \in Nat
    BY <2>1, <2>2, FS_CardinalityType
  <2> QED
    BY <1>5, <2>2, <2>3, LoadAssumption DEF Full
<1>11. Reacts(r)' /\ OneMind(r)'
  BY <1>1, <1>4, <1>7 DEF MowerOK, Reacts, OneMind, Driving, old
<1> QED
  BY <1>7, <1>8, <1>9, <1>10, <1>11, OneMowerMoves DEF MowerOK

LEMMA BaleKeeps ==
  ASSUME MowerInv, NEW r \in Robots, AskForBale(r) \/ PutBale(r)
  PROVE  MowerInv'
<1>1. MowerTypeOK /\ MowerOK(r) /\ phase[r] \in {"bale", "put"}
  BY DEF MowerInv, AskForBale, PutBale
<1>2. /\ UNCHANGED <<brain, todo, cmd, walked>>
      /\ fresh' \in {fresh, [fresh EXCEPT ![r] = {}]}
      /\ \E to \in {"put", "tick"} : phase' = [phase EXCEPT ![r] = to]
  BY DEF AskForBale, PutBale
<1>3. phase'[r] \in {"put", "tick"} /\ fresh'[r] \in {fresh[r], {}}
  BY <1>1, <1>2 DEF MowerTypeOK
<1>4. OnlyMoves(r) /\ MowerTypeOK'
  BY <1>1, <1>2 DEF MowerTypeOK, OnlyMoves, Phases
<1>5. MowerOK(r)'
  BY <1>1, <1>2, <1>3, FS_EmptySet DEF MowerOK, Asked, Backed, Loaded, Reacts, OneMind, Driving
<1> QED
  BY <1>4, <1>5, OneMowerMoves

LEMMA EndRoundKeeps ==
  ASSUME MowerInv, NEW r \in Robots, EndRound(r)
  PROVE  MowerInv'
<1> DEFINE old == brain[r]
           b == Tick(old)
<1>1. /\ phase[r] = "tick" /\ phase' = [phase EXCEPT ![r] = "sense"]
      /\ brain' = [brain EXCEPT ![r] = b]
      /\ UNCHANGED <<todo, cmd, fresh, walked>>
      /\ MowerTypeOK /\ MowerOK(r)
  BY DEF EndRound, MowerInv
<1>2. old \in Brain
  BY <1>1 DEF MowerTypeOK
<1>3. NextTick(old.tick) \in {0, 1} /\ NextTick(old.tick) # old.tick
  BY <1>2 DEF Brain, NextTick
<1>4. b = [old EXCEPT !.tick = NextTick(old.tick)]
  BY DEF Tick
<1> HIDE DEF b, old
<1>5. /\ b \in Brain /\ b.tick # old.tick
      /\ b.pos = old.pos /\ b.grass = old.grass /\ b.straw = old.straw /\ b.load = old.load
  BY <1>2, <1>3, <1>4 DEF Brain
<1>6. brain'[r] = b /\ phase'[r] = "sense" /\ OnlyMoves(r) /\ MowerTypeOK'
  BY <1>1, <1>5 DEF MowerTypeOK, OnlyMoves, Phases
<1>7. Asked(r)'
  BY <1>1, <1>5, <1>6 DEF MowerOK, Asked, Driving, old
<1>8. Backed(r)' /\ Loaded(r)' /\ Reacts(r)' /\ OneMind(r)'
  BY <1>1, <1>5, <1>6 DEF MowerOK, Backed, Loaded, Reacts, OneMind, Driving, old
<1> QED
  BY <1>6, <1>7, <1>8, OneMowerMoves DEF MowerOK

LEMMA SpeedFailsKeeps ==
  ASSUME MowerInv, NEW r \in Robots, SpeedFails(r)
  PROVE  MowerInv'
<1>1. /\ phase[r] = "sense" /\ phase' = [phase EXCEPT ![r] = "dead"]
      /\ UNCHANGED <<brain, todo, cmd, fresh, walked>>
      /\ MowerTypeOK /\ MowerOK(r)
  BY DEF SpeedFails, MowerInv
<1>2. phase'[r] = "dead" /\ OnlyMoves(r) /\ MowerTypeOK'
  BY <1>1 DEF MowerTypeOK, OnlyMoves, Phases
<1>3. MowerOK(r)'
  BY <1>1, <1>2 DEF MowerOK, Asked, Backed, Loaded, Reacts, OneMind, Driving
<1> QED
  BY <1>2, <1>3, OneMowerMoves

LEMMA MowerInvKept == MowerInv /\ [SimNext]_simVars => MowerInv'
<1> SUFFICES ASSUME MowerInv, [SimNext]_simVars PROVE MowerInv'
  OBVIOUS
<1>1. UNCHANGED mowerVars => MowerInv'
  BY DEF mowerVars, MowerInv, MowerTypeOK, MowerOK, Asked, Backed, Loaded, Reacts, OneMind, Driving
<1> QED
  BY <1>1, SenseKeeps, SpeedFailsKeeps, MowKeeps, CheckLoadKeeps, BaleKeeps, EndRoundKeeps
     DEF SimNext, MowerStep, MowReturns, simVars

LEMMA MowerInvHolds == SimSpec => []MowerInv
<1>1. SimInit => MowerInv
  <2> SUFFICES ASSUME SimInit PROVE MowerInv
    OBVIOUS
  <2>1. /\ NewBrain \in Brain /\ NewBrain.load = {} /\ NewBrain.tick = 0
        /\ NewBrain.pos.id = -1 /\ NewBrain.grass.id = -1 /\ NewBrain.straw.id = -1
    BY DEF NewBrain, Brain, Range3, FarAway, NeverAsked, Cache
  <2> HIDE DEF NewBrain
  <2>2. MowerTypeOK
    BY <2>1 DEF SimInit, MowerTypeOK, Phases
  <2> QED
    BY <2>1, <2>2, FS_EmptySet
       DEF SimInit, MowerInv, MowerOK, Asked, Backed, Loaded, Reacts, OneMind, Driving
<1> QED
  BY <1>1, MowerInvKept, PTL DEF SimSpec

(***************************************************************************)
(* A mower reacts to what it senses in this round: no output of an earlier *)
(* one is taken from a cache, because the tick of a round is in no cache   *)
(* when the round begins.                                                  *)
(***************************************************************************)
THEOREM MowersReact == SimSpec => []ReactsToSenses
<1> QED
  BY MowerInvHolds, MowerInvImplies, PTL

(***************************************************************************)
(* Speed and course of a round come from one answer, which draws the       *)
(* wander course at most once.                                             *)
(***************************************************************************)
THEOREM MowersDrawOnce == SimSpec => []OneDrawPerRound
<1> QED
  BY MowerInvHolds, MowerInvImplies, PTL

(***************************************************************************)
(* A bale is asked for only when a full load of different grass was handed *)
(* over since the last one: what is loaded is handed over or still to be,  *)
(* and the load is looked at when nothing is left to hand over.            *)
(***************************************************************************)
THEOREM BalesAreBacked == SimSpec => []BaleBacked
<1> QED
  BY MowerInvHolds, MowerInvImplies, PTL

-----------------------------------------------------------------------------
(* The world controller under the mowers.                                  *)

LEMMA MowerStepIsRobotStep ==
  ASSUME MowerTypeOK, NEW r \in Robots, MowerStep(r)
  PROVE  [Next]_vars
<1> USE DEF Next, RobotStep
<1>1. CASE Sense(r) \/ SpeedFails(r) \/ CheckLoad(r) \/ EndRound(r)
  BY <1>1 DEF Sense, SpeedFails, CheckLoad, EndRound
<1>2. CASE Mow(r)
  <2>1. PICK g \in todo[r] : AddGrassItemToQueue(r, g)
    BY <1>2 DEF Mow
  <2>2. g \in Grass
    BY DEF MowerTypeOK
  <2> QED
    BY <2>1, <2>2
<1>3. CASE MowReturns(r) \/ AskForBale(r) \/ PutBale(r)
  BY <1>3 DEF MowReturns, AskForBale, PutBale
<1> QED
  BY <1>1, <1>2, <1>3 DEF MowerStep

(***************************************************************************)
(* The world controller under the mowers is WorldCtrl: whatever is proved  *)
(* of that module, for robots that may call it in any order, holds with    *)
(* the mowers and their brains.                                            *)
(***************************************************************************)
THEOREM MowersUseWorldCtrl == SimSpec => Spec
<1>1. SimInit => Init
  BY DEF SimInit
<1>2. MowerInv /\ [SimNext]_simVars => [Next]_vars
  BY MowerStepIsRobotStep DEF SimNext, MowerInv, simVars, Next
<1> QED
  BY <1>1, <1>2, MowerInvHolds, PTL DEF SimSpec, Spec

(***************************************************************************)
(* So no two mowers ever share a bale's name, and with them the queues     *)
(* still implement the world SimWorld promises.                            *)
(***************************************************************************)
THEOREM MowersShareNoName == SimSpec => []NameInOnePlace /\ ImplementsSimWorld
<1> QED
  BY MowersUseWorldCtrl, NamesNeverShared, SimWorldImplemented, PTL
=============================================================================
