------------------------ MODULE MRSOptimizerProofs ------------------------
(***************************************************************************)
(* The agents of a project are complete, and the evolution records are in  *)
(* order and tell all the program saw, for all projects, limits, steps and *)
(* fitness values and ints of any width.                                   *)
(***************************************************************************)
EXTENDS MRSOptimizer, WellFoundedInduction, TLAPS

\* What the records have to do with the variables of the loop.
RecordsKnown ==
  LET evos == database.evolutions IN
    /\ \A k \in 1..Len(evos) : evos[k].generation <= genNum
    /\ pc = "configure" => evos = <<>>
    /\ pc \in {"evolve", "record"} => database.project
    /\ pc = "evolve" /\ evos # <<>> => evos[Len(evos)].fitness = lastFitValue
    /\ pc = "record" =>
         /\ lastFitValue \in Fitness
         /\ evos # <<>> => evos[Len(evos)].fitness # lastFitValue
         /\ \A k \in 1..Len(evos) : evos[k].generation < genNum

ConfigTyped == generationsLimit \in Nat /\ generationsStep \in Nat

IInv == TypeOK /\ ConfigTyped /\ RecordsKnown /\ RecordsAscend /\ OvershootBounded

\* A record newer than all, of another fitness than the last, keeps them in order.
LEMMA AppendAscends ==
  ASSUME NEW evos \in Seq([generation : Nat, fitness : Fitness]),
         NEW evo \in [generation : Nat, fitness : Fitness],
         \A k \in 1..Len(evos) : evos[k].generation < evo.generation,
         evos # <<>> => evos[Len(evos)].fitness # evo.fitness,
         \A k \in 2..Len(evos) : /\ evos[k - 1].generation < evos[k].generation
                                 /\ evos[k - 1].fitness # evos[k].fitness
  PROVE  \A k \in 2..Len(Append(evos, evo)) :
           /\ Append(evos, evo)[k - 1].generation < Append(evos, evo)[k].generation
           /\ Append(evos, evo)[k - 1].fitness # Append(evos, evo)[k].fitness
<1> DEFINE new == Append(evos, evo)
<1>1. /\ Len(evos) \in Nat
      /\ Len(new) = Len(evos) + 1
      /\ new[Len(evos) + 1] = evo
      /\ \A k \in 1..Len(evos) : new[k] = evos[k]
  OBVIOUS
<1> SUFFICES ASSUME NEW k \in 2..Len(new)
             PROVE  new[k - 1].generation < new[k].generation
                    /\ new[k - 1].fitness # new[k].fitness
  OBVIOUS
<1>2. CASE k \in 2..Len(evos)
  BY <1>1, <1>2
<1>3. CASE k = Len(evos) + 1
  <2>1. new[k] = evo /\ new[k - 1] = evos[Len(evos)] /\ Len(evos) \in 1..Len(evos)
    BY <1>1, <1>3
  <2> QED BY <2>1
<1> QED BY <1>1, <1>2, <1>3

\* What the fields of a record are.
LEMMA RecordTyped ==
  ASSUME TypeOK
  PROVE  /\ Len(database.evolutions) \in Nat
         /\ \A k \in 1..Len(database.evolutions) :
              /\ database.evolutions[k].generation \in Nat
              /\ database.evolutions[k].fitness \in Fitness
<1> DEFINE Row == [generation : Nat, fitness : Fitness]
           evos == database.evolutions
<1>1. evos \in Seq(Row)
  BY DEF TypeOK
<1> HIDE DEF Row, evos
<1>2. Len(evos) \in Nat /\ \A k \in 1..Len(evos) : evos[k] \in Row
  BY <1>1
<1> USE DEF Row
<1>3. \A row \in Row : row.generation \in Nat /\ row.fitness \in Fitness
  OBVIOUS
<1> HIDE DEF Row
<1> QED BY <1>2, <1>3 DEF evos

\* The program starts with an empty database.
LEMMA InitIInv == Init => IInv
<1> SUFFICES ASSUME Init PROVE IInv
  OBVIOUS
<1>1. ConfigTyped
  BY OptimizerAssumption DEF Init, ConfigTyped
<1>2. database.evolutions = <<>> /\ ~database.project /\ ~database.ended
  BY DEF Init
<1>3. database \in [project : BOOLEAN, ended : BOOLEAN,
                    evolutions : Seq([generation : Nat, fitness : Fitness])]
  BY DEF Init
<1>4. TypeOK
  BY <1>1, <1>2, <1>3 DEF Init, TypeOK, ConfigTyped
<1>5. RecordsKnown /\ RecordsAscend
  BY <1>2 DEF Init, RecordsKnown, RecordsAscend
<1>6. OvershootBounded
  BY <1>1 DEF Init, OvershootBounded, ConfigTyped
<1> QED BY <1>1, <1>4, <1>5, <1>6 DEF IInv

\* Generating an agent touches no record.
LEMMA ConfigureKeeps ==
  ASSUME IInv, Configure
  PROVE  IInv'
BY DEF IInv, Configure, evolution, config, TypeOK, ConfigTyped, RecordsKnown,
       RecordsAscend, OvershootBounded

\* A transaction that leaves the records as they are keeps the invariant.
LEMMA PlainCommitKeeps ==
  ASSUME IInv, pc \in {"configure", "evolve"}, pc = "configure" => database.evolutions = <<>>,
         NEW d \in [project : BOOLEAN, ended : BOOLEAN,
                    evolutions : Seq([generation : Nat, fitness : Fitness])],
         d.evolutions = database.evolutions, d.project,
         NEW next \in {"evolve", "results"},
         Commit(d, next), UNCHANGED <<config, evolution>>
  PROVE  IInv'
<1>1. /\ database' \in {database, d}
      /\ pc' \in {"evolve", "results", "failed"}
      /\ UNCHANGED <<generationsLimit, generationsStep, genNum, step, lastFitValue>>
  BY DEF Commit, config, evolution
<1>2. database'.evolutions = database.evolutions
  BY <1>1
<1>3. TypeOK' /\ ConfigTyped'
  BY <1>1 DEF IInv, TypeOK, ConfigTyped
<1>4. RecordsKnown'
  <2>1. pc' = "evolve" => database'.project
    BY <1>1 DEF Commit
  <2>2. pc = "configure" \/ pc = "evolve"
    OBVIOUS
  <2> QED BY <1>1, <1>2, <2>1, <2>2 DEF IInv, RecordsKnown
<1>5. RecordsAscend' /\ OvershootBounded'
  BY <1>1, <1>2 DEF IInv, RecordsAscend, OvershootBounded
<1> QED BY <1>3, <1>4, <1>5 DEF IInv

\* A step of the genetic algorithm goes beyond the generations recorded.
LEMMA EvolveKeeps ==
  ASSUME IInv, Evolve
  PROVE  IInv'
<1> USE DEF IInv
<1>1. /\ genNum \in Nat /\ step \in Nat \ {0} /\ genNum' = genNum + step
      /\ genNum < generationsLimit /\ pc = "evolve"
      /\ UNCHANGED <<generationsLimit, generationsStep, database>>
  BY DEF TypeOK, ConfigTyped, Evolve, config
<1>2. PICK best \in Fitness :
        IF Changed(best)
          THEN pc' = "record" /\ lastFitValue' = best /\ UNCHANGED step
          ELSE step' = LongerStep /\ UNCHANGED <<pc, lastFitValue>>
  BY DEF Evolve
<1>3. step' \in 1..(IF generationsStep > 1 THEN generationsStep ELSE 1)
  BY <1>2 DEF LongerStep, TypeOK, ConfigTyped
<1>4. TypeOK' /\ ConfigTyped'
  BY <1>1, <1>2, <1>3 DEF TypeOK, ConfigTyped
<1>5. RecordsKnown'
  <2>1. \A k \in 1..Len(database.evolutions) : database.evolutions[k].generation < genNum'
    <3>1. \A k \in 1..Len(database.evolutions) :
            database.evolutions[k].generation \in Nat
            /\ database.evolutions[k].generation <= genNum
      BY RecordTyped DEF RecordsKnown
    <3> QED BY <1>1, <3>1
  <2>2. \A k \in 1..Len(database.evolutions) : database.evolutions[k].generation <= genNum'
    BY <1>1, <2>1, RecordTyped
  <2>3. CASE Changed(best)
    <3>1. database.evolutions # <<>> =>
            database.evolutions[Len(database.evolutions)].fitness # best
      BY <1>1, <2>3 DEF RecordsKnown, Changed
    <3> QED BY <1>1, <1>2, <2>1, <2>2, <2>3, <3>1 DEF RecordsKnown
  <2>4. CASE ~Changed(best)
    BY <1>1, <1>2, <2>2, <2>4 DEF RecordsKnown
  <2> QED BY <2>3, <2>4
<1>6. RecordsAscend'
  BY <1>1 DEF RecordsAscend
<1>7. OvershootBounded'
  BY <1>1 DEF OvershootBounded, TypeOK, ConfigTyped
<1> QED BY <1>4, <1>5, <1>6, <1>7

\* What is recorded is newer than all records and of another fitness.
LEMMA RecordKeeps ==
  ASSUME IInv, Record
  PROVE  IInv'
<1> USE DEF IInv
<1> DEFINE evos == database.evolutions
           evo == [generation |-> genNum, fitness |-> lastFitValue]
           d == [database EXCEPT !.evolutions = Append(@, evo)]
<1>1. /\ evos \in Seq([generation : Nat, fitness : Fitness])
      /\ evo \in [generation : Nat, fitness : Fitness]
      /\ genNum \in Nat /\ pc = "record"
  BY DEF Record, RecordsKnown, TypeOK
<1>2. /\ d \in [project : BOOLEAN, ended : BOOLEAN,
                evolutions : Seq([generation : Nat, fitness : Fitness])]
      /\ d.evolutions = Append(evos, evo)
      /\ d.project = database.project
  <2>1. Append(evos, evo) \in Seq([generation : Nat, fitness : Fitness])
    BY <1>1
  <2>2. database \in [project : BOOLEAN, ended : BOOLEAN,
                      evolutions : Seq([generation : Nat, fitness : Fitness])]
    BY DEF TypeOK
  <2> DEFINE With(e) == [database EXCEPT !.evolutions = e]
             Rows == Seq([generation : Nat, fitness : Fitness])
  <2> HIDE DEF Rows
  <2>3. \A e \in Rows : /\ With(e) \in [project : BOOLEAN, ended : BOOLEAN, evolutions : Rows]
                        /\ With(e).evolutions = e
                        /\ With(e).project = database.project
    BY <2>2 DEF Rows
  <2>4. d = With(Append(evos, evo)) /\ Append(evos, evo) \in Rows
    BY <2>1 DEF Rows
  <2> HIDE DEF d, With
  <2>5. /\ d \in [project : BOOLEAN, ended : BOOLEAN, evolutions : Rows]
        /\ d.evolutions = Append(evos, evo)
        /\ d.project = database.project
    BY <2>3, <2>4
  <2> QED BY <2>5 DEF Rows
<1>3. /\ \/ database' = d /\ pc' = "evolve"
         \/ database' \in {database, d} /\ pc' = "failed"
      /\ UNCHANGED <<generationsLimit, generationsStep, genNum, step, lastFitValue>>
  <2>1. Commit(d, "evolve") /\ UNCHANGED <<config, evolution>>
    BY DEF Record
  <2> HIDE DEF d
  <2> QED BY <2>1 DEF Commit, config, evolution
<1>4. d.project
  BY <1>1, <1>2 DEF RecordsKnown
<1>5. TypeOK' /\ ConfigTyped'
  BY <1>2, <1>3, <1>4 DEF TypeOK, ConfigTyped
<1>6. \A k \in 2..Len(Append(evos, evo)) :
        /\ Append(evos, evo)[k - 1].generation < Append(evos, evo)[k].generation
        /\ Append(evos, evo)[k - 1].fitness # Append(evos, evo)[k].fitness
  BY <1>1, AppendAscends DEF RecordsKnown, RecordsAscend
<1>7. RecordsAscend'
  BY <1>2, <1>3, <1>6 DEF RecordsAscend
<1>8. RecordsKnown'
  <2>1. \A k \in 1..Len(Append(evos, evo)) : Append(evos, evo)[k].generation <= genNum
    <3>1. /\ Len(evos) \in Nat
          /\ Len(Append(evos, evo)) = Len(evos) + 1
          /\ Append(evos, evo)[Len(evos) + 1] = evo
          /\ \A k \in 1..Len(evos) : Append(evos, evo)[k] = evos[k]
      BY <1>1
    <3>2. \A k \in 1..Len(evos) : evos[k].generation <= genNum
      BY DEF RecordsKnown
    <3> QED BY <1>1, <3>1, <3>2
  <2>2. Append(evos, evo)[Len(Append(evos, evo))].fitness = lastFitValue
    BY <1>1
  <2>3. \A k \in 1..Len(evos) : evos[k].generation <= genNum
    BY DEF RecordsKnown
  <2> HIDE DEF d, evo
  <2>4. CASE database' = d /\ pc' = "evolve"
    <3>1. database'.evolutions = Append(evos, evo) /\ database'.project
      BY <1>2, <1>4, <2>4
    <3> HIDE DEF evos
    <3> QED BY <1>3, <2>1, <2>2, <2>4, <3>1 DEF RecordsKnown
  <2>5. CASE database' \in {database, d} /\ pc' = "failed"
    <3>1. database'.evolutions \in {evos, Append(evos, evo)}
      BY <1>2, <2>5
    <3> HIDE DEF evos
    <3> QED BY <1>3, <2>1, <2>3, <2>5, <3>1 DEF RecordsKnown
  <2> QED BY <1>3, <2>4, <2>5
<1>9. OvershootBounded'
  BY <1>3 DEF OvershootBounded
<1> QED BY <1>5, <1>7, <1>8, <1>9

\* Every step of the program, and its being killed, keeps the invariant.
LEMMA NextKeeps == IInv /\ [Next]_vars => IInv'
<1> SUFFICES ASSUME IInv, [Next]_vars
             PROVE  IInv'
  OBVIOUS
<1>1. CASE Configure
  BY <1>1, ConfigureKeeps
<1>2. CASE StoreProject
  <2> DEFINE d == [database EXCEPT !.project = TRUE]
  <2>1. /\ d \in [project : BOOLEAN, ended : BOOLEAN,
                  evolutions : Seq([generation : Nat, fitness : Fitness])]
        /\ d.evolutions = database.evolutions
        /\ d.project
    BY DEF IInv, TypeOK
  <2>2. /\ pc = "configure" /\ database.evolutions = <<>>
        /\ Commit(d, "evolve") /\ UNCHANGED <<config, evolution>>
    BY <1>2 DEF StoreProject, IInv, RecordsKnown
  <2> HIDE DEF d
  <2> QED BY <2>1, <2>2, PlainCommitKeeps
<1>3. CASE Evolve
  BY <1>3, EvolveKeeps
<1>4. CASE Record
  BY <1>4, RecordKeeps
<1>5. CASE Finish
  <2> DEFINE d == [database EXCEPT !.ended = TRUE]
  <2>1. /\ d \in [project : BOOLEAN, ended : BOOLEAN,
                  evolutions : Seq([generation : Nat, fitness : Fitness])]
        /\ d.evolutions = database.evolutions
        /\ d.project
    BY <1>5 DEF Finish, IInv, TypeOK, RecordsKnown
  <2>2. pc = "evolve" /\ Commit(d, "results") /\ UNCHANGED <<config, evolution>>
    BY <1>5 DEF Finish
  <2> HIDE DEF d
  <2> QED BY <2>1, <2>2, PlainCommitKeeps
<1>6. CASE Killed
  BY <1>6 DEF Killed, evolution, config, IInv, TypeOK, ConfigTyped, RecordsKnown,
              RecordsAscend, OvershootBounded
<1>7. CASE UNCHANGED vars
  BY <1>7 DEF vars, evolution, config, IInv, TypeOK, ConfigTyped, RecordsKnown,
              RecordsAscend, OvershootBounded
<1> QED BY <1>1, <1>2, <1>3, <1>4, <1>5, <1>6, <1>7 DEF Next, Work

\* The invariant holds whatever the database and the genetic algorithm do.
THEOREM Invariance == Spec => []IInv
BY InitIInv, NextKeeps, PTL DEF Spec

\* Evolution records (MRSOptimizer.java:338-357) go up in generations, each with
\* another fitness than the one before, so (project, generation) is unique.
THEOREM RecordsInOrder == Spec => []RecordsAscend
<1>1. IInv => RecordsAscend
  BY DEF IInv
<1> QED BY <1>1, Invariance, PTL

\* The loop of startEvolution ends less than a longest step beyond the limit.
THEOREM LimitHardlyOvershot == Spec => []OvershootBounded
<1>1. IInv => OvershootBounded
  BY DEF IInv
<1> QED BY <1>1, Invariance, PTL
-----------------------------------------------------------------------------
(* What the records tell.                                                  *)

Row == [generation : Nat, fitness : Fitness]

LEMMA LeastOne ==
  ASSUME NEW B \in SUBSET Nat, B # {}
  PROVE  \E b \in B : \A c \in B : b <= c
<1>1. PICK b \in B : \A c \in B : <<c, b>> \notin OpToRel(<, Nat)
  BY NatLessThanWellFounded, WFMin
<1>2. \A c \in B : ~(c < b)
  BY <1>1 DEF OpToRel
<1> QED
  BY <1>2

\* The greatest number of a bounded set.
LEMMA GreatestOne ==
  ASSUME NEW n \in Nat, NEW A \in SUBSET (1..n), A # {}
  PROVE  Max(A) \in A /\ \A k \in A : k <= Max(A)
<1> DEFINE B == {n - k : k \in A}
<1>1. B # {}
  OBVIOUS
<1>2. B \in SUBSET Nat
  <2>1. \A k \in A : n - k \in Nat
    OBVIOUS
  <2> QED
    BY <2>1
<1>3. PICK b \in B : \A c \in B : b <= c
  BY <1>1, <1>2, LeastOne
<1>4. PICK m \in A : b = n - m
  OBVIOUS
<1>5. \A k \in A : m >= k
  <2> SUFFICES ASSUME NEW k \in A PROVE m >= k
    OBVIOUS
  <2>1. n - k \in B
    OBVIOUS
  <2>2. n - m <= n - k
    BY <1>3, <1>4, <2>1
  <2> QED
    BY <2>2
<1>6. \E x \in A : \A y \in A : x >= y
  BY <1>5
<1>7. Max(A) \in A /\ \A y \in A : Max(A) >= y
  BY <1>6 DEF Max
<1> QED
  BY <1>7

\* Where all records are known the last one counts.
LEMMA LastIsTold ==
  ASSUME NEW records, Len(records) \in Nat, NEW g,
         \A k \in 1..Len(records) : records[k].generation <= g
  PROVE  Told(records, g) = IF Len(records) = 0 THEN -1 ELSE records[Len(records)].fitness
<1> DEFINE n == Len(records)
           upto == {k \in 1..n : records[k].generation <= g}
<1>1. upto = 1..n
  OBVIOUS
<1>2. CASE n = 0
  BY <1>1, <1>2 DEF Told
<1>3. CASE n # 0
  <2>1. n \in 1..n /\ \A k \in 1..n : k <= n
    BY <1>3
  <2>2. Max(1..n) \in 1..n /\ \A k \in 1..n : k <= Max(1..n)
    BY <2>1, GreatestOne
  <2>3. Max(1..n) = n
    BY <2>1, <2>2
  <2>4. upto # {}
    BY <1>1, <2>1
  <2>5. Told(records, g) = records[Max(upto)].fitness
    BY <2>4 DEF Told
  <2> QED
    BY <1>1, <1>3, <2>3, <2>5
<1> QED
  BY <1>2, <1>3

\* A newer record changes nothing about what was before it.
LEMMA OldIsTold ==
  ASSUME NEW records \in Seq(Row), NEW evo \in Row, NEW g \in Nat, g < evo.generation
  PROVE  Told(Append(records, evo), g) = Told(records, g)
<1> DEFINE new == Append(records, evo)
           n == Len(records)
           A == {k \in 1..n : records[k].generation <= g}
           B == {k \in 1..Len(new) : new[k].generation <= g}
<1>1. /\ n \in Nat /\ Len(new) = n + 1
      /\ new[n + 1] = evo /\ \A k \in 1..n : new[k] = records[k]
  OBVIOUS
<1>2. evo.generation \in Nat
  BY DEF Row
<1>3. ~(new[n + 1].generation <= g)
  BY <1>1, <1>2
<1>4. A = B
  BY <1>1, <1>3
<1>5. CASE A = {}
  BY <1>4, <1>5 DEF Told
<1>6. CASE A # {}
  <2>1. Max(A) \in A
    BY <1>1, <1>6, GreatestOne
  <2>2. records[Max(A)] = new[Max(A)]
    BY <1>1, <2>1
  <2>3. Told(records, g) = records[Max(A)].fitness
    BY <1>6 DEF Told
  <2>4. Told(new, g) = new[Max(B)].fitness
    BY <1>4, <1>6 DEF Told
  <2> QED
    BY <1>4, <2>2, <2>3, <2>4
<1> QED
  BY <1>5, <1>6

\* What was looked at, and what of it is told by the records so far.
LooksKnown ==
  /\ \A k \in 1..Len(looks) : looks[k].generation <= genNum
  /\ \A k \in 1..(Len(looks) - 1) : looks[k].generation < genNum
  /\ genNum = IF looks = <<>> THEN 0 ELSE looks[Len(looks)].generation

CurveKnown ==
  /\ pc = "configure" => looks = <<>> /\ lastFitValue = -1
  /\ pc = "evolve" =>
       /\ \A k \in 1..Len(looks) : Tells(database.evolutions, looks[k])
       /\ database.evolutions = <<>> => lastFitValue = -1
  /\ pc = "record" =>
       /\ looks # <<>> /\ looks[Len(looks)].fitness = lastFitValue
       /\ \A k \in 1..(Len(looks) - 1) : Tells(database.evolutions, looks[k])

EndKnown == database.ended => pc \in {"results", "failed"}

CurveInv ==
  /\ looks \in Seq(Row)
  /\ LooksKnown /\ CurveKnown /\ EndKnown
  /\ CurveIsExact /\ EndedIsComplete

LEMMA RecordsTyped ==
  ASSUME IInv
  PROVE  /\ database.evolutions \in Seq(Row)
         /\ Len(database.evolutions) \in Nat
         /\ \A k \in 1..Len(database.evolutions) :
              database.evolutions[k].generation \in Nat /\ database.evolutions[k].generation <= genNum
         /\ genNum \in Nat /\ step \in Nat \ {0}
BY RecordTyped DEF IInv, TypeOK, ConfigTyped, RecordsKnown, Row

LEMMA LooksTyped ==
  ASSUME CurveInv
  PROVE  /\ Len(looks) \in Nat
         /\ \A k \in 1..Len(looks) : looks[k] \in Row
         /\ \A k \in 1..Len(looks) : looks[k].generation \in Nat
<1>1. Len(looks) \in Nat /\ \A k \in 1..Len(looks) : looks[k] \in Row
  BY DEF CurveInv
<1>2. \A row \in Row : row.generation \in Nat
  BY DEF Row
<1> QED
  BY <1>1, <1>2

LEMMA RowAppended ==
  ASSUME NEW rows \in Seq(Row), NEW row \in Row
  PROVE  /\ Len(Append(rows, row)) = Len(rows) + 1
         /\ Append(rows, row)[Len(rows) + 1] = row
         /\ \A k \in 1..Len(rows) : Append(rows, row)[k] = rows[k]
         /\ Append(rows, row) # <<>>
OBVIOUS

\* As long as the records and what was looked at stay the same, so does the curve.
LEMMA CurveUntouched ==
  ASSUME CurveInv, UNCHANGED evolution, UNCHANGED generationsLimit,
         database'.evolutions = database.evolutions,
         database'.ended => database.ended,
         pc' \in {pc, "failed"} \/ (pc = "configure" /\ database.evolutions = <<>>
                                    /\ lastFitValue = -1 /\ pc' = "evolve")
  PROVE  CurveInv'
<1>1. UNCHANGED <<looks, genNum, lastFitValue>>
  BY DEF evolution
<1>3. CurveAt(genNum)' = CurveAt(genNum)
  BY <1>1 DEF CurveAt
<1>4. LooksKnown'
  BY <1>1 DEF CurveInv, LooksKnown
<1>5. CurveKnown' /\ CurveIsExact'
  <2>1. CASE pc' \in {pc, "failed"}
    BY <1>1, <2>1 DEF CurveInv, CurveKnown, CurveIsExact
  <2>2. CASE pc = "configure" /\ lastFitValue = -1 /\ pc' = "evolve"
    <3>1. looks = <<>>
      BY <2>2 DEF CurveInv, CurveKnown
    <3>2. \A k \in 1..Len(looks) : FALSE
      BY <3>1
    <3> QED
      BY <1>1, <2>2, <3>1, <3>2 DEF CurveKnown, CurveIsExact
  <2> QED
    BY <2>1, <2>2
<1>6. EndKnown'
  BY DEF CurveInv, EndKnown
<1>7. EndedIsComplete'
  BY <1>1, <1>3 DEF CurveInv, EndedIsComplete, Last
<1> QED
  BY <1>1, <1>4, <1>5, <1>6, <1>7 DEF CurveInv

LEMMA EvolveKeepsCurve ==
  ASSUME IInv, CurveInv, Evolve
  PROVE  CurveInv'
<1> DEFINE evos == database.evolutions
           n == Len(looks)
<1>1. /\ pc = "evolve" /\ genNum' = genNum + step /\ UNCHANGED database
      /\ n \in Nat
  BY LooksTyped DEF Evolve
<1>2. PICK best \in Fitness :
        /\ looks' = Append(looks, [generation |-> genNum', fitness |-> best])
        /\ IF Changed(best)
             THEN pc' = "record" /\ lastFitValue' = best
             ELSE UNCHANGED <<pc, lastFitValue>>
  BY DEF Evolve
<1> DEFINE look == [generation |-> genNum', fitness |-> best]
<1>3. genNum \in Nat /\ genNum' \in Nat /\ genNum < genNum'
  BY <1>1, RecordsTyped
<1>4. look \in Row /\ look.generation = genNum' /\ look.fitness = best
  BY <1>3 DEF Row
<1> HIDE DEF look
<1>5. /\ looks' \in Seq(Row) /\ Len(looks') = n + 1 /\ looks'[n + 1] = look
      /\ \A k \in 1..n : looks'[k] = looks[k]
      /\ looks' # <<>>
  BY <1>2, <1>4 DEF CurveInv, look
<1>6. LooksKnown'
  <2>1. \A k \in 1..n : looks[k].generation < genNum'
    BY <1>3, LooksTyped DEF CurveInv, LooksKnown
  <2>2. \A k \in 1..n : looks'[k].generation < genNum'
    BY <1>5, <2>1
  <2>3. \A k \in 1..(n + 1) : looks'[k].generation <= genNum'
    <3> SUFFICES ASSUME NEW k \in 1..(n + 1) PROVE looks'[k].generation <= genNum'
      OBVIOUS
    <3>1. CASE k = n + 1
      BY <1>3, <1>4, <1>5, <3>1
    <3>2. CASE k \in 1..n
      <4>1. looks'[k].generation \in Nat
        BY <1>5, <3>2, LooksTyped
      <4> QED
        BY <1>3, <2>2, <3>2, <4>1
    <3> QED
      BY <1>1, <3>1, <3>2
  <2> QED
    BY <1>1, <1>4, <1>5, <2>2, <2>3 DEF LooksKnown
<1>7. \A k \in 1..n : Tells(evos, looks'[k])
  BY <1>1, <1>5 DEF CurveInv, CurveKnown
<1>8. CASE Changed(best)
  <2>1. CurveKnown'
    BY <1>1, <1>2, <1>4, <1>5, <1>7, <1>8 DEF CurveKnown
  <2>2. CurveIsExact'
    BY <1>1, <1>2, <1>5, <1>7, <1>8 DEF CurveIsExact
  <2> QED
    BY <1>1, <1>5, <1>6, <2>1, <2>2 DEF CurveInv, EndKnown, EndedIsComplete
<1>9. CASE ~Changed(best)
  <2>1. best = lastFitValue /\ lastFitValue # -1 /\ UNCHANGED <<pc, lastFitValue>>
    BY <1>2, <1>9, OptimizerAssumption DEF Changed
  <2>2. evos # <<>> /\ evos[Len(evos)].fitness = best
    BY <1>1, <2>1 DEF CurveInv, CurveKnown, IInv, RecordsKnown
  <2>3. Len(evos) # 0 /\ \A k \in 1..Len(evos) : evos[k].generation <= genNum'
    BY <1>3, <2>2, RecordsTyped
  <2>4. Told(evos, genNum') = best
    BY <2>2, <2>3, LastIsTold, RecordsTyped
  <2>5. Tells(evos, looks'[n + 1])
    BY <1>4, <1>5, <2>4 DEF Tells
  <2>6. \A k \in 1..Len(looks') : Tells(evos, looks'[k])
    <3>1. \A k \in 1..(n + 1) : k \in 1..n \/ k = n + 1
      BY <1>1
    <3> QED
      BY <1>5, <1>7, <2>5, <3>1
  <2>7. CurveKnown' /\ CurveIsExact'
    BY <1>1, <2>1, <2>2, <2>6 DEF CurveKnown, CurveIsExact
  <2> QED
    BY <1>1, <1>5, <1>6, <2>7 DEF CurveInv, EndKnown, EndedIsComplete
<1> QED
  BY <1>8, <1>9

LEMMA RecordKeepsCurve ==
  ASSUME IInv, CurveInv, Record
  PROVE  CurveInv'
<1> DEFINE evos == database.evolutions
           evo == [generation |-> genNum, fitness |-> lastFitValue]
           new == Append(evos, evo)
           n == Len(looks)
<1>1. /\ pc = "record" /\ ~database.ended /\ n \in Nat
      /\ UNCHANGED <<generationsLimit, genNum, lastFitValue, looks>>
  BY LooksTyped DEF Record, evolution, config, CurveInv, EndKnown
<1>2. /\ evos \in Seq(Row) /\ evo \in Row /\ genNum \in Nat
      /\ Len(evos) \in Nat /\ \A k \in 1..Len(evos) : evos[k].generation <= genNum
  BY <1>1, RecordsTyped DEF IInv, RecordsKnown, Row
<1>3. evo.generation = genNum /\ evo.fitness = lastFitValue
  OBVIOUS
<1>4. /\ database' = database \/ database' = [database EXCEPT !.evolutions = new]
      /\ pc' = "failed" \/ (pc' = "evolve" /\ database' = [database EXCEPT !.evolutions = new])
  BY DEF Record, Commit
<1>5. /\ database'.evolutions = evos \/ database'.evolutions = new
      /\ pc' = "failed" \/ (pc' = "evolve" /\ database'.evolutions = new)
      /\ ~database'.ended
  <2>1. database \in [project : BOOLEAN, ended : BOOLEAN,
                      evolutions : Seq([generation : Nat, fitness : Fitness])]
    BY DEF IInv, TypeOK
  <2> HIDE DEF new
  <2>2. /\ [database EXCEPT !.evolutions = new].evolutions = new
        /\ [database EXCEPT !.evolutions = new].ended = database.ended
    BY <2>1
  <2> QED
    BY <1>1, <1>4, <2>2
<1> HIDE DEF evo
<1>6. /\ Len(new) = Len(evos) + 1 /\ new[Len(evos) + 1] = evo /\ Len(new) \in Nat
      /\ \A k \in 1..Len(evos) : new[k] = evos[k]
      /\ new # <<>>
  BY <1>2, RowAppended
<1>7. n # 0 /\ n \in 1..n /\ looks[n].fitness = lastFitValue /\ looks[n].generation = genNum
  BY <1>1 DEF CurveInv, CurveKnown, LooksKnown
<1>8. \A k \in 1..(n - 1) : Tells(evos, looks[k])
  BY <1>1 DEF CurveInv, CurveKnown
<1>9. \A k \in 1..(n - 1) : Tells(new, looks[k])
  <2> SUFFICES ASSUME NEW k \in 1..(n - 1) PROVE Tells(new, looks[k])
    OBVIOUS
  <2>1. looks[k].generation \in Nat /\ looks[k].generation < evo.generation
    BY <1>1, <1>3, LooksTyped DEF CurveInv, LooksKnown, evo
  <2>2. Told(new, looks[k].generation) = Told(evos, looks[k].generation)
    BY <1>2, <2>1, OldIsTold
  <2> QED
    BY <1>8, <2>2 DEF Tells
<1>10. Told(new, genNum) = lastFitValue
  <2>1. \A k \in 1..Len(new) : new[k].generation <= genNum
    <3> SUFFICES ASSUME NEW k \in 1..Len(new) PROVE new[k].generation <= genNum
      OBVIOUS
    <3>1. CASE k = Len(evos) + 1
      BY <1>2, <1>6, <3>1 DEF evo
    <3>2. CASE k \in 1..Len(evos)
      BY <1>2, <1>6, <3>2
    <3> QED
      BY <1>2, <1>6, <3>1, <3>2
  <2> HIDE DEF new
  <2>2. Told(new, genNum) = new[Len(new)].fitness
    BY <1>2, <1>6, <2>1, LastIsTold
  <2>3. new[Len(new)].fitness = lastFitValue
    BY <1>6 DEF evo
  <2> QED
    BY <2>2, <2>3
<1> HIDE DEF new
<1>11. \A k \in 1..(n - 1) : Tells(database'.evolutions, looks[k])
  BY <1>5, <1>8, <1>9
<1>12. Tells(new, looks[n])
  BY <1>7, <1>10 DEF Tells
<1>13. LooksKnown' /\ EndKnown' /\ EndedIsComplete' /\ (looks \in Seq(Row))'
  BY <1>1, <1>5 DEF CurveInv, LooksKnown, EndKnown, EndedIsComplete
<1>14. \A k \in 1..n : k = n \/ k \in 1..(n - 1)
  BY <1>1
<1>15. CurveKnown'
  <2>1. pc' = "evolve" => database'.evolutions # <<>> /\ \A k \in 1..n : Tells(database'.evolutions, looks[k])
    BY <1>5, <1>6, <1>11, <1>12, <1>14
  <2>2. pc' # "configure" /\ pc' # "record"
    BY <1>5
  <2> QED
    BY <1>1, <2>1, <2>2 DEF CurveKnown
<1>16. CurveIsExact'
  <2>1. \A k \in 1..n : Tells(database'.evolutions, looks[k]) \/ (k = n /\ pc' = "failed")
    BY <1>5, <1>11, <1>12, <1>14
  <2> QED
    BY <1>1, <2>1 DEF CurveIsExact
<1> QED
  BY <1>13, <1>15, <1>16 DEF CurveInv

LEMMA FinishKeepsCurve ==
  ASSUME IInv, CurveInv, Finish
  PROVE  CurveInv'
<1> DEFINE d == [database EXCEPT !.ended = TRUE]
<1>1. /\ pc = "evolve" /\ genNum >= generationsLimit
      /\ UNCHANGED <<generationsLimit, genNum, lastFitValue, looks>>
  BY DEF Finish, evolution, config
<1>2. d.evolutions = database.evolutions
  BY DEF IInv, TypeOK
<1>3. database' \in {database, d} /\ pc' \in {"results", "failed"}
  BY DEF Finish, Commit
<1> HIDE DEF d
<1>4. database'.evolutions = database.evolutions
  BY <1>2, <1>3
<1>5. \A k \in 1..Len(looks) : Tells(database.evolutions, looks[k])
  BY <1>1 DEF CurveInv, CurveKnown
<1>6. LooksKnown' /\ CurveKnown' /\ EndKnown'
  BY <1>1, <1>3 DEF CurveInv, LooksKnown, CurveKnown, EndKnown
<1>7. CurveIsExact'
  BY <1>1, <1>4, <1>5 DEF CurveIsExact
<1>8. EndedIsComplete'
  <2>1. genNum = (IF looks = <<>> THEN 0 ELSE Last(looks).generation)
    BY DEF CurveInv, LooksKnown, Last
  <2>2. CurveAt(genNum) = lastFitValue
    <3> DEFINE evos == database.evolutions
    <3>1. Told(evos, genNum) = IF Len(evos) = 0 THEN -1 ELSE evos[Len(evos)].fitness
      BY RecordsTyped, LastIsTold
    <3>2. CASE evos = <<>>
      <4>1. Len(evos) = 0 /\ lastFitValue = -1
        BY <1>1, <3>2 DEF CurveInv, CurveKnown
      <4> QED
        BY <3>1, <4>1 DEF CurveAt
    <3>3. CASE evos # <<>>
      <4>1. Len(evos) # 0
        BY <3>3, RecordsTyped
      <4>2. evos[Len(evos)].fitness = lastFitValue
        BY <1>1, <3>3 DEF IInv, RecordsKnown
      <4> QED
        BY <3>1, <4>1, <4>2 DEF CurveAt
    <3> QED
      BY <3>2, <3>3
  <2> QED
    BY <1>1, <1>4, <2>1, <2>2 DEF EndedIsComplete, CurveAt, Last
<1> QED
  BY <1>1, <1>6, <1>7, <1>8 DEF CurveInv

LEMMA CurveInvHolds == Spec => []CurveInv
<1>1. Init => CurveInv
  <2> SUFFICES ASSUME Init PROVE CurveInv
    OBVIOUS
  <2>1. looks = <<>> /\ looks \in Seq(Row) /\ Len(looks) = 0 /\ ~database.ended
    BY DEF Init
  <2>2. \A k \in 1..Len(looks) : FALSE
    BY <2>1
  <2>3. \A k \in 1..(Len(looks) - 1) : FALSE
    BY <2>1
  <2> QED
    BY <2>1, <2>2, <2>3
    DEF Init, CurveInv, LooksKnown, CurveKnown, EndKnown, CurveIsExact, EndedIsComplete
<1>2. IInv /\ CurveInv /\ [Next]_vars => CurveInv'
  <2> SUFFICES ASSUME IInv, CurveInv, [Next]_vars PROVE CurveInv'
    OBVIOUS
  <2>1. CASE Configure \/ Killed \/ UNCHANGED vars
    BY <2>1, CurveUntouched DEF Configure, Killed, vars, config
  <2>2. CASE StoreProject
    <3> DEFINE d == [database EXCEPT !.project = TRUE]
    <3>1. d.evolutions = database.evolutions /\ d.ended = database.ended
      BY DEF IInv, TypeOK
    <3>2. database' \in {database, d} /\ pc' \in {"evolve", "failed"} /\ pc = "configure"
          /\ UNCHANGED evolution /\ UNCHANGED generationsLimit
      BY <2>2 DEF StoreProject, Commit, config
    <3> HIDE DEF d
    <3>3. database.evolutions = <<>>
      BY <3>2 DEF IInv, RecordsKnown
    <3>4. database'.evolutions = database.evolutions /\ database'.ended = database.ended
      BY <3>1, <3>2
    <3>5. lastFitValue = -1
      BY <3>2 DEF CurveInv, CurveKnown
    <3> QED
      BY <3>2, <3>3, <3>4, <3>5, CurveUntouched
  <2>3. CASE Evolve
    BY <2>3, EvolveKeepsCurve
  <2>4. CASE Record
    BY <2>4, RecordKeepsCurve
  <2>5. CASE Finish
    BY <2>5, FinishKeepsCurve
  <2> QED
    BY <2>1, <2>2, <2>3, <2>4, <2>5 DEF Next, Work
<1> QED
  BY <1>1, <1>2, Invariance, PTL DEF Spec

\* Whoever reads the records finds the best fitness of every generation that was
\* looked at, although only changes are recorded and the steps grow; only the look
\* a stopped program was about to record is missing.
THEOREM CurveIsTold == Spec => []CurveIsExact
<1>1. CurveInv => CurveIsExact
  BY DEF CurveInv
<1> QED
  BY <1>1, CurveInvHolds, PTL

\* An end time means that the evolution went to the limit and that the last
\* fitness is in the records, whatever transaction failed.
THEOREM EndMeansComplete == Spec => []EndedIsComplete
<1>1. CurveInv => EndedIsComplete
  BY DEF CurveInv
<1> QED
  BY <1>1, CurveInvHolds, PTL

-----------------------------------------------------------------------------
(* Powers of two and the bits of a number.                                 *)

\* What holds for 0 and is handed on from each number to the next holds up to n.
LEMMA UpTo ==
  ASSUME NEW n \in Nat, NEW S,
         0 \in S, \A k \in 1..n : k - 1 \in S => k \in S
  PROVE  \A k \in 0..n : k \in S
<1> DEFINE B == (0..n) \ S
<1> SUFFICES ASSUME B # {} PROVE FALSE
  OBVIOUS
<1>1. PICK b \in B : \A c \in B : b <= c
  <2>1. B \in SUBSET Nat
    OBVIOUS
  <2> HIDE DEF B
  <2> QED
    BY <2>1, LeastOne
<1>2. b \in 1..n /\ b - 1 \in 0..n
  OBVIOUS
<1>3. b - 1 \notin B
  BY <1>1, <1>2
<1> QED
  BY <1>2, <1>3

\* The function in the definition of Pow2 exists.
LEMMA PowFunction ==
  ASSUME NEW n \in Nat
  PROVE  \E f : /\ Pow2(n) = f[n] /\ f[0] = 1
                /\ \A k \in 1..n : f[k] = 2 * f[k - 1]
<1> DEFINE IsPow(f, m) == f = [k \in 0..m |-> IF k = 0 THEN 1 ELSE 2 * f[k - 1]]
           S == {m \in 0..n : \E f : IsPow(f, m)}
<1>1. 0 \in S
  <2> DEFINE f == [k \in 0..0 |-> 1]
  <2>1. IsPow(f, 0)
    OBVIOUS
  <2> HIDE DEF IsPow, f
  <2> QED
    BY <2>1
<1>2. ASSUME NEW m \in 1..n, m - 1 \in S
      PROVE  m \in S
  <2>1. PICK f : IsPow(f, m - 1)
    BY <1>2
  <2> DEFINE g == [k \in 0..m |-> IF k = m THEN 2 * f[m - 1] ELSE f[k]]
  <2>2. ASSUME NEW k \in 0..m
        PROVE  g[k] = IF k = 0 THEN 1 ELSE 2 * g[k - 1]
    <3>1. CASE k = m
      BY <3>1
    <3>2. CASE k # m
      <4>1. k \in 0..(m - 1)
        BY <3>2
      <4>2. f[k] = IF k = 0 THEN 1 ELSE 2 * f[k - 1]
        BY <2>1, <4>1
      <4>3. g[k] = f[k] /\ (k # 0 => g[k - 1] = f[k - 1])
        BY <3>2, <4>1
      <4> QED
        BY <4>2, <4>3
    <3> QED
      BY <3>1, <3>2
  <2>3. IsPow(g, m)
    BY <2>2
  <2> HIDE DEF IsPow, g
  <2> QED
    BY <2>3
<1>3. n \in S
  <2> HIDE DEF S
  <2>1. \A k \in 0..n : k \in S
    BY <1>1, <1>2, UpTo
  <2> QED
    BY <2>1
<1> DEFINE f == CHOOSE h : IsPow(h, n)
<1>4. IsPow(f, n)
  BY <1>3
<1>5. Pow2(n) = f[n]
  BY DEF Pow2
<1> HIDE DEF f
<1>6. \A k \in 0..n : f[k] = IF k = 0 THEN 1 ELSE 2 * f[k - 1]
  BY <1>4
<1>7. f[0] = 1 /\ \A k \in 1..n : f[k] = 2 * f[k - 1]
  BY <1>6
<1> QED
  BY <1>5, <1>7

LEMMA Pow2Next ==
  ASSUME NEW n \in Nat
  PROVE  /\ Pow2(0) = 1
         /\ Pow2(n) \in Nat \ {0}
         /\ Pow2(n + 1) = 2 * Pow2(n)
<1>1. Pow2(0) = 1
  BY PowFunction
<1>2. PICK f : /\ Pow2(n) = f[n] /\ f[0] = 1
               /\ \A k \in 1..n : f[k] = 2 * f[k - 1]
  BY PowFunction
<1>3. PICK g : /\ Pow2(n + 1) = g[n + 1] /\ g[0] = 1
               /\ \A k \in 1..(n + 1) : g[k] = 2 * g[k - 1]
  <2>1. n + 1 \in Nat
    OBVIOUS
  <2> QED
    BY <2>1, PowFunction
<1> DEFINE S == {k \in 0..n : f[k] \in Nat \ {0} /\ g[k] = f[k]}
<1>4. 0 \in S
  BY <1>2, <1>3
<1>5. ASSUME NEW k \in 1..n, k - 1 \in S
      PROVE  k \in S
  <2>1. /\ f[k - 1] \in Nat \ {0} /\ g[k - 1] = f[k - 1]
        /\ f[k] = 2 * f[k - 1] /\ g[k] = 2 * g[k - 1]
    BY <1>2, <1>3, <1>5
  <2> QED
    BY <2>1
<1>6. n \in S
  <2> HIDE DEF S
  <2>1. \A k \in 0..n : k \in S
    BY <1>4, <1>5, UpTo
  <2> QED
    BY <2>1
<1>7. g[n + 1] = 2 * g[n]
  BY <1>3
<1> QED
  BY <1>1, <1>2, <1>3, <1>6, <1>7

LEMMA Pow2Grows ==
  ASSUME NEW m \in Nat, NEW n \in Nat, m <= n
  PROVE  Pow2(m) <= Pow2(n)
<1> DEFINE S == {d \in 0..(n - m) : Pow2(m) <= Pow2(m + d)}
<1>1. 0 \in S
  <2>1. m + 0 = m /\ Pow2(m) \in Nat
    BY Pow2Next
  <2> QED
    BY <2>1
<1>2. ASSUME NEW d \in 1..(n - m), d - 1 \in S
      PROVE  d \in S
  <2>1. m + (d - 1) \in Nat /\ (m + (d - 1)) + 1 = m + d
    OBVIOUS
  <2>2. Pow2(m + d) = 2 * Pow2(m + (d - 1)) /\ Pow2(m + (d - 1)) \in Nat /\ Pow2(m) \in Nat
    BY <2>1, Pow2Next
  <2> QED
    BY <1>2, <2>2
<1>3. n - m \in S
  <2> HIDE DEF S
  <2>1. n - m \in Nat
    OBVIOUS
  <2>2. \A d \in 0..(n - m) : d \in S
    BY <1>1, <1>2, <2>1, UpTo
  <2> QED
    BY <2>1, <2>2
<1>4. m + (n - m) = n
  OBVIOUS
<1> QED
  BY <1>3, <1>4

Bit(k, j) == (k \div Pow2(j)) % 2 = 1

\* A quotient is what is unique about it.
LEMMA QuotientIs ==
  ASSUME NEW k \in Nat, NEW d \in Nat \ {0}, NEW q \in Nat, NEW r \in 0..(d - 1), k = d * q + r
  PROVE  k \div d = q
<1> DEFINE p == k \div d
           s == k % d
<1>1. k = d * p + s /\ s \in 0..(d - 1) /\ p \in Nat
  OBVIOUS
<1> HIDE DEF p, s
<1>2. ASSUME NEW a \in Nat, NEW b \in Nat, a < b
      PROVE  d * a + d <= d * b
  <2>1. PICK c \in Nat : b = a + 1 + c
    <3>1. b - a - 1 \in Nat /\ b = a + 1 + (b - a - 1)
      BY <1>2
    <3> QED
      BY <3>1
  <2>2. d * b = d * a + d + d * c /\ d * c \in Nat /\ d * a \in Nat
    BY <2>1
  <2> QED
    BY <2>2
<1>3. d * p \in Nat /\ d * q \in Nat
  BY <1>1
<1>4. ~(p < q)
  BY <1>1, <1>2, <1>3
<1>5. ~(q < p)
  BY <1>1, <1>2, <1>3
<1>6. p = q
  BY <1>1, <1>4, <1>5
<1> QED
  BY <1>6 DEF p

LEMMA HalvedFirst ==
  ASSUME NEW k \in Nat, NEW d \in Nat \ {0}
  PROVE  k \div (2 * d) = (k \div 2) \div d
<1> DEFINE h == k \div 2
           q == h \div d
           r == h % d
           b == k % 2
<1>1. k = 2 * h + b /\ b \in 0..1 /\ h \in Nat
  OBVIOUS
<1> HIDE DEF h, b
<1>2. h = d * q + r /\ r \in 0..(d - 1) /\ q \in Nat
  BY <1>1
<1> HIDE DEF q, r
<1>3. 2 * (d * q) = (2 * d) * q /\ d * q \in Nat
  BY <1>2
<1>4. k = (2 * d) * q + (2 * r + b) /\ 2 * r + b \in 0..(2 * d - 1) /\ 2 * d \in Nat \ {0}
  BY <1>1, <1>2, <1>3
<1>5. k \div (2 * d) = q
  BY <1>2, <1>4, QuotientIs
<1> QED
  BY <1>5 DEF q, h

LEMMA BitsHalved ==
  ASSUME NEW k \in Nat
  PROVE  /\ k \div 2 \in Nat /\ k = 2 * (k \div 2) + (k % 2) /\ k % 2 \in 0..1
         /\ Bit(k, 0) <=> k % 2 = 1
         /\ \A j \in Nat : Bit(k, j + 1) <=> Bit(k \div 2, j)
<1>1. k \div 2 \in Nat /\ k = 2 * (k \div 2) + (k % 2) /\ k % 2 \in 0..1 /\ k \div 1 = k
  OBVIOUS
<1>2. Bit(k, 0) <=> k % 2 = 1
  BY <1>1, Pow2Next DEF Bit
<1>3. \A j \in Nat : Bit(k, j + 1) <=> Bit(k \div 2, j)
  <2> SUFFICES ASSUME NEW j \in Nat PROVE Bit(k, j + 1) <=> Bit(k \div 2, j)
    OBVIOUS
  <2>1. Pow2(j + 1) = 2 * Pow2(j) /\ Pow2(j) \in Nat \ {0}
    BY Pow2Next
  <2>2. k \div Pow2(j + 1) = (k \div 2) \div Pow2(j)
    BY <2>1, HalvedFirst
  <2> QED
    BY <2>2 DEF Bit
<1> QED
  BY <1>1, <1>2, <1>3

LEMMA NoBitAbove ==
  ASSUME NEW k \in Nat, NEW j \in Nat, k < Pow2(j)
  PROVE  ~Bit(k, j)
<1>1. Pow2(j) \in Nat \ {0}
  BY Pow2Next
<1>2. k = Pow2(j) * 0 + k /\ k \in 0..(Pow2(j) - 1)
  BY <1>1
<1>3. k \div Pow2(j) = 0
  BY <1>1, <1>2, QuotientIs
<1> QED
  BY <1>3 DEF Bit

\* Two numbers below 2^n with the same bits are the same.
LEMMA BitsTell ==
  ASSUME NEW n \in Nat
  PROVE  \A k, l \in 0..(Pow2(n) - 1) :
           (\A j \in 0..(n - 1) : Bit(k, j) <=> Bit(l, j)) => k = l
<1> DEFINE Tell(m) == \A k, l \in 0..(Pow2(m) - 1) :
                        (\A j \in 0..(m - 1) : Bit(k, j) <=> Bit(l, j)) => k = l
           S == {m \in 0..n : Tell(m)}
<1>1. 0 \in S
  BY Pow2Next
<1>2. ASSUME NEW m \in 1..n, m - 1 \in S
      PROVE  m \in S
  <2> SUFFICES ASSUME NEW k \in 0..(Pow2(m) - 1), NEW l \in 0..(Pow2(m) - 1),
                      \A j \in 0..(m - 1) : Bit(k, j) <=> Bit(l, j)
               PROVE  k = l
    OBVIOUS
  <2>1. Pow2(m) = 2 * Pow2(m - 1) /\ Pow2(m - 1) \in Nat \ {0} /\ Pow2(m) \in Nat
    <3>1. m - 1 \in Nat /\ (m - 1) + 1 = m
      OBVIOUS
    <3> QED
      BY <3>1, Pow2Next
  <2>2. k \in Nat /\ l \in Nat /\ k < Pow2(m) /\ l < Pow2(m)
    BY <2>1
  <2>3. /\ k \div 2 \in Nat /\ k = 2 * (k \div 2) + (k % 2) /\ k % 2 \in 0..1
        /\ l \div 2 \in Nat /\ l = 2 * (l \div 2) + (l % 2) /\ l % 2 \in 0..1
        /\ Bit(k, 0) <=> k % 2 = 1
        /\ Bit(l, 0) <=> l % 2 = 1
    BY <2>2, BitsHalved
  <2>4. k \div 2 \in 0..(Pow2(m - 1) - 1) /\ l \div 2 \in 0..(Pow2(m - 1) - 1)
    BY <2>1, <2>2, <2>3
  <2>5. ASSUME NEW j \in 0..(m - 2)
        PROVE  Bit(k \div 2, j) <=> Bit(l \div 2, j)
    <3>1. j \in Nat /\ j + 1 \in 0..(m - 1)
      OBVIOUS
    <3>2. /\ Bit(k, j + 1) <=> Bit(k \div 2, j)
          /\ Bit(l, j + 1) <=> Bit(l \div 2, j)
      BY <2>2, <3>1, BitsHalved
    <3> QED
      BY <3>1, <3>2
  <2>6. k \div 2 = l \div 2
    <3>1. \A j \in 0..((m - 1) - 1) : Bit(k \div 2, j) <=> Bit(l \div 2, j)
      BY <2>5
    <3> QED
      BY <1>2, <2>4, <3>1
  <2>7. k % 2 = l % 2
    <3>1. Bit(k, 0) <=> Bit(l, 0)
      OBVIOUS
    <3> QED
      BY <2>3, <3>1
  <2> QED
    BY <2>3, <2>6, <2>7
<1>3. n \in S
  <2> HIDE DEF S
  <2>1. \A k \in 0..n : k \in S
    BY <1>1, <1>2, UpTo
  <2> QED
    BY <2>1
<1> QED
  BY <1>3

\* Every set of numbers below n is the set of the one bits of a number below 2^n.
LEMMA BitsMake ==
  ASSUME NEW n \in Nat
  PROVE  \A B \in SUBSET (0..(n - 1)) : \E k \in 0..(Pow2(n) - 1) :
           \A j \in 0..(n - 1) : Bit(k, j) <=> j \in B
<1> DEFINE Made(m, B) == \E k \in 0..(Pow2(m) - 1) : \A j \in 0..(m - 1) : Bit(k, j) <=> j \in B
           S == {m \in 0..n : \A B \in SUBSET (0..(m - 1)) : Made(m, B)}
<1>1. 0 \in S
  <2>1. 0 \in 0..(Pow2(0) - 1)
    BY Pow2Next
  <2> QED
    BY <2>1
<1>2. ASSUME NEW m \in 1..n, m - 1 \in S
      PROVE  m \in S
  <2> SUFFICES ASSUME NEW B \in SUBSET (0..(m - 1)) PROVE Made(m, B)
    OBVIOUS
  <2> DEFINE C == {j \in 0..(m - 2) : j + 1 \in B}
             b == IF 0 \in B THEN 1 ELSE 0
  <2>1. Pow2(m) = 2 * Pow2(m - 1) /\ Pow2(m - 1) \in Nat \ {0} /\ Pow2(m) \in Nat
    <3>1. m - 1 \in Nat /\ (m - 1) + 1 = m
      OBVIOUS
    <3> QED
      BY <3>1, Pow2Next
  <2>2. PICK h \in 0..(Pow2(m - 1) - 1) : \A j \in 0..(m - 2) : Bit(h, j) <=> j \in C
    <3>1. C \in SUBSET (0..((m - 1) - 1)) /\ (m - 1) - 1 = m - 2
      OBVIOUS
    <3>2. Made(m - 1, C)
      BY <1>2, <3>1
    <3> HIDE DEF C
    <3> QED
      BY <3>1, <3>2
  <2> DEFINE k == 2 * h + b
  <2>3. h \in Nat /\ b \in 0..1 /\ k \in Nat /\ k \in 0..(Pow2(m) - 1)
    BY <2>1
  <2>4. k \div 2 = h /\ k % 2 = b
    BY <2>3
  <2>5. b = 1 <=> 0 \in B
    OBVIOUS
  <2> HIDE DEF k, b
  <2>6. ASSUME NEW j \in 0..(m - 1)
        PROVE  Bit(k, j) <=> j \in B
    <3>1. CASE j = 0
      <4>1. Bit(k, 0) <=> k % 2 = 1
        BY <2>3, BitsHalved
      <4> QED
        BY <2>4, <2>5, <3>1, <4>1
    <3>2. CASE j # 0
      <4>1. j - 1 \in 0..(m - 2) /\ j - 1 \in Nat /\ (j - 1) + 1 = j
        BY <3>2
      <4>2. Bit(k, (j - 1) + 1) <=> Bit(h, j - 1)
        BY <2>3, <2>4, <4>1, BitsHalved
      <4>3. Bit(h, j - 1) <=> j \in B
        BY <2>2, <4>1
      <4> QED
        BY <4>1, <4>2, <4>3
    <3> QED
      BY <3>1, <3>2
  <2> QED
    BY <2>3, <2>6
<1>3. n \in S
  <2> HIDE DEF S
  <2>1. \A k \in 0..n : k \in S
    BY <1>1, <1>2, UpTo
  <2> QED
    BY <2>1
<1> QED
  BY <1>3

-----------------------------------------------------------------------------
(* The list of agents.                                                     *)

(* The list holds the valid patterns seen so far, each once.               *)
Listed ==
  /\ \A k \in 1..Len(agents) :
       IsAgentValid(agents[k]) /\ \E p \in 1..(i - 1) : agents[k] = Pattern(p)
  /\ \A p \in 1..(i - 1) :
       IsAgentValid(Pattern(p)) => \E k \in 1..Len(agents) : agents[k] = Pattern(p)
  /\ \A k, l \in 1..Len(agents) : agents[k] = agents[l] => k = l

AgentsInv ==
  /\ compNum \in Nat \ {0}
  /\ i \in Nat \ {0}
  /\ agents \in Seq(SUBSET Components(compNum))
  /\ i = 1 \/ i <= Shl(compNum)
  /\ Listed

\* The number of patterns, and how many bits they have.
LEMMA ShlIs ==
  ASSUME NEW n \in Nat
  PROVE  /\ n % IntWidth \in 0..(IntWidth - 1) /\ n % IntWidth \in Nat /\ n % IntWidth <= n
         /\ n < IntWidth => n % IntWidth = n
         /\ n % IntWidth = IntWidth - 1 => Shl(n) < 0
         /\ n % IntWidth # IntWidth - 1 => Shl(n) = Pow2(n % IntWidth)
         /\ Pow2(n % IntWidth) \in Nat \ {0} /\ Pow2(n % IntWidth) <= Pow2(n)
         /\ Shl(n) \in Int
<1>1. IntWidth \in Nat \ {0}
  BY ProjectAssumption
<1> DEFINE b == n % IntWidth
<1>2. b \in 0..(IntWidth - 1) /\ b \in Nat
  BY <1>1
<1>3. b <= n
  <2> DEFINE q == n \div IntWidth
  <2>1. n = IntWidth * q + b /\ q \in Nat
    BY <1>1
  <2>2. IntWidth * q \in Nat
    BY <1>1, <2>1
  <2> HIDE DEF q, b
  <2> QED
    BY <1>2, <2>1, <2>2
<1>4. n < IntWidth => b = n
  BY <1>1
<1> HIDE DEF b
<1>5. Pow2(b) \in Nat \ {0} /\ Pow2(b) <= Pow2(n)
  BY <1>2, <1>3, Pow2Next, Pow2Grows
<1>6. Shl(n) = IF b = IntWidth - 1 THEN -Pow2(b) ELSE Pow2(b)
  BY DEF Shl, b
<1> QED
  BY <1>2, <1>3, <1>4, <1>5, <1>6 DEF b

LEMMA PatternsDiffer ==
  ASSUME compNum \in Nat, NEW k \in 0..(Pow2(compNum) - 1), NEW l \in 0..(Pow2(compNum) - 1),
         Pattern(k) = Pattern(l)
  PROVE  k = l
<1>1. \A j \in 0..(compNum - 1) : Bit(k, j) <=> Bit(l, j)
  <2>1. \A j \in 0..(compNum - 1) : Bit(k, j) <=> j \in Pattern(k)
    BY DEF Bit, Pattern, Components
  <2>2. \A j \in 0..(compNum - 1) : Bit(l, j) <=> j \in Pattern(l)
    BY DEF Bit, Pattern, Components
  <2> QED
    BY <2>1, <2>2
<1> QED
  BY <1>1, BitsTell

LEMMA GenerateLists ==
  ASSUME AgentsInv, GenerateAgent
  PROVE  AgentsInv'
<1> DEFINE new == Pattern(i)
           n == Len(agents)
<1>1. /\ i < Shl(compNum) /\ i' = i + 1
      /\ agents' = IF IsAgentValid(new) THEN Append(agents, new) ELSE agents
      /\ UNCHANGED <<compNum, constraints, missions>>
  BY DEF GenerateAgent, file
<1>2. /\ compNum \in Nat \ {0} /\ i \in Nat \ {0} /\ i' \in Nat \ {0}
      /\ agents \in Seq(SUBSET Components(compNum)) /\ n \in Nat
      /\ new \in SUBSET Components(compNum)
  BY <1>1 DEF AgentsInv, Pattern
<1>3. \A a : IsAgentValid(a)' <=> IsAgentValid(a)
  BY <1>1 DEF IsAgentValid
<1>4. \A k : Pattern(k)' = Pattern(k)
  BY <1>1 DEF Pattern
<1>5. \A p \in 1..(i - 1) : Pattern(p) # new
  <2> SUFFICES ASSUME NEW p \in 1..(i - 1), Pattern(p) = new PROVE FALSE
    OBVIOUS
  <2>1. Shl(compNum) = Pow2(compNum % IntWidth) /\ Shl(compNum) <= Pow2(compNum)
        /\ Pow2(compNum) \in Nat
    <3>1. Pow2(compNum) \in Nat
      BY <1>2, Pow2Next
    <3>2. /\ Shl(compNum) \in Int
          /\ compNum % IntWidth = IntWidth - 1 => Shl(compNum) < 0
          /\ compNum % IntWidth # IntWidth - 1 => Shl(compNum) = Pow2(compNum % IntWidth)
          /\ Pow2(compNum % IntWidth) <= Pow2(compNum)
      BY <1>2, ShlIs
    <3>3. ~(Shl(compNum) < 0)
      BY <1>1, <1>2, <3>2
    <3> QED
      BY <3>1, <3>2, <3>3
  <2>2. Shl(compNum) \in Int
    BY <1>2, ShlIs
  <2>3. p \in 0..(Pow2(compNum) - 1) /\ i \in 0..(Pow2(compNum) - 1)
    BY <1>1, <1>2, <2>1, <2>2
  <2>4. p = i
    BY <1>2, <2>3, PatternsDiffer
  <2> QED
    BY <1>2, <2>4
<1>6. \A p \in 1..i : p = i \/ p \in 1..(i - 1)
  BY <1>2
<1> HIDE DEF new
<1>7. CASE ~IsAgentValid(new)
  <2>1. agents' = agents
    BY <1>1, <1>7
  <2>2. Listed'
    <3>1. \A k \in 1..n : IsAgentValid(agents[k]) /\ \E p \in 1..i : agents[k] = Pattern(p)
      <4>1. \A p \in 1..(i - 1) : p \in 1..i
        BY <1>2
      <4> QED
        BY <4>1 DEF AgentsInv, Listed
    <3>2. \A p \in 1..i : IsAgentValid(Pattern(p)) => \E k \in 1..n : agents[k] = Pattern(p)
      <4>1. \A p \in 1..(i - 1) : IsAgentValid(Pattern(p)) => \E k \in 1..n : agents[k] = Pattern(p)
        BY DEF AgentsInv, Listed
      <4> QED
        BY <1>6, <1>7, <4>1 DEF new
    <3>3. \A k, l \in 1..n : agents[k] = agents[l] => k = l
      BY DEF AgentsInv, Listed
    <3>4. i' - 1 = i
      BY <1>1, <1>2
    <3> QED
      BY <1>3, <1>4, <2>1, <3>1, <3>2, <3>3, <3>4 DEF Listed
  <2>3. i' <= Shl(compNum)
    <3>1. Shl(compNum) \in Int
      BY <1>2, ShlIs
    <3> QED
      BY <1>1, <1>2, <3>1
  <2> QED
    BY <1>1, <1>2, <2>1, <2>2, <2>3 DEF AgentsInv
<1>8. CASE IsAgentValid(new)
  <2> DEFINE now == Append(agents, new)
  <2>1. agents' = now
    BY <1>1, <1>8
  <2>2. /\ now \in Seq(SUBSET Components(compNum)) /\ Len(now) = n + 1
        /\ now[n + 1] = new /\ \A k \in 1..n : now[k] = agents[k]
    BY <1>2
  <2> HIDE DEF now
  <2>3. \A k \in 1..(n + 1) : k = n + 1 \/ k \in 1..n
    BY <1>2
  <2>4. n + 1 \in 1..(n + 1) /\ \A k \in 1..n : k \in 1..(n + 1)
    BY <1>2
  <2>5. i \in 1..i /\ \A p \in 1..(i - 1) : p \in 1..i
    BY <1>2
  <2>6. Listed'
    <3>1. \A k \in 1..(n + 1) : IsAgentValid(now[k]) /\ \E p \in 1..i : now[k] = Pattern(p)
      <4>1. \A k \in 1..n : IsAgentValid(now[k]) /\ \E p \in 1..i : now[k] = Pattern(p)
        BY <2>2, <2>5 DEF AgentsInv, Listed
      <4> QED
        BY <1>8, <2>2, <2>3, <2>5, <4>1 DEF new
    <3>2. \A p \in 1..i : IsAgentValid(Pattern(p)) => \E k \in 1..(n + 1) : now[k] = Pattern(p)
      <4>1. \A p \in 1..(i - 1) : IsAgentValid(Pattern(p)) => \E k \in 1..n : now[k] = Pattern(p)
        BY <2>2 DEF AgentsInv, Listed
      <4> QED
        BY <1>6, <2>2, <2>4, <4>1 DEF new
    <3>3. \A k, l \in 1..(n + 1) : now[k] = now[l] => k = l
      <4>1. \A k \in 1..n : now[k] # new
        BY <1>5, <2>2 DEF AgentsInv, Listed
      <4>2. \A k, l \in 1..n : now[k] = now[l] => k = l
        BY <2>2 DEF AgentsInv, Listed
      <4> QED
        BY <2>2, <2>3, <4>1, <4>2
    <3>4. i' - 1 = i
      BY <1>1, <1>2
    <3> QED
      BY <1>3, <1>4, <2>1, <2>2, <3>1, <3>2, <3>3, <3>4 DEF Listed
  <2>7. i' <= Shl(compNum)
    <3>1. Shl(compNum) \in Int
      BY <1>2, ShlIs
    <3> QED
      BY <1>1, <1>2, <3>1
  <2> QED
    BY <1>1, <1>2, <2>1, <2>2, <2>6, <2>7 DEF AgentsInv
<1> QED
  BY <1>7, <1>8

LEMMA AgentsUntouched ==
  ASSUME AgentsInv, UNCHANGED <<file, i, agents>>
  PROVE  AgentsInv'
<1>1. UNCHANGED <<compNum, constraints, missions, i, agents>>
  BY DEF file
<1>2. \A a : IsAgentValid(a)' <=> IsAgentValid(a)
  BY <1>1 DEF IsAgentValid
<1>3. \A k : Pattern(k)' = Pattern(k)
  BY <1>1 DEF Pattern
<1>4. Listed'
  BY <1>1, <1>2, <1>3 DEF AgentsInv, Listed
<1> QED
  BY <1>1, <1>4 DEF AgentsInv

LEMMA AgentsInvHolds == Spec => []AgentsInv
<1>1. Init => AgentsInv
  <2> SUFFICES ASSUME Init PROVE AgentsInv
    OBVIOUS
  <2>1. compNum \in Nat \ {0} /\ i = 1 /\ agents = <<>>
    BY ProjectAssumption DEF Init, ProjectInit
  <2>2. agents \in Seq(SUBSET Components(compNum)) /\ Len(agents) = 0
    BY <2>1
  <2>3. \A k \in 1..Len(agents) : FALSE
    BY <2>2
  <2>4. \A p \in 1..(i - 1) : FALSE
    BY <2>1
  <2>5. Listed
    BY <2>3, <2>4 DEF Listed
  <2> QED
    BY <2>1, <2>2, <2>5 DEF AgentsInv
<1>2. AgentsInv /\ [Next]_vars => AgentsInv'
  <2> SUFFICES ASSUME AgentsInv, [Next]_vars PROVE AgentsInv'
    OBVIOUS
  <2>1. CASE Configure
    BY <2>1, GenerateLists DEF Configure
  <2>2. CASE StoreProject \/ Evolve \/ Record \/ Finish \/ Killed \/ UNCHANGED vars
    BY <2>2, AgentsUntouched DEF StoreProject, Evolve, Record, Finish, Killed, vars
  <2> QED
    BY <2>1, <2>2 DEF Next, Work
<1> QED
  BY <1>1, <1>2, PTL DEF Spec

(***************************************************************************)
(* generateAgents finds every combination of components that obeys the     *)
(* constraints and is of use, once, for any number of components that a    *)
(* shift can count; beyond that, it silently leaves out the components     *)
(* from compNum modulo the width on, or all.                               *)
(***************************************************************************)
THEOREM AllAgentsGenerated == Spec => []AgentsComplete
<1>1. AgentsInv => AgentsComplete
  <2> SUFFICES ASSUME AgentsInv, Generated PROVE AgentsComplete
    BY DEF AgentsComplete
  <2> DEFINE bits == compNum % IntWidth
             taking == IF compNum < IntWidth THEN Components(compNum) ELSE Components(bits)
  <2>1. /\ compNum \in Nat /\ i \in Nat \ {0} /\ i >= Shl(compNum)
        /\ i = 1 \/ i <= Shl(compNum)
        /\ Len(agents) \in Nat /\ DOMAIN agents = 1..Len(agents)
    BY DEF AgentsInv, Generated
  <2>2. /\ bits \in Nat /\ bits <= compNum /\ (compNum < IntWidth => bits = compNum)
        /\ bits = IntWidth - 1 => Shl(compNum) < 0
        /\ bits # IntWidth - 1 => Shl(compNum) = Pow2(bits)
        /\ Pow2(bits) \in Nat \ {0} /\ Pow2(bits) <= Pow2(compNum)
        /\ Shl(compNum) \in Int
    BY <2>1, ShlIs
  <2>3. taking = Components(bits)
    BY <2>2
  <2> HIDE DEF bits
  <2>4. IsInjective(agents)
    BY <2>1 DEF AgentsInv, Listed, IsInjective
  <2>5. CASE bits = IntWidth - 1
    <3>1. i = 1
      BY <2>1, <2>2, <2>5
    <3>2. \A p \in 1..(i - 1) : FALSE
      BY <3>1
    <3>3. \A k \in 1..Len(agents) : FALSE
      BY <3>2 DEF AgentsInv, Listed
    <3>4. ToSet(agents) = {}
      BY <2>1, <3>3 DEF ToSet
    <3> QED
      BY <2>4, <2>5, <3>4 DEF AgentsComplete, bits
  <2>6. CASE bits # IntWidth - 1
    <3>1. i = Pow2(bits)
      BY <2>1, <2>2, <2>6
    <3>2. ASSUME NEW p \in 1..(i - 1)
          PROVE  Pattern(p) # {} /\ Pattern(p) \in SUBSET taking
      <4>1. Pow2(compNum) \in Nat
        BY <2>1, Pow2Next
      <4>2. p \in Nat /\ 0 \in Nat /\ p # 0 /\ p < Pow2(bits)
            /\ p \in 0..(Pow2(compNum) - 1) /\ 0 \in 0..(Pow2(compNum) - 1)
        BY <2>1, <2>2, <3>1, <4>1
      <4>3. Pattern(0) = {}
        <5>1. \A j \in Nat : ~Bit(0, j)
          <6>1. \A j \in Nat : Pow2(j) \in Nat \ {0}
            BY Pow2Next
          <6> QED
            BY <6>1, NoBitAbove
        <5> QED
          BY <2>1, <5>1 DEF Pattern, Bit, Components
      <4>4. Pattern(p) # {}
        BY <2>1, <4>2, <4>3, PatternsDiffer
      <4>5. ASSUME NEW j \in Pattern(p)
            PROVE  j \in Components(bits)
        <5>1. j \in 0..(compNum - 1) /\ Bit(p, j)
          BY DEF Pattern, Bit, Components
        <5>2. ~(bits <= j)
          <6> SUFFICES ASSUME bits <= j PROVE FALSE
            OBVIOUS
          <6>1. j \in Nat /\ Pow2(bits) <= Pow2(j) /\ Pow2(j) \in Nat
            BY <2>1, <2>2, <5>1, Pow2Grows, Pow2Next
          <6>2. p < Pow2(j)
            BY <2>2, <4>2, <6>1
          <6> QED
            BY <4>2, <5>1, <6>1, <6>2, NoBitAbove
        <5> QED
          BY <2>1, <2>2, <5>1, <5>2 DEF Components
      <4> QED
        BY <2>3, <4>4, <4>5
    <3>3. ASSUME NEW a \in SUBSET taking, a # {}
          PROVE  \E p \in 1..(i - 1) : a = Pattern(p)
      <4>1. a \in SUBSET (0..(bits - 1))
        BY <2>3 DEF Components
      <4>2. PICK p \in 0..(Pow2(bits) - 1) : \A j \in 0..(bits - 1) : Bit(p, j) <=> j \in a
        BY <2>2, <4>1, BitsMake
      <4>3. p \in Nat /\ p < Pow2(bits)
        BY <2>2
      <4>4. ASSUME NEW j \in 0..(compNum - 1)
            PROVE  Bit(p, j) <=> j \in a
        <5>1. CASE j < bits
          BY <2>2, <4>2, <5>1
        <5>2. CASE ~(j < bits)
          <6>1. j \in Nat /\ bits <= j
            BY <2>1, <2>2, <5>2
          <6>2. Pow2(bits) <= Pow2(j) /\ Pow2(j) \in Nat
            BY <2>2, <6>1, Pow2Grows, Pow2Next
          <6>3. ~Bit(p, j)
            BY <2>2, <4>3, <6>1, <6>2, NoBitAbove
          <6>4. j \notin a
            BY <2>2, <4>1, <6>1
          <6> QED
            BY <6>3, <6>4
        <5> QED
          BY <5>1, <5>2
      <4>5. a = Pattern(p)
        <5>1. \A j \in a : j \in 0..(compNum - 1)
          BY <2>1, <2>2, <4>1
        <5> QED
          BY <4>4, <5>1 DEF Pattern, Bit, Components
      <4>6. p # 0
        <5> SUFFICES ASSUME p = 0 PROVE FALSE
          OBVIOUS
        <5>1. PICK j \in a : TRUE
          BY <3>3
        <5>2. j \in Nat /\ Bit(0, j)
          BY <4>1, <4>2
        <5>3. Pow2(j) \in Nat \ {0}
          BY <5>2, Pow2Next
        <5> QED
          BY <5>2, <5>3, NoBitAbove
      <4> QED
        BY <2>2, <3>1, <4>3, <4>5, <4>6
    <3>4. ToSet(agents) = {a \in SUBSET taking : a # {} /\ IsAgentValid(a)}
      <4>1. \A k \in 1..Len(agents) : /\ agents[k] \in SUBSET taking /\ agents[k] # {}
                                     /\ IsAgentValid(agents[k])
        BY <3>2 DEF AgentsInv, Listed
      <4>2. \A a \in SUBSET taking : a # {} /\ IsAgentValid(a) =>
              \E k \in 1..Len(agents) : agents[k] = a
        BY <3>3 DEF AgentsInv, Listed
      <4> HIDE DEF taking
      <4> QED
        BY <2>1, <4>1, <4>2 DEF ToSet
    <3> QED
      BY <2>4, <2>6, <3>4 DEF AgentsComplete, bits
  <2> QED
    BY <2>5, <2>6
<1> QED
  BY <1>1, AgentsInvHolds, PTL
=============================================================================
