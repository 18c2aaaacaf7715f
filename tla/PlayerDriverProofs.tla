------------------------ MODULE PlayerDriverProofs ------------------------
(***************************************************************************)
(* A driver never runs twice: whatever subscriptions, restarts and threads *)
(* that end by themselves do, for any number of subscribers and threads.   *)
(* Proved of DriverThread, and carried over to the driver at work.         *)
(***************************************************************************)
EXTENDS PlayerDriver, FiniteSetTheorems, SequenceTheorems, TLAPS

Places == {"none", "born", "setup", "main", "quit", "restart", "unlock"}
States == {"STOPPED", "RUNNING", "STOPPING", "RESTARTING"}

\* Only the thread in driverthread uses the driver.  While a starter waits at the
\* barrier the state is STOPPED, and a thread that restarts another waits itself.
ThreadInv ==
  /\ tpc \in [Threads -> Places]
  /\ ThreadState \in States
  /\ barrier \in {"idle", "waiting", "passed"}
  /\ barrier = "idle" =>
       \A t \in Threads :
         /\ tpc[t] \notin {"none", "unlock"} <=> ThreadState # "STOPPED" /\ t = driverthread
         /\ tpc[t] \notin {"born", "restart"}
  /\ barrier # "idle" =>
       /\ ThreadState = "STOPPED"
       /\ driverthread \in Threads
       /\ \A t \in Threads \ {driverthread} : tpc[t] \in {"none", "restart", "unlock"}
  /\ barrier = "waiting" => tpc[driverthread] = "born"
  /\ barrier = "passed" => tpc[driverthread] \in {"setup", "main", "quit"}
  /\ \A t \in Threads : tpc[t] = "main" => SetupSuccessful

\* What the locks keep apart: nothing of the threads changes.
LEMMA ThreadsUntouched ==
  ASSUME ThreadInv, UNCHANGED <<tpc, ThreadState, barrier, driverthread, SetupSuccessful>>
  PROVE  ThreadInv'
  BY DEF ThreadInv

\* StopThread only ever turns one state of a running thread into another.
LEMMA Stopping ==
  ASSUME ThreadInv, barrier = "idle", StopThread,
         UNCHANGED <<tpc, barrier, driverthread, SetupSuccessful>>
  PROVE  ThreadInv'
  <1>1. ThreadState' \in States /\ (ThreadState' = "STOPPED" <=> ThreadState = "STOPPED")
    BY DEF ThreadInv, StopThread, States
  <1> QED BY <1>1 DEF ThreadInv

\* A thread is created when no other one is left but, perhaps, the one that waits
\* for it.
LEMMA Creating ==
  ASSUME NEW tpcs \in [Threads -> Places],
         \A t \in Threads : tpcs[t] \in {"none", "restart", "unlock"},
         CreateThread(tpcs), ThreadState' = "STOPPED", UNCHANGED SetupSuccessful
  PROVE  ThreadInv'
  <1> PICK t \in Threads : /\ tpc' = [tpcs EXCEPT ![t] = "born"]
                           /\ driverthread' = t
                           /\ barrier' = "waiting"
    BY DEF CreateThread
  <1>1. tpc' \in [Threads -> Places] /\ tpc'[t] = "born"
    BY DEF Places
  <1>2. \A u \in Threads \ {t} : tpc'[u] \in {"none", "restart", "unlock"}
    OBVIOUS
  <1> QED BY <1>1, <1>2 DEF ThreadInv, States

THEOREM ThreadInvHolds == LifeCycle => []ThreadInv
<1>1. Init => ThreadInv
  BY DEF Init, ThreadInv, Places, States
<1>2. ThreadInv /\ [Next]_lifeVars => ThreadInv'
  <2> SUFFICES ASSUME ThreadInv, [Next]_lifeVars PROVE ThreadInv'
    OBVIOUS
  <2>1. CASE UNCHANGED lifeVars
    BY <2>1, ThreadsUntouched DEF lifeVars
  <2>2. ASSUME NEW s \in Subscribers, SubscriberStep(s) PROVE ThreadInv'
    <3>1. CASE ListQueue(s) \/ Subscribe(s) \/ Unsubscribe(s) \/ UnlistQueue(s)
      BY <3>1, ThreadsUntouched DEF ListQueue, Subscribe, Unsubscribe, UnlistQueue
    <3>2. CASE Setup(s)
      <4>1. barrier = "idle"
        BY <3>2 DEF Setup, AccessLocked
      <4>2. CASE ThreadState = "STOPPED"
        <5>1. \A t \in Threads : tpc[t] \in {"none", "restart", "unlock"}
          BY <4>1, <4>2 DEF ThreadInv
        <5>2. CreateThread(tpc) /\ ThreadState' = "STOPPED" /\ UNCHANGED SetupSuccessful
          BY <3>2, <4>2 DEF Setup
        <5> QED BY <5>1, <5>2, Creating DEF ThreadInv
      <4>3. CASE ThreadState # "STOPPED"
        <5>1. /\ ThreadState' \in States \ {"STOPPED"}
              /\ UNCHANGED <<tpc, barrier, driverthread, SetupSuccessful>>
          BY <3>2, <4>3 DEF Setup, ThreadInv, States
        <5> QED BY <4>1, <4>3, <5>1 DEF ThreadInv
      <4> QED BY <4>2, <4>3
    <3>3. CASE Shutdown(s)
      BY <3>3, Stopping DEF Shutdown, AccessLocked
    <3> QED BY <2>2, <3>1, <3>2, <3>3 DEF SubscriberStep
  <2>3. CASE Started
    <3>1. /\ barrier = "passed" /\ barrier' = "idle" /\ ThreadState' = "RUNNING"
          /\ tpc' = [t \in Threads |-> IF tpc[t] = "restart" THEN "unlock" ELSE tpc[t]]
          /\ UNCHANGED <<driverthread, SetupSuccessful>>
      BY <2>3 DEF Started
    <3>2. tpc' \in [Threads -> Places]
      BY <3>1 DEF ThreadInv, Places
    <3>3. \A t \in Threads : tpc'[t] \notin {"none", "unlock"} <=> t = driverthread
      BY <3>1 DEF ThreadInv
    <3>4. \A t \in Threads : tpc'[t] \notin {"born", "restart"} /\ (tpc'[t] = "main" => SetupSuccessful)
      BY <3>1 DEF ThreadInv
    <3> QED BY <3>1, <3>2, <3>3, <3>4 DEF ThreadInv, States
  <2>4. CASE TerminateStep
    <3>1. CASE Terminate \/ TerminateReturns
      BY <3>1, ThreadsUntouched DEF Terminate, TerminateReturns
    <3>2. CASE TerminateShutdown
      BY <3>2, Stopping DEF TerminateShutdown, AccessLocked
    <3> QED BY <2>4, <3>1, <3>2 DEF TerminateStep
  <2>5. ASSUME NEW t \in Threads, ThreadStep(t) PROVE ThreadInv'
    <3>1. CASE BarrierPassed(t)
      BY <3>1 DEF BarrierPassed, ThreadInv, Places
    <3>2. CASE MainSetup(t)
      BY <3>2 DEF MainSetup, ThreadInv, Places
    <3>3. CASE MainEnds(t)
      BY <3>3 DEF MainEnds, ThreadInv, Places
    <3>4. CASE DummyMainQuit(t)
      <4>1. /\ barrier = "idle" /\ tpc[t] = "quit" /\ ThreadState' = "STOPPED"
            /\ UNCHANGED SetupSuccessful
        BY <3>4 DEF DummyMainQuit, AccessLocked
      <4>2. \A u \in Threads \ {t} : tpc[u] \in {"none", "unlock"}
        BY <4>1 DEF ThreadInv
      <4>3. CASE ThreadState = "RESTARTING"
        <5> DEFINE others == [tpc EXCEPT ![t] = "restart"]
        <5>1. others \in [Threads -> Places] /\ \A u \in Threads : others[u] \in {"none", "restart", "unlock"}
          BY <4>2 DEF ThreadInv, Places
        <5>2. CreateThread(others)
          BY <3>4, <4>3 DEF DummyMainQuit
        <5> HIDE DEF others
        <5> QED BY <4>1, <5>1, <5>2, Creating
      <4>4. CASE ThreadState # "RESTARTING"
        <5>1. tpc' = [tpc EXCEPT ![t] = "unlock"] /\ UNCHANGED barrier
          BY <3>4, <4>4 DEF DummyMainQuit
        <5>2. tpc' \in [Threads -> Places] /\ \A u \in Threads : tpc'[u] \in {"none", "unlock"}
          BY <4>2, <5>1 DEF ThreadInv, Places
        <5> QED BY <4>1, <5>1, <5>2 DEF ThreadInv, States
      <4> QED BY <4>3, <4>4
    <3>5. CASE Publish(t) \/ PublishPush(t)
      BY <3>5, ThreadsUntouched DEF Publish, PublishPush
    <3>6. CASE DummyMainUnlocks(t)
      BY <3>6 DEF DummyMainUnlocks, ThreadInv, Places
    <3> QED BY <2>5, <3>1, <3>2, <3>3, <3>4, <3>5, <3>6 DEF ThreadStep
  <2> QED BY <2>1, <2>2, <2>3, <2>4, <2>5 DEF Next
<1> QED BY <1>1, <1>2, PTL DEF LifeCycle

\* No two threads are ever between MainSetup and MainQuit, and a thread in Main
\* has been set up (ThreadedDriver::StartThread, StopThread and DummyMainQuit).
THEOREM OneMainAtATimeHolds == LifeCycle => []OneMainAtATime
<1>1. ThreadInv => OneMainAtATime
  BY DEF ThreadInv, OneMainAtATime
<1> QED BY <1>1, ThreadInvHolds, PTL

\* When the state says STOPPED and nobody is starting one, no thread does more with
\* the driver than give up its lock, and otherwise just the one that StopThread
\* cancels does (ThreadedDriver::DummyMainQuit).
THEOREM StoppedMeansDoneHolds == LifeCycle => []StoppedMeansDone
<1>1. ThreadInv => StoppedMeansDone
  BY DEF ThreadInv, StoppedMeansDone
<1> QED BY <1>1, ThreadInvHolds, PTL

-----------------------------------------------------------------------------
(* The count of subscriptions and the list of queues.                      *)

Stages == {"out", "listed", "setup", "barrier", "in", "shutdown", "unlist"}
InLock == {"setup", "barrier", "shutdown"}

Granted == {s \in Subscribers : spc[s] \in {"in", "shutdown"}}
PlacesOf(s) == {i \in DOMAIN queues : queues[i] = s}

ListTypeOK ==
  /\ spc \in [Subscribers -> Stages]
  /\ queues \in Seq(Subscribers \cup {NoQueue})
  /\ Len(queues) >= 1

\* The subscription lock is held from the decision to set up or shut down until
\* the count is changed.
OneInLock ==
  \A s, u \in Subscribers : spc[s] \in InLock /\ spc[u] \in InLock => s = u

Counted == IsFiniteSet(Granted) /\ subscriptions = Cardinality(Granted)

ListedOnce ==
  \A s \in Subscribers :
    IF spc[s] = "out" THEN PlacesOf(s) = {} ELSE \E i \in DOMAIN queues : PlacesOf(s) = {i}

ListInv == ListTypeOK /\ OneInLock /\ Counted /\ ListedOnce
CountInv == term = "no" => ListInv

LEMMA LeastOne ==
  ASSUME NEW A \in SUBSET Nat, A # {}
  PROVE  \E i \in A : \A j \in A : i <= j
<1>1. PICK i \in A : \A j \in A : <<j, i>> \notin OpToRel(<, Nat)
  BY NatLessThanWellFounded, WFMin
<1>2. \A j \in A : ~(j < i)
  BY <1>1 DEF OpToRel
<1> QED
  BY <1>2

\* Where there is a free place Device::Subscribe takes the first one.
LEMMA FirstFreeIsFree ==
  ASSUME ListTypeOK, \E i \in DOMAIN queues : queues[i] = NoQueue
  PROVE  FirstFree \in DOMAIN queues /\ queues[FirstFree] = NoQueue
<1> DEFINE A == {i \in DOMAIN queues : queues[i] = NoQueue}
<1>1. DOMAIN queues = 1..Len(queues) /\ Len(queues) \in Nat
  BY LenProperties DEF ListTypeOK
<1>2. A \in SUBSET Nat /\ A # {}
  BY <1>1
<1>3. PICK i \in A : \A j \in A : i <= j
  BY <1>2, LeastOne
<1>4. \A j \in 1..(i - 1) : queues[j] # NoQueue
  BY <1>1, <1>3
<1> QED
  BY <1>3, <1>4 DEF FirstFree

\* Who has a subscription when one subscriber moves on.
LEMMA GrantedWhen ==
  ASSUME ListTypeOK, NEW s \in Subscribers, NEW p, spc' = [spc EXCEPT ![s] = p]
  PROVE  Granted' = IF p \in {"in", "shutdown"} THEN Granted \cup {s} ELSE Granted \ {s}
BY DEF ListTypeOK, Granted

\* A subscriber that keeps what it is counted and listed for changes nothing.
LEMMA StageKeepsCount ==
  ASSUME ListInv, NEW s \in Subscribers, NEW p \in Stages, spc' = [spc EXCEPT ![s] = p],
         UNCHANGED <<queues, subscriptions>>,
         p = "out" <=> spc[s] = "out",
         p \in {"in", "shutdown"} <=> spc[s] \in {"in", "shutdown"},
         p \in InLock => spc[s] \in InLock \/ \A u \in Subscribers : spc[u] \notin InLock
  PROVE  ListInv'
<1> USE DEF ListInv
<1>1. ListTypeOK'
  BY DEF ListTypeOK
<1>2. OneInLock'
  BY DEF OneInLock, ListTypeOK
<1>3. Granted' = Granted
  BY GrantedWhen DEF Granted
<1>4. Counted'
  BY <1>3 DEF Counted
<1>5. ListedOnce'
  BY DEF ListedOnce, PlacesOf, ListTypeOK
<1> QED
  BY <1>1, <1>2, <1>4, <1>5

\* One subscription more, one less.
LEMMA CountChanges ==
  ASSUME ListInv, NEW s \in Subscribers, NEW p \in Stages \ {"out"}, spc[s] # "out",
         spc' = [spc EXCEPT ![s] = p], UNCHANGED queues, p \notin InLock,
         \/ p = "in" /\ spc[s] # "in" /\ spc[s] # "shutdown" /\ subscriptions' = subscriptions + 1
         \/ p # "in" /\ spc[s] \in {"in", "shutdown"} /\ subscriptions' = subscriptions - 1
  PROVE  ListInv'
<1> USE DEF ListInv
<1>1. ListTypeOK'
  BY DEF ListTypeOK
<1>2. OneInLock'
  BY DEF OneInLock, ListTypeOK
<1>3. Counted'
  <2>1. IsFiniteSet(Granted) /\ Cardinality(Granted) \in Nat /\ subscriptions = Cardinality(Granted)
    BY FS_CardinalityType DEF Counted
  <2>2. CASE p = "in" /\ spc[s] # "in" /\ spc[s] # "shutdown" /\ subscriptions' = subscriptions + 1
    <3>1. Granted' = Granted \cup {s} /\ s \notin Granted
      BY <2>2, GrantedWhen DEF Granted
    <3> QED
      BY <2>1, <2>2, <3>1, FS_AddElement DEF Counted
  <2>3. CASE p # "in" /\ spc[s] \in {"in", "shutdown"} /\ subscriptions' = subscriptions - 1
    <3>1. Granted' = Granted \ {s} /\ s \in Granted
      BY <2>3, GrantedWhen DEF Granted, InLock
    <3> QED
      BY <2>1, <2>3, <3>1, FS_RemoveElement DEF Counted
  <2> QED
    BY <2>2, <2>3
<1>4. ListedOnce'
  BY DEF ListedOnce, PlacesOf, ListTypeOK
<1> QED
  BY <1>1, <1>2, <1>3, <1>4

LEMMA ListingKeepsCount ==
  ASSUME ListInv, NEW s \in Subscribers, ListQueue(s)
  PROVE  ListInv'
<1> USE DEF ListInv
<1>1. /\ spc' = [spc EXCEPT ![s] = "listed"] /\ spc[s] = "out" /\ UNCHANGED subscriptions
      /\ DOMAIN queues = 1..Len(queues) /\ Len(queues) \in Nat /\ Len(queues) >= 1
      /\ s # NoQueue /\ NoQueue \notin Subscribers
  BY LenProperties, DriverAssumption DEF ListQueue, ListTypeOK
<1>2. spc' \in [Subscribers -> Stages] /\ OneInLock'
  BY <1>1 DEF OneInLock, ListTypeOK, Stages, InLock
<1>3. Granted' = Granted
  BY <1>1, GrantedWhen DEF Granted
<1>4. Counted'
  BY <1>1, <1>3 DEF Counted
<1>5. PlacesOf(s) = {}
  BY <1>1 DEF ListedOnce
<1>6. CASE queues' = [queues EXCEPT ![FirstFree] = s] /\ \E i \in DOMAIN queues : queues[i] = NoQueue
  <2>1. FirstFree \in DOMAIN queues /\ queues[FirstFree] = NoQueue
    BY <1>6, FirstFreeIsFree
  <2>2. queues' \in Seq(Subscribers \cup {NoQueue}) /\ Len(queues') = Len(queues)
    BY <1>1, <1>6, <2>1, ExceptSeq DEF ListTypeOK
  <2>3. PlacesOf(s)' = {FirstFree} /\ DOMAIN queues' = DOMAIN queues
    BY <1>5, <1>6, <2>1 DEF PlacesOf
  <2>4. \A u \in Subscribers \ {s} : PlacesOf(u)' = PlacesOf(u)
    BY <1>1, <1>6, <2>1 DEF PlacesOf
  <2>5. ListedOnce'
    BY <1>1, <2>1, <2>3, <2>4 DEF ListedOnce, ListTypeOK
  <2> QED
    BY <1>1, <1>2, <1>4, <2>2, <2>5 DEF ListTypeOK
<1>7. CASE queues' = Append(queues, s) \o [i \in 1..(Len(queues) - 1) |-> NoQueue]
  <2> DEFINE n == Len(queues)
             more == [i \in 1..(n - 1) |-> NoQueue]
             Q == Subscribers \cup {NoQueue}
  <2>1. more \in Seq(Q) /\ Len(more) = n - 1 /\ \A i \in 1..(n - 1) : more[i] = NoQueue
    <3>1. n - 1 \in Nat
      BY <1>1
    <3> QED
      BY <3>1
  <2>2. /\ Append(queues, s) \in Seq(Q) /\ Len(Append(queues, s)) = n + 1
        /\ \A i \in 1..n : Append(queues, s)[i] = queues[i]
        /\ Append(queues, s)[n + 1] = s
    BY AppendProperties DEF ListTypeOK
  <2> HIDE DEF more
  <2>3. /\ queues' \in Seq(Q) /\ Len(queues') = 2 * n
        /\ \A i \in 1..(2 * n) : queues'[i] = IF i <= n + 1 THEN Append(queues, s)[i] ELSE more[i - (n + 1)]
    BY <1>1, <1>7, <2>1, <2>2, ConcatProperties DEF more
  <2>4. DOMAIN queues' = 1..(2 * n)
    BY <2>3, LenProperties
  <2>5. \A i \in 1..(2 * n) : queues'[i] = IF i <= n THEN queues[i] ELSE IF i = n + 1 THEN s ELSE NoQueue
    BY <1>1, <2>1, <2>2, <2>3
  <2>6. PlacesOf(s)' = {n + 1} /\ n + 1 \in DOMAIN queues'
    BY <1>1, <1>5, <2>4, <2>5 DEF PlacesOf
  <2>7. \A u \in Subscribers \ {s} : PlacesOf(u)' = PlacesOf(u)
    BY <1>1, <2>4, <2>5 DEF PlacesOf
  <2>8. DOMAIN queues \subseteq DOMAIN queues'
    BY <1>1, <2>4
  <2>9. ListedOnce'
    BY <1>1, <2>6, <2>7, <2>8 DEF ListedOnce, ListTypeOK
  <2> QED
    BY <1>1, <1>2, <1>4, <2>3, <2>9 DEF ListTypeOK
<1> QED
  BY <1>6, <1>7 DEF ListQueue

LEMMA UnlistingKeepsCount ==
  ASSUME ListInv, NEW s \in Subscribers, UnlistQueue(s)
  PROVE  ListInv'
<1> USE DEF ListInv
<1>1. /\ spc' = [spc EXCEPT ![s] = "out"] /\ spc[s] = "unlist" /\ UNCHANGED subscriptions
      /\ DOMAIN queues = 1..Len(queues)
      /\ NoQueue \notin Subscribers
  BY LenProperties, DriverAssumption DEF UnlistQueue, ListTypeOK
<1>2. spc' \in [Subscribers -> Stages] /\ OneInLock'
  BY <1>1 DEF OneInLock, ListTypeOK, Stages, InLock
<1>3. Counted'
  BY <1>1, GrantedWhen DEF Counted, Granted
<1>4. PICK k \in DOMAIN queues : PlacesOf(s) = {k}
  BY <1>1 DEF ListedOnce
<1>5. queues' = [queues EXCEPT ![k] = NoQueue]
  <2>1. k = CHOOSE i \in {k} : \A j \in {k} : i <= j
    BY <1>1, <1>4
  <2> QED
    BY <1>4, <2>1 DEF UnlistQueue, PlacesOf
<1>6. queues' \in Seq(Subscribers \cup {NoQueue}) /\ Len(queues') = Len(queues)
  BY <1>1, <1>4, <1>5, ExceptSeq DEF ListTypeOK
<1>7. PlacesOf(s)' = {}
  BY <1>1, <1>4, <1>5 DEF PlacesOf
<1>8. \A u \in Subscribers \ {s} : PlacesOf(u)' = PlacesOf(u)
  BY <1>1, <1>4, <1>5 DEF PlacesOf
<1>9. ListedOnce'
  BY <1>1, <1>5, <1>7, <1>8 DEF ListedOnce, ListTypeOK
<1> QED
  BY <1>2, <1>3, <1>6, <1>9 DEF ListTypeOK

LEMMA StartedKeepsCount ==
  ASSUME ListInv, Started
  PROVE  ListInv'
<1> USE DEF ListInv
<1>1. CASE \A s \in Subscribers : spc[s] # "barrier"
  <2>1. spc' = spc /\ UNCHANGED <<queues, subscriptions>>
    BY <1>1 DEF Started, ListTypeOK
  <2> QED
    BY <2>1 DEF ListTypeOK, OneInLock, Counted, Granted, ListedOnce, PlacesOf
<1>2. ASSUME NEW s \in Subscribers, spc[s] = "barrier" PROVE ListInv'
  <2>1. \A u \in Subscribers : spc[u] = "barrier" <=> u = s
    BY <1>2 DEF OneInLock, InLock
  <2>2. spc' = [spc EXCEPT ![s] = "in"]
    BY <2>1 DEF Started, ListTypeOK
  <2>3. subscriptions' = subscriptions + 1 /\ UNCHANGED queues
    BY <1>2 DEF Started
  <2> QED
    BY <1>2, <2>2, <2>3, CountChanges DEF Stages, InLock
<1> QED
  BY <1>1, <1>2

LEMMA SubscriberKeepsCount ==
  ASSUME ListInv, NEW s \in Subscribers, SubscriberStep(s)
  PROVE  ListInv'
<1> USE DEF ListInv, Stages, InLock
<1>1. CASE ListQueue(s)
  BY <1>1, ListingKeepsCount
<1>2. CASE Subscribe(s)
  <2>1. CASE subscriptions = 0
    <3>1. \A u \in Subscribers : spc[u] \notin InLock
      BY <1>2 DEF Subscribe, SubscriptionLocked
    <3> QED
      BY <1>2, <2>1, <3>1, StageKeepsCount DEF Subscribe
  <2>2. CASE subscriptions > 0
    BY <1>2, <2>2, CountChanges DEF Subscribe
  <2> QED
    BY <1>2, <2>1, <2>2 DEF Subscribe
<1>3. CASE Setup(s)
  <2>1. CASE ThreadState = "STOPPED"
    BY <1>3, <2>1, StageKeepsCount DEF Setup
  <2>2. CASE ThreadState # "STOPPED"
    BY <1>3, <2>2, CountChanges DEF Setup
  <2> QED
    BY <2>1, <2>2
<1>4. CASE Unsubscribe(s)
  <2>1. spc[s] = "in" /\ UNCHANGED queues /\ \A u \in Subscribers : spc[u] \notin InLock
    BY <1>4 DEF Unsubscribe, SubscriptionLocked
  <2>2. subscriptions \in Nat /\ subscriptions # 0
    <3>1. s \in Granted
      BY <2>1 DEF Granted
    <3> QED
      BY <3>1, FS_CardinalityType, FS_EmptySet DEF Counted
  <2>3. CASE subscriptions = 1
    <3>1. spc' = [spc EXCEPT ![s] = "shutdown"] /\ UNCHANGED subscriptions
      BY <1>4, <2>3 DEF Unsubscribe
    <3> QED
      BY <2>1, <3>1, StageKeepsCount
  <2>4. CASE subscriptions > 1
    <3>1. ~(subscriptions = 0) /\ ~(subscriptions = 1)
      BY <2>2, <2>4
    <3>2. subscriptions' = subscriptions - 1
      BY <1>4, <2>4 DEF Unsubscribe
    <3>3. spc' = [spc EXCEPT ![s] = "unlist"]
      BY <1>4, <3>1, Zenon DEF Unsubscribe
    <3> QED
      BY <2>1, <3>2, <3>3, CountChanges
  <2> QED
    BY <2>2, <2>3, <2>4
<1>5. CASE Shutdown(s)
  BY <1>5, CountChanges DEF Shutdown
<1>6. CASE UnlistQueue(s)
  BY <1>6, UnlistingKeepsCount
<1> QED
  BY <1>1, <1>2, <1>3, <1>4, <1>5, <1>6 DEF SubscriberStep

LEMMA CountInvHolds == LifeCycle => []CountInv
<1>1. Init => CountInv
  <2> SUFFICES ASSUME Init PROVE ListInv
    BY DEF CountInv
  <2>1. queues \in Seq(Subscribers \cup {NoQueue}) /\ Len(queues) = 2 /\ DOMAIN queues = 1..2
    BY DEF Init
  <2>2. ListTypeOK /\ OneInLock
    BY <2>1 DEF Init, ListTypeOK, OneInLock, Stages, InLock
  <2>3. Granted = {}
    BY DEF Init, Granted
  <2>4. Counted
    BY <2>3, FS_EmptySet DEF Init, Counted
  <2>5. ListedOnce
    <3>1. \A i \in DOMAIN queues : queues[i] = NoQueue
      BY <2>1 DEF Init
    <3> QED
      BY <3>1, DriverAssumption DEF Init, ListedOnce, PlacesOf
  <2> QED
    BY <2>2, <2>4, <2>5 DEF ListInv
<1>2. CountInv /\ [Next]_lifeVars => CountInv'
  <2> SUFFICES ASSUME CountInv, [Next]_lifeVars, term' = "no" PROVE ListInv'
    BY DEF CountInv
  <2>1. CASE UNCHANGED <<spc, queues, subscriptions, term>>
    BY <2>1 DEF CountInv, ListInv, ListTypeOK, OneInLock, Counted, Granted, ListedOnce, PlacesOf
  <2>2. ASSUME NEW s \in Subscribers, SubscriberStep(s) PROVE ListInv'
    <3>1. UNCHANGED term
      BY <2>2 DEF SubscriberStep, ListQueue, Subscribe, Setup, Unsubscribe, Shutdown, UnlistQueue
    <3> QED
      BY <2>2, <3>1, SubscriberKeepsCount DEF CountInv
  <2>3. CASE Started
    BY <2>3, StartedKeepsCount DEF CountInv, Started
  <2>4. CASE TerminateStep
    BY <2>4 DEF TerminateStep, Terminate, TerminateShutdown, TerminateReturns
  <2>5. ASSUME NEW t \in Threads, ThreadStep(t)
        PROVE  UNCHANGED <<spc, queues, subscriptions, term>>
    BY <2>5
    DEF ThreadStep, BarrierPassed, MainSetup, MainEnds, DummyMainQuit, DummyMainUnlocks, Publish,
        PublishPush
  <2>6. UNCHANGED lifeVars => UNCHANGED <<spc, queues, subscriptions, term>>
    BY DEF lifeVars
  <2> QED
    BY <2>1, <2>2, <2>3, <2>4, <2>5, <2>6 DEF Next
<1> QED
  BY <1>1, <1>2, PTL DEF LifeCycle

\* Until the server ends, the count that Subscribe and Unsubscribe keep is that of
\* the subscribers, and each of them is in the list of queues once, through all the
\* doublings of the list and all the subscriptions that overlap.
THEOREM SubscriptionsCountedHolds == LifeCycle => []SubscriptionsCounted
<1>1. CountInv => SubscriptionsCounted
  BY FS_EmptySet, FS_Singleton
  DEF CountInv, ListInv, Counted, Granted, ListedOnce, PlacesOf, SubscriptionsCounted
<1> QED
  BY <1>1, CountInvHolds, PTL

-----------------------------------------------------------------------------
\* The driver at work, with its queue, its loop and the requests to it, lives the
\* life of DriverThread: every step of it is a step or a stutter there.
THEOREM DriverLivesLifeCycle == DriverInit /\ [][DriverNext]_vars => LifeCycle
<1>1. DriverInit => Init
  BY DEF DriverInit
<1>2. [DriverNext]_vars => [Next]_lifeVars
  <2> SUFFICES ASSUME [DriverNext]_vars PROVE [Next]_lifeVars
    OBVIOUS
  <2>1. CASE UNCHANGED vars
    BY <2>1 DEF vars
  <2>2. CASE DriverNext
    <3> USE <2>2 DEF DriverNext
    <3>1. ASSUME NEW s \in Subscribers, Subscription(s) PROVE [Next]_lifeVars
      BY <3>1 DEF Subscription, Next
    <3>2. CASE ServerEnds
      BY <3>2 DEF ServerEnds, Next
    <3>3. CASE Starts
      BY <3>3 DEF Starts, Next, ThreadStep
    <3>4. ASSUME NEW c \in Clients, PutCommand(c) PROVE [Next]_lifeVars
      BY <3>4 DEF PutCommand
    <3>5. ASSUME NEW t \in Threads, LoopStep(t) PROVE [Next]_lifeVars
      <4>1. CASE Cancelled(t) \/ MainReturns(t)
        BY <4>1 DEF Cancelled, MainReturns, Next, ThreadStep
      <4>2. CASE PublishData(t)
        BY <4>2 DEF PublishData, Next, ThreadStep
      <4>3. CASE WaitTest(t) \/ WaitSleeps(t) \/ WaitTimesOut(t)
        BY <4>3 DEF WaitTest, WaitSleeps, WaitTimesOut
      <4>4. CASE ProcessMessages(t) \/ ProcessMessage(t)
        BY <4>4 DEF ProcessMessages, ProcessMessage
      <4> QED BY <3>5, <4>1, <4>2, <4>3, <4>4 DEF LoopStep
    <3>6. CASE PutRequest \/ RequestStep \/ Drain
      BY <3>6 DEF PutRequest, RequestStep, CheckSubscriptions, RequestSleeps,
                  RequestTimesOut, PopAnswer, Drain
    <3> QED BY <3>1, <3>2, <3>3, <3>4, <3>5, <3>6
  <2> QED BY <2>1, <2>2
<1> QED BY <1>1, <1>2, PTL DEF LifeCycle

\* So in the composition, too, a driver never runs twice.
THEOREM DriverRunsOnce ==
  DriverInit /\ [][DriverNext]_vars => [](OneMainAtATime /\ StoppedMeansDone)
BY DriverLivesLifeCycle, OneMainAtATimeHolds, StoppedMeansDoneHolds, PTL
-----------------------------------------------------------------------------
(* The driver's message queue and the requests to it.                      *)

ToDriver == [type : {"cmd", "req"}, n : Nat]
ToRequester == [type : {"resp"}, n : Nat]

AtMostOne(queue, type) ==
  \A i, j \in DOMAIN queue : queue[i].type = type /\ queue[j].type = type => i = j

LoopTypeOK ==
  /\ inQueue \in Seq(ToDriver)
  /\ budget \in Nat /\ commands \in Nat /\ handled \in Nat /\ asked \in Nat
  /\ mpc \in {"test", "gap", "asleep", "awake", "handle", "publish"}
  /\ rpc \in {"idle", "check", "gap", "asleep", "awake"}
  /\ givenUp \in BOOLEAN

\* ProcessMessages pops no more messages than there are.
BudgetCovered == mpc = "handle" => budget \in 1..Len(inQueue)

\* An overwriting queue holds one command, the last one, until it is handled.
OneCommand ==
  Replace =>
    /\ AtMostOne(inQueue, "cmd")
    /\ \A i \in DOMAIN inQueue : inQueue[i].type = "cmd" => inQueue[i].n = commands
    /\ handled < commands => \E i \in DOMAIN inQueue : inQueue[i].type = "cmd"

\* Until the first request is given up, there is one on its way at most: as a
\* request in the driver's queue or as an answer in the requester's.
OneAnswer ==
  ~givenUp =>
    /\ AtMostOne(inQueue, "req")
    /\ \A i \in DOMAIN inQueue :
         inQueue[i].type = "req" => inQueue[i].n = asked /\ rpc # "idle" /\ respQueue = << >>
    /\ respQueue \in Seq(ToRequester) /\ Len(respQueue) <= 1
    /\ \A i \in DOMAIN respQueue : respQueue[i].n = asked
    /\ rpc = "idle" => respQueue = << >> /\ got = asked

QueueInv == LoopTypeOK /\ BudgetCovered /\ OneCommand /\ OneAnswer

LEMMA RemoveAtProperties ==
  ASSUME NEW S, NEW s \in Seq(S), NEW i \in 1..Len(s)
  PROVE  /\ RemoveAt(s, i) \in Seq(S)
         /\ Len(RemoveAt(s, i)) = Len(s) - 1
         /\ \A k \in 1..(Len(s) - 1) : RemoveAt(s, i)[k] = IF k < i THEN s[k] ELSE s[k + 1]
<1>1. Len(s) \in Nat /\ \A k \in 1..Len(s) : s[k] \in S
  BY LenProperties, ElementOfSeq
<1>2. (\A k \in 1..(i - 1) : s[k] \in S) /\ \A k \in (i + 1)..Len(s) : s[k] \in S
  BY <1>1
<1> DEFINE a == SubSeq(s, 1, i - 1)
           b == SubSeq(s, i + 1, Len(s))
<1>3. a \in Seq(S) /\ Len(a) = i - 1 /\ \A k \in 1..(i - 1) : a[k] = s[k]
  BY <1>1, <1>2, SubSeqProperties
<1>4. /\ b \in Seq(S) /\ Len(b) = Len(s) - i
      /\ \A k \in 1..(Len(s) - i) : b[k] = s[i + k]
  BY <1>1, <1>2, SubSeqProperties
<1> HIDE DEF a, b
<1> DEFINE c == a \o b
<1>5. /\ c \in Seq(S) /\ Len(c) = Len(a) + Len(b)
      /\ \A k \in 1..(Len(a) + Len(b)) : c[k] = IF k <= Len(a) THEN a[k] ELSE b[k - Len(a)]
  BY <1>3, <1>4, ConcatProperties
<1> HIDE DEF c
<1>6. Len(c) = Len(s) - 1
  BY <1>1, <1>3, <1>4, <1>5
<1>7. ASSUME NEW k \in 1..(Len(s) - 1)
      PROVE  c[k] = IF k < i THEN s[k] ELSE s[k + 1]
  <2>1. CASE k < i
    <3>1. k \in 1..(i - 1) /\ k <= Len(a) /\ k \in 1..(Len(a) + Len(b))
      BY <1>1, <1>3, <1>4, <2>1
    <3> QED
      BY <1>3, <1>5, <2>1, <3>1
  <2>2. CASE ~(k < i)
    <3>1. /\ ~(k <= Len(a)) /\ k \in 1..(Len(a) + Len(b))
          /\ k - Len(a) \in 1..(Len(s) - i) /\ i + (k - Len(a)) = k + 1
      BY <1>1, <1>3, <1>4, <2>2
    <3> QED
      BY <1>4, <1>5, <2>2, <3>1
  <2> QED
    BY <2>1, <2>2
<1> QED
  BY <1>5, <1>6, <1>7 DEF RemoveAt, a, b, c

LEMMA DomainIsLen ==
  ASSUME NEW S, NEW s \in Seq(S)
  PROVE  DOMAIN s = 1..Len(s) /\ Len(s) \in Nat
BY LenProperties

\* A message more, of a type that is not in the queue or does not matter.
LEMMA AppendKeepsOne ==
  ASSUME NEW S, NEW queue \in Seq(S), NEW m \in S, NEW type, AtMostOne(queue, type),
         m.type = type => \A i \in DOMAIN queue : queue[i].type # type
  PROVE  AtMostOne(Append(queue, m), type)
<1> DEFINE q == Append(queue, m)
<1>1. /\ Len(q) = Len(queue) + 1 /\ Len(queue) \in Nat
      /\ DOMAIN q = 1..Len(q) /\ DOMAIN queue = 1..Len(queue)
      /\ q[Len(queue) + 1] = m /\ \A i \in 1..Len(queue) : q[i] = queue[i]
  BY AppendProperties, DomainIsLen
<1> HIDE DEF q
<1>2. AtMostOne(q, type)
  BY <1>1 DEF AtMostOne
<1> QED
  BY <1>2 DEF q

LEMMA RemoveKeepsOne ==
  ASSUME NEW S, NEW queue \in Seq(S), NEW k \in DOMAIN queue, NEW type, AtMostOne(queue, type)
  PROVE  /\ AtMostOne(RemoveAt(queue, k), type)
         /\ queue[k].type = type =>
              \A i \in DOMAIN RemoveAt(queue, k) : RemoveAt(queue, k)[i].type # type
<1> DEFINE q == RemoveAt(queue, k)
<1>1. /\ Len(q) = Len(queue) - 1 /\ Len(queue) \in Nat
      /\ DOMAIN q = 1..Len(q) /\ DOMAIN queue = 1..Len(queue)
      /\ \A i \in 1..(Len(queue) - 1) : q[i] = IF i < k THEN queue[i] ELSE queue[i + 1]
  BY RemoveAtProperties, DomainIsLen
<1> HIDE DEF q
<1>2. AtMostOne(q, type)
  <2> SUFFICES ASSUME NEW i \in DOMAIN q, NEW j \in DOMAIN q, q[i].type = type, q[j].type = type
               PROVE  i = j
    BY DEF AtMostOne
  <2> DEFINE at(x) == IF x < k THEN x ELSE x + 1
  <2>1. /\ at(i) \in DOMAIN queue /\ queue[at(i)] = q[i]
        /\ at(j) \in DOMAIN queue /\ queue[at(j)] = q[j]
    BY <1>1
  <2>2. at(i) = at(j)
    BY <2>1 DEF AtMostOne
  <2> QED
    BY <1>1, <2>2
<1>3. ASSUME queue[k].type = type, NEW i \in DOMAIN q, q[i].type = type
      PROVE  FALSE
  <2>1. CASE i < k
    <3>1. queue[i].type = type /\ i \in DOMAIN queue
      BY <1>1, <1>3, <2>1
    <3> QED
      BY <1>1, <1>3, <2>1, <3>1 DEF AtMostOne
  <2>2. CASE ~(i < k)
    <3>1. queue[i + 1].type = type /\ i + 1 \in DOMAIN queue /\ i + 1 # k
      BY <1>1, <1>3, <2>2
    <3> QED
      BY <1>3, <3>1 DEF AtMostOne
  <2> QED
    BY <2>1, <2>2
<1> QED
  BY <1>2, <1>3 DEF q

\* What is in a queue after Append, RemoveAt and Tail was there before.
LEMMA AppendElements ==
  ASSUME NEW S, NEW queue \in Seq(S), NEW m \in S
  PROVE  /\ \A i \in DOMAIN Append(queue, m) :
              Append(queue, m)[i] = m \/ \E j \in DOMAIN queue : Append(queue, m)[i] = queue[j]
         /\ \A j \in DOMAIN queue : \E i \in DOMAIN Append(queue, m) : Append(queue, m)[i] = queue[j]
         /\ \E i \in DOMAIN Append(queue, m) : Append(queue, m)[i] = m
<1> DEFINE q == Append(queue, m)
<1>1. /\ Len(q) = Len(queue) + 1 /\ Len(queue) \in Nat
      /\ DOMAIN q = 1..Len(q) /\ DOMAIN queue = 1..Len(queue)
      /\ q[Len(queue) + 1] = m /\ \A i \in 1..Len(queue) : q[i] = queue[i]
  BY AppendProperties, DomainIsLen
<1> HIDE DEF q
<1>2. \A i \in DOMAIN q : q[i] = m \/ \E j \in DOMAIN queue : q[i] = queue[j]
  BY <1>1
<1>3. \A j \in DOMAIN queue : j \in DOMAIN q
  BY <1>1
<1>4. \A j \in DOMAIN queue : \E i \in DOMAIN q : q[i] = queue[j]
  BY <1>1, <1>3
<1>5. Len(queue) + 1 \in DOMAIN q
  BY <1>1
<1> QED
  BY <1>1, <1>2, <1>4, <1>5 DEF q

LEMMA RemoveElements ==
  ASSUME NEW S, NEW queue \in Seq(S), NEW k \in DOMAIN queue
  PROVE  \A i \in DOMAIN RemoveAt(queue, k) :
           \E j \in DOMAIN queue : RemoveAt(queue, k)[i] = queue[j]
<1> DEFINE q == RemoveAt(queue, k)
<1>1. /\ Len(q) = Len(queue) - 1 /\ Len(queue) \in Nat
      /\ DOMAIN q = 1..Len(q) /\ DOMAIN queue = 1..Len(queue)
      /\ \A i \in 1..(Len(queue) - 1) : q[i] = IF i < k THEN queue[i] ELSE queue[i + 1]
  BY RemoveAtProperties, DomainIsLen
<1> HIDE DEF q
<1>2. ASSUME NEW i \in DOMAIN q
      PROVE  \E j \in DOMAIN queue : q[i] = queue[j]
  <2>1. i \in DOMAIN queue /\ i + 1 \in DOMAIN queue
    BY <1>1
  <2> QED
    BY <1>1, <2>1
<1> QED
  BY <1>2 DEF q

LEMMA TailElements ==
  ASSUME NEW S, NEW queue \in Seq(S), queue # << >>
  PROVE  /\ Tail(queue) \in Seq(S) /\ Head(queue) \in S
         /\ 1 \in DOMAIN queue /\ Head(queue) = queue[1]
         /\ Len(Tail(queue)) = Len(queue) - 1
         /\ \A i \in DOMAIN Tail(queue) :
              i + 1 \in DOMAIN queue /\ i + 1 # 1 /\ Tail(queue)[i] = queue[i + 1]
         /\ \A j \in DOMAIN queue \ {1} :
              j - 1 \in DOMAIN Tail(queue) /\ Tail(queue)[j - 1] = queue[j]
<1>1. /\ Len(queue) \in Nat \ {0} /\ DOMAIN queue = 1..Len(queue)
      /\ Tail(queue) \in Seq(S) /\ Head(queue) \in S /\ Head(queue) = queue[1]
      /\ Len(Tail(queue)) = Len(queue) - 1
      /\ \A i \in 1..Len(Tail(queue)) : Tail(queue)[i] = queue[i + 1]
  BY HeadTailProperties, EmptySeq, LenProperties
<1>2. DOMAIN Tail(queue) = 1..(Len(queue) - 1)
  BY <1>1, DomainIsLen
<1>3. \A j \in DOMAIN queue \ {1} : j - 1 \in 1..(Len(queue) - 1) /\ (j - 1) + 1 = j
  BY <1>1
<1>4. \A j \in DOMAIN queue \ {1} :
        j - 1 \in DOMAIN Tail(queue) /\ Tail(queue)[j - 1] = queue[j]
  BY <1>1, <1>2, <1>3
<1>5. \A i \in DOMAIN Tail(queue) :
        i + 1 \in DOMAIN queue /\ i + 1 # 1 /\ Tail(queue)[i] = queue[i + 1]
  BY <1>1, <1>2
<1> QED
  BY <1>1, <1>4, <1>5

\* MessageQueue::Push, case by case.
LEMMA PushedCases ==
  ASSUME NEW queue, Len(queue) \in Nat, NEW m, NEW replace \in BOOLEAN
  PROVE  /\ m.type \in {"req", "resp"} => Pushed(queue, m, replace) = Append(queue, m)
         /\ m.type = "cmd" /\ ~replace => Pushed(queue, m, replace) \in {queue, Append(queue, m)}
         /\ m.type = "cmd" /\ replace =>
              LET same == {i \in DOMAIN queue : queue[i].type = m.type}
                  last == CHOOSE i \in same : \A j \in same : j <= i
              IN Pushed(queue, m, replace)
                   = Append(IF same = {} THEN queue ELSE RemoveAt(queue, last), m)
BY DEF Pushed

\* A command takes the place of the one before it, and of nothing else.
LEMMA CommandPushed ==
  ASSUME QueueInv, NEW n \in Nat, NEW Q, Q = Pushed(inQueue, Message("cmd", n), Replace)
  PROVE  /\ Q \in Seq(ToDriver) /\ Len(Q) >= Len(inQueue)
         /\ Replace => /\ AtMostOne(Q, "cmd")
                       /\ \A i \in DOMAIN Q : Q[i].type = "cmd" => Q[i].n = n
                       /\ \E i \in DOMAIN Q : Q[i].type = "cmd"
         /\ AtMostOne(inQueue, "req") => AtMostOne(Q, "req")
         /\ \A i \in DOMAIN Q : Q[i].type = "req" => \E j \in DOMAIN inQueue : Q[i] = inQueue[j]
<1> DEFINE m == Message("cmd", n)
<1>1. m \in ToDriver /\ m.type = "cmd" /\ m.n = n
  BY DEF Message, ToDriver
<1>2. inQueue \in Seq(ToDriver) /\ Len(inQueue) \in Nat /\ Replace \in BOOLEAN
  BY LenProperties, LoopAssumption DEF QueueInv, LoopTypeOK
<1> HIDE DEF m
<1> DEFINE Fits == /\ Q \in Seq(ToDriver) /\ Len(Q) >= Len(inQueue)
                   /\ Replace => /\ AtMostOne(Q, "cmd")
                                 /\ \A i \in DOMAIN Q : Q[i].type = "cmd" => Q[i].n = n
                                 /\ \E i \in DOMAIN Q : Q[i].type = "cmd"
                   /\ AtMostOne(inQueue, "req") => AtMostOne(Q, "req")
                   /\ \A i \in DOMAIN Q :
                        Q[i].type = "req" => \E j \in DOMAIN inQueue : Q[i] = inQueue[j]
<1> SUFFICES Fits
  OBVIOUS
<1>3. ASSUME NEW q \in Seq(ToDriver), Q = Append(q, m), Len(q) >= Len(inQueue) - 1,
             Replace => \A i \in DOMAIN q : q[i].type # "cmd",
             AtMostOne(inQueue, "req") => AtMostOne(q, "req"),
             \A i \in DOMAIN q : \E j \in DOMAIN inQueue : q[i] = inQueue[j]
      PROVE  Fits
  <2>1. Q \in Seq(ToDriver) /\ Len(Q) = Len(q) + 1 /\ Len(q) \in Nat
    BY <1>1, <1>3, AppendProperties, LenProperties
  <2>2. AtMostOne(inQueue, "req") => AtMostOne(Q, "req")
    BY <1>1, <1>3, AppendKeepsOne
  <2>3. /\ \A i \in DOMAIN Append(q, m) :
             Append(q, m)[i] = m \/ \E j \in DOMAIN q : Append(q, m)[i] = q[j]
        /\ \E i \in DOMAIN Append(q, m) : Append(q, m)[i] = m
    <3>1. m \in ToDriver
      BY <1>1
    <3>2. \A i \in DOMAIN Append(q, m) :
            Append(q, m)[i] = m \/ \E j \in DOMAIN q : Append(q, m)[i] = q[j]
      BY <3>1, AppendElements
    <3>3. \E i \in DOMAIN Append(q, m) : Append(q, m)[i] = m
      BY <3>1, AppendElements
    <3> QED
      BY <3>2, <3>3
  <2>4. /\ \A i \in DOMAIN Q : Q[i] = m \/ \E j \in DOMAIN q : Q[i] = q[j]
        /\ \E i \in DOMAIN Q : Q[i] = m
    BY <1>3, <2>3
  <2>5. ASSUME Replace PROVE AtMostOne(Q, "cmd")
    <3>1. AtMostOne(q, "cmd") /\ \A i \in DOMAIN q : q[i].type # "cmd"
      BY <1>3, <2>5 DEF AtMostOne
    <3>2. AtMostOne(Append(q, m), "cmd")
      BY <1>1, <1>3, <3>1, AppendKeepsOne
    <3> QED
      BY <1>3, <3>2
  <2>6. Replace => /\ \A i \in DOMAIN Q : Q[i].type = "cmd" => Q[i].n = n
                   /\ \E i \in DOMAIN Q : Q[i].type = "cmd"
    BY <1>1, <1>3, <2>4
  <2>7. \A i \in DOMAIN Q : Q[i].type = "req" => \E j \in DOMAIN inQueue : Q[i] = inQueue[j]
    BY <1>1, <1>3, <2>4
  <2>8. Len(Q) >= Len(inQueue)
    BY <1>2, <1>3, <2>1
  <2> QED
    BY <2>1, <2>2, <2>5, <2>6, <2>7, <2>8
<1>4. CASE ~Replace
  <2>1. Q = inQueue \/ Q = Append(inQueue, m)
    BY <1>1, <1>2, <1>4, PushedCases DEF m
  <2>2. CASE Q = inQueue
    BY <1>2, <1>4, <2>2
  <2>3. CASE Q = Append(inQueue, m)
    BY <1>2, <1>3, <1>4, <2>3
  <2> QED
    BY <2>1, <2>2, <2>3
<1>5. CASE Replace
  <2> DEFINE same == {i \in DOMAIN inQueue : inQueue[i].type = m.type}
             last == CHOOSE i \in same : \A j \in same : j <= i
             q == IF same = {} THEN inQueue ELSE RemoveAt(inQueue, last)
  <2>1. Q = Append(q, m)
    BY <1>1, <1>2, <1>5, PushedCases DEF m
  <2>2. AtMostOne(inQueue, "cmd") /\ DOMAIN inQueue = 1..Len(inQueue)
    BY <1>2, <1>5, DomainIsLen DEF QueueInv, OneCommand
  <2>3. CASE same = {}
    <3>1. Q = Append(inQueue, m) /\ \A i \in DOMAIN inQueue : inQueue[i].type # "cmd"
      BY <1>1, <2>1, <2>3
    <3> HIDE DEF Fits
    <3> QED
      BY <1>2, <1>3, <3>1
  <2>4. CASE same # {}
    <3>1. PICK k \in same : same = {k}
      BY <1>1, <2>2, <2>4 DEF AtMostOne
    <3>2. k \in Nat
      BY <2>2, <1>2
    <3>3. last = k
      <4>1. k \in same /\ \A j \in same : j <= k
        BY <3>1, <3>2
      <4>2. last \in same
        BY <4>1
      <4> QED
        BY <3>1, <4>2
    <3> HIDE DEF last
    <3>4. q = RemoveAt(inQueue, k) /\ k \in DOMAIN inQueue /\ inQueue[k].type = "cmd"
      BY <1>1, <2>4, <3>1, <3>3
    <3> HIDE DEF q, same
    <3>5. q \in Seq(ToDriver) /\ Len(q) = Len(inQueue) - 1
      BY <1>2, <2>2, <3>4, RemoveAtProperties
    <3>6. \A i \in DOMAIN q : q[i].type # "cmd"
      BY <1>2, <2>2, <3>4, RemoveKeepsOne
    <3>7. AtMostOne(inQueue, "req") => AtMostOne(q, "req")
      BY <1>2, <3>4, RemoveKeepsOne
    <3>8. \A i \in DOMAIN q : \E j \in DOMAIN inQueue : q[i] = inQueue[j]
      BY <1>2, <3>4, RemoveElements
    <3>9. Len(q) \in Nat
      BY <3>5, LenProperties
    <3> QED
      BY <1>2, <1>3, <2>1, <3>5, <3>6, <3>7, <3>8, <3>9
  <2> QED
    BY <2>3, <2>4
<1> QED
  BY <1>2, <1>4, <1>5

\* Steps that touch no message, and let the requester neither begin nor end.
LEMMA MovesKeepQueues ==
  ASSUME QueueInv, UNCHANGED <<inQueue, commands, handled, respQueue, asked, got, givenUp>>,
         budget' \in Nat, mpc' \in {"test", "gap", "asleep", "awake", "handle", "publish"},
         mpc' = "handle" => budget' \in 1..Len(inQueue),
         rpc' \in {"idle", "check", "gap", "asleep", "awake"}, rpc' = "idle" <=> rpc = "idle"
  PROVE  QueueInv'
<1> USE DEF QueueInv
<1>1. LoopTypeOK'
  BY DEF LoopTypeOK
<1>2. BudgetCovered'
  BY DEF BudgetCovered
<1>3. OneCommand'
  BY DEF OneCommand, AtMostOne
<1>4. OneAnswer'
  BY DEF OneAnswer, AtMostOne
<1> QED
  BY <1>1, <1>2, <1>3, <1>4

LEMMA CommandKeepsQueues ==
  ASSUME QueueInv, NEW c \in Clients, PutCommand(c)
  PROVE  QueueInv'
<1> USE DEF QueueInv
<1> DEFINE Q == Pushed(inQueue, Message("cmd", commands + 1), Replace)
<1>0. commands + 1 \in Nat
  BY DEF LoopTypeOK
<1>1. /\ inQueue' = Q /\ commands' = commands + 1 /\ mpc' = Woken(mpc)
      /\ UNCHANGED <<budget, handled, respQueue, rpc, asked, got, givenUp>>
  BY DEF PutCommand, PushToDriver, requestVars
<1>2. /\ Q \in Seq(ToDriver) /\ Len(Q) >= Len(inQueue)
      /\ Replace => /\ AtMostOne(Q, "cmd")
                    /\ \A i \in DOMAIN Q : Q[i].type = "cmd" => Q[i].n = commands + 1
                    /\ \E i \in DOMAIN Q : Q[i].type = "cmd"
      /\ AtMostOne(inQueue, "req") => AtMostOne(Q, "req")
      /\ \A i \in DOMAIN Q : Q[i].type = "req" => \E j \in DOMAIN inQueue : Q[i] = inQueue[j]
  BY <1>0, CommandPushed
<1> HIDE DEF Q
<1>3. LoopTypeOK'
  BY <1>0, <1>1, <1>2 DEF LoopTypeOK, Woken
<1>4. BudgetCovered'
  <2>1. Len(inQueue) \in Nat /\ Len(Q) \in Nat
    BY <1>2, LenProperties DEF LoopTypeOK
  <2> QED
    BY <1>1, <1>2, <2>1 DEF BudgetCovered, Woken
<1>5. OneCommand'
  BY <1>1, <1>2 DEF OneCommand, AtMostOne
<1>6. OneAnswer'
  <2> SUFFICES ASSUME ~givenUp PROVE OneAnswer'
    BY <1>1 DEF OneAnswer
  <2>1. AtMostOne(inQueue', "req")
    BY <1>1, <1>2 DEF OneAnswer
  <2>2. \A i \in DOMAIN Q : Q[i].type = "req" =>
          Q[i].n = asked /\ rpc # "idle" /\ respQueue = << >>
    BY <1>2 DEF OneAnswer
  <2> QED
    BY <1>1, <2>1, <2>2 DEF OneAnswer, AtMostOne
<1> QED
  BY <1>3, <1>4, <1>5, <1>6

LEMMA RequestKeepsQueues ==
  ASSUME QueueInv, PutRequest
  PROVE  QueueInv'
<1> USE DEF QueueInv
<1> DEFINE m == Message("req", asked + 1)
<1>1. asked + 1 \in Nat /\ m \in ToDriver /\ m.type = "req" /\ m.n = asked + 1
  BY DEF LoopTypeOK, Message, ToDriver
<1>2. inQueue \in Seq(ToDriver) /\ Len(inQueue) \in Nat
  BY LenProperties DEF LoopTypeOK
<1>3. inQueue' = Append(inQueue, m)
  BY <1>1, <1>2, PushedCases, LoopAssumption DEF PutRequest, PushToDriver
<1>4. /\ asked' = asked + 1 /\ mpc' = Woken(mpc) /\ rpc = "idle" /\ rpc' = "check"
      /\ UNCHANGED <<budget, commands, handled, respQueue, got, givenUp>>
  BY DEF PutRequest, PushToDriver
<1> HIDE DEF m
<1>5. inQueue' \in Seq(ToDriver) /\ Len(inQueue') = Len(inQueue) + 1
  BY <1>1, <1>2, <1>3, AppendProperties
<1>6. LoopTypeOK'
  BY <1>1, <1>4, <1>5 DEF LoopTypeOK, Woken
<1>7. BudgetCovered'
  BY <1>2, <1>4, <1>5 DEF BudgetCovered, Woken
<1>8. \A i \in DOMAIN Append(inQueue, m) :
        Append(inQueue, m)[i] = m \/ \E j \in DOMAIN inQueue : Append(inQueue, m)[i] = inQueue[j]
  BY <1>1, <1>2, AppendElements
<1>9. \A j \in DOMAIN inQueue : \E i \in DOMAIN Append(inQueue, m) :
        Append(inQueue, m)[i] = inQueue[j]
  <2>1. inQueue \in Seq(ToDriver) /\ m \in ToDriver
    BY <1>1, <1>2
  <2>2. /\ Len(Append(inQueue, m)) = Len(inQueue) + 1
        /\ Append(inQueue, m) \in Seq(ToDriver)
        /\ \A j \in 1..Len(inQueue) : Append(inQueue, m)[j] = inQueue[j]
    BY <2>1, AppendProperties
  <2>3. DOMAIN inQueue = 1..Len(inQueue) /\ DOMAIN Append(inQueue, m) = 1..(Len(inQueue) + 1)
    BY <2>1, <2>2, DomainIsLen
  <2> QED
    BY <1>2, <2>2, <2>3
<1>10. OneCommand'
  <2> SUFFICES ASSUME Replace PROVE OneCommand'
    BY DEF OneCommand
  <2>1. AtMostOne(Append(inQueue, m), "cmd")
    BY <1>1, <1>2, AppendKeepsOne DEF OneCommand
  <2>2. \A i \in DOMAIN Append(inQueue, m) :
          Append(inQueue, m)[i].type = "cmd" => Append(inQueue, m)[i].n = commands
    BY <1>1, <1>8 DEF OneCommand
  <2>3. handled < commands => \E i \in DOMAIN Append(inQueue, m) : Append(inQueue, m)[i].type = "cmd"
    BY <1>9 DEF OneCommand
  <2> QED
    BY <1>3, <1>4, <2>1, <2>2, <2>3 DEF OneCommand, AtMostOne
<1>11. OneAnswer'
  <2> SUFFICES ASSUME ~givenUp PROVE OneAnswer'
    BY <1>4 DEF OneAnswer
  <2>1. respQueue = << >> /\ \A i \in DOMAIN inQueue : inQueue[i].type # "req"
    BY <1>4 DEF OneAnswer
  <2>2. AtMostOne(inQueue, "req")
    BY DEF OneAnswer
  <2>3. AtMostOne(Append(inQueue, m), "req")
    BY <1>1, <1>2, <2>1, <2>2, AppendKeepsOne
  <2>4. \A i \in DOMAIN Append(inQueue, m) :
          Append(inQueue, m)[i].type = "req" => Append(inQueue, m)[i].n = asked + 1
    BY <1>1, <1>8, <2>1
  <2>5. \A i \in DOMAIN respQueue : respQueue[i].n = asked + 1
    BY <2>1
  <2> QED
    BY <1>3, <1>4, <2>1, <2>3, <2>4, <2>5 DEF OneAnswer, AtMostOne
<1> QED
  BY <1>6, <1>7, <1>10, <1>11

LEMMA MessageKeepsQueues ==
  ASSUME QueueInv, NEW t \in Threads, ProcessMessage(t)
  PROVE  QueueInv'
<1> USE DEF QueueInv
<1> DEFINE m == Head(inQueue)
           Q == Tail(inQueue)
<1>1. /\ mpc = "handle" /\ budget' = budget - 1
      /\ mpc' = IF budget - 1 > 0 THEN "handle" ELSE "publish"
      /\ inQueue' = Q /\ UNCHANGED <<commands, asked, got, givenUp>>
      /\ \/ m.type = "cmd" /\ handled' = m.n /\ UNCHANGED <<respQueue, rpc>>
         \/ /\ m.type = "req" /\ UNCHANGED handled /\ rpc' = Woken(rpc)
            /\ respQueue' = Pushed(respQueue, Message("resp", m.n), TRUE)
  BY DEF ProcessMessage, Handling, PushToRequester
<1>2. inQueue \in Seq(ToDriver) /\ Len(inQueue) \in Nat
  BY LenProperties DEF LoopTypeOK
<1>3. budget \in 1..Len(inQueue) /\ inQueue # << >>
  <2>1. budget \in 1..Len(inQueue)
    BY <1>1 DEF BudgetCovered
  <2> QED
    BY <1>2, <2>1, EmptySeq
<1>4. /\ Q \in Seq(ToDriver) /\ m \in ToDriver
      /\ 1 \in DOMAIN inQueue /\ m = inQueue[1]
      /\ Len(Q) = Len(inQueue) - 1
      /\ \A i \in DOMAIN Q : i + 1 \in DOMAIN inQueue /\ i + 1 # 1 /\ Q[i] = inQueue[i + 1]
      /\ \A j \in DOMAIN inQueue \ {1} : j - 1 \in DOMAIN Q /\ Q[j - 1] = inQueue[j]
  BY <1>2, <1>3, TailElements
<1> HIDE DEF m, Q
<1>5. m.n \in Nat /\ DOMAIN Q = 1..Len(Q)
  BY <1>4, DomainIsLen DEF ToDriver
<1>6. LoopTypeOK'
  <2>1. budget - 1 \in Nat
    BY <1>2, <1>3
  <2>2. handled' \in Nat /\ rpc' \in {"idle", "check", "gap", "asleep", "awake"}
    BY <1>1, <1>5 DEF LoopTypeOK, Woken
  <2> QED
    BY <1>1, <1>4, <2>1, <2>2 DEF LoopTypeOK
<1>7. BudgetCovered'
  BY <1>1, <1>2, <1>3, <1>4 DEF BudgetCovered
<1>8. ASSUME NEW type, AtMostOne(inQueue, type)
      PROVE  AtMostOne(Q, type) /\ (m.type = type => \A i \in DOMAIN Q : Q[i].type # type)
  <2>1. \A i, j \in DOMAIN Q : Q[i].type = type /\ Q[j].type = type => i = j
    <3> SUFFICES ASSUME NEW i \in DOMAIN Q, NEW j \in DOMAIN Q, Q[i].type = type, Q[j].type = type
                 PROVE  i = j
      OBVIOUS
    <3>1. i + 1 = j + 1
      BY <1>4, <1>8 DEF AtMostOne
    <3> QED
      BY <1>5, <3>1
  <2> QED
    BY <1>4, <1>8, <2>1 DEF AtMostOne
<1>9. OneCommand'
  <2> SUFFICES ASSUME Replace PROVE OneCommand'
    BY DEF OneCommand
  <2>1. AtMostOne(Q, "cmd")
    BY <1>8 DEF OneCommand
  <2>2. \A i \in DOMAIN Q : Q[i].type = "cmd" => Q[i].n = commands
    BY <1>4 DEF OneCommand
  <2>3. CASE m.type = "cmd"
    <3>1. handled' = commands
      BY <1>1, <1>4, <2>3 DEF OneCommand
    <3> QED
      BY <1>1, <2>1, <2>2, <3>1 DEF OneCommand, AtMostOne, LoopTypeOK
  <2>4. CASE m.type # "cmd"
    <3>1. handled' = handled
      BY <1>1, <2>4
    <3>2. handled < commands => \E i \in DOMAIN Q : Q[i].type = "cmd"
      <4> HAVE handled < commands
      <4>1. PICK j \in DOMAIN inQueue : inQueue[j].type = "cmd"
        BY DEF OneCommand
      <4>2. j \in DOMAIN inQueue \ {1}
        BY <1>4, <2>4, <4>1
      <4>3. j - 1 \in DOMAIN Q /\ Q[j - 1] = inQueue[j]
        BY <1>4, <4>2
      <4> QED
        BY <4>1, <4>3
    <3> QED
      BY <1>1, <2>1, <2>2, <3>1, <3>2 DEF OneCommand, AtMostOne
  <2> QED
    BY <2>3, <2>4
<1>10. OneAnswer'
  <2> SUFFICES ASSUME ~givenUp PROVE OneAnswer'
    BY <1>1 DEF OneAnswer
  <2>1. AtMostOne(Q, "req")
    BY <1>8 DEF OneAnswer
  <2>2. \A i \in DOMAIN Q : Q[i].type = "req" =>
          Q[i].n = asked /\ rpc # "idle" /\ respQueue = << >>
    BY <1>4 DEF OneAnswer
  <2>3. CASE m.type = "cmd"
    BY <1>1, <2>1, <2>2, <2>3 DEF OneAnswer, AtMostOne
  <2>4. CASE m.type = "req"
    <3>1. m.n = asked /\ rpc # "idle" /\ respQueue = << >>
      BY <1>4, <2>4 DEF OneAnswer
    <3>2. \A i \in DOMAIN Q : Q[i].type # "req"
      BY <1>8, <2>4 DEF OneAnswer
    <3> DEFINE r == Message("resp", m.n)
    <3>3. r \in ToRequester /\ r.type = "resp" /\ r.n = asked
      BY <1>5, <3>1 DEF Message, ToRequester
    <3>4. rpc' = Woken(rpc) /\ respQueue' = Pushed(respQueue, r, TRUE)
      BY <1>1, <2>4
    <3>5. << >> \in Seq(ToRequester) /\ Len(<< >>) = 0
      OBVIOUS
    <3> HIDE DEF r
    <3>6. respQueue' = Append(<< >>, r)
      BY <3>1, <3>3, <3>4, <3>5, PushedCases
    <3>7. /\ respQueue' \in Seq(ToRequester) /\ Len(respQueue') = 1 /\ respQueue'[1] = r
          /\ DOMAIN respQueue' = 1..1
      BY <3>3, <3>5, <3>6
    <3>8. rpc' # "idle"
      BY <3>1, <3>4 DEF Woken
    <3> QED
      BY <1>1, <2>1, <3>2, <3>3, <3>7, <3>8 DEF OneAnswer, AtMostOne
  <2> QED
    BY <1>1, <2>3, <2>4
<1> QED
  BY <1>6, <1>7, <1>9, <1>10

LEMMA RequesterKeepsQueues ==
  ASSUME QueueInv, RequestStep \/ Drain
  PROVE  QueueInv'
<1> USE DEF QueueInv
<1>1. UNCHANGED <<inQueue, mpc, budget, commands, handled, asked>> /\ givenUp' \in BOOLEAN
  BY DEF RequestStep, CheckSubscriptions, RequestSleeps, RequestTimesOut, PopAnswer, Drain,
         loopVars, LoopTypeOK
<1>2. rpc' \in {"idle", "check", "gap", "asleep", "awake"}
  BY DEF RequestStep, CheckSubscriptions, RequestSleeps, RequestTimesOut, PopAnswer, Drain,
         LoopTypeOK
<1>3. LoopTypeOK' /\ BudgetCovered' /\ OneCommand'
  BY <1>1, <1>2 DEF LoopTypeOK, BudgetCovered, OneCommand, AtMostOne
<1> SUFFICES ASSUME ~givenUp' PROVE OneAnswer'
  BY <1>3 DEF OneAnswer
<1>4. ~givenUp
  BY DEF RequestStep, CheckSubscriptions, RequestSleeps, RequestTimesOut, PopAnswer, Drain
<1>5. CASE CheckSubscriptions \/ RequestSleeps \/ RequestTimesOut
  <2>1. UNCHANGED <<respQueue, got>> /\ rpc # "idle" /\ rpc' # "idle"
    BY <1>5 DEF CheckSubscriptions, RequestSleeps, RequestTimesOut
  <2> QED
    BY <1>1, <1>4, <2>1 DEF OneAnswer, AtMostOne
<1>6. CASE PopAnswer
  <2>1. respQueue \in Seq(ToRequester) /\ Len(respQueue) <= 1 /\ rpc = "awake"
    BY <1>4, <1>6 DEF OneAnswer, PopAnswer
  <2>2. CASE Answers = {}
    <3>1. rpc' = "check" /\ UNCHANGED <<respQueue, got>>
      BY <1>6, <2>2 DEF PopAnswer
    <3> QED
      BY <1>1, <1>4, <2>1, <3>1 DEF OneAnswer, AtMostOne
  <2>3. ASSUME NEW i \in Answers, got' = respQueue[i].n, respQueue' = RemoveAt(respQueue, i),
               rpc' = "idle"
        PROVE  OneAnswer'
    <3>1. i \in 1..Len(respQueue) /\ i \in DOMAIN respQueue /\ Len(respQueue) \in Nat
      BY <2>1, <2>3, DomainIsLen DEF Answers
    <3> DEFINE n == Len(respQueue)
    <3>2. Len(respQueue) = 1
      <4>1. n \in Nat /\ n <= 1 /\ i \in 1..n
        BY <2>1, <3>1
      <4> HIDE DEF n
      <4>2. n = 1
        BY <4>1
      <4> QED
        BY <4>2 DEF n
    <3>3. got' = asked
      BY <1>4, <2>3, <3>1 DEF OneAnswer
    <3>4. respQueue' \in Seq(ToRequester) /\ Len(respQueue') = 0
      <4>1. /\ RemoveAt(respQueue, i) \in Seq(ToRequester)
            /\ Len(RemoveAt(respQueue, i)) = Len(respQueue) - 1
        BY <2>1, <3>1, RemoveAtProperties
      <4> QED
        BY <2>3, <3>2, <4>1
    <3>5. respQueue' = << >>
      BY <3>4, EmptySeq
    <3>6. \A j \in DOMAIN inQueue : inQueue[j].type # "req"
      BY <1>4, <3>2 DEF OneAnswer
    <3> QED
      BY <1>1, <1>4, <2>3, <3>3, <3>4, <3>5, <3>6 DEF OneAnswer, AtMostOne
  <2> QED
    BY <1>6, <2>2, <2>3 DEF PopAnswer
<1>7. CASE Drain
  BY <1>4, <1>7 DEF Drain, OneAnswer
<1> QED
  BY <1>5, <1>6, <1>7 DEF RequestStep

LEMMA LoopKeepsQueues ==
  ASSUME QueueInv, NEW t \in Threads, LoopStep(t)
  PROVE  QueueInv'
<1>0. inQueue \in Seq(ToDriver) /\ Len(inQueue) \in Nat /\ budget \in Nat /\ 0 \in Nat
  BY LenProperties DEF QueueInv, LoopTypeOK
<1>1. CASE ProcessMessage(t)
  BY <1>1, MessageKeepsQueues
<1>2. CASE ProcessMessages(t)
  BY <1>0, <1>2, MovesKeepQueues
  DEF ProcessMessages, Handling, requestVars, QueueInv, LoopTypeOK
<1>3. CASE Cancelled(t) \/ MainReturns(t) \/ WaitTest(t) \/ WaitSleeps(t) \/ WaitTimesOut(t)
             \/ PublishData(t)
  <2>1. /\ UNCHANGED <<inQueue, commands, handled, respQueue, asked, got, givenUp, rpc>>
        /\ budget' \in Nat /\ mpc' \in {"test", "gap", "asleep", "awake", "publish"}
    BY <1>0, <1>3
    DEF Cancelled, MainReturns, WaitTest, WaitSleeps, WaitTimesOut, PublishData, requestVars
  <2> QED
    BY <2>1, MovesKeepQueues DEF QueueInv, LoopTypeOK
<1> QED
  BY <1>1, <1>2, <1>3 DEF LoopStep

LEMMA QueueInvHolds == DriverInit /\ [][DriverNext]_vars => []QueueInv
<1>1. DriverInit => QueueInv
  <2> SUFFICES ASSUME DriverInit PROVE QueueInv
    OBVIOUS
  <2>1. \A S : << >> \in Seq(S) /\ Len(<< >>) = 0
    OBVIOUS
  <2>2. LoopTypeOK /\ BudgetCovered
    BY <2>1 DEF DriverInit, LoopTypeOK, BudgetCovered
  <2>3. inQueue = << >> /\ respQueue = << >> /\ DOMAIN inQueue = {} /\ DOMAIN respQueue = {}
    BY DEF DriverInit
  <2>4. OneCommand
    BY <2>3 DEF DriverInit, OneCommand, AtMostOne
  <2>5. OneAnswer
    BY <2>1, <2>3 DEF DriverInit, OneAnswer, AtMostOne
  <2> QED
    BY <2>2, <2>4, <2>5 DEF QueueInv
<1>2. QueueInv /\ [DriverNext]_vars => QueueInv'
  <2> SUFFICES ASSUME QueueInv, [DriverNext]_vars PROVE QueueInv'
    OBVIOUS
  <2>0. LoopTypeOK /\ BudgetCovered
    BY DEF QueueInv
  <2>1. ASSUME UNCHANGED <<inQueue, budget, commands, handled, requestVars>>,
               mpc' = mpc \/ mpc' = Woken(mpc)
        PROVE  QueueInv'
    <3>1. /\ UNCHANGED <<inQueue, budget, commands, handled, respQueue, asked, got, givenUp, rpc>>
          /\ mpc' \in {"test", "gap", "asleep", "awake", "handle", "publish"}
          /\ mpc' = "handle" => mpc = "handle"
      BY <2>0, <2>1 DEF requestVars, Woken, LoopTypeOK
    <3> QED
      BY <2>0, <3>1, MovesKeepQueues DEF LoopTypeOK, BudgetCovered
  <2>2. CASE UNCHANGED vars
    BY <2>1, <2>2 DEF vars, loopVars
  <2>3. ASSUME NEW s \in Subscribers, Subscription(s) PROVE QueueInv'
    BY <2>1, <2>3 DEF Subscription
  <2>4. CASE ServerEnds
    BY <2>1, <2>4 DEF ServerEnds
  <2>5. CASE Starts
    BY <2>1, <2>5 DEF Starts, loopVars
  <2>6. ASSUME NEW c \in Clients, PutCommand(c) PROVE QueueInv'
    BY <2>6, CommandKeepsQueues
  <2>7. ASSUME NEW t \in Threads, LoopStep(t) PROVE QueueInv'
    BY <2>7, LoopKeepsQueues
  <2>8. CASE PutRequest
    BY <2>8, RequestKeepsQueues
  <2>9. CASE RequestStep \/ Drain
    BY <2>9, RequesterKeepsQueues
  <2> QED
    BY <2>2, <2>3, <2>4, <2>5, <2>6, <2>7, <2>8, <2>9 DEF DriverNext
<1> QED
  BY <1>1, <1>2, PTL

\* However commands burst and the thread stops and starts in between, the last one
\* a client has put into an overwriting queue stays there until it is handled: it
\* takes the place of the one before it, and only handling takes it out.
THEOREM NewestCommandKeptHolds == DriverInit /\ [][DriverNext]_vars => []NewestCommandKept
<1>1. QueueInv => NewestCommandKept
  <2> SUFFICES ASSUME QueueInv, Replace, handled < commands
               PROVE  \E i \in DOMAIN inQueue : inQueue[i] = Message("cmd", commands)
    BY DEF NewestCommandKept
  <2>1. PICK i \in DOMAIN inQueue : inQueue[i].type = "cmd" /\ inQueue[i].n = commands
    BY DEF QueueInv, OneCommand
  <2>2. inQueue[i] \in ToDriver
    BY DomainIsLen, ElementOfSeq DEF QueueInv, LoopTypeOK
  <2>3. inQueue[i] = [type |-> inQueue[i].type, n |-> inQueue[i].n]
    BY <2>2 DEF ToDriver
  <2> QED
    BY <2>1, <2>3 DEF Message
<1> QED
  BY <1>1, QueueInvHolds, PTL

\* Until the first request is given up, whatever TimedRequest returns is the answer
\* to the request it was called with, although the requester's queue matches
\* answers by their signature alone.
THEOREM AnswerIsOwnHolds == DriverInit /\ [][DriverNext]_vars => []AnswerIsOwn
<1>1. QueueInv => AnswerIsOwn
  BY DEF QueueInv, OneAnswer, LoopTypeOK, AnswerIsOwn
<1> QED
  BY <1>1, QueueInvHolds, PTL

\* The counting of subscriptions holds of the driver at work as well.
THEOREM DriverCountsSubscriptions ==
  DriverInit /\ [][DriverNext]_vars => []SubscriptionsCounted
BY DriverLivesLifeCycle, SubscriptionsCountedHolds, PTL
=============================================================================
