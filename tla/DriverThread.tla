---------------------------- MODULE DriverThread ----------------------------
(***************************************************************************)
(* The life of a threaded driver of the Player server: subscriptions       *)
(* (Device and Driver), the thread they start and stop (ThreadedDriver),   *)
(* and the publishing of data to the queues that are subscribed.           *)
(*                                                                         *)
(* Subscribers are clients, all served by the server's main thread, and    *)
(* another driver, which subscribes from a thread of its own.  A step is   *)
(* what happens under one lock without waiting; a lock is held in the      *)
(* places of the code its predicate names.                                 *)
(***************************************************************************)
EXTENDS Naturals, Sequences, FiniteSets

CONSTANTS
  Clients,    \* subscribers served by the main thread
  Requester,  \* a driver that subscribes from its own thread
  Threads,    \* what pthread_create can give
  NoQueue,    \* an empty place in Device::queues
  NoThread    \* driverthread after the memset

Subscribers == Clients \cup {Requester}

ASSUME DriverAssumption ==
  /\ Requester \notin Clients
  /\ NoQueue \notin Subscribers
  /\ NoThread \notin Threads

VARIABLES
  spc,          \* where each subscriber is in Subscribe or Unsubscribe
  queues,       \* Device::queues, a subscriber's queue or NoQueue at each place
  subscriptions,
  ThreadState,
  driverthread,
  SetupSuccessful,
  tpc,          \* where each thread is in DummyMain
  cancelled,    \* threads with a cancellation pending
  barrier,      \* SetupBarrier: "idle", "waiting" for DummyMain, or "passed"
  publishing,   \* the place Publish has found taken and will push to, or 0
  term,         \* where the main thread is in Terminate
  aborted       \* an assertion failed or freed memory was used

lifeVars == <<spc, queues, subscriptions, ThreadState, driverthread, SetupSuccessful,
              tpc, cancelled, barrier, publishing, term, aborted>>

DeviceLocked == \E s \in Subscribers : spc[s] \in {"listed", "setup", "barrier"}
SubscriptionLocked ==
  \/ \E s \in Subscribers : spc[s] \in {"setup", "barrier", "shutdown"}
  \/ term = "shutdown"
AccessLocked ==
  \/ barrier # "idle" \/ publishing # 0
  \/ \E t \in Threads : tpc[t] = "unlock"

\* The main thread serves one client at a time, and none once it terminates.
MayAct(s) ==
  s \in Clients => term = "no" /\ \A c \in Clients : spc[c] \in {"out", "in"}

Init ==
  /\ spc = [s \in Subscribers |-> "out"]
  /\ queues = <<NoQueue, NoQueue>>
  /\ subscriptions = 0
  /\ ThreadState = "STOPPED"
  /\ driverthread = NoThread
  /\ SetupSuccessful = FALSE
  /\ tpc = [t \in Threads |-> "none"]
  /\ cancelled = {}
  /\ barrier = "idle"
  /\ publishing = 0
  /\ term = "no"
  /\ aborted = FALSE

-----------------------------------------------------------------------------
(* Starting and stopping the thread, with the access lock held.            *)

\* StartThread in state STOPPED: pthread_create, then wait for DummyMain.
\* tpcs is what the threads' places are otherwise.
CreateThread(tpcs) ==
  \E t \in Threads :
    /\ t = CHOOSE u \in Threads : tpcs[u] = "none"
    /\ tpcs[t] = "none"
    /\ tpc' = [tpcs EXCEPT ![t] = "born"]
    /\ driverthread' = t
    /\ cancelled' = cancelled \ {t}
    /\ barrier' = "waiting"

\* A plausible slip: not waiting for the thread.
StopThread_AtOnce ==
  /\ ThreadState' = IF ThreadState \in {"RUNNING", "RESTARTING"} THEN "STOPPED" ELSE ThreadState
  /\ cancelled' = IF ThreadState = "RUNNING" THEN cancelled \cup {driverthread} ELSE cancelled

StopThread ==
  /\ ThreadState' = IF ThreadState \in {"RUNNING", "RESTARTING"} THEN "STOPPING" ELSE ThreadState
  /\ cancelled' = IF ThreadState = "RUNNING" THEN cancelled \cup {driverthread} ELSE cancelled

(* A subscription.                                                         *)

FirstFree == CHOOSE i \in DOMAIN queues :
               /\ queues[i] = NoQueue
               /\ \A j \in 1..(i - 1) : queues[j] # NoQueue

\* The queue is listed before the driver is asked.  The list doubles when it is
\* full; a Publish that is looking at the old one then reads freed memory.
ListQueue(s) ==
  /\ spc[s] = "out" /\ MayAct(s) /\ ~DeviceLocked
  /\ spc' = [spc EXCEPT ![s] = "listed"]
  /\ \/ /\ \E i \in DOMAIN queues : queues[i] = NoQueue
        /\ queues' = [queues EXCEPT ![FirstFree] = s]
        /\ UNCHANGED aborted
     \/ /\ \A i \in DOMAIN queues : queues[i] # NoQueue
        /\ queues' = Append(queues, s) \o [i \in 1..(Len(queues) - 1) |-> NoQueue]
        /\ aborted' \in IF publishing # 0 THEN BOOLEAN ELSE {FALSE}
  /\ UNCHANGED <<subscriptions, ThreadState, driverthread, SetupSuccessful, tpc,
                 cancelled, barrier, publishing, term>>

Subscribe(s) ==
  /\ spc[s] = "listed" /\ ~SubscriptionLocked
  /\ \/ /\ subscriptions = 0
        /\ spc' = [spc EXCEPT ![s] = "setup"]
        /\ UNCHANGED subscriptions
     \/ /\ subscriptions > 0
        /\ spc' = [spc EXCEPT ![s] = "in"]
        /\ subscriptions' = subscriptions + 1
  /\ UNCHANGED <<queues, ThreadState, driverthread, SetupSuccessful, tpc, cancelled,
                 barrier, publishing, term, aborted>>

\* A plausible slip: not waiting for a thread that is stopping.
Setup_AtOnce(s) ==
  /\ spc[s] = "setup" /\ ~AccessLocked
  /\ CreateThread(tpc)
  /\ spc' = [spc EXCEPT ![s] = "barrier"]
  /\ UNCHANGED <<queues, subscriptions, ThreadState, SetupSuccessful, publishing, term, aborted>>

\* Setup: StartThread while no thread is stopping creates one and waits at the
\* barrier; a thread that is stopping is asked to restart.
Setup(s) ==
  /\ spc[s] = "setup" /\ ~AccessLocked
  /\ \/ /\ ThreadState = "STOPPED"
        /\ CreateThread(tpc)
        /\ spc' = [spc EXCEPT ![s] = "barrier"]
        /\ UNCHANGED <<subscriptions, ThreadState>>
     \/ /\ ThreadState # "STOPPED"
        /\ ThreadState' = IF ThreadState = "STOPPING" THEN "RESTARTING" ELSE ThreadState
        /\ spc' = [spc EXCEPT ![s] = "in"]
        /\ subscriptions' = subscriptions + 1
        /\ UNCHANGED <<driverthread, tpc, cancelled, barrier>>
  /\ UNCHANGED <<queues, SetupSuccessful, publishing, term, aborted>>

\* StartThread behind the barrier, in Setup or in DummyMainQuit.
Started ==
  /\ barrier = "passed"
  /\ barrier' = "idle"
  /\ ThreadState' = "RUNNING"
  /\ spc' = [s \in Subscribers |-> IF spc[s] = "barrier" THEN "in" ELSE spc[s]]
  /\ subscriptions' = IF \E s \in Subscribers : spc[s] = "barrier"
                      THEN subscriptions + 1 ELSE subscriptions
  /\ tpc' = [t \in Threads |-> IF tpc[t] = "restart" THEN "unlock" ELSE tpc[t]]
  /\ UNCHANGED <<queues, driverthread, SetupSuccessful, cancelled, publishing, term, aborted>>

-----------------------------------------------------------------------------
(* The end of a subscription, and of the server.                           *)

\* A plausible slip: counting down before Shutdown, which counts down as well.
Unsubscribe_CountsFirst(s) ==
  /\ spc[s] = "in" /\ MayAct(s) /\ ~SubscriptionLocked
  /\ spc' = [spc EXCEPT ![s] = IF subscriptions = 1 THEN "shutdown" ELSE "unlist"]
  /\ subscriptions' = IF subscriptions > 0 THEN subscriptions - 1 ELSE 0
  /\ UNCHANGED <<queues, ThreadState, driverthread, SetupSuccessful, tpc, cancelled,
                 barrier, publishing, term, aborted>>

\* A subscriber only unsubscribes from what it is subscribed to.  After Terminate
\* the driver refuses, and the queue stays in the list.
Unsubscribe(s) ==
  /\ spc[s] = "in" /\ MayAct(s) /\ ~SubscriptionLocked
  /\ spc' = [spc EXCEPT ![s] = CASE subscriptions = 0 -> "out"
                                 [] subscriptions = 1 -> "shutdown"
                                 [] OTHER -> "unlist"]
  /\ subscriptions' = IF subscriptions > 1 THEN subscriptions - 1 ELSE subscriptions
  /\ UNCHANGED <<queues, ThreadState, driverthread, SetupSuccessful, tpc, cancelled,
                 barrier, publishing, term, aborted>>

Shutdown(s) ==
  /\ spc[s] = "shutdown" /\ ~AccessLocked
  /\ StopThread
  /\ subscriptions' = subscriptions - 1
  /\ spc' = [spc EXCEPT ![s] = "unlist"]
  /\ UNCHANGED <<queues, driverthread, SetupSuccessful, tpc, barrier, publishing, term, aborted>>

UnlistQueue(s) ==
  /\ spc[s] = "unlist" /\ ~DeviceLocked
  /\ spc' = [spc EXCEPT ![s] = "out"]
  /\ LET places == {i \in DOMAIN queues : queues[i] = s}
         first == CHOOSE i \in places : \A j \in places : i <= j
     IN queues' = IF places = {} THEN queues ELSE [queues EXCEPT ![first] = NoQueue]
  /\ UNCHANGED <<subscriptions, ThreadState, driverthread, SetupSuccessful, tpc,
                 cancelled, barrier, publishing, term, aborted>>

Terminate ==
  /\ term = "no" /\ ~SubscriptionLocked
  /\ \A c \in Clients : spc[c] \in {"out", "in"}
  /\ term' = IF subscriptions > 0 THEN "shutdown" ELSE "wait"
  /\ UNCHANGED <<spc, queues, subscriptions, ThreadState, driverthread, SetupSuccessful,
                 tpc, cancelled, barrier, publishing, aborted>>

TerminateShutdown ==
  /\ term = "shutdown" /\ ~AccessLocked
  /\ StopThread
  /\ subscriptions' = 0
  /\ term' = "wait"
  /\ UNCHANGED <<spc, queues, driverthread, SetupSuccessful, tpc, barrier, publishing, aborted>>

\* ThreadedDriver::Terminate polls ThreadState without a lock.
TerminateReturns ==
  /\ term = "wait" /\ ThreadState = "STOPPED"
  /\ term' = "done"
  /\ UNCHANGED <<spc, queues, subscriptions, ThreadState, driverthread, SetupSuccessful,
                 tpc, cancelled, barrier, publishing, aborted>>

-----------------------------------------------------------------------------
(* The thread.                                                             *)

\* Both are at the barrier: DummyMain has reset SetupSuccessful before.
BarrierPassed(t) ==
  /\ tpc[t] = "born" /\ barrier = "waiting"
  /\ barrier' = "passed"
  /\ tpc' = [tpc EXCEPT ![t] = "setup"]
  /\ SetupSuccessful' = FALSE
  /\ UNCHANGED <<spc, queues, subscriptions, ThreadState, driverthread, cancelled,
                 publishing, term, aborted>>

MainSetup(t) ==
  /\ tpc[t] = "setup"
  /\ \/ /\ SetupSuccessful' = TRUE
        /\ tpc' = [tpc EXCEPT ![t] = "main"]
     \/ /\ tpc' = [tpc EXCEPT ![t] = "quit"]
        /\ UNCHANGED SetupSuccessful
  /\ UNCHANGED <<spc, queues, subscriptions, ThreadState, driverthread, cancelled,
                 barrier, publishing, term, aborted>>

\* Main returns, or the thread is cancelled at one of its cancellation points;
\* DummyMainQuit is the cleanup handler in both cases.  (Publish is no such point.)
MainEnds(t) ==
  /\ tpc[t] = "main" /\ publishing = 0
  /\ tpc' = [tpc EXCEPT ![t] = "quit"]
  /\ UNCHANGED <<spc, queues, subscriptions, ThreadState, driverthread, SetupSuccessful,
                 cancelled, barrier, publishing, term, aborted>>

\* A plausible slip: StartThread while the state is still RESTARTING does nothing.
DummyMainQuit_KeepsState(t) ==
  /\ tpc[t] = "quit" /\ ~AccessLocked
  /\ ThreadState' = IF ThreadState = "RESTARTING" THEN ThreadState ELSE "STOPPED"
  /\ tpc' = [tpc EXCEPT ![t] = "unlock"]
  /\ driverthread' = NoThread
  /\ UNCHANGED <<spc, queues, subscriptions, SetupSuccessful, cancelled, barrier,
                 publishing, term, aborted>>

\* After MainQuit, which runs if SetupSuccessful: a restart creates the new thread
\* from within the old one.  The access lock is held until DummyMainUnlocks.
DummyMainQuit(t) ==
  /\ tpc[t] = "quit" /\ ~AccessLocked
  /\ ThreadState' = "STOPPED"
  /\ \/ /\ ThreadState = "RESTARTING"
        /\ CreateThread([tpc EXCEPT ![t] = "restart"])
     \/ /\ ThreadState # "RESTARTING"
        /\ tpc' = [tpc EXCEPT ![t] = "unlock"]
        /\ driverthread' = NoThread
        /\ UNCHANGED <<cancelled, barrier>>
  /\ UNCHANGED <<spc, queues, subscriptions, SetupSuccessful, publishing, term, aborted>>

\* The thread's last use of the driver comes after the state that Terminate polls.
DummyMainUnlocks(t) ==
  /\ tpc[t] = "unlock"
  /\ tpc' = [tpc EXCEPT ![t] = "none"]
  /\ UNCHANGED <<spc, queues, subscriptions, ThreadState, driverthread, SetupSuccessful,
                 cancelled, barrier, publishing, term, aborted>>

\* The next place at or after i that Publish finds taken, or 0.
NextTaken(i) ==
  LET taken == {j \in i..Len(queues) : queues[j] # NoQueue}
  IN IF taken = {} THEN 0 ELSE CHOOSE j \in taken : \A k \in taken : j <= k

\* Publish takes the driver's lock; Subscribe and Unsubscribe change the list
\* under the device's.
Publish(t) ==
  /\ tpc[t] = "main" /\ ~AccessLocked
  /\ publishing' = NextTaken(1)
  /\ UNCHANGED <<spc, queues, subscriptions, ThreadState, driverthread, SetupSuccessful,
                 tpc, cancelled, barrier, term, aborted>>

\* The place is read again: QueuePointer::operator-> asserts that it is taken.
PublishPush(t) ==
  /\ tpc[t] = "main" /\ publishing # 0
  /\ aborted' = (queues[publishing] = NoQueue)
  /\ publishing' = NextTaken(publishing + 1)
  /\ UNCHANGED <<spc, queues, subscriptions, ThreadState, driverthread, SetupSuccessful,
                 tpc, cancelled, barrier, term>>

SubscriberStep(s) ==
  \/ ListQueue(s) \/ Subscribe(s) \/ Setup(s)
  \/ Unsubscribe(s) \/ Shutdown(s) \/ UnlistQueue(s)

TerminateStep == Terminate \/ TerminateShutdown \/ TerminateReturns

ThreadStep(t) ==
  \/ BarrierPassed(t) \/ MainSetup(t) \/ MainEnds(t)
  \/ DummyMainQuit(t) \/ DummyMainUnlocks(t)
  \/ Publish(t) \/ PublishPush(t)

\* The process ends when Terminate has returned, or breaks off.
ServerUp == ~aborted /\ term # "done"

Next ==
  /\ ServerUp
  /\ \/ \E s \in Subscribers : SubscriberStep(s)
     \/ Started
     \/ TerminateStep
     \/ \E t \in Threads : ThreadStep(t)

LifeCycle == Init /\ [][Next]_lifeVars

-----------------------------------------------------------------------------
(* Properties.                                                             *)

\* Type invariant.
LifeTypeOK ==
  /\ spc \in [Subscribers -> {"out", "listed", "setup", "barrier", "in", "shutdown", "unlist"}]
  /\ queues \in Seq(Subscribers \cup {NoQueue})
  /\ subscriptions \in Nat
  /\ ThreadState \in {"STOPPED", "RUNNING", "STOPPING", "RESTARTING"}
  /\ driverthread \in Threads \cup {NoThread}
  /\ SetupSuccessful \in BOOLEAN
  /\ tpc \in [Threads -> {"none", "born", "setup", "main", "quit", "restart", "unlock"}]
  /\ cancelled \subseteq Threads
  /\ barrier \in {"idle", "waiting", "passed"}
  /\ publishing \in Nat
  /\ term \in {"no", "shutdown", "wait", "done"}
  /\ aborted \in BOOLEAN

\* There is only ever one thread between MainSetup and MainQuit, however
\* subscriptions, restarts and threads that end by themselves overlap, and a thread
\* that runs Main is one whose MainQuit will run (driver.h:531-534).
OneMainAtATime ==
  \A t \in Threads :
    /\ tpc[t] \in {"setup", "main", "quit"} =>
         \A u \in Threads \ {t} : tpc[u] \notin {"setup", "main", "quit"}
    /\ tpc[t] = "main" => SetupSuccessful

\* When the state is STOPPED and no start is under way, no thread is left that has
\* more to do with the driver than to give up its lock (threaded_driver.cc:225-227);
\* in the other states there is one, and it is the one StopThread would cancel.
StoppedMeansDone ==
  barrier = "idle" =>
    \A t \in Threads :
      tpc[t] \notin {"none", "unlock"} <=> ThreadState # "STOPPED" /\ t = driverthread

\* Terminate says that it will "wait for the thread to actually stop"
\* (threaded_driver.cc:256), and the destructor says the same (line 103): when
\* Terminate has returned and nobody is starting another thread, none is left that has
\* yet to use the driver.
TerminatedMeansGone ==
  term = "done" /\ barrier = "idle" => \A t \in Threads : tpc[t] = "none"

\* Until the server ends, the count that starts and stops the thread is that of the
\* subscribers whose subscription was granted and not yet given up, and exactly the
\* queues of those who have called Subscribe and not finished Unsubscribe are listed,
\* once each.
SubscriptionsCounted ==
  term = "no" =>
    /\ subscriptions = Cardinality({s \in Subscribers : spc[s] \in {"in", "shutdown"}})
    /\ \A s \in Subscribers :
         Cardinality({i \in DOMAIN queues : queues[i] = s}) = IF spc[s] = "out" THEN 0 ELSE 1
=============================================================================
