---------------------------- MODULE PlayerDriver ----------------------------
(***************************************************************************)
(* A threaded driver of the Player server at work: the life cycle of       *)
(* DriverThread together with the driver's message queue (MessageQueue),   *)
(* the main loop that waits for it, the commands of clients, and another   *)
(* driver that makes requests and waits for the answer in its own queue    *)
(* (Device::TimedRequest).                                                 *)
(*                                                                         *)
(* Push and the DataAvailable that follows it are one step: the one        *)
(* consumer of a queue is the one thread that waits for it, and whether    *)
(* the message is there before its last test or after it went to sleep is  *)
(* what it can tell apart.                                                 *)
(***************************************************************************)
EXTENDS DriverThread, SequencesExt

CONSTANTS
  Replace,      \* whether the driver's queue overwrites commands
  Maxlen,       \* and what it holds of them if not
  WaitTimed,    \* whether the main loop gives Wait a timeout
  Patience,     \* timeouts of a request in seconds, rounded up; 0 is for ever
  MaxMessages   \* bound: commands and requests made

ASSUME LoopAssumption ==
  /\ Replace \in BOOLEAN /\ WaitTimed \in BOOLEAN
  /\ {Maxlen, MaxMessages} \cup Patience \subseteq Nat

VARIABLES
  inQueue,     \* the driver's InQueue
  mpc,         \* where the main loop is
  budget,      \* messages ProcessMessages may still pop
  commands, handled,  \* number of the last command put, and of the last handled
  respQueue,   \* the requester's InQueue: the answers in it
  filtered,    \* its filter_on, set to the answers
  rpc,         \* where the requester is in TimedRequest
  patience,    \* the timeout left
  asked, got,  \* number of the last request, and of the answer last returned
  givenUp      \* whether some request has returned without its answer

loopVars == <<inQueue, mpc, budget, commands, handled>>
requestVars == <<respQueue, filtered, rpc, patience, asked, got, givenUp>>
vars == <<lifeVars, loopVars, requestVars>>

Message(type, n) == [type |-> type, n |-> n]

DriverInit ==
  /\ Init
  /\ inQueue = <<>> /\ mpc = "test" /\ budget = 0
  /\ commands = 0 /\ handled = 0
  /\ respQueue = <<>> /\ filtered = FALSE /\ rpc = "idle" /\ patience = 0
  /\ asked = 0 /\ got = 0 /\ givenUp = FALSE

-----------------------------------------------------------------------------
(* MessageQueue::Push.                                                     *)

\* A plausible slip: keeping the message that is there.
Pushed_KeepsOld(queue, m, replace) ==
  IF replace /\ \E i \in DOMAIN queue : queue[i].type = m.type THEN queue ELSE Append(queue, m)

\* Data and commands replace the last message with the same signature where the
\* queue says so, and are dropped by a full queue where it does not; requests and
\* answers are neither.
Pushed(queue, m, replace) ==
  LET same == {i \in DOMAIN queue : queue[i].type = m.type}
      last == CHOOSE i \in same : \A j \in same : j <= i
  IN IF m.type \in {"req", "resp"} THEN Append(queue, m)
     ELSE IF replace THEN Append(IF same = {} THEN queue ELSE RemoveAt(queue, last), m)
     ELSE IF Len(queue) >= Maxlen THEN queue ELSE Append(queue, m)

\* DataAvailable releases whoever sleeps in Wait.
Woken(place) == IF place = "asleep" THEN "awake" ELSE place

PushToDriver(m) ==
  /\ inQueue' = Pushed(inQueue, m, Replace)
  /\ mpc' = Woken(mpc)

\* The requester's filter lets the answer through.
PushToRequester(m) ==
  /\ respQueue' = Pushed(respQueue, m, TRUE)
  /\ rpc' = Woken(rpc)

-----------------------------------------------------------------------------
(* Subscriptions, with what they do to the loop: Shutdown and Terminate    *)
(* end with a DataAvailable, and so does the cancellation of a sleeper.    *)

Subscription(s) ==
  /\ s = Requester => rpc = "idle"
  /\ SubscriberStep(s)
  /\ mpc' = IF spc[s] = "shutdown" THEN Woken(mpc) ELSE mpc
  /\ UNCHANGED <<inQueue, budget, commands, handled, requestVars>>

ServerEnds ==
  /\ TerminateStep
  /\ mpc' = IF term = "shutdown" THEN Woken(mpc) ELSE mpc
  /\ UNCHANGED <<inQueue, budget, commands, handled, requestVars>>

Starts ==
  /\ \/ Started
     \/ \E t \in Threads :
          BarrierPassed(t) \/ MainSetup(t) \/ DummyMainQuit(t) \/ DummyMainUnlocks(t)
  /\ UNCHANGED <<loopVars, requestVars>>

PutCommand(c) ==
  /\ spc[c] = "in" /\ MayAct(c) /\ commands + asked < MaxMessages
  /\ commands' = commands + 1
  /\ PushToDriver(Message("cmd", commands + 1))
  /\ UNCHANGED <<lifeVars, budget, handled, requestVars>>

-----------------------------------------------------------------------------
(* The main loop: Wait, ProcessMessages, Publish.                          *)

InMain(t) == tpc[t] = "main" /\ t \notin cancelled

\* A thread is cancelled where it tests for it: in Wait, before the first message
\* and after each.
Cancelled(t) ==
  /\ t \in cancelled /\ mpc # "gap"
  /\ MainEnds(t)
  /\ mpc' = "test" /\ budget' = 0
  /\ UNCHANGED <<inQueue, commands, handled, requestVars>>

\* A driver may leave its loop, for instance when its hardware fails.
MainReturns(t) ==
  /\ mpc = "publish"
  /\ MainEnds(t)
  /\ mpc' = "test" /\ budget' = 0
  /\ UNCHANGED <<inQueue, commands, handled, requestVars>>

\* Wait tests the queue under one lock and sleeps under another.
WaitTest(t) ==
  /\ InMain(t) /\ mpc = "test"
  /\ mpc' = IF inQueue = <<>> THEN "gap" ELSE "awake"
  /\ UNCHANGED <<lifeVars, inQueue, budget, commands, handled, requestVars>>

WaitSleeps(t) ==
  /\ tpc[t] = "main" /\ mpc = "gap"
  /\ mpc' = "asleep"
  /\ UNCHANGED <<lifeVars, inQueue, budget, commands, handled, requestVars>>

WaitTimesOut(t) ==
  /\ tpc[t] = "main" /\ mpc = "asleep" /\ WaitTimed
  /\ mpc' = "awake"
  /\ UNCHANGED <<lifeVars, inQueue, budget, commands, handled, requestVars>>

\* After ProcessMessages comes the driver's own work and Publish.
Handling(n) == budget' = n /\ mpc' = IF n > 0 THEN "handle" ELSE "publish"

ProcessMessages(t) ==
  /\ InMain(t) /\ mpc = "awake"
  /\ Handling(Len(inQueue))
  /\ UNCHANGED <<lifeVars, inQueue, commands, handled, requestVars>>

\* Plausible slips: leaving the message in the queue; not answering what is unhandled.
ProcessMessage_Peeks(t) ==
  /\ InMain(t) /\ mpc = "handle" /\ Head(inQueue).type = "req"
  /\ Handling(budget - 1)
  /\ PushToRequester(Message("resp", Head(inQueue).n))
  /\ UNCHANGED <<lifeVars, inQueue, handled, commands, filtered, patience, asked, got, givenUp>>

ProcessMessage_NoNack(t) ==
  /\ InMain(t) /\ mpc = "handle"
  /\ Handling(budget - 1)
  /\ inQueue' = Tail(inQueue)
  /\ handled' = IF Head(inQueue).type = "cmd" THEN Head(inQueue).n ELSE handled
  /\ UNCHANGED <<lifeVars, commands, requestVars>>

\* A command takes effect; a request is answered, handled or not.
ProcessMessage(t) ==
  /\ InMain(t) /\ mpc = "handle"
  /\ Handling(budget - 1)
  /\ inQueue' = Tail(inQueue)
  /\ LET m == Head(inQueue)
     IN \/ /\ m.type = "cmd"
           /\ handled' = m.n
           /\ UNCHANGED <<respQueue, rpc>>
        \/ /\ m.type = "req"
           /\ PushToRequester(Message("resp", m.n))
           /\ UNCHANGED handled
  /\ UNCHANGED <<lifeVars, commands, filtered, patience, asked, got, givenUp>>

\* A round publishes once or not at all; the data in the subscribers' queues is not
\* followed.
PublishData(t) ==
  /\ mpc = "publish"
  /\ \/ Publish(t) \/ PublishPush(t)
     \/ tpc[t] = "main" /\ publishing = 0 /\ UNCHANGED lifeVars
  /\ mpc' = IF publishing' = 0 THEN "test" ELSE "publish"
  /\ UNCHANGED <<inQueue, budget, commands, handled, requestVars>>

LoopStep(t) ==
  \/ Cancelled(t) \/ MainReturns(t) \/ WaitTest(t) \/ WaitSleeps(t) \/ WaitTimesOut(t)
  \/ ProcessMessages(t) \/ ProcessMessage(t) \/ PublishData(t)

-----------------------------------------------------------------------------
(* Device::TimedRequest of the other driver, and its own ProcessMessages.  *)

\* The filter is set after the request is put; an answer in between is found by the
\* test in Wait all the same.
PutRequest ==
  /\ rpc = "idle" /\ spc[Requester] = "in" /\ commands + asked < MaxMessages
  /\ asked' = asked + 1
  /\ patience' \in Patience
  /\ PushToDriver(Message("req", asked + 1))
  /\ filtered' = TRUE
  /\ rpc' = "check"
  /\ UNCHANGED <<lifeVars, budget, commands, handled, respQueue, got, givenUp>>

Answers == {i \in DOMAIN respQueue : respQueue[i].type = "resp"}

\* The loop's condition, and Wait's test.  Without subscriptions it returns with
\* the filter still on.
CheckSubscriptions ==
  /\ rpc = "check"
  /\ \/ /\ subscriptions = 0
        /\ rpc' = "idle" /\ givenUp' = TRUE
     \/ /\ subscriptions > 0
        /\ rpc' = IF Answers = {} THEN "gap" ELSE "awake"
        /\ UNCHANGED givenUp
  /\ UNCHANGED <<lifeVars, loopVars, respQueue, filtered, patience, asked, got>>

RequestSleeps ==
  /\ rpc = "gap"
  /\ rpc' = "asleep"
  /\ UNCHANGED <<lifeVars, loopVars, respQueue, filtered, patience,
                 asked, got, givenUp>>

\* Every Wait lasts a second at most; only the last one of a timeout gives up.
RequestTimesOut ==
  /\ rpc = "asleep"
  /\ \/ /\ patience = 1
        /\ rpc' = "idle" /\ filtered' = FALSE /\ givenUp' = TRUE
     \/ /\ patience # 1
        /\ rpc' = "awake"
        /\ UNCHANGED <<filtered, givenUp>>
  /\ UNCHANGED <<lifeVars, loopVars, respQueue, patience, asked, got>>

PopAnswer ==
  /\ rpc = "awake"
  /\ patience' = IF patience > 1 THEN patience - 1 ELSE patience
  /\ \/ /\ Answers = {}
        /\ rpc' = "check"
        /\ UNCHANGED <<respQueue, filtered, got>>
     \/ \E i \in Answers :
          /\ \A j \in Answers : i <= j
          /\ got' = respQueue[i].n
          /\ respQueue' = RemoveAt(respQueue, i)
          /\ filtered' = FALSE
          /\ rpc' = "idle"
  /\ UNCHANGED <<lifeVars, loopVars, asked, givenUp>>

\* Between requests it pops what its filter lets through; it has no use for answers.
Drain ==
  /\ rpc = "idle" /\ respQueue # <<>>
  /\ respQueue' = IF filtered THEN SelectSeq(respQueue, LAMBDA m : m.type # "resp") ELSE <<>>
  /\ UNCHANGED <<lifeVars, loopVars, filtered, rpc, patience, asked, got, givenUp>>

RequestStep == CheckSubscriptions \/ RequestSleeps \/ RequestTimesOut \/ PopAnswer

-----------------------------------------------------------------------------
DriverNext ==
  /\ ServerUp
  /\ \/ \E s \in Subscribers : Subscription(s)
     \/ ServerEnds \/ Starts
     \/ \E c \in Clients : PutCommand(c)
     \/ \E t \in Threads : LoopStep(t)
     \/ PutRequest \/ RequestStep \/ Drain

\* Nobody has to subscribe, unsubscribe, send, ask or end the server, and no driver
\* has to leave its loop by itself; what has begun goes on, and whoever waits for a
\* lock that is released again and again gets it.
DriverFairSpec ==
  /\ DriverInit /\ [][DriverNext]_vars
  /\ \A s \in Subscribers :
       SF_vars(ServerUp /\ spc[s] \notin {"out", "in"} /\ Subscription(s))
  /\ SF_vars(ServerUp /\ term # "no" /\ ServerEnds)
  /\ WF_vars(ServerUp /\ Starts)
  /\ WF_vars(ServerUp /\ \E t \in Threads : LoopStep(t) /\ ~MainReturns(t))
  /\ WF_vars(ServerUp /\ RequestStep)

-----------------------------------------------------------------------------
(* Properties.                                                             *)

\* With an overwriting queue, whatever a client has commanded last is what the
\* driver will act upon last: no burst of commands, and no stop and start of the
\* thread, loses the newest one (message.cc:487-535, driver.h:291).
NewestCommandKept ==
  Replace /\ handled < commands =>
    \E i \in DOMAIN inQueue : inQueue[i] = Message("cmd", commands)

\* A request that returns an answer returns its own, as long as none before it has
\* been given up (the note at device.h:175-178 says what happens then).
AnswerIsOwn == rpc = "idle" /\ ~givenUp => got = asked

\* As long as the server is up, a change of the thread's state that was asked for
\* takes place: a restart, which was asked for while the old thread was ending,
\* unless a shutdown comes before it; and the thread's end, wherever it is, when the
\* last subscriber has gone and nobody subscribes again, which is all that
\* ThreadedDriver::Terminate waits for.
ThreadStateSettles ==
  /\ ThreadState = "RESTARTING" ~> ThreadState \in {"RUNNING", "STOPPING"} \/ ~ServerUp
  /\ subscriptions = 0
       ~> ThreadState = "STOPPED" \/ (\E s \in Subscribers : spc[s] # "out") \/ ~ServerUp

\* A request ends, with its answer, its timeout or the subscription's end, unless
\* the driver leaves its main loop or the server is no longer up.
RequestsEnd ==
  rpc = "check" ~> rpc = "idle" \/ (\A t \in Threads : tpc[t] # "main") \/ ~ServerUp

\* What the documentation of Wait says (driver.h:147-156, 666-675): it returns at
\* once when a message is waiting.
NoSleepOverMessages == mpc = "asleep" /\ inQueue # <<>> ~> mpc # "asleep" \/ ~ServerUp
=============================================================================
