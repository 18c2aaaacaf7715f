# TLA+ models of mrs-optimization

The repository holds the programs of a research project on multi-robot systems:
a mowing simulation whose robots are driven through Player/Stage, an optimizer
that looks for the cheapest team of robots for a set of missions, a demonstrator
of a robot alliance, a service to control a robot remotely, and a number of
small tools.  Its own code is Java, without tests; the Player server it drives its
robots through is C++ and vendored.  This directory models the parts with a logic
of their own, and of the server the core every robot depends on, checks them with
TLC and proves what matters most with TLAPS.

Paths below are relative to `src/`; `SC` stands for
`PhD-MRS-Sim-Control/src/phd/mrs/sim/control`, `EA` for
`PhD-MRS-Optimization-EA/src/phd/mrs/heuristic`.

## 1. Inventory

### Mowing simulation (`SC`)

**World controller** (`WorldCtrl.java`).  State: an unbounded queue of grass to
be moved out of sight, one of straw bales to be shown, a pool of 100 bale names,
a `HashSet` of the grass mowed.  Operations: robots call `addGrassItemToQueue`
and `addStrawItemToQueue` from their own threads; the controller's thread drains
both queues in `process()` and sets poses in the simulator.  Hard: the set is not
synchronised; a name is polled before the bale is put; the pool runs dry and
answers null; the drain ends only when it finds the queue empty; a request to
the simulator may fail.  Correct means: no name is used twice, a bale once shown
stays, every queued grass is moved, the count of mowed grass is that of the grass
handed over.

**Control loop** (`AbstractPlayerCtrl.java`).  State: the stop signal, the
client, the thread's interrupt flag.  It runs `beforeStart`, `process` and sleep
in a loop, `afterEnd`.  Hard: it interrupts *itself* when it catches something,
unchecked exceptions pass it by, the stop signal is a plain field.  Correct
means: a stop signal ends the loop whatever `process()` does, and the hooks run.

**Player client** (`JavaPlayerLib/src/javaclient3/PlayerClient.java`, vendored).
State: `isThreaded`, `isRunning`, socket, reader thread; the devices subscribed
to, the last of them and a flag that it is there.  Every controller subscribes to
its devices in `beforeStart`, then starts the reader thread.  Hard: the fields are
plain, each written by one thread and polled by another; an exception in the
reader leaves `isRunning` true; any acknowledgement ends the wait for a
subscription; data of a device that is not known stays in the stream, as the padding
of a refused driver's name does, and the
server subscribes a client (`libplayertcp/playertcp.cc:1202`) before it queues the
acknowledgement (line 1271).  Correct means: a subscription made before the reader
starts returns the device asked for, nobody reads on out of step without having been
given an exception, `setNotThreaded`
and `close` return, and the reader is gone afterwards.

**Mower and its brains** (`RobotMowerCtrl.java`, `brains/RobotMowerBrains.java`,
`behavior/*`).  State: a network of behaviours, each with a cached output and the
request it was made for; the last sensor data; the load.  One call of `process()`
senses, asks for speed and course, hands the grass in sight over to the world
controller, asks for a bale when the load is full, and ticks.  Hard: sensors
deliver at their own pace, so a round mixes new and old data; three callers ask
the same output in one round; the load fills and empties as a side effect of
reading outputs.  Correct means: obstacles have priority over grass, grass over
wandering; one random draw a round; bales are made of full loads of different
grass.

**Player server core** (`robot-sim/player/libplayercore`: `threaded_driver.cc`,
`driver.cc`, `device.cc`, `message.cc`).  State: for each driver a thread with a
state machine (STOPPED, RUNNING, STOPPING, RESTARTING), a count of subscriptions, a
list of subscribed queues, and a message queue with a filter.  Operations: subscribe
and unsubscribe start and stop the thread; clients and other drivers push commands
and requests; the thread waits, processes messages and publishes; a driver may
request something of another and wait for the answer; the server ends with
`Terminate`.  Hard: three locks (device, subscription, driver) guard overlapping
state, `Terminate` polls without any, a thread is cancelled while others subscribe,
`Wait` tests under one lock and sleeps under another, answers may come after the
timeout.  Correct means: one thread at a time, none with more to do than unlock
once the state reads STOPPED, no command lost to an older one, a request ends and gets
its own answer.

Other parts: behaviours no brain connects, `Ranger8Signal` (reduction of 360
ranges to eight sectors), demos, start-up and a debug window.

### Alliance (`MRSAlliance/src/mrs/alliance/impl`)

**Message service** (`MessageService.java`, `Message.java`).  State: a list of
robots, one list of messages with a time to live.  Operations: register,
broadcast, fetch the next message for a robot, `process()` once a round.  Hard:
one list for all, removal from it by fetch and by age.  Correct means: everybody
gets its own news, in order, once per registration, unless it expired.  Robots
and tasks are a beginning (`Robot.process` is unsupported); two windows.

### Optimizer (`EA`)

**Project** (`object/Project.java`).  `generateAgents` puts together every set of
components that obeys the constraints and is of use for a mission, by counting
bit patterns.  Hard: the width of an int.

**Optimizer** (`MRSOptimizer.java`, `object/Evolution.java`).  Stores the
project, evolves in steps that grow while nothing changes, stores a record when
the best fitness changed, stores the end time.  Hard: every transaction may fail;
the program is long-running and may be killed; the records are all a reader
(`PhD-MRS-Optimization-View`) has.  Correct means: the records reproduce the
curve of fitness, and only a complete evolution has an end time.

**Operating costs** (`ga/fitness/opcost/*`).  `EvenUpDownOpCostCalculator` shares
the work of missions among agents; `AverageOpCostCalculator` is the one the
fitness functions use.  Hard: a do-while loop that moves time to and fro, with
partial effects.  Correct means: it ends, work is never lost, the mission never
gets longer.

Other parts: fitness and cost formulas, genes, islands, greenhouse missions,
experiments.

### RemBot (`RemBot-Ctr`)

**Service and configuration** (`RemBotServiceImpl.java`, `ServerConfig.java`,
`RemBotCtr.java`).  State: the settings of the process and the file `config.xml`;
the RMI registry, the exported service, the bound name.  Operations: every start
reads the file into the defaults and writes it back, then makes a registry, exports
and binds; `shutDown()`, called remotely, undoes that in three steps.  Hard: any step
may fail or be cut off by a kill; two callers may be in `stop()` at once; the registry
refuses to unbind for a caller on another host; two servers
may start in one directory.  Correct means: what the user set survives, a name that
can be found can be called, and a call from the server's own host ends the process,
which gives the port back.

### The rest

The Swing client of RemBot, `PHD-MRS-Sim-Generator` (world files with random
grass), `PhD Combinations` (Swing tool), `IK Solver` (inverse kinematics by
gradient), `robot-sim/rkv` (course exercises), and the vendored Player, Stage and
Java client.  `PROJECT.json` lists every part with its status.

### How the parts interact

A mower's thread and the world controller's thread are control loops; each has a
Player client with a reader thread.  Mowers share one world controller, through
its queues only.  The world controller and the mowers act on one simulation.
Every client of the simulation
is served by the main thread of the Player server, which passes its commands to the
drivers' threads.  Optimizer, project and cost calculators are one sequential program with a
database behind it; the viewer reads that database later.  The alliance and
RemBot are programs of their own.

## 2. Modules

| Module | Code | Kind |
| --- | --- | --- |
| `WorldCtrl` | `SC/WorldCtrl.java`, `util/StageObject.java` | component |
| `SimWorld` | what `WorldCtrl` promises | abstract specification |
| `WorldCtrlProofs` | | theorems |
| `PlayerClient` | `PlayerClient.java`: reader thread and owner of a client | component |
| `PlayerSession` | `PlayerClient.java`, the server's `playertcp.cc`; extends `PlayerClient` | composition |
| `PlayerSessionProofs` | | theorems, also about `PlayerCtrl` |
| `DriverThread` | `libplayercore/threaded_driver.cc`, subscriptions of `driver.cc`, `device.cc` | component |
| `PlayerDriver` | `libplayercore/message.cc`, `Driver::ProcessMessages`, `Device::TimedRequest`; extends `DriverThread` | composition |
| `PlayerDriverProofs` | | theorems |
| `PlayerCtrl` | `SC/AbstractPlayerCtrl.java` | component |
| `MowerBrains` | `SC/brains`, `SC/behavior` | operators on a brain |
| `MowerSim` | `SC/RobotMowerCtrl.java`; extends `WorldCtrl` and `MowerBrains` | composition |
| `MowerSimProofs` | | theorems; extends `WorldCtrlProofs` |
| `MessageService` | `MRSAlliance/.../MessageService.java` | component |
| `Mailboxes` | what `MessageService` promises | abstract specification |
| `MessageServiceProofs` | | theorems |
| `EvenUpDown` | `EA/ga/fitness/opcost/EvenUpDownOpCostCalculator.java`, `AgentMissionMatrix.java` | component |
| `EvenUpDownProofs` | | theorems |
| `Project` | `EA/object/Project.java` and missions | component |
| `MRSOptimizer` | `EA/MRSOptimizer.java`; extends `Project` | composition |
| `MRSOptimizerProofs` | | theorems |
| `RemBotServer` | `RemBot-Ctr`: `RemBotServiceImpl.java`, `ServerConfig.java`, `RemBotCtr.main` | component |
| `RemBotServerProofs` | | theorems |
| `MC*` | values of the constants | instances |

Definitions named `X_Something` beside `X` are plausible slips of a programmer:
with one of them in place of `X` a property is violated.  `PROJECT.json`
("mutants") says which; the specifications do not use them.

### WorldCtrl

One step is one access to shared state.  For robot `r`, `at[r]` says where in the
controller's code its thread is: `AddGrassItemToQueue` is the `put`, `CountGrass`
the `grass.add` that follows, `PollStrawName` and `AddStrawItemToQueue` the `poll`
and the `put` of the straw method; `DropGrassItem` and `DropStrawItem` are the same
puts when the thread was interrupted, with the catch clause that logs and goes on.
`CountGrass` overlapping another robot's has the outcomes an unsynchronised
`HashSet` has: the element is in, the element is lost, the thread never comes back.
(Unsynchronised access is undefined only between calls that overlap; `raced`
remembers that there were any.)  The controller's thread goes through `LoopTest`,
`MowTest`/`MowItem`, `ShowTest`/`ShowItem`: the tests and the polls of the two
while loops.  `simPose` is what the simulator was told.  A request that fails takes
the thread to `dead`, with the item already out of the queue; so does the null
name.  Left out: the start time, logging.

`SimWorld` has neither threads nor a pool: requests of each kind are applied one
by one in the order accepted, a bale gets a name no other bale had, and a bale goes
without a name only when fewer names are free than there are users.  The
refinement maps the free names to the pool and the names robots hold, so a name
polled and lost to an interrupt is a step of its own there (`LoseName`).

### PlayerClient, PlayerSession and PlayerCtrl

`PlayerClient` has the two flags twice: as written and as seen by the other
thread, with `SeeThreaded` and `SeeRunning` in between, because nothing in the code
publishes the writes (except `Thread.start` for what was written before it).
`owner` is in `runThreaded`, `setNotThreaded`, the same on behalf of `close`, or
done; `reader` follows `run()`.  `ReaderFails` is the exception `run()` does not
catch: `isRunning` stays true.

`PlayerSession` puts a server and a stream around it.  `outbox` holds the requests
the server has not handled, `inbox` the messages nobody has read; a message is its
type and its device.  `ServerAnswers` handles subscriptions in order and commands
when their driver gets to them; `Grant` lets a driver with a thread of its own
(`threadedDrivers`, some of `Threadable`, chosen once) publish before the acknowledgement is queued.
`Takes` is one `read()`, by the reader thread (`ReaderTakes`) or by the owner inside
`requestDeviceAccess` (`OwnerTakes`).  `inStep` says whether the next bytes are a
header, and `StepAfter` what a read does to that: data of an unknown device or two
threads in `read()` at once may put an end to it, and so does a refusal, which is
thrown before the padding of the driver's name is read (whether there is padding
depends on the length of the name, which is left open).  From then on a read may take
anything for anything, so properties only speak of sessions in step.  Commands go to
the devices of `Simulations`, any number of them before an answer is read, up to the
bound `MaxUnderWay`.  `GetRequestedDevice` is the loop on
`readyRequestDevice` with what comes after it; `newpd` and `readyRequestDevice` have
an owner's view of their own, as the flags have.  Each device is asked for once, as
every program of the repository does.

`PlayerCtrl` follows `run()` of the control loop over any `process()`: it returns,
throws what it declares, throws something unchecked, or swallows a pending
interrupt (`swallows`, chosen once; `WorldCtrl` does that, mowers do not).
`Caught` is the body of both catch clauses.  (Its specification is `CtrlSpec`, so that one
module of proofs can extend it and `PlayerSession`.)  `failures` and `rounds` count up to
`MaxRounds`.

### DriverThread and PlayerDriver

A step is what happens under one lock without waiting.  `DeviceLocked`,
`SubscriptionLocked` and `AccessLocked` say who holds each of the three locks, by
where the holders are: `spc` for subscribers, `barrier` for whoever waits at
`SetupBarrier`, `publishing` for a `Publish` under way, `term` for `Terminate`.
`ListQueue`, `Subscribe`, `Setup` and `Started` are `Device::Subscribe` with what it
calls; `Unsubscribe`, `Shutdown`, `UnlistQueue` the way back, in the code's order:
first the count, then the list.  A thread goes through `BarrierPassed`, `MainSetup`,
`MainEnds`, `DummyMainQuit`, which for a restart creates the next thread from
within the old one, and `DummyMainUnlocks`: the thread's last use of the driver comes
after the state that `Terminate` polls without a lock.  Clients are served by one
thread, so one of them acts at a time (`MayAct`); `Requester` is a driver that subscribes from its own.

`Publish` reads the list of queues under another lock than the one under which it is
changed.  What comes of that is undefined in C++; `aborted` holds that an assertion
failed or freed memory was used, and the models promise nothing afterwards.
`ServerUp` is that neither this happened nor `Terminate` returned.

`PlayerDriver` adds the main loop (`mpc`): `WaitTest` and `WaitSleeps` are the two
locks of `MessageQueue::Wait`, `gap` the place between them; `ProcessMessages` fixes
how many messages `ProcessMessage` takes.  `Pushed` is `Push` with its replacing and
dropping, its tests in the code's order.  `rpc` follows `TimedRequest` of the requester, with a timeout of 0 (for
ever) or of some waits of a second, and `Drain` is its own `ProcessMessages` between
requests, through the filter that a request may leave on.  A push and the
`DataAvailable` after it are one step, as the one consumer cannot tell them apart.

### RemBotServer

`pc[p]` says where `main()` of each process is, `call[c]` where each caller is, each
served by a thread of its own in the server it called.  A settings file is the
values from its top and whether it is closed: `SaveOpens` empties it, `SaveWrites`
fills it, `SaveFails` and `Killed` leave it as it is then.  `Load` unmarshals into
the instance that already holds the defaults, because `createServerConfig` returns
it.  `Unbind` is refused for a caller of `Remote` (the registry of the Java 1.7 the
project is built for asks where the call comes from), and then nothing is unbound.
A process whose `main()` has returned ends when its service is no longer exported, even
before `UnexportRegistry`, since the registry, served by daemon threads, keeps no
process alive; `Ends` gives back the port.  Left out: that after `main()` nothing but the
export refers to the service, so the garbage collector may take it away earlier.

### MowerBrains and MowerSim

A brain is a record: last sensor data, load, wander course, and the cached answer
of each network of behaviours with the tick it was given for.  Distances are
classes of readings the behaviours tell apart, courses and speeds classes of
outputs, and ticks are told apart from the one before only (every output is asked
for in every round, so a cached id is never older).  `Sense` is the part of
`process()` up to the command: three sensors, each fresh or as it was, and three
questions to the position network with what the random generator gives.  `Mow`,
`MowReturns`, `CheckLoad`, `AskForBale`, `PutBale`, `EndRound` are the rest, using
`WorldCtrl`'s actions, so that everybody else may move between any two accesses to
the queues.  `SetOut` is what the answers lead to.  `SpeedFails` ends the thread in the
middle of a round.  Left out: the grass count kept for the window.

### MessageService and Mailboxes

The list only grows at its end, so it is modelled as the set of its messages, each
with the number under which it was added.  `Mailboxes` is a queue per robot, from
whose front letters are taken and expire; the refinement puts each robot's messages in
the order of their numbers and turns the time to live into an age.

### EvenUpDown

One step is one search for the cell to take time from (`Pick`), one unit of time
given to somebody else (`Spread`), the search that finds nobody (`NoTaker`), or the
end of a pass (`Settle`).  Costs are compared by cross multiplication, so no
division is needed; amounts are whole numbers and `valueStep` is 1 (scale 0).
`costed` is the matrix the result is the cost of, which is not always the matrix
the loop ends with: units given before `NoTaker` stay.

### Project and MRSOptimizer

A component is its index, an agent a set of components, a mission a set of
alternatives.  `GenerateAgent` is one pattern of the loop; `Shl` is Java's shift,
which takes the distance modulo the width.  `MRSOptimizer` follows
`startEvolution`; every transaction either succeeds, or ends the program with or
without having been committed; `Killed` may happen at any time.  The genetic
algorithm is outside: the fittest solution may be anything after each step.

## 3. Runs

| Run | Bounds | Question and result |
| --- | --- | --- |
| `world_queues` | 2 robots (one may be interrupted), 2 grass, 2 names, 2 grasses and 1 bale queued before another is asked for, fair | `NameInOnePlace`, `MowedCount`, `NamelessOnlyWhenDry`, `ImplementsSimWorld`, `QueuedGrassIsMoved`, `QueuedBaleIsShown` hold under every interleaving |
| `client_session` | 2 devices the server lists (the driver of one may have a thread, the other is sent commands) and 1 it does not, 1 unread message before the server publishes another, 2 commands and answers under way before another command, fair | owner, reader and server race: `StreamInStep`, `AskedAloneIsGot`, `WaitedMeansGone`, `CloseReturnsIfFed`, `ReaderGoesAway` hold |
| `player_driver` | 1 client and 1 requesting driver, 2 threads, 2 commands or requests, timeouts 0 and 1, `Wait` with a timeout, an overwriting queue, fair | `OneMainAtATime`, `StoppedMeansDone`, `SubscriptionsCounted`, `NewestCommandKept`, `AnswerIsOwn`, `RequestsEnd`, `ThreadStateSettles` hold |
| `lost_wakeup` | as above, but 1 message, and `Wait` without a timeout | `NoSleepOverMessages` is violated (section 6) |
| `thread_not_gone` | as `lost_wakeup` | `TerminatedMeansGone` is violated (section 6) |
| `ctrl_loop` | counters up to 3 | `FailedLoopNeverSleeps`, `StopEndsLoop` hold |
| `mower_alone` | 1 mower, 2 grass, full load 2, 1 name, 3 classes of ranges, grass seen or not, course up or down, queues of 1, the link may fail, fair | `BaleBacked`, `ReactsToSenses`, `OneDrawPerRound`, `FullLoadIsBaled` hold |
| `alliance_messages` | 2 robots, 2 tasks, 3 registrations, 4 messages, 3 broadcasts, lifetime 3 | `OldestFirst`, `NewsInOrder`, `ImplementsMailboxes` hold |
| `even_up_down` | every input of 3 agents, 2 missions, energies 1 and 4, performances 0, 2, 5, works 3 and 11 | `WorkCovered`, `NeverLonger`, `Terminates` hold |
| `free_time_left` | as above | `NoFreeTimeLeft` is violated (section 6) |
| `optimizer` | 4, 7, 8 or 9 components, up to 3 of 6 constraints, 2 sets of missions, ints of 8 bits, limits 0 and 8, longest steps 0 and 3, 2 fitness values | `AgentsComplete`, `RecordsAscend`, `CurveIsExact`, `EndedIsComplete`, `OvershootBounded` hold |
| `rembot` | 2 servers, 2 callers on their host and 1 on another, 2 settings of 2 values, 3 files the user may write, fair | `SettingsSurvive`, `LookUpIsLive`, `PortNotLeaked`, `ShutDownEndsServer` hold |

Why these bounds are enough for the case to happen:

- `world_queues`: two robots are what a race of `grass.add`, or two bales put in
  the other order than their names were polled, takes; two names let one be lost
  and the other be used, and the next bale finds the pool dry.  A queue of two grasses
  lets robots add one while another waits, for ever if they like: without its premise
  `QueuedBaleIsShown` is violated.  The bound on bales is looked at when a name is
  polled, so two bales may be queued at once.  (A link that fails is in `mower_alone`.)
- `client_session`: two devices are what an answer that comes for another device, or
  data of one while the other is asked for, takes.  Answers are queued whatever the
  bound, which only keeps drivers from running ahead of a client that does not read;
  two commands are one sent right after the other;
  data before and after an acknowledgement are both among the behaviours.
- `player_driver`: two subscribers let one restart the thread the other has just
  stopped, and one publish race with the other's leaving; two threads are the one
  that ends and the one that replaces it (`DummyMainQuit` creates it before the old
  one is gone).  Two messages are a request given up and the next one, or a command
  and a newer one.  A timeout of one second is the last wait of any longer one.
- `rembot`: two servers contend for port and file, two callers overlap in `stop()`, also with one that is refused;
  two settings let a file break off between them; the files of the user set nothing,
  leave the port to the default, or change it.
- `mower_alone`: a load of two takes several rounds, with the world controller in
  between.  Mowers meet only in the queues, whose interleavings are the business of
  `world_queues`, and so is the order in them; what a mower does with its own brain, and
  that bales are backed, is proved for any number of them.  The classes of ranges are
  those at which the avoiding behaviours decide differently (`SomeRanges` in `MCMowerSim`).
- `alliance_messages`: three registrations of two robots register one twice, and a
  lifetime of three lets messages of different age live together.
- `even_up_down`: three agents are the first number at which one unit of time is
  spread over several takers; performances 2 and 5 leave a surplus, 0 an agent
  unfit for a mission, works 3 and 11 make the first filling short or long.
- `optimizer`: with ints of 8 bits 7 components shift into the sign, 8 and 9 wrap
  around, as 31, 32 and 33 do in Java.  A limit of 8 with steps up to 3 leaves room
  for steps that grow, changes in between, and an overshoot.

Runs switch deadlock checking off because all these programs may stop: a control
thread ends or dies, a client is closed, a calculation returns, a server shuts down,
and the bounds on queues and histories end the rest.

## 4. Fairness

- `WorldCtrl`: the controller's thread is scheduled (weak fairness; it waits for nobody);
  no robot has to call it.  `QueuedBaleIsShown` needs more and says
  so: it is promised only if mowing keeps ending (`MowingKeepsEnding`), because robots
  that add grass as fast as it is drained can keep `mowGrass` from ever returning.
- `MowerSim`: the same, and *strong* fairness for a mower, because the bound on the
  queues makes a put wait which waits for nothing in the program.
- `PlayerClient`: threads are scheduled, the server keeps sending (so that `read()`
  returns), plain writes become visible some time, and a read on a closed socket
  fails.  An exception in the reader is not promised while the socket is open.
- `PlayerSession`: the same, but the server only answers what it was asked and
  publishes for devices subscribed to; `CloseReturnsIfFed` says so (`feeds # {}`).
- `PlayerDriver`: a thread that can go on does, and a subscription or the server's
  end, once begun, gets a lock that is released again and again (strong fairness:
  the driver's thread may take it in between).  Nobody has to subscribe, to send or
  to end the server, and no driver has to leave its loop (`MainReturns` is
  excluded).  All of it holds while the server is up; properties say `\/ ~ServerUp`.
- `RemBotServer`: a process and a call go on with what they have begun; a kill, an
  edit, a start or a call is never promised.
- `PlayerCtrl`: the thread is scheduled, `process()` returns or throws, and the write
  of the stop signal becomes visible.
- `EvenUpDown`: a sequential method that waits for nobody.  `MRSOptimizer` and
  `MessageService` have no fairness: one promises what is in the database wherever it
  is stopped, the other order, not progress.

## 5. Proofs

TLAPS proves every safety property of the runs that hold, and both refinements, for
all values of the constants that meet the named assumptions of the modules: robots and
names are finite sets, null is no name and no signal, the place where objects start is
no pose they are moved to, energies and works are positive, and the like.  No bound of
a run is among them.  `NobodyInterrupts` (`MowerSim`) is what the code does: nothing in
it interrupts a mower from outside.  A theorem about an invariant or a step rests on an
inductive invariant, with one lemma or step per action; a refinement maps initial states
to initial states and every step to a step or a stutter, given those invariants; `PTL`
combines the facts at the end.

`WorldCtrlProofs`
- `TypeCorrect`.  It includes that the draining thread never polls an empty queue:
  `isEmpty` and `poll` are two accesses, but the thread is the only consumer, so
  `wpc = "mowItem"` implies that the queue still has an element, whatever robots put
  meanwhile.
- `NamesNeverShared` (`NameInOnePlace`): as stated, over pool, hands, queue and
  simulator together, it is inductive; over fewer places it is not.
- `BalesNamelessOnlyWhenDry` (`NamelessOnlyWhenDry`) is inductive with the types.
- `MowedIsCounted` (`MowedCount`): `CountInv` adds who is about to count what, and that
  a robot stuck in the set or a grass missing needs two additions that overlapped.
- `SimWorldImplemented` (`ImplementsSimWorld`): every step is a step of the abstract
  world or a stutter.  Putting a nameless bale is one only because a robot that holds
  none while the pool is dry leaves fewer free names than robots (`FewNamesLeft`).

`MowerSimProofs`, on top of these
- `MowersReact` (`ReactsToSenses`), `MowersDrawOnce` (`OneDrawPerRound`),
  `BalesAreBacked` (`BaleBacked`).  `MowerInv` says for each mower which of its cached
  outputs carry the round's tick at each place of `process()` (`Asked`; without it the
  cache could answer with the speed of one round and the course of another), and that
  what is loaded is handed over or about to be (`Backed`).
- `MowersUseWorldCtrl`: every step of the composition is one of `WorldCtrl`, so all of
  the above holds under the mowers (`MowersShareNoName` says so for names and
  refinement).

`PlayerSessionProofs`
- `WaitingIsEnough` (`WaitedMeansGone`): `RunningKnown` ties `isRunning`, its stale copy
  and the reader's place together.
- `OneReaderStaysInStep` (`StreamInStep`): `DataExpected` says of every message in the
  stream that its device will be known by the time it is read, and the same of what
  may be published next; `AskingAlone` keeps the owner and the reader from reading both;
  `RefusalThrown` says that whoever takes a refusal, which leaves padding behind, is
  turned back or lost.
- `FailureEndsSleep` (`FailedLoopNeverSleeps`, of `PlayerCtrl`): the interrupt flag
  stays set wherever the loop sleeps after a failure.

`PlayerDriverProofs`
- `OneMainAtATimeHolds`, `StoppedMeansDoneHolds`.  `ThreadInv` ties the thread's place,
  `driverthread`, `ThreadState` and the barrier together (a thread that is restarting
  still counts while the new one waits at the barrier; one that only has to unlock does
  not).
- `SubscriptionsCountedHolds`: `ListInv` adds that one subscriber at a time is between
  count and list (`OneInLock`), and speaks of finite sets rather than of numbers.
- `NewestCommandKeptHolds`, `AnswerIsOwnHolds`: `QueueInv` says that an overwriting
  queue holds one command at most, which is the newest (`OneCommand`), and that, while
  no request was given up, there is one request or answer under way at most, the one
  asked for last (`OneAnswer`).
- `DriverLivesLifeCycle`: every step of `PlayerDriver` is a step of `DriverThread` or
  leaves it alone, so the first three hold of the driver at work (`DriverRunsOnce`,
  `DriverCountsSubscriptions`).

`MessageServiceProofs`
- `TypeCorrect`, `ListSortedByAge` (`OldestFirst`), `NewsNeverStale` (`NewsInOrder`).
  `Numbered` adds that messages and broadcasts carry numbers given out before.
- `MailboxesImplemented` (`ImplementsMailboxes`).  The place of a message is one more
  than the number of older ones for the same robot; places are a bijection, because they
  are injective and as many as messages.  A fetch moves every place ahead by one, a
  broadcast adds places behind, and a round removes a front, because the list is ordered
  by age.

`EvenUpDownProofs`
- `NoWorkIsLost` (`WorkCovered`), `EveningUpShortens` (`NeverLonger`).  `SharingInv`:
  who works on a mission can (`OnlyAble`), the work is covered wherever the loop is
  (`Covered`), the surplus of the mission that is being relieved is at each moment what
  was there, less what is to be taken, plus what has been spread (`InPass`), and the
  matrix whose cost is the result keeps up with the matrix (`CostKept`).

`MRSOptimizerProofs`
- `RecordsInOrder` (`RecordsAscend`), `LimitHardlyOvershot` (`OvershootBounded`).
  `RecordsKnown` says what the last record is at each place of the program.
- `CurveIsTold` (`CurveIsExact`), `EndMeansComplete` (`EndedIsComplete`).  `LooksKnown`
  and `CurveKnown` say that the generations looked at ascend, and that all of them but
  the one about to be recorded are told already.
- `AllAgentsGenerated` (`AgentsComplete`): the agents are at each moment the valid
  patterns below `i`, once each (`Listed`).  What it rests on is that numbers below
  `2^n` and sets of `n` components correspond to each other (`BitsTell`, `BitsMake`).

`RemBotServerProofs`
- `FoundIsLive` (`LookUpIsLive`), `PortReleased` (`PortNotLeaked`): `ServiceInv` says
  what is bound, exported and registered at each place of `main()` and of each call,
  which is what makes overlapping calls of `stop()`, and refused ones, harmless.
- `UserSettingsSurvive` (`SettingsSurvive`): `SettingsInv` says what a process between
  reading and writing holds of the user's settings.

Sums, powers and bit patterns are recursive functions (`Sum`, `Pow2`), not recursive
operators.  The library's induction theorems take an operator as a parameter, which no
installed prover can instantiate; the proofs argue by the least counterexample instead
(`WFMin` of `WellFoundedInduction`, for the set of numbers that violate a statement),
which needs none.  For the same reason the model says with places, greatest indexes and
cut-off points what `SelectSeq` would say with an operator (`Told`, `Expires`).
Overlapping guards of a CASE are no disjunction: `Pushed` once had some, which TLC
evaluated in their order and the provers could not, and is nested now.

Model-checked only: everything about liveness (`AskedAloneIsGot`, `CloseReturnsIfFed`,
`ReaderGoesAway`, `StopEndsLoop`, `RequestsEnd`, `ThreadStateSettles`, `FullLoadIsBaled`,
`QueuedGrassIsMoved`, `QueuedBaleIsShown`, `Terminates`, `ShutDownEndsServer`), which
rests on fairness and `ENABLED`; and, of course, the three properties of section 6 that
do not hold.

## 6. Where the code and its comments disagree

- **A wake-up may be lost** (`lost_wakeup`).  `MessageQueue::Wait` tests the queue
  under one mutex and sleeps under another (`message.cc:318-350`); what is pushed in
  between wakes nobody, and a loop that waits without a timeout sleeps on a queue that
  is not empty until something else comes.  `driver.h:669` promises that it "will return
  true immediately if at least one message is already waiting".  With a timeout
  (`player_driver`) it is only late.
- **A thread may outlive its driver** (`thread_not_gone`).  `DummyMainQuit` sets the
  state to STOPPED (`threaded_driver.cc:225`) and then unlocks the driver (line 227).
  `Terminate` (line 257) and the destructor (line 104) poll the state without the lock,
  and both say that they "wait for the thread to actually stop".  In the trace the
  thread is between the two when `Terminate` returns.  The server deletes no driver, only
  its devices (`devicetable.cc:72-82`), before it ends; where a driver is deleted, its
  thread may unlock a mutex that is gone.  `StoppedMeansDone` says how much is left of the
  promise: there is nothing more that the thread does than unlocking.
- **Free time is not always taken away** (`free_time_left`).
  `EvenUpDownOpCostCalculator.java:102` recognises work to be moved of exactly zero;
  with a larger surplus it is negative, and the loop ends with a unit of time nobody
  needs.

Not disagreements that a run shows, but worth knowing.

In the mowing simulation:

- After its first failure the control loop never sleeps again, because it interrupts
  itself (`FailedLoopNeverSleeps`).  An unchecked exception ends the thread without
  the hook `afterEnd()` (`ProcessDies`, `AbstractPlayerCtrl.java:46`); the null name of
  an exhausted pool causes one in the world controller.
- `addGrassItemToQueue` may lose grass from the count, or a thread in the set, when
  two robots overlap (`CountGrass`).
- An exception in the reader thread leaves `isRunning` true (`PlayerClient.java:276`),
  so `close()`, which nothing in the repository calls, then waits in `setNotThreaded`
  for ever; `CloseReturnsIfFed` says when it returns.
- A device requested while the client is threaded may be granted and yet answered
  null, because `readyRequestDevice` is never reset (`PlayerClient.java:813`;
  `AskedAloneIsGot` says when the answer can be relied on).  The world controller's
  client subscribes to the simulation only, which publishes nothing, so its reader
  sits in `read()` until a pose is acknowledged.

In the Player server core:

- `Publish` and a change of the list of queues are under different locks
  (`driver.cc:189`, `device.cc:119`, `device.cc:177`): a place tested may be null or
  freed when it is used (`PublishPush`, `ListQueue`).
- `Device::Unsubscribe` counts down before it looks for the queue, so who was never
  subscribed could stop a thread others use; `Unsubscribe` is modelled for those who
  are, and `SubscriptionsCounted` holds for them.  After `Terminate` an unsubscription
  is refused and leaves its queue in the list.
- A request given up because the other driver lost its subscriptions leaves the filter
  on (`device.cc:354`): its requester pops nothing but answers until its next request.
- After a timeout the late answer is taken for that of the next request; the note at
  `device.h:165` warns of it, and `AnswerIsOwn` excludes it (`givenUp`).

Elsewhere:

- From 31 components on, `1 << compNum` silently leaves agents out (`AgentsComplete`).
- `EvenUpDownOpCostCalculator` answers 0 when its first pass changes nothing (`costed`
  stays `Unshared`).
- `shutDown()` is documented as "Shut down RemBot service on remote host"
  (`RemBotService.java:29`), but from another host it does nothing but log: the registry
  refuses to unbind, and `stop()` catches that (`RemBotServiceImpl.java:62`).
  `ShutDownEndsServer` speaks of callers on the server's host.  The refusal is the Java
  library's, which is not in the repository, so it is no run's finding.
- A RemBot server that reads a half-written settings file mixes what it found with the
  defaults, and writes the mixture back as if it were whole (`torn`).

## 7. Not modelled

Windows and formulas without control; behaviours that no brain connects; genes,
islands and experiments; the world generator and the inverse kinematics, whose
results are random or over doubles.  By far the most lines of the repository are
vendored: the drivers, client libraries and interfaces of Player, and Stage.  They are
device protocols, wrappers and graphics that the project's own programs do not
change; of them only the server core is modelled, so the share of the repository's
lines that the models stand for is small and stays so.

Of the server core, pull mode, replace rules, always-on drivers, requests of drivers
without a thread and file watches are left out.  Of `PlayerClient` threading, closing,
subscribing and reading are modelled, not unsubscribing, the other requests to the
server, nor what a device makes of its messages; of the optimizer, not the agents
stored in a record nor the example projects; of `EvenUpDown`, not the printing; of
RemBot, not the player configurations, which `ServerConfig` neither reads nor writes.

## 8. Plan

Written so far, because most depends on it: the mowing simulation from its shared
state outwards (`WorldCtrl` with `SimWorld`, `PlayerClient`, `PlayerCtrl`,
`MowerBrains`, `MowerSim`), the components that stand alone (`MessageService` with
`Mailboxes`, `EvenUpDown`, `Project`, `MRSOptimizer`, `RemBotServer`), and the core of
the server under the simulation (`DriverThread`, `PlayerDriver`).  To follow:

1. Proofs: of liveness, the safety part, as measures that no step lets grow (the passes
   of `EvenUpDown` lower the time of the longest working agents; the steps a closed
   client's reader has left); the abstract specifications' own promises (no name twice
   in `SimWorld`, letters in order of age in `Mailboxes`).
2. Pull mode of `MessageQueue`, with the client that asks for data.
3. Pure operators checked against a reference over bounded inputs: the eight sectors
   of `Ranger8Signal` (each range in one sector), `AverageOpCostCalculator` beside
   `EvenUpDown`, the tree of `SolutionTreeNode` against `Project`'s patterns.
4. `PlayerCtrl` composed with `PlayerSession`, as `run()` uses it; the agents of
   `robot-sim/rkv/AgentsTest`.

New modules share runs with those there are where one question covers both.
