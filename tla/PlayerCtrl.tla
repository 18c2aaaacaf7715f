----------------------------- MODULE PlayerCtrl -----------------------------
(***************************************************************************)
(* The control loop every robot and the world controller run in            *)
(* (AbstractPlayerCtrl.java).  process() is the subclass's: it may return, *)
(* throw the ProcessingException it declares, throw an unchecked           *)
(* exception, or swallow a pending interrupt in a blocking call of its own *)
(* (as WorldCtrl's put with its catch clause does).                        *)
(***************************************************************************)
EXTENDS Naturals

CONSTANTS
  MaxRounds    (* bound of the model on the rounds counted                  *)

ASSUME RoundsAssumption == MaxRounds \in Nat \ {0}

VARIABLES
  swallows,     (* may the subclass's process() clear the interrupt flag?  *)
  stopSignal,   (* as written by sendStopSignal, a plain field             *)
  seenStop,     (* stopSignal as the loop sees it                          *)
  flag,         (* the interrupt flag of the thread                        *)
  pc,           (* where the thread is                                     *)
  failures,     (* history: catch clauses entered, up to MaxRounds         *)
  rounds        (* history: rounds since the last catch, up to MaxRounds   *)

ctrlVars == <<swallows, stopSignal, seenStop, flag, pc, failures, rounds>>

CountUp(n) == IF n < MaxRounds THEN n + 1 ELSE n

CtrlInit ==
  /\ swallows \in BOOLEAN
  /\ stopSignal = FALSE /\ seenStop = FALSE
  /\ flag = FALSE
  /\ pc = "start"
  /\ failures = 0
  /\ rounds = 0

Goes(from, to) == pc = from /\ pc' = to

\* beforeStart() and client.runThreaded(); either may throw.
BeforeStart ==
  /\ pc = "start"
  /\ pc' \in {"test", "unstarted"}
  /\ UNCHANGED <<swallows, stopSignal, seenStop, flag, failures, rounds>>

\* while (!stopSignal)
LoopTest ==
  /\ Goes("test", IF seenStop THEN "after" ELSE "process")
  /\ UNCHANGED <<swallows, stopSignal, seenStop, flag, failures, rounds>>

ProcessReturns ==
  /\ Goes("process", "sleep")
  /\ flag' \in IF swallows THEN {flag, FALSE} ELSE {flag}
  /\ UNCHANGED <<swallows, stopSignal, seenStop, failures, rounds>>

\* Plausible slips: swallowing the exception; retrying without the loop test.
Caught_Swallows ==
  /\ pc' = "test"
  /\ flag' = FALSE
  /\ failures' = CountUp(failures)
  /\ rounds' = 0
  /\ UNCHANGED <<swallows, stopSignal, seenStop>>

Caught_RetriesAtOnce ==
  /\ pc' = "process"
  /\ flag' = TRUE
  /\ failures' = CountUp(failures)
  /\ rounds' = 0
  /\ UNCHANGED <<swallows, stopSignal, seenStop>>

\* Both catch clauses log, interrupt the thread itself, and go round again.
Caught ==
  /\ pc' = "test"
  /\ flag' = TRUE
  /\ failures' = CountUp(failures)
  /\ rounds' = 0
  /\ UNCHANGED <<swallows, stopSignal, seenStop>>

ProcessThrows == pc = "process" /\ Caught

\* Thread.sleep of an interrupted thread throws at once.
SleepThrows == pc = "sleep" /\ flag /\ Caught

Sleep ==
  /\ Goes("sleep", "test")
  /\ ~flag
  /\ rounds' = CountUp(rounds)
  /\ UNCHANGED <<swallows, stopSignal, seenStop, flag, failures>>

\* No catch clause for an unchecked exception: the thread is gone.
ProcessDies ==
  /\ Goes("process", "dead")
  /\ UNCHANGED <<swallows, stopSignal, seenStop, flag, failures, rounds>>

AfterEnd ==
  /\ Goes("after", "ended")
  /\ UNCHANGED <<swallows, stopSignal, seenStop, flag, failures, rounds>>

SendStopSignal ==
  /\ ~stopSignal
  /\ stopSignal' = TRUE
  /\ UNCHANGED <<swallows, seenStop, flag, pc, failures, rounds>>

\* The write to the plain field becomes visible to the loop.
SeeStop ==
  /\ stopSignal # seenStop
  /\ seenStop' = stopSignal
  /\ UNCHANGED <<swallows, stopSignal, flag, pc, failures, rounds>>

Interrupt ==
  /\ pc \notin {"unstarted", "ended", "dead"}
  /\ ~flag
  /\ flag' = TRUE
  /\ UNCHANGED <<swallows, stopSignal, seenStop, pc, failures, rounds>>

LoopStep == BeforeStart \/ LoopTest \/ ProcessReturns \/ ProcessThrows
              \/ SleepThrows \/ Sleep \/ ProcessDies \/ AfterEnd
CtrlNext == LoopStep \/ SendStopSignal \/ SeeStop \/ Interrupt

\* The thread is scheduled, process() returns or throws, and a plain write
\* becomes visible some time.
CtrlFairness == WF_ctrlVars(LoopStep) /\ WF_ctrlVars(SeeStop)

CtrlSpec == CtrlInit /\ [][CtrlNext]_ctrlVars
CtrlFairSpec == CtrlSpec /\ CtrlFairness

-----------------------------------------------------------------------------
(* Properties.                                                             *)

\* run() interrupts itself in its catch clauses, so after the first failure of
\* either kind every sleep throws: the loop goes on without a pause, unless
\* process() happens to swallow the interrupt.
FailedLoopNeverSleeps ==
  failures > 0 /\ ~swallows => rounds = 0

\* A stop signal ends the loop, also when it is spinning over failures.
StopEndsLoop == stopSignal ~> pc \in {"unstarted", "ended", "dead"}

=============================================================================
