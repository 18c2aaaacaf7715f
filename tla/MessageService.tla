-------------------------- MODULE MessageService --------------------------
(***************************************************************************)
(* The message service of the alliance demonstrator (MessageService.java). *)
(* Robots register; a message to all goes to every registration, the       *)
(* sender's own included; a robot fetches its messages one by one; and     *)
(* process(), called once a round, throws away what got too old.           *)
(*                                                                         *)
(* The list of messages only grows at its end, so it is the set of its     *)
(* messages, each with the number n under which it was added.              *)
(***************************************************************************)
EXTENDS Integers, Sequences, FiniteSets

CONSTANTS
  Robots,
  Tasks,
  Lifetime,    (* timeToLive of a new message: 5                            *)
  MaxRobots,   (* bound of the model on registrations                       *)
  MaxMessages, (* bound of the model on messages ever sent                  *)
  MaxSends     (* bound of the model on calls of sendMessage                *)

ASSUME ServiceAssumption ==
  /\ Lifetime \in Nat \ {0}
  /\ MaxRobots \in Nat
  /\ MaxMessages \in Nat
  /\ MaxSends \in Nat

VARIABLES
  robots,    (* List<Robot>, in the order of registration                   *)
  messages,  (* List<Message>                                               *)
  added,     (* history: how many messages were ever added                  *)
  sends,     (* history: how many times sendMessage was called              *)
  fetched    (* history: number of the last message each robot fetched      *)

vars == <<robots, messages, added, sends, fetched>>

Message ==
  [n : Nat \ {0}, send : Nat, from : Robots, to : Robots, task : Tasks, ttl : 1..Lifetime]

Init ==
  /\ robots = << >>
  /\ messages = {}
  /\ added = 0
  /\ sends = 0
  /\ fetched = [r \in Robots |-> 0]

\* No check for a robot that is registered already.
RegisterRobot(r) ==
  /\ Len(robots) < MaxRobots
  /\ robots' = Append(robots, r)
  /\ UNCHANGED <<messages, added, sends, fetched>>

\* Plausible slip: skipping the sender.
Copies_NotToSender(r, t) ==
  {[n |-> added + i, send |-> sends, from |-> r, to |-> robots[i], task |-> t,
    ttl |-> Lifetime] : i \in {j \in 1..Len(robots) : robots[j] # r}}

\* One copy per registration.
Copies(r, t) ==
  {[n |-> added + i, send |-> sends, from |-> r, to |-> robots[i], task |-> t,
    ttl |-> Lifetime] : i \in 1..Len(robots)}

SendMessage(r, t) ==
  /\ added + Len(robots) <= MaxMessages
  /\ sends < MaxSends
  /\ messages' = messages \cup Copies(r, t)
  /\ added' = added + Len(robots)
  /\ sends' = sends + 1
  /\ UNCHANGED <<robots, fetched>>

For(r) == {m \in messages : m.to = r}

\* Plausible slip: searching from the end.
IsNext_Last(m, r) == m \in For(r) /\ \A k \in For(r) : k.n <= m.n

\* The first in the list whose addressee is the robot.
IsNext(m, r) == m \in For(r) /\ \A k \in For(r) : m.n <= k.n

\* Without a message for the robot the answer is null and nothing changes.
GetNextMessage(r) ==
  /\ \E m \in messages :
       /\ IsNext(m, r)
       /\ messages' = messages \ {m}
       /\ fetched' = [fetched EXCEPT ![r] = m.n]
  /\ UNCHANGED <<robots, added, sends>>

Aged(m) == [m EXCEPT !.ttl = @ - 1]

Dead(m) == m.ttl <= 0

\* Plausible slip: removing by index while counting the index up, which skips
\* the message behind a removed one.
Process_SkipsNext ==
  LET skipped(m) == \E d \in messages :
                      /\ Dead(Aged(d))
                      /\ d.n < m.n
                      /\ \A k \in messages : ~(d.n < k.n /\ k.n < m.n)
  IN /\ messages # {}
     /\ messages' = {m \in messages : skipped(m)}
                    \cup {m \in {Aged(k) : k \in {j \in messages : ~skipped(j)}} : ~Dead(m)}
     /\ UNCHANGED <<robots, added, sends, fetched>>

Process ==
  /\ messages # {}
  /\ messages' = {m \in {Aged(k) : k \in messages} : ~Dead(m)}
  /\ UNCHANGED <<robots, added, sends, fetched>>

Next ==
  \/ \E r \in Robots : RegisterRobot(r) \/ GetNextMessage(r)
  \/ \E r \in Robots, t \in Tasks : SendMessage(r, t)
  \/ Process

Spec == Init /\ [][Next]_vars

-----------------------------------------------------------------------------
(* Properties.                                                             *)

\* Fields and histories have their types; no message that process() left alive
\* has a timeToLive outside 1..Lifetime.
TypeOK ==
  /\ robots \in Seq(Robots)
  /\ messages \subseteq Message
  /\ added \in Nat
  /\ sends \in Nat
  /\ fetched \in [Robots -> Nat]

\* The list's order is the order of age, so process() only ever cuts off its
\* beginning; and all copies of one broadcast are equally old, so they expire in
\* the same round for every robot that did not fetch its own.
OldestFirst ==
  \A m, k \in messages :
    /\ m.n < k.n => m.ttl <= k.ttl /\ m.send <= k.send
    /\ m.send = k.send => m.ttl = k.ttl
    /\ m.n = k.n => m = k

\* What a robot can still fetch was sent after all it has fetched: however
\* sends, fetches and rounds alternate, no robot hears old news after newer ones.
NewsInOrder == \A m \in messages : fetched[m.to] < m.n

-----------------------------------------------------------------------------
(* Refinement.                                                             *)

InLine(letters, i) ==
  CHOOSE m \in letters : Cardinality({k \in letters : k.n < m.n}) = i - 1
Letter(m) == [from |-> m.from, task |-> m.task, age |-> Lifetime - m.ttl]
Mailbox(letters) == [i \in 1..Cardinality(letters) |-> Letter(InLine(letters, i))]

Boxes == INSTANCE Mailboxes WITH
  joined <- [r \in Robots |-> Cardinality({i \in 1..Len(robots) : robots[i] = r})],
  box    <- [r \in Robots |-> Mailbox(For(r))]

\* One list for all robots behaves as one queue per robot: no fetch and no
\* expiry disturbs another robot's messages.
ImplementsMailboxes == Boxes!Spec
=============================================================================
