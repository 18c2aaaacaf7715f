----------------------------- MODULE Mailboxes -----------------------------
(***************************************************************************)
(* What the message service promises: every robot has a mailbox of its     *)
(* own, a queue.  A broadcast puts one copy per registration into each.    *)
(* What nobody took for Lifetime rounds is gone.                           *)
(***************************************************************************)
EXTENDS Integers, Sequences

CONSTANTS Robots, Tasks, Lifetime

VARIABLES joined, box
vars == <<joined, box>>

Letter == [from : Robots, task : Tasks, age : 0..(Lifetime - 1)]

Init ==
  /\ joined = [r \in Robots |-> 0]
  /\ box = [r \in Robots |-> << >>]

Join(r) ==
  /\ joined' = [joined EXCEPT ![r] = @ + 1]
  /\ UNCHANGED box

Post(from, task) ==
  /\ box' = [r \in Robots |->
               box[r] \o [i \in 1..joined[r] |-> [from |-> from, task |-> task, age |-> 0]]]
  /\ UNCHANGED joined

Take(r) ==
  /\ box[r] # << >>
  /\ box' = [box EXCEPT ![r] = Tail(@)]
  /\ UNCHANGED joined

Older(b) == [i \in DOMAIN b |-> [b[i] EXCEPT !.age = @ + 1]]

\* The letters on their last day are at the front; they go, the rest ages.
Expires(b, rest) ==
  \E cut \in 0..Len(b) :
    /\ \A i \in DOMAIN b : b[i].age = Lifetime - 1 <=> i <= cut
    /\ rest = SubSeq(Older(b), cut + 1, Len(b))

Round ==
  /\ box' = [r \in Robots |-> box'[r]]
  /\ \A r \in Robots : Expires(box[r], box'[r])
  /\ UNCHANGED joined

Next ==
  \/ \E r \in Robots : Join(r) \/ Take(r)
  \/ \E r \in Robots, t \in Tasks : Post(r, t)
  \/ Round

Spec == Init /\ [][Next]_vars
=============================================================================
