------------------------------ MODULE SimWorld ------------------------------
(***************************************************************************)
(* What the world controller promises to the robots, without threads,      *)
(* pool order, or locals: requests of each kind are applied one by one, in *)
(* the order they were accepted, each at most once, until the controller   *)
(* halts; a bale gets a name no other bale ever had; and a bale goes       *)
(* without a name only when fewer names than users are left.               *)
(***************************************************************************)
EXTENDS Integers, Sequences, FiniteSets

CONSTANTS Users, Grass, Names, Poses, NoName, Away, Start, LinkMayFail

VARIABLES
  asked,    (* grass to be moved away, oldest first                        *)
  bales,    (* bales to be shown, oldest first                             *)
  free,     (* names no accepted bale has                                  *)
  simPose,  (* where the simulator was told each object is                 *)
  halted    (* nothing is applied any more                                 *)

vars == <<asked, bales, free, simPose, halted>>

Init ==
  /\ asked = << >>
  /\ bales = << >>
  /\ free = Names
  /\ simPose = [o \in Grass \cup Names |-> Start]
  /\ halted = FALSE

AskForMowing(g) ==
  /\ asked' = Append(asked, g)
  /\ UNCHANGED <<bales, free, simPose, halted>>

AskForBale(n, p) ==
  /\ \/ n \in free
     \/ n = NoName /\ Cardinality(free) < Cardinality(Users)
  /\ bales' = Append(bales, [name |-> n, pose |-> p])
  /\ free' = free \ {n}
  /\ UNCHANGED <<asked, simPose, halted>>

\* A request that failed half-way costs its name.
LoseName(n) ==
  /\ n \in free
  /\ free' = free \ {n}
  /\ UNCHANGED <<asked, bales, simPose, halted>>

Mow ==
  /\ ~halted
  /\ asked # << >>
  /\ asked' = Tail(asked)
  /\ simPose' = [simPose EXCEPT ![Head(asked)] = Away]
  /\ UNCHANGED <<bales, free, halted>>

ShowBale ==
  /\ ~halted
  /\ bales # << >>
  /\ Head(bales).name # NoName
  /\ simPose[Head(bales).name] = Start
  /\ bales' = Tail(bales)
  /\ simPose' = [simPose EXCEPT ![Head(bales).name] = Head(bales).pose]
  /\ UNCHANGED <<asked, free, halted>>

\* Halting on request loses nothing; halting on a failure loses the request
\* that was being applied.
Halt ==
  /\ ~halted
  /\ halted' = TRUE
  /\ \/ UNCHANGED <<asked, bales>>
     \/ LinkMayFail /\ asked # << >> /\ asked' = Tail(asked) /\ UNCHANGED bales
     \/ /\ bales # << >>
        /\ LinkMayFail \/ Head(bales).name = NoName
        /\ bales' = Tail(bales)
        /\ UNCHANGED asked
  /\ UNCHANGED <<free, simPose>>

Next ==
  \/ \E g \in Grass : AskForMowing(g)
  \/ \E n \in Names \cup {NoName}, p \in Poses : AskForBale(n, p)
  \/ \E n \in Names : LoseName(n)
  \/ Mow \/ ShowBale \/ Halt

Spec == Init /\ [][Next]_vars
=============================================================================
