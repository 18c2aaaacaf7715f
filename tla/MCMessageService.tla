------------------------- MODULE MCMessageService -------------------------
(* Two robots, one of which may register twice; two tasks.                 *)
EXTENDS MessageService
CONSTANTS r1, r2, t1, t2
TwoRobots == {r1, r2}
TwoTasks == {t1, t2}
=============================================================================
