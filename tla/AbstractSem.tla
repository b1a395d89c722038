----------------------------- MODULE AbstractSem -----------------------------
(***************************************************************************)
(* What both semaphores of the repository (xsem.h, psem.h) promise: a down *)
(* takes one unit in one instant at which a unit is there, an up gives one *)
(* back in one instant, and each takes effect once, between its call and   *)
(* its return.                                                             *)
(***************************************************************************)
EXTENDS Integers

CONSTANTS Procs, SemCount

VARIABLES
    count,      \* units left
    op          \* [Procs -> phase of the call the process is in]

semVars == <<count, op>>

Init == count = SemCount /\ op = [p \in Procs |-> "idle"]

Move(p, from, to) == op[p] = from /\ op' = [op EXCEPT ![p] = to]

CallDown(p) == Move(p, "idle", "down") /\ UNCHANGED count

Take(p) == Move(p, "down", "took") /\ count > 0 /\ count' = count - 1

CallUp(p) == Move(p, "idle", "up") /\ UNCHANGED count

Give(p) == Move(p, "up", "gave") /\ count' = count + 1

Return(p) ==
    (Move(p, "took", "idle") \/ Move(p, "gave", "idle")) /\ UNCHANGED count

Next == \E p \in Procs :
            CallDown(p) \/ Take(p) \/ CallUp(p) \/ Give(p) \/ Return(p)

Spec == Init /\ [][Next]_semVars
=============================================================================
