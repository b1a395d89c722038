---------------------------- MODULE AbstractLock ----------------------------
(***************************************************************************)
(* What xlock promises its callers (xlock.h): a lock that at most one      *)
(* process owns, taken only when nobody owns it and given back only by its *)
(* owner.  Nothing is said about lock words, futexes or sleeping.          *)
(***************************************************************************)
CONSTANT Procs

VARIABLE owner      \* the set of processes between lock and unlock

Init == owner = {}

Acquire(p) == owner = {} /\ owner' = {p}

Release(p) == p \in owner /\ owner' = owner \ {p}

Next == \E p \in Procs : Acquire(p) \/ Release(p)

Spec == Init /\ [][Next]_owner
=============================================================================
