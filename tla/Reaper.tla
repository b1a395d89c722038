------------------------------- MODULE Reaper -------------------------------
(***************************************************************************)
(* Children of one process and the SIGCHLD handler that cpu_hogd,          *)
(* test_fork and others install: while (waitpid(-1, NULL, WNOHANG) > 0).   *)
(* SIGCHLD does not queue: children that exit while one is pending, or     *)
(* while the handler runs, leave one pending signal between them.  signal  *)
(* blocks SIGCHLD during the handler and restarts interrupted calls.       *)
(***************************************************************************)
CONSTANT Kids           \* process ids

VARIABLES
    alive,              \* children that run
    zombies,            \* children that have exited and are not waited for
    chld,               \* SIGCHLD is pending
    reaping             \* the handler is running

reaperVars == <<alive, zombies, chld, reaping>>

ReaperInit ==
    /\ alive = {}
    /\ zombies = {}
    /\ chld = FALSE
    /\ reaping = FALSE

\* fork returns an id that is not in use.
ForkChild(k) ==
    /\ k \in Kids \ (alive \cup zombies)
    /\ alive' = alive \cup {k}
    /\ UNCHANGED <<zombies, chld, reaping>>

ChildExits(k) ==
    /\ k \in alive
    /\ alive' = alive \ {k}
    /\ zombies' = zombies \cup {k}
    /\ chld' = TRUE
    /\ UNCHANGED reaping

HandlerEnter ==
    /\ chld /\ ~reaping
    /\ chld' = FALSE
    /\ reaping' = TRUE
    /\ UNCHANGED <<alive, zombies>>

\* Mutant: one waitpid for each signal.
BugReapOne(k) ==
    /\ reaping
    /\ k \in zombies
    /\ zombies' = zombies \ {k}
    /\ reaping' = FALSE
    /\ UNCHANGED <<alive, chld>>

HandlerReap(k) ==
    /\ reaping
    /\ k \in zombies
    /\ zombies' = zombies \ {k}
    /\ UNCHANGED <<alive, chld, reaping>>

HandlerReturn ==
    /\ reaping
    /\ zombies = {}
    /\ reaping' = FALSE
    /\ UNCHANGED <<alive, zombies, chld>>

ReaperTypeOK ==
    /\ alive \subseteq Kids
    /\ zombies \subseteq Kids
    /\ alive \cap zombies = {}
    /\ chld \in BOOLEAN
    /\ reaping \in BOOLEAN

(***************************************************************************)
(* No zombie is forgotten: although exits share a signal, as long as there *)
(* is a zombie the handler is running or will run.                         *)
(***************************************************************************)
NoForgottenZombie == zombies # {} => chld \/ reaping
=============================================================================
