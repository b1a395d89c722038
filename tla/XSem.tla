--------------------------------- MODULE XSem ---------------------------------
(***************************************************************************)
(* The semaphore of src/xsem.c: an int in a shared file mapping, changed   *)
(* under an xlock (module XLock, whose variables and steps are reused),    *)
(* with FUTEX_WAIT / FUTEX_WAKE on the count for the processes that find   *)
(* it used up.                                                             *)
(*                                                                         *)
(* spc[p] is where process p stands in xsem_down or xsem_up; together with *)
(* lpc[p] it is p's program counter.                                       *)
(*                                                                         *)
(*   "idle"      outside both                                              *)
(*   "d_try"     in xlock_lock, or past it and about to look at the count  *)
(*   "d_got"     has taken a unit, in xlock_unlock                         *)
(*   "d_none"    found no unit, in xlock_unlock, then FUTEX_WAIT           *)
(*   "d_asleep"  queued by the kernel on the count                         *)
(*   "d_woken"   back from FUTEX_WAIT, about to call xlock_lock again      *)
(*   "u_try"     in xlock_lock, or past it and about to increment          *)
(*   "u_done"    has incremented, in xlock_unlock, then FUTEX_WAKE         *)
(*                                                                         *)
(* xlock.c does not know who calls it: a call of xlock_lock or             *)
(* xlock_unlock is taken here whether or not the caller holds the lock.    *)
(* That xsem calls them in the right order is a property (UsesXLock), and  *)
(* so is the exclusion that lets the count be tested and changed in one    *)
(* step.                                                                   *)
(***************************************************************************)
EXTENDS XLock, Integers

CONSTANTS
    SemCount,   \* the count given to xsem_create
    MaxCount    \* bound: no new xsem_up is called at this count

ASSUME SemCountAssumption == SemCount \in Int /\ MaxCount \in Int
ASSUME ProcsAssumption == IsFiniteSet(Procs)

VARIABLES
    count,      \* x->count[0]
    spc         \* [Procs -> place in xsem_down / xsem_up]

semVars == <<count, spc>>
xsemVars == <<lock, lpc, count, spc>>

SemPlaces == {"idle", "d_try", "d_got", "d_none", "d_asleep", "d_woken",
              "u_try", "u_done"}

(***************************************************************************)
(* xsem_create has returned: lock free, count set.                         *)
(***************************************************************************)
SemInit ==
    /\ LockInit
    /\ count = SemCount
    /\ spc = [p \in Procs |-> "idle"]

-----------------------------------------------------------------------------
SemGoTo(p, place) == spc' = [spc EXCEPT ![p] = place]

\* p is in the caller's code: it has not called xlock_lock or xlock_unlock, or
\* the call has returned.
Running(p) == lpc[p] \in {"out", "in"}

xlock_lock(p) == GoTo(p, "cas") /\ UNCHANGED lock

xlock_unlock(p) == GoTo(p, "release") /\ UNCHANGED lock

CallDown(p) ==
    /\ spc[p] = "idle"
    /\ Running(p)
    /\ xlock_lock(p)
    /\ SemGoTo(p, "d_try")
    /\ UNCHANGED count

\* Mutant of xsem_down's test: off by one.
BugOffByOne(p) ==
    /\ spc[p] = "d_try"
    /\ Running(p)
    /\ count >= 0
    /\ count' = count - 1
    /\ SemGoTo(p, "d_got")
    /\ xlock_unlock(p)

\* Under the lock: count[0] > 0, take a unit and leave the loop.
DownTake(p) ==
    /\ spc[p] = "d_try"
    /\ Running(p)
    /\ count > 0
    /\ count' = count - 1
    /\ SemGoTo(p, "d_got")
    /\ xlock_unlock(p)

\* Under the lock: nothing to take; give the lock back before sleeping.
DownEmpty(p) ==
    /\ spc[p] = "d_try"
    /\ Running(p)
    /\ count <= 0
    /\ SemGoTo(p, "d_none")
    /\ xlock_unlock(p)
    /\ UNCHANGED count

\* Mutant: sleeps on a count that has been raised since it was read.
BugSleepOnUnit(p) ==
    /\ spc[p] = "d_none"
    /\ Running(p)
    /\ SemGoTo(p, "d_asleep")
    /\ UNCHANGED <<lockVars, count>>

\* FUTEX_WAIT on the count with expected value 0, lock no longer held: any
\* other count, a negative one too, makes it return at once.
DownWait(p) ==
    /\ spc[p] = "d_none"
    /\ Running(p)
    /\ SemGoTo(p, IF count = 0 THEN "d_asleep" ELSE "d_woken")
    /\ UNCHANGED <<lockVars, count>>

DownSpurious(p) ==
    /\ spc[p] = "d_asleep"
    /\ SemGoTo(p, "d_woken")
    /\ UNCHANGED <<lockVars, count>>

\* Mutant of the loop of xsem_down: back to the test without the lock, which
\* is then unlocked by a process that does not hold it.
BugNoRelock(p) ==
    /\ spc[p] = "d_woken"
    /\ Running(p)
    /\ SemGoTo(p, "d_try")
    /\ UNCHANGED <<lockVars, count>>

DownRelock(p) ==
    /\ spc[p] = "d_woken"
    /\ Running(p)
    /\ xlock_lock(p)
    /\ SemGoTo(p, "d_try")
    /\ UNCHANGED count

DownReturn(p) ==
    /\ spc[p] = "d_got"
    /\ Running(p)
    /\ SemGoTo(p, "idle")
    /\ UNCHANGED <<lockVars, count>>

CallUp(p) ==
    /\ spc[p] = "idle"
    /\ count < MaxCount
    /\ Running(p)
    /\ xlock_lock(p)
    /\ SemGoTo(p, "u_try")
    /\ UNCHANGED count

UpIncrement(p) ==
    /\ spc[p] = "u_try"
    /\ Running(p)
    /\ count' = count + 1
    /\ SemGoTo(p, "u_done")
    /\ xlock_unlock(p)

\* FUTEX_WAKE on the count after the lock is released; see Woken for how many
\* sleepers nr_wake = -1 wakes.
SemAsleep == {p \in Procs : spc[p] = "d_asleep"}

\* Mutant of xsem_up: wakes somebody only for the first unit.
BugWakeFirstOnly(p) ==
    /\ spc[p] = "u_done"
    /\ Running(p)
    /\ \/ /\ SemAsleep = {} \/ count # 1
          /\ SemGoTo(p, "idle")
       \/ /\ count = 1
          /\ \E W \in Woken(SemAsleep) :
                spc' = [q \in Procs |-> IF q = p THEN "idle"
                                        ELSE IF q \in W THEN "d_woken" ELSE spc[q]]
    /\ UNCHANGED <<lockVars, count>>

UpWake(p) ==
    /\ spc[p] = "u_done"
    /\ Running(p)
    /\ \/ /\ SemAsleep = {}
          /\ SemGoTo(p, "idle")
       \/ \E W \in Woken(SemAsleep) :
             spc' = [q \in Procs |-> IF q = p THEN "idle"
                                     ELSE IF q \in W THEN "d_woken" ELSE spc[q]]
    /\ UNCHANGED <<lockVars, count>>

-----------------------------------------------------------------------------
\* What p does by itself once it has called xsem_down or xsem_up.
SemStep(p) ==
    \/ LockStep(p) /\ UNCHANGED semVars
    \/ DownTake(p)
    \/ DownEmpty(p)
    \/ DownWait(p)
    \/ DownRelock(p)
    \/ DownReturn(p)
    \/ UpIncrement(p)
    \/ UpWake(p)

SemSpurious(p) == (SpuriousWakeup(p) /\ UNCHANGED semVars) \/ DownSpurious(p)

SemNext ==
    \E p \in Procs : CallDown(p) \/ CallUp(p) \/ SemStep(p) \/ SemSpurious(p)

SemSpec == SemInit /\ [][SemNext]_xsemVars

(***************************************************************************)
(* A process inside xsem_down or xsem_up that is not asleep is scheduled.  *)
(* Nobody need call anything, and nothing need wake spuriously.            *)
(***************************************************************************)
FairSemSpec == SemSpec /\ \A p \in Procs : WF_xsemVars(SemStep(p))

-----------------------------------------------------------------------------
SemTypeOK ==
    /\ LockTypeOK
    /\ count \in Int
    /\ SemCount >= 0 => count >= 0
    /\ spc \in [Procs -> SemPlaces]

(***************************************************************************)
(* The two program counters agree: whoever is outside the lock's code does *)
(* not hold the lock, and a process sleeps on the count only after it has  *)
(* released the lock, so no sleeper blocks the ups that would wake it.     *)
(***************************************************************************)
CountersAgree ==
    \A p \in Procs :
        /\ spc[p] \in {"idle", "d_asleep", "d_woken"} => lpc[p] = "out"
        /\ spc[p] \in {"d_try", "u_try"} =>
               lpc[p] \in {"cas", "wait", "asleep", "in"}
        /\ spc[p] \in {"d_got", "d_none", "u_done"} =>
               lpc[p] \in {"release", "wake", "out"}

(***************************************************************************)
(* While anybody sleeps on the count, every unit in it is spoken for: some *)
(* up has still to issue its FUTEX_WAKE, or some down is on its way to the *)
(* count.  So the FUTEX_WAKE that xsem_up issues after dropping the lock,  *)
(* racing with downs that take the unit first and with downs that have     *)
(* dropped the lock but not yet gone to sleep, strands no sleeper, even    *)
(* when each wake-up wakes one process only.                               *)
(***************************************************************************)
OnTheWay == {p \in Procs : spc[p] \in {"u_done", "d_woken", "d_try"}}

SemNoLostWakeup == SemAsleep # {} => count <= Cardinality(OnTheWay)

(***************************************************************************)
(* A unit and a sleeper never stay together: either the unit is taken or   *)
(* the sleeper is woken.                                                   *)
(***************************************************************************)
UnitOrSleeperGoes ==
    (count > 0 /\ SemAsleep # {}) ~> (count <= 0 \/ SemAsleep = {})

(***************************************************************************)
(* xsem_down and xsem_up call xlock as its specification demands, on every *)
(* path of the loop: xlock_lock only by a process that does not hold the   *)
(* lock, xlock_unlock only by the one that does, neither skipped nor       *)
(* called twice.  xlock.c checks none of this; a wrong call would spin in  *)
(* xlock_unlock, block on the process's own lock, or free somebody else's. *)
(***************************************************************************)
UsesXLock == LockSpec

(***************************************************************************)
(* xsem implements the abstract semaphore; taking effect is the change of  *)
(* the count under the lock.                                               *)
(***************************************************************************)
OpOf(place) ==
    CASE place = "idle" -> "idle"
      [] place = "d_got" -> "took"
      [] place = "u_try" -> "up"
      [] place = "u_done" -> "gave"
      [] OTHER -> "down"

AbsSem == INSTANCE AbstractSem WITH op <- [p \in Procs |-> OpOf(spc[p])]

ImplementsAbstractSem == AbsSem!Spec
=============================================================================
