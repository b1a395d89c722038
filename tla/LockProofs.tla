------------------------------ MODULE LockProofs ------------------------------
(***************************************************************************)
(* Proofs about xlock, about xsem, which is built on it, and about the     *)
(* programs that test them, for any set of processes (finite where they    *)
(* are counted) and any initial count.                                     *)
(***************************************************************************)
EXTENDS TestXlock, TestSem, FiniteSetTheorems, TLAPS

(***************************************************************************)
(*                                 xlock                                   *)
(***************************************************************************)
(***************************************************************************)
(* Mutual exclusion alone is not inductive: a successful raw_lock_it is    *)
(* safe only because a word of 0 means that nobody owns the lock.          *)
(***************************************************************************)
LockInv == LockTypeOK /\ MutualExclusion /\ WordTracksOwner

(***************************************************************************)
(* Every step of the lock, of any process, keeps the word in {0, 1} and    *)
(* every process at one of the places of xlock_lock and xlock_unlock.      *)
(***************************************************************************)
LEMMA LockTypingStep == LockTypeOK /\ [LockNext]_lockVars => LockTypeOK'
<1> SUFFICES ASSUME LockTypeOK, [LockNext]_lockVars PROVE LockTypeOK'
  OBVIOUS
<1> USE DEF LockTypeOK, Places, Free, Taken, GoTo
<1>1. CASE UNCHANGED lockVars
  BY <1>1 DEF lockVars
<1>2. ASSUME NEW p \in Procs, CallLock(p) PROVE LockTypeOK'
  BY <1>2 DEF CallLock
<1>3. ASSUME NEW p \in Procs, CallUnlock(p) PROVE LockTypeOK'
  BY <1>3 DEF CallUnlock
<1>4. ASSUME NEW p \in Procs, RawLockIt(p) PROVE LockTypeOK'
  BY <1>4 DEF RawLockIt
<1>5. ASSUME NEW p \in Procs, FutexWait(p) PROVE LockTypeOK'
  BY <1>5 DEF FutexWait
<1>6. ASSUME NEW p \in Procs, RawUnlockIt(p) PROVE LockTypeOK'
  BY <1>6 DEF RawUnlockIt
<1>7. ASSUME NEW p \in Procs, FutexWake(p) PROVE LockTypeOK'
  BY <1>7 DEF FutexWake
<1>8. ASSUME NEW p \in Procs, SpuriousWakeup(p) PROVE LockTypeOK'
  BY <1>8 DEF SpuriousWakeup
<1> QED
  BY <1>1, <1>2, <1>3, <1>4, <1>5, <1>6, <1>7, <1>8 DEF LockNext, LockStep

(***************************************************************************)
(* The owners change in two steps only: a successful raw_lock_it adds its  *)
(* process, a successful raw_unlock_it removes its own.  All else (calls,  *)
(* failed swaps, FUTEX_WAIT, FUTEX_WAKE, EINTR) leaves word and owners.    *)
(***************************************************************************)
LEMMA OwnerStep ==
  ASSUME LockTypeOK, LockNext
  PROVE  \/ UNCHANGED <<lock, Owner>>
         \/ \E p \in Procs : /\ lock = Free /\ lock' = Taken
                             /\ Owner' = Owner \cup {p}
         \/ \E p \in Owner : /\ lock = Taken /\ lock' = Free
                             /\ Owner' = Owner \ {p}
<1> USE DEF LockTypeOK, Places, Free, Taken, GoTo, Owner
<1>1. ASSUME NEW p \in Procs, CallLock(p) PROVE UNCHANGED <<lock, Owner>>
  BY <1>1 DEF CallLock
<1>2. ASSUME NEW p \in Procs, CallUnlock(p) PROVE UNCHANGED <<lock, Owner>>
  BY <1>2 DEF CallUnlock
<1>3. ASSUME NEW p \in Procs, RawLockIt(p)
      PROVE  \/ UNCHANGED <<lock, Owner>>
             \/ lock = Free /\ lock' = Taken /\ Owner' = Owner \cup {p}
  BY <1>3 DEF RawLockIt
<1>4. ASSUME NEW p \in Procs, FutexWait(p) PROVE UNCHANGED <<lock, Owner>>
  BY <1>4 DEF FutexWait
<1>5. ASSUME NEW p \in Procs, RawUnlockIt(p)
      PROVE  /\ p \in Owner /\ lock = Taken /\ lock' = Free
             /\ Owner' = Owner \ {p}
  BY <1>5 DEF RawUnlockIt
<1>6. ASSUME NEW p \in Procs, FutexWake(p) PROVE UNCHANGED <<lock, Owner>>
  <2>1. CASE Asleep = {} /\ GoTo(p, "out")
    BY <1>6, <2>1 DEF FutexWake
  <2>2. CASE \E W \in Woken(Asleep) :
               lpc' = [q \in Procs |-> IF q = p THEN "out"
                                       ELSE IF q \in W THEN "cas" ELSE lpc[q]]
    BY <1>6, <2>2 DEF FutexWake, Woken, Asleep
  <2> QED
    BY <1>6, <2>1, <2>2 DEF FutexWake
<1>7. ASSUME NEW p \in Procs, SpuriousWakeup(p) PROVE UNCHANGED <<lock, Owner>>
  BY <1>7 DEF SpuriousWakeup
<1> HIDE DEF LockTypeOK, Places, Free, Taken, GoTo, Owner
<1> QED
  BY <1>1, <1>2, <1>3, <1>4, <1>5, <1>6, <1>7 DEF LockNext, LockStep

(***************************************************************************)
(* LockInv is inductive.                                                   *)
(***************************************************************************)
LEMMA LockInvInit == LockInit => LockInv
BY DEF LockInit, LockInv, LockTypeOK, MutualExclusion, WordTracksOwner, Owner,
       Places, Free, Taken

\* Every step of xlock keeps LockInv.
LEMMA LockInvStep == LockInv /\ [LockNext]_lockVars => LockInv'
<1> SUFFICES ASSUME LockInv, [LockNext]_lockVars PROVE LockInv'
  OBVIOUS
<1>1. LockTypeOK'
  BY LockTypingStep DEF LockInv
<1>2. (MutualExclusion /\ WordTracksOwner)'
  <2>1. CASE UNCHANGED lockVars
    BY <2>1 DEF lockVars, LockInv, MutualExclusion, WordTracksOwner, Owner
  <2>2. CASE LockNext
    <3>1. CASE UNCHANGED <<lock, Owner>>
      BY <3>1 DEF LockInv, MutualExclusion, WordTracksOwner
    <3>2. ASSUME NEW p \in Procs, lock = Free, lock' = Taken,
                 Owner' = Owner \cup {p}
          PROVE  (MutualExclusion /\ WordTracksOwner)'
      <4>1. Owner = {}
        BY <3>2 DEF LockInv, WordTracksOwner, Free, Taken
      <4> QED
        BY <3>2, <4>1 DEF MutualExclusion, WordTracksOwner
    <3>3. ASSUME NEW p \in Owner, lock = Taken, lock' = Free,
                 Owner' = Owner \ {p}
          PROVE  (MutualExclusion /\ WordTracksOwner)'
      <4>1. Owner' = {}
        BY <3>3 DEF LockInv, MutualExclusion
      <4> QED
        BY <3>3, <4>1 DEF MutualExclusion, WordTracksOwner, Free, Taken
    <3> QED
      BY <2>2, <3>1, <3>2, <3>3, OwnerStep DEF LockInv
  <2> QED
    BY <2>1, <2>2
<1> QED
  BY <1>1, <1>2 DEF LockInv

\* LockInv holds in every state of xlock.
LEMMA LockInvariant == LockSpec => []LockInv
BY LockInvInit, LockInvStep, PTL DEF LockSpec

(***************************************************************************)
(* For any set of processes, xlock keeps its word and places well typed.   *)
(***************************************************************************)
THEOREM LockTyping == LockSpec => []LockTypeOK
BY LockInvariant, PTL DEF LockInv

(***************************************************************************)
(* For any set of processes, at most one is between the return of          *)
(* xlock_lock and the releasing compare-and-swap of xlock_unlock.          *)
(***************************************************************************)
THEOREM LockMutualExclusion == LockSpec => []MutualExclusion
BY LockInvariant, PTL DEF LockInv

(***************************************************************************)
(* The lock word is 1 exactly while the lock is owned.                     *)
(***************************************************************************)
THEOREM LockWordTracksOwner == LockSpec => []WordTracksOwner
BY LockInvariant, PTL DEF LockInv

-----------------------------------------------------------------------------
(***************************************************************************)
(* No wake-up is lost, for any number of processes and whichever non-empty *)
(* set of sleepers FUTEX_WAKE chooses.                                     *)
(***************************************************************************)
LEMMA NoLostWakeupStep ==
  LockTypeOK /\ NoLostWakeup /\ [LockNext]_lockVars => NoLostWakeup'
<1> SUFFICES ASSUME LockTypeOK, NoLostWakeup, [LockNext]_lockVars,
                    lock' = Free, Asleep' # {}
             PROVE  \E p \in Procs : lpc'[p] \in {"cas", "wake"}
  BY DEF NoLostWakeup
<1> USE DEF LockTypeOK, Places, Free, Taken, GoTo, Asleep
<1>1. CASE UNCHANGED lockVars
  BY <1>1 DEF lockVars, NoLostWakeup
<1>2. ASSUME NEW p \in Procs, CallLock(p)
      PROVE  \E q \in Procs : lpc'[q] \in {"cas", "wake"}
  BY <1>2 DEF CallLock
<1>3. ASSUME NEW p \in Procs, CallUnlock(p)
      PROVE  \E q \in Procs : lpc'[q] \in {"cas", "wake"}
  BY <1>3 DEF CallUnlock, NoLostWakeup
<1>4. ASSUME NEW p \in Procs, RawLockIt(p)
      PROVE  \E q \in Procs : lpc'[q] \in {"cas", "wake"}
  BY <1>4 DEF RawLockIt
<1>5. ASSUME NEW p \in Procs, FutexWait(p)
      PROVE  \E q \in Procs : lpc'[q] \in {"cas", "wake"}
  BY <1>5 DEF FutexWait
<1>6. ASSUME NEW p \in Procs, RawUnlockIt(p)
      PROVE  \E q \in Procs : lpc'[q] \in {"cas", "wake"}
  BY <1>6 DEF RawUnlockIt
<1>7. ASSUME NEW p \in Procs, FutexWake(p)
      PROVE  \E q \in Procs : lpc'[q] \in {"cas", "wake"}
  <2>1. CASE Asleep = {} /\ GoTo(p, "out")
    BY <2>1
  <2>2. ASSUME NEW W \in Woken(Asleep),
               lpc' = [q \in Procs |-> IF q = p THEN "out"
                                       ELSE IF q \in W THEN "cas" ELSE lpc[q]]
        PROVE  \E q \in Procs : lpc'[q] \in {"cas", "wake"}
    <3>1. PICK q \in W : q \in Procs /\ lpc[q] = "asleep"
      BY <2>2 DEF Woken
    <3>2. q # p
      BY <1>7, <3>1 DEF FutexWake
    <3> QED
      BY <2>2, <3>1, <3>2
  <2> QED
    BY <1>7, <2>1, <2>2 DEF FutexWake
<1>8. ASSUME NEW p \in Procs, SpuriousWakeup(p)
      PROVE  \E q \in Procs : lpc'[q] \in {"cas", "wake"}
  BY <1>8 DEF SpuriousWakeup
<1> QED
  BY <1>1, <1>2, <1>3, <1>4, <1>5, <1>6, <1>7, <1>8 DEF LockNext, LockStep

\* No process is left asleep on a free xlock: a FUTEX_WAKE or a new attempt is on its way.
THEOREM LockNoLostWakeup == LockSpec => []NoLostWakeup
<1>1. LockInit => NoLostWakeup
  BY DEF LockInit, NoLostWakeup, Asleep
<1> QED
  BY <1>1, LockTyping, NoLostWakeupStep, PTL DEF LockSpec

-----------------------------------------------------------------------------
(***************************************************************************)
(* xlock implements the abstract lock: every step of xlock.c is an         *)
(* Acquire, a Release or invisible.                                        *)
(***************************************************************************)
THEOREM LockImplementsAbstract == LockSpec => ImplementsAbstractLock
<1>1. LockInit => Abstract!Init
  BY DEF LockInit, Abstract!Init, Owner
<1>2. LockInv /\ [LockNext]_lockVars => [Abstract!Next]_Owner
  <2> SUFFICES ASSUME LockInv, [LockNext]_lockVars
               PROVE  [Abstract!Next]_Owner
    OBVIOUS
  <2>1. CASE UNCHANGED lockVars
    BY <2>1 DEF lockVars, Owner
  <2>2. ASSUME NEW p \in Procs, lock = Free, Owner' = Owner \cup {p}
        PROVE  Abstract!Acquire(p)
    BY <2>2 DEF LockInv, WordTracksOwner, Abstract!Acquire, Free, Taken
  <2>3. ASSUME NEW p \in Owner, Owner' = Owner \ {p}
        PROVE  Abstract!Release(p) /\ p \in Procs
    BY <2>3 DEF Abstract!Release, Owner
  <2> QED
    BY <2>1, <2>2, <2>3, OwnerStep DEF LockInv, Abstract!Next
<1> QED
  BY <1>1, <1>2, LockInvariant, PTL
     DEF LockSpec, ImplementsAbstractLock, Abstract!Spec

-----------------------------------------------------------------------------
(***************************************************************************)
(*                                  xsem                                   *)
(***************************************************************************)
(***************************************************************************)
(* A step of the lock's code by p moves p only inside the lock's code, and *)
(* other processes only from "asleep" to "cas".                            *)
(***************************************************************************)
LEMMA LockStepPlaces ==
  ASSUME LockTypeOK, NEW p \in Procs, LockStep(p)
  PROVE  /\ lpc[p] \in {"cas", "wait"} =>
               lpc'[p] \in {"cas", "wait", "asleep", "in"}
         /\ lpc[p] \in {"release", "wake"} => lpc'[p] \in {"wake", "out"}
         /\ lpc[p] \in {"cas", "wait", "release", "wake"}
         /\ \A q \in Procs \ {p} :
               \/ lpc'[q] = lpc[q]
               \/ lpc[q] = "asleep" /\ lpc'[q] = "cas"
<1> USE DEF LockTypeOK, Places, GoTo
<1>1. CASE RawLockIt(p)
  BY <1>1 DEF RawLockIt
<1>2. CASE FutexWait(p)
  BY <1>2 DEF FutexWait
<1>3. CASE RawUnlockIt(p)
  BY <1>3 DEF RawUnlockIt
<1>4. CASE FutexWake(p)
  BY <1>4 DEF FutexWake, Woken, Asleep
<1> QED
  BY <1>1, <1>2, <1>3, <1>4 DEF LockStep

(***************************************************************************)
(* While the two program counters agree, every step of xsem is one step of *)
(* xlock or leaves the lock alone: the process that calls xlock_unlock     *)
(* holds the lock, the one that calls xlock_lock does not.                 *)
(***************************************************************************)
LEMMA SemStepIsLockStep ==
  CountersAgree /\ [SemNext]_xsemVars => [LockNext]_lockVars
<1> SUFFICES ASSUME CountersAgree, [SemNext]_xsemVars PROVE [LockNext]_lockVars
  OBVIOUS
<1> USE DEF CountersAgree, Running, xlock_lock, xlock_unlock
<1>1. CASE UNCHANGED xsemVars
  BY <1>1 DEF xsemVars, lockVars
<1>2. ASSUME NEW p \in Procs, CallDown(p) \/ CallUp(p) \/ DownRelock(p)
      PROVE  CallLock(p)
  BY <1>2 DEF CallDown, CallUp, DownRelock, CallLock
<1>3. ASSUME NEW p \in Procs, DownTake(p) \/ DownEmpty(p) \/ UpIncrement(p)
      PROVE  CallUnlock(p)
  BY <1>3 DEF DownTake, DownEmpty, UpIncrement, CallUnlock
<1>4. ASSUME NEW p \in Procs,
             DownWait(p) \/ DownReturn(p) \/ UpWake(p) \/ DownSpurious(p)
      PROVE  UNCHANGED lockVars
  BY <1>4 DEF DownWait, DownReturn, UpWake, DownSpurious
<1> QED
  BY <1>1, <1>2, <1>3, <1>4 DEF SemNext, SemStep, SemSpurious, LockNext

SemInv == SemTypeOK /\ CountersAgree

\* The initial state of xsem satisfies SemInv.
LEMMA SemInvInit == SemInit => SemInv
BY SemCountAssumption, LockInvInit
   DEF SemInit, SemInv, SemTypeOK, CountersAgree, SemPlaces, LockInv, LockInit

(***************************************************************************)
(* Both program counters stay well typed and in agreement at every step.   *)
(***************************************************************************)
LEMMA SemInvStep == SemInv /\ [SemNext]_xsemVars => SemInv'
<1> SUFFICES ASSUME SemInv, [SemNext]_xsemVars PROVE SemInv'
  OBVIOUS
<1>0. LockTypeOK'
  BY LockTypingStep, SemStepIsLockStep DEF SemInv, SemTypeOK
<1> USE <1>0 DEF SemInv, SemTypeOK, CountersAgree, SemPlaces, SemGoTo
<1>1. CASE UNCHANGED xsemVars
  BY <1>1 DEF xsemVars
<1>2. ASSUME NEW p \in Procs, LockStep(p), UNCHANGED semVars PROVE SemInv'
  BY <1>2, LockStepPlaces DEF semVars
<1> USE DEF LockTypeOK, Places, GoTo, lockVars, Running, xlock_lock, xlock_unlock
<1>3. ASSUME NEW p \in Procs, CallDown(p) PROVE SemInv'
  BY <1>3 DEF CallDown
<1>4. ASSUME NEW p \in Procs, CallUp(p) PROVE SemInv'
  BY <1>4 DEF CallUp
<1>5. ASSUME NEW p \in Procs, DownTake(p) PROVE SemInv'
  BY <1>5 DEF DownTake
<1>6. ASSUME NEW p \in Procs, DownEmpty(p) PROVE SemInv'
  BY <1>6 DEF DownEmpty
<1>7. ASSUME NEW p \in Procs, DownWait(p) PROVE SemInv'
  BY <1>7 DEF DownWait
<1>8. ASSUME NEW p \in Procs, DownRelock(p) PROVE SemInv'
  BY <1>8 DEF DownRelock
<1>9. ASSUME NEW p \in Procs, DownReturn(p) PROVE SemInv'
  BY <1>9 DEF DownReturn
<1>10. ASSUME NEW p \in Procs, UpIncrement(p) PROVE SemInv'
  BY <1>10 DEF UpIncrement
<1>11. ASSUME NEW p \in Procs, UpWake(p) PROVE SemInv'
  BY <1>11 DEF UpWake, Woken, SemAsleep
<1>12. ASSUME NEW p \in Procs, SemSpurious(p) PROVE SemInv'
  BY <1>12 DEF SemSpurious, DownSpurious, SpuriousWakeup, semVars
<1> QED
  BY <1>1, <1>2, <1>3, <1>4, <1>5, <1>6, <1>7, <1>8, <1>9, <1>10, <1>11, <1>12
     DEF SemNext, SemStep

\* SemInv holds in every state of xsem.
LEMMA SemInvariant == SemSpec => []SemInv
BY SemInvInit, SemInvStep, PTL DEF SemSpec

(***************************************************************************)
(* The count is an integer and both program counters are well typed.       *)
(***************************************************************************)
THEOREM SemTyping == SemSpec => []SemTypeOK
BY SemInvariant, PTL DEF SemInv

(***************************************************************************)
(* No process sleeps on the count, or is outside xsem, holding sem_lock.   *)
(***************************************************************************)
THEOREM SemCountersAgree == SemSpec => []CountersAgree
BY SemInvariant, PTL DEF SemInv

(***************************************************************************)
(* xsem_down and xsem_up call xlock_lock only without the lock and         *)
(* xlock_unlock only with it, on every path and for any set of processes;  *)
(* so all that is proved of xlock holds inside xsem.  xlock.c would take   *)
(* the calls in any order: the theorem rests on CountersAgree.             *)
(***************************************************************************)
THEOREM SemUsesXLock == SemSpec => UsesXLock
<1>1. SemInit => LockInit
  BY DEF SemInit
<1> QED
  BY <1>1, SemCountersAgree, SemStepIsLockStep, PTL DEF SemSpec, UsesXLock, LockSpec

(***************************************************************************)
(* Only the owner of sem_lock is past xlock_lock in either routine, which  *)
(* is what lets the count be tested and changed in one step.               *)
(***************************************************************************)
COROLLARY SemMutualExclusion == SemSpec => []MutualExclusion
BY SemUsesXLock, LockMutualExclusion, PTL DEF UsesXLock

-----------------------------------------------------------------------------
(***************************************************************************)
(* xsem implements the abstract semaphore: DownTake and UpIncrement are    *)
(* its Take and Give, the calls and returns are the abstract ones, and the *)
(* sleeping, waking and locking are invisible.                             *)
(***************************************************************************)
absOp == [p \in Procs |-> OpOf(spc[p])]

\* The phase a caller sees at each place of xsem_down and xsem_up.
LEMMA OpOfPlaces ==
  /\ OpOf("idle") = "idle" /\ OpOf("d_got") = "took"
  /\ OpOf("u_try") = "up" /\ OpOf("u_done") = "gave"
  /\ OpOf("d_try") = "down" /\ OpOf("d_none") = "down"
  /\ OpOf("d_asleep") = "down" /\ OpOf("d_woken") = "down"
BY DEF OpOf

(***************************************************************************)
(* Moving p from one place to another moves its abstract phase, and        *)
(* nobody else's.                                                          *)
(***************************************************************************)
LEMMA AbsMove ==
  ASSUME SemTypeOK, NEW p \in Procs, NEW place \in SemPlaces,
         SemGoTo(p, place)
  PROVE  absOp' = [absOp EXCEPT ![p] = OpOf(place)] /\ absOp[p] = OpOf(spc[p])
BY DEF SemTypeOK, SemGoTo, absOp

\* xsem_down and xsem_up implement the abstract semaphore.
THEOREM SemImplementsAbstract == SemSpec => ImplementsAbstractSem
<1>1. SemInit => AbsSem!Init
  BY OpOfPlaces DEF SemInit, AbsSem!Init
<1>2. SemInv /\ [SemNext]_xsemVars => [AbsSem!Next]_<<count, absOp>>
  <2> SUFFICES ASSUME SemInv, [SemNext]_xsemVars
               PROVE  [AbsSem!Next]_<<count, absOp>>
    OBVIOUS
  <2> DEFINE Stutter == UNCHANGED <<count, absOp>>
  <2> USE OpOfPlaces, AbsMove DEF SemInv, SemPlaces
  <2>1. CASE UNCHANGED xsemVars
    BY <2>1 DEF xsemVars, absOp
  <2>2. ASSUME NEW p \in Procs, UNCHANGED semVars PROVE Stutter
    BY <2>2 DEF semVars, absOp
  <2>3. ASSUME NEW p \in Procs, CallDown(p) PROVE AbsSem!CallDown(p)
    BY <2>3 DEF CallDown, AbsSem!CallDown, AbsSem!Move, absOp
  <2>4. ASSUME NEW p \in Procs, CallUp(p) PROVE AbsSem!CallUp(p)
    BY <2>4 DEF CallUp, AbsSem!CallUp, AbsSem!Move, absOp
  <2>5. ASSUME NEW p \in Procs, DownTake(p) PROVE AbsSem!Take(p)
    BY <2>5 DEF DownTake, AbsSem!Take, AbsSem!Move, absOp
  <2>6. ASSUME NEW p \in Procs,
               DownEmpty(p) \/ DownWait(p) \/ DownRelock(p) \/ DownSpurious(p)
        PROVE  Stutter
    <3>1. PICK place \in {"d_none", "d_asleep", "d_woken", "d_try"} :
             SemGoTo(p, place)
      BY <2>6 DEF DownEmpty, DownWait, DownRelock, DownSpurious
    <3>2. OpOf(spc[p]) = "down" /\ OpOf(place) = "down" /\ UNCHANGED count
      BY <2>6, <3>1 DEF DownEmpty, DownWait, DownRelock, DownSpurious
    <3>3. absOp' = [absOp EXCEPT ![p] = "down"] /\ absOp[p] = "down"
      BY <3>1, <3>2
    <3> QED
      BY <3>2, <3>3 DEF absOp
  <2>7. ASSUME NEW p \in Procs, DownReturn(p) PROVE AbsSem!Return(p)
    BY <2>7 DEF DownReturn, AbsSem!Return, AbsSem!Move, absOp
  <2>8. ASSUME NEW p \in Procs, UpIncrement(p) PROVE AbsSem!Give(p)
    BY <2>8 DEF UpIncrement, AbsSem!Give, AbsSem!Move, absOp
  <2>9. ASSUME NEW p \in Procs, UpWake(p) PROVE AbsSem!Return(p)
    <3>1. absOp[p] = "gave" /\ UNCHANGED count
      BY <2>9 DEF UpWake, absOp
    <3>2. absOp' = [absOp EXCEPT ![p] = "idle"]
      <4>1. CASE SemGoTo(p, "idle")
        BY <4>1
      <4>2. ASSUME NEW W \in Woken(SemAsleep),
                   spc' = [q \in Procs |-> IF q = p THEN "idle"
                            ELSE IF q \in W THEN "d_woken" ELSE spc[q]]
            PROVE  absOp' = [absOp EXCEPT ![p] = "idle"]
        <5>1. \A q \in W : OpOf(spc[q]) = "down"
          BY DEF Woken, SemAsleep
        <5> QED
          BY <4>2, <5>1 DEF absOp
      <4> QED
        BY <2>9, <4>1, <4>2 DEF UpWake
    <3> QED
      BY <3>1, <3>2 DEF AbsSem!Return, AbsSem!Move, absOp
  <2> QED
    BY <2>1, <2>2, <2>3, <2>4, <2>5, <2>6, <2>7, <2>8, <2>9
       DEF SemNext, SemStep, SemSpurious, AbsSem!Next
<1> QED
  BY <1>1, <1>2, SemInvariant, PTL
     DEF SemSpec, ImplementsAbstractSem, AbsSem!Spec, AbsSem!semVars, absOp

-----------------------------------------------------------------------------
(***************************************************************************)
(* The processes on their way to the count form a finite set, whose size   *)
(* moves by one with each process that joins or leaves it.                 *)
(***************************************************************************)
LEMMA OnTheWayFinite ==
  /\ IsFiniteSet(OnTheWay) /\ Cardinality(OnTheWay) \in Nat
  /\ IsFiniteSet(OnTheWay') /\ Cardinality(OnTheWay') \in Nat
<1>1. OnTheWay \subseteq Procs /\ OnTheWay' \subseteq Procs
  BY DEF OnTheWay
<1> QED
  BY <1>1, ProcsAssumption, FS_Subset, FS_CardinalityType

\* More processes on the way to the count, or the same ones.
LEMMA OnTheWayGrows ==
  OnTheWay \subseteq OnTheWay' =>
     Cardinality(OnTheWay) <= Cardinality(OnTheWay')
BY OnTheWayFinite, FS_Subset

\* One process comes onto the way.
LEMMA OnTheWayJoins ==
  ASSUME NEW p, p \notin OnTheWay, OnTheWay' = OnTheWay \cup {p}
  PROVE  Cardinality(OnTheWay') = Cardinality(OnTheWay) + 1
BY OnTheWayFinite, FS_AddElement

\* One process leaves the way.
LEMMA OnTheWayLeaves ==
  ASSUME NEW p \in OnTheWay, OnTheWay' = OnTheWay \ {p}
  PROVE  Cardinality(OnTheWay') = Cardinality(OnTheWay) - 1
BY OnTheWayFinite, FS_RemoveElement

(***************************************************************************)
(* A FUTEX_WAKE that finds sleepers puts at least one of them on the way   *)
(* in the place of the up that issued it.                                  *)
(***************************************************************************)
LEMMA WakeReplaces ==
  ASSUME SemTypeOK, NEW p \in Procs, UpWake(p), SemAsleep # {}
  PROVE  Cardinality(OnTheWay) <= Cardinality(OnTheWay')
<1>1. PICK W \in Woken(SemAsleep) :
         spc' = [q \in Procs |-> IF q = p THEN "idle"
                                 ELSE IF q \in W THEN "d_woken" ELSE spc[q]]
  BY DEF UpWake
<1>2. PICK w \in W : w \in Procs /\ spc[w] = "d_asleep"
  BY DEF Woken, SemAsleep
<1> DEFINE Rest == OnTheWay \ {p}
<1>3. p \in OnTheWay /\ w \notin OnTheWay /\ w # p
  BY <1>2 DEF OnTheWay, UpWake
<1>4. IsFiniteSet(Rest) /\ Cardinality(Rest) = Cardinality(OnTheWay) - 1
  BY <1>3, OnTheWayFinite, FS_RemoveElement
<1>5. /\ IsFiniteSet(Rest \cup {w})
      /\ Cardinality(Rest \cup {w}) = Cardinality(OnTheWay)
  BY <1>3, <1>4, OnTheWayFinite, FS_AddElement
<1>6. Rest \cup {w} \subseteq OnTheWay'
  BY <1>1, <1>2, <1>3 DEF OnTheWay, SemTypeOK
<1> QED
  BY <1>5, <1>6, OnTheWayFinite, FS_Subset

(***************************************************************************)
(* Every step keeps the units spoken for while there are sleepers.         *)
(***************************************************************************)
LEMMA SemNoLostWakeupStep ==
  SemInv /\ SemNoLostWakeup /\ [SemNext]_xsemVars => SemNoLostWakeup'
<1> SUFFICES ASSUME SemInv, SemNoLostWakeup, [SemNext]_xsemVars,
                    SemAsleep' # {}
             PROVE  count' <= Cardinality(OnTheWay')
  BY DEF SemNoLostWakeup
<1> DEFINE Goal == count' <= Cardinality(OnTheWay')
<1>0. /\ count \in Int /\ spc \in [Procs -> SemPlaces]
      /\ Cardinality(OnTheWay) \in Nat /\ Cardinality(OnTheWay') \in Nat
  BY OnTheWayFinite DEF SemInv, SemTypeOK
<1> USE DEF SemPlaces, SemGoTo
<1>1. ASSUME UNCHANGED <<count, SemAsleep, OnTheWay>> PROVE Goal
  BY <1>0, <1>1 DEF SemNoLostWakeup
<1>2. CASE UNCHANGED xsemVars
  BY <1>1, <1>2 DEF xsemVars, SemAsleep, OnTheWay
<1>3. ASSUME UNCHANGED semVars PROVE Goal
  BY <1>1, <1>3 DEF semVars, SemAsleep, OnTheWay
<1>4. ASSUME UNCHANGED count, SemAsleep' \subseteq SemAsleep,
             OnTheWay \subseteq OnTheWay'
      PROVE  Goal
  BY <1>0, <1>4, OnTheWayGrows DEF SemNoLostWakeup
<1>5. ASSUME NEW p \in Procs,
             \/ CallDown(p) \/ CallUp(p) \/ DownRelock(p) \/ DownReturn(p)
             \/ DownSpurious(p)
      PROVE  Goal
  BY <1>0, <1>4, <1>5 DEF CallDown, CallUp, DownRelock, DownReturn,
                          DownSpurious, SemAsleep, OnTheWay
<1>6. ASSUME NEW p \in Procs, DownTake(p) PROVE Goal
  <2>1. p \in OnTheWay /\ OnTheWay' = OnTheWay \ {p}
    BY <1>0, <1>6 DEF DownTake, OnTheWay
  <2>2. SemAsleep' = SemAsleep /\ count' = count - 1
    BY <1>0, <1>6 DEF DownTake, SemAsleep
  <2> QED
    BY <1>0, <2>1, <2>2, OnTheWayLeaves DEF SemNoLostWakeup
<1>7. ASSUME NEW p \in Procs, DownEmpty(p) PROVE Goal
  BY <1>0, <1>7 DEF DownEmpty
<1>8. ASSUME NEW p \in Procs, DownWait(p) PROVE Goal
  <2>1. CASE count = 0
    BY <1>0, <1>8, <2>1 DEF DownWait
  <2>2. CASE count # 0
    BY <1>0, <1>4, <1>8, <2>2 DEF DownWait, SemAsleep, OnTheWay
  <2> QED
    BY <2>1, <2>2
<1>9. ASSUME NEW p \in Procs, UpIncrement(p) PROVE Goal
  <2>1. p \notin OnTheWay /\ OnTheWay' = OnTheWay \cup {p}
    BY <1>0, <1>9 DEF UpIncrement, OnTheWay
  <2>2. SemAsleep' = SemAsleep /\ count' = count + 1
    BY <1>0, <1>9 DEF UpIncrement, SemAsleep
  <2> QED
    BY <1>0, <2>1, <2>2, OnTheWayJoins DEF SemNoLostWakeup
<1>10. ASSUME NEW p \in Procs, UpWake(p) PROVE Goal
  <2>1. SemAsleep # {}
    BY <1>0, <1>10 DEF UpWake, SemAsleep
  <2>2. UNCHANGED count
    BY <1>10 DEF UpWake
  <2> QED
    BY <1>0, <1>10, <2>1, <2>2, WakeReplaces
       DEF SemNoLostWakeup, SemInv
<1> QED
  BY <1>2, <1>3, <1>5, <1>6, <1>7, <1>8, <1>9, <1>10
     DEF SemNext, SemStep, SemSpurious

(***************************************************************************)
(* xsem loses no wake-up, for any finite set of processes, any initial     *)
(* count and any choice of FUTEX_WAKE among the sleepers.                  *)
(***************************************************************************)
THEOREM SemLosesNoWakeup == SemSpec => []SemNoLostWakeup
<1>1. SemInit => SemNoLostWakeup
  BY DEF SemInit, SemNoLostWakeup, SemAsleep
<1> QED
  BY <1>1, SemInvariant, SemNoLostWakeupStep, PTL DEF SemSpec

-----------------------------------------------------------------------------
(***************************************************************************)
(*                               test_xlock                                *)
(***************************************************************************)
(***************************************************************************)
(* Where a child stands in test2 says where it can stand in the lock's     *)
(* code; do_inc_file runs only between xlock_lock and xlock_unlock.        *)
(***************************************************************************)
InFile == {p \in Procs : cpc[p] \in {"open", "read", "write"}}

PlacesAgree ==
    \A p \in Procs :
        /\ p \in InFile => lpc[p] = "in"
        /\ cpc[p] = "stat" => lpc[p] \in {"cas", "wait", "asleep", "in"}
        /\ cpc[p] = "loop" => lpc[p] \in {"release", "wake", "out"}
        /\ cpc[p] \in {"unborn", "nofork", "exit", "reaped"} => lpc[p] = "out"

(***************************************************************************)
(* What a child in do_inc_file knows of the file is still true: whether it *)
(* existed, and at the write the next integer.  A file without an integer  *)
(* in it has seen no increment, and exists only while its creator is on    *)
(* the way to the first write.                                             *)
(***************************************************************************)
FileKnown ==
    /\ file \in {Absent, Empty} => start = 0 /\ writes = 0
    /\ file = Empty => \E p \in Procs : cpc[p] \in {"read", "write"}
    /\ \A p \in Procs :
          /\ cpc[p] = "open" => (doInit[p] <=> file = Absent)
          /\ cpc[p] = "read" => file # Absent /\ (doInit[p] <=> file = Empty)
          /\ cpc[p] = "write" => file # Absent /\ fint[p] = start + writes + 1

IncTypeOK ==
    /\ file \in Int \cup {Absent, Empty}
    /\ cpc \in [Procs -> {"unborn", "nofork", "loop", "stat", "open", "read",
                          "write", "exit", "reaped"}]
    /\ doInit \in [Procs -> BOOLEAN]
    /\ fint \in [Procs -> Int]
    /\ start \in Int
    /\ writes \in Nat

IncInv ==
    LockInv /\ IncTypeOK /\ PlacesAgree /\ FileKnown /\ NoLostIncrement

\* A step of the program is a step of the lock or leaves it alone.
LEMMA TestStepIsLockStep == [TestNext]_testVars => [LockNext]_lockVars
<1> SUFFICES ASSUME [TestNext]_testVars PROVE [LockNext]_lockVars
  OBVIOUS
<1>1. CASE UNCHANGED testVars
  BY <1>1 DEF testVars, lockVars
<1>2. CASE Wait \/ PrintIncFile
  BY <1>2 DEF Wait, PrintIncFile
<1>3. ASSUME NEW p \in Procs, Fork(p) \/ LoopExit(p) \/ IncStat(p) \/ IncRead(p)
      PROVE  UNCHANGED lockVars
  BY <1>3 DEF Fork, LoopExit, IncStat, IncRead
<1>4. ASSUME NEW p \in Procs, LoopLock(p) \/ IncOpen(p) \/ IncWrite(p)
      PROVE  [LockNext]_lockVars
  BY <1>4 DEF LoopLock, IncOpen, IncWrite, LockNext
<1>5. ASSUME NEW p \in Procs, LockStep(p) \/ SpuriousWakeup(p) PROVE LockNext
  BY <1>5 DEF LockNext
<1> QED
  BY <1>1, <1>2, <1>3, <1>4, <1>5 DEF TestNext, Parent, Child

\* Nobody else is in do_inc_file while the owner of the lock is.
LEMMA AloneInFile ==
  ASSUME LockInv, PlacesAgree, NEW p \in Procs, lpc[p] = "in"
  PROVE  \A q \in Procs : q # p => q \notin InFile
<1>1. p \in Owner
  BY DEF Owner
<1>2. \A q \in Procs : q \in InFile => q \in Owner
  BY DEF PlacesAgree, Owner
<1> QED
  BY <1>1, <1>2 DEF LockInv, MutualExclusion

\* The two program counters stay in agreement.
LEMMA PlacesAgreeStep ==
  ASSUME LockTypeOK, IncTypeOK, PlacesAgree, [TestNext]_testVars
  PROVE  PlacesAgree'
<1> USE DEF PlacesAgree, InFile, IncTypeOK, Moves
<1>1. CASE UNCHANGED testVars
  BY <1>1 DEF testVars
<1>2. ASSUME NEW p \in Procs, LockStep(p), UNCHANGED incVars PROVE PlacesAgree'
  BY <1>2, LockStepPlaces DEF incVars
<1> USE DEF LockTypeOK, Places, GoTo, lockVars, CallLock, CallUnlock
<1>3. CASE Wait
  BY <1>3 DEF Wait
<1>4. CASE PrintIncFile
  BY <1>4 DEF PrintIncFile
<1>5. ASSUME NEW p \in Procs, Fork(p) PROVE PlacesAgree'
  BY <1>5 DEF Fork
<1>6. ASSUME NEW p \in Procs, LoopLock(p) PROVE PlacesAgree'
  BY <1>6 DEF LoopLock
<1>7. ASSUME NEW p \in Procs, LoopExit(p) PROVE PlacesAgree'
  BY <1>7 DEF LoopExit
<1>8. ASSUME NEW p \in Procs, IncStat(p) PROVE PlacesAgree'
  BY <1>8 DEF IncStat
<1>9. ASSUME NEW p \in Procs, IncOpen(p) PROVE PlacesAgree'
  BY <1>9 DEF IncOpen
<1>10. ASSUME NEW p \in Procs, IncRead(p) PROVE PlacesAgree'
  BY <1>10 DEF IncRead
<1>11. ASSUME NEW p \in Procs, IncWrite(p) PROVE PlacesAgree'
  BY <1>11 DEF IncWrite
<1>12. ASSUME NEW p \in Procs, SpuriousWakeup(p), UNCHANGED incVars PROVE PlacesAgree'
  BY <1>12 DEF SpuriousWakeup, incVars
<1> QED
  BY <1>1, <1>2, <1>3, <1>4, <1>5, <1>6, <1>7, <1>8, <1>9, <1>10, <1>11, <1>12
     DEF TestNext, Parent, Child

(***************************************************************************)
(* Each of the system calls of do_inc_file keeps what is known of the file *)
(* because its caller is alone in there.                                   *)
(***************************************************************************)
LEMMA FileStep ==
  ASSUME FileAssumption, IncInv, [TestNext]_testVars
  PROVE  IncTypeOK' /\ FileKnown' /\ NoLostIncrement'
<1> DEFINE Goal == IncTypeOK' /\ FileKnown' /\ NoLostIncrement'
<1>0. /\ IncTypeOK /\ FileKnown /\ NoLostIncrement
      /\ \A p, q \in Procs : lpc[p] = "in" /\ q # p =>
            cpc[q] \notin {"open", "read", "write"}
      /\ \A p \in Procs : cpc[p] \in {"open", "read", "write"} => lpc[p] = "in"
  BY AloneInFile DEF IncInv, InFile, PlacesAgree
<1> USE DEF IncTypeOK, FileKnown, NoLostIncrement, Moves, FileAssumption
<1>1. ASSUME UNCHANGED incVars PROVE Goal
  BY <1>0, <1>1 DEF incVars
<1>2. ASSUME UNCHANGED <<file, doInit, fint, start, writes>>, NEW p \in Procs,
             NEW place \in {"nofork", "loop", "stat", "exit", "reaped"},
             cpc[p] \notin {"open", "read", "write"},
             cpc' = [cpc EXCEPT ![p] = place]
      PROVE  Goal
  BY <1>0, <1>2
<1>3. CASE Wait
  BY <1>0, <1>1, <1>2, <1>3 DEF Wait
<1>4. CASE PrintIncFile
  BY <1>0, <1>4 DEF PrintIncFile
<1>5. ASSUME NEW p \in Procs, Fork(p) \/ LoopExit(p) PROVE Goal
  BY <1>2, <1>5 DEF Fork, LoopExit
<1>6. ASSUME NEW p \in Procs, LoopLock(p) PROVE Goal
  BY <1>2, <1>6 DEF LoopLock
<1>7. ASSUME NEW p \in Procs, IncStat(p) PROVE Goal
  BY <1>0, <1>7 DEF IncStat
<1>8. ASSUME NEW p \in Procs, IncOpen(p) PROVE Goal
  BY <1>0, <1>8 DEF IncOpen
<1>9. ASSUME NEW p \in Procs, IncRead(p) PROVE Goal
  BY <1>0, <1>9 DEF IncRead
<1>10. ASSUME NEW p \in Procs, IncWrite(p) PROVE Goal
  BY <1>0, <1>10 DEF IncWrite
<1> QED
  BY <1>1, <1>3, <1>4, <1>5, <1>6, <1>7, <1>8, <1>9, <1>10
     DEF TestNext, Parent, Child, testVars, incVars

(***************************************************************************)
(* For any number of children and turns, whether there was no test_inc     *)
(* before or one with an integer in it, and whichever calls of open or     *)
(* fork fail: no increment is lost.                                        *)
(***************************************************************************)
THEOREM IncrementsNotLost == TestSpec => []NoLostIncrement
<1>1. TestInit => IncInv
  BY FileAssumption, LockInvInit DEF TestInit, LockInit, IncInv, IncTypeOK, PlacesAgree,
     InFile, FileKnown, NoLostIncrement, FileAssumption
<1>2. IncInv /\ [TestNext]_testVars => IncInv'
  BY FileAssumption, TestStepIsLockStep, LockInvStep, PlacesAgreeStep, FileStep
     DEF IncInv, LockInv
<1>3. IncInv => NoLostIncrement
  BY DEF IncInv
<1> QED
  BY <1>1, <1>2, <1>3, PTL DEF TestSpec

-----------------------------------------------------------------------------
(***************************************************************************)
(*                                test_sem                                 *)
(***************************************************************************)
(***************************************************************************)
(* A process is in xsem_down or xsem_up only at the places of              *)
(* sem_test_thread that call them.                                         *)
(***************************************************************************)
InDown == {"d_try", "d_none", "d_asleep", "d_woken", "d_got"}

CallsAgree ==
    \A p \in Procs :
        /\ tpc[p] = "load" => spc[p] \in InDown \cup {"idle"}
        /\ tpc[p] = "last" => spc[p] \in {"u_try", "u_done", "idle"}
        /\ tpc[p] \notin {"load", "last"} => spc[p] = "idle"

(***************************************************************************)
(* Who has taken a unit and not given it back.  With one unit, it is in    *)
(* the count or with one process.                                          *)
(***************************************************************************)
Holders == {p \in Procs : \/ tpc[p] \in {"store", "leave"}
                          \/ tpc[p] = "load" /\ spc[p] \in {"d_got", "idle"}
                          \/ tpc[p] = "last" /\ spc[p] = "u_try"}

OneUnit ==
    SemCount = 1 => \/ count = 1 /\ Holders = {}
                    \/ count = 0 /\ \E p \in Procs : Holders = {p}

(***************************************************************************)
(* check_count counts the processes past their increment, and what a       *)
(* process has loaded is still what it will replace.                       *)
(***************************************************************************)
Past == {p \in Procs : tpc[p] \in {"leave", "last", "exit", "reaped"}}

Counted ==
    SemCount = 1 => /\ check = Cardinality(Past)
                    /\ \A p \in Procs : tpc[p] = "store" => reg[p] = check

(***************************************************************************)
(* Each wait() has reaped a child, unless no child was left.               *)
(***************************************************************************)
Reaped == {p \in Procs : tpc[p] = "reaped"}

Waiting ==
    /\ waited > 0 => \A p \in Procs : tpc[p] # "unborn"
    /\ Cardinality(Reaped) <= waited
    /\ Children = {} \/ waited = Cardinality(Reaped)
    /\ main = "done" => Children = {} /\ files = {}

SemTestInv ==
    SemInv /\ TypeOK /\ CallsAgree /\ OneUnit /\ Counted /\ Waiting

\* A step of the program is a step of the semaphore or leaves it alone.
LEMMA TestStepIsSemStep == [Next]_vars => [SemNext]_xsemVars
<1> SUFFICES ASSUME [Next]_vars PROVE [SemNext]_xsemVars
  OBVIOUS
<1>1. CASE UNCHANGED vars
  BY <1>1 DEF vars, xsemVars
<1>2. CASE Main
  BY <1>2 DEF Main, MainCreate, MainAlloc, MainWait, MainDestroy, MainFork, lockVars,
     semVars, xsemVars
<1>3. ASSUME NEW p \in Procs, SemSpurious(p) \/ SemStep(p) PROVE SemNext
  BY <1>3 DEF SemNext
<1>4. ASSUME NEW p \in Procs, ThreadDown(p) \/ ThreadUp(p) PROVE SemNext
  BY <1>4 DEF ThreadDown, ThreadUp, SemNext
<1>5. ASSUME NEW p \in Procs, ThreadLoad(p) \/ ThreadStore(p) \/ ThreadExit(p)
      PROVE  UNCHANGED xsemVars
  BY <1>5 DEF ThreadLoad, ThreadStore, ThreadExit, lockVars, semVars, xsemVars
<1> QED
  BY <1>1, <1>2, <1>3, <1>4, <1>5 DEF Next, Spurious, Thread

(***************************************************************************)
(* What the steps inside xsem do to the count and to the places: the unit  *)
(* changes hands in two of them only.                                      *)
(***************************************************************************)
LEMMA SemStepPlaces ==
  ASSUME SemTypeOK, NEW p \in Procs, SemStep(p) \/ SemSpurious(p)
  PROVE  /\ \A q \in Procs \ {p} :
               spc'[q] = spc[q] \/ (spc[q] = "d_asleep" /\ spc'[q] = "d_woken")
         /\ \/ /\ UNCHANGED count
               /\ \/ spc'[p] = spc[p]
                  \/ /\ spc[p] \in InDown \ {"d_got"}
                     /\ spc'[p] \in InDown \ {"d_got"}
                  \/ spc[p] \in {"d_got", "u_done"} /\ spc'[p] = "idle"
            \/ count > 0 /\ count' = count - 1 /\ spc[p] = "d_try" /\ spc'[p] = "d_got"
            \/ count' = count + 1 /\ spc[p] = "u_try" /\ spc'[p] = "u_done"
<1> USE DEF SemTypeOK, SemPlaces, SemGoTo, InDown
<1>1. CASE UNCHANGED semVars
  BY <1>1 DEF semVars
<1>2. CASE DownTake(p)
  BY <1>2 DEF DownTake
<1>3. CASE DownEmpty(p) \/ DownWait(p) \/ DownRelock(p) \/ DownReturn(p) \/ DownSpurious(p)
  BY <1>3 DEF DownEmpty, DownWait, DownRelock, DownReturn, DownSpurious
<1>4. CASE UpIncrement(p)
  BY <1>4 DEF UpIncrement
<1>5. CASE UpWake(p)
  BY <1>5 DEF UpWake, Woken, SemAsleep
<1> QED
  BY <1>1, <1>2, <1>3, <1>4, <1>5 DEF SemStep, SemSpurious

\* The calls of xsem_down and xsem_up.
LEMMA CallPlaces ==
  ASSUME SemTypeOK, NEW p \in Procs
  PROVE  /\ CallDown(p) => /\ spc[p] = "idle" /\ spc' = [spc EXCEPT ![p] = "d_try"]
                            /\ UNCHANGED count
         /\ CallUp(p) => /\ spc[p] = "idle" /\ spc' = [spc EXCEPT ![p] = "u_try"]
                          /\ UNCHANGED count
BY DEF CallDown, CallUp, SemGoTo

(***************************************************************************)
(* sem_test_thread and xsem stay in agreement.                             *)
(***************************************************************************)
LEMMA CallsAgreeStep ==
  ASSUME SemTypeOK, TypeOK, CallsAgree, [Next]_vars
  PROVE  CallsAgree'
<1> USE DEF CallsAgree, TypeOK, From
<1>1. CASE UNCHANGED vars
  BY <1>1 DEF vars
<1>2. CASE MainCreate \/ MainAlloc \/ MainDestroy
  BY <1>2 DEF MainCreate, MainAlloc, MainDestroy, semVars
<1>3. CASE MainWait
  BY <1>3 DEF MainWait, semVars
<1>4. ASSUME NEW p \in Procs, MainFork(p) PROVE CallsAgree'
  BY <1>4 DEF MainFork, semVars
<1>5. ASSUME NEW p \in Procs, SemStep(p) \/ SemSpurious(p), UNCHANGED progVars
      PROVE  CallsAgree'
  BY <1>5, SemStepPlaces DEF progVars, InDown
<1>6. ASSUME NEW p \in Procs, ThreadDown(p) PROVE CallsAgree'
  BY <1>6, CallPlaces DEF ThreadDown, InDown, SemTypeOK
<1>7. ASSUME NEW p \in Procs, ThreadUp(p) PROVE CallsAgree'
  BY <1>7, CallPlaces DEF ThreadUp, SemTypeOK
<1>8. ASSUME NEW p \in Procs, ThreadLoad(p) \/ ThreadStore(p) \/ ThreadExit(p)
      PROVE  CallsAgree'
  BY <1>8 DEF ThreadLoad, ThreadStore, ThreadExit, semVars
<1> QED
  BY <1>1, <1>2, <1>3, <1>4, <1>5, <1>6, <1>7, <1>8 DEF Next, Main, Spurious, Thread

\* The unit changes hands in raw steps of the count: with one it is taken,
\* with the other given back.
LEMMA HoldersStep ==
  ASSUME SemTypeOK, TypeOK, CallsAgree, [Next]_vars
  PROVE  \/ UNCHANGED <<count, Holders>>
         \/ \E p \in Procs : /\ count > 0 /\ count' = count - 1
                             /\ Holders' = Holders \cup {p}
         \/ \E p \in Holders : count' = count + 1 /\ Holders' = Holders \ {p}
<1> DEFINE Goal == \/ UNCHANGED <<count, Holders>>
                   \/ \E p \in Procs : /\ count > 0 /\ count' = count - 1
                                       /\ Holders' = Holders \cup {p}
                   \/ \E p \in Holders : count' = count + 1 /\ Holders' = Holders \ {p}
<1> USE DEF Holders, TypeOK, From
<1>1. CASE UNCHANGED vars
  BY <1>1 DEF vars
<1>2. CASE MainCreate \/ MainAlloc \/ MainDestroy
  BY <1>2 DEF MainCreate, MainAlloc, MainDestroy, semVars
<1>3. CASE MainWait
  BY <1>3 DEF MainWait, semVars
<1>4. ASSUME NEW p \in Procs, MainFork(p) PROVE Goal
  BY <1>4 DEF MainFork, semVars
<1>5. ASSUME NEW p \in Procs, SemStep(p) \/ SemSpurious(p), UNCHANGED progVars
      PROVE  Goal
  <2>0. tpc' = tpc
    BY <1>5 DEF progVars
  <2>1. \A q \in Procs \ {p} : q \in Holders' <=> q \in Holders
    BY <1>5, <2>0, SemStepPlaces
  <2>2. CASE /\ UNCHANGED count
             /\ \/ spc'[p] = spc[p]
                \/ /\ spc[p] \in InDown \ {"d_got"}
                   /\ spc'[p] \in InDown \ {"d_got"}
                \/ spc[p] \in {"d_got", "u_done"} /\ spc'[p] = "idle"
    <3>1. p \in Holders' <=> p \in Holders
      BY <2>0, <2>2 DEF InDown, CallsAgree
    <3>2. Holders' = Holders
      BY <2>1, <3>1
    <3> QED
      BY <2>2, <3>2
  <2>3. CASE count > 0 /\ count' = count - 1 /\ spc[p] = "d_try" /\ spc'[p] = "d_got"
    <3>1. p \in Holders'
      BY <2>0, <2>3 DEF CallsAgree
    <3>2. Holders' = Holders \cup {p}
      BY <2>1, <3>1
    <3> QED
      BY <2>3, <3>2
  <2>4. CASE count' = count + 1 /\ spc[p] = "u_try" /\ spc'[p] = "u_done"
    <3>1. p \in Holders /\ p \notin Holders'
      BY <2>0, <2>4 DEF CallsAgree, InDown
    <3>2. Holders' = Holders \ {p}
      BY <2>1, <3>1
    <3> QED
      BY <2>4, <3>1, <3>2
  <2> HIDE DEF Holders
  <2> QED
    BY <1>5, <2>2, <2>3, <2>4, SemStepPlaces
<1>6. ASSUME NEW p \in Procs, ThreadDown(p) PROVE Goal
  BY <1>6, CallPlaces DEF ThreadDown, SemTypeOK
<1>7. ASSUME NEW p \in Procs, ThreadUp(p) PROVE Goal
  BY <1>7, CallPlaces DEF ThreadUp, SemTypeOK
<1>8. ASSUME NEW p \in Procs, ThreadLoad(p) \/ ThreadStore(p) \/ ThreadExit(p)
      PROVE  Goal
  BY <1>8 DEF ThreadLoad, ThreadStore, ThreadExit, semVars
<1> HIDE DEF Goal
<1> QED
  BY <1>1, <1>2, <1>3, <1>4, <1>5, <1>6, <1>7, <1>8 DEF Next, Main, Spurious, Thread, Goal

\* With one unit there is at most one holder.
LEMMA OneUnitStep ==
  ASSUME SemTypeOK, TypeOK, CallsAgree, OneUnit, [Next]_vars
  PROVE  OneUnit'
<1> SUFFICES ASSUME SemCount = 1
             PROVE  \/ count' = 1 /\ Holders' = {}
                    \/ count' = 0 /\ \E p \in Procs : Holders' = {p}
  BY DEF OneUnit
<1>1. \/ count = 1 /\ Holders = {}
      \/ count = 0 /\ \E p \in Procs : Holders = {p}
  BY DEF OneUnit
<1>2. CASE UNCHANGED <<count, Holders>>
  BY <1>1, <1>2
<1>3. ASSUME NEW p \in Procs, count > 0, count' = count - 1, Holders' = Holders \cup {p}
      PROVE  count' = 0 /\ Holders' = {p}
  BY <1>1, <1>3
<1>4. ASSUME NEW p \in Holders, count' = count + 1, Holders' = Holders \ {p}
      PROVE  count' = 1 /\ Holders' = {}
  BY <1>1, <1>4
<1> QED
  BY <1>2, <1>3, <1>4, HoldersStep

\* The processes past the increment, and the reaped, are finitely many.
LEMMA CrowdsFinite ==
  /\ IsFiniteSet(Past) /\ Cardinality(Past) \in Nat
  /\ IsFiniteSet(Reaped) /\ Cardinality(Reaped) \in Nat
  /\ Cardinality(Procs) \in Nat
<1>1. Past \subseteq Procs /\ Reaped \subseteq Procs
  BY DEF Past, Reaped
<1> QED
  BY <1>1, ProcsAssumption, FS_Subset, FS_CardinalityType

(***************************************************************************)
(* Only ThreadStore changes check_count or sends a process past it.        *)
(***************************************************************************)
LEMMA CountedStep ==
  ASSUME SemTypeOK, TypeOK, CallsAgree, OneUnit, Counted, [Next]_vars
  PROVE  Counted'
<1> SUFFICES ASSUME SemCount = 1
             PROVE  /\ check' = Cardinality(Past')
                    /\ \A p \in Procs : tpc'[p] = "store" => reg'[p] = check'
  BY DEF Counted
<1> DEFINE Goal == /\ check' = Cardinality(Past')
                   /\ \A p \in Procs : tpc'[p] = "store" => reg'[p] = check'
<1>0. /\ check = Cardinality(Past)
      /\ \A p \in Procs : tpc[p] = "store" => reg[p] = check
      /\ DOMAIN tpc = Procs /\ DOMAIN reg = Procs
  BY DEF Counted, TypeOK
<1>1. ASSUME UNCHANGED <<check, reg>>, Past' = Past,
             \A p \in Procs : tpc'[p] = "store" => tpc[p] = "store"
      PROVE  Goal
  BY <1>0, <1>1
<1>2. CASE UNCHANGED vars
  BY <1>1, <1>2 DEF vars, Past
<1>3. CASE MainCreate \/ MainAlloc \/ MainDestroy
  BY <1>1, <1>3 DEF MainCreate, MainAlloc, MainDestroy, Past
<1>4. CASE MainWait
  BY <1>0, <1>1, <1>4 DEF MainWait, From, Past
<1>5. ASSUME NEW p \in Procs, MainFork(p) \/ ThreadExit(p) \/ ThreadDown(p) \/ ThreadUp(p)
      PROVE  Goal
  BY <1>0, <1>1, <1>5 DEF MainFork, ThreadExit, ThreadDown, ThreadUp, From, Past
<1>6. ASSUME NEW p \in Procs, UNCHANGED progVars PROVE Goal
  BY <1>1, <1>6 DEF progVars, Past
<1>7. ASSUME NEW p \in Procs, ThreadLoad(p) PROVE Goal
  <2>1. Past' = Past
    BY <1>0, <1>7 DEF ThreadLoad, From, Past
  <2> QED
    BY <1>0, <1>7, <2>1 DEF ThreadLoad, From
<1>8. ASSUME NEW p \in Procs, ThreadStore(p) PROVE Goal
  <2>1. p \in Holders /\ p \notin Past /\ Past' = Past \cup {p}
    BY <1>0, <1>8 DEF ThreadStore, From, Holders, Past
  <2>2. \A q \in Procs : tpc[q] = "store" => q = p
    <3>1. \A q \in Procs : tpc[q] = "store" => q \in Holders
      BY DEF Holders
    <3> QED
      BY <2>1, <3>1 DEF OneUnit
  <2>3. check' = check + 1
    BY <1>0, <1>8 DEF ThreadStore, From
  <2>4. Cardinality(Past') = Cardinality(Past) + 1
    BY <2>1, CrowdsFinite, FS_AddElement
  <2> QED
    BY <1>0, <1>8, <2>2, <2>3, <2>4 DEF ThreadStore, From
<1> HIDE DEF Goal
<1> QED
  BY <1>2, <1>3, <1>4, <1>5, <1>6, <1>7, <1>8 DEF Next, Main, Spurious, Thread, Goal

(***************************************************************************)
(* The parent has reaped as many children as its calls of wait() had to.   *)
(***************************************************************************)
LEMMA WaitingStep ==
  ASSUME SemTypeOK, TypeOK, CallsAgree, Waiting, [Next]_vars
  PROVE  Waiting'
<1>0. /\ DOMAIN tpc = Procs /\ waited \in Nat /\ waited <= Cardinality(Procs)
      /\ Cardinality(Reaped) \in Nat /\ Cardinality(Procs) \in Nat
  BY CrowdsFinite DEF TypeOK
<1>1. ASSUME UNCHANGED <<waited, main, files>>, Reaped' = Reaped, Children' = Children,
             \A p \in Procs : tpc'[p] = "unborn" => tpc[p] = "unborn"
      PROVE  Waiting'
  BY <1>1 DEF Waiting
<1>2. CASE UNCHANGED vars
  BY <1>1, <1>2 DEF vars, Reaped, Children
<1>3. CASE MainCreate \/ MainAlloc
  <2>1. UNCHANGED <<waited, tpc>> /\ main' # "done"
    BY <1>3 DEF MainCreate, MainAlloc
  <2> QED
    BY <2>1 DEF Waiting, Reaped, Children
<1>4. ASSUME NEW p \in Procs, MainFork(p) PROVE Waiting'
  <2>1. /\ tpc[p] = "unborn" /\ main' = "fork" /\ waited' = waited
        /\ Reaped' = Reaped
    BY <1>0, <1>4 DEF MainFork, From, Reaped
  <2>2. waited = 0 /\ Cardinality(Reaped) = 0
    BY <1>0, <2>1 DEF Waiting
  <2> QED
    BY <2>1, <2>2 DEF Waiting
<1>5. CASE MainWait
  <2>1. /\ main' = "fork" /\ waited' = waited + 1
        /\ \A p \in Procs : tpc[p] # "unborn"
    BY <1>5 DEF MainWait
  <2>2. CASE Children = {} /\ UNCHANGED tpc
    BY <1>0, <2>1, <2>2 DEF Waiting, Reaped, Children
  <2>3. ASSUME NEW p \in Procs, From(p, "exit", "reaped") PROVE Waiting'
    <3>1. p \in Children /\ p \notin Reaped /\ Reaped' = Reaped \cup {p}
      BY <1>0, <2>3 DEF From, Reaped, Children
    <3>2. Cardinality(Reaped') = Cardinality(Reaped) + 1
      BY <3>1, CrowdsFinite, FS_AddElement
    <3>3. waited = Cardinality(Reaped)
      BY <3>1 DEF Waiting
    <3>4. \A q \in Procs : tpc'[q] # "unborn"
      BY <1>0, <2>1, <2>3 DEF From
    <3> QED
      BY <1>0, <2>1, <3>2, <3>3, <3>4 DEF Waiting
  <2> QED
    BY <1>5, <2>2, <2>3 DEF MainWait
<1>6. CASE MainDestroy
  <2>1. waited = Cardinality(Procs) /\ UNCHANGED <<tpc, waited>> /\ files' = {}
    BY <1>6 DEF MainDestroy
  <2>2. Children = {}
    <3>1. CASE waited = Cardinality(Reaped)
      <4>1. Reaped \subseteq Procs
        BY DEF Reaped
      <4>2. Reaped = Procs
        BY <2>1, <3>1, <4>1, ProcsAssumption, FS_Subset
      <4> QED
        BY <4>2 DEF Reaped, Children
    <3> QED
      BY <3>1 DEF Waiting
  <2> QED
    BY <2>1, <2>2 DEF Waiting, Reaped, Children
<1>7. ASSUME NEW p \in Procs,
             \/ ThreadDown(p) \/ ThreadLoad(p) \/ ThreadStore(p) \/ ThreadUp(p)
             \/ ThreadExit(p)
      PROVE  Waiting'
  <2>1. PICK from \in {"enter", "load", "store", "leave", "last"},
             to \in {"load", "store", "leave", "last", "exit"} : From(p, from, to)
    BY <1>7 DEF ThreadDown, ThreadLoad, ThreadStore, ThreadUp, ThreadExit
  <2>2. UNCHANGED <<waited, main, files>>
    BY <1>7 DEF ThreadDown, ThreadLoad, ThreadStore, ThreadUp, ThreadExit
  <2> QED
    BY <1>0, <1>1, <2>1, <2>2 DEF From, Reaped, Children
<1>8. ASSUME UNCHANGED progVars PROVE Waiting'
  BY <1>1, <1>8 DEF progVars, Reaped, Children
<1> QED
  BY <1>2, <1>3, <1>4, <1>5, <1>6, <1>7, <1>8 DEF Next, Main, Spurious, Thread

\* Types; what xsem keeps is kept here.
LEMMA SemTestTypeStep ==
  ASSUME SemInv, TypeOK, [Next]_vars
  PROVE  SemInv' /\ TypeOK'
<1>0. SemInv'
  BY TestStepIsSemStep, SemInvStep
<1> SUFFICES TypeOK'
  BY <1>0
<1>1. SemTypeOK'
  BY <1>0 DEF SemInv
<1>2. Cardinality(Procs) \in Nat
  BY CrowdsFinite
<1> USE <1>1 DEF TypeOK, From
<1>3. CASE UNCHANGED vars
  BY <1>3 DEF vars
<1>4. CASE MainCreate \/ MainAlloc \/ MainDestroy
  BY <1>4 DEF MainCreate, MainAlloc, MainDestroy, Files
<1>5. CASE MainWait
  BY <1>2, <1>5 DEF MainWait
<1>6. ASSUME NEW p \in Procs, MainFork(p) PROVE TypeOK'
  BY <1>6 DEF MainFork
<1>7. ASSUME NEW p \in Procs,
             \/ ThreadDown(p) \/ ThreadLoad(p) \/ ThreadStore(p) \/ ThreadUp(p)
             \/ ThreadExit(p)
      PROVE  TypeOK'
  BY <1>7 DEF ThreadDown, ThreadLoad, ThreadStore, ThreadUp, ThreadExit
<1>8. ASSUME UNCHANGED progVars PROVE TypeOK'
  BY <1>8 DEF progVars
<1> QED
  BY <1>0, <1>3, <1>4, <1>5, <1>6, <1>7, <1>8 DEF Next, Main, Spurious, Thread

\* The invariant of test_sem, for any number of processes and any count.
LEMMA SemTestInvariant == Spec => []SemTestInv
<1>1. Init => SemTestInv
  <2> SUFFICES ASSUME Init PROVE SemTestInv
    OBVIOUS
  <2>1. SemInv
    BY SemInvInit DEF Init
  <2>2. Past = {} /\ Reaped = {} /\ Holders = {} /\ Children = {}
    BY DEF Init, Past, Reaped, Holders, Children
  <2>3. Cardinality({}) = 0
    BY FS_EmptySet
  <2>4. count = SemCount /\ \A p \in Procs : spc[p] = "idle"
    BY DEF Init, SemInit
  <2>5. TypeOK
    BY <2>1, CrowdsFinite DEF Init, TypeOK, SemInv
  <2>6. CallsAgree /\ OneUnit /\ Counted /\ Waiting
    BY <2>2, <2>3, <2>4 DEF Init, CallsAgree, OneUnit, Counted, Waiting
  <2> QED
    BY <2>1, <2>5, <2>6 DEF SemTestInv
<1>2. SemTestInv /\ [Next]_vars => SemTestInv'
  BY SemTestTypeStep, CallsAgreeStep, OneUnitStep, CountedStep, WaitingStep
     DEF SemTestInv, SemInv
<1> QED
  BY <1>1, <1>2, PTL DEF Spec

(***************************************************************************)
(* With one unit, check_count[0]++ loses no increment for any number of    *)
(* processes, failed forks included: the number printed is the number of   *)
(* processes that ran (test_sem.c).                                        *)
(***************************************************************************)
THEOREM CheckCountIsExact == Spec => []CheckCountExact
<1>1. SemTestInv => CheckCountExact
  <2> SUFFICES ASSUME SemTestInv, main = "done", SemCount = 1
               PROVE  check = Cardinality({p \in Procs : tpc[p] = "reaped"})
    BY DEF CheckCountExact
  <2>1. Children = {} /\ check = Cardinality(Past)
    BY DEF SemTestInv, Waiting, Counted
  <2>2. Past = {p \in Procs : tpc[p] = "reaped"}
    BY <2>1 DEF Past, Children
  <2> QED
    BY <2>1, <2>2
<1> QED
  BY <1>1, SemTestInvariant, PTL

(***************************************************************************)
(* SEM_DESTROY runs when no child is left in the semaphore, and leaves no  *)
(* file, for any initial count.                                            *)
(***************************************************************************)
THEOREM SemDestroyedAfterUse == Spec => []DestroyedAfterUse
<1>1. SemTestInv => DestroyedAfterUse
  <2> SUFFICES ASSUME SemTestInv, main = "done"
               PROVE  /\ \A p \in Procs : spc[p] = "idle" /\ lpc[p] = "out"
                      /\ Children = {} /\ files = {}
    BY DEF DestroyedAfterUse
  <2>1. Children = {} /\ files = {}
    BY DEF SemTestInv, Waiting
  <2>2. \A p \in Procs : spc[p] = "idle"
    BY <2>1 DEF SemTestInv, CallsAgree, Children
  <2> QED
    BY <2>1, <2>2 DEF SemTestInv, SemInv, CountersAgree
<1> QED
  BY <1>1, SemTestInvariant, PTL
=============================================================================
