----------------------------- MODULE PSemProofs -----------------------------
(***************************************************************************)
(* Proofs about psem for any set of threads and any initial count.         *)
(***************************************************************************)
EXTENDS PSem, TLAPS

(***************************************************************************)
(* The count is an integer, never below zero if psem_create was not given  *)
(* a negative one, and threads are at places of psem_down and psem_up.     *)
(***************************************************************************)
THEOREM PSemTyping == Spec => []TypeOK
<1>1. Init => TypeOK
  BY SemCountAssumption DEF Init, TypeOK, PSemPlaces
<1>2. TypeOK /\ [Next]_psemVars => TypeOK'
  <2> SUFFICES ASSUME TypeOK, [Next]_psemVars PROVE TypeOK'
    OBVIOUS
  <2> USE DEF TypeOK, PSemPlaces, From, MutexLock, MutexUnlock
  <2>1. CASE UNCHANGED psemVars
    BY <2>1 DEF psemVars
  <2>2. ASSUME NEW p \in Procs, CallDown(p) \/ CallUp(p) \/ CondSpurious(p)
        PROVE  TypeOK'
    BY <2>2 DEF CallDown, CallUp, CondSpurious
  <2>3. ASSUME NEW p \in Procs,
               DownLock(p) \/ DownWait(p) \/ DownUnlock(p) \/ UpLock(p) \/ UpUnlock(p)
        PROVE  TypeOK'
    BY <2>3 DEF DownLock, DownWait, DownUnlock, UpLock, UpUnlock
  <2>4. ASSUME NEW p \in Procs, DownTake(p) \/ UpIncrement(p) PROVE TypeOK'
    BY <2>4 DEF DownTake, UpIncrement
  <2>5. ASSUME NEW p \in Procs, UpBroadcast(p) PROVE TypeOK'
    BY <2>5 DEF UpBroadcast
  <2> QED
    BY <2>1, <2>2, <2>3, <2>4, <2>5 DEF Next, PSemStep
<1> QED
  BY <1>1, <1>2, PTL DEF Spec

-----------------------------------------------------------------------------
(***************************************************************************)
(* The broadcast of psem_up comes after the unlock and is late enough: a   *)
(* thread enters pthread_cond_wait only after it saw no unit, under the    *)
(* mutex, and every unit given since then has its broadcast to come.       *)
(***************************************************************************)
LEMMA BroadcastToCome ==
  TypeOK /\ PSemNoLostWakeup /\ [Next]_psemVars => PSemNoLostWakeup'
<1> SUFFICES ASSUME TypeOK, PSemNoLostWakeup, [Next]_psemVars,
                    count' > 0, CondAsleep' # {}
             PROVE  \E p \in Procs : ppc'[p] \in {"u_unlock", "u_bcast"}
  BY DEF PSemNoLostWakeup
<1> DEFINE Goal == \E p \in Procs : ppc'[p] \in {"u_unlock", "u_bcast"}
<1> USE DEF TypeOK, From
<1>1. CASE UNCHANGED psemVars
  BY <1>1 DEF psemVars, PSemNoLostWakeup, CondAsleep
<1>2. ASSUME NEW p \in Procs,
             \/ CallDown(p) \/ CallUp(p) \/ CondSpurious(p)
             \/ DownLock(p) \/ DownTake(p) \/ DownUnlock(p) \/ UpLock(p)
      PROVE  Goal
  <2>1. count > 0 /\ CondAsleep # {}
    BY <1>2 DEF CallDown, CallUp, CondSpurious, DownLock, DownTake, DownUnlock, UpLock,
                CondAsleep
  <2>2. PICK q \in Procs : ppc[q] \in {"u_unlock", "u_bcast"}
    BY <2>1 DEF PSemNoLostWakeup
  <2>3. ppc'[q] = ppc[q]
    BY <1>2, <2>2 DEF CallDown, CallUp, CondSpurious, DownLock, DownTake, DownUnlock,
                      UpLock
  <2> QED
    BY <2>2, <2>3
<1>3. ASSUME NEW p \in Procs, DownWait(p) PROVE Goal
  BY <1>3 DEF DownWait
<1>4. ASSUME NEW p \in Procs, UpIncrement(p) \/ UpUnlock(p) PROVE Goal
  BY <1>4 DEF UpIncrement, UpUnlock
<1>5. ASSUME NEW p \in Procs, UpBroadcast(p) PROVE Goal
  BY <1>5 DEF UpBroadcast, CondAsleep
<1> QED
  BY <1>1, <1>2, <1>3, <1>4, <1>5 DEF Next, PSemStep

(***************************************************************************)
(* psem loses no wake-up, for any set of threads: no sleeper in            *)
(* pthread_cond_wait overlooks a unit for which no broadcast is to come.   *)
(***************************************************************************)
THEOREM PSemLosesNoWakeup == Spec => []PSemNoLostWakeup
<1>1. Init => PSemNoLostWakeup
  BY DEF Init, PSemNoLostWakeup, CondAsleep
<1> QED
  BY <1>1, BroadcastToCome, PSemTyping, PTL DEF Spec

-----------------------------------------------------------------------------
absOp == [p \in Procs |-> OpOf(ppc[p])]

(***************************************************************************)
(* What callers see of each place in psem_down and psem_up.                *)
(***************************************************************************)
LEMMA OpOfPlaces ==
  /\ OpOf("idle") = "idle" /\ OpOf("d_unlock") = "took"
  /\ OpOf("u_lock") = "up" /\ OpOf("u_inc") = "up"
  /\ OpOf("u_unlock") = "gave" /\ OpOf("u_bcast") = "gave"
  /\ OpOf("d_lock") = "down" /\ OpOf("d_test") = "down" /\ OpOf("d_asleep") = "down"
BY DEF OpOf

(***************************************************************************)
(* A thread that moves changes its own abstract phase and nobody else's.   *)
(***************************************************************************)
LEMMA AbsMove ==
  ASSUME TypeOK, NEW p \in Procs, NEW from, NEW to, From(p, from, to)
  PROVE  absOp[p] = OpOf(from) /\ absOp' = [absOp EXCEPT ![p] = OpOf(to)]
BY DEF TypeOK, From, absOp

(***************************************************************************)
(* psem implements the same abstract semaphore as xsem: DownTake and       *)
(* UpIncrement are its Take and Give, a broadcast is a return, the mutex   *)
(* and the condition variable are invisible.                               *)
(***************************************************************************)
THEOREM PSemImplementsAbstract == Spec => ImplementsAbstractSem
<1>1. Init => AbsSem!Init
  BY OpOfPlaces DEF Init, AbsSem!Init
<1>2. TypeOK /\ [Next]_psemVars => [AbsSem!Next]_<<count, absOp>>
  <2> SUFFICES ASSUME TypeOK, [Next]_psemVars
               PROVE  [AbsSem!Next]_<<count, absOp>>
    OBVIOUS
  <2> DEFINE Stutter == UNCHANGED <<count, absOp>>
  <2> USE OpOfPlaces, AbsMove
  <2>1. CASE UNCHANGED psemVars
    BY <2>1 DEF psemVars, absOp
  <2>2. ASSUME NEW p \in Procs, NEW from, NEW to, From(p, from, to),
               OpOf(from) = OpOf(to), UNCHANGED count
        PROVE  Stutter
    <3>1. absOp[p] = OpOf(from) /\ absOp' = [absOp EXCEPT ![p] = OpOf(from)]
      BY <2>2
    <3> QED
      BY <2>2, <3>1 DEF absOp
  <2>3. ASSUME NEW p \in Procs, CallDown(p) PROVE AbsSem!CallDown(p)
    BY <2>3 DEF CallDown, AbsSem!CallDown, AbsSem!Move, absOp
  <2>4. ASSUME NEW p \in Procs, CallUp(p) PROVE AbsSem!CallUp(p)
    BY <2>4 DEF CallUp, AbsSem!CallUp, AbsSem!Move, absOp
  <2>5. ASSUME NEW p \in Procs, DownTake(p) PROVE AbsSem!Take(p)
    BY <2>5 DEF DownTake, AbsSem!Take, AbsSem!Move, absOp
  <2>6. ASSUME NEW p \in Procs,
               \/ DownLock(p) \/ DownWait(p) \/ CondSpurious(p) \/ UpLock(p)
               \/ UpUnlock(p)
        PROVE  Stutter
    BY <2>2, <2>6 DEF DownLock, DownWait, CondSpurious, UpLock, UpUnlock
  <2>7. ASSUME NEW p \in Procs, DownUnlock(p) PROVE AbsSem!Return(p)
    BY <2>7 DEF DownUnlock, AbsSem!Return, AbsSem!Move, absOp
  <2>8. ASSUME NEW p \in Procs, UpIncrement(p) PROVE AbsSem!Give(p)
    BY <2>8 DEF UpIncrement, AbsSem!Give, AbsSem!Move, absOp
  <2>9. ASSUME NEW p \in Procs, UpBroadcast(p) PROVE AbsSem!Return(p)
    <3>1. absOp[p] = "gave" /\ UNCHANGED count
      BY <2>9 DEF UpBroadcast, absOp
    <3>2. \A q \in CondAsleep : OpOf(ppc[q]) = "down"
      BY DEF CondAsleep
    <3>3. absOp' = [absOp EXCEPT ![p] = "idle"]
      BY <2>9, <3>2 DEF UpBroadcast, absOp, TypeOK
    <3> QED
      BY <3>1, <3>3 DEF AbsSem!Return, AbsSem!Move, absOp
  <2> QED
    BY <2>1, <2>3, <2>4, <2>5, <2>6, <2>7, <2>8, <2>9
       DEF Next, PSemStep, AbsSem!Next
<1> QED
  BY <1>1, <1>2, PSemTyping, PTL
     DEF Spec, ImplementsAbstractSem, AbsSem!Spec, AbsSem!semVars, absOp
=============================================================================
