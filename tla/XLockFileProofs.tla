--------------------------- MODULE XLockFileProofs ---------------------------
(***************************************************************************)
(* Exclusion through the life of the lock's file, for any processes.       *)
(***************************************************************************)
EXTENDS XLockFile, TLAPS

\* An xlock_t, complete or not, has a file.
HasFile ==
    \A p \in Procs :
        pc[p] \in {"truncate", "zero", "ready", "lock", "locked", "deadlocked"}
            => file[p] \in Files

\* As long as no name was taken from under a user, all files are the name's.
SameFile == ~orphaned => \A p \in Procs : Live(p) => file[p] \in {0, name}

IInv == TypeOK /\ HasFile /\ ExclusiveUnlessZeroed /\ SameFile

(***************************************************************************)
(* Before the first xlock_create there is no file, and the invariant       *)
(* holds.                                                                  *)
(***************************************************************************)
LEMMA FileInit == Init => IInv
<1> SUFFICES ASSUME Init PROVE IInv
  OBVIOUS
<1>1. TypeOK
  <2>1. name \in 0 .. made /\ made \in 0 .. MaxFiles
    BY MaxFilesAssumption DEF Init
  <2>2. file \in [Procs -> 0 .. made] /\ word \in [Files -> {0, 1}]
    BY DEF Init
  <2> QED BY <2>1, <2>2 DEF Init, TypeOK
<1>2. HasFile /\ SameFile
  BY DEF Init, HasFile, SameFile
<1>3. ExclusiveUnlessZeroed
  BY DEF Init, ExclusiveUnlessZeroed, Owners
<1> QED BY <1>1, <1>2, <1>3 DEF IInv

(***************************************************************************)
(* Every step keeps the types, and whoever is past its open has a file.    *)
(***************************************************************************)
LEMMA FileTyping == IInv /\ [Next]_vars => TypeOK' /\ HasFile'
<1> SUFFICES ASSUME IInv, [Next]_vars PROVE TypeOK' /\ HasFile'
  OBVIOUS
<1> USE MaxFilesAssumption DEF IInv, TypeOK, HasFile, Files, GoTo, At
<1>1. CASE UNCHANGED vars
  BY <1>1 DEF vars
<1> SUFFICES ASSUME NEW p \in Procs, CreateOpen(p) \/ Use(p) \/ Fault(p) \/ Kill(p)
             PROVE  TypeOK' /\ HasFile'
  BY <1>1 DEF Next
<1>2. CASE CallCreate(p) \/ CallOpen(p) \/ CallLock(p) \/ Fault(p) \/ Kill(p) \/ Probe(p)
  BY <1>2 DEF CallCreate, CallOpen, CallLock, Fault, Kill, Probe, fileVars
<1>3. CASE Creat(p)
  BY <1>3 DEF Creat, Target
<1>4. CASE Truncate(p)
  BY <1>4 DEF Truncate
<1>5. CASE OpenAndMap(p)
  <2>1. UNCHANGED <<name, made, sized, word, creator, zeroed, orphaned>>
    BY <1>5 DEF OpenAndMap, fileVars
  <2>2. CASE name # 0 /\ file' = [file EXCEPT ![p] = name] /\ GoTo(p, IF p \in creator THEN "zero" ELSE "ready")
    <3>1. name \in Files /\ name \in 0 .. made
      BY <2>2
    <3> QED BY <2>1, <2>2, <3>1
  <2>3. CASE GoTo(p, "idle") /\ file' = [file EXCEPT ![p] = 0]
    BY <2>1, <2>3
  <2> QED BY <1>5, <2>2, <2>3 DEF OpenAndMap
<1>6. CASE Zero(p)
  BY <1>6 DEF Zero
<1>7. CASE Lock(p)
  BY <1>7 DEF Lock
<1>8. CASE Unlock(p)
  BY <1>8 DEF Unlock
<1>9. CASE Close(p)
  BY <1>9 DEF Close, Forget, fileVars
<1>10. CASE Destroy(p)
  BY <1>10 DEF Destroy, Forget
<1> QED BY <1>2, <1>3, <1>4, <1>5, <1>6, <1>7, <1>8, <1>9, <1>10 DEF CreateOpen, Use

(***************************************************************************)
(* Every step keeps a lock exclusive and its word in agreement with it:    *)
(* only Zero can break this, and it says so in zeroed.                     *)
(***************************************************************************)
LEMMA FileExclusion == IInv /\ [Next]_vars => ExclusiveUnlessZeroed'
<1> SUFFICES ASSUME IInv, [Next]_vars PROVE ExclusiveUnlessZeroed'
  OBVIOUS
<1> USE DEF IInv, TypeOK, HasFile, Files, GoTo, At, ExclusiveUnlessZeroed, Owners
<1>1. CASE UNCHANGED vars
  BY <1>1 DEF vars
<1> SUFFICES ASSUME NEW p \in Procs, CreateOpen(p) \/ Use(p) \/ Fault(p) \/ Kill(p)
             PROVE  ExclusiveUnlessZeroed'
  BY <1>1 DEF Next
<1>2. CASE CallCreate(p) \/ CallOpen(p) \/ CallLock(p) \/ Fault(p) \/ Kill(p) \/ Probe(p)
  <2>1. word' = word /\ zeroed' = zeroed /\ file' = file
    BY <1>2 DEF CallCreate, CallOpen, CallLock, Fault, Kill, Probe, fileVars
  <2>2. \A q \in Procs : pc'[q] \in {"locked", "deadlocked"} <=> pc[q] \in {"locked", "deadlocked"}
    BY <1>2 DEF CallCreate, CallOpen, CallLock, Fault, Kill, Probe
  <2>3. \A f : Owners(f)' = Owners(f)
    BY <2>1, <2>2
  <2> HIDE DEF Owners
  <2> QED BY <2>1, <2>3
<1>3. CASE Creat(p)
  <2>1. word' = word /\ zeroed' = zeroed
    BY <1>3 DEF Creat, Target
  <2>2. \A q \in Procs \ {p} : pc'[q] = pc[q] /\ file'[q] = file[q]
    BY <1>3 DEF Creat, Target
  <2>3. {pc[p], pc'[p]} \cap {"locked", "deadlocked"} = {}
    BY <1>3 DEF Creat, Target
  <2>4. \A f : Owners(f)' = Owners(f)
    BY <2>2, <2>3
  <2> HIDE DEF Owners
  <2> QED BY <2>1, <2>4
<1>4. CASE Truncate(p)
  <2>1. word' = word /\ zeroed' = zeroed
    BY <1>4 DEF Truncate
  <2>2. \A q \in Procs \ {p} : pc'[q] = pc[q] /\ file'[q] = file[q]
    BY <1>4 DEF Truncate
  <2>3. {pc[p], pc'[p]} \cap {"locked", "deadlocked"} = {}
    BY <1>4 DEF Truncate
  <2>4. \A f : Owners(f)' = Owners(f)
    BY <2>2, <2>3
  <2> HIDE DEF Owners
  <2> QED BY <2>1, <2>4
<1>5. CASE OpenAndMap(p)
  <2>1. word' = word /\ zeroed' = zeroed
    BY <1>5 DEF OpenAndMap, fileVars
  <2>2. \A q \in Procs \ {p} : pc'[q] = pc[q] /\ file'[q] = file[q]
    BY <1>5 DEF OpenAndMap
  <2>3. {pc[p], pc'[p]} \cap {"locked", "deadlocked"} = {}
    BY <1>5 DEF OpenAndMap
  <2>4. \A f : Owners(f)' = Owners(f)
    BY <2>2, <2>3
  <2> HIDE DEF Owners
  <2> QED BY <2>1, <2>4
<1>6. CASE Zero(p)
  BY <1>6 DEF Zero
<1>7. CASE Lock(p)
  BY <1>7 DEF Lock
<1>8. CASE Unlock(p)
  BY <1>8 DEF Unlock
<1>9. CASE Close(p)
  <2>1. word' = word /\ zeroed' = zeroed
    BY <1>9 DEF Close, Forget, fileVars
  <2>2. \A q \in Procs \ {p} : pc'[q] = pc[q] /\ file'[q] = file[q]
    BY <1>9 DEF Close, Forget, fileVars
  <2>3. {pc[p], pc'[p]} \cap {"locked", "deadlocked"} = {}
    BY <1>9 DEF Close, Forget, fileVars
  <2>4. \A f : Owners(f)' = Owners(f)
    BY <2>2, <2>3
  <2> HIDE DEF Owners
  <2> QED BY <2>1, <2>4
<1>10. CASE Destroy(p)
  <2>1. word' = word /\ zeroed' = zeroed
    BY <1>10 DEF Destroy, Forget
  <2>2. \A q \in Procs \ {p} : pc'[q] = pc[q] /\ file'[q] = file[q]
    BY <1>10 DEF Destroy, Forget
  <2>3. {pc[p], pc'[p]} \cap {"locked", "deadlocked"} = {}
    BY <1>10 DEF Destroy, Forget
  <2>4. \A f : Owners(f)' = Owners(f)
    BY <2>2, <2>3
  <2> HIDE DEF Owners
  <2> QED BY <2>1, <2>4
<1> QED BY <1>2, <1>3, <1>4, <1>5, <1>6, <1>7, <1>8, <1>9, <1>10 DEF CreateOpen, Use

(***************************************************************************)
(* Every step keeps those who have a file on the file of the name: a       *)
(* racing creator opens what is there, and only Destroy takes a name away. *)
(***************************************************************************)
LEMMA FileSharing == IInv /\ [Next]_vars => SameFile'
<1> SUFFICES ASSUME IInv, [Next]_vars PROVE SameFile'
  OBVIOUS
<1> USE MaxFilesAssumption DEF IInv, TypeOK, Files, GoTo, At, SameFile, Live
<1>1. CASE UNCHANGED vars
  BY <1>1 DEF vars
<1> SUFFICES ASSUME NEW p \in Procs, CreateOpen(p) \/ Use(p) \/ Fault(p) \/ Kill(p)
             PROVE  SameFile'
  BY <1>1 DEF Next
<1>2. CASE CallCreate(p) \/ CallOpen(p) \/ CallLock(p) \/ Fault(p) \/ Kill(p) \/ Probe(p)
  BY <1>2 DEF CallCreate, CallOpen, CallLock, Fault, Kill, Probe, fileVars
<1>3. CASE Creat(p)
  BY <1>3 DEF Creat, Target
<1>4. CASE Truncate(p)
  BY <1>4 DEF Truncate
<1>5. CASE OpenAndMap(p)
  BY <1>5 DEF OpenAndMap, fileVars
<1>6. CASE Zero(p)
  BY <1>6 DEF Zero
<1>7. CASE Lock(p)
  BY <1>7 DEF Lock
<1>8. CASE Unlock(p)
  BY <1>8 DEF Unlock
<1>9. CASE Close(p)
  BY <1>9 DEF Close, Forget, fileVars
<1>10. CASE Destroy(p)
  BY <1>10 DEF Destroy, Forget
<1> QED BY <1>2, <1>3, <1>4, <1>5, <1>6, <1>7, <1>8, <1>9, <1>10 DEF CreateOpen, Use

(***************************************************************************)
(* The inductive invariant holds of every behaviour.                       *)
(***************************************************************************)
THEOREM FileInvariant == Spec => []IInv
<1>1. IInv /\ [Next]_vars => IInv'
  BY FileTyping, FileExclusion, FileSharing DEF IInv
<1> QED BY <1>1, FileInit, PTL DEF Spec

(***************************************************************************)
(* A lock is exclusive, and stays taken when its owner is killed, unless   *)
(* xlock_create zeroes it under its owner.                                 *)
(***************************************************************************)
THEOREM LockSurvivesItsFile == Spec => []ExclusiveUnlessZeroed
<1>1. IInv => ExclusiveUnlessZeroed
  BY DEF IInv
<1> QED BY <1>1, FileInvariant, PTL

(***************************************************************************)
(* Everybody who opens or creates the name gets the same lock, unless it   *)
(* is destroyed while in use.                                              *)
(***************************************************************************)
THEOREM NameIsOneLock == Spec => []OneLockPerName
<1>1. IInv => OneLockPerName
  BY DEF IInv, SameFile, OneLockPerName
<1> QED BY <1>1, FileInvariant, PTL
=============================================================================
