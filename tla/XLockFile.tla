------------------------------ MODULE XLockFile ------------------------------
(***************************************************************************)
(* The life of the file behind an xlock (src/xlock.c): xlock_create,       *)
(* xlock_open, xlock_close and xlock_destroy by processes that use one     *)
(* name and may be killed at any point.  Locking itself is taken at the    *)
(* level of AbstractLock, which XLock implements: one step takes a word    *)
(* that is 0, one step clears a word that is 1.                            *)
(*                                                                         *)
(* Files are numbered in the order of their creation; unlink takes the     *)
(* name from a file, those who have mapped it keep it.                     *)
(***************************************************************************)
EXTENDS Naturals, FiniteSets

CONSTANTS
    Procs,
    MaxFiles    \* bound: files created under the name

ASSUME MaxFilesAssumption == MaxFiles \in Nat

VARIABLES
    name,       \* the file the name stands for, 0 if none
    made,       \* number of files created so far
    sized,      \* files that have been through ftruncate
    word,       \* [file -> *lock_ptr]
    pc,         \* [Procs -> where the process is]
    file,       \* [Procs -> file behind the xlock_t it has, 0 if none]
    creator,    \* processes whose create_flag is set
    zeroed,     \* files xlock_create zeroed while their lock was taken
    orphaned    \* a name was unlinked while others had its file mapped

vars == <<name, made, sized, word, pc, file, creator, zeroed, orphaned>>
fileVars == <<name, made, sized, word>>

Files == 1 .. MaxFiles

Live(p) == pc[p] \notin {"dead", "deadlocked"}

\* Who has taken the lock of f and not given it back, the dead included.
Owners(f) == {p \in Procs : file[p] = f /\ pc[p] \in {"locked", "deadlocked"}}

Init ==
    /\ name = 0 /\ made = 0 /\ sized = {}
    /\ word = [f \in Files |-> 0]
    /\ pc = [p \in Procs |-> "idle"]
    /\ file = [p \in Procs |-> 0]
    /\ creator = {} /\ zeroed = {} /\ orphaned = FALSE

GoTo(p, place) == pc' = [pc EXCEPT ![p] = place]
At(p, place) == pc[p] = place

-----------------------------------------------------------------------------
(***************************************************************************)
(* xlock_create_open.  It can return NULL at every call it makes.          *)
(***************************************************************************)
CallCreate(p) ==
    /\ At(p, "idle") /\ GoTo(p, "probe")
    /\ creator' = creator \cup {p}
    /\ UNCHANGED <<fileVars, file, zeroed, orphaned>>

CallOpen(p) ==
    /\ At(p, "idle") /\ GoTo(p, "map")
    /\ creator' = creator \ {p}
    /\ UNCHANGED <<fileVars, file, zeroed, orphaned>>

\* The first open of a creator must not succeed; it can fail although the
\* name exists.
Probe(p) ==
    /\ At(p, "probe")
    /\ GoTo(p, "creat") \/ (name # 0 /\ GoTo(p, "idle"))
    /\ UNCHANGED <<fileVars, file, creator, zeroed, orphaned>>

\* Mutant of open(O_CREAT): a file that appeared since the probe is replaced.
BugReplace == made + 1

\* open(O_CREAT) without O_EXCL: a file that appeared since the probe is
\* opened like a new one.
Target == IF name = 0 THEN made + 1 ELSE name

Creat(p) ==
    /\ At(p, "creat")
    /\ \/ /\ Target \in Files
          /\ name' = Target
          /\ made' = IF Target > made THEN Target ELSE made
          /\ GoTo(p, "truncate")
       \/ GoTo(p, "idle") /\ UNCHANGED <<name, made>>
    /\ file' = [file EXCEPT ![p] = IF pc'[p] = "idle" THEN 0 ELSE name']
    /\ UNCHANGED <<sized, word, creator, zeroed, orphaned>>

\* ftruncate; its result is not looked at.
Truncate(p) ==
    /\ At(p, "truncate") /\ GoTo(p, "map")
    /\ sized' \in {sized, sized \cup {file[p]}}
    /\ UNCHANGED <<name, made, word, file, creator, zeroed, orphaned>>

\* The open both share, and mmap.
OpenAndMap(p) ==
    /\ At(p, "map")
    /\ \/ /\ name # 0
          /\ file' = [file EXCEPT ![p] = name]
          /\ GoTo(p, IF p \in creator THEN "zero" ELSE "ready")
       \/ GoTo(p, "idle") /\ file' = [file EXCEPT ![p] = 0]
    /\ UNCHANGED <<fileVars, creator, zeroed, orphaned>>

\* Touching the mapping of an empty file is a SIGBUS.
Fault(p) ==
    /\ pc[p] \in {"zero", "ready", "lock"} /\ file[p] \notin sized
    /\ GoTo(p, "dead")
    /\ UNCHANGED <<fileVars, file, creator, zeroed, orphaned>>

Zero(p) ==
    /\ At(p, "zero") /\ file[p] \in sized
    /\ word' = [word EXCEPT ![file[p]] = 0]
    /\ zeroed' = IF word[file[p]] = 1 THEN zeroed \cup {file[p]} ELSE zeroed
    /\ GoTo(p, "ready")
    /\ UNCHANGED <<name, made, sized, file, creator, orphaned>>

-----------------------------------------------------------------------------
CallLock(p) ==
    /\ At(p, "ready") /\ GoTo(p, "lock")
    /\ UNCHANGED <<fileVars, file, creator, zeroed, orphaned>>

Lock(p) ==
    /\ At(p, "lock") /\ file[p] \in sized /\ word[file[p]] = 0
    /\ word' = [word EXCEPT ![file[p]] = 1]
    /\ GoTo(p, "locked")
    /\ UNCHANGED <<name, made, sized, file, creator, zeroed, orphaned>>

\* Mutant of xlock_unlock: the word keeps its value.
BugNoClear(p) ==
    /\ At(p, "locked") /\ word[file[p]] = 1
    /\ GoTo(p, "ready")
    /\ UNCHANGED <<fileVars, file, creator, zeroed, orphaned>>

\* xlock_unlock spins on a word that is 0 already.
Unlock(p) ==
    /\ At(p, "locked") /\ word[file[p]] = 1
    /\ word' = [word EXCEPT ![file[p]] = 0]
    /\ GoTo(p, "ready")
    /\ UNCHANGED <<name, made, sized, file, creator, zeroed, orphaned>>

Forget(p) == GoTo(p, "idle") /\ file' = [file EXCEPT ![p] = 0]

\* xlock_close refuses a lock that is taken, by whomever.
Close(p) ==
    /\ At(p, "ready") /\ file[p] \in sized
    /\ IF word[file[p]] # 0 THEN UNCHANGED <<pc, file>> ELSE Forget(p)
    /\ UNCHANGED <<fileVars, creator, zeroed, orphaned>>

\* xlock_destroy unlinks the name, whatever file it stands for by now.
Destroy(p) ==
    /\ At(p, "ready")
    /\ Forget(p)
    /\ name' = 0
    /\ orphaned' = (orphaned \/ \E q \in Procs \ {p} : Live(q) /\ file[q] # 0)
    /\ UNCHANGED <<made, sized, word, creator, zeroed>>

\* A process can be killed anywhere; its mapping goes, the word stays.
Kill(p) ==
    /\ pc[p] \notin {"dead", "deadlocked"}
    /\ GoTo(p, IF At(p, "locked") THEN "deadlocked" ELSE "dead")
    /\ UNCHANGED <<fileVars, file, creator, zeroed, orphaned>>

CreateOpen(p) ==
    \/ CallCreate(p) \/ CallOpen(p)
    \/ Probe(p) \/ Creat(p) \/ Truncate(p) \/ OpenAndMap(p) \/ Zero(p)

Use(p) == CallLock(p) \/ Lock(p) \/ Unlock(p) \/ Close(p) \/ Destroy(p)

Next == \E p \in Procs : CreateOpen(p) \/ Use(p) \/ Fault(p) \/ Kill(p)

Spec == Init /\ [][Next]_vars

-----------------------------------------------------------------------------
TypeOK ==
    /\ name \in 0 .. made /\ made \in 0 .. MaxFiles
    /\ sized \subseteq Files /\ zeroed \subseteq Files
    /\ word \in [Files -> {0, 1}]
    /\ pc \in [Procs -> {"idle", "probe", "creat", "truncate", "map", "zero", "ready",
                         "lock", "locked", "dead", "deadlocked"}]
    /\ file \in [Procs -> 0 .. made]
    /\ creator \subseteq Procs /\ orphaned \in BOOLEAN

(***************************************************************************)
(* The lock in a file is exclusive, and its word 1 exactly while it is     *)
(* taken, through creations that race, failed opens, closes, destroys and  *)
(* kills; a lock whose owner was killed stays taken.  The one exception is *)
(* a file that xlock_create zeroed after another had taken its lock.       *)
(***************************************************************************)
ExclusiveUnlessZeroed ==
    \A f \in Files \ zeroed :
        /\ \A p, q \in Owners(f) : p = q
        /\ word[f] = 1 <=> Owners(f) # {}

(***************************************************************************)
(* Processes that have the name open share one lock, also when several     *)
(* created it between each other's probe and open, unless somebody         *)
(* destroyed it while another was using it.                                *)
(***************************************************************************)
OneLockPerName ==
    ~orphaned => \A p, q \in {r \in Procs : Live(r) /\ file[r] # 0} : file[p] = file[q]

=============================================================================
