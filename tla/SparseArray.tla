----------------------------- MODULE SparseArray -----------------------------
(***************************************************************************)
(* The sparse array of src/test_sparse_array.c: parallel arrays of indices *)
(* and objects kept sorted by index, searched by binary_search and doubled *)
(* when full.  One caller makes one call at a time, as run_test1 does; a   *)
(* call is followed through the turns of the search loop.                  *)
(*                                                                         *)
(* indices and objs hold the nr_objs elements in use.  icap and ocap are   *)
(* the lengths the two arrays are allocated with: they differ when the     *)
(* second of the two reallocs fails.                                       *)
(*                                                                         *)
(*   pc: "idle", "loop" (at the while of binary_search), "end" (behind     *)
(*   it), "use" (back in sparse_array_set or sparse_array_get)             *)
(***************************************************************************)
EXTENDS Integers

CONSTANTS
    Keys,       \* indices that callers use
    Vals,       \* objects
    InitLen     \* SPARSE_ARRAY_INIT_LEN

ASSUME KeysAssumption == Keys \subseteq Int
ASSUME InitLenAssumption == InitLen \in Nat \ {0}

VARIABLES
    indices, objs, nr, size, icap, ocap,
    pc, req, low, high, mid, ret,
    obj,        \* the caller's *obj
    status      \* what the last call returned: "ok", "missing" or "nomem"

arrayVars == <<indices, objs, nr, size, icap, ocap>>
searchVars == <<low, high, mid>>
vars == <<indices, objs, nr, size, icap, ocap, pc, req, low, high, mid, ret,
          obj, status>>

Requests == {"set", "get"} \X Keys \X Vals
Op == req[1]
Key == req[2]
Val == req[3]

\* ~n
Not(n) == -(n + 1)

\* sparse_array_create
Init ==
    /\ indices = [i \in {} |-> 0]
    /\ objs = [i \in {} |-> 0]
    /\ nr = 0
    /\ size = InitLen
    /\ icap = InitLen
    /\ ocap = InitLen
    /\ pc = "idle"
    /\ req \in Requests
    /\ low = 0 /\ high = 0 /\ mid = 0 /\ ret = 0
    /\ obj \in Vals
    /\ status = "ok"

-----------------------------------------------------------------------------
\* Both operations start with binary_search(indices, index, nr_objs).
Call ==
    /\ pc = "idle"
    /\ req' \in Requests
    /\ low' = 0
    /\ high' = nr
    /\ mid' = 0
    /\ pc' = "loop"
    /\ UNCHANGED <<arrayVars, ret, obj, status>>

\* Mutant: the search goes on left of the middle, leaving mid - 1 out.
BugSkipOne(m) ==
    /\ Key < indices[m]
    /\ high' = IF m > 0 THEN m - 1 ELSE m
    /\ UNCHANGED <<low, pc>>

GoLeft(m) ==
    /\ Key < indices[m]
    /\ high' = m
    /\ UNCHANGED <<low, pc>>

\* Mutant: the search goes on at mid, which may be low again.
BugNoProgress(m) ==
    /\ Key > indices[m]
    /\ low' = m
    /\ UNCHANGED <<high, pc>>

GoRight(m) ==
    /\ Key > indices[m]
    /\ low' = m + 1
    /\ UNCHANGED <<high, pc>>

Break(m) ==
    /\ Key = indices[m]
    /\ pc' = "end"
    /\ UNCHANGED <<low, high>>

SearchTurn ==
    /\ pc = "loop"
    /\ low < high
    /\ mid' = low + ((high - low) \div 2)
    /\ GoLeft(mid') \/ GoRight(mid') \/ Break(mid')
    /\ UNCHANGED <<arrayVars, req, ret, obj, status>>

SearchDone ==
    /\ pc = "loop"
    /\ low >= high
    /\ pc' = "end"
    /\ UNCHANGED <<arrayVars, req, searchVars, ret, obj, status>>

SearchResult ==
    IF nr = 0 THEN Not(0)
    ELSE IF indices[mid] = Key THEN mid
    ELSE IF Key > indices[mid] THEN Not(mid + 1) ELSE Not(mid)

SearchReturn ==
    /\ pc = "end"
    /\ ret' = SearchResult
    /\ pc' = "use"
    /\ UNCHANGED <<arrayVars, req, searchVars, obj, status>>

-----------------------------------------------------------------------------
Return(s) ==
    /\ pc' = "idle"
    /\ status' = s
    /\ UNCHANGED <<req, searchVars, ret>>

\* The two memmoves and the stores: f with v at place at.
Inserted(f, at, v) ==
    [i \in 0..nr |-> IF i < at THEN f[i] ELSE IF i = at THEN v ELSE f[i - 1]]

Insert(at) ==
    /\ indices' = Inserted(indices, at, Key)
    /\ objs' = Inserted(objs, at, Val)
    /\ nr' = nr + 1
    /\ Return("ok")
    /\ UNCHANGED obj

Absent == pc = "use" /\ Op = "set" /\ ret < 0

SetInsert ==
    /\ Absent
    /\ nr # size
    /\ Insert(Not(ret))
    /\ UNCHANGED <<size, icap, ocap>>

\* Mutant: size is doubled before the second realloc is known to succeed.
BugSizeFirst ==
    /\ Absent
    /\ nr = size
    /\ icap' = size * 2
    /\ size' = size * 2
    /\ \/ ocap' = size * 2 /\ Insert(Not(ret))
       \/ /\ Return("nomem")
          /\ UNCHANGED <<indices, objs, nr, ocap, obj>>

\* Full: indices first, then objs, then size.  Either realloc may fail.
SetGrow ==
    /\ Absent
    /\ nr = size
    /\ \/ /\ icap' = size * 2
          /\ ocap' = size * 2
          /\ size' = size * 2
          /\ Insert(Not(ret))
       \/ /\ icap' \in {icap, size * 2}
          /\ Return("nomem")
          /\ UNCHANGED <<indices, objs, nr, size, ocap, obj>>

SetReplace ==
    /\ pc = "use" /\ Op = "set" /\ ret >= 0
    /\ objs' = [objs EXCEPT ![ret] = Val]
    /\ Return("ok")
    /\ UNCHANGED <<indices, nr, size, icap, ocap, obj>>

GetFound ==
    /\ pc = "use" /\ Op = "get" /\ ret >= 0
    /\ obj' = objs[ret]
    /\ Return("ok")
    /\ UNCHANGED arrayVars

GetMissing ==
    /\ pc = "use" /\ Op = "get" /\ ret < 0
    /\ Return("missing")
    /\ UNCHANGED <<arrayVars, obj>>

Step ==
    \/ SearchTurn \/ SearchDone \/ SearchReturn
    \/ SetInsert \/ SetGrow \/ SetReplace \/ GetFound \/ GetMissing

Next == Call \/ Step

Spec == Init /\ [][Next]_vars

\* A call runs on; nobody has to make a next one.
FairSpec == Spec /\ WF_vars(Step)

-----------------------------------------------------------------------------
TypeOK ==
    /\ nr \in Nat /\ size \in Nat /\ icap \in Nat /\ ocap \in Nat
    /\ indices \in [0..(nr - 1) -> Keys]
    /\ objs \in [0..(nr - 1) -> Vals]
    /\ pc \in {"idle", "loop", "end", "use"}
    /\ req \in Requests
    /\ low \in Nat /\ high \in Nat /\ mid \in Nat /\ ret \in Int
    /\ obj \in Vals
    /\ status \in {"ok", "missing", "nomem"}

(***************************************************************************)
(* The indices stay strictly sorted, which every later search relies on,   *)
(* whatever is inserted where.                                             *)
(***************************************************************************)
Sorted == \A i, j \in 0..(nr - 1) : i < j => indices[i] < indices[j]

(***************************************************************************)
(* No array is used beyond its allocation, also after the second of the    *)
(* two reallocs has failed; an insertion always has room, so the else      *)
(* branch of sparse_array_set that stores an uninitialised pointer is      *)
(* never taken.                                                            *)
(***************************************************************************)
InBounds ==
    /\ nr <= size
    /\ size <= icap
    /\ size <= ocap
    /\ pc = "loop" /\ low < high => high <= nr
    /\ pc = "use" /\ ret >= 0 => ret < nr
    /\ pc = "use" /\ ret < 0 => Not(ret) <= nr

(***************************************************************************)
(* Every search ends, and the call returns.                                *)
(***************************************************************************)
SearchEnds == (pc # "idle") ~> (pc = "idle")

(***************************************************************************)
(* The sorted arrays implement a map.                                      *)
(***************************************************************************)
Pairs == {<<indices[i], objs[i]>> : i \in 0..(nr - 1)}

Map == INSTANCE AbstractMap WITH busy <- (pc # "idle"), pairs <- Pairs

ImplementsMap == Map!MapSpec
=============================================================================
