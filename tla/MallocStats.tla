----------------------------- MODULE MallocStats -----------------------------
(***************************************************************************)
(* The allocation statistics of src/malloc_stats.c (GLib tables) and of    *)
(* src/malloc_stats_hcreate.c (hsearch_r and tsearch), as built by the     *)
(* Makefile's pattern rule (NDEBUG: the assert of debug_free is empty).    *)
(*                                                                         *)
(* Both keep, per allocation string, how often it was allocated and freed, *)
(* and, per live address, the string it was allocated under.  The caller   *)
(* may allocate, free what it holds and print in any order; main is the    *)
(* caller that allocates first and then frees some.                        *)
(***************************************************************************)
EXTENDS Naturals, Sequences, FiniteSets

CONSTANTS
    Strings,    \* allocation strings ("alloc 0" ... "alloc 19" in main)
    Addrs,      \* addresses malloc can return
    NULL,       \* what malloc returns when it fails
    MaxIter,    \* max_iter: how often main allocates
    HTABLE_SZ   \* entries of alloc_string_table and of the stat table

ASSUME AddrsAssumption == NULL \notin Addrs
ASSUME MaxIterAssumption == MaxIter \in Nat
\* main makes 20 strings at most, HTABLE_SZ is 1024.
ASSUME StringsAssumption ==
    IsFiniteSet(Strings) /\ HTABLE_SZ \in Nat /\ Cardinality(Strings) <= HTABLE_SZ

VARIABLES
    table,      \* which of the two programs runs: "glib" or "hsearch"
    strings,    \* alloc_string_table, in the order of first use
    stat,       \* alloc_stat_table: string -> [nr_allocs, nr_frees]
    track,      \* alloc_track_table: address -> string
    p,          \* main's p[], with the string of each call and whether it
                \* has been freed
    overrun     \* a string was stored behind the end of alloc_string_table

vars == <<table, strings, stat, track, p, overrun>>

Block == [ptr : Addrs \cup {NULL}, str : Strings, live : BOOLEAN]
Counters == [nr_allocs : Nat, nr_frees : Nat]

Empty == [x \in {} |-> x]

\* f with x mapped to v, whether or not x was in its domain.
With(f, x, v) == [y \in DOMAIN f \cup {x} |-> IF y = x THEN v ELSE f[y]]
Without(f, x) == [y \in DOMAIN f \ {x} |-> f[y]]

LiveAddrs == {p[i].ptr : i \in {j \in DOMAIN p : p[j].live}} \ {NULL}

\* debug_init: three empty tables.
Init ==
    /\ table \in {"glib", "hsearch"}
    /\ strings = << >>
    /\ stat = Empty
    /\ track = Empty
    /\ p = << >>
    /\ overrun = FALSE

-----------------------------------------------------------------------------
(***************************************************************************)
(* debug_alloc(ptr, size, s).  hsearch_r answers 0, never less, when it    *)
(* finds nothing or has no room; a full table would lose the counters and  *)
(* the string would be appended all the same.                              *)
(***************************************************************************)
HashEnter(s) ==
    IF table = "hsearch" /\ Cardinality(DOMAIN stat) >= HTABLE_SZ
    THEN stat
    ELSE With(stat, s, [nr_allocs |-> 1, nr_frees |-> 0])

\* Mutant of the counting: the string is listed again at every call.
BugListAlways(s) ==
    /\ stat' = IF s \in DOMAIN stat THEN [stat EXCEPT ![s].nr_allocs = @ + 1]
               ELSE HashEnter(s)
    /\ strings' = Append(strings, s)
    /\ overrun' = (overrun \/ (table = "hsearch" /\ Len(strings) >= HTABLE_SZ))

\* Mutant of the counting: the first call of a string is not counted.
BugCountFromZero(s) ==
    IF s \in DOMAIN stat
    THEN /\ stat' = [stat EXCEPT ![s].nr_allocs = @ + 1]
         /\ UNCHANGED <<strings, overrun>>
    ELSE /\ stat' = With(stat, s, [nr_allocs |-> 0, nr_frees |-> 0])
         /\ strings' = Append(strings, s)
         /\ UNCHANGED overrun

CountAlloc(s) ==
    IF s \in DOMAIN stat
    THEN /\ stat' = [stat EXCEPT ![s].nr_allocs = @ + 1]
         /\ UNCHANGED <<strings, overrun>>
    ELSE /\ stat' = HashEnter(s)
         /\ strings' = Append(strings, s)
         /\ overrun' = (overrun \/ (table = "hsearch" /\ Len(strings) >= HTABLE_SZ))

\* tsearch keeps the node an address already has, g_hash_table_insert
\* replaces its value.  Only NULL can be there already.
Track(a, s) ==
    IF table = "hsearch" /\ a \in DOMAIN track THEN track ELSE With(track, a, s)

\* do_alloc: malloc, which may fail, then debug_alloc.
DoAlloc(s, a) ==
    /\ Len(p) < MaxIter
    /\ a \notin LiveAddrs
    /\ CountAlloc(s)
    /\ track' = Track(a, s)
    /\ p' = Append(p, [ptr |-> a, str |-> s, live |-> TRUE])
    /\ UNCHANGED table

(***************************************************************************)
(* debug_free(ptr): an address that is not tracked is reported and left.   *)
(***************************************************************************)
CountFree(s) ==
    IF s \in DOMAIN stat THEN [stat EXCEPT ![s].nr_frees = @ + 1] ELSE stat

\* Mutant of do_free: the address stays tracked.
BugStillTracked(i) ==
    /\ i \in DOMAIN p /\ p[i].live
    /\ p' = [p EXCEPT ![i].live = FALSE]
    /\ stat' = IF p[i].ptr \in DOMAIN track THEN CountFree(track[p[i].ptr]) ELSE stat
    /\ UNCHANGED <<table, strings, track, overrun>>

\* do_free: debug_free, then free; the address can be handed out again.
DoFree(i) ==
    /\ i \in DOMAIN p /\ p[i].live
    /\ p' = [p EXCEPT ![i].live = FALSE]
    /\ IF p[i].ptr \in DOMAIN track
       THEN /\ stat' = CountFree(track[p[i].ptr])
            /\ track' = Without(track, p[i].ptr)
       ELSE UNCHANGED <<stat, track>>
    /\ UNCHANGED <<table, strings, overrun>>

\* print_stats: one row per entry of alloc_string_table that has counters;
\* the difference is unsigned.
Report ==
    [i \in {j \in DOMAIN strings : strings[j] \in DOMAIN stat} |->
        [str |-> strings[i], row |-> stat[strings[i]]]]

Next ==
    \/ \E s \in Strings, a \in Addrs \cup {NULL} : DoAlloc(s, a)
    \/ \E i \in 1 .. MaxIter : DoFree(i)

Spec == Init /\ [][Next]_vars

-----------------------------------------------------------------------------
TypeOK ==
    /\ table \in {"glib", "hsearch"}
    /\ strings \in Seq(Strings)
    /\ DOMAIN stat \subseteq Strings
    /\ stat \in [DOMAIN stat -> Counters]
    /\ DOMAIN track \subseteq Addrs \cup {NULL}
    /\ track \in [DOMAIN track -> Strings]
    /\ p \in Seq(Block)
    /\ overrun \in BOOLEAN

Asked(s) == {i \in DOMAIN p : p[i].str = s}
Freed(s) == {i \in Asked(s) : ~p[i].live}
Tracked(s) == {a \in DOMAIN track : track[a] = s}

(***************************************************************************)
(* alloc_string_table lists every string that has counters, once, and is   *)
(* never written behind its end: print_stats prints each row once, misses  *)
(* none, and debug_alloc needs no bound check for at most HTABLE_SZ        *)
(* strings.                                                                *)
(***************************************************************************)
StringTableExact ==
    /\ {strings[i] : i \in DOMAIN strings} = DOMAIN stat
    /\ \A i, j \in DOMAIN strings : strings[i] = strings[j] => i = j
    /\ ~overrun

(***************************************************************************)
(* The tracked addresses are the live ones, each under the string of the   *)
(* call that returned it, whatever addresses malloc hands out again after  *)
(* a free: do_free untracks before it frees.                               *)
(***************************************************************************)
TrackIsHeap ==
    /\ DOMAIN track \ {NULL} = LiveAddrs
    /\ \A i \in DOMAIN p :
          p[i].live /\ p[i].ptr # NULL => track[p[i].ptr] = p[i].str

(***************************************************************************)
(* The unsigned difference print_stats prints never wraps, not even when   *)
(* malloc fails several times and all failures share the key NULL: each    *)
(* tracked address is one allocation of its string not yet freed.          *)
(***************************************************************************)
NoWrap ==
    \A s \in DOMAIN stat :
        stat[s].nr_frees + Cardinality(Tracked(s)) <= stat[s].nr_allocs

(***************************************************************************)
(* As long as malloc has not failed, the report is the truth: every string *)
(* the caller used, with the number of its calls and of its frees.         *)
(***************************************************************************)
MallocNeverFailed == \A i \in DOMAIN p : p[i].ptr # NULL

ReportExact ==
    MallocNeverFailed =>
        /\ {Report[i].str : i \in DOMAIN Report} = {p[i].str : i \in DOMAIN p}
        /\ \A i \in DOMAIN Report :
              Report[i].row = [nr_allocs |-> Cardinality(Asked(Report[i].str)),
                               nr_frees |-> Cardinality(Freed(Report[i].str))]

=============================================================================
