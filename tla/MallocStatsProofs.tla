-------------------------- MODULE MallocStatsProofs --------------------------
(***************************************************************************)
(* The counters of malloc_stats are exact for any set of strings and       *)
(* addresses and any number of calls.                                      *)
(***************************************************************************)
EXTENDS MallocStats, FiniteSetTheorems, TLAPS

(***************************************************************************)
(* What StringTableExact, TrackIsHeap, NoWrap and ReportExact need to be   *)
(* inductive: as many strings are listed as counted, live blocks have      *)
(* different addresses, and the counters count the caller's calls.         *)
(***************************************************************************)
ListLength == Len(strings) = Cardinality(DOMAIN stat)

LiveDistinct ==
    \A i, j \in DOMAIN p :
        p[i].live /\ p[j].live /\ p[i].ptr = p[j].ptr /\ p[i].ptr # NULL => i = j

AllocsExact ==
    /\ DOMAIN stat = {p[i].str : i \in DOMAIN p}
    /\ \A s \in DOMAIN stat : stat[s].nr_allocs = Cardinality(Asked(s))

FreesExact ==
    MallocNeverFailed =>
        \A s \in DOMAIN stat : stat[s].nr_frees = Cardinality(Freed(s))

TrackFinite == IsFiniteSet(DOMAIN track)
TrackCounted == \A a \in DOMAIN track : track[a] \in DOMAIN stat

IInv ==
    /\ TypeOK
    /\ StringTableExact
    /\ TrackIsHeap
    /\ NoWrap
    /\ ListLength
    /\ LiveDistinct
    /\ AllocsExact
    /\ FreesExact
    /\ TrackFinite
    /\ TrackCounted

-----------------------------------------------------------------------------
(***************************************************************************)
(* The empty tables of debug_init satisfy the invariant.                   *)
(***************************************************************************)
LEMMA DebugInit == Init => IInv
<1> SUFFICES ASSUME Init PROVE IInv
  OBVIOUS
<1>1. DOMAIN stat = {} /\ DOMAIN track = {} /\ DOMAIN p = {} /\ DOMAIN strings = {}
  BY DEF Init, Empty
<1>2. IsFiniteSet({}) /\ Cardinality({}) = 0
  BY FS_EmptySet
<1>3. TypeOK
  <2>1. stat \in [DOMAIN stat -> Counters] /\ track \in [DOMAIN track -> Strings]
    BY DEF Init, Empty
  <2>2. strings \in Seq(Strings) /\ p \in Seq(Block)
    BY DEF Init
  <2> QED BY <1>1, <2>1, <2>2 DEF Init, TypeOK
<1>4. StringTableExact /\ TrackIsHeap /\ NoWrap /\ LiveDistinct
  BY <1>1 DEF Init, StringTableExact, TrackIsHeap, LiveAddrs, NoWrap, LiveDistinct
<1>5. ListLength /\ AllocsExact /\ FreesExact /\ TrackFinite /\ TrackCounted
  BY <1>1, <1>2 DEF Init, ListLength, AllocsExact, FreesExact, TrackFinite, TrackCounted
<1> QED BY <1>3, <1>4, <1>5 DEF IInv

(***************************************************************************)
(* The calls the caller made and freed are finite sets.                    *)
(***************************************************************************)
LEMMA CallsFinite ==
    ASSUME TypeOK, NEW s
    PROVE  IsFiniteSet(Asked(s)) /\ IsFiniteSet(Freed(s))
<1>1. Len(p) \in Nat /\ DOMAIN p = 1 .. Len(p)
  BY DEF TypeOK
<1>3. IsFiniteSet(1 .. Len(p))
  BY <1>1, FS_Interval
<1>2. Asked(s) \subseteq 1 .. Len(p) /\ Freed(s) \subseteq 1 .. Len(p)
  BY <1>1 DEF Asked, Freed
<1> QED BY <1>2, <1>3, FS_Subset

(***************************************************************************)
(* do_alloc appends one call to what the caller has.                       *)
(***************************************************************************)
LEMMA AllocAppends ==
    ASSUME TypeOK, NEW s \in Strings, NEW a \in Addrs \cup {NULL}, DoAlloc(s, a),
           NEW n, n = Len(p) + 1
    PROVE  /\ p' \in Seq(Block)
           /\ n \notin DOMAIN p /\ DOMAIN p' = DOMAIN p \cup {n}
           /\ \A i \in DOMAIN p : p'[i] = p[i]
           /\ p'[n] = [ptr |-> a, str |-> s, live |-> TRUE]
<1> DEFINE b == [ptr |-> a, str |-> s, live |-> TRUE]
<1>1. b \in Block /\ p \in Seq(Block) /\ p' = Append(p, b)
  BY DEF Block, TypeOK, DoAlloc
<1>2. Len(p) \in Nat /\ DOMAIN p = 1 .. Len(p)
  BY <1>1
<1> HIDE DEF b
<1>3. p' \in Seq(Block) /\ Len(p') = Len(p) + 1 /\ DOMAIN p' = 1 .. Len(p')
  BY <1>1
<1>4. \A i \in 1 .. Len(p) : p'[i] = p[i]
  BY <1>1
<1>5. p'[n] = b
  BY <1>1, <1>2
<1> QED BY <1>2, <1>3, <1>4, <1>5 DEF b

(***************************************************************************)
(* What do_alloc's new call does to the calls, frees and live addresses of *)
(* each string.                                                            *)
(***************************************************************************)
LEMMA AllocCalls ==
    ASSUME TypeOK, NEW s \in Strings, NEW a \in Addrs \cup {NULL}, DoAlloc(s, a),
           NEW t
    PROVE  /\ Cardinality(Asked(t)') =
                 IF t = s THEN Cardinality(Asked(t)) + 1 ELSE Cardinality(Asked(t))
           /\ Freed(t)' = Freed(t)
<1> DEFINE n == Len(p) + 1
<1>1. /\ n \notin DOMAIN p /\ DOMAIN p' = DOMAIN p \cup {n}
      /\ \A i \in DOMAIN p : p'[i] = p[i]
      /\ p'[n] = [ptr |-> a, str |-> s, live |-> TRUE]
  BY AllocAppends
<1> HIDE DEF n
<1>2. Freed(t)' = Freed(t)
  BY <1>1 DEF Freed, Asked
<1>3. Asked(t)' = IF t = s THEN Asked(t) \cup {n} ELSE Asked(t)
  BY <1>1 DEF Asked
<1>4. n \notin Asked(t) /\ IsFiniteSet(Asked(t))
  BY <1>1, CallsFinite DEF Asked
<1> QED BY <1>2, <1>3, <1>4, FS_AddElement

(***************************************************************************)
(* debug_alloc's counting: one more allocation of s, nothing else; a new   *)
(* string is listed, and finds room in both tables.                        *)
(***************************************************************************)
LEMMA AllocCounts ==
    ASSUME IInv, NEW s \in Strings, CountAlloc(s)
    PROVE  /\ DOMAIN stat' = DOMAIN stat \cup {s}
           /\ stat' \in [DOMAIN stat' -> Counters]
           /\ \A t \in DOMAIN stat :
                 /\ stat'[t].nr_frees = stat[t].nr_frees
                 /\ stat'[t].nr_allocs =
                       IF t = s THEN stat[t].nr_allocs + 1 ELSE stat[t].nr_allocs
           /\ s \notin DOMAIN stat => stat'[s] = [nr_allocs |-> 1, nr_frees |-> 0]
           /\ strings' \in Seq(Strings) /\ overrun' \in BOOLEAN
           /\ StringTableExact' /\ ListLength'
<1>1. /\ DOMAIN stat \subseteq Strings /\ stat \in [DOMAIN stat -> Counters]
      /\ strings \in Seq(Strings) /\ overrun = FALSE
      /\ {strings[i] : i \in DOMAIN strings} = DOMAIN stat
      /\ \A i, j \in DOMAIN strings : strings[i] = strings[j] => i = j
      /\ Len(strings) = Cardinality(DOMAIN stat)
  BY DEF IInv, TypeOK, StringTableExact, ListLength
<1>2. CASE s \in DOMAIN stat
  <2>1. stat' = [stat EXCEPT ![s].nr_allocs = @ + 1] /\ UNCHANGED <<strings, overrun>>
    BY <1>2 DEF CountAlloc
  <2>2. DOMAIN stat' = DOMAIN stat
    BY <2>1
  <2>3. stat' \in [DOMAIN stat' -> Counters]
    <3>1. [stat[s] EXCEPT !.nr_allocs = @ + 1] \in Counters
      BY <1>1, <1>2 DEF Counters
    <3>2. stat' = [stat EXCEPT ![s] = [stat[s] EXCEPT !.nr_allocs = @ + 1]]
      BY <2>1
    <3> QED BY <1>1, <2>2, <3>1, <3>2
  <2>4. \A t \in DOMAIN stat :
            /\ stat'[t].nr_frees = stat[t].nr_frees
            /\ stat'[t].nr_allocs =
                  IF t = s THEN stat[t].nr_allocs + 1 ELSE stat[t].nr_allocs
    BY <1>1, <1>2, <2>1 DEF Counters
  <2>5. StringTableExact' /\ ListLength'
    BY <1>1, <2>1, <2>2 DEF StringTableExact, ListLength
  <2> QED BY <1>1, <1>2, <2>1, <2>2, <2>3, <2>4, <2>5
<1>3. CASE s \notin DOMAIN stat
  <2>1. IsFiniteSet(DOMAIN stat) /\ Cardinality(DOMAIN stat) \in Nat
    BY <1>1, StringsAssumption, FS_Subset, FS_CardinalityType
  <2>2. Cardinality(DOMAIN stat \cup {s}) = Cardinality(DOMAIN stat) + 1
    BY <1>3, <2>1, FS_AddElement
  <2>3. Cardinality(DOMAIN stat) < HTABLE_SZ
    <3>1. DOMAIN stat \cup {s} \subseteq Strings
      BY <1>1
    <3>2. Cardinality(DOMAIN stat \cup {s}) <= Cardinality(Strings)
      BY <3>1, StringsAssumption, FS_Subset
    <3> QED BY <2>1, <2>2, <3>2, StringsAssumption, FS_CardinalityType
  <2>4. /\ stat' = With(stat, s, [nr_allocs |-> 1, nr_frees |-> 0])
        /\ strings' = Append(strings, s) /\ overrun' = FALSE
    <3>1. ~(Cardinality(DOMAIN stat) >= HTABLE_SZ) /\ ~(Len(strings) >= HTABLE_SZ)
      BY <1>1, <2>1, <2>3, StringsAssumption
    <3> QED BY <1>1, <1>3, <3>1 DEF CountAlloc, HashEnter
  <2>5. DOMAIN stat' = DOMAIN stat \cup {s}
    BY <2>4 DEF With
  <2>6. stat'[s] = [nr_allocs |-> 1, nr_frees |-> 0] /\ \A t \in DOMAIN stat : stat'[t] = stat[t]
    BY <1>3, <2>4 DEF With
  <2>7. stat' \in [DOMAIN stat' -> Counters]
    <3>1. stat' = [y \in DOMAIN stat' |-> stat'[y]]
      BY <2>4 DEF With
    <3>2. \A y \in DOMAIN stat' : stat'[y] \in Counters
      BY <1>1, <2>5, <2>6 DEF Counters
    <3> QED BY <3>1, <3>2
  <2>8. /\ strings' \in Seq(Strings) /\ Len(strings') = Len(strings) + 1
        /\ DOMAIN strings' = DOMAIN strings \cup {Len(strings) + 1}
        /\ Len(strings) + 1 \notin DOMAIN strings
        /\ \A i \in DOMAIN strings : strings'[i] = strings[i]
        /\ strings'[Len(strings) + 1] = s
    BY <1>1, <2>4
  <2>9. ListLength'
    BY <1>1, <2>2, <2>5, <2>8 DEF ListLength
  <2>10. StringTableExact'
    <3>1. {strings'[i] : i \in DOMAIN strings'} = DOMAIN stat'
      BY <1>1, <2>5, <2>8
    <3>2. \A i, j \in DOMAIN strings' : strings'[i] = strings'[j] => i = j
      BY <1>1, <1>3, <2>8
    <3> QED BY <2>4, <3>1, <3>2 DEF StringTableExact
  <2> QED BY <1>3, <2>4, <2>5, <2>6, <2>7, <2>8, <2>9, <2>10
<1> QED BY <1>2, <1>3

(***************************************************************************)
(* debug_alloc's tracking: a is tracked, under s unless it is NULL.        *)
(***************************************************************************)
LEMMA AllocTracks ==
    ASSUME IInv, NEW s \in Strings, NEW a \in Addrs \cup {NULL}, DoAlloc(s, a)
    PROVE  /\ DOMAIN track' = DOMAIN track \cup {a}
           /\ track' \in [DOMAIN track' -> Strings]
           /\ \A x \in DOMAIN track : x # a => track'[x] = track[x]
           /\ a # NULL => track'[a] = s
           /\ \A x \in DOMAIN track' :
                 track'[x] # s => x \in DOMAIN track /\ track'[x] = track[x]
           /\ \A t : Tracked(t)' \subseteq Tracked(t) \cup {a}
           /\ \A t : t # s => Tracked(t)' \subseteq Tracked(t)
<1>1. track' = Track(a, s) /\ a \notin LiveAddrs
  BY DEF DoAlloc
<1>2. a \in DOMAIN track => a = NULL
  BY <1>1 DEF IInv, TrackIsHeap
<1>3. track \in [DOMAIN track -> Strings]
  BY DEF IInv, TypeOK
<1>4. CASE table = "hsearch" /\ a \in DOMAIN track
  <2>1. track' = track
    BY <1>1, <1>4 DEF Track
  <2> QED BY <1>2, <1>3, <1>4, <2>1 DEF Tracked
<1>5. CASE ~(table = "hsearch" /\ a \in DOMAIN track)
  <2>1. track' = [y \in DOMAIN track \cup {a} |-> IF y = a THEN s ELSE track[y]]
    BY <1>1, <1>5 DEF Track, With
  <2>2. DOMAIN track' = DOMAIN track \cup {a}
    BY <2>1
  <2>3. track'[a] = s /\ \A x \in DOMAIN track : x # a => track'[x] = track[x]
    BY <2>1
  <2>4. track' \in [DOMAIN track' -> Strings]
    BY <1>3, <2>1, <2>2
  <2>5. \A t : Tracked(t)' \subseteq Tracked(t) \cup {a}
    BY <2>2, <2>3 DEF Tracked
  <2>6. \A t : t # s => Tracked(t)' \subseteq Tracked(t)
    BY <2>2, <2>3 DEF Tracked
  <2> QED BY <2>2, <2>3, <2>4, <2>5, <2>6
<1> QED BY <1>4, <1>5

(***************************************************************************)
(* do_alloc keeps the invariant.                                           *)
(***************************************************************************)
LEMMA AllocStep ==
    ASSUME IInv, NEW s \in Strings, NEW a \in Addrs \cup {NULL}, DoAlloc(s, a)
    PROVE  IInv'
<1> DEFINE n == Len(p) + 1
<1>1. /\ p' \in Seq(Block)
      /\ n \notin DOMAIN p /\ DOMAIN p' = DOMAIN p \cup {n}
      /\ \A i \in DOMAIN p : p'[i] = p[i]
      /\ p'[n] = [ptr |-> a, str |-> s, live |-> TRUE]
  BY AllocAppends DEF IInv
<1> HIDE DEF n
<1>2. /\ DOMAIN stat' = DOMAIN stat \cup {s}
      /\ stat' \in [DOMAIN stat' -> Counters]
      /\ \A t \in DOMAIN stat :
            /\ stat'[t].nr_frees = stat[t].nr_frees
            /\ stat'[t].nr_allocs =
                  IF t = s THEN stat[t].nr_allocs + 1 ELSE stat[t].nr_allocs
      /\ s \notin DOMAIN stat => stat'[s] = [nr_allocs |-> 1, nr_frees |-> 0]
      /\ strings' \in Seq(Strings) /\ overrun' \in BOOLEAN
      /\ StringTableExact' /\ ListLength'
  <2>1. CountAlloc(s)
    BY DEF DoAlloc
  <2> QED BY <2>1, AllocCounts
<1>3. /\ DOMAIN track' = DOMAIN track \cup {a}
      /\ track' \in [DOMAIN track' -> Strings]
      /\ \A x \in DOMAIN track : x # a => track'[x] = track[x]
      /\ a # NULL => track'[a] = s
      /\ \A x \in DOMAIN track' :
            track'[x] # s => x \in DOMAIN track /\ track'[x] = track[x]
      /\ \A t : Tracked(t)' \subseteq Tracked(t) \cup {a}
      /\ \A t : t # s => Tracked(t)' \subseteq Tracked(t)
  BY AllocTracks
<1>4. a \notin LiveAddrs /\ UNCHANGED table /\ stat \in [DOMAIN stat -> Counters]
  BY DEF DoAlloc, IInv, TypeOK
<1>5. TypeOK'
  BY <1>1, <1>2, <1>3, <1>4 DEF IInv, TypeOK
<1>6. LiveAddrs' = LiveAddrs \cup ({a} \ {NULL})
  BY <1>1 DEF LiveAddrs
<1>7. TrackIsHeap'
  <2>1. DOMAIN track' \ {NULL} = LiveAddrs'
    BY <1>3, <1>6 DEF IInv, TrackIsHeap
  <2>2. ASSUME NEW i \in DOMAIN p', p'[i].live, p'[i].ptr # NULL
        PROVE  track'[p'[i].ptr] = p'[i].str
    <3>1. CASE i = n
      BY <1>1, <1>3, <2>2, <3>1
    <3>2. CASE i \in DOMAIN p
      <4>1. p[i].live /\ p[i].ptr # NULL /\ p[i].ptr \in LiveAddrs
        BY <1>1, <2>2, <3>2 DEF LiveAddrs
      <4>2. p[i].ptr \in DOMAIN track /\ track[p[i].ptr] = p[i].str /\ p[i].ptr # a
        BY <1>4, <3>2, <4>1 DEF IInv, TrackIsHeap
      <4> QED BY <1>1, <1>3, <3>2, <4>2
    <3> QED BY <1>1, <3>1, <3>2
  <2> QED BY <2>1, <2>2 DEF TrackIsHeap
<1>8. LiveDistinct'
  <2>1. \A i \in DOMAIN p : p[i].live /\ p[i].ptr # NULL => p[i].ptr # a
    BY <1>4 DEF LiveAddrs
  <2> QED BY <1>1, <2>1 DEF IInv, LiveDistinct
<1>9. TrackFinite' /\ TrackCounted'
  <2>1. IsFiniteSet(DOMAIN track \cup {a})
    BY FS_AddElement DEF IInv, TrackFinite
  <2>2. \A x \in DOMAIN track' : track'[x] \in DOMAIN stat'
    BY <1>2, <1>3 DEF IInv, TrackCounted
  <2> QED BY <1>3, <2>1, <2>2 DEF TrackFinite, TrackCounted
<1>10. AllocsExact'
  <2>1. DOMAIN stat' = {p'[i].str : i \in DOMAIN p'}
    BY <1>1, <1>2 DEF IInv, AllocsExact
  <2>2. ASSUME NEW t \in DOMAIN stat' PROVE stat'[t].nr_allocs = Cardinality(Asked(t)')
    <3>1. Cardinality(Asked(t)') =
             IF t = s THEN Cardinality(Asked(t)) + 1 ELSE Cardinality(Asked(t))
      BY AllocCalls DEF IInv
    <3>2. CASE t \in DOMAIN stat
      BY <1>2, <3>1, <3>2 DEF IInv, AllocsExact
    <3>3. CASE t \notin DOMAIN stat
      <4>1. Asked(t) = {} /\ t = s
        BY <1>2, <3>3 DEF IInv, AllocsExact, Asked
      <4> QED BY <1>2, <3>1, <3>3, <4>1, FS_EmptySet
    <3> QED BY <3>2, <3>3
  <2> QED BY <2>1, <2>2 DEF AllocsExact
<1>11. FreesExact'
  <2> SUFFICES ASSUME MallocNeverFailed', NEW t \in DOMAIN stat'
               PROVE  stat'[t].nr_frees = Cardinality(Freed(t)')
    BY DEF FreesExact
  <2>1. MallocNeverFailed
    BY <1>1 DEF MallocNeverFailed
  <2>2. Freed(t)' = Freed(t)
    BY AllocCalls DEF IInv
  <2>3. CASE t \in DOMAIN stat
    BY <1>2, <2>1, <2>2, <2>3 DEF IInv, FreesExact
  <2>4. CASE t \notin DOMAIN stat
    <3>1. Freed(t) = {} /\ t = s
      BY <1>2, <2>4 DEF IInv, AllocsExact, Freed, Asked
    <3> QED BY <1>2, <2>2, <2>4, <3>1, FS_EmptySet
  <2> QED BY <2>3, <2>4
<1>12. NoWrap'
  <2> SUFFICES ASSUME NEW t \in DOMAIN stat'
               PROVE  stat'[t].nr_frees + Cardinality(Tracked(t)') <= stat'[t].nr_allocs
    BY DEF NoWrap
  <2>1. IsFiniteSet(Tracked(t))
    BY FS_Subset DEF IInv, TrackFinite, Tracked
  <2>2. /\ Cardinality(Tracked(t)') \in Nat /\ Cardinality(Tracked(t)) \in Nat
        /\ Cardinality(Tracked(t)') <=
              IF t = s THEN Cardinality(Tracked(t)) + 1 ELSE Cardinality(Tracked(t))
    <3>1. /\ IsFiniteSet(Tracked(t) \cup {a})
          /\ Cardinality(Tracked(t) \cup {a}) <= Cardinality(Tracked(t)) + 1
      <4>1. Cardinality(Tracked(t)) \in Nat
        BY <2>1, FS_CardinalityType
      <4>2. /\ IsFiniteSet(Tracked(t) \cup {a})
            /\ \/ Cardinality(Tracked(t) \cup {a}) = Cardinality(Tracked(t))
               \/ Cardinality(Tracked(t) \cup {a}) = Cardinality(Tracked(t)) + 1
        BY <2>1, FS_AddElement
      <4> QED BY <4>1, <4>2
    <3>2. IsFiniteSet(Tracked(t)') /\ Cardinality(Tracked(t)') <= Cardinality(Tracked(t) \cup {a})
      BY <1>3, <3>1, FS_Subset
    <3>3. t # s => Cardinality(Tracked(t)') <= Cardinality(Tracked(t))
      BY <1>3, <2>1, FS_Subset
    <3> QED BY <2>1, <3>1, <3>2, <3>3, FS_CardinalityType
  <2>3. CASE t \in DOMAIN stat
    <3>1. stat[t].nr_frees + Cardinality(Tracked(t)) <= stat[t].nr_allocs
      BY <2>3 DEF IInv, NoWrap
    <3>2. stat[t] \in Counters
      BY <1>4, <2>3
    <3> QED BY <1>2, <2>2, <2>3, <3>1, <3>2 DEF Counters
  <2>4. CASE t \notin DOMAIN stat
    <3>1. Tracked(t) = {} /\ t = s
      BY <1>2, <2>4 DEF IInv, TrackCounted, Tracked
    <3> QED BY <1>2, <2>2, <2>4, <3>1, FS_EmptySet
  <2> QED BY <2>3, <2>4
<1> QED BY <1>2, <1>5, <1>7, <1>8, <1>9, <1>10, <1>11, <1>12 DEF IInv

(***************************************************************************)
(* do_free keeps the invariant: what it untracks is what it counts.        *)
(***************************************************************************)
LEMMA FreeStep ==
    ASSUME IInv, NEW k \in DOMAIN p, DoFree(k)
    PROVE  IInv'
<1> DEFINE a == p[k].ptr
<1>1. /\ p[k].live /\ p' = [p EXCEPT ![k].live = FALSE]
      /\ UNCHANGED <<table, strings, overrun>>
  BY DEF DoFree
<1>2. p \in Seq(Block) /\ p[k] \in Block
  BY DEF IInv, TypeOK
<1>3. /\ p' \in Seq(Block) /\ DOMAIN p' = DOMAIN p
      /\ \A i \in DOMAIN p : p'[i].ptr = p[i].ptr /\ p'[i].str = p[i].str
      /\ \A i \in DOMAIN p : p'[i].live <=> (p[i].live /\ i # k)
  <2>1. p' = [p EXCEPT ![k] = [p[k] EXCEPT !.live = FALSE]]
    BY <1>1
  <2>2. [p[k] EXCEPT !.live = FALSE] \in Block
    BY <1>2 DEF Block
  <2>3. p' \in Seq(Block) /\ DOMAIN p' = DOMAIN p
    BY <1>2, <2>1, <2>2
  <2>4. p'[k] = [p[k] EXCEPT !.live = FALSE] /\ \A i \in DOMAIN p : i # k => p'[i] = p[i]
    BY <1>2, <2>1
  <2>5. \A i \in DOMAIN p : p'[i].ptr = p[i].ptr /\ p'[i].str = p[i].str
    BY <1>2, <2>4 DEF Block
  <2>6. \A i \in DOMAIN p : p'[i].live <=> (p[i].live /\ i # k)
    BY <1>2, <2>4 DEF Block
  <2> QED BY <2>3, <2>5, <2>6
<1>4. \A t : Asked(t)' = Asked(t)
  BY <1>3 DEF Asked
<1>5. \A t : Freed(t)' = IF t = p[k].str THEN Freed(t) \cup {k} ELSE Freed(t)
  BY <1>1, <1>3 DEF Freed, Asked
<1>6. LiveAddrs' = LiveAddrs \ {a}
  BY <1>1, <1>3 DEF IInv, LiveDistinct, LiveAddrs
<1>7. LiveDistinct'
  BY <1>3 DEF IInv, LiveDistinct
<1>8. MallocNeverFailed' <=> MallocNeverFailed
  BY <1>3 DEF MallocNeverFailed
<1>9. CASE a \notin DOMAIN track
  <2>1. UNCHANGED <<stat, track>>
    BY <1>9 DEF DoFree
  <2>2. a = NULL
    BY <1>1, <1>9 DEF IInv, TrackIsHeap, LiveAddrs
  <2>3. TypeOK' /\ StringTableExact' /\ ListLength'
    BY <1>1, <1>3, <2>1 DEF IInv, TypeOK, StringTableExact, ListLength
  <2>4. TrackIsHeap'
    BY <1>3, <1>6, <2>1, <2>2 DEF IInv, TrackIsHeap
  <2>5. NoWrap' /\ TrackFinite' /\ TrackCounted'
    BY <2>1 DEF IInv, NoWrap, Tracked, TrackFinite, TrackCounted
  <2>6. AllocsExact'
    BY <1>3, <1>4, <2>1 DEF IInv, AllocsExact
  <2>7. FreesExact'
    BY <1>8, <2>2 DEF FreesExact, MallocNeverFailed
  <2> QED BY <1>7, <2>3, <2>4, <2>5, <2>6, <2>7 DEF IInv
<1>10. CASE a \in DOMAIN track
  <2> DEFINE s == track[a]
  <2>1. s \in DOMAIN stat /\ stat[s] \in Counters
    BY <1>10 DEF IInv, TrackCounted, TypeOK
  <2>2. /\ stat' = [stat EXCEPT ![s].nr_frees = @ + 1]
        /\ track' = [y \in DOMAIN track \ {a} |-> track[y]]
    BY <1>10, <2>1 DEF DoFree, CountFree, Without
  <2>3. DOMAIN stat' = DOMAIN stat /\ DOMAIN track' = DOMAIN track \ {a}
    BY <2>2
  <2>4. stat' \in [DOMAIN stat' -> Counters]
    <3>1. [stat[s] EXCEPT !.nr_frees = @ + 1] \in Counters
      BY <2>1 DEF Counters
    <3>2. stat' = [stat EXCEPT ![s] = [stat[s] EXCEPT !.nr_frees = @ + 1]]
      BY <2>2
    <3> QED BY <2>3, <3>1, <3>2 DEF IInv, TypeOK
  <2>5. /\ \A t \in DOMAIN stat : stat'[t].nr_allocs = stat[t].nr_allocs
        /\ \A t \in DOMAIN stat : t # s => stat'[t].nr_frees = stat[t].nr_frees
        /\ stat'[s].nr_frees = stat[s].nr_frees + 1
    BY <2>1, <2>2 DEF IInv, TypeOK, Counters
  <2>6. \A y \in DOMAIN track' : track'[y] = track[y]
    BY <2>2
  <2>7. TypeOK'
    BY <1>1, <1>3, <2>2, <2>3, <2>4 DEF IInv, TypeOK
  <2>8. StringTableExact' /\ ListLength' /\ TrackCounted'
    BY <1>1, <2>3, <2>6 DEF IInv, StringTableExact, ListLength, TrackCounted
  <2>9. TrackFinite'
    BY <2>3, FS_Subset DEF IInv, TrackFinite
  <2>10. TrackIsHeap'
    <3>1. DOMAIN track' \ {NULL} = LiveAddrs'
      BY <1>6, <2>3 DEF IInv, TrackIsHeap
    <3>2. ASSUME NEW i \in DOMAIN p', p'[i].live, p'[i].ptr # NULL
          PROVE  track'[p'[i].ptr] = p'[i].str
      <4>1. p[i].live /\ i # k /\ p[i].ptr # NULL /\ i \in DOMAIN p
        BY <1>3, <3>2
      <4>2. p[i].ptr # a
        BY <1>1, <4>1 DEF IInv, LiveDistinct
      <4>3. p[i].ptr \in DOMAIN track /\ track[p[i].ptr] = p[i].str
        BY <4>1 DEF IInv, TrackIsHeap, LiveAddrs
      <4> QED BY <1>3, <2>3, <2>6, <4>1, <4>2, <4>3
    <3> QED BY <3>1, <3>2 DEF TrackIsHeap
  <2>11. AllocsExact'
    <3>1. DOMAIN stat' = {p'[i].str : i \in DOMAIN p'}
      BY <1>3, <2>3 DEF IInv, AllocsExact
    <3>2. \A t \in DOMAIN stat' : stat'[t].nr_allocs = Cardinality(Asked(t)')
      BY <1>4, <2>3, <2>5 DEF IInv, AllocsExact
    <3> QED BY <3>1, <3>2 DEF AllocsExact
  <2>12. FreesExact'
    <3> SUFFICES ASSUME MallocNeverFailed', NEW t \in DOMAIN stat'
                 PROVE  stat'[t].nr_frees = Cardinality(Freed(t)')
      BY DEF FreesExact
    <3>1. MallocNeverFailed
      BY <1>8
    <3>2. s = p[k].str
      BY <1>1, <3>1 DEF IInv, TrackIsHeap, MallocNeverFailed
    <3>3. t \in DOMAIN stat /\ stat[t].nr_frees = Cardinality(Freed(t))
      BY <2>3, <3>1 DEF IInv, FreesExact
    <3>4. IsFiniteSet(Freed(t)) /\ k \notin Freed(t)
      BY <1>1, CallsFinite DEF IInv, Freed
    <3>5. Cardinality(Freed(t) \cup {k}) = Cardinality(Freed(t)) + 1
      BY <3>4, FS_AddElement
    <3> QED BY <1>5, <2>5, <3>2, <3>3, <3>5
  <2>13. NoWrap'
    <3> SUFFICES ASSUME NEW t \in DOMAIN stat'
                 PROVE  stat'[t].nr_frees + Cardinality(Tracked(t)') <= stat'[t].nr_allocs
      BY DEF NoWrap
    <3>1. IsFiniteSet(Tracked(t)) /\ Cardinality(Tracked(t)) \in Nat
      BY FS_Subset, FS_CardinalityType DEF IInv, TrackFinite, Tracked
    <3>2. t \in DOMAIN stat /\ stat[t] \in Counters
          /\ stat[t].nr_frees + Cardinality(Tracked(t)) <= stat[t].nr_allocs
      BY <2>3 DEF IInv, NoWrap, TypeOK
    <3>3. CASE t = s
      <4>1. Tracked(t)' = Tracked(t) \ {a} /\ a \in Tracked(t)
        BY <1>10, <2>3, <2>6, <3>3 DEF Tracked
      <4>2. Cardinality(Tracked(t)') = Cardinality(Tracked(t)) - 1
        BY <3>1, <4>1, FS_RemoveElement
      <4> QED BY <2>5, <3>1, <3>2, <3>3, <4>2 DEF Counters
    <3>4. CASE t # s
      <4>1. Tracked(t)' = Tracked(t)
        BY <1>10, <2>3, <2>6, <3>4 DEF Tracked
      <4> QED BY <2>5, <3>2, <3>4, <4>1
    <3> QED BY <3>3, <3>4
  <2> QED BY <1>7, <2>7, <2>8, <2>9, <2>10, <2>11, <2>12, <2>13 DEF IInv
<1> QED BY <1>9, <1>10

-----------------------------------------------------------------------------
(***************************************************************************)
(* The inductive invariant holds of every behaviour of both programs.      *)
(***************************************************************************)
THEOREM StatsInvariant == Spec => []IInv
<1>1. IInv /\ [Next]_vars => IInv'
  <2> SUFFICES ASSUME IInv, [Next]_vars PROVE IInv'
    OBVIOUS
  <2>1. CASE UNCHANGED vars
    <3>1. TypeOK' /\ StringTableExact' /\ ListLength' /\ TrackFinite' /\ TrackCounted'
      BY <2>1 DEF vars, IInv, TypeOK, StringTableExact, ListLength, TrackFinite, TrackCounted
    <3>2. TrackIsHeap' /\ LiveDistinct'
      BY <2>1 DEF vars, IInv, TrackIsHeap, LiveAddrs, LiveDistinct
    <3>3. NoWrap'
      BY <2>1 DEF vars, IInv, NoWrap, Tracked
    <3>4. AllocsExact' /\ FreesExact'
      BY <2>1 DEF vars, IInv, AllocsExact, Asked, FreesExact, Freed, MallocNeverFailed
    <3> QED BY <3>1, <3>2, <3>3, <3>4 DEF IInv
  <2>2. ASSUME NEW s \in Strings, NEW a \in Addrs \cup {NULL}, DoAlloc(s, a) PROVE IInv'
    BY <2>2, AllocStep
  <2>3. ASSUME NEW k \in 1 .. MaxIter, DoFree(k) PROVE IInv'
    <3>1. k \in DOMAIN p
      BY <2>3 DEF DoFree
    <3> QED BY <2>3, <3>1, FreeStep
  <2> QED BY <2>1, <2>2, <2>3 DEF Next
<1> QED BY <1>1, DebugInit, PTL DEF Spec

(***************************************************************************)
(* print_stats lists every counted string once, and alloc_string_table is  *)
(* never overrun (strings and stat of debug_alloc).                        *)
(***************************************************************************)
THEOREM StringTable == Spec => []StringTableExact
<1>1. IInv => StringTableExact
  BY DEF IInv
<1> QED BY <1>1, StatsInvariant, PTL

(***************************************************************************)
(* The tracked addresses are the live ones, under their own strings, also  *)
(* when malloc hands an address out again.                                 *)
(***************************************************************************)
THEOREM Tracking == Spec => []TrackIsHeap
<1>1. IInv => TrackIsHeap
  BY DEF IInv
<1> QED BY <1>1, StatsInvariant, PTL

(***************************************************************************)
(* nr_allocs - nr_frees never wraps, whatever allocations fail.            *)
(***************************************************************************)
THEOREM Difference == Spec => []NoWrap
<1>1. IInv => NoWrap
  BY DEF IInv
<1> QED BY <1>1, StatsInvariant, PTL

(***************************************************************************)
(* Without failed allocations print_stats prints the true numbers.         *)
(***************************************************************************)
THEOREM TrueReport == Spec => []ReportExact
<1>1. IInv => ReportExact
  <2> SUFFICES ASSUME IInv, MallocNeverFailed
               PROVE  /\ {Report[i].str : i \in DOMAIN Report} = {p[i].str : i \in DOMAIN p}
                      /\ \A i \in DOMAIN Report :
                            Report[i].row = [nr_allocs |-> Cardinality(Asked(Report[i].str)),
                                             nr_frees |-> Cardinality(Freed(Report[i].str))]
    BY DEF ReportExact
  <2>1. /\ {strings[i] : i \in DOMAIN strings} = DOMAIN stat
        /\ DOMAIN stat = {p[i].str : i \in DOMAIN p}
    BY DEF IInv, StringTableExact, AllocsExact
  <2>2. DOMAIN Report = DOMAIN strings
    BY <2>1 DEF Report
  <2>3. \A i \in DOMAIN strings : Report[i] = [str |-> strings[i], row |-> stat[strings[i]]]
    BY <2>1 DEF Report
  <2>4. {Report[i].str : i \in DOMAIN Report} = {p[i].str : i \in DOMAIN p}
    <3>1. {Report[i].str : i \in DOMAIN Report} = {strings[i] : i \in DOMAIN strings}
      BY <2>2, <2>3
    <3> QED BY <2>1, <3>1
  <2>5. \A s \in DOMAIN stat : stat[s] = [nr_allocs |-> Cardinality(Asked(s)),
                                          nr_frees |-> Cardinality(Freed(s))]
    <3>1. \A s \in DOMAIN stat : /\ stat[s] \in Counters
                                 /\ stat[s].nr_allocs = Cardinality(Asked(s))
                                 /\ stat[s].nr_frees = Cardinality(Freed(s))
      BY DEF IInv, AllocsExact, FreesExact, TypeOK
    <3> QED BY <3>1 DEF Counters
  <2>6. ASSUME NEW i \in DOMAIN Report
        PROVE  Report[i].row = [nr_allocs |-> Cardinality(Asked(Report[i].str)),
                                nr_frees |-> Cardinality(Freed(Report[i].str))]
    <3>1. Report[i].str = strings[i] /\ Report[i].row = stat[strings[i]]
          /\ strings[i] \in DOMAIN stat
      BY <2>1, <2>2, <2>3
    <3> QED BY <2>5, <3>1
  <2> QED BY <2>4, <2>6
<1> QED BY <1>1, StatsInvariant, PTL
=============================================================================
