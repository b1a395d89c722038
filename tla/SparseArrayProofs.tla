-------------------------- MODULE SparseArrayProofs --------------------------
(***************************************************************************)
(* The sparse array is a map, for every set of integer indices, every set  *)
(* of objects and every initial length: binary_search finds what is there  *)
(* and the right gap for what is not, so inserting keeps the order.        *)
(***************************************************************************)
EXTENDS SparseArray, TLAPS

(***************************************************************************)
(* Everything before place n is smaller than the index searched for, and   *)
(* everything from place n on is greater.                                  *)
(***************************************************************************)
Below(n) == \A i \in 0..(nr - 1) : i < n => indices[i] < Key
Above(n) == \A i \in 0..(nr - 1) : i >= n => indices[i] > Key
Gap(n) == n \in 0..nr /\ Below(n) /\ Above(n)

\* Where the last turn of the loop left mid is what tells, after the loop, on
\* which side of mid the gap is.
LoopInv ==
    pc = "loop" =>
        /\ low <= high /\ high <= nr
        /\ Below(low) /\ Above(high)
        /\ \/ low = 0 /\ high = nr
           \/ mid < nr /\ mid = high
           \/ mid < nr /\ mid + 1 = low

EndInv ==
    pc = "end" =>
        \/ nr = 0
        \/ mid < nr /\ indices[mid] = Key
        \/ mid < nr /\ indices[mid] > Key /\ Gap(mid)
        \/ mid < nr /\ indices[mid] < Key /\ Gap(mid + 1)

UseInv ==
    pc = "use" => /\ ret >= 0 => ret < nr /\ indices[ret] = Key
                  /\ ret < 0 => Gap(Not(ret))

Room == nr <= size /\ size <= icap /\ size <= ocap /\ size > 0

SparseInv == TypeOK /\ Sorted /\ Room /\ LoopInv /\ EndInv /\ UseInv

\* The parts of a call.
LEMMA RequestParts ==
  ASSUME req \in Requests
  PROVE  /\ Op \in {"set", "get"} /\ Key \in Keys /\ Val \in Vals
         /\ Key \in Int
BY KeysAssumption DEF Requests, Op, Key, Val

\* The complement of a place is negative, and its complement is the place.
LEMMA NotNot ==
  ASSUME NEW n \in Nat
  PROVE  Not(n) \in Int /\ Not(n) < 0 /\ Not(Not(n)) = n
BY DEF Not

\* sparse_array_create establishes SparseInv.
LEMMA SparseInvInit == Init => SparseInv
BY InitLenAssumption
   DEF Init, SparseInv, TypeOK, Sorted, Room, LoopInv, EndInv, UseInv

-----------------------------------------------------------------------------
(***************************************************************************)
(* binary_search                                                           *)
(***************************************************************************)
LEMMA CallStep == SparseInv /\ Call => SparseInv'
<1> SUFFICES ASSUME SparseInv, Call PROVE SparseInv'
  OBVIOUS
<1> USE DEF SparseInv, TypeOK
<1>1. TypeOK' /\ Sorted' /\ Room'
  BY DEF Call, arrayVars, Sorted, Room
<1>2. LoopInv'
  BY DEF Call, arrayVars, LoopInv, Below, Above, Room
<1>3. EndInv' /\ UseInv'
  BY DEF Call, EndInv, UseInv
<1> QED
  BY <1>1, <1>2, <1>3

\* A turn of binary_search keeps what is known of low and high.
LEMMA SearchTurnStep == SparseInv /\ SearchTurn => SparseInv'
<1> SUFFICES ASSUME SparseInv, SearchTurn PROVE SparseInv'
  OBVIOUS
<1> USE DEF SparseInv, TypeOK
<1> DEFINE m == low + ((high - low) \div 2)
<1>1. /\ mid' = m /\ UNCHANGED <<arrayVars, req, ret, obj, status>>
      /\ GoLeft(m) \/ GoRight(m) \/ Break(m)
  BY DEF SearchTurn
<1>2. m \in Nat /\ low <= m /\ m < high /\ m < nr /\ m \in 0..(nr - 1)
  BY DEF SearchTurn, LoopInv
<1>3. Key \in Int /\ Key' = Key
  BY <1>1, RequestParts DEF Key
<1>4. \A i \in 0..(nr - 1) : indices[i] \in Int
  BY KeysAssumption
<1> HIDE DEF m
<1>5. TypeOK' /\ Sorted' /\ Room' /\ UseInv'
  <2>1. low' \in Nat /\ high' \in Nat /\ pc' \in {"loop", "end"}
    BY <1>1, <1>2 DEF GoLeft, GoRight, Break, SearchTurn
  <2>2. Sorted' /\ Room'
    BY <1>1 DEF arrayVars, Sorted, Room
  <2> QED
    BY <1>1, <1>2, <2>1, <2>2 DEF arrayVars, UseInv
<1>6. LoopInv'
  <2>1. CASE GoLeft(m)
    <3>1. \A i \in 0..(nr - 1) : i >= m => indices[i] > Key
      BY <1>2, <1>3, <1>4, <2>1 DEF GoLeft, Sorted
    <3> QED
      BY <1>1, <1>2, <1>3, <2>1, <3>1
         DEF GoLeft, LoopInv, Below, Above, arrayVars, SearchTurn
  <2>2. CASE GoRight(m)
    <3>1. \A i \in 0..(nr - 1) : i < m + 1 => indices[i] < Key
      BY <1>2, <1>3, <1>4, <2>2 DEF GoRight, Sorted
    <3> QED
      BY <1>1, <1>2, <1>3, <2>2, <3>1
         DEF GoRight, LoopInv, Below, Above, arrayVars, SearchTurn
  <2>3. CASE Break(m)
    BY <2>3 DEF Break, LoopInv
  <2> QED
    BY <1>1, <2>1, <2>2, <2>3
<1>7. EndInv'
  BY <1>1, <1>2, <1>3 DEF GoLeft, GoRight, Break, EndInv, arrayVars, SearchTurn
<1> QED
  BY <1>5, <1>6, <1>7

\* Behind the loop mid is the place of the key or next to its gap.
LEMMA SearchDoneStep == SparseInv /\ SearchDone => SparseInv'
<1> SUFFICES ASSUME SparseInv, SearchDone PROVE SparseInv'
  OBVIOUS
<1> USE DEF SparseInv, TypeOK
<1>1. UNCHANGED <<arrayVars, req, searchVars, ret, obj, status>> /\ pc' = "end"
  BY DEF SearchDone
<1>2. TypeOK' /\ Sorted' /\ Room' /\ LoopInv' /\ UseInv'
  BY <1>1 DEF arrayVars, searchVars, Sorted, Room, LoopInv, UseInv
<1>3. \/ nr = 0
      \/ mid < nr /\ indices[mid] > Key /\ Gap(mid)
      \/ mid < nr /\ indices[mid] < Key /\ Gap(mid + 1)
  <2>1. low = high /\ Gap(low)
    BY DEF SearchDone, LoopInv, Gap
  <2>2. CASE mid < nr /\ mid = high
    BY <2>1, <2>2 DEF Gap, Above
  <2>3. CASE mid < nr /\ mid + 1 = low
    BY <2>1, <2>3 DEF Gap, Below
  <2> QED
    BY <2>1, <2>2, <2>3 DEF LoopInv, SearchDone
<1>4. EndInv'
  BY <1>1, <1>3 DEF EndInv, Gap, Below, Above, arrayVars, searchVars, Key
<1> QED
  BY <1>2, <1>4

\* binary_search returns the place, or the complement of the gap.
LEMMA SearchReturnStep == SparseInv /\ SearchReturn => SparseInv'
<1> SUFFICES ASSUME SparseInv, SearchReturn PROVE SparseInv'
  OBVIOUS
<1> USE DEF SparseInv, TypeOK
<1>1. /\ UNCHANGED <<arrayVars, req, searchVars, obj, status>>
      /\ pc' = "use" /\ ret' = SearchResult
  BY DEF SearchReturn
<1>2. Key \in Int /\ Key' = Key
  BY <1>1, RequestParts DEF Key
<1>3. \A i \in 0..(nr - 1) : indices[i] \in Int
  BY KeysAssumption
<1>4. ret' \in Int
  BY <1>1 DEF SearchResult, Not
<1>5. TypeOK' /\ Sorted' /\ Room' /\ LoopInv' /\ EndInv'
  BY <1>1, <1>4 DEF arrayVars, searchVars, Sorted, Room, LoopInv, EndInv
<1>6. /\ ret' >= 0 => ret' < nr /\ indices[ret'] = Key
      /\ ret' < 0 => Gap(Not(ret'))
  <2>1. CASE nr = 0
    <3>1. ret' = Not(0)
      BY <1>1, <2>1 DEF SearchResult
    <3>2. ret' < 0 /\ Not(ret') = 0
      BY <3>1, NotNot
    <3>3. Gap(0)
      BY <2>1 DEF Gap, Below, Above
    <3> QED
      BY <1>4, <3>2, <3>3
  <2>2. CASE nr # 0 /\ mid < nr /\ indices[mid] = Key
    BY <1>1, <2>2 DEF SearchResult
  <2>3. CASE nr # 0 /\ mid < nr /\ indices[mid] > Key /\ Gap(mid)
    <3>1. ret' = Not(mid)
      BY <1>1, <1>2, <1>3, <2>3 DEF SearchResult
    <3>2. Not(ret') = mid /\ ret' < 0
      BY <3>1, NotNot
    <3> QED
      BY <1>4, <2>3, <3>2 DEF Gap, Below, Above
  <2>4. CASE nr # 0 /\ mid < nr /\ indices[mid] < Key /\ Gap(mid + 1)
    <3>1. ret' = Not(mid + 1)
      BY <1>1, <1>2, <1>3, <2>4 DEF SearchResult
    <3>2. Not(ret') = mid + 1 /\ ret' < 0
      BY <3>1, NotNot
    <3> QED
      BY <1>4, <2>4, <3>2 DEF Gap, Below, Above
  <2> QED
    BY <2>1, <2>2, <2>3, <2>4 DEF EndInv, SearchReturn
<1>7. UseInv'
  BY <1>1, <1>2, <1>6 DEF UseInv, Gap, Below, Above, Not, arrayVars
<1> QED
  BY <1>5, <1>7

-----------------------------------------------------------------------------
(***************************************************************************)
(* Inserting into the gap: what the shifted arrays hold.                   *)
(***************************************************************************)
LEMMA InsertedParts ==
  ASSUME nr \in Nat, NEW S, NEW f \in [0..(nr - 1) -> S], NEW v \in S,
         NEW at \in 0..nr
  PROVE  /\ Inserted(f, at, v) \in [0..nr -> S]
         /\ Inserted(f, at, v)[at] = v
         /\ \A i \in 0..(nr - 1) : i < at => Inserted(f, at, v)[i] = f[i]
         /\ \A i \in 0..(nr - 1) : i >= at => Inserted(f, at, v)[i + 1] = f[i]
BY DEF Inserted

\* Inserting at the gap keeps the indices sorted and in bounds.
LEMMA InsertStep ==
  ASSUME SparseInv, Absent, Insert(Not(ret)),
         nr' <= size', size' <= icap', size' <= ocap',
         size' \in Nat \ {0}, icap' \in Nat, ocap' \in Nat
  PROVE  SparseInv'
<1> USE DEF SparseInv, TypeOK
<1> DEFINE at == Not(ret)
<1>1. Gap(at) /\ at \in 0..nr
  BY DEF Absent, UseInv, Gap
<1>2. Key \in Keys /\ Val \in Vals /\ Key \in Int
  BY RequestParts
<1>3. /\ indices' = Inserted(indices, at, Key)
      /\ objs' = Inserted(objs, at, Val)
      /\ nr' = nr + 1 /\ pc' = "idle" /\ status' = "ok"
      /\ UNCHANGED <<req, searchVars, ret, obj>>
  BY DEF Insert, Return
<1>4. nr' \in Nat /\ nr' - 1 = nr
  BY <1>3
<1> HIDE DEF at
<1>5. TypeOK'
  <2>1. indices' \in [0..nr -> Keys] /\ objs' \in [0..nr -> Vals]
    BY <1>1, <1>2, <1>3, InsertedParts
  <2> QED
    BY <1>3, <1>4, <2>1 DEF searchVars
<1>6. Sorted'
  <2> SUFFICES ASSUME NEW i \in 0..nr, NEW j \in 0..nr, i < j
               PROVE  Inserted(indices, at, Key)[i] < Inserted(indices, at, Key)[j]
    BY <1>3, <1>4 DEF Sorted
  <2>1. \A k \in 0..(nr - 1) : indices[k] \in Int
    BY KeysAssumption
  <2> QED
    BY <1>1, <1>2, <2>1 DEF Inserted, Gap, Below, Above, Sorted
<1> QED
  BY <1>3, <1>5, <1>6 DEF Room, LoopInv, EndInv, UseInv

\* sparse_array_set with room for one more.
LEMMA SetInsertStep == SparseInv /\ SetInsert => SparseInv'
<1> SUFFICES ASSUME SparseInv, SetInsert PROVE SparseInv'
  OBVIOUS
<1>1. /\ nr' <= size' /\ size' <= icap' /\ size' <= ocap'
      /\ size' \in Nat \ {0} /\ icap' \in Nat /\ ocap' \in Nat
  BY DEF SetInsert, Insert, SparseInv, TypeOK, Room
<1> QED
  BY <1>1, InsertStep DEF SetInsert

\* sparse_array_set with both, one or none of the reallocs done.
LEMMA SetGrowStep == SparseInv /\ SetGrow => SparseInv'
<1> SUFFICES ASSUME SparseInv, SetGrow PROVE SparseInv'
  OBVIOUS
<1>1. CASE Insert(Not(ret)) /\ icap' = size * 2 /\ ocap' = size * 2
           /\ size' = size * 2
  <2>1. /\ nr' <= size' /\ size' <= icap' /\ size' <= ocap'
        /\ size' \in Nat \ {0} /\ icap' \in Nat /\ ocap' \in Nat
    BY <1>1 DEF SetGrow, Insert, SparseInv, TypeOK, Room
  <2> QED
    BY <1>1, <2>1, InsertStep DEF SetGrow
<1>2. CASE /\ icap' \in {icap, size * 2}
           /\ Return("nomem")
           /\ UNCHANGED <<indices, objs, nr, size, ocap, obj>>
  <2> USE DEF SparseInv, TypeOK, Return, searchVars
  <2>1. TypeOK'
    BY <1>2
  <2>2. Sorted' /\ Room'
    BY <1>2 DEF Sorted, Room
  <2> QED
    BY <1>2, <2>1, <2>2 DEF LoopInv, EndInv, UseInv
<1> QED
  BY <1>1, <1>2 DEF SetGrow

\* sparse_array_set of a key that is there.
LEMMA SetReplaceStep == SparseInv /\ SetReplace => SparseInv'
<1> SUFFICES ASSUME SparseInv, SetReplace PROVE SparseInv'
  OBVIOUS
<1> USE DEF SparseInv, TypeOK, SetReplace, Return, searchVars
<1>1. Val \in Vals
  BY RequestParts
<1>2. objs' \in [0..(nr - 1) -> Vals]
  BY <1>1
<1>3. TypeOK' /\ Sorted' /\ Room'
  BY <1>2 DEF Sorted, Room
<1> QED
  BY <1>3 DEF LoopInv, EndInv, UseInv

\* sparse_array_get changes nothing.
LEMMA GetStep == SparseInv /\ (GetFound \/ GetMissing) => SparseInv'
<1> SUFFICES ASSUME SparseInv, GetFound \/ GetMissing PROVE SparseInv'
  OBVIOUS
<1> USE DEF SparseInv, TypeOK, GetFound, GetMissing, Return, searchVars, arrayVars
<1>1. obj' \in Vals
  BY DEF UseInv
<1>2. TypeOK' /\ Sorted' /\ Room'
  BY <1>1 DEF Sorted, Room
<1> QED
  BY <1>2 DEF LoopInv, EndInv, UseInv

\* Every step keeps SparseInv.
LEMMA SparseInvStep == SparseInv /\ [Next]_vars => SparseInv'
<1>1. SparseInv /\ UNCHANGED vars => SparseInv'
  BY DEF vars, SparseInv, TypeOK, Sorted, Room, LoopInv, EndInv, UseInv, Gap,
         Below, Above, Key, Not
<1> QED
  BY <1>1, CallStep, SearchTurnStep, SearchDoneStep, SearchReturnStep,
     SetInsertStep, SetGrowStep, SetReplaceStep, GetStep DEF Next, Step

\* SparseInv holds in every state.
LEMMA SparseInvariant == Spec => []SparseInv
BY SparseInvInit, SparseInvStep, PTL DEF Spec

(***************************************************************************)
(* For any integer indices, the array of indices is strictly sorted after  *)
(* every sparse_array_set.                                                 *)
(***************************************************************************)
THEOREM IndicesSorted == Spec => []Sorted
<1>1. SparseInv => Sorted
  BY DEF SparseInv
<1> QED
  BY <1>1, SparseInvariant, PTL

(***************************************************************************)
(* sparse_array_set and sparse_array_get use no array beyond its           *)
(* allocation, whichever realloc fails.                                    *)
(***************************************************************************)
THEOREM AccessesInBounds == Spec => []InBounds
<1>1. SparseInv => InBounds
  BY DEF SparseInv, InBounds, Room, LoopInv, UseInv, Gap, TypeOK
<1> QED
  BY <1>1, SparseInvariant, PTL

-----------------------------------------------------------------------------
(***************************************************************************)
(* The arrays implement the map.                                           *)
(***************************************************************************)
\* A gap where the index would be means that the map has no such index.
LEMMA GapMeansMissing ==
  ASSUME SparseInv, NEW n, Gap(n)
  PROVE  \A p \in Pairs : p[1] # Key
<1> SUFFICES ASSUME NEW i \in 0..(nr - 1) PROVE indices[i] # Key
  BY DEF Pairs
<1>1. indices[i] \in Int /\ Key \in Int
  BY RequestParts, KeysAssumption DEF SparseInv, TypeOK
<1>2. indices[i] < Key \/ indices[i] > Key
  BY DEF Gap, Below, Above, SparseInv, TypeOK
<1> QED
  BY <1>1, <1>2

\* Inserting adds the pair to the abstract map.
LEMMA InsertMaps ==
  ASSUME SparseInv, Absent, Insert(Not(ret))
  PROVE  Map!Set
<1> USE DEF SparseInv, TypeOK
<1> DEFINE at == Not(ret)
<1>1. Gap(at) /\ at \in 0..nr
  BY DEF Absent, UseInv, Gap
<1>2. /\ indices' = Inserted(indices, at, Key)
      /\ objs' = Inserted(objs, at, Val)
      /\ nr' = nr + 1 /\ pc' = "idle" /\ status' = "ok"
      /\ UNCHANGED <<req, obj>>
      /\ pc = "use" /\ Op = "set"
  BY DEF Insert, Return, Absent
<1>3. nr' - 1 = nr
  BY <1>2
<1> HIDE DEF at
<1>4. /\ indices'[at] = Key /\ objs'[at] = Val
      /\ \A i \in 0..(nr - 1) : i < at =>
            indices'[i] = indices[i] /\ objs'[i] = objs[i]
      /\ \A i \in 0..(nr - 1) : i >= at =>
            indices'[i + 1] = indices[i] /\ objs'[i + 1] = objs[i]
  <2>1. /\ indices'[at] = Key
        /\ \A i \in 0..(nr - 1) : i < at => indices'[i] = indices[i]
        /\ \A i \in 0..(nr - 1) : i >= at => indices'[i + 1] = indices[i]
    BY <1>1, <1>2 DEF Inserted
  <2>2. /\ objs'[at] = Val
        /\ \A i \in 0..(nr - 1) : i < at => objs'[i] = objs[i]
        /\ \A i \in 0..(nr - 1) : i >= at => objs'[i + 1] = objs[i]
    BY <1>1, <1>2 DEF Inserted
  <2> QED
    BY <2>1, <2>2
<1>5. \A i \in 0..nr : i # at =>
         \E j \in 0..(nr - 1) : indices'[i] = indices[j] /\ objs'[i] = objs[j]
  <2> SUFFICES ASSUME NEW i \in 0..nr, i # at
               PROVE  \E j \in 0..(nr - 1) : /\ indices'[i] = indices[j]
                                             /\ objs'[i] = objs[j]
    OBVIOUS
  <2>1. CASE i < at
    BY <1>1, <1>4, <2>1
  <2>2. CASE i > at
    <3>1. i - 1 \in 0..(nr - 1) /\ i - 1 >= at /\ (i - 1) + 1 = i
      BY <1>1, <2>2
    <3> QED
      BY <1>4, <3>1
  <2> QED
    BY <1>1, <2>1, <2>2
<1>6. \A j \in 0..(nr - 1) :
         \E i \in 0..nr : indices'[i] = indices[j] /\ objs'[i] = objs[j]
  <2> SUFFICES ASSUME NEW j \in 0..(nr - 1)
               PROVE  \E i \in 0..nr : /\ indices'[i] = indices[j]
                                       /\ objs'[i] = objs[j]
    OBVIOUS
  <2>1. CASE j < at
    BY <1>4, <2>1
  <2>2. CASE j >= at
    <3>1. j + 1 \in 0..nr
      OBVIOUS
    <3> QED
      BY <1>4, <2>2, <3>1
  <2> QED
    BY <1>1, <2>1, <2>2
<1>7. Pairs' = {<<indices'[i], objs'[i]>> : i \in 0..nr}
  BY <1>3 DEF Pairs
<1>8. Pairs' = Pairs \cup {<<Key, Val>>}
  <2>1. ASSUME NEW p \in Pairs' PROVE p \in Pairs \cup {<<Key, Val>>}
    <3>1. PICK i \in 0..nr : p = <<indices'[i], objs'[i]>>
      BY <1>7, <2>1
    <3>2. CASE i = at
      BY <1>4, <3>1, <3>2
    <3>3. CASE i # at
      BY <1>5, <3>1, <3>3 DEF Pairs
    <3> QED
      BY <3>2, <3>3
  <2>2. ASSUME NEW p \in Pairs PROVE p \in Pairs'
    <3>1. PICK j \in 0..(nr - 1) : p = <<indices[j], objs[j]>>
      BY <2>2 DEF Pairs
    <3> QED
      BY <1>6, <1>7, <3>1
  <2>3. <<Key, Val>> \in Pairs'
    BY <1>1, <1>4, <1>7
  <2> QED
    BY <2>1, <2>2, <2>3
<1>9. {p \in Pairs : p[1] # Key} = Pairs
  BY <1>1, GapMeansMissing
<1> QED
  BY <1>2, <1>8, <1>9 DEF Map!Set, Op, Key, Val

\* Replacing changes the one pair of the key.
LEMMA ReplaceMaps == SparseInv /\ SetReplace => Map!Set
<1> SUFFICES ASSUME SparseInv, SetReplace PROVE Map!Set
  OBVIOUS
<1> USE DEF SparseInv, TypeOK
<1>1. /\ objs' = [objs EXCEPT ![ret] = Val] /\ pc' = "idle" /\ status' = "ok"
      /\ UNCHANGED <<indices, nr, req, obj>> /\ pc = "use" /\ Op = "set"
      /\ ret \in 0..(nr - 1) /\ indices[ret] = Key
  BY DEF SetReplace, Return, UseInv
<1>2. objs'[ret] = Val /\ \A i \in 0..(nr - 1) : i # ret => objs'[i] = objs[i]
  BY <1>1
<1>3. \A i \in 0..(nr - 1) : i # ret => indices[i] # Key
  <2>1. \A i \in 0..(nr - 1) : indices[i] \in Int
    BY KeysAssumption
  <2> QED
    BY <1>1, <2>1 DEF Sorted
<1>4. Pairs' = {<<indices[i], objs'[i]>> : i \in 0..(nr - 1)}
  BY <1>1 DEF Pairs
<1>5. Pairs' = {p \in Pairs : p[1] # Key} \cup {<<Key, Val>>}
  <2>1. ASSUME NEW p \in Pairs'
        PROVE  p \in {q \in Pairs : q[1] # Key} \cup {<<Key, Val>>}
    <3>1. PICK i \in 0..(nr - 1) : p = <<indices[i], objs'[i]>>
      BY <1>4, <2>1
    <3>2. CASE i = ret
      BY <1>1, <1>2, <3>1, <3>2
    <3>3. CASE i # ret
      <4>1. p = <<indices[i], objs[i]>> /\ p[1] # Key
        BY <1>2, <1>3, <3>1, <3>3
      <4> QED
        BY <4>1 DEF Pairs
    <3> QED
      BY <3>2, <3>3
  <2>2. ASSUME NEW p \in Pairs, p[1] # Key PROVE p \in Pairs'
    <3>1. PICK i \in 0..(nr - 1) : p = <<indices[i], objs[i]>>
      BY <2>2 DEF Pairs
    <3>2. i # ret
      BY <1>1, <2>2, <3>1
    <3> QED
      BY <1>2, <1>4, <3>1, <3>2
  <2>3. <<Key, Val>> \in Pairs'
    BY <1>1, <1>2, <1>4
  <2> QED
    BY <2>1, <2>2, <2>3
<1> QED
  BY <1>1, <1>5 DEF Map!Set, Op, Key, Val

\* sparse_array_get returns what the abstract map returns.
LEMMA GetMaps ==
  SparseInv /\ (GetFound \/ GetMissing) => Map!Get \/ Map!GetMissing
<1> SUFFICES ASSUME SparseInv, GetFound \/ GetMissing
             PROVE  Map!Get \/ Map!GetMissing
  OBVIOUS
<1> USE DEF SparseInv, TypeOK
<1>1. CASE GetFound
  <2>1. /\ ret \in 0..(nr - 1) /\ indices[ret] = Key /\ obj' = objs[ret]
        /\ pc = "use" /\ Op = "get" /\ pc' = "idle" /\ status' = "ok"
        /\ UNCHANGED <<req, arrayVars>>
    BY <1>1 DEF GetFound, Return, UseInv
  <2>2. <<Key, obj'>> \in Pairs
    BY <2>1 DEF Pairs
  <2>3. Pairs' = Pairs
    BY <2>1 DEF Pairs, arrayVars
  <2> QED
    BY <2>1, <2>2, <2>3 DEF Map!Get, Op, Key
<1>2. CASE GetMissing
  <2>1. /\ Gap(Not(ret)) /\ pc = "use" /\ Op = "get" /\ pc' = "idle"
        /\ status' = "missing" /\ UNCHANGED <<req, obj, arrayVars>>
    BY <1>2 DEF GetMissing, Return, UseInv
  <2>2. \A p \in Pairs : p[1] # Key
    BY <2>1, GapMeansMissing
  <2>3. Pairs' = Pairs
    BY <2>1 DEF Pairs, arrayVars
  <2> QED
    BY <2>1, <2>2, <2>3 DEF Map!GetMissing, Op, Key
<1> QED
  BY <1>1, <1>2

\* A call that grows the arrays sets, or fails and changes nothing.
LEMMA GrowMaps == SparseInv /\ SetGrow => Map!Set \/ Map!SetNoMemory
<1> SUFFICES ASSUME SparseInv, SetGrow PROVE Map!Set \/ Map!SetNoMemory
  OBVIOUS
<1>1. CASE Insert(Not(ret))
  BY <1>1, InsertMaps DEF SetGrow
<1>2. CASE Return("nomem") /\ UNCHANGED <<indices, objs, nr, size, ocap, obj>>
  <2>1. Gap(Not(ret)) /\ pc = "use" /\ Op = "set"
    BY DEF SetGrow, Absent, SparseInv, UseInv
  <2>2. \A p \in Pairs : p[1] # Key
    BY <2>1, GapMeansMissing
  <2>3. Pairs' = Pairs
    BY <1>2 DEF Pairs
  <2> QED
    BY <1>2, <2>1, <2>2, <2>3 DEF Map!SetNoMemory, Return, Op, Key
<1> QED
  BY <1>1, <1>2 DEF SetGrow

\* The search is invisible to the caller.
LEMMA SearchMaps ==
  SearchTurn \/ SearchDone \/ SearchReturn => UNCHANGED Map!mapVars
<1> SUFFICES ASSUME SearchTurn \/ SearchDone \/ SearchReturn
             PROVE  UNCHANGED Map!mapVars
  OBVIOUS
<1>1. pc # "idle" /\ pc' # "idle" /\ UNCHANGED <<arrayVars, req, obj, status>>
  BY DEF SearchTurn, SearchDone, SearchReturn, GoLeft, GoRight, Break
<1>2. Pairs' = Pairs
  BY <1>1 DEF Pairs, arrayVars
<1> QED
  BY <1>1, <1>2 DEF Map!mapVars

\* A call is a request to the abstract map.
LEMMA CallMaps == Call => Map!Request
<1> SUFFICES ASSUME Call PROVE Map!Request
  OBVIOUS
<1>1. Pairs' = Pairs
  BY DEF Call, Pairs, arrayVars
<1> QED
  BY <1>1 DEF Call, Map!Request, Requests

(***************************************************************************)
(* sparse_array_set and sparse_array_get behave as a map from indices to   *)
(* objects, with each call taking effect at once, for any integer indices, *)
(* any objects, any initial length and any failures of realloc.            *)
(***************************************************************************)
THEOREM SparseArrayImplementsMap == Spec => ImplementsMap
<1>1. Init => Map!MapInit
  BY DEF Init, Map!MapInit, Pairs, Requests
<1>2. SparseInv /\ [Next]_vars => [Map!MapNext]_(Map!mapVars)
  <2> SUFFICES ASSUME SparseInv, [Next]_vars
               PROVE  [Map!MapNext]_(Map!mapVars)
    OBVIOUS
  <2>1. CASE UNCHANGED vars
    <3>1. Pairs' = Pairs /\ UNCHANGED <<pc, req, obj, status>>
      BY <2>1 DEF vars, Pairs
    <3> QED
      BY <3>1 DEF Map!mapVars
  <2>2. CASE Next
    BY <2>2, CallMaps, SearchMaps, InsertMaps, GrowMaps, ReplaceMaps, GetMaps
       DEF Next, Step, SetInsert, Map!MapNext
  <2> QED
    BY <2>1, <2>2
<1> QED
  BY <1>1, <1>2, SparseInvariant, PTL DEF Spec, ImplementsMap, Map!MapSpec
=============================================================================
