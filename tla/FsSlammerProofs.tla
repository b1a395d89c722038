--------------------------- MODULE FsSlammerProofs ---------------------------
(***************************************************************************)
(* The files, the descriptors and the unlocked total of fs_slammer, for    *)
(* any finite set of threads and any number of pages, rounds and           *)
(* descriptors.                                                            *)
(***************************************************************************)
EXTENDS FsSlammer, FiniteSetTheorems, WellFoundedInduction, TLAPS

(***************************************************************************)
(* Every step keeps the types, slammers at places of slam_junk and readers *)
(* at places of raw_reader.                                                *)
(***************************************************************************)
LEMMA FsTyping == TypeOK /\ [Next]_vars => TypeOK'
<1> SUFFICES ASSUME TypeOK, [Next]_vars PROVE TypeOK'
  OBVIOUS
<1> USE ThreadsAssumption, BoundsAssumption
    DEF TypeOK, GoTo, At, SlamPlaces, RawPlaces, Threads, dataVars
<1>0. \A n \in Lowest : n \in Numbers
  BY DEF Lowest, Unused
<1>1. \A n : Closed(fdt, n) \in [Numbers -> Threads \cup {None}]
  BY DEF Closed
<1>2. \A t \in Threads : CallDone(t) \subseteq [Numbers -> Threads \cup {None}]
  BY <1>0, <1>1 DEF CallDone
<1>3. CASE UNCHANGED vars
  BY <1>3 DEF vars
<1>4. ASSUME NEW t \in Slammers, SlamOpen(t) PROVE TypeOK'
  BY <1>0, <1>4 DEF SlamOpen, SlamGone, SlamCleanup, ResetWrote, Open
<1>5. ASSUME NEW t \in Slammers, SlamOpenZero(t) PROVE TypeOK'
  BY <1>0, <1>1, <1>5 DEF SlamOpenZero, ZeroFails, SlamGone, SlamCleanup, CloseFd, Open
<1>6. ASSUME NEW t \in Slammers, SlamPage(t) PROVE TypeOK'
  BY <1>1, <1>6 DEF SlamPage, SlamGone, SlamCleanup, Closed
<1>7. ASSUME NEW t \in Slammers, SlamLoad(t) \/ SlamStore(t) PROVE TypeOK'
  BY <1>7 DEF SlamLoad, SlamStore
<1>8. ASSUME NEW t \in Slammers, SlamSync(t) \/ SlamCloseZero(t) \/ SlamDrain(t)
      PROVE  TypeOK'
  BY <1>1, <1>8 DEF SlamSync, SlamCloseZero, SlamDrain, CloseFd
<1>9. ASSUME NEW t \in Slammers, SlamReopen(t) PROVE TypeOK'
  BY <1>0, <1>9 DEF SlamReopen, Open
<1>10. ASSUME NEW t \in Slammers, SlamSpin(t) \/ SlamCancelled(t) PROVE TypeOK'
  BY <1>2, <1>3, <1>10 DEF SlamSpin, SlamCancelled, SlamGone, SlamCleanup
<1>11. ASSUME NEW t \in Readers, RawOpen(t) \/ RawRead(t) PROVE TypeOK'
  BY <1>0, <1>11 DEF RawOpen, RawRead, Open
<1>12. ASSUME NEW t \in Readers, RawClose(t) \/ RawCleanup(t) PROVE TypeOK'
  BY <1>1, <1>12 DEF RawClose, RawCleanup, PopAndExit, CloseFd
<1>13. ASSUME NEW t \in Readers, RawCancelled(t) PROVE TypeOK'
  BY <1>2, <1>13 DEF RawCancelled
<1>14. ASSUME NEW t \in Threads, Create(t) PROVE TypeOK'
  BY <1>14 DEF Create
<1>15. ASSUME NEW t \in Threads, CancelThread(t) PROVE TypeOK'
  BY <1>15 DEF CancelThread
<1>16. ASSUME InstallHandlers \/ SleepEnds \/ PauseEnds \/ MainExit \/ EarlySignal \/ Done
       PROVE  TypeOK'
  BY <1>3, <1>16 DEF InstallHandlers, SleepEnds, PauseEnds, MainExit, EarlySignal, Done
<1> QED
  BY <1>3, <1>4, <1>5, <1>6, <1>7, <1>8, <1>9, <1>10, <1>11, <1>12, <1>13, <1>14,
     <1>15, <1>16 DEF Next, Main, SlamStep, RawStep

-----------------------------------------------------------------------------
(***************************************************************************)
(* A step that ends a slammer removes its file, and only a slammer that    *)
(* goes on makes one.                                                      *)
(***************************************************************************)
LEMMA FilesStep == TypeOK /\ NoStrayFile /\ [Next]_vars => NoStrayFile'
<1> SUFFICES ASSUME TypeOK, NoStrayFile, [Next]_vars,
                    main' \in {"create", "wait", "cancel", "exited"}
             PROVE  \A t \in files' : Alive(t)'
  BY DEF NoStrayFile
<1> USE ThreadsAssumption
    DEF TypeOK, GoTo, At, SlamPlaces, RawPlaces, Threads, dataVars, Alive
<1>0. main \in {"create", "wait", "cancel", "exited"} => \A t \in files : Alive(t)
  BY DEF NoStrayFile
<1> DEFINE Goal == \A t \in files' : Alive(t)'
<1>1. CASE UNCHANGED vars
  BY <1>0, <1>1 DEF vars
<1>2. ASSUME NEW t \in Slammers, SlamGone(t), UNCHANGED main PROVE Goal
  BY <1>0, <1>2 DEF SlamGone, SlamCleanup
<1>3. ASSUME NEW t \in Slammers, SlamOpen(t) PROVE Goal
  BY <1>0, <1>2, <1>3 DEF SlamOpen
<1>4. ASSUME NEW t \in Slammers, SlamOpenZero(t) PROVE Goal
  BY <1>0, <1>2, <1>4 DEF SlamOpenZero, ZeroFails
<1>5. ASSUME NEW t \in Slammers, SlamPage(t) PROVE Goal
  BY <1>0, <1>2, <1>5 DEF SlamPage
<1>6. ASSUME NEW t \in Slammers,
             \/ SlamLoad(t) \/ SlamStore(t) \/ SlamSync(t) \/ SlamCloseZero(t)
             \/ SlamReopen(t) \/ SlamDrain(t)
      PROVE  Goal
  BY <1>0, <1>6 DEF SlamLoad, SlamStore, SlamSync, SlamCloseZero, SlamReopen, SlamDrain
<1>7. ASSUME NEW t \in Slammers, SlamSpin(t) \/ SlamCancelled(t) PROVE Goal
  BY <1>1, <1>2, <1>7 DEF SlamSpin, SlamCancelled
<1>8. ASSUME NEW t \in Readers, RawStep(t) \/ RawRead(t) \/ RawCancelled(t) PROVE Goal
  <2>1. /\ UNCHANGED <<main, files>>
        /\ \A u \in Slammers : pc'[u] = pc[u]
    BY <1>8 DEF RawStep, RawOpen, RawRead, RawClose, RawCleanup, RawCancelled, PopAndExit
  <2> QED
    BY <1>0, <2>1
<1>9. ASSUME NEW t \in Threads, Create(t) PROVE Goal
  BY <1>0, <1>9 DEF Create
<1>10. ASSUME NEW t \in Threads, CancelThread(t) PROVE Goal
  BY <1>0, <1>10 DEF CancelThread
<1>11. ASSUME InstallHandlers \/ SleepEnds \/ PauseEnds \/ MainExit \/ EarlySignal \/ Done
       PROVE  Goal
  BY <1>0, <1>1, <1>11 DEF InstallHandlers, SleepEnds, PauseEnds, MainExit, EarlySignal, Done
<1> QED
  BY <1>1, <1>3, <1>4, <1>5, <1>6, <1>7, <1>8, <1>9, <1>10, <1>11
     DEF Next, Main, SlamStep

-----------------------------------------------------------------------------
(***************************************************************************)
(* Which descriptors a thread relies on at its place: they are open, its   *)
(* own and different; and a thread that is not cancelled has no others.    *)
(***************************************************************************)
UsesFd(t) ==
    \/ pc[t] \in {"openzero", "page", "load", "store", "raw", "rawclose", "handler"}
    \/ pc[t] = "drain" /\ fd[t] # Bad

UsesRand(t) == pc[t] \in {"page", "load", "store", "closezero"}

Own(t) ==
    /\ UsesFd(t) => fd[t] \in Numbers /\ fdt[fd[t]] = t
    /\ UsesRand(t) => fdRand[t] \in Numbers /\ fdt[fdRand[t]] = t
    /\ UsesFd(t) /\ UsesRand(t) => fd[t] # fdRand[t]

NoOthers(t) ==
    t \notin pending =>
        \A n \in Numbers : fdt[n] = t =>
            (UsesFd(t) /\ n = fd[t]) \/ (UsesRand(t) /\ n = fdRand[t])

Ownership == ~twice => \A t \in Threads : Own(t) /\ NoOthers(t)

(***************************************************************************)
(* What a step of thread t leaves alone: the table but for unused numbers  *)
(* and t's own, and everything of the other threads.                       *)
(***************************************************************************)
TouchesOwn(t) ==
    \A n \in Numbers :
        fdt[n] # fdt'[n] => fdt[n] \in {t, None} /\ fdt'[n] \in {t, None}

OthersStay(t) ==
    /\ UNCHANGED pending
    /\ \A u \in Threads \ {t} : pc'[u] = pc[u] /\ fd'[u] = fd[u]
    /\ \A u \in Slammers \ {t} : fdRand'[u] = fdRand[u]

(***************************************************************************)
(* A step by t that opens an unused number or closes its own leaves what   *)
(* the other threads have alone.                                           *)
(***************************************************************************)
LEMMA OthersKeep ==
  ASSUME NEW t \in Threads, NEW u \in Threads \ {t}, Own(u), NoOthers(u),
         pc'[u] = pc[u], fd'[u] = fd[u], UsesRand(u) => fdRand'[u] = fdRand[u],
         u \in pending => u \in pending',
         TouchesOwn(t)
  PROVE  Own(u)' /\ NoOthers(u)'
<1>1. u \notin {t, None}
  BY ThreadsAssumption
<1> QED
  BY <1>1 DEF Own, NoOthers, UsesFd, UsesRand, TouchesOwn

(***************************************************************************)
(* A step by one thread keeps ownership, if it keeps its own and touches   *)
(* only unused numbers and its own.                                        *)
(***************************************************************************)
LEMMA OwnershipFrame ==
  ASSUME TypeOK, ~twice, Ownership, NEW t \in Threads,
         OthersStay(t), TouchesOwn(t),
         Own(t)', NoOthers(t)'
  PROVE  Ownership'
<1>1. ASSUME NEW u \in Threads \ {t} PROVE Own(u)' /\ NoOthers(u)'
  <2>1. Own(u) /\ NoOthers(u)
    BY DEF Ownership
  <2>2. UsesRand(u) => u \in Slammers
    BY DEF TypeOK, UsesRand, RawPlaces, Threads
  <2> QED
    BY <2>1, <2>2, OthersKeep DEF OthersStay
<1> QED
  BY <1>1 DEF Ownership

(***************************************************************************)
(* Every step keeps ownership: it opens an unused number or closes one the *)
(* thread itself has open, unless a reader closes twice.                   *)
(***************************************************************************)
LEMMA OwnershipStep == TypeOK /\ Ownership /\ [Next]_vars => Ownership'
<1> SUFFICES ASSUME TypeOK, Ownership, [Next]_vars, ~twice' PROVE Ownership'
  BY DEF Ownership
<1> USE ThreadsAssumption
    DEF TypeOK, GoTo, At, SlamPlaces, RawPlaces, dataVars
<1>1. CASE UNCHANGED vars
  BY <1>1 DEF vars, Ownership, Own, NoOthers, UsesFd, UsesRand
<1>2. ~twice
  <2>1. twice => twice'
    BY DEF Next, vars, Main, EarlySignal, InstallHandlers, SleepEnds, PauseEnds, MainExit,
           Create, CancelThread, Done,
           SlamStep, SlamOpen, SlamOpenZero, SlamPage, SlamLoad, SlamStore, SlamSync,
           SlamCloseZero, SlamReopen, SlamDrain, SlamSpin, SlamCancelled,
           RawStep, RawOpen, RawRead, RawClose, RawCleanup, RawCancelled
  <2> QED BY <2>1
<1>3. \A t \in Threads : Own(t) /\ NoOthers(t)
  BY <1>2 DEF Ownership
<1>4. \A n \in Lowest : n \in Numbers /\ fdt[n] = None
  BY DEF Lowest, Unused
<1>5. \A n \in Numbers : n # Bad
  BY BoundsAssumption DEF Numbers, Bad
<1>6. Slammers \subseteq Threads /\ Readers \subseteq Threads
  BY DEF Threads
<1> USE DEF Own, NoOthers, UsesFd, UsesRand
<1>7. ASSUME NEW t \in Slammers, SlamOpen(t) PROVE Ownership'
  <2>1. Own(t)' /\ NoOthers(t)'
    BY <1>3, <1>4, <1>5, <1>6, <1>7 DEF SlamOpen, SlamGone, Open
  <2>2. TouchesOwn(t)
    BY <1>3, <1>4, <1>6, <1>7 DEF SlamOpen, SlamGone, Open, TouchesOwn
  <2>3. OthersStay(t)
    BY <1>6, <1>7 DEF SlamOpen, SlamGone, OthersStay
  <2> HIDE DEF Own, NoOthers
  <2> QED
    BY <1>2, <1>6, <2>1, <2>2, <2>3, OwnershipFrame
<1>8. ASSUME NEW t \in Slammers, SlamOpenZero(t) PROVE Ownership'
  <2>1. Own(t)' /\ NoOthers(t)'
    BY <1>3, <1>4, <1>5, <1>6, <1>8
       DEF SlamOpenZero, ZeroFails, SlamGone, CloseFd, Closed, Open
  <2>2. TouchesOwn(t)
    BY <1>3, <1>4, <1>6, <1>8
       DEF SlamOpenZero, ZeroFails, SlamGone, CloseFd, Closed, Open, TouchesOwn
  <2>3. OthersStay(t)
    BY <1>6, <1>8 DEF SlamOpenZero, ZeroFails, SlamGone, CloseFd, OthersStay
  <2> HIDE DEF Own, NoOthers
  <2> QED
    BY <1>2, <1>6, <2>1, <2>2, <2>3, OwnershipFrame
<1>9. ASSUME NEW t \in Slammers, SlamPage(t) PROVE Ownership'
  <2>1. Own(t)' /\ NoOthers(t)'
    BY <1>3, <1>4, <1>5, <1>6, <1>9 DEF SlamPage, SlamGone, Closed
  <2>2. TouchesOwn(t)
    BY <1>3, <1>4, <1>6, <1>9 DEF SlamPage, SlamGone, Closed, TouchesOwn
  <2>3. OthersStay(t)
    BY <1>6, <1>9 DEF SlamPage, SlamGone, OthersStay
  <2> HIDE DEF Own, NoOthers
  <2> QED
    BY <1>2, <1>6, <2>1, <2>2, <2>3, OwnershipFrame
<1>10. ASSUME NEW t \in Slammers, SlamLoad(t) PROVE Ownership'
  <2>1. Own(t)' /\ NoOthers(t)'
    BY <1>3, <1>4, <1>5, <1>6, <1>10 DEF SlamLoad
  <2>2. TouchesOwn(t)
    BY <1>3, <1>4, <1>6, <1>10 DEF SlamLoad, TouchesOwn
  <2>3. OthersStay(t)
    BY <1>6, <1>10 DEF SlamLoad, OthersStay
  <2> HIDE DEF Own, NoOthers
  <2> QED
    BY <1>2, <1>6, <2>1, <2>2, <2>3, OwnershipFrame
<1>11. ASSUME NEW t \in Slammers, SlamStore(t) PROVE Ownership'
  <2>1. Own(t)' /\ NoOthers(t)'
    BY <1>3, <1>4, <1>5, <1>6, <1>11 DEF SlamStore
  <2>2. TouchesOwn(t)
    BY <1>3, <1>4, <1>6, <1>11 DEF SlamStore, TouchesOwn
  <2>3. OthersStay(t)
    BY <1>6, <1>11 DEF SlamStore, OthersStay
  <2> HIDE DEF Own, NoOthers
  <2> QED
    BY <1>2, <1>6, <2>1, <2>2, <2>3, OwnershipFrame
<1>12. ASSUME NEW t \in Slammers, SlamSync(t) PROVE Ownership'
  <2>1. Own(t)' /\ NoOthers(t)'
    BY <1>3, <1>4, <1>5, <1>6, <1>12 DEF SlamSync, CloseFd, Closed
  <2>2. TouchesOwn(t)
    BY <1>3, <1>4, <1>6, <1>12 DEF SlamSync, CloseFd, Closed, TouchesOwn
  <2>3. OthersStay(t)
    BY <1>6, <1>12 DEF SlamSync, CloseFd, OthersStay
  <2> HIDE DEF Own, NoOthers
  <2> QED
    BY <1>2, <1>6, <2>1, <2>2, <2>3, OwnershipFrame
<1>13. ASSUME NEW t \in Slammers, SlamCloseZero(t) PROVE Ownership'
  <2>1. Own(t)' /\ NoOthers(t)'
    BY <1>3, <1>4, <1>5, <1>6, <1>13 DEF SlamCloseZero, Closed
  <2>2. TouchesOwn(t)
    BY <1>3, <1>4, <1>6, <1>13 DEF SlamCloseZero, Closed, TouchesOwn
  <2>3. OthersStay(t)
    BY <1>6, <1>13 DEF SlamCloseZero, OthersStay
  <2> HIDE DEF Own, NoOthers
  <2> QED
    BY <1>2, <1>6, <2>1, <2>2, <2>3, OwnershipFrame
<1>14. ASSUME NEW t \in Slammers, SlamReopen(t) PROVE Ownership'
  <2>1. Own(t)' /\ NoOthers(t)'
    BY <1>3, <1>4, <1>5, <1>6, <1>14 DEF SlamReopen, Open
  <2>2. TouchesOwn(t)
    BY <1>3, <1>4, <1>6, <1>14 DEF SlamReopen, Open, TouchesOwn
  <2>3. OthersStay(t)
    BY <1>6, <1>14 DEF SlamReopen, OthersStay
  <2> HIDE DEF Own, NoOthers
  <2> QED
    BY <1>2, <1>6, <2>1, <2>2, <2>3, OwnershipFrame
<1>15. ASSUME NEW t \in Slammers, SlamDrain(t) PROVE Ownership'
  <2>1. Own(t)' /\ NoOthers(t)'
    BY <1>3, <1>4, <1>5, <1>6, <1>15 DEF SlamDrain, CloseFd, Closed
  <2>2. TouchesOwn(t)
    BY <1>3, <1>4, <1>5, <1>6, <1>15 DEF SlamDrain, CloseFd, Closed, TouchesOwn
  <2>3. OthersStay(t)
    BY <1>6, <1>15 DEF SlamDrain, CloseFd, OthersStay
  <2> HIDE DEF Own, NoOthers
  <2> QED
    BY <1>2, <1>6, <2>1, <2>2, <2>3, OwnershipFrame
<1>16. ASSUME NEW t \in Slammers, SlamCancelled(t) PROVE Ownership'
  <2>1. Own(t)' /\ NoOthers(t)'
    BY <1>3, <1>4, <1>5, <1>6, <1>16 DEF SlamCancelled, SlamGone, CallDone, Closed
  <2>2. TouchesOwn(t)
    <3>1. CASE fdt' = fdt
      BY <3>1 DEF TouchesOwn
    <3>2. CASE \E n \in Lowest : fdt' = [fdt EXCEPT ![n] = t]
      BY <1>4, <3>2 DEF TouchesOwn
    <3>3. CASE fdt' = Closed(fdt, fd[t]) /\ UsesFd(t)
      BY <1>3, <1>6, <3>3 DEF Closed, TouchesOwn
    <3>4. CASE fdt' = Closed(fdt, fdRand[t]) /\ UsesRand(t)
      BY <1>3, <1>6, <3>4 DEF Closed, TouchesOwn
    <3>5. fd[t] = Bad => Closed(fdt, fd[t]) = fdt
      BY <1>5 DEF Closed, TouchesOwn
    <3> QED
      BY <1>16, <3>1, <3>2, <3>3, <3>4, <3>5 DEF SlamCancelled, CallDone
  <2>3. OthersStay(t)
    BY <1>6, <1>16 DEF SlamCancelled, SlamGone, OthersStay
  <2> HIDE DEF Own, NoOthers
  <2> QED
    BY <1>2, <1>6, <2>1, <2>2, <2>3, OwnershipFrame
<1>17. ASSUME NEW t \in Readers, RawOpen(t) PROVE Ownership'
  <2>1. Own(t)' /\ NoOthers(t)'
    BY <1>3, <1>4, <1>5, <1>6, <1>17 DEF RawOpen, Open
  <2>2. TouchesOwn(t)
    BY <1>3, <1>4, <1>6, <1>17 DEF RawOpen, Open, TouchesOwn
  <2>3. OthersStay(t)
    BY <1>6, <1>17 DEF RawOpen, OthersStay
  <2> HIDE DEF Own, NoOthers
  <2> QED
    BY <1>2, <1>6, <2>1, <2>2, <2>3, OwnershipFrame
<1>18. ASSUME NEW t \in Readers, RawRead(t) PROVE Ownership'
  <2>1. Own(t)' /\ NoOthers(t)'
    BY <1>3, <1>4, <1>5, <1>6, <1>18 DEF RawRead
  <2>2. TouchesOwn(t)
    BY <1>3, <1>4, <1>6, <1>18 DEF RawRead, TouchesOwn
  <2>3. OthersStay(t)
    BY <1>6, <1>18 DEF RawRead, OthersStay
  <2> HIDE DEF Own, NoOthers
  <2> QED
    BY <1>2, <1>6, <2>1, <2>2, <2>3, OwnershipFrame
<1>19. ASSUME NEW t \in Readers, RawClose(t) PROVE Ownership'
  <2>1. Own(t)' /\ NoOthers(t)'
    BY <1>3, <1>4, <1>5, <1>6, <1>19 DEF RawClose, PopAndExit, CloseFd, Closed
  <2>2. TouchesOwn(t)
    BY <1>3, <1>4, <1>6, <1>19 DEF RawClose, PopAndExit, CloseFd, Closed, TouchesOwn
  <2>3. OthersStay(t)
    BY <1>6, <1>19 DEF RawClose, PopAndExit, CloseFd, OthersStay
  <2> HIDE DEF Own, NoOthers
  <2> QED
    BY <1>2, <1>6, <2>1, <2>2, <2>3, OwnershipFrame
<1>20. ASSUME NEW t \in Readers, RawCleanup(t) PROVE Ownership'
  <2>1. Own(t)' /\ NoOthers(t)'
    BY <1>3, <1>4, <1>5, <1>6, <1>20 DEF RawCleanup, CloseFd, Closed
  <2>2. TouchesOwn(t)
    BY <1>3, <1>4, <1>6, <1>20 DEF RawCleanup, CloseFd, Closed, TouchesOwn
  <2>3. OthersStay(t)
    BY <1>6, <1>20 DEF RawCleanup, CloseFd, OthersStay
  <2> HIDE DEF Own, NoOthers
  <2> QED
    BY <1>2, <1>6, <2>1, <2>2, <2>3, OwnershipFrame
<1>21. ASSUME NEW t \in Readers, RawCancelled(t) PROVE Ownership'
  <2>1. Own(t)' /\ NoOthers(t)'
    <3>1. CASE pc[t] = "rawopen"
      BY <1>6, <1>21, <3>1 DEF RawCancelled
    <3>2. CASE pc[t] \in {"raw", "rawclose"}
      <4>1. pc[t] = "rawclose" => fdt' = fdt
        BY <1>21 DEF RawCancelled
      <4>2. pc[t] = "raw" => fdt' = fdt
        BY <1>21 DEF RawCancelled, CallDone
      <4> QED
        BY <1>3, <1>6, <1>21, <3>2, <4>1, <4>2 DEF RawCancelled
    <3> QED
      BY <1>21, <3>1, <3>2 DEF RawCancelled
  <2>2. TouchesOwn(t)
    BY <1>3, <1>4, <1>6, <1>21 DEF RawCancelled, CallDone, Closed, TouchesOwn
  <2>3. OthersStay(t)
    BY <1>6, <1>21 DEF RawCancelled, OthersStay
  <2> HIDE DEF Own, NoOthers
  <2> QED
    BY <1>2, <1>6, <2>1, <2>2, <2>3, OwnershipFrame
<1>22. ASSUME NEW t \in Threads, Create(t) PROVE Ownership'
  <2>1. Own(t)' /\ NoOthers(t)'
    <3>1. pc[t] = "new" /\ pc'[t] \in {"new", "open", "rawopen"}
      BY <1>22 DEF Create
    <3>2. UNCHANGED <<pending, fdt, fd, fdRand>>
      BY <1>22 DEF Create
    <3> QED
      BY <1>3, <3>1, <3>2
  <2>2. TouchesOwn(t)
    BY <1>3, <1>4, <1>6, <1>22 DEF Create, TouchesOwn
  <2>3. OthersStay(t)
    BY <1>6, <1>22 DEF Create, OthersStay
  <2> HIDE DEF Own, NoOthers
  <2> QED
    BY <1>2, <1>6, <2>1, <2>2, <2>3, OwnershipFrame
<1>23. ASSUME NEW t \in Threads, CancelThread(t) PROVE Ownership'
  BY <1>3, <1>23 DEF CancelThread, Ownership
<1>24. ASSUME InstallHandlers \/ SleepEnds \/ PauseEnds \/ MainExit \/ EarlySignal
       PROVE  Ownership'
  BY <1>3, <1>24 DEF InstallHandlers, SleepEnds, PauseEnds, MainExit, EarlySignal, Ownership
<1> HIDE DEF Own, NoOthers, UsesFd, UsesRand, TypeOK
<1> QED
  BY <1>1, <1>7, <1>8, <1>9, <1>10, <1>11, <1>12, <1>13, <1>14,
     <1>15, <1>16, <1>17, <1>18, <1>19, <1>20, <1>21, <1>22, <1>23, <1>24
     DEF Next, Main, SlamStep, SlamSpin, RawStep, Done

-----------------------------------------------------------------------------
(***************************************************************************)
(* The inductive invariant.                                                *)
(***************************************************************************)
FsInv == TypeOK /\ NoStrayFile /\ Ownership

(***************************************************************************)
(* It holds when main has started no thread, and every step keeps it.      *)
(***************************************************************************)
LEMMA FsInvariant == Spec => []FsInv
<1>1. Init => FsInv
  <2> SUFFICES ASSUME Init PROVE FsInv
    OBVIOUS
  <2>1. TypeOK
    BY BoundsAssumption DEF Init, TypeOK, SlamPlaces, RawPlaces, Threads
  <2>2. NoStrayFile
    BY DEF Init, NoStrayFile
  <2>3. Ownership
    BY ThreadsAssumption DEF Init, Ownership, Own, NoOthers, UsesFd, UsesRand
  <2> QED
    BY <2>1, <2>2, <2>3 DEF FsInv
<1>2. FsInv /\ [Next]_vars => FsInv'
  BY FsTyping, FilesStep, OwnershipStep DEF FsInv
<1> QED
  BY <1>1, <1>2, PTL DEF Spec

(***************************************************************************)
(* The variables of fs_slammer keep their types.                           *)
(***************************************************************************)
THEOREM FsSlammerTyping == Spec => []TypeOK
<1>1. FsInv => TypeOK
  BY DEF FsInv
<1> QED
  BY <1>1, FsInvariant, PTL

(***************************************************************************)
(* Every way out of slam_junk removes the thread's file, however many      *)
(* threads there are and wherever the cancellation finds them.             *)
(***************************************************************************)
THEOREM FsSlammerFiles == Spec => []NoStrayFile
<1>1. FsInv => NoStrayFile
  BY DEF FsInv
<1> QED
  BY <1>1, FsInvariant, PTL

(***************************************************************************)
(* As long as no reader closes twice, a slammer uses only descriptors it   *)
(* opened itself, whatever the others open and close in between.           *)
(***************************************************************************)
THEOREM FsSlammerDescriptors == Spec => []OwnDescriptors
<1>1. FsInv => OwnDescriptors
  BY DEF FsInv, Ownership, Own, UsesFd, UsesRand, OwnDescriptors, HoldsFd, HoldsZero, Threads
<1> QED
  BY <1>1, FsInvariant, PTL

(***************************************************************************)
(* As long as no reader closes twice, a thread that ends without being     *)
(* cancelled has closed all it opened.                                     *)
(***************************************************************************)
THEOREM FsSlammerCloses == Spec => []ErrorsCloseAll
<1>1. FsInv => ErrorsCloseAll
  <2> SUFFICES ASSUME FsInv, ~twice, NEW n \in Numbers, fdt[n] # None, pc[fdt[n]] = "gone"
               PROVE  fdt[n] \in pending
    BY DEF ErrorsCloseAll
  <2>1. fdt[n] \in Threads
    BY DEF FsInv, TypeOK
  <2> QED
    BY <2>1 DEF FsInv, Ownership, NoOthers, UsesFd, UsesRand
<1> QED
  BY <1>1, FsInvariant, PTL
-----------------------------------------------------------------------------
(***************************************************************************)
(* total_bytes_written.  LostUpdatesOnlyLower compares it with a fold over *)
(* the slammers, so first what folding does.                               *)
(***************************************************************************)
(***************************************************************************)
(* Every set of numbers that is not empty has a least one: the form in     *)
(* which the proofs below use induction.                                   *)
(***************************************************************************)
LEMMA LeastNumber ==
    ASSUME NEW T, T \subseteq Nat, T # {}
    PROVE  \E n \in T : \A m \in T : n <= m
<1> DEFINE R == OpToRel(<, Nat)
<1>1. IsWellFoundedOn(R, Nat)
  BY NatLessThanWellFounded
<1>2. \A m, n \in Nat : m < n => <<m, n>> \in R
  BY DEF OpToRel
<1> HIDE DEF R
<1>3. PICK n \in T : \A m \in T : ~(<<m, n>> \in R)
  BY <1>1, WFMin
<1>4. ASSUME NEW m \in T PROVE n <= m
  <2>1. m \in Nat /\ n \in Nat
    OBVIOUS
  <2>2. ~(m < n)
    BY <1>2, <1>3, <2>1
  <2> QED
    BY <2>1, <2>2
<1> QED
  BY <1>4

(***************************************************************************)
(* MapThenSumSet adds the elements of a set one by one, in the order of    *)
(* CHOOSE. it is its table of partial sums of the function g.              *)
(***************************************************************************)
Pick(s) == CHOOSE x \in s : TRUE

IsSums(it, g) ==
    /\ it \in [SUBSET Slammers -> Int]
    /\ it[{}] = 0
    /\ \A s \in SUBSET Slammers : s # {} => it[s] = g[Pick(s)] + it[s \ {Pick(s)}]

(***************************************************************************)
(* What is left when one element has been taken out of a set of slammers.  *)
(***************************************************************************)
LEMMA PickRemoves ==
    ASSUME NEW s \in SUBSET Slammers, s # {}
    PROVE  /\ Pick(s) \in s
           /\ s \ {Pick(s)} \in SUBSET Slammers
           /\ Cardinality(s) \in Nat /\ Cardinality(s) # 0
           /\ Cardinality(s \ {Pick(s)}) = Cardinality(s) - 1
<1>1. Pick(s) \in s
  BY DEF Pick
<1>2. IsFiniteSet(Slammers)
  BY ThreadsAssumption, FS_Subset DEF Threads
<1>3. IsFiniteSet(s)
  BY <1>2, FS_Subset
<1> QED
  BY <1>1, <1>3, FS_RemoveElement, FS_CardinalityType, FS_EmptySet

(***************************************************************************)
(* The table of partial sums exists: one that is right for sets of up to n *)
(* - 1 elements gives one for n.                                           *)
(***************************************************************************)
LEMMA SumsExist ==
    ASSUME NEW g \in [Slammers -> Int]
    PROVE  \E it : IsSums(it, g)
<1>0. \A s \in SUBSET Slammers : s # {} =>
        /\ Pick(s) \in Slammers
        /\ s \ {Pick(s)} \in SUBSET Slammers
        /\ Cardinality(s) \in Nat /\ Cardinality(s) # 0
        /\ Cardinality(s \ {Pick(s)}) = Cardinality(s) - 1
  BY PickRemoves
<1> DEFINE Upto(it, n) ==
        /\ it \in [SUBSET Slammers -> Int]
        /\ it[{}] = 0
        /\ \A s \in SUBSET Slammers :
              s # {} /\ Cardinality(s) <= n => it[s] = g[Pick(s)] + it[s \ {Pick(s)}]
           T == {n \in Nat : ~ \E it : Upto(it, n)}
<1>1. T = {}
  <2> SUFFICES ASSUME T # {} PROVE FALSE
    OBVIOUS
  <2>0. T \subseteq Nat
    OBVIOUS
  <2> HIDE DEF T
  <2>1. PICK n \in T : \A m \in T : n <= m
    BY <2>0, LeastNumber
  <2>2. n \in Nat /\ ~ \E it : Upto(it, n)
    BY DEF T
  <2>3. CASE n = 0
    <3>1. ASSUME NEW s \in SUBSET Slammers, s # {} PROVE ~(Cardinality(s) <= 0)
      <4>1. Cardinality(s) \in Nat /\ Cardinality(s) # 0
        BY <1>0, <3>1
      <4> QED
        BY <4>1
    <3>2. Upto([s \in SUBSET Slammers |-> 0], 0)
      BY <3>1
    <3> QED
      BY <2>2, <2>3, <3>2
  <2>4. CASE n # 0
    <3>1. n - 1 \in Nat /\ n - 1 \notin T
      BY <2>1, <2>2, <2>4
    <3> PICK it : Upto(it, n - 1)
      BY <3>1 DEF T
    <3> DEFINE jt == [s \in SUBSET Slammers |->
                        IF s = {} THEN 0 ELSE g[Pick(s)] + it[s \ {Pick(s)}]]
    <3>2. jt \in [SUBSET Slammers -> Int] /\ jt[{}] = 0
      BY <1>0
    <3>3. ASSUME NEW s \in SUBSET Slammers, s # {}, Cardinality(s) <= n
          PROVE  jt[s] = g[Pick(s)] + jt[s \ {Pick(s)}]
      <4> DEFINE r == s \ {Pick(s)}
      <4>1. r \in SUBSET Slammers /\ (r # {} => Cardinality(r) <= n - 1)
        BY <1>0, <2>2, <3>3
      <4>2. jt[s] = g[Pick(s)] + it[r]
        BY <3>3
      <4>3. jt[r] = it[r]
        <5> HIDE DEF r
        <5> QED
          BY <4>1
      <4> QED
        BY <4>2, <4>3
    <3>4. Upto(jt, n)
      BY <3>2, <3>3
    <3> QED
      BY <2>2, <3>4
  <2> QED
    BY <2>3, <2>4
<1>2. IsFiniteSet(Slammers)
  BY ThreadsAssumption, FS_Subset DEF Threads
<1> DEFINE N == Cardinality(Slammers)
<1>3. N \in Nat /\ \A s \in SUBSET Slammers : Cardinality(s) <= N
  BY <1>2, FS_Subset, FS_CardinalityType
<1>4. PICK it : Upto(it, N)
  BY <1>1, <1>3
<1>5. IsSums(it, g)
  BY <1>3, <1>4 DEF IsSums
<1> QED
  BY <1>5

(***************************************************************************)
(* A sum grows by at least as much as one of its terms does, as long as no *)
(* other term gets smaller.                                                *)
(***************************************************************************)
LEMMA SumsGrow ==
    ASSUME NEW g \in [Slammers -> Int], NEW h \in [Slammers -> Int],
           NEW t \in Slammers, NEW d \in Int,
           \A u \in Slammers : g[u] <= h[u],
           g[t] + d <= h[t],
           NEW it, IsSums(it, g), NEW jt, IsSums(jt, h)
    PROVE  it[Slammers] + d <= jt[Slammers]
<1> DEFINE Less(s) == it[s] + (IF t \in s THEN d ELSE 0) <= jt[s]
           T == {n \in Nat : \E s \in SUBSET Slammers : Cardinality(s) = n /\ ~Less(s)}
<1>1. T = {}
  <2> SUFFICES ASSUME T # {} PROVE FALSE
    OBVIOUS
  <2>0. T \subseteq Nat
    OBVIOUS
  <2> HIDE DEF T
  <2>1. PICK n \in T : \A m \in T : n <= m
    BY <2>0, LeastNumber
  <2>2. PICK s \in SUBSET Slammers : Cardinality(s) = n /\ ~Less(s)
    BY DEF T
  <2>3. s # {}
    <3>1. it[{}] = 0 /\ jt[{}] = 0
      BY DEF IsSums
    <3>2. Less({})
      BY <3>1
    <3> QED
      BY <2>2, <3>2
  <2> DEFINE p == Pick(s)
             r == s \ {p}
  <2>4. /\ p \in s /\ r \in SUBSET Slammers
        /\ n \in Nat /\ n # 0 /\ Cardinality(r) = n - 1
    BY <2>2, <2>3, PickRemoves
  <2>5. it[s] = g[p] + it[r] /\ jt[s] = h[p] + jt[r]
    BY <2>3 DEF IsSums
  <2>6. t \in s <=> (t \in r \/ t = p)
    BY <2>4
  <2>7. t = p => t \notin r
    OBVIOUS
  <2> HIDE DEF p, r
  <2>8. Less(r)
    <3>1. n - 1 \in Nat /\ n - 1 \notin T
      BY <2>1, <2>4
    <3> QED
      BY <2>4, <3>1 DEF T
  <2>9. /\ it[r] \in Int /\ jt[r] \in Int /\ g[p] \in Int /\ h[p] \in Int
        /\ g[p] <= h[p]
    BY <2>4 DEF IsSums
  <2> QED
    BY <2>2, <2>5, <2>6, <2>7, <2>8, <2>9
<1>2. Cardinality(Slammers) \in Nat
  BY ThreadsAssumption, FS_Subset, FS_CardinalityType DEF Threads
<1>3. Less(Slammers)
  BY <1>1, <1>2
<1> QED
  BY <1>3

(***************************************************************************)
(* Sums are in the order of their terms, also when there are none.         *)
(***************************************************************************)
LEMMA SumsOrdered ==
    ASSUME NEW g \in [Slammers -> Int], NEW h \in [Slammers -> Int],
           \A u \in Slammers : g[u] <= h[u],
           NEW it, IsSums(it, g), NEW jt, IsSums(jt, h)
    PROVE  it[Slammers] <= jt[Slammers]
<1>1. CASE Slammers = {}
  BY <1>1 DEF IsSums
<1>2. CASE Slammers # {}
  <2>1. PICK t \in Slammers : TRUE
    BY <1>2
  <2>2. g[t] \in Int /\ g[t] + 0 <= h[t]
    OBVIOUS
  <2>3. it[Slammers] + 0 <= jt[Slammers]
    BY <2>2, SumsGrow
  <2> QED
    BY <2>3 DEF IsSums
<1> QED
  BY <1>1, <1>2

(***************************************************************************)
(* The sum of LostUpdatesOnlyLower is the last entry of such a table.      *)
(***************************************************************************)
AddedFcn == [t \in Slammers |-> Added(t)]

\* The fold picks one table; all tables of the same terms are equal.
LEMMA SumOfAdded ==
    ASSUME AddedFcn \in [Slammers -> Int]
    PROVE  \E it : IsSums(it, AddedFcn) /\ MapThenSumSet(Added, Slammers) = it[Slammers]
<1> DEFINE F(it) == [s \in SUBSET Slammers |->
                IF s = {} THEN 0
                ELSE LET x == CHOOSE x \in s : TRUE IN Added(x) + it[s \ {x}]]
           S == CHOOSE it : it = F(it)
<1>1. PICK it : IsSums(it, AddedFcn)
  BY SumsExist
<1>2. it = F(it)
  <2>1. ASSUME NEW s \in SUBSET Slammers PROVE it[s] = F(it)[s]
    BY <1>1, PickRemoves DEF IsSums, AddedFcn, Pick
  <2> QED
    BY <1>1, <2>1 DEF IsSums
<1>3. S = F(S)
  BY <1>2, Zenon
<1>4. MapThenSumSet(Added, Slammers) = S[Slammers]
  BY Zenon DEF MapThenSumSet, MapThenFoldSet
<1> DEFINE T == {n \in Nat : \E s \in SUBSET Slammers : Cardinality(s) = n /\ S[s] # it[s]}
<1>5. \A s \in SUBSET Slammers : s # {} =>
        S[s] = Added(Pick(s)) + S[s \ {Pick(s)}] /\ it[s] = Added(Pick(s)) + it[s \ {Pick(s)}]
  <2> HIDE DEF S
  <2>1. \A s \in SUBSET Slammers : S[s] = F(S)[s] /\ it[s] = F(it)[s]
    BY <1>2, <1>3
  <2> QED
    BY <2>1 DEF Pick
<1>6. S[{}] = 0 /\ it[{}] = 0
  <2> HIDE DEF S
  <2> QED
    BY <1>1, <1>3 DEF IsSums
<1> HIDE DEF S, F
<1>7. T = {}
  <2> SUFFICES ASSUME T # {} PROVE FALSE
    OBVIOUS
  <2>0. T \subseteq Nat
    OBVIOUS
  <2> HIDE DEF T
  <2>1. PICK n \in T : \A m \in T : n <= m
    BY <2>0, LeastNumber
  <2>2. PICK s \in SUBSET Slammers : Cardinality(s) = n /\ S[s] # it[s]
    BY DEF T
  <2>3. s # {}
    BY <1>6, <2>2
  <2>4. /\ s \ {Pick(s)} \in SUBSET Slammers
        /\ n \in Nat /\ n # 0 /\ Cardinality(s \ {Pick(s)}) = n - 1
    BY <2>2, <2>3, PickRemoves
  <2>5. n - 1 \in Nat /\ n - 1 \notin T
    BY <2>1, <2>4
  <2>6. S[s \ {Pick(s)}] = it[s \ {Pick(s)}]
    BY <2>4, <2>5 DEF T
  <2> QED
    BY <1>5, <2>2, <2>3, <2>6
<1>8. Cardinality(Slammers) \in Nat
  BY ThreadsAssumption, FS_Subset, FS_CardinalityType DEF Threads
<1>9. S[Slammers] = it[Slammers]
  BY <1>7, <1>8
<1> QED
  BY <1>1, <1>4, <1>9

(***************************************************************************)
(* One more page of a round adds all pages of that round so far.           *)
(***************************************************************************)
LEMMA TriangleNext ==
    ASSUME NEW k \in Nat
    PROVE  Triangle(k) \in Nat /\ Triangle(k + 1) = Triangle(k) + k + 1
<1> DEFINE x == k * (k + 1)
<1>1. x \in Nat
  OBVIOUS
<1>2. (k + 1) * (k + 2) = x + 2 * (k + 1)
  OBVIOUS
<1> HIDE DEF x
<1>3. (x + 2 * (k + 1)) \div 2 = x \div 2 + (k + 1)
  BY <1>1
<1>4. x \div 2 \in Nat
  BY <1>1
<1>5. Triangle(k) = x \div 2
  BY DEF Triangle, x
<1>6. Triangle(k + 1) = (x + 2 * (k + 1)) \div 2
  <2>1. (k + 1) + 1 = k + 2
    OBVIOUS
  <2> QED
    BY <1>2, <2>1 DEF Triangle
<1> QED
  BY <1>3, <1>4, <1>5, <1>6
(***************************************************************************)
(* A round that begins takes over what the last one added.                 *)
(***************************************************************************)
LEMMA OneMore == \A a, b \in Int : (a - 1) * b + b = a * b
  OBVIOUS
(***************************************************************************)
(* A round without a page has added nothing.                               *)
(***************************************************************************)
LEMMA TriangleZero == Triangle(0) = 0
  BY DEF Triangle

-----------------------------------------------------------------------------
(***************************************************************************)
(* What a slammer may have stored into the total so far: a page it is      *)
(* about to add is not yet part of it.                                     *)
(***************************************************************************)
Counted(t) == Added(t) - (IF pc[t] \in {"load", "store"} THEN wrote[t] ELSE 0)

CountedFcn == [t \in Slammers |-> Counted(t)]

SumOf(g) == (CHOOSE it : IsSums(it, g))[Slammers]

(***************************************************************************)
(* pages and bytes_wrote of a slammer agree, and a round that is over has  *)
(* written all its pages.                                                  *)
(***************************************************************************)
PagesAgree(t) ==
    /\ pages[t] <= MaxPages
    /\ round[t] > 0 => wrote[t] = MaxPages - pages[t]
    /\ pc[t] = "new" => round[t] = 0
    /\ pc[t] \notin {"new", "open", "gone"} => round[t] > 0
    /\ pc[t] = "open" => round[t] = 0 \/ pages[t] = 0
    /\ pc[t] \in {"closezero", "reopen", "drain"} => pages[t] = 0

PageInv == \A t \in Slammers : PagesAgree(t)

(***************************************************************************)
(* The total, and the total as any slammer has loaded it, is at most what  *)
(* all have added: an update lost in between only lowers it.               *)
(***************************************************************************)
TotalInv ==
    /\ total <= SumOf(CountedFcn)
    /\ \A t \in Slammers : pc[t] = "store" => reg[t] <= SumOf(CountedFcn)

(***************************************************************************)
(* Every step keeps pages, bytes_wrote and places in agreement.            *)
(***************************************************************************)
LEMMA PageStep == TypeOK /\ PageInv /\ [Next]_vars => PageInv'
<1> SUFFICES ASSUME TypeOK, PageInv, [Next]_vars, NEW u \in Slammers PROVE PagesAgree(u)'
  BY DEF PageInv
<1>1. PagesAgree(u)
  BY DEF PageInv
<1>2. /\ pages \in [Slammers -> Nat] /\ wrote \in [Slammers -> Nat]
      /\ round \in [Slammers -> Nat] /\ pc \in [Threads -> SlamPlaces \cup RawPlaces]
      /\ u \in Threads /\ MaxPages \in Nat
  BY BoundsAssumption DEF TypeOK, Threads
<1> USE DEF PagesAgree, GoTo, At, dataVars
<1>3. CASE UNCHANGED vars
  BY <1>1, <1>3 DEF vars
<1>4. ASSUME NEW t \in Slammers, SlamOpen(t) PROVE PagesAgree(u)'
  BY <1>1, <1>2, <1>4 DEF SlamOpen, SlamGone, ResetWrote, Threads
<1>5. ASSUME NEW t \in Slammers, SlamOpenZero(t) PROVE PagesAgree(u)'
  BY <1>1, <1>2, <1>5 DEF SlamOpenZero, ZeroFails, SlamGone, Threads
<1>6. ASSUME NEW t \in Slammers, SlamPage(t) PROVE PagesAgree(u)'
  BY <1>1, <1>2, <1>6 DEF SlamPage, SlamGone, Threads
<1>7. ASSUME NEW t \in Slammers, SlamLoad(t) \/ SlamStore(t) PROVE PagesAgree(u)'
  BY <1>1, <1>2, <1>7 DEF SlamLoad, SlamStore, Threads
<1>8. ASSUME NEW t \in Slammers,
             SlamSync(t) \/ SlamCloseZero(t) \/ SlamReopen(t) \/ SlamDrain(t)
      PROVE  PagesAgree(u)'
  BY <1>1, <1>2, <1>8 DEF SlamSync, SlamCloseZero, SlamReopen, SlamDrain, Threads
<1>9. ASSUME NEW t \in Slammers, SlamCancelled(t) PROVE PagesAgree(u)'
  BY <1>1, <1>2, <1>9 DEF SlamCancelled, SlamGone, Threads
<1>10. ASSUME NEW t \in Readers, RawStep(t) \/ RawRead(t) \/ RawCancelled(t) PROVE PagesAgree(u)'
  <2>1. u # t
    BY ThreadsAssumption
  <2> QED
    BY <1>1, <1>2, <1>10, <2>1
       DEF RawStep, RawOpen, RawClose, RawCleanup, RawRead, RawCancelled, PopAndExit, Threads
<1>11. ASSUME NEW t \in Threads, Create(t) \/ CancelThread(t) PROVE PagesAgree(u)'
  BY <1>1, <1>2, <1>11 DEF Create, CancelThread
<1>12. ASSUME InstallHandlers \/ SleepEnds \/ PauseEnds \/ MainExit \/ EarlySignal
       PROVE  PagesAgree(u)'
  BY <1>1, <1>12 DEF InstallHandlers, SleepEnds, PauseEnds, MainExit, EarlySignal
<1> QED
  BY <1>3, <1>4, <1>5, <1>6, <1>7, <1>8, <1>9, <1>10, <1>11, <1>12
     DEF Next, Main, SlamStep, SlamSpin, Done
(***************************************************************************)
(* What a slammer has added is a number.                                   *)
(***************************************************************************)
LEMMA AddedInt ==
    ASSUME TypeOK, PageInv
    PROVE  /\ \A t \in Slammers : Added(t) \in Int /\ Counted(t) \in Int
           /\ AddedFcn \in [Slammers -> Int] /\ CountedFcn \in [Slammers -> Int]
<1>1. ASSUME NEW t \in Slammers PROVE Added(t) \in Int /\ Counted(t) \in Int
  <2>1. /\ pages[t] \in Nat /\ wrote[t] \in Nat /\ round[t] \in Nat
        /\ MaxPages \in Nat /\ pages[t] <= MaxPages
    BY BoundsAssumption DEF TypeOK, PageInv, PagesAgree
  <2>2. Triangle(MaxPages) \in Nat /\ Triangle(MaxPages - pages[t]) \in Nat
    BY <2>1, TriangleNext
  <2> QED
    BY <2>1, <2>2 DEF Added, Counted
<1> QED
  BY <1>1 DEF AddedFcn, CountedFcn

(***************************************************************************)
(* What a slammer has stored changes only with its own store, and then by  *)
(* bytes_wrote: a new page is in Added and not yet stored, and a new round *)
(* begins with what the one before it ended with.                          *)
(***************************************************************************)
LEMMA CountedStep ==
    ASSUME TypeOK, PageInv, [Next]_vars, NEW u \in Slammers
    PROVE  Counted(u)' = IF SlamStore(u) THEN Counted(u) + wrote[u] ELSE Counted(u)
<1>1. PagesAgree(u)
  BY DEF PageInv
<1>2. /\ pages \in [Slammers -> Nat] /\ wrote \in [Slammers -> Nat]
      /\ round \in [Slammers -> Nat] /\ pc \in [Threads -> SlamPlaces \cup RawPlaces]
      /\ u \in Threads /\ MaxPages \in Nat
  BY BoundsAssumption DEF TypeOK, Threads
<1>3. /\ Triangle(MaxPages) \in Nat /\ Triangle(MaxPages - pages[u]) \in Nat
      /\ Added(u) \in Int /\ Counted(u) \in Int
  BY <1>1, <1>2, TriangleNext, AddedInt DEF PagesAgree
<1>4. SlamOpen(u) => Counted(u)' = Counted(u)
  <2> SUFFICES ASSUME SlamOpen(u) PROVE Counted(u)' = Counted(u)
    OBVIOUS
  <2>1. /\ pc[u] = "open" /\ pc'[u] \in {"openzero", "gone"}
        /\ round'[u] = round[u] + 1 /\ pages'[u] = MaxPages
    BY <1>2 DEF SlamOpen, At, GoTo, SlamGone
  <2>2. Added(u)' = round[u] * Triangle(MaxPages)
    <3>1. Added(u)' = (round[u] + 1 - 1) * Triangle(MaxPages) + Triangle(MaxPages - MaxPages)
      BY <1>2, <2>1 DEF Added, Triangle
    <3>2. MaxPages - MaxPages = 0 /\ round[u] + 1 - 1 = round[u] /\ round[u] \in Nat
      BY <1>2
    <3> QED
      BY <1>3, <3>1, <3>2, TriangleZero
  <2>3. Added(u) = round[u] * Triangle(MaxPages)
    <3>1. CASE round[u] = 0
      BY <1>3, <3>1 DEF Added
    <3>2. CASE round[u] # 0
      <4>1. pages[u] = 0 /\ MaxPages - 0 = MaxPages
        BY <1>1, <1>2, <2>1, <3>2 DEF PagesAgree
      <4>2. Added(u) = (round[u] - 1) * Triangle(MaxPages) + Triangle(MaxPages)
        BY <3>2, <4>1 DEF Added
      <4> QED
        BY <1>2, <1>3, <4>2, OneMore
    <3> QED
      BY <3>1, <3>2
  <2> QED
    BY <1>3, <2>1, <2>2, <2>3 DEF Counted
<1>5. SlamPage(u) => Counted(u)' = Counted(u)
  <2> SUFFICES ASSUME SlamPage(u) PROVE Counted(u)' = Counted(u)
    OBVIOUS
  <2>1. pc[u] = "page" /\ round[u] > 0 /\ UNCHANGED round /\ pages[u] > 0
    BY <1>1 DEF SlamPage, At, PagesAgree
  <2>2. CASE UNCHANGED pages
    <3>1. pc'[u] = "gone"
      BY <1>2, <2>1, <2>2 DEF SlamPage, SlamGone, GoTo
    <3>2. Added(u)' = Added(u)
      BY <2>1, <2>2 DEF Added, Triangle
    <3> QED
      BY <2>1, <3>1, <3>2 DEF Counted
  <2>3. CASE ~UNCHANGED pages
    <3>1. pc'[u] = "load" /\ pages'[u] = pages[u] - 1 /\ wrote'[u] = wrote[u] + 1
      BY <1>2, <2>1, <2>3 DEF SlamPage, GoTo
    <3> DEFINE k == MaxPages - pages[u]
    <3>2. k \in Nat /\ MaxPages - (pages[u] - 1) = k + 1 /\ wrote[u] = k
      BY <1>1, <1>2, <2>1 DEF PagesAgree
    <3>3. Added(u) = (round[u] - 1) * Triangle(MaxPages) + Triangle(k)
      BY <1>2, <2>1 DEF Added
    <3>4. Added(u)' = (round[u] - 1) * Triangle(MaxPages) + Triangle(k + 1)
      <4>1. round'[u] # 0
        BY <1>2, <2>1
      <4>2. Added(u)' = (round'[u] - 1) * Triangle(MaxPages) + Triangle(MaxPages - pages'[u])
        BY <4>1 DEF Added, Triangle
      <4> QED
        BY <2>1, <3>1, <3>2, <4>2
    <3>5. Triangle(k + 1) = Triangle(k) + k + 1 /\ Triangle(k) \in Nat
      BY <3>2, TriangleNext
    <3>6. (round[u] - 1) * Triangle(MaxPages) \in Int
      BY <1>2, <1>3
    <3>7. Counted(u)' = Added(u)' - (wrote[u] + 1) /\ Counted(u) = Added(u)
      BY <1>3, <2>1, <3>1 DEF Counted
    <3> HIDE DEF k
    <3> QED
      BY <3>2, <3>3, <3>4, <3>5, <3>6, <3>7
  <2> QED
    BY <2>2, <2>3
<1>6. ASSUME UNCHANGED <<pages, wrote, round>>,
             pc[u] \in {"load", "store"} <=> pc'[u] \in {"load", "store"}
      PROVE  Counted(u)' = Counted(u)
  BY <1>6 DEF Counted, Added, Triangle
<1>7. SlamStore(u) => Counted(u)' = Counted(u) + wrote[u]
  <2> SUFFICES ASSUME SlamStore(u) PROVE Counted(u)' = Counted(u) + wrote[u]
    OBVIOUS
  <2>1. pc[u] = "store" /\ pc'[u] = "page" /\ UNCHANGED <<pages, wrote, round>>
    BY <1>2 DEF SlamStore, GoTo
  <2>2. Added(u)' = Added(u)
    BY <2>1 DEF Added, Triangle
  <2> QED
    BY <1>2, <1>3, <2>1, <2>2 DEF Counted
<1>8. ASSUME NEW t \in Slammers, t # u, SlamStep(t) PROVE Counted(u)' = Counted(u)
  <2>1. /\ pages'[u] = pages[u] /\ wrote'[u] = wrote[u] /\ round'[u] = round[u]
        /\ pc'[u] = pc[u]
    BY <1>2, <1>8
       DEF SlamStep, SlamOpen, SlamOpenZero, SlamPage, SlamLoad, SlamStore, SlamSync,
           SlamCloseZero, SlamReopen, SlamDrain, ZeroFails, SlamGone, ResetWrote, GoTo, dataVars
  <2> QED
    BY <2>1 DEF Counted, Added, Triangle
<1>9. ASSUME SlamOpenZero(u) \/ SlamLoad(u) \/ SlamSync(u) \/ SlamCloseZero(u)
               \/ SlamReopen(u) \/ SlamDrain(u)
      PROVE  Counted(u)' = Counted(u)
  <2>1. UNCHANGED <<pages, wrote, round>>
    BY <1>9 DEF SlamOpenZero, SlamLoad, SlamSync, SlamCloseZero, SlamReopen, SlamDrain, dataVars
  <2>2. pc[u] \in {"load", "store"} <=> pc'[u] \in {"load", "store"}
    BY <1>2, <1>9 DEF SlamOpenZero, SlamLoad, SlamSync, SlamCloseZero, SlamReopen, SlamDrain,
                      ZeroFails, SlamGone, GoTo, At
  <2> QED
    BY <1>6, <2>1, <2>2
<1>10. ASSUME NEW t \in Slammers, SlamCancelled(t) PROVE Counted(u)' = Counted(u)
  <2>1. UNCHANGED <<pages, wrote, round>>
    BY <1>10 DEF SlamCancelled, dataVars
  <2>2. pc[u] \in {"load", "store"} <=> pc'[u] \in {"load", "store"}
    BY <1>2, <1>10 DEF SlamCancelled, CancelPoint, SlamGone, GoTo
  <2> QED
    BY <1>6, <2>1, <2>2
<1>11. ASSUME NEW t \in Readers, RawStep(t) \/ RawRead(t) \/ RawCancelled(t)
       PROVE  Counted(u)' = Counted(u)
  <2>1. UNCHANGED <<pages, wrote, round>>
    BY <1>11 DEF RawStep, RawOpen, RawClose, RawCleanup, RawRead, RawCancelled, dataVars
  <2>2. t # u
    BY ThreadsAssumption
  <2>3. pc'[u] = pc[u]
    BY <1>2, <1>11, <2>2
       DEF RawStep, RawOpen, RawClose, RawCleanup, RawRead, RawCancelled, PopAndExit, GoTo
  <2> QED
    BY <1>6, <2>1, <2>3
<1>12. ASSUME NEW t \in Threads, Create(t) \/ CancelThread(t) PROVE Counted(u)' = Counted(u)
  <2>1. UNCHANGED <<pages, wrote, round>>
    BY <1>12 DEF Create, CancelThread, dataVars
  <2>2. pc[u] \in {"load", "store"} <=> pc'[u] \in {"load", "store"}
    BY <1>2, <1>12 DEF Create, CancelThread, GoTo
  <2> QED
    BY <1>6, <2>1, <2>2
<1>13. ASSUME InstallHandlers \/ SleepEnds \/ PauseEnds \/ MainExit \/ EarlySignal \/ UNCHANGED vars
       PROVE  Counted(u)' = Counted(u)
  <2>1. UNCHANGED <<pages, wrote, round, pc>>
    BY <1>13 DEF InstallHandlers, SleepEnds, PauseEnds, MainExit, EarlySignal, dataVars, vars
  <2> QED
    BY <1>6, <2>1
<1>14. SlamStore(u) \/ Counted(u)' = Counted(u)
  BY <1>4, <1>5, <1>8, <1>9, <1>10, <1>11, <1>12, <1>13
     DEF Next, Main, SlamStep, SlamSpin, Done
<1> QED
  BY <1>7, <1>14

(***************************************************************************)
(* Every step keeps the total, and what is loaded of it, below the sum.    *)
(***************************************************************************)
LEMMA TotalStep ==
    ASSUME TypeOK, PageInv, TotalInv, [Next]_vars
    PROVE  TotalInv'
<1>1. TypeOK' /\ PageInv'
  BY FsTyping, PageStep
<1> DEFINE g == CountedFcn
           h == CountedFcn'
<1>2. g \in [Slammers -> Int] /\ \A u \in Slammers : g[u] = Counted(u)
  BY AddedInt DEF CountedFcn
<1>3. h \in [Slammers -> Int] /\ \A u \in Slammers : h[u] = Counted(u)'
  <2>1. \A u \in Slammers : Counted(u)' \in Int
    BY <1>2, CountedStep DEF TypeOK
  <2> QED
    BY <2>1 DEF CountedFcn
<1> DEFINE it == CHOOSE i : IsSums(i, g)
           jt == CHOOSE i : IsSums(i, h)
<1>4. IsSums(it, g) /\ IsSums(jt, h)
  BY <1>2, <1>3, SumsExist
<1>5. SumOf(CountedFcn) = it[Slammers] /\ SumOf(CountedFcn)' = jt[Slammers]
  BY DEF SumOf
<1>6. it[Slammers] \in Int /\ jt[Slammers] \in Int
  BY <1>4 DEF IsSums
<1>7. \A u \in Slammers : g[u] <= h[u]
  BY <1>2, <1>3, CountedStep DEF TypeOK
<1> HIDE DEF g, h, it, jt
<1>8. ASSUME NEW t \in Slammers, NEW d \in Int, g[t] + d <= h[t]
      PROVE  it[Slammers] + d <= jt[Slammers]
  BY <1>2, <1>3, <1>4, <1>7, <1>8, SumsGrow
<1>9. it[Slammers] <= jt[Slammers]
  BY <1>2, <1>3, <1>4, <1>7, SumsOrdered
<1>10. /\ total \in Nat /\ total <= it[Slammers]
       /\ \A u \in Slammers : reg[u] \in Nat /\ (pc[u] = "store" => reg[u] <= it[Slammers])
  BY <1>5 DEF TotalInv, TypeOK
<1>11. /\ pc \in [Threads -> SlamPlaces \cup RawPlaces] /\ reg \in [Slammers -> Nat]
       /\ Slammers \subseteq Threads
  BY DEF TypeOK, Threads
<1>12. ASSUME total' <= jt[Slammers],
              \A u \in Slammers : pc'[u] = "store" => reg'[u] <= jt[Slammers]
       PROVE  TotalInv'
  BY <1>5, <1>12 DEF TotalInv
<1>13. ASSUME NEW t \in Slammers, SlamStore(t) PROVE TotalInv'
  <2>1. pc[t] = "store" /\ total' = reg[t] + wrote[t] /\ wrote[t] \in Nat
    BY <1>13 DEF SlamStore, TypeOK
  <2>2. g[t] + wrote[t] <= h[t]
    <3>1. Counted(t)' = Counted(t) + wrote[t]
      BY <1>13, CountedStep
    <3>2. h[t] = g[t] + wrote[t] /\ h[t] \in Int
      BY <1>2, <1>3, <3>1
    <3> QED
      BY <3>2
  <2>3. it[Slammers] + wrote[t] <= jt[Slammers]
    BY <1>8, <2>1, <2>2
  <2>4. total' <= jt[Slammers]
    BY <1>6, <1>10, <2>1, <2>3
  <2>5. ASSUME NEW u \in Slammers, pc'[u] = "store" PROVE reg'[u] <= jt[Slammers]
    <3>1. u # t /\ pc[u] = "store" /\ reg'[u] = reg[u]
      BY <1>11, <1>13, <2>5 DEF SlamStore, GoTo
    <3> QED
      BY <1>6, <1>9, <1>10, <3>1
  <2> QED
    BY <1>12, <2>4, <2>5
<1>14. ASSUME NEW t \in Slammers, SlamLoad(t) PROVE TotalInv'
  <2>1. UNCHANGED total
    BY <1>14 DEF SlamLoad
  <2>2. ASSUME NEW u \in Slammers, pc'[u] = "store" PROVE reg'[u] <= jt[Slammers]
    <3>1. reg'[u] = total \/ (pc[u] = "store" /\ reg'[u] = reg[u])
      BY <1>11, <1>14, <2>2 DEF SlamLoad, GoTo
    <3> QED
      BY <1>6, <1>9, <1>10, <3>1
  <2> QED
    BY <1>6, <1>9, <1>10, <1>12, <2>1, <2>2
<1>15. ASSUME UNCHANGED <<total, reg>>,
              \A u \in Slammers : pc'[u] = "store" => pc[u] = "store"
       PROVE  TotalInv'
  BY <1>6, <1>9, <1>10, <1>12, <1>15
<1>16. ASSUME NEW t \in Slammers,
              \/ SlamOpen(t) \/ SlamOpenZero(t) \/ SlamPage(t) \/ SlamSync(t)
              \/ SlamCloseZero(t) \/ SlamReopen(t) \/ SlamDrain(t) \/ SlamCancelled(t)
       PROVE  TotalInv'
  <2>1. UNCHANGED <<total, reg>>
    BY <1>16 DEF SlamOpen, SlamOpenZero, SlamPage, SlamSync, SlamCloseZero, SlamReopen,
                 SlamDrain, SlamCancelled, dataVars
  <2>2. \E q \in {"openzero", "page", "load", "closezero", "reopen", "drain", "open", "gone"} :
          GoTo(t, q)
    BY <1>16 DEF SlamOpen, SlamOpenZero, SlamPage, SlamSync, SlamCloseZero, SlamReopen,
                 SlamDrain, SlamCancelled, SlamGone, ZeroFails
  <2>3. \A u \in Slammers : pc'[u] = "store" => pc[u] = "store"
    BY <1>11, <2>2 DEF GoTo
  <2> QED
    BY <1>15, <2>1, <2>3
<1>17. ASSUME NEW t \in Readers, RawStep(t) \/ RawRead(t) \/ RawCancelled(t) PROVE TotalInv'
  <2>1. UNCHANGED <<total, reg>>
    BY <1>17 DEF RawStep, RawOpen, RawClose, RawCleanup, RawRead, RawCancelled, dataVars
  <2>2. \A u \in Slammers : u # t
    BY ThreadsAssumption
  <2>3. \A u \in Slammers : pc'[u] = pc[u]
    BY <1>11, <1>17, <2>2
       DEF RawStep, RawOpen, RawClose, RawCleanup, RawRead, RawCancelled, PopAndExit, GoTo
  <2> QED
    BY <1>15, <2>1, <2>3
<1>18. ASSUME NEW t \in Threads, Create(t) \/ CancelThread(t) PROVE TotalInv'
  <2>1. UNCHANGED <<total, reg>>
    BY <1>18 DEF Create, CancelThread, dataVars
  <2>2. \A u \in Slammers : pc'[u] = "store" => pc[u] = "store"
    BY <1>11, <1>18 DEF Create, CancelThread, GoTo
  <2> QED
    BY <1>15, <2>1, <2>2
<1>19. ASSUME InstallHandlers \/ SleepEnds \/ PauseEnds \/ MainExit \/ EarlySignal \/ UNCHANGED vars
       PROVE  TotalInv'
  <2>1. UNCHANGED <<total, reg, pc>>
    BY <1>19 DEF InstallHandlers, SleepEnds, PauseEnds, MainExit, EarlySignal, dataVars, vars
  <2> QED
    BY <1>15, <2>1
<1> QED
  BY <1>13, <1>14, <1>16, <1>17, <1>18, <1>19 DEF Next, Main, SlamStep, SlamSpin, Done

(***************************************************************************)
(* total_bytes_written, updated by all slammers without a lock, never      *)
(* exceeds what they have added, for any threads, pages and rounds.        *)
(***************************************************************************)
THEOREM FsSlammerTotal == Spec => []LostUpdatesOnlyLower
<1>1. Init => PageInv /\ TotalInv
  <2> SUFFICES ASSUME Init PROVE PageInv /\ TotalInv
    OBVIOUS
  <2>1. PageInv
    BY BoundsAssumption DEF Init, PageInv, PagesAgree, Threads
  <2>2. ASSUME NEW t \in Slammers PROVE Counted(t) = 0
    BY <2>2 DEF Init, Counted, Added, Threads
  <2>3. CountedFcn = [t \in Slammers |-> 0]
    BY <2>2 DEF CountedFcn
  <2>4. SumOf(CountedFcn) \in Int /\ 0 <= SumOf(CountedFcn)
    <3> DEFINE zero == [s \in SUBSET Slammers |-> 0]
               it == CHOOSE i : IsSums(i, CountedFcn)
    <3>1. IsSums(it, CountedFcn)
      BY <2>3, SumsExist
    <3>2. IsSums(zero, CountedFcn)
      <4>1. ASSUME NEW s \in SUBSET Slammers, s # {}
            PROVE  zero[s] = CountedFcn[Pick(s)] + zero[s \ {Pick(s)}]
        <5>1. Pick(s) \in Slammers /\ s \ {Pick(s)} \in SUBSET Slammers
          BY <4>1, PickRemoves
        <5>2. CountedFcn[Pick(s)] = 0
          BY <2>3, <5>1
        <5> QED
          BY <5>1, <5>2
      <4>2. zero \in [SUBSET Slammers -> Int] /\ zero[{}] = 0
        OBVIOUS
      <4> HIDE DEF zero
      <4> QED
        BY <4>1, <4>2 DEF IsSums
    <3>3. SumOf(CountedFcn) = it[Slammers]
      BY DEF SumOf
    <3>4. zero[Slammers] = 0 /\ \A u \in Slammers : CountedFcn[u] <= CountedFcn[u]
      BY <2>3
    <3>5. CountedFcn \in [Slammers -> Int]
      BY <2>3
    <3> HIDE DEF it, zero
    <3>6. zero[Slammers] <= it[Slammers]
      BY <3>1, <3>2, <3>4, <3>5, SumsOrdered
    <3> QED
      BY <3>1, <3>3, <3>4, <3>6 DEF IsSums
  <2> QED
    BY <2>1, <2>4 DEF Init, TotalInv, Threads
<1>2. FsInv /\ PageInv /\ TotalInv /\ [Next]_vars => (PageInv /\ TotalInv)'
  BY PageStep, TotalStep DEF FsInv
<1>3. FsInv /\ PageInv /\ TotalInv => LostUpdatesOnlyLower
  <2> SUFFICES ASSUME TypeOK, PageInv, TotalInv PROVE LostUpdatesOnlyLower
    BY DEF FsInv
  <2> DEFINE it == CHOOSE i : IsSums(i, CountedFcn)
  <2>1. IsSums(it, CountedFcn)
    BY AddedInt, SumsExist
  <2>2. SumOf(CountedFcn) = it[Slammers]
    BY DEF SumOf
  <2> HIDE DEF it
  <2>3. PICK jt : IsSums(jt, AddedFcn) /\ MapThenSumSet(Added, Slammers) = jt[Slammers]
    BY AddedInt, SumOfAdded
  <2>4. ASSUME NEW u \in Slammers PROVE CountedFcn[u] <= AddedFcn[u]
    BY AddedInt DEF CountedFcn, AddedFcn, Counted, TypeOK
  <2>5. it[Slammers] <= jt[Slammers]
    BY <2>1, <2>3, <2>4, AddedInt, SumsOrdered
  <2> QED
    BY <2>1, <2>2, <2>3, <2>5 DEF TotalInv, LostUpdatesOnlyLower, IsSums, TypeOK
<1> QED
  BY <1>1, <1>2, <1>3, FsInvariant, PTL DEF Spec
=============================================================================
