---------------------------- MODULE CpuHogdProofs ----------------------------
(***************************************************************************)
(* Proofs about cpu_hogd and cpu_hogd_v0, for any commands, any number of  *)
(* writers, hoggers and descriptors.                                       *)
(***************************************************************************)
EXTENDS CpuHogd, WellFoundedInduction, TLAPS

(***************************************************************************)
(* The steps of the daemon do to the children what Reaper allows.          *)
(***************************************************************************)
ReaperStep ==
    \/ UNCHANGED reaperVars
    \/ \E k \in Kids : ForkChild(k) \/ ChildExits(k) \/ HandlerReap(k)
    \/ HandlerEnter \/ HandlerReturn
    \/ alive' = {} /\ zombies' = {} /\ chld' = FALSE /\ reaping' = FALSE

\* Every step of the program is one of these.
LEMMA StepsReap ==
  ASSUME [Next]_vars
  PROVE  ReaperStep
<1>1. CASE UNCHANGED vars
  BY <1>1 DEF vars, ReaperStep, reaperVars
<1>2. CASE Daemon
  <2>1. CASE HydraTurn
    BY <2>1 DEF HydraTurn, StartHogger, ForkFails, ReaperStep
  <2>2. CASE Create \/ OpenStart \/ OpenFails \/ OpenDone \/ Read
    BY <2>2 DEF Create, OpenStart, OpenFails, OpenDone, Read, At, ReaperStep
  <2>3. CASE Quit \/ Jam \/ JamArm \/ JamEnd \/ Hydra
    BY <2>3 DEF Quit, Jam, JamArm, JamEnd, Hydra, At, ReaperStep
  <2>4. CASE HydraDone \/ Unknown \/ Close \/ Unlink
    BY <2>4 DEF HydraDone, Unknown, Close, Unlink, At, ReaperStep
  <2> QED
    BY <1>2, <2>1, <2>2, <2>3, <2>4 DEF Daemon
<1>3. CASE Handler \/ (\E k \in Kids : Hogger(k))
  BY <1>3 DEF Handler, Hogger, ReaperStep
<1>4. CASE Writer \/ AlarmFires \/ ReadFails
  BY <1>4 DEF Writer, WriterOpen, WriterWrite, ClientWrite, WriterClose, AlarmFires,
     ReadFails, At, ReaperStep
<1>5. CASE Term
  BY <1>5 DEF Term, ReaperStep
<1> QED
  BY <1>1, <1>2, <1>3, <1>4, <1>5 DEF Next

(***************************************************************************)
(* A child is forked, runs, exits and is waited for, in this order; one    *)
(* signal for several exits is enough, because the handler does not return *)
(* while there is a zombie.                                                *)
(***************************************************************************)
LEMMA ReaperInvStep ==
  ASSUME ReaperTypeOK, NoForgottenZombie, ReaperStep
  PROVE  ReaperTypeOK' /\ NoForgottenZombie'
<1> USE DEF ReaperTypeOK, NoForgottenZombie
<1>1. CASE UNCHANGED reaperVars
  BY <1>1 DEF reaperVars
<1>2. ASSUME NEW k \in Kids, ForkChild(k) PROVE ReaperTypeOK' /\ NoForgottenZombie'
  BY <1>2 DEF ForkChild
<1>3. ASSUME NEW k \in Kids, ChildExits(k) PROVE ReaperTypeOK' /\ NoForgottenZombie'
  BY <1>3 DEF ChildExits
<1>4. ASSUME NEW k \in Kids, HandlerReap(k) PROVE ReaperTypeOK' /\ NoForgottenZombie'
  BY <1>4 DEF HandlerReap
<1>5. CASE HandlerEnter
  BY <1>5 DEF HandlerEnter
<1>6. CASE HandlerReturn
  BY <1>6 DEF HandlerReturn
<1>7. CASE alive' = {} /\ zombies' = {} /\ chld' = FALSE /\ reaping' = FALSE
  BY <1>7
<1> QED
  BY <1>1, <1>2, <1>3, <1>4, <1>5, <1>6, <1>7 DEF ReaperStep

(***************************************************************************)
(* No exit of a hogger is missed, however exits, SIGCHLD and the daemon's  *)
(* forks interleave (cpu_hogd.c, sig_chld_h).                              *)
(***************************************************************************)
THEOREM ZombiesReaped == Spec => [](ReaperTypeOK /\ NoForgottenZombie)
<1>1. Init => ReaperTypeOK /\ NoForgottenZombie
  BY DEF Init, ReaperInit, ReaperTypeOK, NoForgottenZombie
<1>2. ReaperTypeOK /\ NoForgottenZombie /\ [Next]_vars =>
        ReaperTypeOK' /\ NoForgottenZombie'
  BY StepsReap, ReaperInvStep
<1> QED
  BY <1>1, <1>2, PTL DEF Spec

-----------------------------------------------------------------------------
(***************************************************************************)
(* The alarm is set only after the flag is down, and the flag goes up only *)
(* when the alarm goes off.                                                *)
(***************************************************************************)
AlarmInv ==
    /\ alarm => dpc = "jam" /\ ~stop
    /\ dpc = "arm" => ~stop

\* Every step keeps the alarm within its jam.
LEMMA AlarmStep ==
  ASSUME AlarmInv, [Next]_vars
  PROVE  AlarmInv'
<1> USE DEF AlarmInv
<1>1. CASE UNCHANGED vars
  BY <1>1 DEF vars
<1>2. CASE Create \/ OpenStart \/ OpenFails \/ OpenDone \/ Read
  BY <1>2 DEF Create, OpenStart, OpenFails, OpenDone, Read, At
<1>3. CASE Quit \/ Hydra
  BY <1>3 DEF Quit, Hydra, At, Leave
<1>4. CASE Jam
  BY <1>4 DEF Jam, At
<1>5. CASE JamArm
  BY <1>5 DEF JamArm, At
<1>6. CASE JamEnd
  BY <1>6 DEF JamEnd, At
<1>7. CASE HydraTurn \/ HydraDone \/ Unknown \/ Close \/ Unlink \/ ReadFails
  BY <1>7 DEF HydraTurn, HydraDone, Unknown, Close, Unlink, ReadFails, At
<1>8. CASE AlarmFires
  BY <1>8 DEF AlarmFires
<1>9. CASE Term
  BY <1>9 DEF Term
<1>10. CASE Handler \/ Writer \/ (\E k \in Kids : Hogger(k))
  BY <1>10 DEF Handler, Writer, WriterOpen, WriterWrite, ClientWrite, WriterClose, Hogger,
     Outside
<1> QED
  BY <1>1, <1>2, <1>3, <1>4, <1>5, <1>6, <1>7, <1>8, <1>9, <1>10 DEF Next, Daemon

(***************************************************************************)
(* No jam is cut short by the alarm of an earlier one.                     *)
(***************************************************************************)
THEOREM AlarmsEndWithTheirJam == Spec => []AlarmInItsJam
<1>1. Init => AlarmInv
  BY DEF Init, AlarmInv
<1>2. AlarmInv => AlarmInItsJam
  BY DEF AlarmInv, AlarmInItsJam
<1> QED
  BY <1>1, <1>2, AlarmStep, PTL DEF Spec

-----------------------------------------------------------------------------
(***************************************************************************)
(* What the daemon holds of commands are ints, and the hydra loop keeps in *)
(* mask what is left of the mask asked for, and in its affinity the last   *)
(* bit that could be pinned.                                               *)
(***************************************************************************)
IsMessage(m) == m.args \in Seq(Int)

HoggersInv ==
    /\ asked \in Int /\ cpu \in 0..4
    /\ mask = asked \div 2^cpu
    /\ SitsFor(cpu - 1, home)
    /\ {p[1] : p \in started} = {c \in 0..(cpu - 1) : Bit(asked, c)}
    /\ \A p \in started : p[2] = NoHogger \/ SitsFor(p[1], p[2])

MaskInv ==
    /\ pipe \in Seq(Messages)
    /\ IsMessage(buf)
    /\ mask \in Int
    /\ dpc = "hydra" => HoggersInv

\* An emptied FIFO.
LEMMA EmptyPipe == \A S : <<>> \in Seq(S)
OBVIOUS

\* An empty read.
LEMMA NoArguments == IsMessage(Nothing)
<1>1. Nothing.args = <<>>
  BY DEF Nothing
<1> QED
  BY <1>1, EmptyPipe DEF IsMessage

\* Some element of a set of numbers is the first.
LEMMA FirstOf ==
  ASSUME NEW T, T \subseteq Nat, T # {}
  PROVE  \E i \in T : \A j \in T : i <= j
<1> DEFINE R == OpToRel(<, Nat)
<1>1. IsWellFoundedOn(R, Nat)
  BY NatLessThanWellFounded
<1>2. \A i, j \in Nat : i < j => <<i, j>> \in R
  BY DEF OpToRel
<1> HIDE DEF R
<1>3. PICK i \in T : \A j \in T : ~(<<j, i>> \in R)
  BY <1>1, WFMin
<1>4. \A j \in T : i <= j
  <2>1. \A j \in T : i \in Nat /\ j \in Nat /\ ~(j < i)
    BY <1>2, <1>3
  <2> QED
    BY <2>1
<1> QED
  BY <1>4

\* The numbers behind the first blank are numbers of the commands read.
LEMMA ReadsNumbers ==
  ASSUME MessagesAssumption, pipe \in Seq(Messages)
  PROVE  Numbers \in Seq(Int)
<1>1. \A i \in 1..Len(pipe) : /\ pipe[i].args \in Seq(Int)
                             /\ pipe[i].word = "number" => Len(pipe[i].args) = 2
  BY DEF MessagesAssumption
<1>2. \A i \in Blanks : BehindBlank(i) \in Seq(Int)
  <2> SUFFICES ASSUME NEW i \in Blanks PROVE BehindBlank(i) \in Seq(Int)
    OBVIOUS
  <2> DEFINE own == IF pipe[i].word = "number" THEN Tail(pipe[i].args) ELSE pipe[i].args
  <2>1. i \in 1..Len(pipe)
    BY DEF Blanks
  <2>2. own \in Seq(Int)
    <3>1. pipe[i].args \in Seq(Int) /\ (pipe[i].word = "number" => pipe[i].args # <<>>)
      <4>1. /\ pipe[i].args \in Seq(Int)
            /\ pipe[i].word = "number" => Len(pipe[i].args) = 2
        BY <1>1, <2>1
      <4>2. Len(<<>>) # 2
        OBVIOUS
      <4> QED
        BY <4>1, <4>2
    <3> QED
      BY <3>1
  <2>3. CASE i < Len(pipe) /\ pipe[i + 1].word = "number"
    <3>1. i + 1 \in 1..Len(pipe)
      BY <2>1, <2>3
    <3>2. pipe[i + 1].args \in Seq(Int)
      BY <1>1, <3>1
    <3>3. own \o pipe[i + 1].args \in Seq(Int)
      <4> HIDE DEF own
      <4> QED
        BY <2>2, <3>2
    <3> QED
      BY <2>3, <3>3 DEF BehindBlank
  <2>4. CASE ~(i < Len(pipe) /\ pipe[i + 1].word = "number")
    BY <2>2, <2>4 DEF BehindBlank
  <2> QED
    BY <2>3, <2>4
<1>3. CASE Blanks = {}
  BY <1>3, EmptyPipe DEF Numbers
<1>4. CASE Blanks # {}
  <2>1. Blanks \subseteq Nat
    BY DEF Blanks
  <2>2. \E i \in Blanks : \A j \in Blanks : i <= j
    BY <1>4, <2>1, FirstOf
  <2> QED
    BY <1>2, <1>4, <2>2 DEF Numbers
<1> QED
  BY <1>3, <1>4

\* Halving what is left after c bits leaves what is left after c + 1.
LEMMA NextBit ==
  ASSUME NEW m \in Int, NEW c \in 0..3
  PROVE  (m \div 2^c) \div 2 = m \div 2^(c + 1)
<1>1. CASE c = 0
  BY <1>1
<1>2. CASE c = 1
  BY <1>2
<1>3. CASE c = 2
  BY <1>3
<1>4. CASE c = 3
  BY <1>4
<1> QED
  BY <1>1, <1>2, <1>3, <1>4

\* Pinning, or failing to, leaves the daemon on the last bit that could be pinned.
LEMMA PinStep ==
  ASSUME asked \in Int, cpu \in 0..3, SitsFor(cpu - 1, home),
         Bit(asked, cpu), cpu' = cpu + 1, Pin
  PROVE  SitsFor(cpu, home')
<1>1. 0..cpu = 0..(cpu - 1) \cup {cpu} /\ cpu' - 1 = cpu
  OBVIOUS
<1>2. CASE cpu \in Online
  <2>1. home' = cpu /\ Pinned(cpu) = Pinned(cpu - 1) \cup {cpu}
    BY <1>1, <1>2 DEF Pin, Pinned
  <2>2. \A b \in Pinned(cpu - 1) : b <= cpu
    BY DEF Pinned
  <2> QED
    BY <2>1, <2>2 DEF SitsFor
<1>3. CASE cpu \notin Online
  <2>1. home' = home /\ Pinned(cpu) = Pinned(cpu - 1)
    BY <1>1, <1>3 DEF Pin, Pinned
  <2> QED
    BY <2>1 DEF SitsFor
<1> QED
  BY <1>2, <1>3

\* A turn of the loop: one more bit looked at, one more hogger where it belongs.
LEMMA TurnStep ==
  ASSUME HoggersInv, HydraTurn
  PROVE  HoggersInv'
<1>1. /\ cpu \in 0..3 /\ asked \in Int
      /\ mask = asked \div 2^cpu
  BY DEF HydraTurn, MoreBits, HoggersInv
<1>2. /\ mask' = mask \div 2 /\ cpu' = cpu + 1 /\ cpu' - 1 = cpu
      /\ UNCHANGED <<asked, before>>
  BY <1>1 DEF HydraTurn
<1>3. mask' = asked' \div 2^cpu'
  BY <1>1, <1>2, NextBit
<1>4. Bit(asked, cpu) <=> mask % 2 = 1
  BY <1>1 DEF Bit
<1>5. \A c, p : SitsFor(c, p)' <=> SitsFor(c, p)
  BY <1>2 DEF SitsFor, Pinned
<1>6. 0..cpu = 0..(cpu - 1) \cup {cpu}
  BY <1>1
<1>7. CASE mask % 2 = 0
  <2>1. UNCHANGED <<home, started>> /\ ~Bit(asked, cpu)
    BY <1>4, <1>7 DEF HydraTurn
  <2>2. Pinned(cpu) = Pinned(cpu - 1)
    BY <1>6, <2>1 DEF Pinned
  <2>3. SitsFor(cpu, home)
    BY <2>2 DEF SitsFor, HoggersInv
  <2>4. {c \in 0..cpu : Bit(asked, c)} = {c \in 0..(cpu - 1) : Bit(asked, c)}
    BY <1>6, <2>1
  <2> QED
    BY <1>1, <1>2, <1>3, <1>5, <2>1, <2>3, <2>4 DEF HoggersInv
<1>8. CASE mask % 2 = 1
  <2>1. Pin /\ Bit(asked, cpu)
    BY <1>4, <1>8 DEF HydraTurn
  <2>2. SitsFor(cpu, home')
    BY <1>1, <1>2, <2>1, PinStep DEF HoggersInv
  <2>3. PICK where : started' = started \cup {<<cpu, where>>} /\ where \in {home', NoHogger}
    BY <1>2, <1>8 DEF HydraTurn, StartHogger, ForkFails
  <2>4. {p[1] : p \in started'} = {p[1] : p \in started} \cup {cpu}
    <3>1. <<cpu, where>>[1] = cpu
      OBVIOUS
    <3>2. \A x : (\E p \in started' : x = p[1]) <=> (\E p \in started : x = p[1]) \/ x = cpu
      BY <2>3, <3>1, Zenon
    <3> QED
      BY <3>2
  <2>5. {c \in 0..cpu : Bit(asked, c)} = {c \in 0..(cpu - 1) : Bit(asked, c)} \cup {cpu}
    BY <1>6, <2>1
  <2>6. \A p \in started' : p[2] = NoHogger \/ SitsFor(p[1], p[2])
    BY <2>2, <2>3 DEF HoggersInv
  <2>7. {p[1] : p \in started'} = {c \in 0..(cpu' - 1) : Bit(asked', c)}
    BY <1>2, <2>4, <2>5 DEF HoggersInv
  <2>8. SitsFor(cpu - 1, home)'
    BY <1>2, <2>2 DEF SitsFor, Pinned
  <2>9. \A p \in started' : p[2] = NoHogger \/ SitsFor(p[1], p[2])'
    BY <1>5, <2>6
  <2> QED
    BY <1>1, <1>2, <1>3, <2>7, <2>8, <2>9 DEF HoggersInv
<1> QED
  BY <1>7, <1>8 DEF HydraTurn

\* Every step keeps it so, the turns of the loop and the commands read.
LEMMA MaskStep ==
  ASSUME MessagesAssumption, MaskInv, [Next]_vars
  PROVE  MaskInv'
<1>0. IsMessage(Nothing)
  BY NoArguments
<1>1. ASSUME UNCHANGED <<pipe, buf, mask, dpc, asked, before, home, cpu, started>>
      PROVE  MaskInv'
  BY <1>1 DEF MaskInv, HoggersInv, SitsFor, Pinned
<1>2. ASSUME UNCHANGED <<buf, mask>>, dpc' # "hydra",
             pipe' = pipe \/ pipe' = <<>>
      PROVE  MaskInv'
  <2>1. pipe' \in Seq(Messages)
    BY <1>2, EmptyPipe DEF MaskInv
  <2>2. IsMessage(buf') /\ mask' \in Int
    BY <1>2 DEF MaskInv
  <2> QED
    BY <1>2, <2>1, <2>2 DEF MaskInv
<1>3. ASSUME UNCHANGED <<pipe, mask>>, dpc' # "hydra", buf' = Nothing
      PROVE  MaskInv'
  BY <1>0, <1>3 DEF MaskInv
<1>4. CASE UNCHANGED vars
  BY <1>1, <1>4 DEF vars
<1>5. CASE Create \/ OpenStart \/ OpenFails \/ OpenDone \/ ReadFails \/ JamArm \/ JamEnd
  BY <1>2, <1>5 DEF Create, OpenStart, OpenFails, OpenDone, ReadFails, JamArm, JamEnd, At,
     pipeVars, argVars
<1>6. CASE Read
  <2>1. CASE buf' = [word |-> FirstWord, args |-> Numbers] /\ pipe' = <<>>
    <3>1. Numbers \in Seq(Int)
      BY ReadsNumbers DEF MaskInv
    <3>2. IsMessage(buf')
      BY <2>1, <3>1 DEF IsMessage
    <3> QED
      BY <1>6, <2>1, <3>2, EmptyPipe DEF Read, At, MaskInv
  <2>2. CASE buf' = Nothing /\ UNCHANGED pipe
    BY <1>3, <1>6, <2>2 DEF Read, At
  <2> QED
    BY <1>6, <2>1, <2>2 DEF Read
<1>7. CASE Quit \/ Jam \/ Unknown
  BY <1>3, <1>7 DEF Quit, Jam, Unknown, Parsed, Leave, At, pipeVars
<1>8. CASE Hydra
  <2>1. pipe' = pipe /\ IsMessage(buf')
    BY <1>0, <1>8 DEF Hydra, Parsed, pipeVars
  <2>2. mask' \in Int
    <3>1. mask' = Scanned(1, mask) /\ buf.args \in Seq(Int) /\ mask \in Int
      BY <1>8 DEF Hydra, MaskInv, IsMessage
    <3>2. Len(buf.args) >= 1 => buf.args[1] \in Int
      BY <3>1
    <3> QED
      BY <3>1, <3>2 DEF Scanned
  <2>3. CASE dpc' = "hydra"
    <3>1. cpu' = 0 /\ asked' = mask' /\ before' = home /\ home' = home /\ started' = {}
      BY <1>8, <2>3 DEF Hydra, At, Leave
    <3>2. mask' = asked' \div 2^cpu'
      <4>1. 2^0 = 1
        OBVIOUS
      <4>2. \A m \in Int : m \div 1 = m
        OBVIOUS
      <4> QED
        BY <2>2, <3>1, <4>1, <4>2
    <3>3. 0..(cpu' - 1) = {}
      BY <3>1
    <3>4. SitsFor(cpu - 1, home)'
      BY <3>1, <3>3 DEF SitsFor, Pinned
    <3>5. HoggersInv'
      BY <2>2, <3>1, <3>2, <3>3, <3>4 DEF HoggersInv
    <3> QED
      BY <2>1, <2>2, <3>5 DEF MaskInv
  <2>4. CASE dpc' # "hydra"
    BY <2>1, <2>2, <2>4 DEF MaskInv
  <2> QED
    BY <2>3, <2>4
<1>9. CASE HydraTurn
  <2>1. dpc = "hydra" /\ HoggersInv /\ mask \in Int
    BY <1>9 DEF HydraTurn, MaskInv
  <2>2. HoggersInv'
    BY <1>9, <2>1, TurnStep
  <2>3. mask' = mask \div 2 /\ UNCHANGED <<pipe, buf>>
    BY <1>9 DEF HydraTurn, pipeVars
  <2>4. mask \div 2 \in Int
    BY <2>1
  <2> QED
    BY <2>2, <2>3, <2>4 DEF MaskInv
<1>10. CASE HydraDone
  BY <1>2, <1>10 DEF HydraDone, At, pipeVars, argVars
<1>11. CASE Close \/ Unlink
  BY <1>2, <1>11 DEF Close, Unlink, Kept, At, argVars
<1>12. CASE Term
  BY <1>0, <1>12, EmptyPipe DEF Term, MaskInv
<1>13. CASE AlarmFires \/ Handler \/ (\E k \in Kids : Hogger(k))
  BY <1>1, <1>13 DEF AlarmFires, Handler, Hogger, Outside, pipeVars, argVars, aside
<1>14. CASE Writer
  <2>1. UNCHANGED <<buf, mask, dpc, asked, before, home, cpu, started>>
    BY <1>14 DEF Writer, WriterOpen, WriterWrite, ClientWrite, WriterClose, Outside,
       argVars, aside
  <2>2. pipe' \in Seq(Messages)
    <3>1. pipe \in Seq(Messages)
      BY DEF MaskInv
    <3>2. CASE WriterOpen \/ WriterClose
      BY <3>1, <3>2, EmptyPipe DEF WriterOpen, WriterClose, Kept
    <3>3. CASE WriterWrite \/ ClientWrite
      <4>1. PICK m \in Messages : pipe' = Append(pipe, m)
        BY <3>3 DEF WriterWrite, ClientWrite
      <4> QED
        BY <3>1, <4>1
    <3> QED
      BY <1>14, <3>2, <3>3 DEF Writer
  <2> QED
    BY <2>1, <2>2 DEF MaskInv, HoggersInv, SitsFor, Pinned
<1> QED
  BY <1>4, <1>5, <1>6, <1>7, <1>8, <1>9, <1>10, <1>11, <1>12, <1>13, <1>14
     DEF Next, Daemon

(***************************************************************************)
(* Whatever mask a command asks for, negative ones too, and whichever CPUs *)
(* sched_setaffinity accepts, the hydra loop forks for the bits of the     *)
(* mask and for no other, and each hogger sits where the last call that    *)
(* succeeded put the daemon (cpu_hogd.c:126-151).                          *)
(***************************************************************************)
THEOREM HoggersPinnedAsAsked == Spec => []HoggersAsAsked
<1>1. Init => MaskInv
  BY NoArguments, EmptyPipe DEF Init, MaskInv
<1>2. MaskInv /\ [Next]_vars => MaskInv'
  BY MaskStep, MessagesAssumption
<1>3. MaskInv => HoggersAsAsked
  BY DEF MaskInv, HoggersInv, HoggersAsAsked
<1> QED
  BY <1>1, <1>2, <1>3, PTL DEF Spec

-----------------------------------------------------------------------------
(***************************************************************************)
(* The daemon has the FIFO open from open to close, so that no close finds *)
(* nothing to close; an iteration may leave a descriptor behind, but the   *)
(* next open respects the limit.                                           *)
(***************************************************************************)
HasFifo == {"opening", "read", "parse", "arm", "jam", "hydra", "close"}

DaemonInv == TypeOK /\ NoForgottenZombie /\ (dpc \in HasFifo => fds > 0)

\* Every step keeps types and descriptors.
LEMMA DaemonStep ==
  ASSUME BoundsAssumption, DaemonInv, [Next]_vars
  PROVE  DaemonInv'
<1>1. ReaperTypeOK' /\ NoForgottenZombie'
  BY StepsReap, ReaperInvStep DEF DaemonInv, TypeOK
<1> DEFINE Flags == /\ v0 \in BOOLEAN /\ fifo \in BOOLEAN /\ arrived \in BOOLEAN
                    /\ stop \in BOOLEAN /\ alarm \in BOOLEAN
           Counters ==
               /\ dpc \in {"create", "open", "opening", "read", "parse", "arm", "jam",
                           "hydra", "close", "quit", "dead"}
               /\ fds \in 0..MaxFds
               /\ writers \in 0..MaxWriters
               /\ cpu \in 0..4
               /\ untimed \subseteq Kids
               /\ home \in Online \cup {AnyCpu}
               /\ dpc \in HasFifo => fds > 0
<1>2. pipe' \in Seq(Messages)
  <2>1. pipe \in Seq(Messages)
    BY DEF DaemonInv, TypeOK
  <2>2. CASE UNCHANGED pipe \/ pipe' = <<>>
    BY <2>1, <2>2, EmptyPipe
  <2>3. CASE WriterWrite \/ ClientWrite
    BY <2>1, <2>3 DEF WriterWrite, ClientWrite
  <2> QED
    BY <2>2, <2>3
       DEF Next, Daemon, Writer, vars, pipeVars, Create, OpenStart, OpenFails, OpenDone,
           Read, ReadFails, Quit, Jam, JamArm, JamEnd, Hydra, HydraTurn, HydraDone,
           Unknown, Close, Unlink, Term, Handler, AlarmFires, Hogger, WriterOpen,
           WriterClose, Kept
<1>3. Flags'
  <2>0. Flags
    BY DEF DaemonInv, TypeOK
  <2>1. CASE UNCHANGED vars
    BY <2>0, <2>1 DEF vars
  <2>2. CASE Create \/ Unlink
    BY <2>0, <2>2 DEF Create, Unlink, aside
  <2>3. CASE OpenStart
    <3>1. (writers > 0) \in BOOLEAN
      OBVIOUS
    <3> QED
      BY <2>0, <2>3, <3>1 DEF OpenStart, aside
  <2>4. CASE OpenFails \/ OpenDone \/ Read \/ ReadFails \/ Close
    BY <2>0, <2>4 DEF OpenFails, OpenDone, Read, ReadFails, Close, pipeVars, aside
  <2>5. CASE Quit \/ Unknown \/ HydraTurn \/ HydraDone
    BY <2>0, <2>5 DEF Quit, Unknown, HydraTurn, HydraDone, pipeVars, aside
  <2>6. CASE Jam \/ JamEnd
    BY <2>0, <2>6 DEF Jam, JamEnd, pipeVars, aside
  <2>7. CASE JamArm
    <3>1. (secs > 0) \in BOOLEAN
      OBVIOUS
    <3> QED
      BY <2>0, <2>7, <3>1 DEF JamArm, pipeVars, aside
  <2>8. CASE Hydra
    BY <2>0, <2>8 DEF Hydra, pipeVars, aside
  <2>9. CASE AlarmFires \/ Handler \/ (\E k \in Kids : Hogger(k))
    BY <2>0, <2>9 DEF AlarmFires, Handler, Hogger, Outside, pipeVars, aside
  <2>10. CASE Writer
    BY <2>0, <2>10 DEF Writer, WriterOpen, WriterWrite, ClientWrite, WriterClose, Outside,
       aside
  <2>11. CASE Term
    BY <2>0, <2>11 DEF Term
  <2> HIDE DEF Flags
  <2> QED
    BY <2>1, <2>2, <2>3, <2>4, <2>5, <2>6, <2>7, <2>8, <2>9, <2>10, <2>11
       DEF Next, Daemon
<1>4. Counters'
  <2>0. Counters /\ MaxFds \in Nat /\ MaxWriters \in Nat
    BY DEF DaemonInv, TypeOK, BoundsAssumption
  <2> USE <2>0 DEF HasFifo
  <2>1. CASE UNCHANGED vars
    BY <2>1 DEF vars
  <2>2. CASE Create \/ OpenFails \/ OpenDone
    BY <2>2 DEF Create, OpenFails, OpenDone, At, pipeVars, argVars, aside
  <2>3. CASE OpenStart
    BY <2>3 DEF OpenStart, At, argVars, aside
  <2>4. CASE Read \/ Unlink
    BY <2>4 DEF Read, Unlink, At, argVars, aside
  <2>5. CASE ReadFails \/ Close
    BY <2>5 DEF ReadFails, Close, At, argVars, aside
  <2>6. CASE Quit \/ Unknown
    BY <2>6 DEF Quit, Unknown, Leave, At, pipeVars, aside
  <2>7. CASE Jam
    BY <2>7 DEF Jam, At, pipeVars, aside
  <2>8. CASE JamArm \/ JamEnd \/ HydraDone
    BY <2>8 DEF JamArm, JamEnd, HydraDone, At, pipeVars, argVars, aside
  <2>9. CASE Hydra
    BY <2>9 DEF Hydra, Leave, At, pipeVars, aside
  <2>10. CASE HydraTurn
    <3>1. cpu < 4 /\ cpu' = cpu + 1
      BY <2>10 DEF HydraTurn, MoreBits
    <3>2. untimed' \subseteq Kids
      BY <2>10 DEF HydraTurn, StartHogger, ForkFails
    <3>3. home' \in Online \cup {AnyCpu}
      BY <2>10 DEF HydraTurn, Pin
    <3> QED
      BY <2>10, <3>1, <3>2, <3>3 DEF HydraTurn, pipeVars
  <2>11. CASE AlarmFires \/ Handler \/ (\E k \in Kids : Hogger(k))
    BY <2>11 DEF AlarmFires, Handler, Hogger, Outside, pipeVars, argVars, aside
  <2>12. CASE WriterOpen \/ WriterClose
    BY <2>12 DEF WriterOpen, WriterClose, Outside, argVars, aside
  <2>13. CASE WriterWrite \/ ClientWrite
    BY <2>13 DEF WriterWrite, ClientWrite, Outside, argVars, aside
  <2>14. CASE Term
    BY <2>14 DEF Term
  <2> HIDE DEF Counters
  <2> QED
    BY <2>1, <2>2, <2>3, <2>4, <2>5, <2>6, <2>7, <2>8, <2>9, <2>10, <2>11, <2>12,
       <2>13, <2>14 DEF Next, Daemon, Writer
<1> QED
  BY <1>1, <1>2, <1>3, <1>4 DEF DaemonInv, TypeOK

(***************************************************************************)
(* For any bounds, the daemon's state keeps its types: descriptors stay    *)
(* between none and the limit, and the CPU number within the loop's bound. *)
(***************************************************************************)
THEOREM DaemonTyped == Spec => []TypeOK
<1>1. Init => DaemonInv
  <2> SUFFICES ASSUME Init PROVE DaemonInv
    OBVIOUS
  <2>1. ReaperTypeOK /\ NoForgottenZombie
    BY DEF Init, ReaperInit, ReaperTypeOK, NoForgottenZombie
  <2>2. pipe \in Seq(Messages)
    BY EmptyPipe DEF Init
  <2>3. /\ v0 \in BOOLEAN /\ fifo \in BOOLEAN /\ arrived \in BOOLEAN
        /\ stop \in BOOLEAN /\ alarm \in BOOLEAN
    BY DEF Init
  <2>4. fds \in 0..MaxFds /\ writers \in 0..MaxWriters /\ cpu \in 0..4
    BY BoundsAssumption DEF Init, BoundsAssumption
  <2>5. dpc = "create" /\ untimed = {} /\ home = AnyCpu
    BY DEF Init
  <2> QED
    BY <2>1, <2>2, <2>3, <2>4, <2>5 DEF DaemonInv, TypeOK, HasFifo
<1>2. DaemonInv /\ [Next]_vars => DaemonInv'
  BY DaemonStep, BoundsAssumption
<1>3. DaemonInv => TypeOK
  BY DEF DaemonInv
<1> QED
  BY <1>1, <1>2, <1>3, PTL DEF Spec
=============================================================================
