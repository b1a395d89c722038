----------------------------- MODULE GenInitCpio -----------------------------
(***************************************************************************)
(* src/gen_init_cpio.c: a cpio archive written by several threads.  main   *)
(* reads the list of entries, starts nr_threads workers with one temporary *)
(* file each, joins them, flushes what is left in their files to stdout    *)
(* and ends the archive with a trailer.  Worker w handles the lines whose  *)
(* number is w modulo nr_threads: it writes the line to its own file and,  *)
(* when the spin lock of stdout happens to be free, dumps the file to      *)
(* stdout and rewinds it.                                                  *)
(*                                                                         *)
(* A line is one of these kinds (everything else in it is data):           *)
(*   "skip"     comment or blank line        "notype"  no type can be read *)
(*   "unknown"  type not in the table        "noargs"  nothing after type  *)
(*   "bad"      the handler returns an error before it writes anything     *)
(*   "entry"    dir, nod, slink, pipe, sock                                *)
(*   "file"     a file, with all its names and the data after the last     *)
(*                                                                         *)
(* A handler writes its line with a number of stdio calls (the header, the *)
(* name, its padding, the data...) and fetches my_state->fp anew for each; *)
(* what one call writes is a piece.  stdio makes a single call atomic, and *)
(* nothing more.  write_to_stdout is one fwrite of the whole file.         *)
(*                                                                         *)
(* What can fail is listed in the constant Faults: "tmp" writing file data *)
(* to the temporary file, "stdout" writing to stdout, "mkstemp" opening a  *)
(* temporary file, "create" starting a thread.  After either of the last   *)
(* two main leaves while the workers started so far go on: it puts stdout  *)
(* in the place of worker 0's file, writes the trailer without the lock,   *)
(* and frees what the workers use.  stdout is a pipe: ftell and rewind of  *)
(* it do nothing.                                                          *)
(***************************************************************************)
EXTENDS Integers, Sequences, FiniteSets, Functions

CONSTANTS
    NrThreads, NrLines, Kinds, Faults,
    EntryCalls,     \* stdio calls that write an "entry"
    FileCalls,      \* stdio calls that write a "file"
    DataCall,       \* the one of them that writes the data
    TrailerCalls    \* stdio calls of cpio_trailer

AllKinds == {"skip", "notype", "unknown", "noargs", "bad", "entry", "file"}
AllFaults == {"tmp", "stdout", "mkstemp", "create"}

ASSUME ThreadsAssumption == NrThreads \in Nat \ {0} /\ NrLines \in Nat
ASSUME KindsAssumption == Kinds \subseteq AllKinds /\ Faults \subseteq AllFaults
ASSUME CallsAssumption ==
    /\ EntryCalls \in Nat \ {0} /\ FileCalls \in Nat \ {0}
    /\ DataCall \in 1..FileCalls /\ TrailerCalls \in Nat \ {0}

Workers == 0 .. NrThreads - 1
Lines == 1 .. NrLines

VARIABLES
    kind,       \* [Lines -> Kinds], the input
    lineNr,     \* [Workers -> line_nr]
    wpc,        \* [Workers -> place]: "none", "scan", "push" (in a handler),
                \* "dump", "write", "rewind" (in try_dump_to_stdout), "done"
    part,       \* [Workers -> the next stdio call of the handler]
    ino,        \* [Lines -> what get_ino gave the line's handler]
    tmp,        \* [Workers -> pieces in the temporary file before its position]
    out,        \* pieces written to stdout
    stdoutLock, \* holder of stdout_lock
    iNo,        \* i_no
    wec,        \* [Workers -> the worker's own ec is 0]
    mpc,        \* place of main
    mi,         \* main's i
    ec,         \* main's ec is 0
    tpart,      \* the next stdio call of cpio_trailer
    swapLine,   \* lineNr[0] when main set my_states[0].fp to stdout
    lost        \* history: lines of which a failed dump threw something away

workerVars == <<lineNr, wpc, part, ino, tmp, iNo, wec>>
mainVars == <<mpc, mi, ec, tpart, swapLine>>
vars == <<kind, workerVars, out, stdoutLock, mainVars, lost>>

Nobody == -1
MainThread == NrThreads
NotYet == NrLines + 1

Piece == [line : 0..NrLines, ino : Nat, part : Nat, whole : BOOLEAN]

Init ==
    /\ kind \in [Lines -> Kinds]
    /\ lineNr = [w \in Workers |-> 0]
    /\ wpc = [w \in Workers |-> "none"]
    /\ part = [w \in Workers |-> 1]
    /\ ino = [l \in Lines |-> 0]
    /\ tmp = [w \in Workers |-> <<>>]
    /\ out = <<>>
    /\ stdoutLock = Nobody
    /\ iNo = 721
    /\ wec = [w \in Workers |-> TRUE]
    /\ mpc = "spawn"
    /\ mi = 0
    /\ ec = TRUE
    /\ tpart = 1
    /\ swapLine = NotYet
    /\ lost = {}

\* my_states[0].fp is stdout.
Swapped == swapLine # NotYet
Direct(w) == w = 0 /\ Swapped

LinesOf(s) == {s[k].line : k \in DOMAIN s}

-----------------------------------------------------------------------------
(***************************************************************************)
(* main                                                                    *)
(***************************************************************************)
\* One turn of the loop that starts the workers.  Without a temporary file
\* main leaves with ec still 0 from the last pthread_create.
Spawn ==
    /\ mpc = "spawn"
    /\ mi < NrThreads
    /\ \/ /\ wpc' = [wpc EXCEPT ![mi] = "scan"]
          /\ mi' = mi + 1
          /\ UNCHANGED <<mpc, ec>>
       \/ /\ "mkstemp" \in Faults
          /\ mpc' = "exit"
          /\ UNCHANGED <<wpc, mi, ec>>
       \/ /\ "create" \in Faults
          /\ mpc' = "exit"
          /\ ec' = FALSE
          /\ UNCHANGED <<wpc, mi>>
    /\ UNCHANGED <<kind, lineNr, part, ino, tmp, iNo, wec, out, stdoutLock, tpart,
                   swapLine, lost>>

AllSpawned ==
    /\ mpc = "spawn"
    /\ mi = NrThreads
    /\ mpc' = "join"
    /\ mi' = 0
    /\ UNCHANGED <<kind, workerVars, out, stdoutLock, ec, tpart, swapLine, lost>>

\* Mutant: flushes a worker's file without joining the worker.
BugNoJoin ==
    /\ mpc = "join"
    /\ mi < NrThreads
    /\ stdoutLock = Nobody
    /\ stdoutLock' = MainThread
    /\ mpc' = "flush"
    /\ UNCHANGED <<kind, workerVars, out, mi, ec, tpart, swapLine, lost>>

\* pthread_join stores the worker's result in tret, so ret stays 0 and the
\* test of it never fires; then main waits for the spin lock.
Join ==
    /\ mpc = "join"
    /\ mi < NrThreads
    /\ wpc[mi] = "done"
    /\ stdoutLock = Nobody
    /\ stdoutLock' = MainThread
    /\ mpc' = "flush"
    /\ UNCHANGED <<kind, workerVars, out, mi, ec, tpart, swapLine, lost>>

\* write_to_stdout: all that is before the file's position; or, when something
\* on the way fails, only what the fwrite got through, which may be nothing.
WriteToStdout(w) ==
    \/ out' = out \o tmp[w] /\ UNCHANGED lost
    \/ /\ "stdout" \in Faults
       /\ \E n \in 0 .. Len(tmp[w]) - 1 :
             /\ out' = out \o SubSeq(tmp[w], 1, n)
             /\ lost' = lost \cup {tmp[w][k].line : k \in n+1 .. Len(tmp[w])}

\* A failure is reported on stderr only; the file is unlinked either way.
Flush ==
    /\ mpc = "flush"
    /\ WriteToStdout(mi)
    /\ tmp' = [tmp EXCEPT ![mi] = <<>>]
    /\ stdoutLock' = Nobody
    /\ mi' = mi + 1
    /\ mpc' = "join"
    /\ UNCHANGED <<kind, lineNr, wpc, part, ino, iNo, wec, ec, tpart, swapLine>>

AllJoined ==
    /\ mpc = "join"
    /\ mi = NrThreads
    /\ mpc' = "exit"
    /\ UNCHANGED <<kind, workerVars, out, stdoutLock, mi, ec, tpart, swapLine, lost>>

\* __exit: from here on worker 0, if it still runs, writes to stdout itself.
\* What is in its temporary file stays there, unless a dump has begun.
SwapFp ==
    /\ mpc = "exit"
    /\ swapLine' = lineNr[0]
    /\ mpc' = IF ec THEN "trailer" ELSE "quit"
    /\ UNCHANGED <<kind, workerVars, out, stdoutLock, mi, ec, tpart, lost>>

\* cpio_trailer, call by call and without the lock.
PushTrailer ==
    /\ mpc = "trailer"
    /\ out' = Append(out, [line |-> 0, ino |-> 0, part |-> tpart, whole |-> TRUE])
    /\ tpart' = tpart + 1
    /\ mpc' = IF tpart = TrailerCalls THEN "quit" ELSE "trailer"
    /\ UNCHANGED <<kind, workerVars, stdoutLock, mi, ec, swapLine, lost>>

\* file_table.table and my_states are freed, whoever still uses them.
Free ==
    /\ mpc = "quit"
    /\ mpc' = "freed"
    /\ UNCHANGED <<kind, workerVars, out, stdoutLock, mi, ec, tpart, swapLine, lost>>

Exit ==
    /\ mpc = "freed"
    /\ mpc' = "end"
    /\ UNCHANGED <<kind, workerVars, out, stdoutLock, mi, ec, tpart, swapLine, lost>>

Main ==
    \/ Spawn \/ AllSpawned \/ Join \/ Flush \/ AllJoined \/ SwapFp \/ PushTrailer
    \/ Free \/ Exit

-----------------------------------------------------------------------------
(***************************************************************************)
(* A worker                                                                *)
(***************************************************************************)
Running == mpc \notin {"end", "crashed"}
Mine(w, l) == l % NrThreads = w

\* Line l is the next one worker w looks at.
Looks(w, l) ==
    /\ Running
    /\ wpc[w] = "scan"
    /\ lineNr[w] < NrLines
    /\ l = lineNr[w] + 1
    /\ lineNr' = [lineNr EXCEPT ![w] = l]

Place(w, p) == wpc' = [wpc EXCEPT ![w] = p]

SkipLine(w) ==
    /\ \E l \in Lines : Looks(w, l) /\ (~Mine(w, l) \/ kind[l] = "skip")
    /\ UNCHANGED <<kind, wpc, part, ino, tmp, iNo, wec, out, stdoutLock, mainVars, lost>>

\* No type: the worker gives up, with all its remaining lines.
NoType(w) ==
    /\ \E l \in Lines : Looks(w, l) /\ Mine(w, l) /\ kind[l] = "notype"
    /\ wec' = [wec EXCEPT ![w] = FALSE]
    /\ Place(w, "done")
    /\ UNCHANGED <<kind, part, ino, tmp, iNo, out, stdoutLock, mainVars, lost>>

\* No arguments: reported, and then the handler is called with NULL.
NoArgs(w) ==
    /\ \E l \in Lines : Looks(w, l) /\ Mine(w, l) /\ kind[l] = "noargs"
    /\ mpc' = "crashed"
    /\ UNCHANGED <<kind, wpc, part, ino, tmp, iNo, wec, out, stdoutLock, mi, ec,
                   tpart, swapLine, lost>>

\* An unknown type is reported and does not count as an error; a handler that
\* fails before writing sets the worker's ec.
NothingWritten(w) ==
    /\ \E l \in Lines :
          /\ Looks(w, l) /\ Mine(w, l) /\ kind[l] \in {"unknown", "bad"}
          /\ wec' = IF kind[l] = "bad" THEN [wec EXCEPT ![w] = FALSE] ELSE wec
    /\ Place(w, "dump")
    /\ UNCHANGED <<kind, part, ino, tmp, iNo, out, stdoutLock, mainVars, lost>>

\* A handler is entered: the inode number is fetched before anything is
\* written.
NrParts(l) == IF kind[l] = "file" THEN FileCalls ELSE EntryCalls

\* Mutant: the inode counter is read but not advanced.
BugSameIno == UNCHANGED iNo

GetIno == iNo' = iNo + 1

Handle(w) ==
    /\ \E l \in Lines :
          /\ Looks(w, l) /\ Mine(w, l) /\ kind[l] \in {"entry", "file"}
          /\ ino' = [ino EXCEPT ![l] = iNo]
    /\ GetIno
    /\ part' = [part EXCEPT ![w] = 1]
    /\ Place(w, "push")
    /\ UNCHANGED <<kind, tmp, wec, out, stdoutLock, mainVars, lost>>

\* Mutant: writes at the start of a file that still holds pieces.
BugPushInFront(w, e) ==
    /\ tmp' = [tmp EXCEPT ![w] = <<e>> \o @]
    /\ UNCHANGED out

\* my_state->fp is looked up at each call.
Push(w, e) ==
    IF Direct(w) THEN out' = Append(out, e) /\ UNCHANGED tmp
                 ELSE tmp' = [tmp EXCEPT ![w] = Append(@, e)] /\ UNCHANGED out

WriteFails(w) == (IF Direct(w) THEN "stdout" ELSE "tmp") \in Faults

\* One stdio call of a handler.  Only the fwrite of the data is looked at: if
\* it fails, some of the data may have been written, the handler returns an
\* error, and the line is dumped all the same.
PushPart(w) ==
    /\ Running
    /\ wpc[w] = "push"
    /\ \E l \in {lineNr[w]}, whole \in BOOLEAN :
          /\ ~whole => kind[l] = "file" /\ part[w] = DataCall /\ WriteFails(w)
          /\ Push(w, [line |-> l, ino |-> ino[l], part |-> part[w], whole |-> whole])
          /\ wec' = IF whole THEN wec ELSE [wec EXCEPT ![w] = FALSE]
          /\ Place(w, IF whole /\ part[w] < NrParts(l) THEN "push" ELSE "dump")
    /\ part' = [part EXCEPT ![w] = @ + 1]
    /\ UNCHANGED <<kind, lineNr, ino, iNo, stdoutLock, mainVars, lost>>

\* try_dump_to_stdout: a lock that is taken means not now.  The file that is
\* dumped is looked up once; stdout cannot be dumped (its ftell fails).
TryLock(w) ==
    /\ Running
    /\ wpc[w] = "dump"
    /\ \/ /\ stdoutLock = Nobody
          /\ stdoutLock' = w
          /\ Place(w, IF Direct(w) THEN "rewind" ELSE "write")
       \/ /\ stdoutLock # Nobody
          /\ Place(w, "scan")
          /\ UNCHANGED stdoutLock
    /\ UNCHANGED <<kind, lineNr, part, ino, tmp, iNo, wec, out, mainVars, lost>>

Dump(w) ==
    /\ Running
    /\ wpc[w] = "write"
    /\ WriteToStdout(w)
    /\ Place(w, "rewind")
    /\ UNCHANGED <<kind, lineNr, part, ino, tmp, iNo, wec, stdoutLock, mainVars>>

\* Mutants of the end of try_dump_to_stdout: no rewind; no unlock.
BugNoRewind(w) ==
    /\ Running
    /\ wpc[w] = "rewind"
    /\ stdoutLock' = Nobody
    /\ Place(w, "scan")
    /\ UNCHANGED <<kind, lineNr, part, ino, tmp, iNo, wec, out, mainVars, lost>>

BugNoUnlock(w) ==
    /\ Running
    /\ wpc[w] = "rewind"
    /\ tmp' = IF Direct(w) THEN tmp ELSE [tmp EXCEPT ![w] = <<>>]
    /\ Place(w, "scan")
    /\ UNCHANGED <<kind, lineNr, part, ino, iNo, wec, out, stdoutLock, mainVars, lost>>

\* The file is rewound whether or not the dump succeeded; it is looked up
\* again, so it may be stdout by now and the temporary file stays as it is.
Rewind(w) ==
    /\ Running
    /\ wpc[w] = "rewind"
    /\ tmp' = IF Direct(w) THEN tmp ELSE [tmp EXCEPT ![w] = <<>>]
    /\ stdoutLock' = Nobody
    /\ Place(w, "scan")
    /\ UNCHANGED <<kind, lineNr, part, ino, iNo, wec, out, mainVars, lost>>

ScanDone(w) ==
    /\ Running
    /\ wpc[w] = "scan"
    /\ lineNr[w] = NrLines
    /\ Place(w, "done")
    /\ UNCHANGED <<kind, lineNr, part, ino, tmp, iNo, wec, out, stdoutLock, mainVars,
                   lost>>

\* Once main has freed file_table.table and my_states, whatever a worker does
\* next may find them as they were (the actions above) or kill the process.
UseAfterFree(w) ==
    /\ mpc = "freed"
    /\ wpc[w] \notin {"none", "done"}
    /\ mpc' = "crashed"
    /\ UNCHANGED <<kind, workerVars, out, stdoutLock, mi, ec, tpart, swapLine, lost>>

Worker(w) ==
    \/ SkipLine(w) \/ NoType(w) \/ NoArgs(w) \/ NothingWritten(w) \/ Handle(w)
    \/ PushPart(w) \/ TryLock(w) \/ Dump(w) \/ Rewind(w) \/ ScanDone(w)
    \/ UseAfterFree(w)

Next == Main \/ \E w \in Workers : Worker(w)

Spec == Init /\ [][Next]_vars

\* Threads are scheduled; main's spinning on the lock ends because the workers
\* only ever try it, and do so finitely often.
FairSpec == Spec /\ WF_vars(Main) /\ \A w \in Workers : WF_vars(Worker(w))

-----------------------------------------------------------------------------
TypeOK ==
    /\ kind \in [Lines -> Kinds]
    /\ lineNr \in [Workers -> 0..NrLines]
    /\ wpc \in [Workers -> {"none", "scan", "push", "dump", "write", "rewind", "done"}]
    /\ part \in [Workers -> Nat \ {0}]
    /\ ino \in [Lines -> Nat]
    /\ tmp \in [Workers -> Seq(Piece)]
    /\ out \in Seq(Piece)
    /\ stdoutLock \in Workers \cup {Nobody, MainThread}
    /\ iNo \in Nat
    /\ wec \in [Workers -> BOOLEAN]
    /\ mpc \in {"spawn", "join", "flush", "exit", "trailer", "quit", "freed", "end",
                "crashed"}
    /\ mi \in 0..NrThreads
    /\ ec \in BOOLEAN
    /\ tpart \in Nat \ {0}
    /\ swapLine \in 0..NotYet
    /\ lost \subseteq Lines

(***************************************************************************)
(* Lines that main's early exit can tear: the one worker 0 was at when its *)
(* file was replaced, those it writes to stdout after that, and the        *)
(* trailer (line 0).  Once main has joined its workers there is none.      *)
(***************************************************************************)
Torn(l) == mi < NrThreads /\ Mine(0, l) /\ (l = 0 \/ l >= swapLine)

\* The last call of line l's handler is in s.
Complete(s, l) ==
    \E k \in DOMAIN s :
        /\ s[k].line = l
        /\ s[k].part = NrParts(l) \/ ~s[k].whole

(***************************************************************************)
(* No piece is in the archive twice, on main's early exit too: rewinding   *)
(* instead of truncating the file, skipping a dump when the lock is taken, *)
(* and replacing the file under a dump write nothing again.  And no line   *)
(* is there half: the handler had written all of it when it was dumped,    *)
(* unless the dump failed or the early exit tore it.                       *)
(***************************************************************************)
WrittenOnce ==
    /\ \A j, k \in DOMAIN out :
          (out[j].line = out[k].line /\ out[j].part = out[k].part) => j = k
    /\ \A l \in (LinesOf(out) \cap Lines) \ lost : Torn(l) \/ Complete(out, l)

\* Everything of the line up to s[k] is directly before it, in order.
TogetherAt(s, k) ==
    \A p \in 1 .. s[k].part :
        LET j == k - s[k].part + p
        IN j \in DOMAIN s /\ s[j].line = s[k].line /\ s[j].part = p

(***************************************************************************)
(* All that is written for one line (the names of a file, its data last)   *)
(* has one inode that no other line has, and is together in the archive:   *)
(* neither another worker's dump nor the trailer gets in between, except   *)
(* in the lines that an early exit tears.                                  *)
(***************************************************************************)
LinksTogether ==
    /\ \A j, k \in DOMAIN out : out[j].ino = out[k].ino <=> out[j].line = out[k].line
    /\ \A k \in DOMAIN out : Torn(out[k].line) \/ TogetherAt(out, k)

(***************************************************************************)
(* What a worker writes reaches the archive in the order in which it was   *)
(* written, also when worker 0 goes over from its file to stdout.          *)
(***************************************************************************)
Before(e, f) == e.line < f.line \/ (e.line = f.line /\ e.part < f.part)

WorkerOrder ==
    \A j, k \in DOMAIN out :
        LET a == out[j].line
            b == out[k].line
        IN (j < k /\ a # 0 /\ b # 0 /\ a % NrThreads = b % NrThreads)
               => Before(out[j], out[k])

(***************************************************************************)
(* When the program ends after joining its workers, every line with a      *)
(* handler is in the archive, unless a dump that failed threw it away or   *)
(* its worker gave up at an earlier line; and the trailer is last.         *)
(***************************************************************************)
GaveUpBefore(l) ==
    \E m \in 1..l : m % NrThreads = l % NrThreads /\ kind[m] = "notype"

Due == {l \in Lines : kind[l] \in {"entry", "file"} /\ ~GaveUpBefore(l)}

ArchiveComplete ==
    (mpc = "end" /\ mi = NrThreads) =>
        /\ LinesOf(out) \cup lost = Due \cup {0}
        /\ out[Len(out)].line = 0 /\ out[Len(out)].part = TrailerCalls

(***************************************************************************)
(* The program ends, whichever lines are bad and whatever fails.           *)
(***************************************************************************)
ProgramEnds == <>(~Running)

(***************************************************************************)
(* The comment at __exit (gen_init_cpio.c:865): "Generate the trailer if   *)
(* all went well", that is, no worker met an error, every worker was       *)
(* started and no dump failed.                                             *)
(***************************************************************************)
AllWentWell == (\A w \in Workers : wec[w]) /\ mi = NrThreads /\ lost = {}

TrailerOnlyIfAllWentWell == 0 \in LinesOf(out) => AllWentWell
=============================================================================
