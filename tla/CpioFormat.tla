----------------------------- MODULE CpioFormat -----------------------------
(***************************************************************************)
(* The byte layout that the handlers of src/gen_init_cpio.c produce.  The  *)
(* newc format wants every header and every payload on a multiple of four  *)
(* in the archive.  A worker knows nothing of the archive: it pads by the  *)
(* offset since it last rewound its temporary file, and directories and    *)
(* nodes by the length of their own name only.  This module follows one    *)
(* worker's file; dumps of the other workers, written by the same          *)
(* handlers, come between its own.                                         *)
(*                                                                         *)
(* A stdio call may write less than it was given, when the disk or the     *)
(* pipe is full.  All calls but the fwrite of file data ignore that, and   *)
(* the offset goes on as if nothing had happened; after that one the       *)
(* handler gives up, with the offset before the data, some of the data in  *)
(* the file and no padding; and the file is dumped all the same.           *)
(*                                                                         *)
(* Only lengths are kept.  sprintf makes a header of 110 bytes as long as  *)
(* no field needs more than its eight digits.                              *)
(***************************************************************************)
EXTENDS Integers

CONSTANTS
    Lengths,    \* lengths of names and link targets, terminating 0 included
    Sizes,      \* sizes of files
    Short,      \* by how much a write may fall short
    MaxBytes    \* bound: no new entry beyond this archive length

ASSUME LengthsAssumption ==
    Lengths \subseteq Nat \ {0} /\ Sizes \subseteq Nat /\ Short \subseteq Nat \ {0}
ASSUME MaxBytesAssumption == MaxBytes \in Nat

VARIABLES
    offset,     \* my_state->offset
    pos,        \* position of my_state->fp: bytes written since the rewind
    archive,    \* bytes on stdout
    headers,    \* history: where in the file, since the rewind, headers start
    payloads,   \* history: where payloads start
    fileCut,    \* history: a write to the file fell short since the rewind
    archiveCut  \* history: part of an entry is missing in the archive

formatVars == <<offset, pos, archive, headers, payloads, fileCut, archiveCut>>

Header == 110

\* while (n & 3) n++
Padded(n) == n + ((4 - (n % 4)) % 4)

FormatInit ==
    /\ offset = 0
    /\ pos = 0
    /\ archive = 0
    /\ headers = {}
    /\ payloads = {}
    /\ fileCut = FALSE
    /\ archiveCut = FALSE

-----------------------------------------------------------------------------
(***************************************************************************)
(* The push functions, on the offset and the position in the file: each    *)
(* writes some bytes and adds a number to the offset.                      *)
(***************************************************************************)
At == [off |-> offset, pos |-> pos]

Moved(a, n) == [off |-> a.off + n, pos |-> a.pos + n]

PushHdr(a) == Moved(a, Header)
PushString(a, n) == Moved(a, n)
PushPad(a) == Moved(a, Padded(a.off) - a.off)

\* push_rest pads by the length of this header and name, whatever the offset.
PushRest(a, n) == Moved(Moved(a, n), Padded(n + Header) - (n + Header))

AfterName(n) == PushPad(PushString(PushHdr(At), n))

\* The handler is through: a is where its calls should have led.
Written(a) ==
    /\ archive + pos < MaxBytes
    /\ offset' = a.off
    /\ headers' = headers \cup {pos}
    /\ \/ pos' = a.pos /\ UNCHANGED fileCut
       \/ \E d \in Short :
             d <= a.pos - pos /\ pos' = a.pos - d /\ fileCut' = TRUE
    /\ UNCHANGED <<archive, archiveCut>>

\* cpio_mkgeneric: directories, pipes and sockets are a header and a name.
MkGeneric(n) ==
    /\ Written(PushRest(PushHdr(At), n))
    /\ UNCHANGED payloads

\* cpio_mknod: the device numbers are in the header.
MkNod(n) == MkGeneric(n)

\* Mutant: no padding after the target.
BugNoLastPad(n, target) ==
    /\ Written(PushString(AfterName(n), target))
    /\ payloads' = payloads \cup {AfterName(n).pos}

\* cpio_mkslink: the payload is the target string.
MkSlink(n, target) ==
    /\ Written(PushPad(PushString(AfterName(n), target)))
    /\ payloads' = payloads \cup {AfterName(n).pos}

\* One turn of the loop of cpio_mkfile: only the last name carries the data,
\* and an empty file has none.
MkFileName(n, size) ==
    /\ Written(IF size = 0 THEN AfterName(n) ELSE PushPad(Moved(AfterName(n), size)))
    /\ payloads' = IF size = 0 THEN payloads ELSE payloads \cup {AfterName(n).pos}

\* The fwrite of the data fails: neither the offset nor the padding follows.
MkFileFails(n, size) ==
    /\ archive + pos < MaxBytes
    /\ offset' = AfterName(n).off
    /\ \E d \in Short : d <= size /\ pos' = AfterName(n).pos + (size - d)
    /\ fileCut' = TRUE
    /\ headers' = headers \cup {pos}
    /\ payloads' = payloads \cup {AfterName(n).pos}
    /\ UNCHANGED <<archive, archiveCut>>

\* try_dump_to_stdout with the lock free: what is before the position goes to
\* stdout, or less when writing fails, or nothing; the file is rewound.
DumpFile ==
    /\ pos > 0
    /\ \/ archive' = archive + pos /\ archiveCut' = (archiveCut \/ fileCut)
       \/ \E d \in Short : d <= pos /\ archive' = archive + (pos - d) /\ archiveCut' = TRUE
       \/ UNCHANGED <<archive, archiveCut>>
    /\ pos' = 0
    /\ offset' = 0
    /\ headers' = {}
    /\ payloads' = {}
    /\ fileCut' = FALSE

\* Another worker dumps one of its own entries, of which something may be
\* missing.
OtherDump(n) ==
    LET bytes == PushRest(PushHdr([off |-> 0, pos |-> 0]), n).pos
    IN /\ archive + pos < MaxBytes
       /\ \/ archive' = archive + bytes /\ UNCHANGED archiveCut
          \/ \E d \in Short : d <= bytes /\ archive' = archive + (bytes - d) /\ archiveCut' = TRUE
       /\ UNCHANGED <<offset, pos, headers, payloads, fileCut>>

FormatNext ==
    \/ \E n \in Lengths : MkGeneric(n) \/ MkNod(n) \/ OtherDump(n)
    \/ \E n, target \in Lengths : MkSlink(n, target)
    \/ \E n \in Lengths, size \in Sizes : MkFileName(n, size) \/ MkFileFails(n, size)
    \/ DumpFile

FormatSpec == FormatInit /\ [][FormatNext]_formatVars

-----------------------------------------------------------------------------
FormatTypeOK ==
    /\ offset \in Nat /\ pos \in Nat /\ archive \in Nat
    /\ headers \subseteq Nat /\ payloads \subseteq Nat
    /\ fileCut \in BOOLEAN /\ archiveCut \in BOOLEAN

(***************************************************************************)
(* While no write to the file has fallen short, the offset that padding is *)
(* computed from is the position in the file; a rewind makes it so again.  *)
(***************************************************************************)
OffsetIsPosition == ~fileCut => offset = pos

(***************************************************************************)
(* Until an entry with something missing gets into the archive, it ends on *)
(* a multiple of four, and so does the file while all of it was written;   *)
(* and wherever the next dump puts the file, its headers and payloads land *)
(* on multiples of four.                                                   *)
(***************************************************************************)
Aligned ==
    /\ OffsetIsPosition
    /\ ~archiveCut => archive % 4 = 0
    /\ ~fileCut => pos % 4 = 0
    /\ ~archiveCut /\ ~fileCut => \A h \in headers \cup payloads : (archive + h) % 4 = 0
=============================================================================
