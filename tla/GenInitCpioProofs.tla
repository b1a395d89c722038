-------------------------- MODULE GenInitCpioProofs -------------------------
(***************************************************************************)
(* src/gen_init_cpio.c, for any number of workers and lines and of stdio   *)
(* calls per line: what each worker writes reaches the archive once, in    *)
(* order, together, and all of it; and what is left of that when main      *)
(* exits early.  At the end, the layout of the archive: it is right for    *)
(* names, targets and files of any length.                                 *)
(***************************************************************************)
EXTENDS GenInitCpio, CpioFormat, SequenceTheorems, TLAPS

-----------------------------------------------------------------------------
(***************************************************************************)
(* Pieces a worker has written: of a line of its own that has a handler,   *)
(* under that line's inode, before the one it writes next.                 *)
(***************************************************************************)
Handled(l) == kind[l] \in {"entry", "file"}

Pushed(w, e) ==
    /\ e.line \in Lines /\ Mine(w, e.line) /\ Handled(e.line)
    /\ e.ino = ino[e.line] /\ e.ino > 0 /\ e.part > 0
    /\ \/ e.line < lineNr[w]
       \/ e.line = lineNr[w] /\ (wpc[w] = "push" => e.part < part[w])

OfTrailer(e) == e.line = 0 /\ e.ino = 0 /\ e.part > 0 /\ e.part < tpart

InOut(e) == OfTrailer(e) \/ \A w \in Workers : Mine(w, e.line) => Pushed(w, e)

Placed ==
    /\ \A w \in Workers : \A k \in DOMAIN tmp[w] : Pushed(w, tmp[w][k])
    /\ \A k \in DOMAIN out : InOut(out[k])
    /\ \A l \in lost : Handled(l) /\ \A w \in Workers : Mine(w, l) => l <= lineNr[w]

(***************************************************************************)
(* A worker in a handler, and the inodes handed out so far.                *)
(***************************************************************************)
InHandler(w) ==
    /\ lineNr[w] \in Lines /\ Mine(w, lineNr[w]) /\ Handled(lineNr[w])
    /\ ino[lineNr[w]] > 0
    /\ part[w] <= NrParts(lineNr[w])

Handling ==
    /\ \A w \in Workers : wpc[w] = "push" => InHandler(w)
    /\ iNo > 0
    /\ \A l \in Lines : ino[l] < iNo
    /\ \A l, m \in Lines : ino[l] > 0 /\ ino[l] = ino[m] => l = m

(***************************************************************************)
(* How far main has come.  Worker 0 writes to stdout only if main has left *)
(* its loops before it joined them all.                                    *)
(***************************************************************************)
Exiting == {"trailer", "quit", "freed", "end"}

Joined(w) == wpc[w] = "done" /\ tmp[w] = <<>>

AtTrailer(n) == out # <<>> /\ out[Len(out)].line = 0 /\ out[Len(out)].part = n

Loops ==
    /\ mpc = "spawn" => \A w \in Workers : w >= mi => wpc[w] = "none"
    /\ mpc \in {"spawn", "join", "flush"} => ec
    /\ mpc \in {"join", "flush"} => \A w \in Workers : w < mi => Joined(w)
    /\ mpc = "flush" => mi \in Workers /\ wpc[mi] = "done"
    /\ mpc \in {"spawn", "join", "flush", "exit"} => ~Swapped
    /\ mpc \in Exiting => Swapped
    /\ mpc = "exit" /\ mi = NrThreads => ec /\ \A w \in Workers : Joined(w)
    /\ Swapped => swapLine <= lineNr[0]
    /\ Swapped /\ mi = NrThreads => ec /\ \A w \in Workers : Joined(w)
    /\ ~Swapped => tpart = 1
    /\ mpc = "trailer" => tpart <= TrailerCalls
    /\ mpc = "trailer" /\ mi = NrThreads /\ tpart # 1 => AtTrailer(tpart - 1)
    /\ mpc \in Exiting \ {"trailer"} /\ mi = NrThreads => AtTrailer(TrailerCalls)

(***************************************************************************)
(* Order.  The file of a worker is fresh while none of it has been dumped  *)
(* and all of it may be: not between the dump and the rewind, and not once *)
(* main has replaced it, unless a dump has begun.                          *)
(***************************************************************************)
SameWriter(e, f) == (e.line = 0 <=> f.line = 0) /\ e.line % NrThreads = f.line % NrThreads

Sorted(s) ==
    \A j, k \in DOMAIN s : j < k /\ SameWriter(s[j], s[k]) => Before(s[j], s[k])

Fresh(w) == wpc[w] # "rewind" /\ (Direct(w) => wpc[w] = "write")

InOrder ==
    /\ Sorted(out)
    /\ \A w \in Workers : Sorted(tmp[w])
    /\ \A w \in Workers : Fresh(w) =>
          \A j \in DOMAIN out, k \in DOMAIN tmp[w] :
              SameWriter(out[j], tmp[w][k]) => Before(out[j], tmp[w][k])

(***************************************************************************)
(* The pieces of a line stand together, and all of them are there once its *)
(* handler has returned.                                                   *)
(***************************************************************************)
MidLine(w) ==
    wpc[w] = "push" /\ ~Direct(w) /\ part[w] # 1 =>
        /\ tmp[w] # <<>>
        /\ tmp[w][Len(tmp[w])].line = lineNr[w]
        /\ tmp[w][Len(tmp[w])].part = part[w] - 1

TogetherInv ==
    /\ \A k \in DOMAIN out : Torn(out[k].line) \/ TogetherAt(out, k)
    /\ \A w \in Workers : \A k \in DOMAIN tmp[w] : TogetherAt(tmp[w], k)
    /\ \A w \in Workers : MidLine(w)

WholeLines ==
    /\ \A k \in DOMAIN out :
          out[k].line = 0 \/ out[k].line \in lost \/ Torn(out[k].line)
          \/ Complete(out, out[k].line)
    /\ \A w \in Workers : Fresh(w) =>
          \A k \in DOMAIN tmp[w] :
              \/ wpc[w] = "push" /\ tmp[w][k].line = lineNr[w]
              \/ Complete(tmp[w], tmp[w][k].line)

(***************************************************************************)
(* No line gets lost on the way, unless a failed dump is to blame.         *)
(***************************************************************************)
Kept ==
    /\ \A w \in Workers, l \in Lines :
          Mine(w, l) /\ l <= lineNr[w] /\ Handled(l) =>
              \/ wpc[w] = "push" /\ l = lineNr[w]
              \/ l \in LinesOf(tmp[w]) \cup LinesOf(out) \cup lost
    /\ \A w \in Workers :
          wpc[w] = "rewind" /\ ~Direct(w) => LinesOf(tmp[w]) \subseteq LinesOf(out) \cup lost

Stops ==
    \A w \in Workers :
        /\ \A l \in Lines :
              Mine(w, l) /\ l <= lineNr[w] /\ kind[l] = "notype" =>
                  wpc[w] = "done" /\ l = lineNr[w]
        /\ wpc[w] = "done" =>
              \/ lineNr[w] = NrLines
              \/ /\ lineNr[w] \in Lines /\ Mine(w, lineNr[w])
                 /\ kind[lineNr[w]] = "notype"

\* The inductive invariant.
ArchiveInv ==
    /\ TypeOK /\ Placed /\ Handling /\ Loops /\ InOrder /\ TogetherInv /\ WholeLines
    /\ Kept /\ Stops

-----------------------------------------------------------------------------
(***************************************************************************)
(* Files and the archive only grow at their end: u is s and then the first *)
(* n pieces of t.                                                          *)
(***************************************************************************)
Extends(u, s, t, n) ==
    /\ u \in Seq(Piece) /\ s \in Seq(Piece) /\ t \in Seq(Piece)
    /\ n \in Nat /\ n <= Len(t) /\ Len(u) = Len(s) + n
    /\ \A k \in 1..Len(s) : u[k] = s[k]
    /\ \A k \in 1..n : u[Len(s) + k] = t[k]

\* What stands where in u.
LEMMA ExtendsParts ==
  ASSUME NEW u, NEW s, NEW t, NEW n, Extends(u, s, t, n)
  PROVE  /\ Len(s) \in Nat /\ Len(t) \in Nat /\ n \in Nat /\ n <= Len(t)
         /\ DOMAIN s = 1..Len(s) /\ DOMAIN t = 1..Len(t)
         /\ DOMAIN u = 1..(Len(s) + n) /\ Len(u) = Len(s) + n
         /\ \A k \in DOMAIN s : k \in DOMAIN u /\ u[k] = s[k]
         /\ \A i \in 1..n : i \in DOMAIN t /\ Len(s) + i \in DOMAIN u /\ u[Len(s) + i] = t[i]
         /\ \A k \in DOMAIN u : k \notin DOMAIN s =>
               k - Len(s) \in 1..n /\ u[k] = t[k - Len(s)] /\ k = Len(s) + (k - Len(s))
<1>1. /\ Len(s) \in Nat /\ Len(t) \in Nat /\ n \in Nat /\ n <= Len(t)
      /\ DOMAIN s = 1..Len(s) /\ DOMAIN t = 1..Len(t)
      /\ Len(u) = Len(s) + n /\ DOMAIN u = 1..Len(u)
  BY DEF Extends
<1>2. /\ \A k \in 1..Len(s) : u[k] = s[k]
      /\ \A k \in 1..n : u[Len(s) + k] = t[k]
  BY DEF Extends
<1>3. ASSUME NEW k \in DOMAIN u, k \notin DOMAIN s
      PROVE  k - Len(s) \in 1..n /\ u[k] = t[k - Len(s)] /\ k = Len(s) + (k - Len(s))
  <2>1. k - Len(s) \in 1..n /\ k = Len(s) + (k - Len(s))
    BY <1>1, <1>3
  <2> QED
    BY <1>2, <2>1
<1> QED
  BY <1>1, <1>2, <1>3

\* One stdio call extends a file, or the archive, by one piece.
LEMMA AppendExtends ==
  ASSUME NEW s \in Seq(Piece), NEW e \in Piece
  PROVE  Extends(Append(s, e), s, <<e>>, 1)
BY DEF Extends

\* write_to_stdout extends the archive by the file, or by the beginning of it.
LEMMA DumpExtends ==
  ASSUME NEW s \in Seq(Piece), NEW t \in Seq(Piece)
  PROVE  /\ Extends(s \o t, s, t, Len(t))
         /\ \A n \in 0..Len(t) : Extends(s \o SubSeq(t, 1, n), s, t, n)
<1>1. Extends(s \o t, s, t, Len(t))
  <2>1. s \o t \in Seq(Piece) /\ Len(s \o t) = Len(s) + Len(t) /\ Len(s) \in Nat /\ Len(t) \in Nat
    BY ConcatProperties, LenProperties
  <2>2. \A k \in 1..Len(s) + Len(t) :
           (s \o t)[k] = IF k <= Len(s) THEN s[k] ELSE t[k - Len(s)]
    BY ConcatProperties
  <2> QED
    BY <2>1, <2>2 DEF Extends
<1>2. ASSUME NEW n \in 0..Len(t)
      PROVE  Extends(s \o SubSeq(t, 1, n), s, t, n)
  <2> DEFINE x == SubSeq(t, 1, n)
  <2>1. x \in Seq(Piece) /\ Len(x) = n /\ \A k \in 1..n : x[k] = t[k]
    OBVIOUS
  <2> HIDE DEF x
  <2>2. s \o x \in Seq(Piece) /\ Len(s \o x) = Len(s) + Len(x) /\ Len(s) \in Nat /\ Len(t) \in Nat
    BY <2>1, ConcatProperties, LenProperties
  <2>3. \A k \in 1..Len(s) + Len(x) :
           (s \o x)[k] = IF k <= Len(s) THEN s[k] ELSE x[k - Len(s)]
    BY <2>1, ConcatProperties
  <2>4. Extends(s \o x, s, t, n)
    BY <2>1, <2>2, <2>3 DEF Extends
  <2> QED
    BY <2>4 DEF x
<1> QED
  BY <1>1, <1>2

\* Lines in an extended file.
LEMMA ExtendsLines ==
  ASSUME NEW u, NEW s, NEW t, NEW n, Extends(u, s, t, n)
  PROVE  /\ LinesOf(s) \subseteq LinesOf(u)
         /\ \A i \in 1..n : t[i].line \in LinesOf(u)
         /\ LinesOf(u) \subseteq LinesOf(s) \cup LinesOf(t)
<1>1. ASSUME NEW k \in DOMAIN s PROVE s[k].line \in LinesOf(u)
  <2>1. k \in DOMAIN u /\ u[k] = s[k]
    BY ExtendsParts
  <2> QED
    BY <2>1 DEF LinesOf
<1>2. ASSUME NEW i \in 1..n PROVE t[i].line \in LinesOf(u)
  <2>1. Len(s) + i \in DOMAIN u /\ u[Len(s) + i] = t[i]
    BY ExtendsParts
  <2> QED
    BY <2>1 DEF LinesOf
<1>3. ASSUME NEW k \in DOMAIN u PROVE u[k].line \in LinesOf(s) \cup LinesOf(t)
  <2>1. CASE k \in DOMAIN s
    BY <2>1, ExtendsParts DEF LinesOf
  <2>2. CASE k \notin DOMAIN s
    <3>1. k - Len(s) \in 1..n /\ u[k] = t[k - Len(s)]
      BY <2>2, ExtendsParts
    <3>2. k - Len(s) \in DOMAIN t
      BY <3>1, ExtendsParts
    <3> QED
      BY <3>1, <3>2 DEF LinesOf
  <2> QED
    BY <2>1, <2>2
<1>4. LinesOf(s) \subseteq LinesOf(u)
  BY ONLY <1>1 DEF LinesOf
<1>5. LinesOf(u) \subseteq LinesOf(s) \cup LinesOf(t)
  BY ONLY <1>3 DEF LinesOf
<1> QED
  BY <1>2, <1>4, <1>5

\* The line's last piece is in the file.
Has(s, l, n) == \E k \in DOMAIN s : s[k].line = l /\ (s[k].part = n \/ ~s[k].whole)

\* What was complete stays complete; what was complete in the part taken over
\* is complete.
LEMMA ExtendsHas ==
  ASSUME NEW u, NEW s, NEW t, NEW n, Extends(u, s, t, n), NEW l, NEW m
  PROVE  /\ Has(s, l, m) => Has(u, l, m)
         /\ Has(t, l, m) /\ (\A k \in n+1..Len(t) : t[k].line # l) => Has(u, l, m)
<1>1. ASSUME Has(s, l, m) PROVE Has(u, l, m)
  <2>1. PICK k \in DOMAIN s : s[k].line = l /\ (s[k].part = m \/ ~s[k].whole)
    BY <1>1 DEF Has
  <2>2. k \in DOMAIN u /\ u[k] = s[k]
    BY ExtendsParts
  <2> QED
    BY <2>1, <2>2 DEF Has
<1>2. ASSUME Has(t, l, m), \A k \in n+1..Len(t) : t[k].line # l PROVE Has(u, l, m)
  <2>1. PICK k \in DOMAIN t : t[k].line = l /\ (t[k].part = m \/ ~t[k].whole)
    BY <1>2 DEF Has
  <2>2. k \in 1..n
    BY <1>2, <2>1, ExtendsParts
  <2>3. Len(s) + k \in DOMAIN u /\ u[Len(s) + k] = t[k]
    BY <2>2, ExtendsParts
  <2> QED
    BY <2>1, <2>3 DEF Has
<1> QED
  BY <1>1, <1>2

\* A piece that was not there is one of those taken over.
LEMMA ExtendsNew ==
  ASSUME NEW u, NEW s, NEW t, NEW n, Extends(u, s, t, n), NEW k \in DOMAIN u, k \notin DOMAIN s
  PROVE  k - Len(s) \in DOMAIN t /\ u[k] = t[k - Len(s)]
<1>1. k - Len(s) \in 1..n /\ u[k] = t[k - Len(s)]
  BY ExtendsParts
<1>2. k - Len(s) \in DOMAIN t
  BY <1>1, ExtendsParts
<1> QED
  BY <1>1, <1>2

\* Pieces that stand together still do; those taken over together do.
LEMMA ExtendsTogether ==
  ASSUME NEW u, NEW s, NEW t, NEW n, Extends(u, s, t, n)
  PROVE  /\ \A k \in DOMAIN s : TogetherAt(s, k) => TogetherAt(u, k)
         /\ \A i \in 1..n : TogetherAt(t, i) => TogetherAt(u, Len(s) + i)
<1>1. ASSUME NEW k \in DOMAIN s, TogetherAt(s, k) PROVE TogetherAt(u, k)
  <2>1. k \in DOMAIN u /\ u[k] = s[k]
    BY ExtendsParts
  <2> SUFFICES ASSUME NEW p \in 1 .. s[k].part
               PROVE  LET j == k - s[k].part + p
                      IN j \in DOMAIN u /\ u[j].line = s[k].line /\ u[j].part = p
    BY <2>1 DEF TogetherAt
  <2> DEFINE j == k - s[k].part + p
  <2>2. j \in DOMAIN s /\ s[j].line = s[k].line /\ s[j].part = p
    BY <1>1 DEF TogetherAt
  <2> HIDE DEF j
  <2>3. j \in DOMAIN u /\ u[j] = s[j]
    BY <2>2, ExtendsParts
  <2> QED
    BY <2>2, <2>3 DEF j
<1>2. ASSUME NEW i \in 1..n, TogetherAt(t, i) PROVE TogetherAt(u, Len(s) + i)
  <2>1. /\ u[Len(s) + i] = t[i] /\ i \in DOMAIN t
        /\ Len(s) \in Nat /\ n \in Nat /\ DOMAIN t = 1..Len(t) /\ n <= Len(t)
        /\ t \in Seq(Piece)
    BY ExtendsParts DEF Extends
  <2>2. t[i].part \in Nat
    <3>1. t[i] \in Piece
      BY <2>1
    <3> QED
      BY <3>1 DEF Piece
  <2> SUFFICES ASSUME NEW p \in 1 .. t[i].part
               PROVE  LET j == (Len(s) + i) - t[i].part + p
                      IN j \in DOMAIN u /\ u[j].line = t[i].line /\ u[j].part = p
    BY <2>1 DEF TogetherAt
  <2> DEFINE h == i - t[i].part + p
  <2>3. h \in DOMAIN t /\ t[h].line = t[i].line /\ t[h].part = p
    BY <1>2 DEF TogetherAt
  <2>4. h \in 1..n /\ Len(s) + h = (Len(s) + i) - t[i].part + p
    BY <2>1, <2>2, <2>3
  <2> HIDE DEF h
  <2>5. Len(s) + h \in DOMAIN u /\ u[Len(s) + h] = t[h]
    BY <2>4, ExtendsParts
  <2> QED
    BY <2>3, <2>4, <2>5
<1> QED
  BY <1>1, <1>2

\* One more piece after the one that belongs before it.
LEMMA NextTogether ==
  ASSUME NEW u, NEW s, NEW e \in Piece, Extends(u, s, <<e>>, 1), e.part > 0,
         \/ e.part = 1
         \/ /\ s # <<>> /\ TogetherAt(s, Len(s))
            /\ s[Len(s)].line = e.line /\ s[Len(s)].part = e.part - 1
  PROVE  TogetherAt(u, Len(s) + 1)
<1>1. Len(s) \in Nat /\ s \in Seq(Piece) /\ e.part \in Nat
      /\ Len(s) + 1 \in DOMAIN u /\ u[Len(s) + 1] = e
  <2>1. u[Len(s) + 1] = <<e>>[1] /\ Len(s) + 1 \in DOMAIN u
    BY ExtendsParts
  <2> QED
    BY <2>1 DEF Extends, Piece
<1> SUFFICES ASSUME NEW p \in 1 .. e.part
             PROVE  LET j == (Len(s) + 1) - e.part + p
                    IN j \in DOMAIN u /\ u[j].line = e.line /\ u[j].part = p
  BY <1>1 DEF TogetherAt
<1>2. CASE p = e.part
  <2>1. (Len(s) + 1) - e.part + p = Len(s) + 1
    BY <1>1, <1>2
  <2> QED
    BY <1>1, <1>2, <2>1
<1>3. CASE p # e.part
  <2>1. /\ s # <<>> /\ TogetherAt(s, Len(s))
        /\ s[Len(s)].line = e.line /\ s[Len(s)].part = e.part - 1
        /\ p \in 1 .. e.part - 1
    BY <1>1, <1>3
  <2>2. Len(s) \in DOMAIN s
    BY <1>1, <2>1
  <2>3. TogetherAt(u, Len(s)) /\ u[Len(s)] = s[Len(s)]
    BY <2>1, <2>2, ExtendsTogether, ExtendsParts
  <2> DEFINE j == Len(s) - (e.part - 1) + p
  <2>4. j \in DOMAIN u /\ u[j].line = e.line /\ u[j].part = p
    BY <2>1, <2>3 DEF TogetherAt
  <2>5. j = (Len(s) + 1) - e.part + p
    BY <1>1
  <2> QED
    BY <2>4, <2>5
<1> QED
  BY <1>2, <1>3

\* Two sorted sequences, one after the other.
LEMMA ExtendsSorted ==
  ASSUME NEW u, NEW s, NEW t, NEW n, Extends(u, s, t, n), Sorted(s), Sorted(t),
         \A j \in DOMAIN s, i \in 1..n : SameWriter(s[j], t[i]) => Before(s[j], t[i])
  PROVE  Sorted(u)
<1> SUFFICES ASSUME NEW j \in DOMAIN u, NEW k \in DOMAIN u, j < k, SameWriter(u[j], u[k])
             PROVE  Before(u[j], u[k])
  BY DEF Sorted
<1>1. Len(s) \in Nat /\ DOMAIN s = 1..Len(s) /\ DOMAIN t = 1..Len(t) /\ DOMAIN u = 1..(Len(s) + n)
      /\ n \in Nat /\ n <= Len(t) /\ Len(t) \in Nat
  BY ExtendsParts
<1>2. CASE k \in DOMAIN s
  <2>1. j \in DOMAIN s
    BY <1>1, <1>2
  <2>2. u[j] = s[j] /\ u[k] = s[k]
    BY <1>2, <2>1, ExtendsParts
  <2> QED
    BY <1>2, <2>1, <2>2 DEF Sorted
<1>3. CASE k \notin DOMAIN s /\ j \in DOMAIN s
  <2>1. k - Len(s) \in 1..n /\ u[k] = t[k - Len(s)] /\ u[j] = s[j]
    BY <1>3, ExtendsParts
  <2> QED
    BY <1>3, <2>1
<1>4. CASE k \notin DOMAIN s /\ j \notin DOMAIN s
  <2>1. /\ k - Len(s) \in 1..n /\ u[k] = t[k - Len(s)]
        /\ j - Len(s) \in 1..n /\ u[j] = t[j - Len(s)]
    BY <1>4, ExtendsParts
  <2>2. k - Len(s) \in DOMAIN t /\ j - Len(s) \in DOMAIN t /\ j - Len(s) < k - Len(s)
    BY <1>1, <2>1
  <2> QED
    BY <2>1, <2>2 DEF Sorted
<1> QED
  BY <1>2, <1>3, <1>4

-----------------------------------------------------------------------------
(***************************************************************************)
(* What a step does to the files and the archive, in seven classes: at     *)
(* most it moves workers over lines that have nothing to write; a handler  *)
(* is entered; it writes to the worker's file, or to stdout; a file is     *)
(* dumped, by its worker or by main; it is rewound; or main writes the     *)
(* trailer.                                                                *)
(***************************************************************************)
Others(w) ==
    \A v \in Workers \ {w} :
        /\ lineNr'[v] = lineNr[v] /\ wpc'[v] = wpc[v]
        /\ part'[v] = part[v] /\ tmp'[v] = tmp[v]

Still ==
    /\ UNCHANGED <<kind, part, ino, iNo, tmp, out, lost, tpart>>
    /\ \A w \in Workers :
          /\ wpc'[w] = "push" <=> wpc[w] = "push"
          /\ Fresh(w)' => Fresh(w)
          /\ wpc'[w] = "rewind" /\ ~Direct(w)' => wpc[w] = "rewind" /\ ~Direct(w)
          /\ Direct(w) => Direct(w)'
          /\ \/ lineNr'[w] = lineNr[w]
             \/ /\ wpc[w] = "scan" /\ lineNr'[w] = lineNr[w] + 1
                /\ ~(Mine(w, lineNr'[w]) /\ Handled(lineNr'[w]))

Enters(w) ==
    /\ UNCHANGED <<kind, tmp, out, lost, tpart, swapLine>> /\ Others(w)
    /\ wpc[w] = "scan" /\ wpc'[w] = "push" /\ part'[w] = 1
    /\ lineNr'[w] = lineNr[w] + 1 /\ lineNr'[w] \in Lines
    /\ Mine(w, lineNr'[w]) /\ Handled(lineNr'[w])
    /\ iNo' = iNo + 1 /\ ino' = [ino EXCEPT ![lineNr'[w]] = iNo]

Writes(w, e) ==
    /\ UNCHANGED <<kind, lineNr, ino, iNo, lost, tpart, swapLine>>
    /\ e \in Piece /\ e.line = lineNr[w] /\ e.ino = ino[lineNr[w]] /\ e.part = part[w]
    /\ wpc[w] = "push" /\ part'[w] = part[w] + 1
    /\ \/ wpc'[w] = "push" /\ part[w] < NrParts(lineNr[w])
       \/ wpc'[w] = "dump" /\ (e.part = NrParts(lineNr[w]) \/ ~e.whole)
    /\ \A v \in Workers \ {w} : wpc'[v] = wpc[v] /\ part'[v] = part[v]

Stores(w, e) ==
    /\ Writes(w, e) /\ ~Direct(w) /\ UNCHANGED out
    /\ Extends(tmp'[w], tmp[w], <<e>>, 1)
    /\ \A v \in Workers \ {w} : tmp'[v] = tmp[v]

Prints(w, e) ==
    Writes(w, e) /\ Direct(w) /\ UNCHANGED tmp /\ Extends(out', out, <<e>>, 1)

Dumps(w, n) ==
    /\ UNCHANGED <<kind, lineNr, part, ino, iNo, tpart, swapLine>> /\ Others(w)
    /\ Fresh(w) /\ wpc[w] # "push"
    /\ Extends(out', out, tmp[w], n)
    /\ lost' = lost \cup {tmp[w][k].line : k \in n+1 .. Len(tmp[w])}
    /\ \/ wpc'[w] = "rewind" /\ tmp'[w] = tmp[w]
       \/ wpc'[w] = wpc[w] /\ tmp'[w] = <<>>

Rewinds(w) ==
    /\ UNCHANGED <<kind, lineNr, part, ino, iNo, out, lost, tpart, swapLine>> /\ Others(w)
    /\ wpc[w] = "rewind" /\ ~Direct(w) /\ wpc'[w] = "scan" /\ tmp'[w] = <<>>

Trails(e) ==
    /\ UNCHANGED <<kind, lineNr, wpc, part, ino, iNo, tmp, lost, swapLine, mi>>
    /\ e \in Piece /\ e.line = 0 /\ e.ino = 0 /\ e.part = tpart
    /\ mpc = "trailer" /\ tpart' = tpart + 1
    /\ Extends(out', out, <<e>>, 1)

\* Lines and workers are numbers, and the remainder of one is one of the other.
LEMMA Basics ==
  /\ 0 \in Workers /\ Mine(0, 0)
  /\ Workers \subseteq Nat /\ Lines \subseteq Nat /\ NrThreads \notin Workers
  /\ \A l \in Nat : l % NrThreads \in Workers
  /\ \A l : l \in Lines => l > 0 /\ l <= NrLines
BY ThreadsAssumption DEF Workers, Lines, Mine

\* Once main has replaced worker 0's file that stays so, and its loops are over.
LEMMA SwappedStays ==
  ASSUME TypeOK, Loops, [Next]_vars, Swapped
  PROVE  UNCHANGED <<swapLine, mi>>
<1>1. mpc \notin {"spawn", "join", "flush", "exit"}
  BY DEF Loops
<1>2. CASE Main
  BY <1>1, <1>2 DEF Main, Spawn, AllSpawned, Join, Flush, AllJoined, SwapFp, PushTrailer,
                    Free, Exit
<1>3. ASSUME NEW w \in Workers, Worker(w) PROVE UNCHANGED <<swapLine, mi>>
  BY <1>3 DEF Worker, SkipLine, NoType, NoArgs, NothingWritten, Handle, PushPart, TryLock,
              Dump, Rewind, ScanDone, UseAfterFree, mainVars
<1>4. CASE UNCHANGED vars
  BY <1>4 DEF vars, mainVars
<1> QED
  BY <1>2, <1>3, <1>4 DEF Next

\* A dump, whole or cut short.
LEMMA DumpIs ==
  ASSUME TypeOK, NEW w \in Workers, WriteToStdout(w)
  PROVE  \E n \in Nat :
            /\ Extends(out', out, tmp[w], n)
            /\ lost' = lost \cup {tmp[w][k].line : k \in n+1 .. Len(tmp[w])}
<1>1. tmp[w] \in Seq(Piece) /\ out \in Seq(Piece) /\ Len(tmp[w]) \in Nat
  BY DEF TypeOK
<1>2. CASE out' = out \o tmp[w] /\ UNCHANGED lost
  <2>1. Extends(out', out, tmp[w], Len(tmp[w]))
    BY <1>1, <1>2, DumpExtends
  <2>2. {tmp[w][k].line : k \in Len(tmp[w])+1 .. Len(tmp[w])} = {}
    BY <1>1
  <2>3. lost' = lost \cup {tmp[w][k].line : k \in Len(tmp[w])+1 .. Len(tmp[w])}
    BY <1>2, <2>2
  <2> QED
    BY <1>1, <2>1, <2>3
<1>3. ASSUME NEW n \in 0 .. Len(tmp[w]) - 1,
             out' = out \o SubSeq(tmp[w], 1, n),
             lost' = lost \cup {tmp[w][k].line : k \in n+1 .. Len(tmp[w])}
      PROVE  \E m \in Nat :
                /\ Extends(out', out, tmp[w], m)
                /\ lost' = lost \cup {tmp[w][k].line : k \in m+1 .. Len(tmp[w])}
  <2>1. n \in 0 .. Len(tmp[w]) /\ n \in Nat
    BY <1>1
  <2>2. Extends(out', out, tmp[w], n)
    BY <1>1, <1>3, <2>1, DumpExtends
  <2> QED
    BY <1>3, <2>1, <2>2
<1> QED
  BY <1>2, <1>3 DEF WriteToStdout

\* Every step is of one of the classes: main's.
LEMMA MainClass ==
  ASSUME TypeOK, Placed, Loops, Main
  PROVE  \/ Still
         \/ \E w \in Workers, n \in Nat : Dumps(w, n)
         \/ \E e : Trails(e)
<1> USE DEF TypeOK
<1>1. CASE Spawn
  <2>1. mi \in Workers /\ wpc[mi] = "none" /\ ~Swapped /\ mpc = "spawn"
    BY <1>1, ThreadsAssumption DEF Spawn, Loops, Workers
  <2>2. UNCHANGED <<kind, part, ino, iNo, tmp, out, lost, tpart, lineNr, swapLine>>
    BY <1>1 DEF Spawn
  <2>3. wpc' = wpc \/ wpc' = [wpc EXCEPT ![mi] = "scan"]
    BY <1>1 DEF Spawn
  <2> QED
    BY <2>1, <2>2, <2>3 DEF Still, Fresh, Direct, Swapped
<1>2. CASE AllSpawned \/ Join \/ AllJoined \/ Free \/ Exit
  <2>1. UNCHANGED <<kind, part, ino, iNo, tmp, out, lost, tpart, lineNr, wpc, swapLine>>
    BY <1>2 DEF AllSpawned, Join, AllJoined, Free, Exit, workerVars
  <2> QED
    BY <2>1 DEF Still, Fresh, Direct, Swapped
<1>3. CASE SwapFp
  <2>1. UNCHANGED <<kind, part, ino, iNo, tmp, out, lost, tpart, lineNr, wpc>> /\ ~Swapped
    BY <1>3 DEF SwapFp, workerVars, Loops
  <2> QED
    BY <2>1 DEF Still, Fresh, Direct
<1>4. CASE Flush
  <2>1. mi \in Workers /\ wpc[mi] = "done" /\ ~Swapped
    BY <1>4 DEF Flush, Loops
  <2>2. PICK n \in Nat :
            /\ Extends(out', out, tmp[mi], n)
            /\ lost' = lost \cup {tmp[mi][k].line : k \in n+1 .. Len(tmp[mi])}
    BY <1>4, <2>1, DumpIs DEF Flush
  <2>3. UNCHANGED <<kind, lineNr, wpc, part, ino, iNo, tpart, swapLine>>
    BY <1>4 DEF Flush
  <2>4. tmp' = [tmp EXCEPT ![mi] = <<>>]
    BY <1>4 DEF Flush
  <2>5. tmp'[mi] = <<>> /\ Others(mi)
    BY <2>1, <2>3, <2>4 DEF Others
  <2>6. Fresh(mi) /\ wpc[mi] # "push"
    BY <2>1 DEF Fresh, Direct
  <2>7. Dumps(mi, n)
    BY ONLY <2>2, <2>3, <2>5, <2>6 DEF Dumps
  <2> QED
    BY <2>1, <2>7
<1>5. CASE PushTrailer
  <2> DEFINE e == [line |-> 0, ino |-> 0, part |-> tpart, whole |-> TRUE]
  <2>1. e \in Piece
    BY ThreadsAssumption DEF Piece
  <2>2. out' = Append(out, e)
    BY <1>5 DEF PushTrailer
  <2>3. Extends(out', out, <<e>>, 1)
    BY <2>1, <2>2, AppendExtends
  <2>4. Trails(e)
    BY <1>5, <2>1, <2>3 DEF Trails, PushTrailer, workerVars
  <2> QED
    BY <2>4
<1> QED
  BY <1>1, <1>2, <1>3, <1>4, <1>5 DEF Main

\* And a worker's.
LEMMA WorkerClass ==
  ASSUME TypeOK, Handling, Loops, NEW w \in Workers, Worker(w)
  PROVE  \/ Still \/ Enters(w) \/ Rewinds(w)
         \/ \E e : Stores(w, e) \/ Prints(w, e)
         \/ \E n \in Nat : Dumps(w, n)
<1> USE DEF TypeOK
<1>1. CASE SkipLine(w)
  <2>1. PICK l \in Lines : Looks(w, l) /\ (~Mine(w, l) \/ kind[l] = "skip")
    BY <1>1 DEF SkipLine
  <2>2. UNCHANGED <<kind, part, ino, iNo, tmp, out, lost, tpart, wpc, swapLine>>
    BY <1>1 DEF SkipLine, mainVars
  <2>3. /\ wpc[w] = "scan" /\ lineNr'[w] = lineNr[w] + 1
        /\ \A v \in Workers \ {w} : lineNr'[v] = lineNr[v]
    BY <2>1 DEF Looks
  <2>4. lineNr'[w] = l /\ ~(Mine(w, l) /\ Handled(l))
    BY <2>1 DEF Looks, Handled
  <2> QED
    BY <2>2, <2>3, <2>4 DEF Still, Fresh, Direct, Swapped
<1>2. CASE NoType(w) \/ NothingWritten(w)
  <2>1. PICK l \in Lines : Looks(w, l) /\ kind[l] \in {"notype", "unknown", "bad"}
    BY <1>2 DEF NoType, NothingWritten
  <2>2. UNCHANGED <<kind, part, ino, iNo, tmp, out, lost, tpart, swapLine>>
    BY <1>2 DEF NoType, NothingWritten, mainVars
  <2>3. /\ wpc[w] = "scan" /\ lineNr'[w] = lineNr[w] + 1
        /\ \A v \in Workers \ {w} : lineNr'[v] = lineNr[v]
    BY <2>1 DEF Looks
  <2>4. lineNr'[w] = l /\ ~Handled(l)
    BY <2>1 DEF Looks, Handled
  <2>5. wpc'[w] \in {"done", "dump"} /\ \A v \in Workers \ {w} : wpc'[v] = wpc[v]
    BY <1>2 DEF NoType, NothingWritten, Place
  <2> QED
    BY <2>2, <2>3, <2>4, <2>5 DEF Still, Fresh, Direct, Swapped
<1>3. CASE NoArgs(w)
  <2>1. PICK l \in Lines : Looks(w, l) /\ kind[l] = "noargs"
    BY <1>3 DEF NoArgs
  <2>2. UNCHANGED <<kind, part, ino, iNo, tmp, out, lost, tpart, wpc, swapLine>>
    BY <1>3 DEF NoArgs
  <2>3. /\ wpc[w] = "scan" /\ lineNr'[w] = lineNr[w] + 1
        /\ \A v \in Workers \ {w} : lineNr'[v] = lineNr[v]
    BY <2>1 DEF Looks
  <2>4. lineNr'[w] = l /\ ~Handled(l)
    BY <2>1 DEF Looks, Handled
  <2> QED
    BY <2>2, <2>3, <2>4 DEF Still, Fresh, Direct, Swapped
<1>4. CASE Handle(w)
  <2>1. PICK l \in Lines : /\ Looks(w, l) /\ Mine(w, l) /\ kind[l] \in {"entry", "file"}
                           /\ ino' = [ino EXCEPT ![l] = iNo]
    BY <1>4 DEF Handle
  <2>2. UNCHANGED <<kind, tmp, out, lost, tpart, swapLine>> /\ iNo' = iNo + 1
    BY <1>4 DEF Handle, GetIno, mainVars
  <2>3. /\ wpc[w] = "scan" /\ lineNr'[w] = lineNr[w] + 1 /\ lineNr'[w] = l
        /\ \A v \in Workers \ {w} : lineNr'[v] = lineNr[v]
    BY <2>1 DEF Looks
  <2>4. /\ wpc'[w] = "push" /\ part'[w] = 1
        /\ \A v \in Workers \ {w} : wpc'[v] = wpc[v] /\ part'[v] = part[v]
    BY <1>4 DEF Handle, Place
  <2>5. Handled(l)
    BY <2>1 DEF Handled
  <2>6. Enters(w)
    BY <2>1, <2>2, <2>3, <2>4, <2>5 DEF Enters, Others
  <2> QED
    BY <2>6
<1>5. CASE PushPart(w)
  <2> DEFINE l == lineNr[w]
  <2>1. InHandler(w) /\ wpc[w] = "push"
    BY <1>5 DEF PushPart, Handling
  <2>2. PICK b \in BOOLEAN :
            /\ Push(w, [line |-> l, ino |-> ino[l], part |-> part[w], whole |-> b])
            /\ Place(w, IF b /\ part[w] < NrParts(l) THEN "push" ELSE "dump")
    BY <1>5 DEF PushPart
  <2> DEFINE e == [line |-> l, ino |-> ino[l], part |-> part[w], whole |-> b]
  <2>3. e \in Piece /\ e.line = l /\ e.ino = ino[l] /\ e.part = part[w] /\ e.whole = b
    BY <2>1 DEF InHandler, Piece
  <2>4. UNCHANGED <<kind, lineNr, ino, iNo, lost, tpart, swapLine>>
    BY <1>5 DEF PushPart, mainVars
  <2>5. /\ part'[w] = part[w] + 1
        /\ \A v \in Workers \ {w} : wpc'[v] = wpc[v] /\ part'[v] = part[v]
    BY <1>5, <2>2 DEF PushPart, Place
  <2>6. \/ wpc'[w] = "push" /\ part[w] < NrParts(l)
        \/ wpc'[w] = "dump" /\ ~b
        \/ wpc'[w] = "dump" /\ ~(part[w] < NrParts(l))
    BY <2>2 DEF Place
  <2>7. part[w] <= NrParts(l) /\ part[w] \in Nat /\ NrParts(l) \in Nat
    BY <2>1, CallsAssumption DEF InHandler, NrParts
  <2>8. Push(w, e)
    BY <2>2
  <2> HIDE DEF e
  <2>9. Writes(w, e)
    BY <2>1, <2>3, <2>4, <2>5, <2>6, <2>7 DEF Writes
  <2>10. CASE Direct(w)
    <3>1. out' = Append(out, e) /\ UNCHANGED tmp
      BY <2>8, <2>10 DEF Push
    <3>2. Extends(out', out, <<e>>, 1)
      BY <2>3, <3>1, AppendExtends
    <3> QED
      BY <2>9, <2>10, <3>1, <3>2 DEF Prints
  <2>11. CASE ~Direct(w)
    <3>1. tmp' = [tmp EXCEPT ![w] = Append(@, e)] /\ UNCHANGED out
      BY <2>8, <2>11 DEF Push
    <3>2. tmp'[w] = Append(tmp[w], e) /\ \A v \in Workers \ {w} : tmp'[v] = tmp[v]
      BY <3>1
    <3>3. Extends(tmp'[w], tmp[w], <<e>>, 1)
      BY <2>3, <3>2, AppendExtends
    <3> QED
      BY <2>9, <2>11, <3>1, <3>2, <3>3 DEF Stores
  <2> QED
    BY <2>10, <2>11
<1>6. CASE TryLock(w)
  <2>1. UNCHANGED <<kind, part, ino, iNo, tmp, out, lost, tpart, lineNr, swapLine>>
    BY <1>6 DEF TryLock, mainVars
  <2>2. /\ wpc[w] = "dump"
        /\ wpc'[w] \in {"rewind", "write", "scan"}
        /\ wpc'[w] = "rewind" => Direct(w)
        /\ wpc'[w] = "write" => ~Direct(w)
        /\ \A v \in Workers \ {w} : wpc'[v] = wpc[v]
    BY <1>6 DEF TryLock, Place
  <2> QED
    BY <2>1, <2>2 DEF Still, Fresh, Direct, Swapped
<1>7. CASE Dump(w)
  <2>1. wpc[w] = "write" /\ Fresh(w) /\ wpc[w] # "push"
    BY <1>7 DEF Dump, Fresh
  <2>2. PICK n \in Nat :
            /\ Extends(out', out, tmp[w], n)
            /\ lost' = lost \cup {tmp[w][k].line : k \in n+1 .. Len(tmp[w])}
    BY <1>7, DumpIs DEF Dump
  <2>3. UNCHANGED <<kind, lineNr, part, ino, iNo, tpart, swapLine, tmp>>
    BY <1>7 DEF Dump, mainVars
  <2>4. wpc'[w] = "rewind" /\ Others(w)
    BY <1>7, <2>3 DEF Dump, Place, Others
  <2>5. Dumps(w, n)
    BY ONLY <2>1, <2>2, <2>3, <2>4 DEF Dumps
  <2> QED
    BY <2>5
<1>8. CASE Rewind(w)
  <2>1. UNCHANGED <<kind, lineNr, part, ino, iNo, out, lost, tpart, swapLine>>
    BY <1>8 DEF Rewind, mainVars
  <2>2. /\ wpc[w] = "rewind" /\ wpc'[w] = "scan"
        /\ \A v \in Workers \ {w} : wpc'[v] = wpc[v]
    BY <1>8 DEF Rewind, Place
  <2>3. CASE Direct(w)
    <3>1. UNCHANGED tmp
      BY <1>8, <2>3 DEF Rewind
    <3> QED
      BY <2>1, <2>2, <2>3, <3>1 DEF Still, Fresh, Direct, Swapped
  <2>4. CASE ~Direct(w)
    <3>1. tmp'[w] = <<>> /\ \A v \in Workers \ {w} : tmp'[v] = tmp[v]
      BY <1>8, <2>4 DEF Rewind
    <3>2. Rewinds(w)
      BY <2>1, <2>2, <2>4, <3>1 DEF Rewinds, Others
    <3> QED
      BY <3>2
  <2> QED
    BY <2>3, <2>4
<1>9. CASE ScanDone(w)
  <2>1. UNCHANGED <<kind, part, ino, iNo, tmp, out, lost, tpart, lineNr, swapLine>>
    BY <1>9 DEF ScanDone, mainVars
  <2>2. wpc[w] = "scan" /\ wpc'[w] = "done" /\ \A v \in Workers \ {w} : wpc'[v] = wpc[v]
    BY <1>9 DEF ScanDone, Place
  <2> QED
    BY <2>1, <2>2 DEF Still, Fresh, Direct, Swapped
<1>10. CASE UseAfterFree(w)
  BY <1>10 DEF UseAfterFree, workerVars, Still, Fresh, Direct, Swapped
<1> QED
  BY <1>1, <1>2, <1>3, <1>4, <1>5, <1>6, <1>7, <1>8, <1>9, <1>10 DEF Worker

Class ==
    \/ Still
    \/ \E w \in Workers :
          \/ Enters(w) \/ Rewinds(w)
          \/ \E e : Stores(w, e) \/ Prints(w, e)
          \/ \E n \in Nat : Dumps(w, n)
    \/ \E e : Trails(e)

LEMMA StepClass ==
  ASSUME TypeOK, Placed, Handling, Loops, [Next]_vars
  PROVE  Class
<1>1. CASE Main
  BY <1>1, MainClass DEF Class
<1>2. ASSUME NEW w \in Workers, Worker(w) PROVE Class
  BY <1>2, WorkerClass DEF Class
<1>3. CASE UNCHANGED vars
  BY <1>3 DEF vars, workerVars, mainVars, Class, Still, Fresh, Direct, Swapped
<1> QED
  BY <1>1, <1>2, <1>3 DEF Next

-----------------------------------------------------------------------------
(***************************************************************************)
(* Types                                                                   *)
(***************************************************************************)
LEMMA TypeStep ==
  ASSUME TypeOK, Placed, Handling, Loops, [Next]_vars
  PROVE  TypeOK'
<1> USE DEF TypeOK
<1>0. /\ NrLines \in Nat /\ NrThreads \in Nat \ {0} /\ \A w \in Workers : tmp[w] \in Seq(Piece)
      /\ NotYet = NrLines + 1 /\ Lines = 1..NrLines /\ 0 \in Workers
  BY ThreadsAssumption, Basics DEF NotYet, Lines
<1>1. /\ kind' \in [Lines -> Kinds]
      /\ tpart' \in Nat \ {0}
      /\ ino' \in [Lines -> Nat] /\ iNo' \in Nat
      /\ out' \in Seq(Piece)
      /\ lost' \subseteq Lines
  <2>1. ASSUME NEW w \in Workers, NEW n \in Nat, Dumps(w, n)
        PROVE  lost' \subseteq Lines
    <3>1. \A k \in n+1 .. Len(tmp[w]) : tmp[w][k].line \in Lines
      <4> SUFFICES ASSUME NEW k \in n+1 .. Len(tmp[w]) PROVE tmp[w][k].line \in Lines
        OBVIOUS
      <4>1. k \in DOMAIN tmp[w]
        BY <1>0
      <4> QED
        BY <4>1 DEF Placed, Pushed
    <3> QED
      BY <2>1, <3>1 DEF Dumps
  <2>2. CASE Still
    BY <2>2 DEF Still
  <2>3. ASSUME NEW w \in Workers, Enters(w) \/ Rewinds(w) \/ \E e : Stores(w, e) \/ Prints(w, e)
        PROVE  <1>1
    BY <2>3 DEF Enters, Rewinds, Stores, Prints, Writes, Extends
  <2>4. ASSUME NEW w \in Workers, NEW n \in Nat, Dumps(w, n) PROVE <1>1
    BY <2>1, <2>4 DEF Dumps, Extends
  <2>5. ASSUME NEW e, Trails(e) PROVE <1>1
    BY <2>5 DEF Trails, Extends
  <2> QED
    BY <2>2, <2>3, <2>4, <2>5, StepClass DEF Class
<1>2. CASE Main
  <2>1. CASE Spawn
    <3>1. mi \in Workers
      BY <1>0, <2>1 DEF Spawn, Workers
    <3>2. mi' \in 0..NrThreads
      BY <1>0, <2>1, <3>1 DEF Spawn
    <3>3. wpc' \in [Workers -> {"none", "scan", "push", "dump", "write", "rewind", "done"}]
      BY <2>1, <3>1 DEF Spawn
    <3>4. ec' \in BOOLEAN
      BY <2>1 DEF Spawn
    <3> QED
      BY <1>1, <2>1, <3>2, <3>3, <3>4 DEF Spawn
  <2>2. CASE AllSpawned
    BY <1>0, <1>1, <2>2 DEF AllSpawned, workerVars
  <2>3. CASE Join
    BY <1>1, <2>3 DEF Join, workerVars, MainThread
  <2>4. CASE Flush
    <3>1. mi \in Workers
      BY <2>4 DEF Flush, Loops
    <3>2. tmp' \in [Workers -> Seq(Piece)]
      BY <2>4, <3>1 DEF Flush
    <3>3. mi' \in 0..NrThreads
      BY <1>0, <2>4, <3>1 DEF Flush, Workers
    <3> QED
      BY <1>1, <2>4, <3>2, <3>3 DEF Flush
  <2>5. CASE AllJoined \/ Free \/ Exit
    BY <1>1, <2>5 DEF AllJoined, Free, Exit, workerVars
  <2>6. CASE SwapFp
    <3>1. swapLine' \in 0..NotYet
      BY <1>0, <2>6 DEF SwapFp
    <3> QED
      BY <1>1, <2>6, <3>1 DEF SwapFp, workerVars
  <2>7. CASE PushTrailer
    BY <1>1, <2>7 DEF PushTrailer, workerVars
  <2> QED
    BY <1>2, <2>1, <2>2, <2>3, <2>4, <2>5, <2>6, <2>7 DEF Main
<1>3. ASSUME NEW w \in Workers, Worker(w) PROVE TypeOK'
  <2>1. CASE SkipLine(w) \/ NoArgs(w) \/ NoType(w) \/ NothingWritten(w)
    <3>1. PICK l \in Lines : Looks(w, l)
      BY <2>1 DEF SkipLine, NoArgs, NoType, NothingWritten
    <3>2. lineNr' \in [Workers -> 0..NrLines]
      BY <1>0, <3>1 DEF Looks
    <3>3. wec' \in [Workers -> BOOLEAN]
      BY <2>1 DEF SkipLine, NoArgs, NoType, NothingWritten
    <3> QED
      BY <1>1, <2>1, <3>2, <3>3 DEF SkipLine, NoArgs, NoType, NothingWritten, mainVars, Place
  <2>2. CASE Handle(w)
    <3>1. lineNr' \in [Workers -> 0..NrLines]
      BY <1>0, <2>2 DEF Handle, Looks
    <3>2. part' \in [Workers -> Nat \ {0}]
      BY <2>2 DEF Handle
    <3>3. wpc' \in [Workers -> {"none", "scan", "push", "dump", "write", "rewind", "done"}]
      BY <2>2 DEF Handle, Place
    <3> QED
      BY <1>1, <2>2, <3>1, <3>2, <3>3 DEF Handle, mainVars
  <2>3. CASE PushPart(w)
    <3>1. tmp' \in [Workers -> Seq(Piece)]
      <4>1. InHandler(w)
        BY <2>3 DEF PushPart, Handling
      <4>2. PICK b \in BOOLEAN :
               Push(w, [line |-> lineNr[w], ino |-> ino[lineNr[w]], part |-> part[w], whole |-> b])
        BY <2>3 DEF PushPart
      <4> DEFINE e == [line |-> lineNr[w], ino |-> ino[lineNr[w]], part |-> part[w], whole |-> b]
      <4>3. e \in Piece
        BY <4>1 DEF InHandler, Piece
      <4> HIDE DEF e
      <4>4. tmp' = tmp \/ tmp' = [tmp EXCEPT ![w] = Append(@, e)]
        BY <4>2 DEF Push, e
      <4>5. Append(tmp[w], e) \in Seq(Piece)
        BY <1>0, <4>3
      <4> QED
        BY <4>4, <4>5
    <3>2. wpc' \in [Workers -> {"none", "scan", "push", "dump", "write", "rewind", "done"}]
      BY <2>3 DEF PushPart, Place
    <3>3. wec' \in [Workers -> BOOLEAN] /\ part' \in [Workers -> Nat \ {0}]
      BY <2>3 DEF PushPart
    <3> QED
      BY <1>1, <2>3, <3>1, <3>2, <3>3 DEF PushPart, mainVars
  <2>4. CASE TryLock(w)
    BY <1>1, <2>4 DEF TryLock, mainVars, Place
  <2>5. CASE Dump(w) \/ ScanDone(w) \/ UseAfterFree(w)
    BY <1>1, <2>5 DEF Dump, ScanDone, UseAfterFree, mainVars, workerVars, Place
  <2>6. CASE Rewind(w)
    BY <1>1, <2>6 DEF Rewind, mainVars, Place
  <2> QED
    BY <1>3, <2>1, <2>2, <2>3, <2>4, <2>5, <2>6 DEF Worker
<1>4. CASE UNCHANGED vars
  BY <1>4 DEF vars, workerVars, mainVars
<1> QED
  BY <1>2, <1>3, <1>4 DEF Next

-----------------------------------------------------------------------------
(***************************************************************************)
(* Placed and Handling                                                     *)
(***************************************************************************)
\* Pushed(w, e) and InOut(e) after the step, for a piece e of before.
PushedNext(w, e) ==
    /\ e.line \in Lines /\ Mine(w, e.line) /\ kind'[e.line] \in {"entry", "file"}
    /\ e.ino = ino'[e.line] /\ e.ino > 0 /\ e.part > 0
    /\ \/ e.line < lineNr'[w]
       \/ e.line = lineNr'[w] /\ (wpc'[w] = "push" => e.part < part'[w])

InOutNext(e) ==
    \/ e.line = 0 /\ e.ino = 0 /\ e.part > 0 /\ e.part < tpart'
    \/ \A w \in Workers : Mine(w, e.line) => PushedNext(w, e)

LEMMA PushedStays ==
  ASSUME TypeOK, Class, NEW v \in Workers, NEW e, Pushed(v, e), e.part \in Nat
  PROVE  PushedNext(v, e)
<1> USE DEF TypeOK
<1>0. /\ lineNr[v] \in Nat /\ part[v] \in Nat /\ e.line \in Nat /\ e.line <= lineNr[v]
      /\ kind[e.line] \in {"entry", "file"}
  <2>1. lineNr[v] \in Nat /\ part[v] \in Nat /\ e.line \in Nat
    <3>1. lineNr[v] \in 0..NrLines /\ NrLines \in Nat /\ part[v] \in Nat
      BY ThreadsAssumption
    <3>2. e.line \in Lines
      BY DEF Pushed
    <3>3. e.line \in Nat
      BY ONLY <3>2, Basics
    <3> QED
      BY ONLY <3>1, <3>3
  <2> QED
    BY <2>1 DEF Pushed, Handled
<1>1. CASE Still
  <2>1. kind' = kind /\ ino' = ino /\ part' = part /\ (wpc'[v] = "push" <=> wpc[v] = "push")
    BY <1>1 DEF Still
  <2>2. lineNr'[v] = lineNr[v] \/ lineNr'[v] = lineNr[v] + 1
    BY <1>1 DEF Still
  <2> QED
    BY <1>0, <2>1, <2>2 DEF Pushed, PushedNext
<1>2. ASSUME NEW w \in Workers, Enters(w) PROVE PushedNext(v, e)
  <2>1. kind' = kind /\ lineNr'[w] \in Lines /\ ino' = [ino EXCEPT ![lineNr'[w]] = iNo]
    BY <1>2 DEF Enters
  <2>2. e.line # lineNr'[w]
    <3>1. CASE v = w
      BY <1>0, <1>2, <3>1 DEF Enters
    <3>2. CASE v # w
      BY <1>2, <3>2 DEF Enters, Pushed, Mine
    <3> QED
      BY <3>1, <3>2
  <2>3. ino'[e.line] = ino[e.line]
    BY <2>1, <2>2 DEF Pushed
  <2>4. CASE v = w
    BY <1>0, <1>2, <2>1, <2>3, <2>4 DEF Enters, Pushed, PushedNext
  <2>5. CASE v # w
    BY <1>0, <1>2, <2>1, <2>3, <2>5 DEF Enters, Others, Pushed, PushedNext
  <2> QED
    BY <2>4, <2>5
<1>3. ASSUME NEW w \in Workers, NEW f, Writes(w, f) PROVE PushedNext(v, e)
  BY <1>0, <1>3 DEF Writes, Pushed, PushedNext
<1>4. ASSUME NEW w \in Workers, NEW n \in Nat, Dumps(w, n) PROVE PushedNext(v, e)
  BY <1>0, <1>4 DEF Dumps, Others, Pushed, PushedNext
<1>5. ASSUME NEW w \in Workers, Rewinds(w) PROVE PushedNext(v, e)
  BY <1>0, <1>5 DEF Rewinds, Others, Pushed, PushedNext
<1>6. ASSUME NEW f, Trails(f) PROVE PushedNext(v, e)
  BY <1>0, <1>6 DEF Trails, Pushed, PushedNext
<1> QED
  BY <1>1, <1>2, <1>3, <1>4, <1>5, <1>6 DEF Class, Stores, Prints

\* The piece that a handler writes.
LEMMA PieceWritten ==
  ASSUME TypeOK, Handling, NEW w \in Workers, NEW e, Writes(w, e)
  PROVE  PushedNext(w, e) /\ e.line \in Lines /\ Mine(w, e.line)
<1>1. /\ InHandler(w) /\ e.line = lineNr[w] /\ e.ino = ino[lineNr[w]] /\ e.part = part[w]
      /\ part[w] \in Nat \ {0} /\ part'[w] = part[w] + 1
      /\ kind' = kind /\ ino' = ino /\ lineNr' = lineNr
  BY DEF TypeOK, Writes, Handling
<1> QED
  BY <1>1 DEF InHandler, Handled, PushedNext

LEMMA InOutStays ==
  ASSUME TypeOK, Class, NEW e \in Piece, InOut(e)
  PROVE  InOutNext(e)
<1>1. e.part \in Nat
  BY DEF Piece
<1>2. CASE OfTrailer(e)
  <2>1. tpart' \in {tpart, tpart + 1}
    BY DEF Class, Still, Enters, Rewinds, Stores, Prints, Writes, Dumps, Trails
  <2> QED
    BY <1>1, <1>2, <2>1 DEF OfTrailer, InOutNext, TypeOK
<1>3. CASE \A w \in Workers : Mine(w, e.line) => Pushed(w, e)
  BY <1>1, <1>3, PushedStays DEF InOutNext
<1> QED
  BY <1>2, <1>3 DEF InOut

\* A piece is in the file of the line's worker.
LEMMA InOutOf ==
  ASSUME NEW w \in Workers, NEW e, PushedNext(w, e)
  PROVE  InOutNext(e)
BY DEF PushedNext, InOutNext, Mine

\* What a step does to a file, and to a worker's line number.
LEMMA TmpNext ==
  ASSUME Class, NEW v \in Workers
  PROVE  tmp'[v] = tmp[v] \/ tmp'[v] = <<>> \/ \E e : Stores(v, e)
<1>1. CASE Still \/ \E e : Trails(e)
  BY <1>1 DEF Still, Trails
<1>2. ASSUME NEW w \in Workers, Enters(w) \/ \E e : Prints(w, e)
      PROVE  tmp' = tmp
  BY <1>2 DEF Enters, Prints
<1>3. ASSUME NEW w \in Workers, Rewinds(w) \/ \E n \in Nat : Dumps(w, n)
      PROVE  tmp'[v] = tmp[v] \/ tmp'[v] = <<>>
  BY <1>3 DEF Rewinds, Dumps, Others
<1>4. ASSUME NEW w \in Workers, NEW e, Stores(w, e)
      PROVE  tmp'[v] = tmp[v] \/ \E f : Stores(v, f)
  <2>1. CASE v = w
    BY <1>4, <2>1
  <2>2. CASE v # w
    BY <1>4, <2>2 DEF Stores
  <2> QED
    BY <2>1, <2>2
<1> QED
  BY <1>1, <1>2, <1>3, <1>4 DEF Class

LEMMA LineNrNext ==
  ASSUME Class, NEW v \in Workers
  PROVE  lineNr'[v] = lineNr[v] \/ lineNr'[v] = lineNr[v] + 1
<1>1. CASE Still \/ \E e : Trails(e)
  BY <1>1 DEF Still, Trails
<1>2. ASSUME NEW w \in Workers, Enters(w) PROVE lineNr'[v] \in {lineNr[v], lineNr[v] + 1}
  BY <1>2 DEF Enters, Others
<1>3. ASSUME NEW w \in Workers, Rewinds(w) \/ \E n \in Nat : Dumps(w, n)
      PROVE  lineNr' = lineNr
  BY <1>3 DEF Rewinds, Dumps
<1>4. ASSUME NEW w \in Workers, NEW e, Writes(w, e) PROVE lineNr' = lineNr
  BY <1>4 DEF Writes
<1> QED
  BY <1>1, <1>2, <1>3, <1>4 DEF Class, Stores, Prints

LEMMA PlacedStep ==
  ASSUME TypeOK, Placed, Handling, Class
  PROVE  Placed'
<1> USE DEF TypeOK
<1>0. \A w \in Workers : tmp[w] \in Seq(Piece) /\ \A k \in DOMAIN tmp[w] : tmp[w][k] \in Piece
  OBVIOUS
<1>00. out \in Seq(Piece) /\ \A k \in DOMAIN out : out[k] \in Piece
  OBVIOUS
<1>1. ASSUME NEW v \in Workers, NEW k \in DOMAIN tmp[v] PROVE PushedNext(v, tmp[v][k])
  <2>1. tmp[v][k].part \in Nat
    BY <1>0 DEF Piece
  <2>2. Pushed(v, tmp[v][k])
    BY DEF Placed
  <2> QED
    BY <2>1, <2>2, PushedStays
<1>2. ASSUME NEW k \in DOMAIN out PROVE InOutNext(out[k])
  <2>1. InOut(out[k])
    BY DEF Placed
  <2> QED
    BY <1>00, <2>1, InOutStays
<1>3. ASSUME NEW v \in Workers, NEW k \in DOMAIN tmp'[v] PROVE PushedNext(v, tmp'[v][k])
  <2>1. CASE tmp'[v] = tmp[v]
    BY <1>1, <2>1
  <2>2. CASE tmp'[v] = <<>>
    BY <2>2
  <2>3. ASSUME NEW e, Stores(v, e) PROVE PushedNext(v, tmp'[v][k])
    <3>1. Extends(tmp'[v], tmp[v], <<e>>, 1) /\ PushedNext(v, e)
      BY <2>3, PieceWritten DEF Stores
    <3>2. CASE k \in DOMAIN tmp[v]
      BY <1>1, <3>1, <3>2, ExtendsParts
    <3>3. CASE k \notin DOMAIN tmp[v]
      <4>1. k - Len(tmp[v]) \in 1..1 /\ tmp'[v][k] = <<e>>[k - Len(tmp[v])]
        BY <3>1, <3>3, ExtendsParts
      <4>2. tmp'[v][k] = e
        BY <4>1
      <4> QED
        BY <3>1, <4>2
    <3> QED
      BY <3>2, <3>3
  <2>4. tmp'[v] = tmp[v] \/ tmp'[v] = <<>> \/ \E e : Stores(v, e)
    BY TmpNext
  <2> QED
    BY <2>1, <2>2, <2>3, <2>4
<1>4. ASSUME NEW k \in DOMAIN out' PROVE InOutNext(out'[k])
  <2>1. CASE out' = out
    BY <1>2, <2>1
  <2>2. ASSUME NEW w \in Workers, NEW n \in Nat, Dumps(w, n) PROVE InOutNext(out'[k])
    <3>1. Extends(out', out, tmp[w], n)
      BY <2>2 DEF Dumps
    <3>2. CASE k \in DOMAIN out
      BY <1>2, <3>1, <3>2, ExtendsParts
    <3>3. CASE k \notin DOMAIN out
      <4>1. k - Len(out) \in DOMAIN tmp[w] /\ out'[k] = tmp[w][k - Len(out)]
        BY <3>1, <3>3, ExtendsParts
      <4> QED
        BY <1>1, <4>1, InOutOf
    <3> QED
      BY <3>2, <3>3
  <2>3. ASSUME NEW e, Extends(out', out, <<e>>, 1), InOutNext(e) PROVE InOutNext(out'[k])
    <3>2. CASE k \in DOMAIN out
      BY <1>2, <2>3, <3>2, ExtendsParts
    <3>3. CASE k \notin DOMAIN out
      <4>1. k - Len(out) \in 1..1 /\ out'[k] = <<e>>[k - Len(out)]
        BY <2>3, <3>3, ExtendsParts
      <4>2. out'[k] = e
        BY <4>1
      <4> QED
        BY <2>3, <4>2
    <3> QED
      BY <3>2, <3>3
  <2>4. ASSUME NEW w \in Workers, NEW e, Prints(w, e) PROVE InOutNext(out'[k])
    BY <2>3, <2>4, PieceWritten, InOutOf DEF Prints
  <2>5. ASSUME NEW e, Trails(e) PROVE InOutNext(out'[k])
    <3>1. InOutNext(e)
      BY <2>5 DEF Trails, InOutNext
    <3> QED
      BY <2>3, <2>5, <3>1 DEF Trails
  <2> QED
    BY <2>1, <2>2, <2>4, <2>5 DEF Class, Still, Enters, Rewinds, Stores
<1>5. \A w \in Workers : lineNr'[w] \in Nat /\ lineNr[w] <= lineNr'[w]
  <2> SUFFICES ASSUME NEW w \in Workers PROVE lineNr'[w] \in Nat /\ lineNr[w] <= lineNr'[w]
    OBVIOUS
  <2>1. lineNr[w] \in Nat
    BY ThreadsAssumption
  <2>2. lineNr'[w] = lineNr[w] \/ lineNr'[w] = lineNr[w] + 1
    BY LineNrNext
  <2> QED
    BY <2>1, <2>2
<1>6. kind' = kind
  BY DEF Class, Still, Enters, Rewinds, Stores, Prints, Writes, Dumps, Trails
<1>7. ASSUME NEW l \in lost'
      PROVE  kind'[l] \in {"entry", "file"} /\ \A w \in Workers : Mine(w, l) => l <= lineNr'[w]
  <2>0. \A w \in Workers : lineNr[w] \in Nat
    BY ThreadsAssumption
  <2>1. CASE l \in lost
    <3>1. l \in Nat
      BY <2>1, Basics
    <3> QED
      BY <1>5, <1>6, <2>0, <2>1, <3>1 DEF Placed, Handled
  <2>2. ASSUME NEW w \in Workers, NEW n \in Nat, Dumps(w, n), l \notin lost
        PROVE  kind'[l] \in {"entry", "file"} /\ \A v \in Workers : Mine(v, l) => l <= lineNr'[v]
    <3>1. PICK k \in n+1 .. Len(tmp[w]) : l = tmp[w][k].line
      BY <2>2 DEF Dumps
    <3>2. k \in DOMAIN tmp[w]
      BY <1>0
    <3>3. Pushed(w, tmp[w][k])
      BY <3>2 DEF Placed
    <3>4. /\ l \in Lines /\ Mine(w, l) /\ Handled(l)
          /\ l < lineNr[w] \/ l = lineNr[w]
      BY <3>1, <3>3 DEF Pushed
    <3>5. l <= lineNr'[w]
      <4>1. l \in Nat /\ lineNr[w] \in Nat /\ lineNr'[w] \in Nat /\ lineNr[w] <= lineNr'[w]
        BY <1>5, <2>0, <3>4, Basics
      <4> QED
        BY <3>4, <4>1
    <3> QED
      BY <1>6, <3>4, <3>5 DEF Handled, Mine
  <2> QED
    BY <2>1, <2>2 DEF Class, Still, Enters, Rewinds, Stores, Prints, Writes, Trails
<1>8. \A w \in Workers : \A k \in DOMAIN tmp'[w] : Pushed(w, tmp[w][k])'
  BY <1>3 DEF PushedNext, Pushed, Handled
<1>9. \A k \in DOMAIN out' : InOut(out[k])'
  BY <1>4 DEF InOutNext, PushedNext, InOut, OfTrailer, Pushed, Handled
<1> QED
  BY <1>7, <1>8, <1>9 DEF Placed, Handled

LEMMA HandlingStep ==
  ASSUME TypeOK, Handling, Class
  PROVE  Handling'
<1> USE DEF TypeOK
<1>0. \A l \in Lines : ino[l] \in Nat /\ ino[l] < iNo
  BY DEF Handling
<1>1. /\ iNo' > 0
      /\ \A l \in Lines : ino'[l] < iNo'
      /\ \A l, m \in Lines : ino'[l] > 0 /\ ino'[l] = ino'[m] => l = m
  <2>1. CASE UNCHANGED <<ino, iNo>>
    BY <2>1 DEF Handling
  <2>2. ASSUME NEW w \in Workers, Enters(w) PROVE <1>1
    <3>1. lineNr'[w] \in Lines /\ ino' = [ino EXCEPT ![lineNr'[w]] = iNo] /\ iNo' = iNo + 1
      BY <2>2 DEF Enters
    <3> DEFINE n == lineNr'[w]
    <3> HIDE DEF n
    <3>2. n \in Lines /\ ino'[n] = iNo /\ \A l \in Lines \ {n} : ino'[l] = ino[l]
      BY <3>1 DEF n
    <3>3. iNo > 0 /\ \A l, m \in Lines : ino[l] > 0 /\ ino[l] = ino[m] => l = m
      BY DEF Handling
    <3>4. iNo' > 0 /\ \A l \in Lines : ino'[l] < iNo'
      BY <1>0, <3>1, <3>2, <3>3
    <3>5. \A l, m \in Lines : ino'[l] > 0 /\ ino'[l] = ino'[m] => l = m
      <4> SUFFICES ASSUME NEW l \in Lines, NEW m \in Lines, ino'[l] > 0, ino'[l] = ino'[m]
                   PROVE  l = m
        OBVIOUS
      <4>1. ino[l] \in Nat /\ ino[m] \in Nat /\ ino[l] < iNo /\ ino[m] < iNo /\ iNo \in Nat
        BY <1>0
      <4>2. CASE l # n /\ m # n
        BY <3>2, <3>3, <4>2
      <4>3. CASE l = n /\ m # n
        BY <3>2, <4>1, <4>3
      <4>4. CASE l # n /\ m = n
        BY <3>2, <4>1, <4>4
      <4> QED
        BY <4>2, <4>3, <4>4
    <3> QED
      BY <3>4, <3>5
  <2> QED
    BY <2>1, <2>2 DEF Class, Still, Rewinds, Stores, Prints, Writes, Dumps, Trails
<1>2. ASSUME NEW v \in Workers, wpc'[v] = "push" PROVE InHandler(v)'
  <2>1. ASSUME wpc[v] = "push", UNCHANGED <<kind, ino>>, lineNr'[v] = lineNr[v],
               part'[v] <= NrParts(lineNr[v])
        PROVE  InHandler(v)'
    BY <2>1 DEF Handling, InHandler, Handled, NrParts
  <2>2. ASSUME wpc[v] = "push", UNCHANGED <<kind, ino>>, lineNr'[v] = lineNr[v],
               part'[v] = part[v]
        PROVE  InHandler(v)'
    BY <2>1, <2>2 DEF Handling, InHandler
  <2>3. CASE Still
    BY <1>2, <2>2, <2>3 DEF Still
  <2>4. ASSUME NEW w \in Workers, Enters(w) PROVE InHandler(v)'
    <3>1. lineNr'[w] \in Lines /\ ino' = [ino EXCEPT ![lineNr'[w]] = iNo] /\ kind' = kind
      BY <2>4 DEF Enters
    <3>2. CASE v = w
      <4>1. ino'[lineNr'[w]] = iNo /\ iNo > 0
        BY <3>1 DEF Handling
      <4>2. part'[w] = 1 /\ Mine(w, lineNr'[w]) /\ Handled(lineNr'[w])
        BY <2>4 DEF Enters
      <4> QED
        BY <3>1, <3>2, <4>1, <4>2, CallsAssumption DEF InHandler, Handled, NrParts
    <3>3. CASE v # w
      <4>1. InHandler(v) /\ lineNr'[v] = lineNr[v] /\ part'[v] = part[v]
        BY <1>2, <2>4, <3>3 DEF Enters, Others, Handling
      <4>2. Mine(w, lineNr'[w])
        BY <2>4 DEF Enters
      <4>3. lineNr[v] # lineNr'[w]
        BY <3>3, <4>1, <4>2 DEF InHandler, Mine
      <4>4. ino'[lineNr[v]] = ino[lineNr[v]]
        BY <3>1, <4>1, <4>3 DEF InHandler
      <4> QED
        BY <3>1, <4>1, <4>4 DEF InHandler, Handled, NrParts
    <3> QED
      BY <3>2, <3>3
  <2>5. ASSUME NEW w \in Workers, NEW e, Writes(w, e) PROVE InHandler(v)'
    <3>1. CASE v = w
      <4>1. part[w] < NrParts(lineNr[w]) /\ part'[w] = part[w] + 1 /\ NrParts(lineNr[w]) \in Nat
        BY <1>2, <2>5, <3>1, CallsAssumption DEF Writes, NrParts
      <4>2. part'[w] <= NrParts(lineNr[w])
        BY <4>1
      <4> QED
        BY <2>1, <2>5, <3>1, <4>2 DEF Writes
    <3>2. CASE v # w
      BY <1>2, <2>2, <2>5, <3>2 DEF Writes
    <3> QED
      BY <3>1, <3>2
  <2>6. ASSUME NEW w \in Workers, NEW n \in Nat, Dumps(w, n) PROVE InHandler(v)'
    BY <1>2, <2>2, <2>6 DEF Dumps, Others
  <2>7. ASSUME NEW w \in Workers, Rewinds(w) PROVE InHandler(v)'
    BY <1>2, <2>2, <2>7 DEF Rewinds, Others
  <2>8. ASSUME NEW e, Trails(e) PROVE InHandler(v)'
    BY <1>2, <2>2, <2>8 DEF Trails
  <2> QED
    BY <2>3, <2>4, <2>5, <2>6, <2>7, <2>8 DEF Class, Stores, Prints
<1> QED
  BY <1>1, <1>2 DEF Handling

-----------------------------------------------------------------------------
(***************************************************************************)
(* InOrder                                                                 *)
(***************************************************************************)
\* What a worker wrote comes before what it writes now.
LEMMA AfterAll ==
  ASSUME TypeOK, Handling, NEW w \in Workers, NEW e, Writes(w, e), NEW f \in Piece,
         SameWriter(f, e), Pushed(w, f) \/ InOut(f)
  PROVE  Before(f, e)
<1>1. e.line \in Lines /\ Mine(w, e.line) /\ e.line = lineNr[w] /\ e.part = part[w]
      /\ wpc[w] = "push"
  BY PieceWritten DEF Writes
<1>2. f.line # 0 /\ Mine(w, f.line)
  BY <1>1, Basics DEF SameWriter, Mine
<1>3. Pushed(w, f)
  BY <1>2 DEF InOut, OfTrailer
<1> QED
  BY <1>1, <1>3 DEF Pushed, Before

\* Two workers' pieces, or the trailer's and a worker's, are in no order.
LEMMA OtherWriter ==
  ASSUME NEW v \in Workers, NEW w \in Workers, v # w, NEW e, NEW f,
         Mine(v, e.line), Mine(w, f.line)
  PROVE  ~SameWriter(e, f)
BY DEF SameWriter, Mine

LEMMA OneSorted ==
  ASSUME NEW e
  PROVE  Sorted(<<e>>)
BY DEF Sorted

LEMMA InOrderStep ==
  ASSUME TypeOK, Placed, Handling, InOrder, Class
  PROVE  InOrder'
<1> USE DEF TypeOK
<1>0. /\ out \in Seq(Piece) /\ \A k \in DOMAIN out : out[k] \in Piece /\ InOut(out[k])
      /\ \A w \in Workers : /\ tmp[w] \in Seq(Piece)
                            /\ \A k \in DOMAIN tmp[w] :
                                  /\ tmp[w][k] \in Piece /\ Pushed(w, tmp[w][k])
                                  /\ tmp[w][k].line \in Lines /\ Mine(w, tmp[w][k].line)
  BY DEF Placed, Pushed
<1> DEFINE Cross(s, t) == \A j \in DOMAIN s, k \in DOMAIN t :
                             SameWriter(s[j], t[k]) => Before(s[j], t[k])
<1>1. Sorted(out) /\ \A w \in Workers : Sorted(tmp[w]) /\ (Fresh(w) => Cross(out, tmp[w]))
  BY DEF InOrder
<1> HIDE DEF TypeOK
<1>2. Sorted(out')
  <2>1. ASSUME NEW w \in Workers, NEW n \in Nat, Dumps(w, n) PROVE Sorted(out')
    <3>1. Extends(out', out, tmp[w], n) /\ Fresh(w)
      BY <2>1 DEF Dumps
    <3>2. \A j \in DOMAIN out, i \in 1..n :
             SameWriter(out[j], tmp[w][i]) => Before(out[j], tmp[w][i])
      BY <1>1, <3>1, ExtendsParts
    <3> QED
      BY <1>1, <3>1, <3>2, ExtendsSorted
  <2>2. ASSUME NEW e, Extends(out', out, <<e>>, 1),
               \A j \in DOMAIN out : SameWriter(out[j], e) => Before(out[j], e)
        PROVE  Sorted(out')
    <3>1. \A j \in DOMAIN out, i \in 1..1 :
             SameWriter(out[j], <<e>>[i]) => Before(out[j], <<e>>[i])
      BY <2>2
    <3> QED
      BY <1>1, <2>2, <3>1, OneSorted, ExtendsSorted
  <2>3. ASSUME NEW w \in Workers, NEW e, Prints(w, e) PROVE Sorted(out')
    <3>1. \A j \in DOMAIN out : SameWriter(out[j], e) => Before(out[j], e)
      BY <1>0, <2>3, AfterAll DEF Prints
    <3> QED
      BY <2>2, <2>3, <3>1 DEF Prints
  <2>4. ASSUME NEW e, Trails(e) PROVE Sorted(out')
    <3>1. ASSUME NEW j \in DOMAIN out, SameWriter(out[j], e) PROVE Before(out[j], e)
      <4>1. out[j].line = 0 /\ e.line = 0 /\ e.part = tpart
        BY <2>4, <3>1 DEF Trails, SameWriter
      <4>2. OfTrailer(out[j])
        BY <1>0, <4>1, Basics DEF InOut, Pushed
      <4> QED
        BY <4>1, <4>2 DEF OfTrailer, Before
    <3> QED
      BY <2>2, <2>4, <3>1 DEF Trails
  <2> QED
    BY <1>1, <2>1, <2>3, <2>4 DEF Class, Still, Enters, Rewinds, Stores
<1>3. ASSUME NEW v \in Workers PROVE Sorted(tmp'[v])
  <2>1. ASSUME NEW e, Stores(v, e) PROVE Sorted(tmp'[v])
    <3>1. Extends(tmp'[v], tmp[v], <<e>>, 1) /\ Writes(v, e)
      BY <2>1 DEF Stores
    <3>2. \A j \in DOMAIN tmp[v] : SameWriter(tmp[v][j], e) => Before(tmp[v][j], e)
      BY <1>0, <3>1, AfterAll
    <3>3. \A j \in DOMAIN tmp[v], i \in 1..1 :
             SameWriter(tmp[v][j], <<e>>[i]) => Before(tmp[v][j], <<e>>[i])
      BY <3>2
    <3> QED
      BY <1>1, <3>1, <3>3, OneSorted, ExtendsSorted
  <2>2. Sorted(<<>>)
    BY DEF Sorted
  <2> QED
    BY <1>1, <2>1, <2>2, TmpNext
<1>4. ASSUME NEW v \in Workers, Fresh(v)' PROVE Cross(out', tmp'[v])
  <2>1. CASE Still
    BY <1>1, <1>4, <2>1 DEF Still
  <2>2. ASSUME NEW w \in Workers, Enters(w) PROVE Cross(out', tmp'[v])
    <3>1. Fresh(v)
      BY <1>4, <2>2 DEF Enters, Others, Fresh, Direct, Swapped
    <3> QED
      BY <1>1, <2>2, <3>1 DEF Enters
  <2>3. ASSUME NEW w \in Workers, Rewinds(w) PROVE Cross(out', tmp'[v])
    <3>1. CASE v = w
      BY <2>3, <3>1 DEF Rewinds
    <3>2. CASE v # w
      <4>1. Fresh(v)
        BY <1>4, <2>3, <3>2 DEF Rewinds, Others, Fresh, Direct, Swapped
      <4> QED
        BY <1>1, <2>3, <3>2, <4>1 DEF Rewinds, Others
    <3> QED
      BY <3>1, <3>2
  <2>4. ASSUME NEW w \in Workers, NEW e, Stores(w, e) PROVE Cross(out', tmp'[v])
    <3>0. out' = out /\ Writes(w, e)
      BY <2>4 DEF Stores
    <3>1. CASE v = w
      <4>1. Fresh(v) /\ Extends(tmp'[w], tmp[w], <<e>>, 1)
        BY <2>4, <3>1 DEF Stores, Writes, Fresh
      <4> SUFFICES ASSUME NEW j \in DOMAIN out, NEW k \in DOMAIN tmp'[w],
                          SameWriter(out[j], tmp'[w][k])
                   PROVE  Before(out[j], tmp'[w][k])
        BY <3>0, <3>1
      <4>2. CASE k \in DOMAIN tmp[w]
        <5>1. tmp'[w][k] = tmp[w][k]
          BY <4>1, <4>2, ExtendsParts
        <5> QED
          BY <1>1, <3>1, <4>1, <4>2, <5>1
      <4>3. CASE k \notin DOMAIN tmp[w]
        <5>1. k - Len(tmp[w]) \in 1..1 /\ tmp'[w][k] = <<e>>[k - Len(tmp[w])]
          BY <4>1, <4>3, ExtendsParts
        <5>2. tmp'[w][k] = e
          BY <5>1
        <5> QED
          BY <1>0, <3>0, <5>2, AfterAll
      <4> QED
        BY <4>2, <4>3
    <3>2. CASE v # w
      <4>1. Fresh(v) /\ tmp'[v] = tmp[v]
        BY <1>4, <2>4, <3>2 DEF Stores, Writes, Fresh, Direct, Swapped
      <4> QED
        BY <1>1, <3>0, <4>1
    <3> QED
      BY <3>1, <3>2
  <2>5. ASSUME NEW w \in Workers, NEW e, Prints(w, e) PROVE Cross(out', tmp'[v])
    <3>0. tmp' = tmp /\ Writes(w, e) /\ Extends(out', out, <<e>>, 1) /\ Direct(w)
      BY <2>5 DEF Prints
    <3>1. v # w
      BY <1>4, <3>0 DEF Writes, Fresh, Direct, Swapped
    <3>2. Fresh(v)
      BY <1>4, <3>0, <3>1 DEF Writes, Fresh, Direct, Swapped
    <3>3. ASSUME NEW j \in DOMAIN out', NEW k \in DOMAIN tmp[v], SameWriter(out'[j], tmp[v][k])
          PROVE  Before(out'[j], tmp[v][k])
      <4>1. CASE j \in DOMAIN out
        <5>1. out'[j] = out[j]
          BY <3>0, <4>1, ExtendsParts
        <5> QED
          BY <1>1, <3>2, <3>3, <4>1, <5>1
      <4>2. CASE j \notin DOMAIN out
        <5>1. j - Len(out) \in 1..1 /\ out'[j] = <<e>>[j - Len(out)]
          BY <3>0, <4>2, ExtendsParts
        <5>2. out'[j] = e
          BY <5>1
        <5>3. Mine(w, e.line) /\ Mine(v, tmp[v][k].line)
          BY <1>0, <3>0, PieceWritten
        <5> QED
          BY <3>1, <3>3, <5>2, <5>3, OtherWriter
      <4> QED
        BY <4>1, <4>2
    <3> QED
      BY <3>0, <3>3
  <2>6. ASSUME NEW w \in Workers, NEW n \in Nat, Dumps(w, n) PROVE Cross(out', tmp'[v])
    <3>0. Extends(out', out, tmp[w], n) /\ swapLine' = swapLine
      BY <2>6 DEF Dumps
    <3>1. CASE v = w
      <4>1. wpc'[w] # "rewind"
        BY <1>4, <3>1 DEF Fresh
      <4>2. tmp'[v] = <<>>
        BY <2>6, <3>1, <4>1 DEF Dumps
      <4> QED
        BY <4>2
    <3>2. CASE v # w
      <4>1. Fresh(v) /\ tmp'[v] = tmp[v]
        BY <1>4, <2>6, <3>0, <3>2 DEF Dumps, Others, Fresh, Direct, Swapped
      <4>2. ASSUME NEW j \in DOMAIN out', NEW k \in DOMAIN tmp[v],
                   SameWriter(out'[j], tmp[v][k])
            PROVE  Before(out'[j], tmp[v][k])
        <5>1. CASE j \in DOMAIN out
          <6>1. out'[j] = out[j]
            BY <3>0, <5>1, ExtendsParts
          <6> QED
            BY <1>1, <4>1, <4>2, <5>1, <6>1
        <5>2. CASE j \notin DOMAIN out
          <6>1. j - Len(out) \in DOMAIN tmp[w] /\ out'[j] = tmp[w][j - Len(out)]
            BY <3>0, <5>2, ExtendsNew
          <6>2. Mine(w, out'[j].line) /\ Mine(v, tmp[v][k].line)
            BY <1>0, <6>1
          <6> QED
            BY <3>2, <4>2, <6>2, OtherWriter
        <5> QED
          BY <5>1, <5>2
      <4> QED
        BY <4>1, <4>2
    <3> QED
      BY <3>1, <3>2
  <2>7. ASSUME NEW e, Trails(e) PROVE Cross(out', tmp'[v])
    <3>0. tmp' = tmp /\ Extends(out', out, <<e>>, 1) /\ e.line = 0
      BY <2>7 DEF Trails
    <3>1. Fresh(v)
      BY <1>4, <2>7 DEF Trails, Fresh, Direct, Swapped
    <3>2. ASSUME NEW j \in DOMAIN out', NEW k \in DOMAIN tmp[v], SameWriter(out'[j], tmp[v][k])
          PROVE  Before(out'[j], tmp[v][k])
      <4>1. CASE j \in DOMAIN out
        <5>1. out'[j] = out[j]
          BY <3>0, <4>1, ExtendsParts
        <5> QED
          BY <1>1, <3>1, <3>2, <4>1, <5>1
      <4>2. CASE j \notin DOMAIN out
        <5>1. j - Len(out) \in 1..1 /\ out'[j] = <<e>>[j - Len(out)]
          BY <3>0, <4>2, ExtendsParts
        <5>2. out'[j].line = 0
          BY <3>0, <5>1
        <5>3. tmp[v][k].line \in Lines
          BY <1>0
        <5> QED
          BY <3>2, <5>2, <5>3, Basics DEF SameWriter
      <4> QED
        BY <4>1, <4>2
    <3> QED
      BY <3>0, <3>2
  <2> QED
    BY <2>1, <2>2, <2>3, <2>4, <2>5, <2>6, <2>7 DEF Class
<1> QED
  BY <1>2, <1>3, <1>4 DEF InOrder, Sorted, SameWriter, Before

-----------------------------------------------------------------------------
(***************************************************************************)
(* TogetherInv and WholeLines                                              *)
(***************************************************************************)
\* Torn(l) after the step, for a line l of before.
TornNext(l) == mi' < NrThreads /\ Mine(0, l) /\ (l = 0 \/ l >= swapLine')

\* A line that main's exit tore stays torn.
LEMMA TornStays ==
  ASSUME TypeOK, Placed, Loops, [Next]_vars, NEW k \in DOMAIN out, Torn(out[k].line)
  PROVE  TornNext(out[k].line)
<1>1. InOut(out[k])
  BY DEF Placed
<1>2. Swapped
  <2> SUFFICES ASSUME ~Swapped PROVE FALSE
    OBVIOUS
  <2>1. tpart = 1 /\ swapLine = NrLines + 1
    BY DEF Loops, Swapped, NotYet
  <2>2. out[k] \in Piece
    BY DEF TypeOK
  <2>3. out[k].line \in 0..NrLines /\ out[k].part \in Nat
    BY <2>2 DEF Piece
  <2>4. out[k].line = 0
    BY <2>1, <2>3, ThreadsAssumption DEF Torn
  <2>5. ~OfTrailer(out[k])
    BY <2>1, <2>3 DEF OfTrailer
  <2>6. Pushed(0, out[k])
    BY <1>1, <2>4, <2>5, Basics DEF InOut
  <2> QED
    BY <2>4, <2>6, Basics DEF Pushed
<1>3. UNCHANGED <<swapLine, mi>>
  BY <1>2, SwappedStays
<1> QED
  BY <1>3 DEF Torn, TornNext

\* What worker 0 writes to stdout is torn.
LEMMA PrintedTorn ==
  ASSUME TypeOK, Loops, Handling, [Next]_vars, NEW w \in Workers, NEW e, Prints(w, e)
  PROVE  TornNext(e.line)
<1>1. w = 0 /\ Swapped /\ wpc[0] = "push" /\ e.line = lineNr[0]
  BY DEF Prints, Writes, Direct
<1>2. mi # NrThreads /\ swapLine <= lineNr[0]
  BY <1>1 DEF Loops, Joined
<1>3. Mine(0, e.line)
  BY <1>1, PieceWritten DEF Prints
<1>4. UNCHANGED <<swapLine, mi>>
  BY <1>1, SwappedStays
<1>5. /\ mi \in Nat /\ mi <= NrThreads /\ NrThreads \in Nat
      /\ swapLine \in Nat /\ lineNr[0] \in Nat
  BY ThreadsAssumption, Basics DEF TypeOK, NotYet
<1> QED
  BY <1>1, <1>2, <1>3, <1>4, <1>5 DEF TornNext

LEMMA TogetherStep ==
  ASSUME TypeOK, Placed, Handling, Loops, TogetherInv, [Next]_vars, Class
  PROVE  TogetherInv'
<1>0. /\ out \in Seq(Piece) /\ \A w \in Workers : tmp[w] \in Seq(Piece)
      /\ part \in [Workers -> Nat \ {0}]
  BY DEF TypeOK
<1>1. ASSUME NEW k \in DOMAIN out' PROVE TornNext(out'[k].line) \/ TogetherAt(out', k)
  <2>1. ASSUME NEW t, NEW n, Extends(out', out, t, n), k \in DOMAIN out
        PROVE  TornNext(out'[k].line) \/ TogetherAt(out', k)
    <3>1. out'[k] = out[k]
      BY <2>1, ExtendsParts
    <3>2. Torn(out[k].line) \/ TogetherAt(out, k)
      BY <2>1 DEF TogetherInv
    <3> QED
      BY <2>1, <3>1, <3>2, TornStays, ExtendsTogether
  <2>2. CASE out' = out
    <3>1. Torn(out[k].line) \/ TogetherAt(out, k)
      BY <2>2 DEF TogetherInv
    <3> QED
      BY <2>2, <3>1, TornStays
  <2>3. ASSUME NEW w \in Workers, NEW n \in Nat, Dumps(w, n), k \notin DOMAIN out
        PROVE  TogetherAt(out', k)
    <3>1. Extends(out', out, tmp[w], n)
      BY <2>3 DEF Dumps
    <3> DEFINE i == k - Len(out)
    <3>2. i \in 1..n /\ k = Len(out) + i
      BY <2>3, <3>1, ExtendsParts
    <3> HIDE DEF i
    <3>3. i \in DOMAIN tmp[w]
      BY <3>1, <3>2, ExtendsParts
    <3>4. TogetherAt(tmp[w], i)
      BY <3>3 DEF TogetherInv
    <3> QED
      BY <3>1, <3>2, <3>4, ExtendsTogether
  <2>4. ASSUME NEW w \in Workers, NEW e, Prints(w, e), k \notin DOMAIN out
        PROVE  TornNext(out'[k].line)
    <3>1. k - Len(out) \in 1..1 /\ out'[k] = <<e>>[k - Len(out)]
      BY <2>4, ExtendsParts DEF Prints
    <3>2. out'[k] = e
      BY <3>1
    <3> QED
      BY <2>4, <3>2, PrintedTorn
  <2>5. ASSUME NEW e, Trails(e), k \notin DOMAIN out
        PROVE  TornNext(out'[k].line) \/ TogetherAt(out', k)
    <3>1. Extends(out', out, <<e>>, 1)
      BY <2>5 DEF Trails
    <3>2. k - Len(out) \in 1..1 /\ out'[k] = <<e>>[k - Len(out)] /\ k = Len(out) + (k - Len(out))
      BY <2>5, <3>1, ExtendsParts
    <3>3. out'[k] = e /\ k = Len(out) + 1
      BY <3>2
    <3>4. /\ e \in Piece /\ e.line = 0 /\ e.part = tpart /\ mpc = "trailer"
          /\ mi' = mi /\ mi \in 0..NrThreads /\ tpart \in Nat \ {0}
      BY <2>5 DEF Trails, TypeOK
    <3>5. CASE mi # NrThreads
      <4>1. mi' < NrThreads
        BY <3>4, <3>5, ThreadsAssumption
      <4> QED
        BY <3>3, <3>4, <4>1, Basics DEF TornNext
    <3>6. CASE mi = NrThreads
      <4>1. CASE tpart = 1
        BY <3>1, <3>3, <3>4, <4>1, NextTogether
      <4>2. CASE tpart # 1
        <5>1. AtTrailer(tpart - 1)
          BY <3>4, <3>6, <4>2 DEF Loops
        <5>2. Len(out) \in DOMAIN out
          BY <1>0, <5>1 DEF AtTrailer
        <5>3. ~Torn(out[Len(out)].line)
          BY <3>6, ThreadsAssumption DEF Torn
        <5>4. TogetherAt(out, Len(out))
          BY <5>2, <5>3 DEF TogetherInv
        <5> QED
          BY <3>1, <3>3, <3>4, <5>1, <5>4, NextTogether DEF AtTrailer
      <4> QED
        BY <4>1, <4>2
    <3> QED
      BY <3>5, <3>6
  <2>6. CASE Still \/ \E w \in Workers : Enters(w) \/ Rewinds(w) \/ \E e : Stores(w, e)
    <3>1. out' = out
      BY <2>6 DEF Still, Enters, Rewinds, Stores
    <3> QED
      BY <2>2, <3>1
  <2>7. ASSUME NEW w \in Workers, NEW n \in Nat, Dumps(w, n)
        PROVE  TornNext(out'[k].line) \/ TogetherAt(out', k)
    BY <2>1, <2>3, <2>7 DEF Dumps
  <2>8. ASSUME NEW w \in Workers, NEW e, Prints(w, e)
        PROVE  TornNext(out'[k].line) \/ TogetherAt(out', k)
    BY <2>1, <2>4, <2>8 DEF Prints
  <2>9. ASSUME NEW e, Trails(e)
        PROVE  TornNext(out'[k].line) \/ TogetherAt(out', k)
    BY <2>1, <2>5, <2>9 DEF Trails
  <2> QED
    BY <2>6, <2>7, <2>8, <2>9 DEF Class
<1>2. ASSUME NEW v \in Workers, NEW k \in DOMAIN tmp'[v] PROVE TogetherAt(tmp'[v], k)
  <2>1. CASE tmp'[v] = tmp[v]
    BY <2>1 DEF TogetherInv
  <2>2. CASE tmp'[v] = <<>>
    BY <2>2
  <2>3. ASSUME NEW e, Stores(v, e) PROVE TogetherAt(tmp'[v], k)
    <3>1. Extends(tmp'[v], tmp[v], <<e>>, 1) /\ Writes(v, e) /\ ~Direct(v)
      BY <2>3 DEF Stores
    <3>2. CASE k \in DOMAIN tmp[v]
      BY <3>1, <3>2, ExtendsTogether DEF TogetherInv
    <3>3. CASE k \notin DOMAIN tmp[v]
      <4>1. k - Len(tmp[v]) \in 1..1 /\ k = Len(tmp[v]) + (k - Len(tmp[v]))
        BY <3>1, <3>3, ExtendsParts
      <4>2. k = Len(tmp[v]) + 1
        BY <4>1
      <4>3. /\ e \in Piece /\ wpc[v] = "push" /\ e.line = lineNr[v] /\ e.part = part[v]
            /\ part[v] \in Nat \ {0}
        BY <1>0, <3>1 DEF Writes
      <4>4. CASE part[v] = 1
        BY <3>1, <4>2, <4>3, <4>4, NextTogether
      <4>5. CASE part[v] # 1
        <5>1. /\ tmp[v] # <<>>
              /\ tmp[v][Len(tmp[v])].line = lineNr[v]
              /\ tmp[v][Len(tmp[v])].part = part[v] - 1
          BY <3>1, <4>3, <4>5 DEF TogetherInv, MidLine
        <5>2. Len(tmp[v]) \in DOMAIN tmp[v]
          BY <1>0, <5>1
        <5>3. TogetherAt(tmp[v], Len(tmp[v]))
          BY <5>2 DEF TogetherInv
        <5> QED
          <6>1. tmp[v][Len(tmp[v])].line = e.line /\ tmp[v][Len(tmp[v])].part = e.part - 1
            BY <4>3, <5>1
          <6>2. e.part > 0
            BY <4>3
          <6>3. TogetherAt(tmp'[v], Len(tmp[v]) + 1)
            BY ONLY <3>1, <4>3, <5>1, <5>3, <6>1, <6>2, NextTogether
          <6> QED
            BY <4>2, <6>3
      <4> QED
        BY <4>4, <4>5
    <3> QED
      BY <3>2, <3>3
  <2> QED
    BY <2>1, <2>2, <2>3, TmpNext
<1> DEFINE EndsWith(s, l, p) == s # <<>> /\ s[Len(s)].line = l /\ s[Len(s)].part = p
<1>3. ASSUME NEW v \in Workers, wpc'[v] = "push", ~Direct(v)', part'[v] # 1
      PROVE  EndsWith(tmp'[v], lineNr'[v], part'[v] - 1)
  <2>1. ASSUME wpc[v] = "push", ~Direct(v), part'[v] = part[v], lineNr'[v] = lineNr[v],
               tmp'[v] = tmp[v]
        PROVE  EndsWith(tmp'[v], lineNr'[v], part'[v] - 1)
    BY <1>3, <2>1 DEF TogetherInv, MidLine
  <2>2. CASE Still
    <3>1. /\ wpc[v] = "push" /\ ~Direct(v) /\ part'[v] = part[v] /\ tmp'[v] = tmp[v]
          /\ lineNr'[v] = lineNr[v]
      BY <1>3, <2>2 DEF Still
    <3> QED
      BY <2>1, <3>1
  <2>3. ASSUME NEW w \in Workers, Enters(w) PROVE EndsWith(tmp'[v], lineNr'[v], part'[v] - 1)
    <3>1. v # w
      BY <1>3, <2>3 DEF Enters
    <3> QED
      BY <1>3, <2>1, <2>3, <3>1 DEF Enters, Others, Direct, Swapped
  <2>4. ASSUME NEW w \in Workers, Rewinds(w) PROVE EndsWith(tmp'[v], lineNr'[v], part'[v] - 1)
    <3>1. v # w
      BY <1>3, <2>4 DEF Rewinds
    <3> QED
      BY <1>3, <2>1, <2>4, <3>1 DEF Rewinds, Others, Direct, Swapped
  <2>5. ASSUME NEW w \in Workers, NEW n \in Nat, Dumps(w, n) PROVE EndsWith(tmp'[v], lineNr'[v], part'[v] - 1)
    <3>1. v # w
      BY <1>3, <2>5 DEF Dumps
    <3> QED
      BY <1>3, <2>1, <2>5, <3>1 DEF Dumps, Others, Direct, Swapped
  <2>6. ASSUME NEW w \in Workers, NEW e, Prints(w, e) PROVE EndsWith(tmp'[v], lineNr'[v], part'[v] - 1)
    <3>1. v # w
      BY <1>3, <2>6 DEF Prints, Writes, Direct, Swapped
    <3> QED
      BY <1>3, <2>1, <2>6, <3>1 DEF Prints, Writes, Direct, Swapped
  <2>7. ASSUME NEW w \in Workers, NEW e, Stores(w, e) PROVE EndsWith(tmp'[v], lineNr'[v], part'[v] - 1)
    <3>1. CASE v # w
      BY <1>3, <2>1, <2>7, <3>1 DEF Stores, Writes, Direct, Swapped
    <3>2. CASE v = w
      <4>1. /\ Extends(tmp'[v], tmp[v], <<e>>, 1)
            /\ e.line = lineNr[v] /\ e.part = part[v] /\ lineNr' = lineNr
            /\ part'[v] = part[v] + 1 /\ part[v] \in Nat
        BY <1>0, <2>7, <3>2 DEF Stores, Writes
      <4>2. /\ Len(tmp'[v]) = Len(tmp[v]) + 1 /\ tmp'[v][Len(tmp[v]) + 1] = <<e>>[1]
            /\ Len(tmp[v]) \in Nat
        BY <4>1, ExtendsParts
      <4>3. tmp'[v] # <<>> /\ tmp'[v][Len(tmp'[v])] = e
        BY <4>2
      <4>4. part'[v] - 1 = e.part /\ lineNr'[v] = e.line
        BY <4>1
      <4> QED
        BY <4>3, <4>4
    <3> QED
      BY <3>1, <3>2
  <2>8. ASSUME NEW e, Trails(e) PROVE EndsWith(tmp'[v], lineNr'[v], part'[v] - 1)
    BY <1>3, <2>1, <2>8 DEF Trails, Direct, Swapped
  <2> QED
    BY <2>2, <2>3, <2>4, <2>5, <2>6, <2>7, <2>8 DEF Class
<1>4. \A k \in DOMAIN out' : Torn(out[k].line)' \/ TogetherAt(out', k)
  BY <1>1 DEF TornNext, Torn
<1>5. \A v \in Workers : MidLine(v)'
  BY <1>3 DEF MidLine
<1> QED
  BY <1>2, <1>4, <1>5 DEF TogetherInv, TogetherAt

\* Complete(s, l) in terms of Has.
LEMMA CompleteHas == \A s, l : Complete(s, l) <=> Has(s, l, NrParts(l))
BY DEF Complete, Has

LEMMA WholeStep ==
  ASSUME TypeOK, Placed, Handling, Loops, WholeLines, [Next]_vars, Class
  PROVE  WholeLines'
<1>0. /\ out \in Seq(Piece) /\ \A w \in Workers : tmp[w] \in Seq(Piece)
  BY DEF TypeOK
<1>00. kind' = kind
  BY DEF Class, Still, Enters, Rewinds, Stores, Prints, Writes, Dumps, Trails
<1> DEFINE Good(s, l) == l = 0 \/ l \in lost' \/ TornNext(l) \/ Has(s, l, NrParts(l))
           Begun(w, l) == wpc'[w] = "push" /\ l = lineNr'[w]
<1>1. lost \subseteq lost'
  BY DEF Class, Still, Enters, Rewinds, Stores, Prints, Writes, Dumps, Trails
<1>2. ASSUME NEW k \in DOMAIN out PROVE Good(out, out[k].line)
  <2>1. out[k].line = 0 \/ out[k].line \in lost \/ Torn(out[k].line)
        \/ Complete(out, out[k].line)
    BY DEF WholeLines
  <2> QED
    BY <1>1, <2>1, TornStays, CompleteHas
<1>3. ASSUME NEW k \in DOMAIN out' PROVE Good(out', out'[k].line)
  <2>1. ASSUME NEW t, NEW n, Extends(out', out, t, n), k \in DOMAIN out
        PROVE  Good(out', out'[k].line)
    <3>1. out'[k] = out[k]
      BY <2>1, ExtendsParts
    <3>2. Good(out, out[k].line)
      BY <1>2, <2>1
    <3> QED
      BY <2>1, <3>1, <3>2, ExtendsHas
  <2>2. CASE Still \/ \E w \in Workers : Enters(w) \/ Rewinds(w) \/ \E e : Stores(w, e)
    <3>1. out' = out
      BY <2>2 DEF Still, Enters, Rewinds, Stores
    <3> QED
      BY <1>2, <3>1
  <2>3. ASSUME NEW w \in Workers, NEW n \in Nat, Dumps(w, n) PROVE Good(out', out'[k].line)
    <3>1. /\ Extends(out', out, tmp[w], n) /\ Fresh(w) /\ wpc[w] # "push"
          /\ lost' = lost \cup {tmp[w][i].line : i \in n+1 .. Len(tmp[w])}
      BY <2>3 DEF Dumps
    <3>2. CASE k \notin DOMAIN out
      <4> DEFINE i == k - Len(out)
      <4>1. i \in DOMAIN tmp[w] /\ out'[k] = tmp[w][i]
        BY <3>1, <3>2, ExtendsNew
      <4> HIDE DEF i
      <4>2. Complete(tmp[w], tmp[w][i].line)
        BY <3>1, <4>1 DEF WholeLines
      <4>3. Has(tmp[w], out'[k].line, NrParts(out'[k].line))
        BY <4>1, <4>2, CompleteHas
      <4>4. CASE \E h \in n+1 .. Len(tmp[w]) : tmp[w][h].line = out'[k].line
        BY <3>1, <4>4
      <4>5. CASE \A h \in n+1 .. Len(tmp[w]) : tmp[w][h].line # out'[k].line
        BY <3>1, <4>3, <4>5, ExtendsHas
      <4> QED
        BY <4>4, <4>5
    <3> QED
      BY <2>1, <3>1, <3>2
  <2>4. ASSUME NEW w \in Workers, NEW e, Prints(w, e) PROVE Good(out', out'[k].line)
    <3>1. Extends(out', out, <<e>>, 1)
      BY <2>4 DEF Prints
    <3>2. CASE k \notin DOMAIN out
      <4>1. k - Len(out) \in DOMAIN <<e>> /\ out'[k] = <<e>>[k - Len(out)]
        BY <3>1, <3>2, ExtendsNew
      <4>2. out'[k] = e
        BY <4>1
      <4> QED
        BY <2>4, <4>2, PrintedTorn
    <3> QED
      BY <2>1, <3>1, <3>2
  <2>5. ASSUME NEW e, Trails(e) PROVE Good(out', out'[k].line)
    <3>1. Extends(out', out, <<e>>, 1) /\ e.line = 0
      BY <2>5 DEF Trails
    <3>2. CASE k \notin DOMAIN out
      <4>1. k - Len(out) \in DOMAIN <<e>> /\ out'[k] = <<e>>[k - Len(out)]
        BY <3>1, <3>2, ExtendsNew
      <4>2. out'[k] = e
        BY <4>1
      <4> QED
        BY <3>1, <4>2
    <3> QED
      BY <2>1, <3>1, <3>2
  <2> QED
    BY <2>2, <2>3, <2>4, <2>5 DEF Class
<1>4. ASSUME NEW v \in Workers, Fresh(v)', NEW k \in DOMAIN tmp'[v]
      PROVE  Begun(v, tmp'[v][k].line) \/ Has(tmp'[v], tmp'[v][k].line, NrParts(tmp'[v][k].line))
  <2> DEFINE Goal == Begun(v, tmp'[v][k].line)
                     \/ Has(tmp'[v], tmp'[v][k].line, NrParts(tmp'[v][k].line))
  <2>1. ASSUME Fresh(v), tmp'[v] = tmp[v],
               wpc[v] = "push" => wpc'[v] = "push" /\ lineNr'[v] = lineNr[v]
        PROVE  Goal
    <3>1. (wpc[v] = "push" /\ tmp[v][k].line = lineNr[v]) \/ Complete(tmp[v], tmp[v][k].line)
      BY <2>1 DEF WholeLines
    <3> QED
      BY <2>1, <3>1, CompleteHas
  <2>2. CASE Still
    <3>1. wpc[v] = "push" => wpc'[v] = "push" /\ lineNr'[v] = lineNr[v]
      BY <2>2 DEF Still
    <3> QED
      BY <1>4, <2>1, <2>2, <3>1 DEF Still
  <2>3. ASSUME NEW w \in Workers, Enters(w) PROVE Goal
    BY <1>4, <2>1, <2>3 DEF Enters, Others, Fresh, Direct, Swapped
  <2>4. ASSUME NEW w \in Workers, Rewinds(w) PROVE Goal
    <3>1. CASE v = w
      BY <1>4, <2>4, <3>1 DEF Rewinds
    <3>2. CASE v # w
      BY <1>4, <2>1, <2>4, <3>2 DEF Rewinds, Others, Fresh, Direct, Swapped
    <3> QED
      BY <3>1, <3>2
  <2>5. ASSUME NEW w \in Workers, NEW n \in Nat, Dumps(w, n) PROVE Goal
    <3>1. CASE v = w
      <4>1. tmp'[v] = <<>>
        BY <1>4, <2>5, <3>1 DEF Dumps, Fresh
      <4> QED
        BY <1>4, <4>1
    <3>2. CASE v # w
      BY <1>4, <2>1, <2>5, <3>2 DEF Dumps, Others, Fresh, Direct, Swapped
    <3> QED
      BY <3>1, <3>2
  <2>6. ASSUME NEW w \in Workers, NEW e, Prints(w, e) PROVE Goal
    <3>1. v # w
      BY <1>4, <2>6 DEF Prints, Writes, Fresh, Direct, Swapped
    <3>2. Fresh(v) /\ tmp'[v] = tmp[v] /\ wpc'[v] = wpc[v] /\ lineNr'[v] = lineNr[v]
      BY <1>4, <2>6, <3>1 DEF Prints, Writes, Fresh, Direct, Swapped
    <3> QED
      BY <2>1, <3>2
  <2>7. ASSUME NEW w \in Workers, NEW e, Stores(w, e) PROVE Goal
    <3>1. CASE v # w
      <4>1. Fresh(v) /\ tmp'[v] = tmp[v] /\ wpc'[v] = wpc[v] /\ lineNr'[v] = lineNr[v]
        BY <1>4, <2>7, <3>1 DEF Stores, Writes, Fresh, Direct, Swapped
      <4> QED
        BY <2>1, <4>1
    <3>2. CASE v = w
      <4>1. /\ Extends(tmp'[v], tmp[v], <<e>>, 1) /\ ~Direct(v) /\ wpc[v] = "push"
            /\ e.line = lineNr[v] /\ lineNr'[v] = lineNr[v]
            /\ \/ wpc'[v] = "push"
               \/ wpc'[v] = "dump" /\ (e.part = NrParts(lineNr[v]) \/ ~e.whole)
        BY <2>7, <3>2 DEF Stores, Writes
      <4>2. Begun(v, e.line) \/ Has(tmp'[v], e.line, NrParts(e.line))
        <5>1. CASE wpc'[v] = "push"
          BY <4>1, <5>1
        <5>2. CASE wpc'[v] # "push"
          <6>1. Len(tmp[v]) + 1 \in DOMAIN tmp'[v] /\ tmp'[v][Len(tmp[v]) + 1] = <<e>>[1]
            BY <4>1, ExtendsParts
          <6>2. tmp'[v][Len(tmp[v]) + 1] = e
            BY <6>1
          <6> QED
            BY <4>1, <5>2, <6>1, <6>2 DEF Has
        <5> QED
          BY <5>1, <5>2
      <4>3. CASE k \in DOMAIN tmp[v]
        <5>1. tmp'[v][k] = tmp[v][k]
          BY <4>1, <4>3, ExtendsParts
        <5>2. Fresh(v)
          BY <4>1 DEF Fresh
        <5>3. tmp[v][k].line = lineNr[v] \/ Complete(tmp[v], tmp[v][k].line)
          BY <4>3, <5>2 DEF WholeLines
        <5>4. CASE tmp[v][k].line = lineNr[v]
          BY <4>1, <4>2, <5>1, <5>4
        <5>5. CASE Complete(tmp[v], tmp[v][k].line)
          <6>1. Has(tmp[v], tmp[v][k].line, NrParts(tmp[v][k].line))
            BY <5>5, CompleteHas
          <6> QED
            BY <4>1, <5>1, <6>1, ExtendsHas
        <5> QED
          BY <5>3, <5>4, <5>5
      <4>4. CASE k \notin DOMAIN tmp[v]
        <5>1. k - Len(tmp[v]) \in DOMAIN <<e>> /\ tmp'[v][k] = <<e>>[k - Len(tmp[v])]
          BY <1>4, <4>1, <4>4, ExtendsNew
        <5>2. tmp'[v][k] = e
          BY <5>1
        <5> QED
          BY <4>2, <5>2
      <4> QED
        BY <4>3, <4>4
    <3> QED
      BY <3>1, <3>2
  <2>8. ASSUME NEW e, Trails(e) PROVE Goal
    BY <1>4, <2>1, <2>8 DEF Trails, Fresh, Direct, Swapped
  <2> QED
    BY <2>2, <2>3, <2>4, <2>5, <2>6, <2>7, <2>8 DEF Class
<1>5. \A k \in DOMAIN out' :
        \/ out'[k].line = 0 \/ out'[k].line \in lost' \/ Torn(out[k].line)'
        \/ Complete(out, out[k].line)'
  BY <1>00, <1>3 DEF TornNext, Torn, Has, Complete, NrParts
<1>6. \A w \in Workers : Fresh(w)' =>
         \A k \in DOMAIN tmp'[w] :
            \/ wpc'[w] = "push" /\ tmp'[w][k].line = lineNr'[w]
            \/ Complete(tmp[w], tmp[w][k].line)'
  BY <1>00, <1>4 DEF Has, Complete, NrParts
<1> QED
  BY <1>5, <1>6 DEF WholeLines

-----------------------------------------------------------------------------
(***************************************************************************)
(* Kept                                                                    *)
(***************************************************************************)
\* What a dump takes from the file is in the archive, or it is lost.
LEMMA DumpedLines ==
  ASSUME TypeOK, NEW w \in Workers, NEW n \in Nat, Dumps(w, n)
  PROVE  LinesOf(tmp[w]) \subseteq LinesOf(out') \cup lost'
<1>1. /\ Extends(out', out, tmp[w], n)
      /\ lost' = lost \cup {tmp[w][i].line : i \in n+1 .. Len(tmp[w])}
  BY DEF Dumps
<1>2. ASSUME NEW k \in DOMAIN tmp[w] PROVE tmp[w][k].line \in LinesOf(out') \cup lost'
  <2>1. k \in 1..n \/ k \in n+1 .. Len(tmp[w])
    BY <1>1, ExtendsParts
  <2>2. CASE k \in 1..n
    BY <1>1, <2>2, ExtendsLines
  <2>3. CASE k \in n+1 .. Len(tmp[w])
    BY <1>1, <2>3
  <2> QED
    BY <2>1, <2>2, <2>3
<1> QED
  BY ONLY <1>2 DEF LinesOf

LEMMA ArchiveGrows ==
  ASSUME TypeOK, Class
  PROVE  LinesOf(out) \subseteq LinesOf(out') /\ lost \subseteq lost' /\ kind' = kind
<1>1. lost \subseteq lost' /\ kind' = kind
  BY DEF Class, Still, Enters, Rewinds, Stores, Prints, Writes, Dumps, Trails
<1>2. out' = out \/ \E t, n : Extends(out', out, t, n)
  BY DEF Class, Still, Enters, Rewinds, Stores, Prints, Dumps, Trails
<1>3. LinesOf(out) \subseteq LinesOf(out')
  BY <1>2, ExtendsLines
<1> QED
  BY <1>1, <1>3

LEMMA KeptStep ==
  ASSUME TypeOK, Handling, Kept, Class
  PROVE  Kept'
<1> DEFINE Safe(w) == LinesOf(tmp'[w]) \cup LinesOf(out') \cup lost'
<1>0. /\ LinesOf(out) \subseteq LinesOf(out') /\ lost \subseteq lost' /\ kind' = kind
      /\ \A l \in Lines : l \in Nat
      /\ \A w \in Workers : lineNr[w] \in Nat
  <2>1. \A w \in Workers : lineNr[w] \in 0..NrLines
    BY DEF TypeOK
  <2>2. \A w \in Workers : lineNr[w] \in Nat
    BY ONLY <2>1, ThreadsAssumption
  <2>3. \A l \in Lines : l \in Nat
    BY ONLY Basics
  <2> QED
    BY <2>2, <2>3, ArchiveGrows
<1>1. ASSUME NEW v \in Workers, NEW l \in Lines, Mine(v, l), l <= lineNr'[v], Handled(l)
      PROVE  (wpc'[v] = "push" /\ l = lineNr'[v]) \/ l \in Safe(v)
  <2> DEFINE Goal == (wpc'[v] = "push" /\ l = lineNr'[v]) \/ l \in Safe(v)
  <2>1. l <= lineNr[v] =>
           (wpc[v] = "push" /\ l = lineNr[v]) \/ l \in LinesOf(tmp[v]) \cup LinesOf(out) \cup lost
    BY <1>1 DEF Kept
  <2>2. ASSUME tmp'[v] = tmp[v], lineNr'[v] = lineNr[v], wpc[v] = "push" => wpc'[v] = "push"
        PROVE  Goal
    BY <1>0, <1>1, <2>1, <2>2
  <2>3. CASE Still
    <3>1. CASE lineNr'[v] = lineNr[v]
      BY <2>2, <2>3, <3>1 DEF Still
    <3>2. CASE lineNr'[v] # lineNr[v]
      <4>1. /\ wpc[v] = "scan" /\ lineNr'[v] = lineNr[v] + 1 /\ tmp' = tmp
            /\ ~(Mine(v, lineNr'[v]) /\ Handled(lineNr'[v]))
        BY <2>3, <3>2 DEF Still
      <4>2. l <= lineNr[v]
        BY <1>0, <1>1, <4>1
      <4> QED
        BY <1>0, <2>1, <4>1, <4>2
    <3> QED
      BY <3>1, <3>2
  <2>4. ASSUME NEW w \in Workers, Enters(w) PROVE Goal
    <3>1. CASE v = w
      <4>1. wpc[v] = "scan" /\ wpc'[v] = "push" /\ lineNr'[v] = lineNr[v] + 1 /\ tmp' = tmp
        BY <2>4, <3>1 DEF Enters
      <4>2. l <= lineNr[v] \/ l = lineNr'[v]
        BY <1>0, <1>1, <4>1
      <4> QED
        BY <1>0, <2>1, <4>1, <4>2
    <3>2. CASE v # w
      BY <2>2, <2>4, <3>2 DEF Enters, Others
    <3> QED
      BY <3>1, <3>2
  <2>5. ASSUME NEW w \in Workers, Rewinds(w) PROVE Goal
    <3>1. CASE v = w
      <4>1. LinesOf(tmp[v]) \subseteq LinesOf(out) \cup lost
        BY <2>5, <3>1 DEF Rewinds, Kept
      <4>2. wpc[v] = "rewind" /\ lineNr' = lineNr
        BY <2>5, <3>1 DEF Rewinds
      <4> QED
        BY <1>0, <1>1, <2>1, <4>1, <4>2
    <3>2. CASE v # w
      BY <2>2, <2>5, <3>2 DEF Rewinds, Others
    <3> QED
      BY <3>1, <3>2
  <2>6. ASSUME NEW w \in Workers, NEW n \in Nat, Dumps(w, n) PROVE Goal
    <3>1. CASE v = w
      <4>1. LinesOf(tmp[v]) \subseteq LinesOf(out') \cup lost'
        BY <2>6, <3>1, DumpedLines
      <4>2. wpc[v] # "push" /\ lineNr' = lineNr
        BY <2>6, <3>1 DEF Dumps
      <4> QED
        BY <1>0, <1>1, <2>1, <4>1, <4>2
    <3>2. CASE v # w
      BY <2>2, <2>6, <3>2 DEF Dumps, Others
    <3> QED
      BY <3>1, <3>2
  <2>7. ASSUME NEW w \in Workers, NEW e, Stores(w, e) PROVE Goal
    <3>1. CASE v = w
      <4>1. /\ Extends(tmp'[v], tmp[v], <<e>>, 1) /\ e.line = lineNr[v] /\ lineNr' = lineNr
        BY <2>7, <3>1 DEF Stores, Writes
      <4>2. LinesOf(tmp[v]) \subseteq LinesOf(tmp'[v]) /\ <<e>>[1].line \in LinesOf(tmp'[v])
        BY <4>1, ExtendsLines
      <4> QED
        BY <1>0, <1>1, <2>1, <4>1, <4>2
    <3>2. CASE v # w
      BY <2>2, <2>7, <3>2 DEF Stores, Writes
    <3> QED
      BY <3>1, <3>2
  <2>8. ASSUME NEW w \in Workers, NEW e, Prints(w, e) PROVE Goal
    <3>1. CASE v = w
      <4>1. /\ Extends(out', out, <<e>>, 1) /\ e.line = lineNr[v] /\ lineNr' = lineNr
            /\ tmp' = tmp
        BY <2>8, <3>1 DEF Prints, Writes
      <4>2. <<e>>[1].line \in LinesOf(out')
        BY <4>1, ExtendsLines
      <4> QED
        BY <1>0, <1>1, <2>1, <4>1, <4>2
    <3>2. CASE v # w
      BY <2>2, <2>8, <3>2 DEF Prints, Writes
    <3> QED
      BY <3>1, <3>2
  <2>9. ASSUME NEW e, Trails(e) PROVE Goal
    BY <2>2, <2>9 DEF Trails
  <2> QED
    BY <2>3, <2>4, <2>5, <2>6, <2>7, <2>8, <2>9 DEF Class
<1>2. ASSUME NEW v \in Workers, wpc'[v] = "rewind", ~Direct(v)'
      PROVE  LinesOf(tmp'[v]) \subseteq LinesOf(out') \cup lost'
  <2> DEFINE Goal == LinesOf(tmp'[v]) \subseteq LinesOf(out') \cup lost'
  <2>1. ASSUME wpc[v] = "rewind", ~Direct(v), tmp'[v] = tmp[v] PROVE Goal
    <3>1. LinesOf(tmp[v]) \subseteq LinesOf(out) \cup lost
      BY <2>1 DEF Kept
    <3> QED
      BY <1>0, <2>1, <3>1
  <2>2. CASE Still
    BY <1>2, <2>1, <2>2 DEF Still
  <2>3. ASSUME NEW w \in Workers, Enters(w) \/ Rewinds(w) PROVE Goal
    <3>1. v # w
      BY <1>2, <2>3 DEF Enters, Rewinds
    <3> QED
      BY <1>2, <2>1, <2>3, <3>1 DEF Enters, Rewinds, Others, Direct, Swapped
  <2>4. ASSUME NEW w \in Workers, NEW n \in Nat, Dumps(w, n) PROVE Goal
    <3>1. CASE v = w
      <4>1. LinesOf(tmp[v]) \subseteq LinesOf(out') \cup lost'
        BY <2>4, <3>1, DumpedLines
      <4>2. tmp'[v] = tmp[v]
        BY <1>2, <2>4, <3>1 DEF Dumps, Fresh
      <4> QED
        BY <4>1, <4>2
    <3>2. CASE v # w
      BY <1>2, <2>1, <2>4, <3>2 DEF Dumps, Others, Direct, Swapped
    <3> QED
      BY <3>1, <3>2
  <2>5. ASSUME NEW w \in Workers, NEW e, Stores(w, e) \/ Prints(w, e) PROVE Goal
    <3>1. v # w
      BY <1>2, <2>5 DEF Stores, Prints, Writes
    <3>2. wpc[v] = "rewind" /\ ~Direct(v) /\ tmp'[v] = tmp[v]
      BY <1>2, <2>5, <3>1 DEF Stores, Prints, Writes, Direct, Swapped
    <3> QED
      BY <2>1, <3>2
  <2>6. ASSUME NEW e, Trails(e) PROVE Goal
    BY <1>2, <2>1, <2>6 DEF Trails, Direct, Swapped
  <2> QED
    BY <2>2, <2>3, <2>4, <2>5, <2>6 DEF Class
<1>3. \A l : Handled(l)' <=> Handled(l)
  BY <1>0 DEF Handled
<1> QED
  BY <1>1, <1>2, <1>3 DEF Kept, LinesOf

-----------------------------------------------------------------------------
(***************************************************************************)
(* Stops and Loops                                                         *)
(***************************************************************************)
\* A worker's step leaves the others alone, and main where it is unless the
\* process dies.
LEMMA WorkerLocal ==
  ASSUME TypeOK, NEW w \in Workers, Worker(w)
  PROVE  /\ wpc[w] \notin {"none", "done"}
         /\ \A v \in Workers \ {w} :
               wpc'[v] = wpc[v] /\ tmp'[v] = tmp[v] /\ lineNr'[v] = lineNr[v]
         /\ UNCHANGED <<mi, ec, kind, tpart, swapLine>>
         /\ mpc' = mpc \/ mpc' = "crashed"
<1> USE DEF TypeOK
<1>1. CASE SkipLine(w) \/ NoType(w) \/ NoArgs(w) \/ NothingWritten(w)
  BY <1>1 DEF SkipLine, NoType, NoArgs, NothingWritten, Looks, Place, mainVars
<1>2. CASE Handle(w)
  BY <1>2 DEF Handle, Looks, Place, mainVars
<1>3. CASE PushPart(w)
  <2>1. tmp' = tmp \/ \E e : tmp' = [tmp EXCEPT ![w] = Append(@, e)]
    BY <1>3 DEF PushPart, Push
  <2> QED
    BY <1>3, <2>1 DEF PushPart, Place, mainVars
<1>4. CASE TryLock(w) \/ Dump(w) \/ Rewind(w) \/ ScanDone(w)
  BY <1>4 DEF TryLock, Dump, Rewind, ScanDone, Place, mainVars
<1>5. CASE UseAfterFree(w)
  BY <1>5 DEF UseAfterFree, workerVars
<1> QED
  BY <1>1, <1>2, <1>3, <1>4, <1>5 DEF Worker

(* A worker that meets a line without a type does not go on.               *)
(***************************************************************************)
LEMMA StopsStep ==
  ASSUME TypeOK, Loops, Stops, [Next]_vars
  PROVE  Stops'
<1>0. /\ \A l \in Lines : l \in Int
      /\ \A w \in Workers : lineNr[w] \in Int
      /\ DOMAIN lineNr = Workers /\ DOMAIN wpc = Workers
  BY ThreadsAssumption DEF TypeOK, Lines
<1> DEFINE StopsAt(w) ==
        /\ \A l \in Lines :
              Mine(w, l) /\ l <= lineNr[w] /\ kind[l] = "notype" =>
                  wpc[w] = "done" /\ l = lineNr[w]
        /\ wpc[w] = "done" =>
              \/ lineNr[w] = NrLines
              \/ /\ lineNr[w] \in Lines /\ Mine(w, lineNr[w])
                 /\ kind[lineNr[w]] = "notype"
<1>1. SUFFICES ASSUME NEW w \in Workers PROVE StopsAt(w)'
  BY DEF Stops
<1>2. StopsAt(w)
  BY DEF Stops
<1>3. ASSUME kind' = kind, lineNr'[w] = lineNr[w], wpc'[w] = wpc[w]
      PROVE  StopsAt(w)'
  BY <1>2, <1>3 DEF Mine
<1>4. ASSUME kind' = kind, lineNr'[w] = lineNr[w], wpc[w] # "done", wpc'[w] # "done"
      PROVE  StopsAt(w)'
  BY <1>2, <1>4 DEF Mine
<1>5. CASE UNCHANGED vars
  BY <1>3, <1>5 DEF vars, workerVars
<1>6. CASE Spawn
  <2>1. kind' = kind /\ lineNr' = lineNr
    BY <1>6 DEF Spawn
  <2>2. wpc'[w] = wpc[w] \/ (w = mi /\ wpc'[w] = "scan")
    BY <1>0, <1>6 DEF Spawn
  <2>3. w = mi => wpc[w] = "none"
    BY <1>6, ThreadsAssumption DEF Spawn, Loops, Workers
  <2> QED
    BY <1>3, <1>4, <2>1, <2>2, <2>3
<1>7. CASE AllSpawned \/ Join \/ Flush \/ AllJoined \/ SwapFp \/ PushTrailer \/ Free \/ Exit
  BY <1>3, <1>7 DEF AllSpawned, Join, Flush, AllJoined, SwapFp, PushTrailer, Free, Exit, workerVars
<1>8. ASSUME NEW v \in Workers, Worker(v), v # w
      PROVE  StopsAt(w)'
  BY <1>3, <1>8, WorkerLocal
<1>9. CASE Worker(w)
  <2>0. wpc[w] # "done"
    BY <1>9, WorkerLocal
  <2>1. CASE TryLock(w) \/ Dump(w) \/ Rewind(w) \/ PushPart(w) \/ UseAfterFree(w)
    <3>1. kind' = kind /\ lineNr' = lineNr /\ wpc'[w] # "done"
      BY <1>0, <2>0, <2>1 DEF TryLock, Dump, Rewind, PushPart, UseAfterFree, Place, workerVars
    <3> QED
      BY <1>4, <2>0, <3>1
  <2>2. CASE ScanDone(w)
    BY <1>0, <1>2, <2>0, <2>2 DEF ScanDone, Place, Mine
  <2>3. ASSUME NEW l \in Lines, Looks(w, l), kind' = kind,
               ~(Mine(w, l) /\ kind[l] = "notype"), wpc'[w] # "done"
        PROVE  StopsAt(w)'
    <3>1. lineNr'[w] = l /\ l = lineNr[w] + 1
      BY <1>0, <2>3 DEF Looks
    <3>2. \A m \in Lines : m <= lineNr'[w] => m <= lineNr[w] \/ m = l
      BY <1>0, <3>1
    <3> QED
      BY <1>2, <2>0, <2>3, <3>1, <3>2 DEF Mine
  <2>4. CASE NoType(w)
    <3>1. PICK l \in Lines : Looks(w, l) /\ Mine(w, l) /\ kind[l] = "notype"
      BY <2>4 DEF NoType
    <3>2. lineNr'[w] = l /\ l = lineNr[w] + 1 /\ wpc'[w] = "done" /\ kind' = kind
      BY <1>0, <2>4, <3>1 DEF NoType, Looks, Place
    <3>3. \A m \in Lines : m <= lineNr'[w] => m <= lineNr[w] \/ m = l
      BY <1>0, <3>2
    <3> QED
      BY <1>2, <2>0, <3>1, <3>2, <3>3 DEF Mine
  <2>5. CASE SkipLine(w) \/ NoArgs(w)
    <3>1. PICK l \in Lines : Looks(w, l) /\ ~(Mine(w, l) /\ kind[l] = "notype")
      BY <2>5 DEF SkipLine, NoArgs
    <3>2. kind' = kind /\ wpc'[w] # "done"
      BY <2>0, <2>5 DEF SkipLine, NoArgs
    <3> QED
      BY <2>3, <3>1, <3>2
  <2>6. CASE NothingWritten(w) \/ Handle(w)
    <3>1. PICK l \in Lines : Looks(w, l) /\ ~(Mine(w, l) /\ kind[l] = "notype")
      BY <2>6 DEF NothingWritten, Handle
    <3>2. kind' = kind /\ wpc'[w] # "done"
      BY <1>0, <2>6 DEF NothingWritten, Handle, Place
    <3> QED
      BY <2>3, <3>1, <3>2
  <2> QED
    BY <1>9, <2>1, <2>2, <2>4, <2>5, <2>6 DEF Worker
<1> HIDE DEF StopsAt
<1> QED
  BY <1>5, <1>6, <1>7, <1>8, <1>9 DEF Next, Main

(***************************************************************************)
(* main's loops: what has been joined stays joined, and after that nobody  *)
(* but main writes.                                                        *)
(***************************************************************************)
LEMMA LoopsStep ==
  ASSUME TypeOK, Loops, [Next]_vars
  PROVE  Loops'
<1>0. /\ DOMAIN wpc = Workers /\ DOMAIN tmp = Workers /\ 0 \in Workers
      /\ NrThreads \in Nat /\ mi \in 0..NrThreads /\ out \in Seq(Piece)
      /\ \A w : w \in Workers <=> w \in Nat /\ w < NrThreads
      /\ tpart \in Nat \ {0} /\ TrailerCalls \in Nat \ {0}
      /\ lineNr[0] \in 0..NrLines /\ NrLines \in Nat
  BY ThreadsAssumption, CallsAssumption DEF TypeOK, Workers
<1>1. CASE UNCHANGED vars
  BY <1>1 DEF vars, workerVars, mainVars, Loops, Joined, AtTrailer, Swapped
<1>2. CASE Spawn
  <2>1. mpc = "spawn" /\ ~Swapped /\ ec /\ tpart = 1
    BY <1>2 DEF Spawn, Loops
  <2>2. UNCHANGED <<swapLine, tpart>>
    BY <1>2 DEF Spawn
  <2>3. CASE mpc' = "exit"
    <3>1. mi' = mi /\ mi # NrThreads
      BY <1>0, <1>2, <2>1, <2>3 DEF Spawn
    <3> QED
      BY <2>1, <2>2, <2>3, <3>1 DEF Loops, Swapped, Exiting
  <2>4. CASE mpc' # "exit"
    <3>1. mpc' = "spawn" /\ mi' = mi + 1 /\ ec' = ec /\ wpc' = [wpc EXCEPT ![mi] = "scan"]
      BY <1>2, <2>1, <2>4 DEF Spawn
    <3>2. \A w \in Workers : w >= mi' => wpc'[w] = "none"
      BY <1>0, <2>1, <3>1 DEF Loops
    <3> QED
      BY <2>1, <2>2, <3>1, <3>2 DEF Loops, Swapped, Exiting
  <2> QED
    BY <2>3, <2>4
<1>3. CASE AllSpawned
  BY <1>0, <1>3 DEF AllSpawned, Loops, Swapped, Exiting
<1>4. CASE Join
  BY <1>0, <1>4 DEF Join, Loops, Joined, workerVars, Swapped, Exiting
<1>5. CASE Flush
  <2>1. /\ mpc = "flush" /\ mpc' = "join" /\ mi' = mi + 1 /\ ec' = ec /\ wpc' = wpc
        /\ tmp'[mi] = <<>> /\ \A v \in Workers \ {mi} : tmp'[v] = tmp[v]
        /\ tpart' = tpart /\ swapLine' = swapLine
    BY <1>0, <1>5 DEF Flush, Loops
  <2>2. ASSUME NEW v \in Workers, v < mi' PROVE Joined(v)'
    <3>1. v = mi \/ v < mi
      BY <1>0, <2>1, <2>2
    <3> QED
      BY <2>1, <3>1 DEF Loops, Joined
  <2> QED
    BY <2>1, <2>2 DEF Loops, Swapped, Exiting
<1>6. CASE AllJoined
  BY <1>0, <1>6 DEF AllJoined, Loops, Joined, workerVars, Swapped, Exiting
<1>7. CASE SwapFp
  <2>1. /\ mpc = "exit" /\ mi' = mi /\ ec' = ec /\ wpc' = wpc /\ tmp' = tmp
        /\ tpart' = tpart /\ swapLine' = lineNr[0] /\ lineNr' = lineNr
        /\ mpc' = IF ec THEN "trailer" ELSE "quit"
    BY <1>7 DEF SwapFp, workerVars
  <2>2. tpart = 1 /\ (mi = NrThreads => ec /\ \A w \in Workers : Joined(w))
    BY <2>1 DEF Loops
  <2>3. Swapped' /\ (swapLine <= lineNr[0])'
    BY <1>0, <2>1 DEF Swapped, NotYet
  <2>4. mi' = NrThreads => ec' /\ \A w \in Workers : Joined(w)'
    BY <2>1, <2>2 DEF Joined
  <2>5. tpart' <= TrailerCalls
    BY <1>0, <2>1, <2>2
  <2> QED
    BY <2>1, <2>2, <2>3, <2>4, <2>5 DEF Loops, Exiting
<1>8. CASE PushTrailer
  <2>1. /\ mpc = "trailer" /\ UNCHANGED <<mi, ec, wpc, tmp, swapLine, lineNr>>
        /\ tpart' = tpart + 1 /\ tpart <= TrailerCalls /\ Swapped
        /\ mpc' = IF tpart = TrailerCalls THEN "quit" ELSE "trailer"
    BY <1>8 DEF PushTrailer, workerVars, Loops, Exiting
  <2>2. Swapped' /\ (swapLine <= lineNr[0])'
    BY <2>1 DEF Loops, Swapped
  <2>3. mi' = NrThreads => ec' /\ \A w \in Workers : Joined(w)'
    BY <2>1 DEF Loops, Joined
  <2>4. out' # <<>> /\ out'[Len(out')].line = 0 /\ out'[Len(out')].part = tpart
    <3> DEFINE e == [line |-> 0, ino |-> 0, part |-> tpart, whole |-> TRUE]
    <3>1. e \in Piece /\ e.line = 0 /\ e.part = tpart
      BY <1>0 DEF Piece
    <3>2. out' = Append(out, e)
      BY <1>8 DEF PushTrailer
    <3> HIDE DEF e
    <3>3. out' # <<>> /\ out'[Len(out')] = e
      BY <1>0, <3>1, <3>2
    <3> QED
      BY <3>1, <3>3
  <2>5. tpart' - 1 = tpart /\ (tpart # TrailerCalls => tpart' <= TrailerCalls)
    BY <1>0, <2>1
  <2>6. AtTrailer(tpart - 1)' /\ (tpart = TrailerCalls => AtTrailer(TrailerCalls)')
    BY <2>4, <2>5 DEF AtTrailer
  <2> QED
    BY <2>1, <2>2, <2>3, <2>5, <2>6 DEF Loops, Exiting
<1>9. CASE Free \/ Exit
  <2>1. /\ mpc \in {"quit", "freed"} /\ mpc' \in {"freed", "end"}
        /\ UNCHANGED <<wpc, tmp, out, lineNr, mi, ec, tpart, swapLine>>
    BY <1>9 DEF Free, Exit, workerVars
  <2>2. /\ Swapped /\ swapLine <= lineNr[0]
        /\ mi = NrThreads => ec /\ (\A w \in Workers : Joined(w)) /\ AtTrailer(TrailerCalls)
    BY <2>1 DEF Loops, Exiting
  <2>3. /\ Swapped' /\ (swapLine <= lineNr[0])'
        /\ mi' = NrThreads => ec' /\ (\A w \in Workers : Joined(w)') /\ AtTrailer(TrailerCalls)'
    BY <2>1, <2>2 DEF Swapped, Joined, AtTrailer
  <2> QED
    BY <2>1, <2>3 DEF Loops, Exiting
<1>10. ASSUME NEW w \in Workers, Worker(w)
       PROVE  Loops'
  <2>1. /\ wpc[w] \notin {"none", "done"}
        /\ \A v \in Workers \ {w} : wpc'[v] = wpc[v] /\ tmp'[v] = tmp[v]
        /\ mi' = mi /\ ec' = ec /\ tpart' = tpart /\ swapLine' = swapLine
        /\ mpc' = mpc \/ mpc' = "crashed"
    BY <1>10, WorkerLocal
  <2>2. \A v \in Workers : Joined(v) => Joined(v)' /\ v # w
    BY <2>1 DEF Joined
  <2>3. \A v \in Workers : wpc[v] \in {"none", "done"} => wpc'[v] = wpc[v]
    BY <2>1
  <2>4. ~(Swapped /\ mi = NrThreads) /\ ~(mpc = "exit" /\ mi = NrThreads)
    BY <2>2 DEF Loops
  <2>5. Swapped' <=> Swapped
    BY <2>1 DEF Swapped
  <2>6. Swapped => swapLine' <= lineNr'[0]
    <3>1. lineNr'[0] \in Int /\ lineNr[0] <= lineNr'[0]
      <4>1. lineNr' = lineNr \/ \E l \in Lines : Looks(w, l)
        BY <1>10 DEF Worker, SkipLine, NoType, NoArgs, NothingWritten, Handle, PushPart,
                     TryLock, Dump, Rewind, ScanDone, UseAfterFree, workerVars
      <4>2. ASSUME NEW l \in Lines, Looks(w, l) PROVE lineNr'[0] \in Int /\ lineNr[0] <= lineNr'[0]
        BY <1>0, <4>2 DEF Looks, TypeOK
      <4> QED
        BY <1>0, <4>1, <4>2
    <3>2. swapLine \in Int
      BY <1>0 DEF TypeOK, NotYet
    <3> QED
      BY <1>0, <2>1, <3>1, <3>2 DEF Loops
  <2> QED
    BY <2>1, <2>2, <2>3, <2>4, <2>5, <2>6 DEF Loops, Exiting
<1> QED
  BY <1>1, <1>2, <1>3, <1>4, <1>5, <1>6, <1>7, <1>8, <1>9, <1>10 DEF Next, Main

-----------------------------------------------------------------------------
LEMMA ArchiveInit ==
  ASSUME Init
  PROVE  ArchiveInv
<1> USE DEF Init
<1>1. TypeOK
  BY ThreadsAssumption DEF TypeOK, NotYet, Workers
<1>2. Placed
  BY DEF Placed
<1>3. Handling
  BY DEF Handling
<1>4. Loops
  BY DEF Loops, Swapped, Exiting
<1>5. InOrder
  BY DEF InOrder, Sorted
<1>6. TogetherInv
  BY DEF TogetherInv, MidLine
<1>7. WholeLines
  BY DEF WholeLines
<1>8. \A l \in Lines : ~(l <= 0)
  BY ThreadsAssumption DEF Lines
<1>9. Kept /\ Stops
  BY <1>8 DEF Kept, Stops
<1> QED
  BY <1>1, <1>2, <1>3, <1>4, <1>5, <1>6, <1>7, <1>9 DEF ArchiveInv

\* Every step of main or of a worker keeps the invariant.
LEMMA ArchiveStep ==
  ASSUME ArchiveInv, [Next]_vars
  PROVE  ArchiveInv'
<1> USE DEF ArchiveInv
<1>1. Class
  BY StepClass
<1>2. TypeOK'
  BY TypeStep
<1>3. Placed' /\ Handling' /\ InOrder' /\ TogetherInv' /\ WholeLines' /\ Kept'
  BY <1>1, PlacedStep, HandlingStep, InOrderStep, TogetherStep, WholeStep, KeptStep
<1>4. Stops' /\ Loops'
  BY StopsStep, LoopsStep
<1> QED
  BY <1>2, <1>3, <1>4

(***************************************************************************)
(* The inductive invariant of gen_init_cpio.c: where each line's pieces    *)
(* are, in which order, under which inode, and how far the workers and     *)
(* main have come.                                                         *)
(***************************************************************************)
THEOREM ArchiveInvariant == Spec => []ArchiveInv
<1>1. Init => ArchiveInv
  BY ArchiveInit
<1>2. ArchiveInv /\ [Next]_vars => ArchiveInv'
  BY ArchiveStep
<1> QED
  BY <1>1, <1>2, PTL DEF Spec

(***************************************************************************)
(* gen_init_cpio.c: the lists, the workers' files and the archive keep     *)
(* their types.                                                            *)
(***************************************************************************)
THEOREM ArchiveTyped == Spec => []TypeOK
<1>1. ArchiveInv => TypeOK
  BY DEF ArchiveInv
<1> QED
  BY <1>1, ArchiveInvariant, PTL

\* Pieces of one line come from one writer.
LEMMA SameLine ==
  ASSUME NEW e \in Piece, NEW f \in Piece, e.line = f.line
  PROVE  SameWriter(e, f) /\ (Before(e, f) => e.part # f.part)
<1>1. e.part \in Nat /\ f.part \in Nat /\ e.line \in Int
  BY DEF Piece
<1> QED
  BY <1>1 DEF SameWriter, Before

(***************************************************************************)
(* try_dump_to_stdout, the flush of main and its early exit write nothing  *)
(* twice, and no line half, except one that a failed dump or the early     *)
(* exit cut: for any number of workers, lines, and stdio calls per line.   *)
(***************************************************************************)
THEOREM LinesWrittenOnce == Spec => []WrittenOnce
<1>1. ArchiveInv => WrittenOnce
  <2> SUFFICES ASSUME ArchiveInv PROVE WrittenOnce
    OBVIOUS
  <2>0. out \in Seq(Piece) /\ DOMAIN out \subseteq Int /\ \A k \in DOMAIN out : out[k] \in Piece
    BY DEF ArchiveInv, TypeOK
  <2>1. ASSUME NEW j \in DOMAIN out, NEW k \in DOMAIN out,
               out[j].line = out[k].line, out[j].part = out[k].part
        PROVE  j = k
    <3>1. ASSUME NEW a \in DOMAIN out, NEW b \in DOMAIN out, a < b, out[a].line = out[b].line
          PROVE  out[a].part # out[b].part
      BY <2>0, <3>1, SameLine DEF ArchiveInv, InOrder, Sorted
    <3>2. j < k \/ k < j \/ j = k
      BY <2>0
    <3> QED
      BY <2>1, <3>1, <3>2
  <2>2. ASSUME NEW l \in (LinesOf(out) \cap Lines) \ lost PROVE Torn(l) \/ Complete(out, l)
    <3>1. PICK k \in DOMAIN out : out[k].line = l
      BY DEF LinesOf
    <3> QED
      BY <3>1, Basics DEF ArchiveInv, WholeLines
  <2> QED
    BY <2>1, <2>2 DEF WrittenOnce
<1> QED
  BY <1>1, ArchiveInvariant, PTL

(***************************************************************************)
(* The names and the data of a file stand together in the archive under    *)
(* an inode of their own, except in the lines that main's early exit tears *)
(* between two stdio calls (gen_init_cpio.c:866-870).                      *)
(***************************************************************************)
THEOREM NamesStayTogether == Spec => []LinksTogether
<1>1. ArchiveInv => LinksTogether
  <2> SUFFICES ASSUME ArchiveInv PROVE LinksTogether
    OBVIOUS
  <2>0. \A k \in DOMAIN out : InOut(out[k]) /\ out[k] \in Piece
    BY DEF ArchiveInv, Placed, TypeOK
  <2>1. ASSUME NEW k \in DOMAIN out
        PROVE  \/ out[k].line = 0 /\ out[k].ino = 0
               \/ out[k].line \in Lines /\ out[k].ino = ino[out[k].line] /\ out[k].ino > 0
    <3>1. InOut(out[k]) /\ out[k].line \in 0..NrLines
      BY <2>0 DEF Piece
    <3>2. CASE OfTrailer(out[k])
      BY <3>2 DEF OfTrailer
    <3>3. CASE ~OfTrailer(out[k])
      <4>1. out[k].line % NrThreads \in Workers
        BY <3>1, Basics, ThreadsAssumption
      <4>2. Pushed(out[k].line % NrThreads, out[k])
        BY <3>1, <3>3, <4>1 DEF InOut, Mine
      <4> QED
        BY <4>2 DEF Pushed
    <3> QED
      BY <3>2, <3>3
  <2>2. \A l, m \in Lines : ino[l] > 0 /\ ino[l] = ino[m] => l = m
    BY DEF ArchiveInv, Handling
  <2>3. ASSUME NEW j \in DOMAIN out, NEW k \in DOMAIN out
        PROVE  out[j].ino = out[k].ino <=> out[j].line = out[k].line
    <3>1. \A l \in Lines : l # 0
      BY Basics
    <3>2. out[j].ino \in Nat /\ out[k].ino \in Nat
      BY <2>0 DEF Piece
    <3> QED
      BY <2>1, <2>2, <3>1, <3>2
  <2>4. \A k \in DOMAIN out : Torn(out[k].line) \/ TogetherAt(out, k)
    BY DEF ArchiveInv, TogetherInv
  <2> QED
    BY <2>3, <2>4 DEF LinksTogether
<1> QED
  BY <1>1, ArchiveInvariant, PTL

(***************************************************************************)
(* What a worker writes arrives in the archive in order, past skipped,     *)
(* failed and interleaved dumps and past the replacing of its file.        *)
(***************************************************************************)
THEOREM LinesInOrder == Spec => []WorkerOrder
<1>1. ArchiveInv => WorkerOrder
  BY DEF ArchiveInv, InOrder, Sorted, SameWriter, WorkerOrder
<1> QED
  BY <1>1, ArchiveInvariant, PTL

(***************************************************************************)
(* A run that joined all its workers leaves the archive complete: every    *)
(* line with a handler, save what a failed dump or an unreadable type      *)
(* took, and the trailer last.                                             *)
(***************************************************************************)
THEOREM CompleteAtEnd == Spec => []ArchiveComplete
<1>1. ArchiveInv => ArchiveComplete
  <2> SUFFICES ASSUME ArchiveInv, mpc = "end", mi = NrThreads
               PROVE  /\ LinesOf(out) \cup lost = Due \cup {0}
                      /\ out[Len(out)].line = 0 /\ out[Len(out)].part = TrailerCalls
    BY DEF ArchiveComplete
  <2> USE DEF ArchiveInv
  <2>0. /\ out \in Seq(Piece) /\ lost \subseteq Lines
        /\ \A k \in DOMAIN out : InOut(out[k]) /\ out[k] \in Piece
    BY DEF Placed, TypeOK
  <2>1. /\ out # <<>> /\ out[Len(out)].line = 0 /\ out[Len(out)].part = TrailerCalls
        /\ \A w \in Workers : wpc[w] = "done" /\ tmp[w] = <<>>
    BY DEF Loops, Exiting, Joined, AtTrailer
  <2>2. 0 \in LinesOf(out)
    <3>1. Len(out) \in DOMAIN out
      BY <2>0, <2>1
    <3> QED
      BY <2>1, <3>1 DEF LinesOf
  <2>3. \A l \in Lines : l \in Int /\ 1 <= l /\ l <= NrLines /\ NrLines \in Int
    BY ThreadsAssumption DEF Lines
  <2>4. \A l \in Lines : l % NrThreads \in Workers
    BY ThreadsAssumption DEF Lines, Workers
  <2>5. \A w \in Workers : lineNr[w] \in Int
    BY <2>3 DEF TypeOK
  <2>6. ASSUME NEW l, l \in lost \/ l \in LinesOf(out), l # 0 PROVE l \in Due
    <3> DEFINE w == l % NrThreads
    <3>1. l \in Lines /\ Handled(l) /\ \A v \in Workers : Mine(v, l) => l <= lineNr[v]
      <4>1. CASE l \in lost
        BY <2>0, <4>1 DEF Placed
      <4>2. CASE l \in LinesOf(out)
        <5>1. PICK k \in DOMAIN out : out[k].line = l
          BY <4>2 DEF LinesOf
        <5>2. l \in 0..NrLines /\ ~OfTrailer(out[k])
          BY <2>0, <2>6, <5>1 DEF Piece, OfTrailer
        <5>3. l \in Lines
          BY <2>6, <5>2 DEF Lines
        <5>4. \A v \in Workers : Mine(v, l) => Pushed(v, out[k])
          BY <2>0, <5>1, <5>2 DEF InOut
        <5>5. \A v \in Workers : Mine(v, l) => Handled(l) /\ l <= lineNr[v]
          BY <2>3, <2>5, <5>1, <5>3, <5>4 DEF Pushed
        <5> QED
          BY <2>4, <5>3, <5>5 DEF Mine
      <4> QED
        BY <2>6, <4>1, <4>2
    <3>2. w \in Workers /\ Mine(w, l)
      BY <2>4, <3>1 DEF Mine
    <3>3. l <= lineNr[w]
      BY <3>1, <3>2
    <3>4. ASSUME NEW m \in 1..l, m % NrThreads = w, kind[m] = "notype"
          PROVE  FALSE
      <4>1. m \in Lines /\ m <= l
        BY <2>3, <3>1 DEF Lines
      <4>2. Mine(w, m)
        BY <3>4 DEF Mine
      <4>3. m <= lineNr[w]
        BY <2>3, <2>5, <3>1, <3>2, <3>3, <4>1
      <4>4. m = lineNr[w]
        BY <3>2, <3>4, <4>1, <4>2, <4>3 DEF Stops
      <4>5. m = l
        BY <2>3, <3>1, <3>3, <4>1, <4>4
      <4> QED
        BY <3>1, <3>4, <4>5 DEF Handled
    <3> QED
      BY <3>1, <3>4 DEF Due, GaveUpBefore, Handled
  <2>7. ASSUME NEW l \in Due PROVE l \in LinesOf(out) \cup lost
    <3> DEFINE w == l % NrThreads
    <3>1. l \in Lines /\ Handled(l) /\ ~GaveUpBefore(l)
      BY DEF Due, Handled
    <3>2. w \in Workers /\ Mine(w, l)
      BY <2>4, <3>1 DEF Mine
    <3> HIDE DEF w
    <3>3. l <= lineNr[w]
      <4>1. CASE lineNr[w] = NrLines
        BY <2>3, <3>1, <4>1
      <4>2. CASE /\ lineNr[w] \in Lines /\ Mine(w, lineNr[w])
                 /\ kind[lineNr[w]] = "notype"
        <5>1. lineNr[w] % NrThreads = l % NrThreads
          BY <3>2, <4>2 DEF Mine
        <5>2. lineNr[w] \notin 1..l
          BY <3>1, <4>2, <5>1 DEF GaveUpBefore
        <5> QED
          BY <2>3, <3>1, <4>2, <5>2
      <4> QED
        BY <2>1, <3>2, <4>1, <4>2 DEF Stops
    <3>4. wpc[w] # "push" /\ LinesOf(tmp[w]) = {}
      BY <2>1, <3>2 DEF LinesOf
    <3> QED
      BY <3>1, <3>2, <3>3, <3>4 DEF Kept
  <2>8. Due \subseteq Lines
    BY DEF Due
  <2> QED
    BY <2>1, <2>2, <2>6, <2>7
<1> QED
  BY <1>1, ArchiveInvariant, PTL

-----------------------------------------------------------------------------
(***************************************************************************)
(* The layout: push_pad stops at the next multiple of four.                *)
(***************************************************************************)
LEMMA PaddedIsMultiple ==
  ASSUME NEW n \in Nat
  PROVE  Padded(n) \in Nat /\ Padded(n) % 4 = 0 /\ Padded(n) >= n
BY DEF Padded

\* Sums and differences of multiples of four are multiples of four.
LEMMA MultiplesAdd ==
  ASSUME NEW a \in Int, NEW b \in Int, a % 4 = 0, b % 4 = 0
  PROVE  (a + b) % 4 = 0 /\ (a - b) % 4 = 0
OBVIOUS

Places == [off : Nat, pos : Nat]

\* Both grow by the same number of bytes.
Advances(b, a) == b \in Places /\ b.off >= a.off /\ b.pos - a.pos = b.off - a.off

LEMMA PushAdvances ==
  ASSUME NEW a \in Places, NEW n \in Nat
  PROVE  /\ Advances(Moved(a, n), a) /\ Advances(PushHdr(a), a) /\ Advances(PushString(a, n), a)
         /\ Advances(PushPad(a), a) /\ PushPad(a).off % 4 = 0
<1>1. Padded(a.off) \in Nat /\ Padded(a.off) % 4 = 0 /\ Padded(a.off) >= a.off
  BY PaddedIsMultiple DEF Places
<1>2. \A m \in Nat : Moved(a, m) = [off |-> a.off + m, pos |-> a.pos + m]
  BY DEF Moved
<1>3. \A m \in Nat : Advances(Moved(a, m), a)
  BY <1>2 DEF Advances, Places
<1>4. Padded(a.off) - a.off \in Nat /\ Header \in Nat
  BY <1>1 DEF Places, Header
<1>5. PushPad(a).off = Padded(a.off)
  BY <1>1, <1>2, <1>4 DEF PushPad, Places
<1> QED
  BY <1>1, <1>3, <1>4, <1>5 DEF PushHdr, PushString, PushPad

LEMMA AdvancesOn ==
  ASSUME NEW a \in Places, NEW b, NEW c, Advances(b, a), Advances(c, b)
  PROVE  Advances(c, a)
BY DEF Advances, Places

\* Where the payload of the next entry starts.
LEMMA AfterNameAdvances ==
  ASSUME At \in Places, NEW n \in Nat
  PROVE  Advances(AfterName(n), At) /\ AfterName(n).off % 4 = 0
<1> DEFINE a == PushHdr(At)
           b == PushString(a, n)
<1>1. Advances(a, At) /\ a \in Places
  BY PushAdvances DEF Advances
<1>2. Advances(b, a) /\ b \in Places
  BY <1>1, PushAdvances DEF Advances
<1>3. Advances(PushPad(b), b) /\ PushPad(b).off % 4 = 0
  BY <1>2, PushAdvances
<1>4. AfterName(n) = PushPad(b)
  BY DEF AfterName
<1> HIDE DEF a, b
<1> QED
  BY <1>1, <1>2, <1>3, <1>4, AdvancesOn

\* With its payload of m bytes.
LEMMA PayloadAdvances ==
  ASSUME At \in Places, NEW n \in Nat, NEW m \in Nat
  PROVE  /\ Advances(PushPad(Moved(AfterName(n), m)), At)
         /\ PushPad(Moved(AfterName(n), m)).off % 4 = 0
<1>1. Advances(AfterName(n), At) /\ AfterName(n) \in Places
  BY AfterNameAdvances DEF Advances
<1>2. Advances(Moved(AfterName(n), m), AfterName(n)) /\ Moved(AfterName(n), m) \in Places
  BY <1>1, PushAdvances DEF Advances
<1>3. /\ Advances(PushPad(Moved(AfterName(n), m)), Moved(AfterName(n), m))
      /\ PushPad(Moved(AfterName(n), m)).off % 4 = 0
  BY <1>2, PushAdvances
<1> QED
  BY <1>1, <1>2, <1>3, AdvancesOn

\* A header and a name, padded by themselves, are a multiple of four.
LEMMA RestAdvances ==
  ASSUME NEW a \in Places, NEW n \in Nat
  PROVE  LET b == PushRest(PushHdr(a), n)
         IN Advances(b, a) /\ (b.off - a.off) % 4 = 0
<1> DEFINE m == Padded(n + Header)
           b == PushRest(PushHdr(a), n)
<1>1. m \in Nat /\ m % 4 = 0 /\ m >= n + Header /\ Header \in Nat
  BY PaddedIsMultiple DEF Header
<1>2. b = [off |-> ((a.off + Header) + n) + (m - (n + Header)),
           pos |-> ((a.pos + Header) + n) + (m - (n + Header))]
  BY DEF PushRest, PushHdr, Moved
<1> HIDE DEF m, b
<1>3. b = [off |-> a.off + m, pos |-> a.pos + m]
  BY <1>1, <1>2 DEF Places
<1>4. Advances(b, a) /\ b.off - a.off = m
  BY <1>1, <1>3 DEF Advances, Places
<1>5. (b.off - a.off) % 4 = 0
  BY <1>1, <1>4
<1> QED
  BY <1>4, <1>5 DEF b

(***************************************************************************)
(* Headers and payloads need their own multiples of four, not only the     *)
(* sums that Aligned states: a dump moves archive on.                      *)
(***************************************************************************)
FormatInv ==
    /\ FormatTypeOK
    /\ OffsetIsPosition
    /\ ~archiveCut => archive % 4 = 0
    /\ ~fileCut => pos % 4 = 0 /\ \A h \in headers \cup payloads : h % 4 = 0

\* A handler that leads from an aligned place to an aligned place.
LEMMA WrittenKeeps ==
  ASSUME FormatInv, NEW a, Written(a), Advances(a, At), ~fileCut => a.off % 4 = 0,
         payloads' = payloads \/ \E b : Advances(b, At) /\ payloads' = payloads \cup {b.pos}
                                        /\ (~fileCut => b.off % 4 = 0)
  PROVE  FormatInv'
<1> USE DEF FormatInv, FormatTypeOK, OffsetIsPosition
<1>1. /\ a.off \in Nat /\ a.pos \in Nat /\ a.pos - pos = a.off - offset /\ a.off >= offset
  BY DEF Advances, At, Places
<1>2. offset' \in Nat /\ archive' = archive /\ archiveCut' = archiveCut
      /\ headers' = headers \cup {pos}
  BY <1>1 DEF Written
<1>3. pos' \in Nat /\ fileCut' \in BOOLEAN
  <2>1. CASE pos' = a.pos /\ UNCHANGED fileCut
    BY <1>1, <2>1
  <2>2. ASSUME NEW d \in Short, d <= a.pos - pos, pos' = a.pos - d, fileCut' = TRUE
        PROVE  pos' \in Nat /\ fileCut' \in BOOLEAN
    <3>1. d \in Nat
      BY LengthsAssumption
    <3> QED
      BY <1>1, <2>2, <3>1
  <2> QED
    BY <2>1, <2>2 DEF Written
<1>4. payloads' \subseteq Nat
  <2>1. ASSUME NEW b, Advances(b, At) PROVE b.pos \in Nat
    BY <2>1 DEF Advances, Places
  <2>2. CASE payloads' = payloads
    BY <2>2
  <2>3. CASE payloads' # payloads
    <3>1. PICK b : Advances(b, At) /\ payloads' = payloads \cup {b.pos}
      BY <2>3
    <3>2. b.pos \in Nat
      BY <2>1, <3>1
    <3> QED
      BY <3>1, <3>2
  <2> QED
    BY <2>2, <2>3
<1>5. ASSUME ~fileCut'
      PROVE  /\ offset' = pos' /\ pos' % 4 = 0
             /\ \A h \in headers' \cup payloads' : h % 4 = 0
  <2>1. ~fileCut /\ pos' = a.pos /\ offset' = a.off
    BY <1>5 DEF Written
  <2>2. offset = pos /\ a.pos = a.off /\ pos % 4 = 0
    BY <1>1, <2>1
  <2>3. \A h \in payloads' : h % 4 = 0
    <3>1. ASSUME NEW b, Advances(b, At), ~fileCut => b.off % 4 = 0
          PROVE  b.pos % 4 = 0
      <4>1. b.pos = b.off
        BY <2>2, <3>1 DEF Advances, At, Places
      <4> QED
        BY <2>1, <3>1, <4>1
    <3> QED
      BY <2>1, <3>1
  <2> QED
    BY <1>2, <2>1, <2>2, <2>3
<1> QED
  BY <1>2, <1>3, <1>4, <1>5

\* Every handler and every dump keeps the alignment.
LEMMA FormatInvStep == FormatInv /\ [FormatNext]_formatVars => FormatInv'
<1> SUFFICES ASSUME FormatInv, [FormatNext]_formatVars PROVE FormatInv'
  OBVIOUS
<1> USE DEF FormatInv, FormatTypeOK, OffsetIsPosition
<1>0. At \in Places /\ At.off = offset /\ At.pos = pos
  BY DEF At, Places
<1>1. CASE UNCHANGED formatVars
  BY <1>1 DEF formatVars
<1>2. ASSUME NEW n \in Lengths, MkGeneric(n) PROVE FormatInv'
  <2> DEFINE a == PushRest(PushHdr(At), n)
  <2>1. Advances(a, At) /\ (a.off - offset) % 4 = 0
    BY <1>0, RestAdvances, LengthsAssumption
  <2> HIDE DEF a
  <2>2. ~fileCut => a.off % 4 = 0
    <3>1. a.off \in Int /\ a.off = (a.off - offset) + offset
      BY <2>1 DEF Advances, Places
    <3> QED
      BY <2>1, <3>1, MultiplesAdd
  <2>3. Written(a) /\ payloads' = payloads
    BY <1>2 DEF MkGeneric, a
  <2> QED
    BY <2>1, <2>2, <2>3, WrittenKeeps
<1>3. ASSUME NEW n \in Lengths, OtherDump(n) PROVE FormatInv'
  <2> DEFINE z == [off |-> 0, pos |-> 0]
             bytes == PushRest(PushHdr(z), n).pos
  <2>1. bytes \in Nat /\ bytes % 4 = 0
    <3>1. z \in Places
      BY DEF Places
    <3>2. /\ Advances(PushRest(PushHdr(z), n), z) /\ z.off = 0 /\ z.pos = 0
          /\ (PushRest(PushHdr(z), n).off - z.off) % 4 = 0
      BY <3>1, RestAdvances, LengthsAssumption
    <3> QED
      BY <3>2 DEF Advances, Places
  <2>2. UNCHANGED <<offset, pos, headers, payloads, fileCut>>
    BY <1>3 DEF OtherDump
  <2>3. \/ archive' = archive + bytes /\ UNCHANGED archiveCut
        \/ \E d \in Short : d <= bytes /\ archive' = archive + (bytes - d) /\ archiveCut' = TRUE
    BY <1>3 DEF OtherDump
  <2> HIDE DEF bytes
  <2>4. CASE archive' = archive + bytes /\ UNCHANGED archiveCut
    <3>1. archive' \in Nat /\ (~archiveCut' => archive' % 4 = 0)
      BY <2>1, <2>4, MultiplesAdd
    <3> QED
      BY <2>2, <2>4, <3>1
  <2>5. ASSUME NEW d \in Short, d <= bytes, archive' = archive + (bytes - d), archiveCut' = TRUE
        PROVE  FormatInv'
    <3>1. archive' \in Nat
      BY <2>1, <2>5, LengthsAssumption
    <3> QED
      BY <2>2, <2>5, <3>1
  <2> QED
    BY <2>3, <2>4, <2>5
<1>4. ASSUME NEW n \in Lengths, NEW target \in Lengths, MkSlink(n, target)
      PROVE  FormatInv'
  <2> DEFINE a == PushPad(PushString(AfterName(n), target))
  <2>1. Advances(AfterName(n), At) /\ AfterName(n).off % 4 = 0
    BY <1>0, AfterNameAdvances, LengthsAssumption
  <2>2. Advances(a, At) /\ a.off % 4 = 0
    BY <1>0, PayloadAdvances, LengthsAssumption DEF PushString
  <2>3. Written(a) /\ payloads' = payloads \cup {AfterName(n).pos}
    BY <1>4 DEF MkSlink
  <2> HIDE DEF a
  <2> QED
    BY <2>1, <2>2, <2>3, WrittenKeeps
<1>5. ASSUME NEW n \in Lengths, NEW size \in Sizes, MkFileName(n, size)
      PROVE  FormatInv'
  <2> DEFINE a == IF size = 0 THEN AfterName(n) ELSE PushPad(Moved(AfterName(n), size))
  <2>1. Advances(AfterName(n), At) /\ AfterName(n).off % 4 = 0
    BY <1>0, AfterNameAdvances, LengthsAssumption
  <2>2. Advances(a, At) /\ a.off % 4 = 0
    BY <1>0, <2>1, PayloadAdvances, LengthsAssumption
  <2>3. Written(a) /\ (payloads' = payloads \/ payloads' = payloads \cup {AfterName(n).pos})
    BY <1>5 DEF MkFileName
  <2> HIDE DEF a
  <2> QED
    BY <2>1, <2>2, <2>3, WrittenKeeps
<1>6. ASSUME NEW n \in Lengths, NEW size \in Sizes, MkFileFails(n, size)
      PROVE  FormatInv'
  <2>1. AfterName(n).off \in Nat /\ AfterName(n).pos \in Nat
    BY <1>0, AfterNameAdvances, LengthsAssumption DEF Advances, Places
  <2>2. PICK d \in Short : d <= size /\ pos' = AfterName(n).pos + (size - d)
    BY <1>6 DEF MkFileFails
  <2>3. pos' \in Nat
    BY <2>1, <2>2, LengthsAssumption
  <2> QED
    BY <1>6, <2>1, <2>3 DEF MkFileFails
<1>7. CASE DumpFile
  <2>1. /\ pos' = 0 /\ offset' = 0 /\ headers' = {} /\ payloads' = {} /\ fileCut' = FALSE
    BY <1>7 DEF DumpFile
  <2>2. pos' % 4 = 0 /\ pos' \in Nat /\ offset' \in Nat
        /\ \A h \in (headers \cup payloads)' : h % 4 = 0
    BY <2>1
  <2>3. archive' \in Nat /\ archiveCut' \in BOOLEAN /\ (~archiveCut' => archive' % 4 = 0)
    <3>1. CASE archive' = archive + pos /\ archiveCut' = (archiveCut \/ fileCut)
      <4>1. archive' \in Nat /\ archiveCut' \in BOOLEAN
        BY <3>1
      <4>2. ASSUME ~archiveCut' PROVE archive' % 4 = 0
        <5>1. ~archiveCut /\ ~fileCut
          BY <3>1, <4>2
        <5> QED
          BY <3>1, <5>1, MultiplesAdd
      <4> QED
        BY <4>1, <4>2
    <3>2. ASSUME NEW d \in Short, d <= pos, archive' = archive + (pos - d), archiveCut' = TRUE
          PROVE  <2>3
      BY <3>2, LengthsAssumption
    <3>3. CASE UNCHANGED <<archive, archiveCut>>
      BY <3>3
    <3> QED
      BY <1>7, <3>1, <3>2, <3>3 DEF DumpFile
  <2> QED
    BY <2>1, <2>2, <2>3
<1> QED
  BY <1>1, <1>2, <1>3, <1>4, <1>5, <1>6, <1>7 DEF FormatNext, MkNod

(***************************************************************************)
(* For names, targets and files of any length, and as long as nothing that *)
(* fell short is dumped, every header and payload that gen_init_cpio       *)
(* writes lands on a multiple of four in the archive; and the offset it    *)
(* pads by is the position in the file, anew after every rewind.           *)
(***************************************************************************)
THEOREM ArchiveAligned == FormatSpec => []Aligned
<1>1. FormatInit => FormatInv
  <2> SUFFICES ASSUME FormatInit PROVE FormatInv
    OBVIOUS
  <2>1. FormatTypeOK /\ OffsetIsPosition
    BY DEF FormatInit, FormatTypeOK, OffsetIsPosition
  <2>2. archive % 4 = 0 /\ pos % 4 = 0 /\ headers \cup payloads = {}
    BY DEF FormatInit
  <2> QED
    BY <2>1, <2>2 DEF FormatInv
<1>2. FormatInv => Aligned
  <2> SUFFICES ASSUME FormatInv, ~archiveCut, ~fileCut, NEW h \in headers \cup payloads
               PROVE  (archive + h) % 4 = 0
    BY DEF FormatInv, Aligned
  <2>1. h \in Int /\ archive \in Int /\ h % 4 = 0 /\ archive % 4 = 0
    BY DEF FormatInv, FormatTypeOK
  <2> QED
    BY <2>1, MultiplesAdd
<1> QED
  BY <1>1, <1>2, FormatInvStep, PTL DEF FormatSpec
=============================================================================
