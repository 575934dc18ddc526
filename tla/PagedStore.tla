----------------------------- MODULE PagedStore -----------------------------
(***************************************************************************)
(* The line store that leaves an unedited file on disk                      *)
(* (engine/buffer/paged.go over original.go and original_cache.go).  The    *)
(* buffer is a tree of spans; a line is found in the tree, then read from   *)
(* the lines added or from the file.  The store itself only reads, but the  *)
(* file is open by its inode: ":w >>" of the buffer's own name, or any      *)
(* other program, appends to what the store reads.                          *)
(***************************************************************************)
EXTENDS OriginalFile, SpanTree

CONSTANTS
  Files,        \* the contents a file can have when it is opened
  Edited,       \* the lines a user writes
  LineNo,       \* the line numbers callers give
  Prio,         \* the random numbers drawn
  Unterminated  \* may a file grow whose last line has no newline

Byte == {NL} \cup UNION {{t[i] : i \in DOMAIN t} : t \in Files \cup Edited}
Text == Seq(Byte \ {NL})

ASSUME PagedAssumption ==
  Files \subseteq Seq(Byte) /\ Edited \subseteq Text /\ LineNo \subseteq Int

VARIABLES
  file,     \* the bytes of the file
  opened,   \* history: its bytes when it was opened
  orig,     \* the reader of the file
  add,      \* the lines added, never changed
  root,     \* the tree
  lines,    \* history: the buffer that the tree stands for
  answer    \* history: the line read last

vars == <<file, opened, orig, add, root, lines, answer>>

-----------------------------------------------------------------------------
\* The lines of a file, by definition: what lies between its newlines.
LinesOf(f) ==
  LET ends == <<0>> \o LineEnds(f)
                \o (IF f = <<>> \/ Complete(f) THEN <<>> ELSE <<Len(f) + 1>>)
  IN  [i \in 1..(Len(ends) - 1) |-> SubSeq(f, ends[i] + 1, ends[i + 1] - 1)]

\* The buffer a tree stands for.
BufferOf(t, added) ==
  LET old == LinesOf(opened)
      order == Order(t)
  IN  [i \in DOMAIN order |->
         IF order[i][1] THEN added[order[i][2] + 1] ELSE old[order[i][2] + 1]]

-----------------------------------------------------------------------------
OrigSpan(o) == [fromAdd |-> FALSE, start |-> 0, count |-> o.nlines]
AddSpan == [fromAdd |-> TRUE, start |-> Len(add), count |-> 1]

Init ==
  /\ file \in Files
  /\ opened = file
  /\ orig = newOriginal(file)
  /\ add = <<>>
  /\ \E p \in Prio :
       root = IF orig.nlines = 0 THEN NoNode ELSE newNode(OrigSpan(orig), p)
  /\ lines = BufferOf(root, add)
  /\ answer = <<>>

Lines == lc(root)

-----------------------------------------------------------------------------
\* What Get returns, and the reader behind it.
Read(lno) ==
  LET at == locate(root, lno - 1)
  IN  IF lno \notin 1..Lines THEN [text |-> <<>>, o |-> orig]
      ELSE IF at.sp.fromAdd THEN [text |-> add[at.sp.start + at.off + 1], o |-> orig]
      ELSE ReadLine(orig, file, at.sp.start + at.off)

Get(lno) ==
  /\ answer' = Read(lno).text
  /\ orig' = Read(lno).o
  /\ UNCHANGED <<file, opened, add, root, lines>>

\* A number is drawn for a half of a span, where one is divided behind line k.
Drawn(k) == IF k \in 1..(Lines - 1) /\ locate(root, k).off # 0 THEN Prio ELSE {0}

\* The tree of the first k lines, and what is left of the rest without its
\* first n lines.  Of the numbers drawn on the way only two are in the nodes
\* that remain, one on either side.
Cut(k, n, p, q) ==
  LET parts == split(root, k, p, q)
  IN  << parts[1], split(parts[2], n, p, q)[2] >>

\* A new node for the line added last, between two trees.
Between(cut, r) == merge(merge(cut[1], newNode(AddSpan, r)), cut[2])

\* Set leaves the old line where it is and puts the new one in its place.
Set(lno, line) ==
  /\ IF lno \notin 1..Lines THEN UNCHANGED <<add, root>>
     ELSE /\ add' = Append(add, line)
          /\ \E p \in Drawn(lno - 1), q \in Drawn(lno), r \in Prio :
               root' = Between(Cut(lno - 1, 1, p, q), r)
  /\ lines' = BufferOf(root', add')
  /\ UNCHANGED <<file, opened, orig, answer>>

\* The number of lines an insertion goes behind.
Clamp(k) == IF k < 0 THEN 0 ELSE IF k > Lines THEN Lines ELSE k

Insert(lno, line) ==
  /\ add' = Append(add, line)
  /\ LET k == Clamp(lno - 1)
     IN  \E p, q \in Drawn(k), r \in Prio : root' = Between(split(root, k, p, q), r)
  /\ lines' = BufferOf(root', add')
  /\ UNCHANGED <<file, opened, orig, answer>>

Delete(lno) ==
  /\ IF lno \notin 1..Lines THEN UNCHANGED root
     ELSE \E p \in Drawn(lno - 1), q \in Drawn(lno) :
            LET cut == Cut(lno - 1, 1, p, q)
            IN  root' = merge(cut[1], cut[2])
  /\ lines' = BufferOf(root', add)
  /\ UNCHANGED <<file, opened, orig, add, answer>>

\* One round of the loop of ":w >>" on the buffer's own file: a line is read
\* and written behind the file.
AppendToFile(lno) ==
  /\ file # <<>> /\ (Complete(file) \/ Unterminated)
  /\ lno \in 1..Lines
  /\ answer' = Read(lno).text
  /\ orig' = Read(lno).o
  /\ file' = file \o Read(lno).text \o <<NL>>
  /\ UNCHANGED <<opened, add, root, lines>>

Next ==
  \E lno \in LineNo :
    \/ Get(lno)
    \/ \E line \in Edited : Set(lno, line) \/ Insert(lno, line)
    \/ Delete(lno)
    \/ AppendToFile(lno)

Spec == Init /\ [][Next]_vars

-----------------------------------------------------------------------------
(***************************************************************************)
(* Properties.                                                              *)
(***************************************************************************)

\* Through any mixture of reads and edits, at any shape of the tree and in any
\* state of the three shortcuts, the store is the plain sequence of lines that
\* buffer.Mem is, and Get returns what was last written (Paged.Get, Set, Insert
\* and Delete).
Abstract == INSTANCE LineBuffer
              WITH Line <- Text, Empty <- <<>>
ImplementsStore == Abstract!LSpec

\* The tree counts its lines rightly at every node, holds no empty span, and no
\* line of the file or of the added lines is in the buffer twice (update, split
\* and merge; lcount is what every later position is found by).
TreeSound ==
  LET order == Order(root)
  IN  /\ \A t \in Below(root) \ {NoNode} : t.sp.count > 0 /\ t.lcount = Len(Order(t))
      /\ IsInjective(order)
      /\ ToSet(order) \subseteq ({TRUE} \X (0..(Len(add) - 1)))
                              \cup ({FALSE} \X (0..(orig.nlines - 1)))

\* The offset at which line oln of the opened file starts; behind the last
\* line, its end.
StartOf(oln) ==
  LET starts == <<0>> \o LineEnds(opened)
  IN  IF oln < Len(starts) THEN starts[oln + 1] ELSE Len(opened)

\* The checkpoints and the cursor of the reader are the offsets at which their
\* lines start, and its block is what the file holds, whatever was read in
\* between and though the file grows ("Byte offsets into the
\* immutable original never go stale", original.go:132).
CursorSound ==
  /\ \A j \in DOMAIN orig.checkpoints : orig.checkpoints[j] = StartOf((j - 1) * Stride)
  /\ orig.seqLine # 0 => orig.seqLine <= orig.nlines /\ orig.seqPos = StartOf(orig.seqLine)
  /\ orig.blockBuf = SubSeq(file, orig.blockPos + 1, orig.blockPos + Len(orig.blockBuf))

\* The map and the list of the cache hold the same entries, the list reads the
\* same in both directions, the count is the sum of its lines and within the
\* budget unless one line alone exceeds it, and an entry is what its line is.
CacheSound ==
  LET c == orig.cache
  IN  /\ \E list \in [1..Cardinality(DOMAIN c.m) -> DOMAIN c.m] :
           Linked(c, list) /\ c.runes = RunesOf(c, list)
      /\ c.runes <= Budget \/ Cardinality(DOMAIN c.m) = 1
      /\ \A oln \in DOMAIN c.m : c.m[oln] = LinesOf(opened)[oln + 1]
=============================================================================
