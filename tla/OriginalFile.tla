---------------------------- MODULE OriginalFile ----------------------------
(***************************************************************************)
(* The unedited file under a paged store (engine/buffer/original.go): the   *)
(* sparse index of line starts built when the file is opened, and the       *)
(* reader of a line with its three shortcuts, the cache of decoded lines,   *)
(* the block of bytes read last, and the cursor behind the line read last.  *)
(* Offsets and line numbers count from 0.  A byte is a character.           *)
(* A reader is a record:                                                    *)
(*   nlines, checkpoints    the index                                       *)
(*   cache                  see LineCache                                   *)
(*   blockPos, blockBuf     the block read last; <<>> when there is none    *)
(*   seqLine, seqPos        the cursor; seqLine = 0 when there is none      *)
(***************************************************************************)
EXTENDS LineCache

CONSTANTS
  NL,       \* the byte that ends a line
  Stride,   \* indexStride: lines for each checkpoint
  Chunk     \* scanChunk: bytes read at once

ASSUME OriginalAssumption ==
  Budget \in Nat /\ Stride \in Nat \ {0} /\ Chunk \in Nat \ {0}

\* The offsets behind the newlines of a file, in their order.
LineEnds(file) ==
  LET upto[i \in 0..Len(file)] ==
        IF i = 0 THEN <<>>
        ELSE IF file[i] = NL THEN Append(upto[i - 1], i)
        ELSE upto[i - 1]
  IN  upto[Len(file)]

Complete(file) == file # <<>> /\ Last(file) = NL

newOriginal(file) ==
  LET ends == LineEnds(file)
  IN  [nlines |-> IF file = <<>> \/ Complete(file) THEN Len(ends) ELSE Len(ends) + 1,
       checkpoints |-> [j \in 1..(1 + Len(ends) \div Stride) |->
                          IF j = 1 THEN 0 ELSE ends[(j - 1) * Stride]],
       cache |-> newOrigCache,
       blockPos |-> 0, blockBuf |-> <<>>,
       seqLine |-> 0, seqPos |-> 0]

\* ReadAt reads the file as it is now, also behind the end it had when opened.
ReadAt(file, pos) ==
  SubSeq(file, pos + 1, IF pos + Chunk > Len(file) THEN Len(file) ELSE pos + Chunk)

\* Faulty variant: the block is held to reach one byte further than it does.
InBlockAndNext(o, pos) ==
  o.blockBuf # <<>> /\ pos >= o.blockPos /\ pos <= o.blockPos + Len(o.blockBuf)

InBlock(o, pos) ==
  o.blockBuf # <<>> /\ pos >= o.blockPos /\ pos < o.blockPos + Len(o.blockBuf)

\* The reader with a block that holds the byte at pos, unless pos is the end.
Loaded(o, file, pos) ==
  IF InBlock(o, pos) THEN o
  ELSE [o EXCEPT !.blockPos = pos, !.blockBuf = ReadAt(file, pos)]

\* The bytes from pos to the end of the block.
blockAt(o, pos) == SubSeq(o.blockBuf, pos - o.blockPos + 1, Len(o.blockBuf))

\* One round of the loop that skips lines: n of them are left, and as many as
\* the rest of the block holds are passed.  At the end of the file nothing is.
SkipBlock(s, file) ==
  LET r == Loaded(s.o, file, s.pos)
      chunk == blockAt(r, s.pos)
      ends == LineEnds(chunk)
  IN  IF s.n <= 0 THEN s
      ELSE IF Len(ends) >= s.n THEN [o |-> r, pos |-> s.pos + ends[s.n], n |-> 0]
      ELSE [o |-> r, pos |-> s.pos + Len(chunk), n |-> s.n - Len(ends)]

\* The position after n newlines from pos, and the reader that got there.
Skip(o, file, pos, n) ==
  LET after[i \in 0..Len(file)] ==
        IF i = 0 THEN [o |-> o, pos |-> pos, n |-> n] ELSE SkipBlock(after[i - 1], file)
  IN  after[Len(file)]

\* One round of the loop that reads a line: the bytes of the block up to a
\* newline or its end are added to the text.
ContentBlock(s, file) ==
  LET r == Loaded(s.o, file, s.pos)
      chunk == blockAt(r, s.pos)
      ends == LineEnds(chunk)
  IN  IF s.done THEN s
      ELSE IF chunk = <<>> THEN [s EXCEPT !.o = r, !.done = TRUE]
      ELSE IF ends = <<>>
        THEN [s EXCEPT !.o = r, !.pos = @ + Len(chunk), !.text = @ \o chunk]
      ELSE [o |-> r, pos |-> s.pos + ends[1],
            text |-> s.text \o SubSeq(chunk, 1, ends[1] - 1), done |-> TRUE]

\* The bytes from pos to the next newline or the end, and the position behind.
Content(o, file, pos) ==
  LET after[i \in 0..(Len(file) + 1)] ==
        IF i = 0 THEN [o |-> o, pos |-> pos, text |-> <<>>, done |-> FALSE]
        ELSE ContentBlock(after[i - 1], file)
  IN  after[Len(file) + 1]

\* Faulty variant: the cursor is taken for any line behind the checkpoint.
CursorServesAny(o, oln) == o.seqLine > (oln \div Stride) * Stride

CursorServes(o, oln) ==
  o.seqLine # 0 /\ o.seqLine <= oln /\ o.seqLine > (oln \div Stride) * Stride

\* Line oln is read: the line, and the reader that has read it.
ReadLine(o, file, oln) ==
  LET startLine == IF CursorServes(o, oln) THEN o.seqLine ELSE (oln \div Stride) * Stride
      start == IF CursorServes(o, oln) THEN o.seqPos ELSE o.checkpoints[1 + oln \div Stride]
      there == Skip(o, file, start, oln - startLine)
      got == Content(there.o, file, there.pos)
  IN  IF oln < 0 \/ oln >= o.nlines THEN [text |-> <<>>, o |-> o]
      ELSE IF Cached(o.cache, oln)
        THEN [text |-> o.cache.m[oln], o |-> [o EXCEPT !.cache = toFront(@, oln)]]
      ELSE [text |-> got.text,
            o |-> [got.o EXCEPT !.seqLine = oln + 1, !.seqPos = got.pos,
                                !.cache = put(@, oln, got.text)]]
=============================================================================
