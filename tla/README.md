# Verification of govi

govi is a vi/ex editor in Go: an engine without any terminal (`engine/`), a
terminal frontend on tcell (`frontend/tcell`), a grid frontend and a macOS GUI
that drive the same engine. This directory holds TLA+ models of its stateful
parts, TLC configurations that check them on small instances, and TLAPS proofs
of theorems about the undo log, the ex commands and `:global`, crash recovery, the
interrupt and the files a session edits, for instances of every size. Paths below are
relative to the repository's root; line numbers are those `PROJECT.json` gives
for every definition under `map`.

## 1. Inventory

| Part | State | Operations | Called by | What must hold |
|---|---|---|---|---|
| Line store (`engine/buffer`) | the lines, numbered from 1; `Mem` holds them, `Paged` refers to pieces of the file | Get, Set, Insert, Append, Delete | undo log, screen | the paged store behaves as `Mem`; its cache stays in its budget |
| Undo log (`engine/undo`) | open change set and its nesting depth, undo and redo stacks, edit generation | Begin, End, Set, SetKnown, Insert, Append, Delete, Undo, UndoLineOnly, Redo | every edit of a screen | undo and redo return to exact earlier contents; the generation tells contents apart |
| Screen (`engine/screen.go`) | buffer, log, marks, cursor, viewport, display cache, `:g` match list | setLine, insertLine, appendLine, deleteLine, clampCursor, displayLine | vi and ex commands | marks and match list follow the lines; the cursor is inside the buffer |
| Marks, registers (`engine/mark`, `engine/register`) | name -> line; named and numbered registers | set, shift; store, append, rotate | screen, commands | marks stay on their line; deletes rotate, yanks do not |
| Crash recovery (`engine/recovery.go`) | one `recoverPath`, `recoverDirty`, `recoverKeep` for the whole editor; the files in the recovery directory | noteRecovery, SyncRecovery, removeRecovery, `:preserve`, `:recover` | endChange, Save, quit, the host's idle timer, fatal signals | unsaved text can be recovered; nobody else's snapshot is touched |
| Files (`engine/engine.go`, `exfile.go`, `excmds.go`, `backup.go`, `lock_unix.go`) | name, modified flag, argument list, lock descriptor | `:e`, `:w`, `:n`, `:f`, `:q`, writeFile | user | no change is lost without `!`; a write replaces the file whole |
| Interrupt (`engine/interrupt.go`) | a flag and a one-slot channel, shared by two goroutines | Interrupt, Interrupted, awaitCmd, clearInterrupt | the forwarder; polling and waiting commands | a ^C stops the running command and no later one |
| Terminal frontend (`frontend/tcell`) | the forwarder's queue, the burst being painted, suspended or not | forwardInterrupts, runVisual, processEvents, runExMode, handleSignal | tcell, the operating system | no event lost or reordered; signals are served |
| Screens and splits (`engine/split.go`, `screencmds.go`, `cedit.go`, `gui.go`, Resize in `engine.go`) | the displayed and the background screens, their rectangles, the active one | split, close, `:resize`, `:bg`, `:fg`, `:Fg`, ^W, drag a divider, resize the terminal | user, host | the screens tile the display; none is lost |
| vi (`engine/vi*.go`, `register/`) | count, register and operator being built, repeat buffer, insertion in progress, direction of `u` | one per key | Input | each command is one undo unit; `.` repeats all of it and ends; deleted text is in a register; a motion goes where its definition says |
| ex (`engine/ex*.go`) | the line being executed | ex lines | exFeed, the colon line | each line is one undo unit |
| Viewport (`engine/screen.go`, `display.go`, `vi.go`, `frontend/grid`) | top line, cursor, map rows, window option, column to keep | scrollToCursor, ^F ^B ^D ^U ^E ^Y z H M L, Resize, ScrollLines, clicks | Input, host | the cursor is shown where it is; a click finds what it hits; pages leave nothing out |
| Key maps (`engine/maps.go`) | tables, held-back prefix | feedMapRune, resolveMap, timeout | Input | keys are expanded once each, none lost |
| Search, regular expressions, options, tags, cscope, shell, GUI | text layout, tables and I/O | | | see "Not modelled" |

How they interact: the host feeds one event at a time to `Engine.Input` (or one
line to `exFeed`), on one goroutine. A command edits the active screen between
`beginChange` and `endChange`; every edit goes through the undo log to the
line store; `endChange` closes the change set, sets `modified` and notes the
change for recovery. The exceptions to "one goroutine" are the forwarder, which
records a ^C while a command runs, and the operating system, which delivers
signals and crashes.

Hard behaviours: shifting line numbers under undo, redo and `:global`; nested
change sets; state that is one per editor while screens are many (recovery, the
direction of undo, the lock); a throttled, error-swallowing snapshot that has to
survive the process; two goroutines over a flag and a channel that are neither
set nor reset together; a repeat buffer that is made of the user's keys; arithmetic
over wrapped rows that engine, painters and mouse each do for themselves; a store
that reads a file others may append to. `PROJECT.json` lists them, each at its line, under
`hazards`, with the properties that cover them.

## 2. Modules

```
LineStore ---> UndoLog ---> UndoHistory ---> MCUndo
   |  |           |           | refines
   |  |           |           v
   |  |           |        LinearHistory
   |  v           v
   |  LineEdits --> Global ---> MCGlobal
   v                  \-----------------------------v
Lists ---> UndoHistoryProofs ---> GlobalProofs
  |   \--> ScreensProofs, RecoveryProofs
  \------> PagedStoreProofs
Recovery ---> MCRecovery, RecoveryProofs
Interrupt ---> InterruptProofs
Files ---> MCFiles
   |
   v
FilesProofs
LineCache ---> OriginalFile ---> PagedStore ---> MCPagedStore, PagedStoreProofs
                SpanTree ----------^  | refines
LineStore ---> LineBuffer <-----------+
Motions ---> CursorMotions ---> MCMotions
   |  \---> ViEdits ---> ViInsert ---> ViKeys ---> MCVi
   |            ^ UndoLog                 | refines LinearHistory
   +---> Display ---> Viewport ---> MCViewport
```

`LineStore` is the buffer as a sequence of lines. Its operators are those of
`buffer.Mem`, with what each does to an address outside the buffer: `Set` and
`Delete` ignore it, `Insert` moves it to the nearest position.

`UndoLog` is `engine/undo/undo.go`, one action per exported method. A change
set is a sequence of records (kind, line number, before, after); Undo runs
through it backwards, Redo forwards, both straight on the store. The record
keeps the line number the *caller* gave; callers may name up to `Over` lines
behind the buffer, and Undo and Redo may run inside a change set that has records.
Lines are members of the set `Line`; `Set` of a line outside the buffer records no
after-image, which a replay also ignores.

`UndoHistory` adds history variables: the buffer at each change-set boundary, and
`astray`, set once a caller has inserted or deleted at a line that is not there, or
undone inside an open change set. No action of the log reads them. `LinearHistory` is
the abstract promise (snapshots, no records), with `lost` from which on nothing is
promised; `UndoHistory` refines it with `now <- store` and `lost <- astray`.

`LineEdits` is how a screen changes its buffer. `setLine`, `insertLine`,
`appendLine` and `deleteLine` (`engine/screen.go`) are operators on the state of a
running command: the lines, the records the log gains, the marks, the match
list of `:global` and the cursor. The ex commands `:d`, `:t`, `:m`, `:j`, `:s`,
`:put` and `:k` are built from them in the order of the code, which decides which
number means which line. A line is an identity and a text. The code has no
identities: they let the properties ask *which* line a number means. A text either
matches the pattern of `:g` and `:s` or does not. A loop of a command is `Rounds`: the states
after each of its rounds.

`Global` composes them with `UndoLog`. A command runs to its end in one step, as
nothing runs beside it; `:global` is one step for each match, with an interrupt or
an error of the body possible at each, and inside `:s` before each of its lines.
The cursor is forgotten between commands, where the user moves it at will. `u`
with its turning direction (`lastStepRedo`) and `.` after it are actions. `<<>>`
stands for the nil match list. Numbers may lie `Over` lines behind the buffer, and a
mark, which undo may have left behind the buffer, is a destination of `:t` and `:m`.
`trust` is a history variable: "astray" once a command has inserted or deleted at a
number outside the buffer, "torn" once an undo or a redo has walked the records of one.
A `:global` or an undo as the body is not in the model (the code does not refuse them,
see the hazard at `engine/exsearch.go:590`).

`Recovery` is `engine/recovery.go` with everything that calls it: endChange, the
undo command, `:w`, `:f`, `:e`, `:E`, ^W, `:q`, `^\`, `:preserve`, `:recover`, the
idle flush, fatal signals, crashes, and later sessions on the same directory. A
buffer is its text, a text a model value. Snapshots bear the second they were written
in (`clock`), and their identities are in the order of the directory, which decides between
two of one second. A name is a file or is relative to a directory: the editor resolves it
against its own (`cwd`, `:cd`), `findRecovery` against that of the process. Each
write of a snapshot may fail, as may the creation of its file, and the code's silence
about that is kept. The `recoverInterval` throttle is a nondeterministic "due".
`covered`, `preserved` and `owed` are history variables that only the properties read.

`Interrupt` is the flag and the channel of `engine/interrupt.go` between the
forwarder and the main loop of `frontend/tcell/screen.go`. `Interrupt()` and
`clearInterrupt()` are two steps each; polls, receives and hand-overs are single
steps. After `Q` the reader selects at random between the closed channel and the next event:
it may deliver some more, the one posted to wake it included, and drop one. A timer may call
`Input` too. A command is quick, searching (polls), or waiting for a child that may
never end. `Q` leaves the visual loop, which closes its channels; ex lines run
through `exFeed`, which resets nothing. One assumption is made about people: a
line is entered in ex mode only after the goroutines of the visual session have
ended.

`Files` is the commands that write a buffer and those that leave it: `:w`, `:wq`,
`:x`, `:wn`, `:w >>`, `:q`, `:e`, `:n`, `:prev`, `:rewind`, `:f`, the jumps to
another file, and autowrite, with Save, writeFile, Open and the lock of
`engine/lock_unix.go`. Each session is a process; its commands proceed in the
steps that other sessions can see: the rename, the renewal of the lock after it,
the reading of a file, the lock after that. A process may die between any two, and
a write may fail or be interrupted before its rename. It may also come out short: the
errors of `Write` are ignored, so what is renamed over the file is the text or a part of it
(`Put`), and `:w >>` adds all, some or nothing. The temporary file is seen by
nobody and is not in the model. A lock is on the file's inode: a rename by anyone
leaves it `Orphan`, held and without effect. A text is one of a few, or `Scrap`:
the empty buffer, a part, texts appended to each other. `seen` is a history
variable, what the file gave or got when it was last read or written as a whole; `short`
says that the last such write was short. Not in the model: a session
without a file, `writeany`, `:set readonly`, what the backup holds, the background screens,
the GUI's "Save As".

`Screens` is the geometry of the split screens and the two lists they are kept
in. The code has the same arithmetic twice, for rows and for columns; here a
screen has a span on each `Axis`, of `len` text rows or columns and one more for
the status row or the divider. One action stands for each function that
changes a rectangle or a list, the GUI's included: splits either way, the command
line window, closing with its choice of an heir, `:bg`, `:fg`, `:Fg`, `:resize`,
dragged dividers, and the terminal's new size with both of its layouts. In which half
of its screen the cursor is, which decides where `:E` puts the new screen, is left
open (`up`), and so is the background screen `:fg` finds by its name. Closing the
last displayed screen ends the editor and is no action. A screen's identity is
free again after it has been closed.

`PagedStore` is `engine/buffer/paged.go`: a tree of spans over the lines of the file
and the lines added (`SpanTree`), each node counting the lines of its subtree, with a
random priority that is any of `Prio`. `OriginalFile` reads the lines of the file: the
checkpoints of every `Stride`-th line, the cursor behind the last line read, the block
read last, and `LineCache`, a least-recently-used list threaded through a map.
A file is a sequence of characters of one byte. `:w >>` of the buffer's own name
makes it longer while it is read, a line a step. `LineBuffer` is the plain sequence that
`PagedStore` refines, step by step, with the answers of Get. The recursions of the code
(split, merge, locate) and its loops (skipping lines, reading one, evicting) are recursive
functions: of the trees below the one at hand and a position, or of the number of rounds, of which
there are at most as many as bytes in the file or entries in the cache.

`Motions` is the motions of vi as functions of the text and the cursor, from their
helpers up (`stepFwd`, `classAt`, the sentence cursor `vcs`), all but the searches and
H, M, L. `CursorMotions` leads a cursor through a text and states, without walking, where
words and sentences start and end.

`ViEdits`, `ViInsert` and `ViKeys` are one editor, a record, in three layers: what the
operators, puts, joins and shifts do to text, log, marks and registers; the keys of insert
and replace mode, with repetition by a count, abbreviations, wraplen and
autoindent; and the dispatch that gathers counts, registers, operators and motions into
commands, records their keys and presses them again for `.`. An operator of the model
takes the editor before a function of the code to the editor after it, every helper
included; one step of `ViKeys` is one key. The log is that of `UndoLog`, whose operators it
uses for reverting and replaying. A `.` reached while `.` presses keys sets `endless` and
goes no further, where the code would call itself again; one whose `^^D` would slice a
line beyond its end sets `crashed`. `astray` is as in `UndoHistory`. `carried` says that the
command being typed is recorded behind a count or a register that another has left.

`Display` is how lines wrap over the rows of a screen: reckoned by division
(`WrapRowCount` and its kin), painted by loops over cells, and looked up by the
mouse. `Viewport` is which part of the text a screen shows and where the cursor is,
with every command that scrolls or places the cursor by rows, a change of size, the
`window` option and the small map of `z`, and a host that scrolls and clicks.

Definitions preceded by "Faulty" are plausible mistakes in the definition that
follows them. They are in no next-state relation: replacing the definition by
them must violate the property named with them under `mutants` in
`PROJECT.json`.

## 3. What the runs show

| Run | Configuration | Result |
|---|---|---|
| `undo` | 2 lines, buffers up to 3 lines, up to 4 edits/undos/redos (2 behind one that is astray), nesting 2, numbers up to 1 line behind the buffer (461,641 states) | `HistoryInv`, `UndoRestores`, `RedoRestores`, `GenTellsChange`, `ImplementsHistory` hold |
| `global` | 3 lines, 2 of which match, buffers up to 5 lines, 2 lines created, 1 mark, 1 change set kept (2 of one record each), numbers up to 1 line behind the buffer, every command and every body, the mark as destination (332,039 states) | `MatchTracked`, `NoneMissed`, `OneUndo`, `MarksFollow` hold |
| `recovery` | 2 files, 2 texts, 2 snapshot files; 2 screens, 1 failing write, a crash; or 2 directories and a relative name, 2 seconds, 2 crashes (504,319 states up to symmetry) | `TypeOK`, `SnapshotCurrent`, `PreservedSurvives`, `OthersUntouched`, `FatalSavesText`, `RecoverGivesBack` hold |
| `interrupt` | every kind of event, 4 events a session, 1 ex line (751,497 states) | `TypeOK`, `InOrder`, `NoneLeft`, `InterruptStops` hold |
| `files` | 1 session, 2 files, 2 texts, an argument list of both, each file there or missing (144,310 states) | `FTypeOK`, `CleanIsSaved`, `LeftWhole` hold |
| `files_lock` | 2 sessions, 1 of the 2 files in the argument list, no autowrite | `LockProtects` fails: finding 1 |
| `screens` | 4 screens, a terminal of 8 columns and 6 rows or of 3 and 4, steps of -1, 1, 2 (41,940 states up to symmetry) | `STypeOK`, `PlacedOnce`, `TilingKept`, `NoneLost` hold |
| `paged` | files of up to 3 lines and one that grows, a stride of 2, blocks of 3 bytes, a cache of 3 characters, priorities 1 and 2, line numbers 0 to 4, 3 lines added or cached (93,602 states) | `TreeSound`, `CursorSound`, `CacheSound`, `ImplementsStore` hold |
| `motions` | every text of up to 3 lines with 5 characters of `a . blank`, 4 of brackets, or 4 of `a . ) blank`, counts 1 and 2, every place of the cursor (75,693 states) | `WordsAgree`, `MatchReturns`, `SentencesAgree` hold |
| `vi` | an empty buffer and one of 2 lines, three keyboards, up to 6 keys and 3 change sets (206,732 states) | `TypeOK`, `DotIsOneChange`, `DeletedIsKept`, `ImplementsHistory` hold |
| `vi_dot` | the same, the keys `x`, `2` and `.` | `DotEnds` fails: finding 2 |
| `viewport` | 4 lines, 2 of which wrap over 2 or 3 rows, a tab and a wide character, 3 rows of 5 columns and 4 of 4, line numbers of 2 columns (14,964 states) | `CursorShown`, `MouseAgrees`, `PagesMeet` hold |

Bounds. Four recorded steps are enough for a change set of two records, undone,
redone and followed by a new change that drops the redo stack, and for a nested
change set with edits at both depths; a third line makes insertions before,
between and behind. Two steps behind an edit that is astray are enough for the type and the
generation, the only things still claimed there. `:global` runs over two matches with a line between them
and up to two lines created: a first body can then move, copy, join, split or
delete in front of, on and behind the second match; one change set on the stacks
is what `u` and the `u` after it need, and `.` goes on to a second one. `VIEW ButGen` leaves the edit generation out,
which no action of `Global` reads. In `recovery`, two screens and two files are the least
that lets one screen's snapshot meet another's; two snapshot files and a crash let a session find
what another left; and what `:recover` finds depends on who wrote what before and when, so two
sessions die, in different seconds or the same. All of it at once is too much, so
`CONSTRAINT Bounds` goes on from a state only if it is one of `ScreensMeet` (two screens and failing
writes, up to the end of the session) or of `SessionsMeet` (one screen, whole commands, a
disk at its best, directories, seconds, crashes and later sessions). The steps out of these
states are checked like all others. `VIEW StillRead` leaves out the buffers that no later step reads.
Four events give a running command, two typed
ahead and a ^C behind them; the one ex line lets a session return to the visual
loop with what the screen still holds. `files` needs no bound beyond its
constants: two texts are the buffer's and the file's, two files the buffer's and
another. One session is enough there, as sessions meet in `disk` and `lock` only
and the theorems below hold for any number; the disagreement over the lock
takes two.

Four screens are what it takes for two rows of two, where a dragged divider
must take the whole connected border along. The limits are scaled down with the terminal: `MinCols` is 3
for the code's 20, `CclRows` 2 for its 6. The larger size can be split
both ways, and once more downwards after a `:resize` or above a command line window; a change
to the smaller one forces screens to be stacked, and one back lets narrow screens be
dragged and split. `CONSTRAINT Tiled` ends a behaviour at a layout that is already
broken, as what follows from it tells nothing more.

`TilingKept` excepts three kinds of step, each of which breaks the tiling in
the code (without the exception the run fails): `Stranded`, a closed screen that
nobody shares a whole border with (see below); `Overflows`, a terminal too small for
two rows for each stacked screen, which `relayoutStack` lays out all the same,
below the last row; `Cramped`, a divider dragged towards a screen below
`minScreenCols`, which the clamp moves in the other direction until that screen has its minimum.

`paged`: three lines with an empty one, one that is longer than a block and than the
cache, and a last one without a newline reach every branch of the reader; the bound
counts added lines and cached lines together, so that there are many edits or
many reads. `Unterminated = FALSE` keeps files whose last line has no newline from growing
(see below); line numbers 0 and 4 are outside of the smaller buffers.

`motions` starts at every text there is, so its bound is only their size: a word, a
sentence end with a closer and two blanks, and a bracket inside brackets fit.

`vi` limits the keys of a session (`MaxKeys` for the keyboard of editing commands,
`MaxOther` for those of typing and of deleting over motions) and offers, in each situation
(a command, behind an operator, in an insertion...), the keys of that keyboard only: with
all keys at each place four of them fill the time, so the keyboards are a choice of what meets
what. In the empty buffer it is puts, insertions, `x`, `d`, `u` and `.`; behind a count `u`, ESC and the
operators; behind a register, a small or a capital letter, commands that take one and those that do not.
Six keys make a command with a count and an
operator, an undo, a `.` and what follows; `DotIsOneChange` presses two keys more from each
state in which no command is under way. The cases in which the code does not keep
the promise are offered and excepted by name: `dotCarried` (`DotRepeatsOne` below), `astray` (`UndoReverses`), and in
`DeletedIsKept` a buffer without lines, whose phantom line `dd` and `x` delete from.
`wraplen` is 6, `shiftwidth` 2, and one abbreviation is defined, so that text is broken,
indented and expanded within few keys; the ring of numbered registers has 2 places for 9.

`viewport` has no bound on steps. The texts have lines that end before, at and behind the
edge of a row; `Short` in `CursorShown` excepts lines longer than half of the screen,
which the code does not always show (see below).

Symmetry is used in `recovery` (screens and texts) and `screens` (screens) only: these are compared
for equality and nothing else, and the runs check no liveness.

`files` checks for deadlock, as every running session can at least die.
Deadlock is disabled for `Interrupt`, whose user may stop typing and whose bounds
end a session, and for `vi`, where an `endless` editor takes no more keys.

Fairness is assumed in `Interrupt` only. `WF` of the forwarder, of the main loop's
take, of a quick command, of the reset and of an abort that is possible: Go
schedules runnable goroutines, a search polls again and again, and a ready
`select` proceeds. There is none for the user, for the end of a search or of a
child: `InterruptStops` holds even if the command would run for ever.

### Findings

1. *The lock can change hands in a save* (`files_lock`). Between the rename and the
   renewal of the lock another session can open the new file and lock it. The
   first session does not notice (`relockAfterWrite` drops the answer), stays
   writable, and overwrites the file with its next `:w`.
2. *`.` may repeat itself without end* (`vi_dot`). `2.` with nothing to repeat rings the
   bell but leaves the count: the command is not over, and the `x` behind it is recorded
   as `2.x`. The next `.` presses that dot, which presses it again.
   `"aJ` before `"a.x`, and `2u.x`, lead there too.

Comments of the code that it does not keep, each stated as a property of the model. No run lists
these; put in place of the properties of the configuration named, TLC refutes each of them in
seconds. The properties of the runs except the case and nothing else.

| Property (configuration) | The comment | What happens |
|---|---|---|
| `NewestIsFound` (`MCRecovery.cfg`) | "findRecovery returns the newest recovery file" (`recovery.go:209`) | Times are whole seconds, and of two snapshots of one second the first name in the directory wins (`recovery.go:225`). A `:preserve`, a save, another change and a fatal signal within a second leave such a pair. |
| `RecoverFindsNamed` (`MCRecovery.cfg`) | "resolvePath maps a user-supplied path through this editor's cwd" (`cwd.go:44`) | `findRecovery` completes a name with `filepath.Abs`, by the directory of the process (`recovery.go:216`); everything else goes by the editor's own, which `:cd` changes. |
| `PreservedUnchanged` (`MCRecovery.cfg`) | "any further changes then start a fresh recovery file" (`recovery.go:122`) | The next change of the session overwrites what it preserved (`recovery.go:86`). |
| `ChangesNoted` (`MCRecovery.cfg`) | "called after each change to keep the recovery file current" (`recovery.go:48`) | After `u` the snapshot holds the undone text; after a save and `u` there is none. |
| `OtherScreensKept` (`MCRecovery.cfg`) | "While a buffer has unsaved changes, the engine keeps a recovery file" (`recovery.go:16`) | There is one `recoverPath` for all screens: only the one changed last can be recovered, and a save in it leaves none. |
| `ExLineFresh` (`MCInterrupt.cfg`) | "a stale ^C cannot abort the next command" (`interrupt.go:32`) | The event posted to wake the reader when the visual loop ends (`screen.go:162`), or a ^C behind Q, is noted after the last `Input` and reset by nobody in ex mode: the first ex command that polls reports "Interrupted". |
| `CleanReachedFile` (`MCFiles.cfg`) | "saves the buffer to path, atomically" (`engine.go:754`) | The errors of `Write` are dropped (`engine.go:775`): on a full disk a short temporary file replaces the original and the buffer counts as saved. |
| `DotRepeatsOne` (`MCVi.cfg`) | "replays the last buffer-changing command" (`vi.go:1001`) | `"aix`, ESC, `x`: the insertion leaves the register to the `x`, both are in the record, and one `.` makes two changes. `3ux` does it too. |
| `UndoReverses` (`MCVi.cfg`) | "one Undo reverses the most recent change set" (`undo.go:4`) | A put into an empty buffer is logged at line 2 and stored at line 1 (`viedit.go:346`). `:r` and ex `a` there, and `:1t99`, do the same. |
| `IndentIsThere` (`MCVi.cfg`) | "the count of leading autoindent whitespace runes on the current line" (`vi.go:65`) | `o`, two backspaces and `^` with autoindent leave `aiCount` at 2 in a line of one character, of which ^D slices two (`viinsert.go:498`). |

Seen while modelling, in what the code does and the models keep, each
excepted from the property it would touch:

*Undo.* The log records the line number it is given, the store inserts at the nearest
legal one; what undo does with such a record is `astray`, in `LineEdits` and the vi editor too. `u` takes
`dd` in an empty buffer back to an empty line, and `x` there makes one.

*Interrupt, :global, screens.* What was typed after Q is dropped with the forwarder's queue.
`:global` in an empty buffer matches the phantom line 1 (`Phantom`). A line moved by `:m` is deleted
and inserted anew: a match or a mark on it is lost. An address or destination `.` written in the body of
`:global` means the line the body before it left the cursor on, not the match. After
`:E` and a `:vsplit` of the lower screen, `:q` in the upper one finds no heir, and the upper half
of the display belongs to no screen.

*Files and recovery.* `:1wq`, `:1x` and `:1wn` leave the buffer
after writing a part of it (`LeftWhole` excepts them); the automatic write before
`!` and ^Z goes to a read-only file, the one before a move does not; `:1w` of the
buffer's own file renames and does not renew the lock; a file created by the
first write is never locked; a fatal signal saves what was noted of the active
screen, neither the insertion in progress nor the other screens; undo and redo
insert and delete lines in the store and leave the marks where they were
(`MarksFollow` excepts them); after `:f b` and a change `:w` asks for `!` if `b`
exists, `:n` with autowrite set writes over it; the list of screens is not sorted
anew after a resize or a drag, though the GUI numbers its panes by it; several
command line windows share one `cclParent`, so the command of the second to be
closed runs in whichever screen took its space; `:q` in the last displayed screen
ends the editor and forgets the background screens.

*The paged store.* A file whose last line has no newline, appended to by `:w >>` of its
own name, changes that line in the buffer (`Unterminated = TRUE`: `ImplementsStore` fails),
though the reader calls the original immutable (`engine/buffer/original.go`).

*vi commands.* ESC, an arrow or a backspace where `f`, `r`, `m` or `"` wait for a character leaves
the operator and the count pending (`vi.go:668`), as do `drx` and `dma`; a count is left by a put
of an empty register and by `u` with nothing to undo; a register named before a command
that takes none (`"aj`, `"aix`) is left for the next, and `.` then repeats both. `5.` after `"a3dd`
deletes 53 lines, as only a count at the very start is replaced. `c/pat` and its text are not
recorded: `.` takes the text for commands. An insertion of nothing but erasures changes the
text and is not repeated; erased text is still what `.` types and a count repeats. In R, ^W, ^U,
arrows and abbreviations leave the overtyped text behind. With autoindent a `^D` behind
an erased indent erases the character typed. `""dd` does not move the numbered registers. A
register that executes itself (`@`) does so without end. The comment on `register.Get` says
that an unknown name is the unnamed register; the code returns nothing.

*Motions.* `(` from the second blank between sentences goes forward; `(` in the first word of a line
misses the sentence start at its beginning; `)` from a blank goes to the next word only; `(`
takes one blank for the end of a sentence where `)` wants two. All of it as in
historic nvi, and excepted in `SentencesAgree`.

*The screen.* H, M and L onto a line shown in part scroll, though they "never scroll"
(`vimotion.go:184`); in a small map only the first row of the cursor's line is sure to be shown;
a line longer than half of the screen, placed in the middle, may hide the cursor; with
line numbers, clicks and selections in the gutter's columns of a continued row are refused,
where there is text; the cursor behind a line that fills its rows is drawn on the row of
the next line; a click does not change the column `j` and `k` keep.

## 4. What is proved

About the undo log, for every set of lines, every start buffer and histories of
any length:

- `TypeCorrect`: `Spec => []TypeOK`; `HistoryKept`: `HSpec => []HistoryInv`; `UndoRestored`:
  `HSpec => UndoRestores`; `RedoRestored`: `HSpec => RedoRestores`; `LogImplementsHistory`:
  `HSpec => ImplementsHistory`.

They have no hypothesis about the callers. The last four promise nothing from the step on
in which a caller inserts or deletes at a line that is not there, or undoes inside an open
change set (`astray`): `UndoReverses` and the hazard at `engine/exsearch.go:590` show that
callers do both, and that nothing could be promised then.

The argument. A change set can only be taken back if each record can be taken
back *where it was made*: `Chain(a, recs, b)` says that replaying `recs` leads from
`a` to `b` and that each record reverts the step it made. `HistoryInv` says
that every change set on either stack, and the open one, is a chain between
neighbouring buffers of the history. `UndoRestores` alone is not inductive: it says
nothing of the change sets below the top of the stack, nor of the redo
stack that an undo builds up. The steps are: one edit is reversible
(`EditReversible`, from the lemmas on the line store at its head: deleting what was
inserted, inserting what was deleted, setting back what was set); a chain may be
extended by one record (`ChainExtend`); a chain reverts and replays as a whole
(`ChainReverts`, `ChainReplays`, by induction over the records); each action
then moves chains between the stacks (`HistoryInvStep`).

Undo and Redo are loops. They are written as recursive functions
(`RevertRun`, `ReplayRun`), and `Lists` proves, without an induction
theorem that takes an operator, that a function defined step by step over an
interval exists and that a set closed under steps contains the interval.

About the files, for every number of sessions, every set of files and texts, every
argument list and all the options of the model, short writes included, from `FilesAssumption` only:

- `FilesTyped`: `FSpec => []FTypeOK`.
- `CleanSaved`: `FSpec => []CleanIsSaved`.
- `NothingLost`: `FSpec => LeftWhole`.

Both except a session whose last whole write came out short unnoticed (`short`; `CleanReachedFile` above), until
it reads or writes a file again. `CleanIsSaved` is not inductive, and `LeftWhole` does not
follow from it: a command
checks the modified flag when it is entered and leaves the buffer some steps later,
after a write that may be partial or go to another file. `Secured` says what the
command has established at each step between: a command about to settle has
written the whole buffer, one about to leave without `!` has either found it clean
or done so. A step of one session leaves all of this alone in the others
(`OneSession`), though it may take their locks and change their files, so each
action is proved for the acting session only.

About the ex commands and `:global`, for buffers of every length, every set of texts,
marks and matching texts, every body of the modelled commands, and any number of lines
created:

- `MatchesTracked`: `GSpec => []MatchTracked`; `NoMatchMissed`: `GSpec => NoneMissed`;
  `OneUndoEnough`: `GSpec => OneUndo`; `MarksStay`: `GSpec => MarksFollow`.

They have one hypothesis. `Identified` says what a line is (an identity and a text; the
identities are there for the properties and no command reads them). Addresses may lie outside the buffer and
marks that undo has left there may be destinations. An insertion there is recorded under a
number the store does not use. The matches and the marks still follow, as the store decides
where the line goes; only an undo of such a record takes lines away behind them. So `OneUndo`
is claimed until the first such edit (`Astray`), the others until the first undo or redo after
it (`Torn`). A line moved is, as in the code, one deleted and one inserted. A `:global` begun in an empty buffer (`Phantom`) visits a line that is not there.

The argument goes along the layers of the code. `Points(lines, id, no)` says that the number
`no` means the line `id`: it is where that line is, or the line is gone. Each of the three
primitives takes numbers that mean a line to numbers that mean it (`InsertPoints`,
`DeletePoints`, `SetPoints`), as far as no two lines are the same one, which the
primitives keep too. `Leads(d, e)` puts this together with the records: from state `d` of a
command to `e` every number of a mark and of the match list has gone along with its
line, no line has come back, and the records added extend any `Chain` that led to `d`. It
composes (`LeadsOn`), so it holds of the loops (delete a range, append a list, join,
substitute) by the same iteration as for the undo log, and of each command (`Finished`).
The four properties are not inductive. `GlobalInv` adds that the matches passed have been
visited or are gone; and, as long as no edit is astray, that the change set in progress leads
from the buffer `:global` began at; that *all* change sets on the stacks lead through buffers of distinct lines
(without that nothing is known of the buffer an undo brings back); and that the last command
lies on top of the stack the direction of `u` points to.

About crash recovery, for any number of files, screens, texts and snapshots, sessions and
crashes, from the assumptions of `Recovery` only:

- `RecoveryTypes`: `Spec => []TypeOK`; `SnapshotIsCurrent`: `Spec => []SnapshotCurrent`;
  `PreservedStays`: `Spec => []PreservedSurvives`; `OthersStay`: `Spec => OthersUntouched`;
  `FatalSaves`: `Spec => FatalSavesText`; `RecoverReturns`: `Spec => RecoverGivesBack`.

`PreservedSurvives` is about what the preserving session last wrote (it may overwrite what it
preserved: `PreservedUnchanged`), `OthersUntouched` about sessions, not screens (`OtherScreensKept`), and
`RecoverGivesBack` excepts two snapshots of one second (`Untied`) and names that stand for
different files in the directories of the editor and the process (`NewestIsFound`, `RecoverFindsNamed`).
It looks at one step, but a recovery takes the *newest* snapshot of a
name, so what it gives back depends on everything written since the crash. `OwedOnDisk` says that
what a dead session left is no older than any snapshot of that file and is not held by the
running session; `OwnIsNewest`, that nothing newer than the session's own snapshot exists for its
file; `KeptIfPreserved`, that a preserved snapshot is the session's own only while
`recoverKeep` is set, without which `removeRecovery` could delete it.

About the interrupt, for every set of keys and any number of events and ex lines:

- `InterruptTyped`: `Spec => []TypeOK`; `EventsInOrder`: `Spec => []InOrder`;
  `NothingLeft`: `Spec => []NoneLeft`.

`InOrder` is kept by each step of either goroutine because the event in the forwarder's hands counts
between the queue and the screen. `NoneLeft` needs `HalfReset`: between the two resets of
`clearInterrupt` a flag that is set again belongs to a ^C that Input has still to take. `EndedEmpty` says
that a forwarder that has ended holds nothing, `FirstEx` that nothing runs beside the first
ex line.

About the split screens, for any number of screens, any sizes of the terminal, any minimum of
columns and every shape of the display, tiled or not:

- `ScreensTyped`: `SSpec => []STypeOK`; `OnePlaceEach`: `SSpec => []PlacedOnce`; `NoScreenLost`:
  `SSpec => NoneLost`; `DisplayStaysTiled`: `SSpec => TilingKept`.

`PlacedOnce` counts, which no step can be shown to keep from the count alone; `ListsApart` says
that neither list has a screen twice and that none is in both. That the sort of the display list
keeps its screens, and that a list one longer or one shorter has the ones it should, are lemmas about the list
operators (`Lists`), as is that the layouts are made of integers: the divisors of the scaled and of
the stacked layout are never zero.

`TilingKept` is stated with gaps and overlaps between rectangles; the proof restates it cell by
cell: every cell of the display lies in exactly one screen (`Tiles`), which `TiledIsTiles` shows to
be the same. A step then replaces some screens by others that cover the same cells (`Retile`):
the parts of a split, the heirs of a closed screen, both sides of a border. A border may move
because the segment `Segment` collects is closed, so both its sides have the same places along
it (`SegmentAlong`). A change of the terminal's size maps the places of borders monotonically and
the ends to the ends, whatever is rounded and clamped; a new cell belongs to the
screen that held the largest old place not mapped behind it (`PlaceBack`, `MapTiles`). In the stacked
layout each screen begins where the one before it ends and the last one ends at the last row
(`StackTiles`).

About the undo log, in addition, `GenerationTells` (`HSpec => GenTellsChange`): no step
changes the buffer under an unchanged generation, for any caller.

About the paged store, for files and edited lines of any length, any stride, block and
budget, any priorities drawn and any edits, from `OriginalAssumption` and `PagedAssumption`:

- `TreeStaysSound`: `Spec => []TreeSound`; `CursorStaysSound`: `Spec => []CursorSound`;
  `CacheStaysSound`: `Spec => []CacheSound`; `PagedImplementsStore`: `Spec => ImplementsStore`.

They have one hypothesis, `Unterminated = FALSE`: a file whose last line has no newline does not
grow. It cannot be dropped ("The paged store" above: the appended text becomes part of that line).
A file that ends with a newline may grow at any time.

`PagedInv` has three parts. `TreeInv`: every span and every count is right, and the references the tree
stands for, `Order(root)`, name each line of the file and each line added once. `FileInv`: the
file is what was opened with something behind it (`Grown`), and the reader is sound (`ReaderIs`):
checkpoints and cursor are where their lines start, the block is a piece of the file, the
cache is a list. The third part says that `lines` is the buffer the tree stands for.
None of the four properties is inductive: `CacheSound`, for instance, says that some list
fits the links, but what put does depends on the file having read the right
line, and that on the cursor. The proof goes up the layers:

- *The tree.* Every subtree has fewer lines than the whole (`TreeBelow`), so the recursive functions
  exist, by induction on the number of lines. `SplitResult`, `MergeResult` and `LocateResult` say
  what they return in terms of `Order` alone: a prefix and the rest, one list behind the other, the
  element at a place, in whatever shape the priorities left the tree.
- *The file.* `LineEnds` is the increasing list of the places behind newlines. `SkipResult` and
  `ContentResult` follow the loops block by block, with a block that may have been read before the
  file grew or end inside a line; `ReadLineResult` says that any of the shortcuts leads to the
  line, and that the reader is sound behind it.
- *The cache.* `KeptBy(c, s)` says that the list `s` is what the links spell, the tail included. `unlink` takes an
  element out of `s`, `pushFront` puts one in front; evict ends within the budget because each round
  drops one entry of at most as many as there are (`EvictResult`).
- *The store.* What Set, Insert and Delete put together are the operations on lists of `Lists`
  (`RemoveAt`, `InsertAt`, `ReplaceAt`) on the references, and a reference never
  changes its line, as lines are only added and the file only grows.

Only model-checked: the motions, the vi editor and the viewport, and that the vi editor implements
the abstract history: they are built on RECURSIVE operators (searches through the text, keys that
press keys), which no proof may reach. `InterruptStops` is liveness, which is out of the prover's
reach. That the counts agree at all with the code's 64-bit numbers is not stated: the model's are
unbounded.

## 5. Not modelled

Read errors of the file behind the paged store (`original.go:65` ignores them).
Character sets, combining characters and `:set list` on the screen, the status line, the cache
of display lines; parsing of ex commands and options; the regular expression engine and
the motions that search; key maps other than abbreviations; executing registers (`@`), `#`, `!`
and `&` in vi; hexadecimal input; tags, cscope, completion, startup files; the processes
behind `!` except for how their end and the ^C meet; selections and the bridge of the GUI, which
calls the same engine serially.

## 6. Plan

In this order, each with its own run:

1. `LineEdits`, `Global`: done, except for the direction of `u` and `.` over several
   screens.
2. `Files`: done, except for the backup and the background screens.
3. `Screens`: done, except for what is shown in the screens.
4. `PagedStore` with its cache: done.
5. The vi editor, its motions and registers: done, except for the keys named above.
6. `Display`, `Viewport`: done for one screen without selections.
7. `KeyMaps`: prefixes held back, expansion and the timeout.

What is left to prove: the tree of the paged store without the hypothesis on the file, which it
does not need.
