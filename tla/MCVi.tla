-------------------------------- MODULE MCVi --------------------------------
(***************************************************************************)
(* Bounded instances of the vi keys: sessions that edit and undo, that type  *)
(* text, and that delete over motions; and one in which . does not end.     *)
(***************************************************************************)
EXTENDS ViKeys

CONSTANTS
  MaxKeys,     \* how many keys are pressed when editing,
  MaxOther,    \* and in the other sessions
  MaxChanges   \* how many change sets there are

Editing ==
  [command |-> {"d", "c", "y", ">", "x", "p", "P", "o", "R", "J", "r", "u", "U", ".", "2", "\"",
                "j", "A", "w"},
   empty |-> {"p", "P", "o", "i", "x", "d", "u", "."},
   count |-> {"d", "p", "J", "j", "o", "r", "u", "ESC"},
   operator |-> {"d", "c", "y", ">", "e", "w", "k", "$"},
   char |-> {"b", "CR"}, name |-> {"1", "a", "A"}, register |-> {"p", "d", "x", "o"},
   insert |-> {"a", "CR", "BS", "^D", "^W", "ESC"},
   replace |-> {"a", "CR", "BS", "ESC"}]

Typing ==
  [Editing EXCEPT
     !.command = {"i", "I", "O", "S", "C", "s", ".", "2"},
     !.empty = {"a", "O"}, !.count = {"i", "O"},
     !.insert = {"b", " ", "^", "0", "^T", "^D", "^U", "^V", "^@", "LEFT", "UP", "CR", "ESC"}]

Deleting ==
  [Editing EXCEPT
     !.command = {"d", "y", "X", "D", "Y", "~", "m", "p", "j", "l", "f", ";", ".", "u", "2"},
     !.empty = {"O"}, !.count = {"d", "X", "~"},
     !.operator = {"d", "f", "b", "E", "(", ")", "{", "}", "%", "0", "j", "QUOTE"},
     !.char = {"a", "b"}]

EditSessions == {Editing, Typing, Deleting}

\* A dot in its own record.
EndlessDot == {[Editing EXCEPT !.command = {"x", "2", "."}, !.count = {".", "x"}]}

SmallTexts == {<<>>, <<<<"a", " ", "b">>, <<"\t", "a">>>>}
OneLine == [kind |-> "lines", lines |-> <<<<"b">>>>]
SomeWords == (<<"b">> :> <<"a", "a">>)
Bounds ==
  /\ pressed < (IF keys = Editing THEN MaxKeys ELSE MaxOther)
  /\ Len(vi.undo) + Len(vi.redo) <= MaxChanges
=============================================================================
