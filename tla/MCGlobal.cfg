SPECIFICATION GSpec
CONSTANTS
  Line <- Lines
  Empty <- NoText
  Start <- StartLines
  Over = 1
  Text = {"hit", "plain"}
  Matching = {"hit"}
  Mark = {a}
  Dests = {"0", "$", ".", a}
  Bodies <- EveryBody
  MaxLines = 5
  MaxFresh = 6
  MaxChanges = 2
CONSTRAINT Bounds
VIEW ButGen
INVARIANT MatchTracked
PROPERTIES NoneMissed OneUndo MarksFollow
