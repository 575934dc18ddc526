SPECIFICATION Spec
CONSTANTS
  WordRunes = {"a"}
  WideRunes = {}
  List = FALSE
  TabStop = 3
  Texts <- SmallTexts
  Keys = {"l", "+"}
  Counts = {1, 2}
  WordChars = 5
  MatchChars = 4
  SentenceChars = 4
INVARIANT WordsAgree MatchReturns SentencesAgree
