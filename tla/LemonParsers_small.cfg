SPECIFICATION Spec
CONSTANTS
  Grammars <- MCGrammars
  StackDepth = 6
  MaxTokens = 7
INVARIANTS
  FollowSetsExact
  TablesKeepActions
  AcceptsSentences
  OperatorsBind
PROPERTIES
  TakesWhatFits
  ParseReturns
