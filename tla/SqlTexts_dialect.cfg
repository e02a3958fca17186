SPECIFICATION Spec
CONSTANTS
  Grammars <- SqlGrammars
  StackDepth = 100
  Detail = TRUE
  Schemas <- MCSchemas
  MaxDigits = 3
  Commands <- MCCommands
  Wild <- MCWild
INVARIANTS
  ReadsBack
