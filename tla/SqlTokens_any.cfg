SPECIFICATION Spec
CONSTANTS
  Grammars <- SqlGrammars
  StackDepth = 100
  Detail = FALSE
  Schemas <- MCSchemas
  TokenTypes <- MCTokenTypes
  StackBound = 16
INVARIANTS
  StackBounded
  FailureLeavesNothing
  CodeFitsStatement
  ConditionComplete
