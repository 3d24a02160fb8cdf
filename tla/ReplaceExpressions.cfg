CONSTANTS
  KeyOrder <- MCKeyOrder
  Atoms = {}
  MaxDepth = 0
  MaxLen = 0
  Chars = {"$", "{", "}", "a", "x"}
  MaxText = 7
  GetAsData <- MCGetAsData
  Throw = Throw
SPECIFICATION Spec
INVARIANT ReplacesEachExpressionOnce
CHECK_DEADLOCK FALSE
