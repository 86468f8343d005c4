SPECIFICATION Spec
CONSTANTS
  Sources <- ReachingSources
  Base <- MCBase
  Params <- MCParams
  Limits <- MCLimits
  Keys <- MCKeys
  Spelled <- MCSpelled
  Draw <- MCDraw
  ReadScript <- ParseScript
  EvalExpr <- MCEvalExpr
  MockCap = 8
  MockDefault = 4
  ByteCap = 20
  ByteDefault = 12
INVARIANTS
  LoopItemIsARoot
CHECK_DEADLOCK FALSE
