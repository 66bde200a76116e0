SPECIFICATION ASpec
CONSTANTS
  Codes = {0, 1}
  Cmds = 5
  Fallbacks = {2}
INVARIANT OwnAnswer
CHECK_DEADLOCK FALSE
