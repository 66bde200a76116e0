SPECIFICATION ASpec
CONSTANTS
  Codes = {0, 1}
  Cmds = 5
  Fallbacks = {2}
INVARIANTS ATypeOK OwnAnswerUnlessRaced ChannelClosed
PROPERTY SetUpTerminates
CHECK_DEADLOCK FALSE
