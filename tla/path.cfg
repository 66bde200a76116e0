SPECIFICATION PSpec
CONSTANTS
  NoItem = none
  Messages <- MCMessages
  Calls <- MCCalls
  SMS_TEXT_MAX = 42
  SMS_SENDER_MAX = 24
  SMS_PART_TEXT_MAX = 7
  SMS_CONCAT_MAX_PARTS = 3
  RESP_SIZE = 400
  BODY_SIZE = 160
INVARIANTS PTypeOK HeardAsSent CutIsRefused CompleteReadsAsWritten PushCarriesItem PushIsUtf8
CHECK_DEADLOCK FALSE
