SPECIFICATION RSpec
CONSTANTS
  none = none
  torn = torn
  alice = alice
  bob = bob
  SMS_CONCAT_MAX_GROUPS = 2
  SMS_CONCAT_MAX_PARTS = 3
  SMS_CONCAT_TIMEOUT_MS = 13
  TICK_MOD = 16
  Parts <- CallParts
  NoPart = none
  NoNumber = none
  TornNumber = torn
  CALL_CLIP_WINDOW_MS = 8
  CALL_DEDUP_MS = 13
  Urcs <- CallUrcs
  BootTick = 14
  MaxClock = 7
  MaxLag = 1
INVARIANTS RTypeOK FlagWakesTask ExpiryArmed GroupsLeaveInTime WindowEndsInTime CallsApart
CHECK_DEADLOCK FALSE
