SPECIFICATION RSpec
CONSTANTS
  none = none
  torn = torn
  alice = alice
  bob = bob
  SMS_CONCAT_MAX_GROUPS = 2
  SMS_CONCAT_MAX_PARTS = 3
  SMS_CONCAT_TIMEOUT_MS = 13
  TICK_MOD = 16
  Parts <- MCParts
  NoPart = none
  NoNumber = none
  TornNumber = torn
  CALL_CLIP_WINDOW_MS = 3
  CALL_DEDUP_MS = 8
  Urcs <- SmsUrcs
  BootTick = 14
  MaxClock = 4
  MaxLag = 0
INVARIANTS GroupsCoherent CompleteIsWhole NoPartVanishes
CHECK_DEADLOCK FALSE
