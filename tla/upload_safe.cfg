SPECIFICATION USpec
CONSTANTS
  p0 = p0
  p1 = p1
  p2 = p2
  p3 = p3
  none = none
  SMS_QUEUE_MAX = 2
  SEQ_MOD = 5
  Payload <- MCPayload
  NoPayload <- none
  BootFiles <- MCOldPending
  Arrivals <- MCArrivals
  TooLong <- MCOneTooLong
  UPLOAD_RETRY_MIN_MS = 2
  UPLOAD_RETRY_MAX_MS = 3
  NET_POLL_MIN_MS = 2
  NET_POLL_MAX_MS = 3
  MaxCrashes = 1
INVARIANTS UTypeOK NoLostWakeup PopsWhatWasPosted NothingLost FirstArrivalsInOrder MsgIdsApart WorkLockBalanced
PROPERTIES ReportsToService
