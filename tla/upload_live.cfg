SPECIFICATION LiveSpec
CONSTANTS
  p0 = p0
  p1 = p1
  p2 = p2
  p3 = p3
  none = none
  SMS_QUEUE_MAX = 2
  SEQ_MOD = 8
  Payload <- MCPayload
  NoPayload <- none
  BootFiles <- MCNothingStored
  Arrivals <- MCTwoArrivals
  TooLong <- MCNoneTooLong
  UPLOAD_RETRY_MIN_MS = 1
  UPLOAD_RETRY_MAX_MS = 1
  NET_POLL_MIN_MS = 1
  NET_POLL_MAX_MS = 1
  MaxCrashes = 1
PROPERTY EventuallyReported
