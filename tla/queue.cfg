SPECIFICATION Spec
CONSTANTS
  p1 = p1
  none = none
  SMS_QUEUE_MAX = 2
  SEQ_MOD = 5
  Payload <- MCPayload
  NoPayload <- none
  BootFiles <- MCBootFiles
INVARIANTS TypeOK SeqsConsecutive SaveHoldsWorkLock RestartResumes
PROPERTY ImplementsDurableQueue
