------------------------------ MODULE SmsQueue ------------------------------
(***************************************************************************)
(* applaction/sms_queue.c: the ring of pending items shared by the         *)
(* receiving and the uploading thread, and its copy in the file smsq.dat.  *)
(*                                                                         *)
(* Only sms_recv_task pushes and only upload_task pops, so a thread's      *)
(* position inside the queue's functions is told by three variables:       *)
(* s_lock (whose call holds the mutex), save (how far its queue_save has   *)
(* got) and signal (a push that released the mutex and has not yet set     *)
(* the event).  Power may fail between any two of these steps.             *)
(***************************************************************************)
EXTENDS Integers, Sequences

CONSTANTS
  SMS_QUEUE_MAX,  \* slots of the ring
  SEQ_MOD,        \* 2^32 in the code: the width of the sequence counter
  Payload,        \* sender, timestamp and text of an item, kept abstract
  NoPayload,      \* the zeroed fields of a slot never written
  BootFiles       \* what smsq.dat may hold at the first power-on

ASSUME SizeAssumption ==
  /\ SMS_QUEUE_MAX \in Nat \ {0}
  /\ SEQ_MOD \in Nat \ {0}
  /\ NoPayload \notin Payload

VARIABLES
  up,      \* cm_opencpu_entry has run since the last power-on
  s_q,     \* the ring in RAM
  file,    \* smsq.dat
  s_lock,  \* "free", or the call that holds the mutex: "push" or "pop"
  save,    \* progress of queue_save: "idle", "open", "write", "close"
  stale,   \* history: the last save failed to open or to write the file
  signal,  \* a finished push is about to set SMS_QUEUE_EVT_ITEM
  s_evt,   \* SMS_QUEUE_EVT_ITEM is set
  pm       \* how often the work lock is held: once at power-on, by the firmware

qvars == <<up, s_q, file, s_lock, save, stale, signal, s_evt, pm>>

Slots    == 0 .. SMS_QUEUE_MAX - 1
SeqNums  == 0 .. SEQ_MOD - 1
Kinds    == {"sms", "call"}
Contents == [type : Kinds, data : Payload]

Items   == [type : Kinds, seq : SeqNums, data : Payload \cup {NoPayload}]
ItemsV1 == [seq : SeqNums, data : Payload \cup {NoPayload}]

\* Ring positions in a file are whatever was written there.
Blobs(I) == [head : Nat, count : Nat, seq : SeqNums, items : [Slots -> I]]
Rings    == [head : Slots, count : 0 .. SMS_QUEUE_MAX, seq : SeqNums,
             items : [Slots -> Items]]

----------------------------------------------------------------------------
(* The ring *)

EmptyItem == [type |-> "sms", seq |-> 0, data |-> NoPayload]

\* queue_reset
EmptyRing == [head |-> 0, count |-> 0, seq |-> 0, items |-> [i \in Slots |-> EmptyItem]]

Slot(r, i) == (r.head + i) % SMS_QUEUE_MAX

\* Variant: the item numbered before the counter is advanced.
EnqueueLateSeq(r, c) ==
  [head  |-> r.head,
   count |-> r.count + 1,
   seq   |-> (r.seq + 1) % SEQ_MOD,
   items |-> [r.items EXCEPT ![Slot(r, r.count)] =
                [type |-> c.type, seq |-> r.seq, data |-> c.data]]]

\* Variant: the counter is not advanced.
EnqueueSameSeq(r, c) ==
  [head  |-> r.head,
   count |-> r.count + 1,
   seq   |-> r.seq,
   items |-> [r.items EXCEPT ![Slot(r, r.count)] =
                [type |-> c.type, seq |-> r.seq, data |-> c.data]]]

Enqueue(r, c) ==
  LET n == (r.seq + 1) % SEQ_MOD
  IN  [head  |-> r.head,
       count |-> r.count + 1,
       seq   |-> n,
       items |-> [r.items EXCEPT ![Slot(r, r.count)] =
                    [type |-> c.type, seq |-> n, data |-> c.data]]]

\* Variant: the head moves past the last slot.
DequeueUnwrapped(r) ==
  [head |-> r.head + 1, count |-> r.count - 1, seq |-> r.seq, items |-> r.items]

Dequeue(r) ==
  [head  |-> (r.head + 1) % SMS_QUEUE_MAX,
   count |-> r.count - 1,
   seq   |-> r.seq,
   items |-> r.items]

\* The pending items, oldest first.
PendingOf(r) == [i \in 1 .. r.count |-> r.items[Slot(r, i - 1)]]

----------------------------------------------------------------------------
(* The file *)

\* No file, or one whose length or magic queue_load does not accept.
Torn == [fmt |-> "torn", blob |-> EmptyRing]

Snapshot(r) == [fmt |-> "cur", blob |-> r]

Files == {Torn} \cup [fmt : {"cur"}, blob : Blobs(Items)]
                \cup [fmt : {"v1"}, blob : Blobs(ItemsV1)]

InRange(b) == b.count <= SMS_QUEUE_MAX /\ b.head < SMS_QUEUE_MAX

\* queue_import_v1: entries written before the type field existed are messages.
ImportV1(b) ==
  [head |-> b.head, count |-> b.count, seq |-> b.seq,
   items |-> [i \in Slots |-> [type |-> "sms", seq |-> b.items[i].seq,
                               data |-> b.items[i].data]]]

QueueLoad(f) ==
  IF f.fmt = "v1" /\ InRange(f.blob) THEN ImportV1(f.blob)
  ELSE IF f.fmt = "cur" /\ InRange(f.blob) THEN f.blob
  ELSE EmptyRing

\* A ring whose items are numbered without a gap, oldest first, up to its counter.
Consecutive(r) ==
  /\ \A i \in 0 .. r.count - 2 :
        r.items[Slot(r, i + 1)].seq = (r.items[Slot(r, i)].seq + 1) % SEQ_MOD
  /\ r.count > 0 => r.items[Slot(r, r.count - 1)].seq = r.seq

\* Earlier runs of this or the previous firmware left a whole ring or nothing usable.
ASSUME BootAssumption ==
  \A f \in BootFiles : f \in Files /\ Consecutive(QueueLoad(f))

----------------------------------------------------------------------------
(* Steps *)

Init ==
  /\ up = FALSE
  /\ s_q = EmptyRing
  /\ file \in BootFiles
  /\ s_lock = "free"
  /\ save = "idle"
  /\ stale = FALSE
  /\ signal = FALSE
  /\ s_evt = FALSE
  /\ pm = 1

\* cm_opencpu_entry: sms_queue_init, release of the work lock, then both threads.
Boot ==
  /\ ~up
  /\ up' = TRUE
  /\ s_q' = QueueLoad(file)
  /\ stale' = FALSE
  /\ pm' = pm - 1
  /\ UNCHANGED <<file, s_lock, save, signal, s_evt>>

\* The thread that calls a queue function is not inside one, and gets the mutex.
CanPush == up /\ s_lock = "free" /\ ~signal
CanPop  == up /\ s_lock = "free"

\* Variant: a push into a full ring.
PushUnguarded(c) ==
  /\ CanPush
  /\ s_q' = Enqueue(s_q, c)
  /\ s_lock' = "push"
  /\ save' = "open"
  /\ pm' = pm + 1
  /\ UNCHANGED <<up, file, stale, signal, s_evt>>

\* osMutexAcquire, the change of the ring, and the first line of queue_save.
Push(c) ==
  /\ CanPush
  /\ s_q.count < SMS_QUEUE_MAX
  /\ s_q' = Enqueue(s_q, c)
  /\ s_lock' = "push"
  /\ save' = "open"
  /\ pm' = pm + 1
  /\ UNCHANGED <<up, file, stale, signal, s_evt>>

\* Variant: a pop that skips queue_save.
PopUnsaved ==
  /\ CanPop
  /\ s_q.count > 0
  /\ s_q' = Dequeue(s_q)
  /\ UNCHANGED <<up, file, s_lock, save, stale, signal, s_evt, pm>>

PopHead ==
  /\ CanPop
  /\ s_q.count > 0
  /\ s_q' = Dequeue(s_q)
  /\ s_lock' = "pop"
  /\ save' = "open"
  /\ pm' = pm + 1
  /\ UNCHANGED <<up, file, stale, signal, s_evt>>

\* Variant: queue_save returns without cm_pm_work_unlock.
ReturnWithoutRelease ==
  /\ save' = "idle"
  /\ s_lock' = "free"
  /\ signal' = (signal \/ s_lock = "push")
  /\ UNCHANGED pm

\* Variant: a push that does not set its event.
ReturnWithoutSignal ==
  /\ save' = "idle"
  /\ s_lock' = "free"
  /\ pm' = pm - 1
  /\ UNCHANGED signal

\* queue_save returns; the caller releases the mutex.
SaveReturns ==
  /\ save' = "idle"
  /\ s_lock' = "free"
  /\ signal' = (signal \/ s_lock = "push")
  /\ pm' = pm - 1

\* Opening with CM_FS_WB truncates; a failed open is only logged.
SaveOpen ==
  /\ save = "open"
  /\ file' = Torn
  /\ save' = "write"
  /\ UNCHANGED <<up, s_q, s_lock, stale, signal, s_evt, pm>>

SaveOpenFails ==
  /\ save = "open"
  /\ SaveReturns
  /\ stale' = TRUE
  /\ UNCHANGED <<up, s_q, file, s_evt>>

\* cm_fs_write: its result is not looked at, so a short write goes unnoticed.
SaveWrite ==
  /\ save = "write"
  /\ file' = Snapshot(s_q)
  /\ save' = "close"
  /\ stale' = FALSE
  /\ UNCHANGED <<up, s_q, s_lock, signal, s_evt, pm>>

SaveWriteShort ==
  /\ save = "write"
  /\ save' = "close"
  /\ stale' = TRUE
  /\ UNCHANGED <<up, s_q, file, s_lock, signal, s_evt, pm>>

SaveClose ==
  /\ save = "close"
  /\ SaveReturns
  /\ UNCHANGED <<up, s_q, file, stale, s_evt>>

\* osEventFlagsSet, after the mutex was released.
PushSignals ==
  /\ signal
  /\ signal' = FALSE
  /\ s_evt' = TRUE
  /\ UNCHANGED <<up, s_q, file, s_lock, save, stale, pm>>

\* sms_queue_wait: osEventFlagsWait clears the flag it returns for.
WaitReturns ==
  /\ up
  /\ s_evt
  /\ s_evt' = FALSE
  /\ UNCHANGED <<up, s_q, file, s_lock, save, stale, signal, pm>>

\* Power fails or the module resets: only the file survives.
Crash ==
  /\ up
  /\ up' = FALSE
  /\ s_q' = EmptyRing
  /\ s_lock' = "free"
  /\ save' = "idle"
  /\ stale' = FALSE
  /\ signal' = FALSE
  /\ s_evt' = FALSE
  /\ pm' = 1
  /\ UNCHANGED file

QueueStep ==
  \/ SaveOpen
  \/ SaveOpenFails
  \/ SaveWrite
  \/ SaveWriteShort
  \/ SaveClose
  \/ PushSignals

Next ==
  \/ Boot
  \/ \E c \in Contents : Push(c)
  \/ PopHead
  \/ QueueStep
  \/ WaitReturns
  \/ Crash

Spec == Init /\ [][Next]_qvars

----------------------------------------------------------------------------
(* What is checked *)

\* Every variable keeps its type; in particular head and count stay inside the
\* ring although queue_load takes them from a file.
TypeOK ==
  /\ up \in BOOLEAN
  /\ s_q \in Rings
  /\ file \in Files
  /\ s_lock \in {"free", "push", "pop"}
  /\ save \in {"idle", "open", "write", "close"}
  /\ stale \in BOOLEAN
  /\ signal \in BOOLEAN
  /\ s_evt \in BOOLEAN
  /\ pm \in Nat

\* Pending items carry consecutive sequence numbers ending at s_q.seq, in RAM and
\* in whatever queue_load would restore: msg_id, built from seq by
\* net_upload_post, tells pending items apart across wraps of the ring and
\* across restarts.
SeqsConsecutive == Consecutive(s_q) /\ Consecutive(QueueLoad(file))

\* The work lock is held exactly while queue_save runs: no return path of
\* queue_save leaves the module awake for ever or lets it sleep during a write.
SaveHoldsWorkLock ==
  /\ save # "idle" <=> s_lock # "free"
  /\ pm = IF up /\ save = "idle" THEN 0 ELSE 1

\* Outside queue_save, and unless the last save failed, a restart would bring back
\* exactly the ring in RAM: a power failure at any other moment costs nothing.
RestartResumes ==
  up /\ save = "idle" /\ ~stale => QueueLoad(file) = s_q

AbstractItem(it) == [seq |-> it.seq, content |-> [type |-> it.type, data |-> it.data]]

AbstractQueue(r) == [i \in 1 .. r.count |-> AbstractItem(PendingOf(r)[i])]

Image(f) == [pending |-> AbstractQueue(QueueLoad(f)), last |-> QueueLoad(f).seq]

Abstract == INSTANCE DurableQueue WITH
  Capacity <- SMS_QUEUE_MAX,
  SeqMod   <- SEQ_MOD,
  Contents <- Contents,
  Images   <- {Image(f) : f \in BootFiles},
  running  <- up,
  pending  <- AbstractQueue(s_q),
  last     <- s_q.seq,
  disk     <- Image(file)

\* The ring, its mutex and the in-place rewriting of smsq.dat implement a bounded
\* FIFO that restarts from one whole stored image or from nothing.
ImplementsDurableQueue == Abstract!Spec
=============================================================================
