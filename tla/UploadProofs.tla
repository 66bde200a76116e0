---------------------------- MODULE UploadProofs ----------------------------
(***************************************************************************)
(* Proofs about UploadTask: the uploading thread over the shared queue,    *)
(* for any ring, any set of arrivals and any number of power failures; and *)
(* what the server sees of it: the order in which messages first reach it, *)
(* the numbers it tells them apart by, and that the device keeps to        *)
(* ReportService.                                                          *)
(***************************************************************************)
EXTENDS UploadTask, SmsQueueProofs, NatFacts, FiniteSetTheorems

----------------------------------------------------------------------------
(* Items of a ring *)

LEMMA HeadIsItem == \A r \in Rings : RingHead(r) \in Items
BY DEF RingHead, Rings

LEMMA PendingAreItems ==
  ASSUME NEW r \in Rings, NEW i \in 1 .. r.count
  PROVE  PendingOf(r)[i] \in Items
<1>1. r.count \in 0 .. SMS_QUEUE_MAX /\ r.head \in Slots
  BY DEF Rings
<1>2. i - 1 \in 0 .. SMS_QUEUE_MAX
  BY <1>1, SizeAssumption
<1>3. Slot(r, i - 1) \in Slots
  BY <1>1, <1>2, FoldOnce DEF Slot
<1>. QED BY <1>3 DEF PendingOf, Rings

LEMMA PendingContents ==
  \A r \in Rings : ContentsOf(r) \subseteq {ContentOf(it) : it \in Items}
BY PendingAreItems DEF ContentsOf

\* Whatever is pushed can be an item's content.
LEMMA ContentsAreOfItems == Contents \subseteq {ContentOf(it) : it \in Items}
<1> SUFFICES ASSUME NEW c \in Contents PROVE c \in {ContentOf(it) : it \in Items}
  OBVIOUS
<1> DEFINE it == [type |-> c.type, seq |-> 0, data |-> c.data]
<1>1. 0 \in SeqNums
  BY SizeAssumption DEF SeqNums
<1>2. it \in Items /\ ContentOf(it) = c
  BY <1>1 DEF Items, Contents, ContentOf
<1>. QED BY <1>2

\* A push behind a pending item leaves the head where it is.
LEMMA HeadKept ==
  ASSUME NEW r \in Rings, NEW c \in Contents, r.count > 0, r.count < SMS_QUEUE_MAX
  PROVE  RingHead(Enqueue(r, c)) = RingHead(r)
<1> DEFINE e == Enqueue(r, c)
<1>1. /\ e.head = r.head
      /\ \A i \in 0 .. r.count - 1 : e.items[Slot(e, i)] = r.items[Slot(r, i)]
  BY EnqueueFacts
<1>2. r.count \in Nat /\ r.head \in Slots /\ r.head \in Nat
  BY SizeAssumption DEF Rings, Slots
<1>3. e.items[Slot(e, 0)] = r.items[Slot(r, 0)]
  BY <1>1, <1>2
<1>4. Slot(r, 0) = r.head /\ Slot(e, 0) = r.head
  BY <1>1, <1>2, FoldOnce, SizeAssumption DEF Slot, Slots
<1>. QED BY <1>1, <1>3, <1>4 DEF RingHead

\* The ring's contents grow by what is pushed.
LEMMA EnqueueContents ==
  ASSUME NEW r \in Rings, NEW c \in Contents, r.count < SMS_QUEUE_MAX
  PROVE  ContentsOf(r) \cup {c} \subseteq ContentsOf(Enqueue(r, c))
<1> DEFINE e == Enqueue(r, c)
<1>1. /\ e.count = r.count + 1
      /\ e.items[Slot(e, r.count)]
           = [type |-> c.type, seq |-> (r.seq + 1) % SEQ_MOD, data |-> c.data]
      /\ \A i \in 0 .. r.count - 1 : e.items[Slot(e, i)] = r.items[Slot(r, i)]
  BY EnqueueFacts
<1>2. r.count \in Nat
  BY SizeAssumption DEF Rings
<1> HIDE DEF e
<1>3. /\ \A i \in 1 .. r.count : PendingOf(r)[i] = r.items[Slot(r, i - 1)]
      /\ \A i \in 1 .. e.count : PendingOf(e)[i] = e.items[Slot(e, i - 1)]
  BY DEF PendingOf
<1>4. ASSUME NEW x \in ContentsOf(r) PROVE x \in ContentsOf(e)
  <2>1. PICK i \in 1 .. r.count : x = ContentOf(PendingOf(r)[i])
    BY DEF ContentsOf
  <2>2. i - 1 \in 0 .. r.count - 1 /\ i \in 1 .. e.count
    BY <1>1, <1>2
  <2>3. PendingOf(e)[i] = PendingOf(r)[i]
    BY <1>1, <1>3, <2>2
  <2>. QED BY <2>1, <2>2, <2>3 DEF ContentsOf
<1>5. c \in ContentsOf(e)
  <2>1. r.count + 1 \in 1 .. e.count /\ (r.count + 1) - 1 = r.count
    BY <1>1, <1>2
  <2>2. PendingOf(e)[r.count + 1] = e.items[Slot(e, r.count)]
    BY <1>3, <2>1
  <2>3. ContentOf(e.items[Slot(e, r.count)]) = c
    BY <1>1 DEF ContentOf, Contents
  <2>. QED BY <2>1, <2>2, <2>3 DEF ContentsOf
<1>. QED BY <1>4, <1>5 DEF e

\* A pop takes nothing from the ring's contents but the head's.
LEMMA DequeueContents ==
  ASSUME NEW r \in Rings, r.count > 0
  PROVE  ContentsOf(r) \subseteq ContentsOf(Dequeue(r)) \cup {ContentOf(RingHead(r))}
<1> DEFINE d == Dequeue(r)
<1>1. /\ d.count = r.count - 1
      /\ \A i \in 0 .. r.count - 2 : d.items[Slot(d, i)] = r.items[Slot(r, i + 1)]
  BY DequeueFacts
<1>2. r.count \in Nat /\ r.head \in Slots /\ r.head \in Nat
  BY SizeAssumption DEF Rings, Slots
<1> HIDE DEF d
<1>3. /\ \A i \in 1 .. r.count : PendingOf(r)[i] = r.items[Slot(r, i - 1)]
      /\ \A i \in 1 .. d.count : PendingOf(d)[i] = d.items[Slot(d, i - 1)]
  BY DEF PendingOf
<1>4. Slot(r, 0) = r.head
  BY <1>2, FoldOnce, SizeAssumption DEF Slot, Slots
<1>5. ASSUME NEW i \in 1 .. r.count
      PROVE  ContentOf(PendingOf(r)[i]) \in ContentsOf(d) \cup {ContentOf(RingHead(r))}
  <2>1. CASE i = 1
    <3>1. PendingOf(r)[1] = r.items[Slot(r, 1 - 1)] /\ 1 - 1 = 0
      BY <1>3, <2>1
    <3>. QED BY <1>4, <2>1, <3>1 DEF RingHead
  <2>2. CASE i > 1
    <3>1. i - 1 \in 1 .. d.count /\ i - 2 \in 0 .. r.count - 2
          /\ (i - 1) - 1 = i - 2 /\ (i - 2) + 1 = i - 1
      BY <1>1, <1>2, <2>2
    <3>2. PendingOf(d)[i - 1] = PendingOf(r)[i]
      BY <1>1, <1>3, <3>1
    <3>. QED BY <3>1, <3>2 DEF ContentsOf
  <2>. QED BY <1>2, <2>1, <2>2
<1>. QED BY <1>5 DEF ContentsOf, d

\* An accepted push is the newest entry of the history.
LEMMA AcceptedGrows ==
  ASSUME NEW S, NEW s \in Seq(S), NEW x \in S
  PROVE  {Append(s, x)[i] : i \in DOMAIN Append(s, x)} = {s[i] : i \in DOMAIN s} \cup {x}
<1> DEFINE t == Append(s, x)
<1>1. /\ Len(s) \in Nat /\ DOMAIN s = 1 .. Len(s) /\ DOMAIN t = 1 .. Len(s) + 1
      /\ t[Len(s) + 1] = x
      /\ \A i \in 1 .. Len(s) : t[i] = s[i]
  OBVIOUS
<1> HIDE DEF t
<1>2. DOMAIN t = DOMAIN s \cup {Len(s) + 1}
  BY <1>1
<1>3. {t[i] : i \in DOMAIN t} = {s[i] : i \in DOMAIN s} \cup {x}
  BY <1>1, <1>2
<1>. QED BY <1>3 DEF t

----------------------------------------------------------------------------
(* The inductive invariant *)

\* Where the thread may be while it is off, while the client is half made, and while
\* it holds the mutex.
Lifecycle ==
  /\ ~up => upPc = "off" /\ s_client = "none" /\ save = "idle"
  /\ s_client \in {"locked", "created"} => upPc \in {"init", "client"}
  /\ save # "idle" <=> s_lock # "free"
  /\ s_lock = "pop" => upPc = "popping"

RingInBounds == s_q \in Rings /\ file \in Files

UIndInv ==
  /\ RingInBounds
  /\ Lifecycle
  /\ WorkLockBalanced
  /\ NoLostWakeup
  /\ PopsWhatWasPosted

LEMMA InitUIndInv == UInit => UIndInv
<1> SUFFICES ASSUME UInit PROVE UIndInv
  OBVIOUS
<1>1. RingInBounds
  BY EmptyRingFacts, BootAssumption DEF UInit, Init, RingInBounds
<1>2. Lifecycle /\ WorkLockBalanced /\ NoLostWakeup /\ PopsWhatWasPosted
  BY DEF UInit, Init, Lifecycle, WorkLockBalanced, NoLostWakeup, PopsWhatWasPosted
<1>. QED BY <1>1, <1>2 DEF UIndInv

\* Every step of the composed system leaves the ring and the file well formed.
LEMMA StepRing == RingInBounds /\ [UNext]_uvars => RingInBounds'
<1> SUFFICES ASSUME RingInBounds, [UNext]_uvars PROVE RingInBounds'
  OBVIOUS
<1> USE DEF RingInBounds
<1>1. CASE BootDevice
  BY <1>1, LoadYieldsRing DEF BootDevice, Boot
<1>2. ASSUME NEW c \in Arrivals, ArrivalQueued(c) PROVE RingInBounds'
  BY <1>2, EnqueueFacts, UploadAssumption DEF ArrivalQueued, Push
<1>3. CASE QueueProgress
  <2>1. Torn \in Files
    BY DEF Files
  <2>. QED BY <1>3, <2>1, SnapshotIsFile
           DEF QueueProgress, QueueStep, SaveOpen, SaveOpenFails, SaveWrite,
               SaveWriteShort, SaveClose, PushSignals
<1>4. CASE PopsReported
  BY <1>4, DequeueFacts DEF PopsReported, PopHead
<1>5. CASE PowerFails
  BY <1>5, EmptyRingFacts DEF PowerFails, Crash
<1>6. CASE WakesUp
  BY <1>6 DEF WakesUp, WaitReturns
<1>7. CASE \/ ClientLocked \/ ClientCreateFails \/ ClientConfigured \/ ClientConfigFails
           \/ RequestSent \/ ReplyArrives \/ RequestFails
  BY <1>7 DEF ClientLocked, ClientCreateFails, ClientConfigured, ClientConfigFails,
              RequestSent, ReplyArrives, RequestFails, InitReturns
<1>8. CASE \/ UNCHANGED uvars \/ NetUp \/ NetDown \/ ServerTakes \/ LateArrives
           \/ \E c \in Arrivals : ArrivalDropped(c)
  BY <1>8 DEF uvars, qvars, NetUp, NetDown, ServerTakes, LateArrives, ArrivalDropped
<1>9. CASE \/ NetNotReady \/ NetIsReady \/ ClientCreated
           \/ PeekFinds \/ PeekFindsNothing \/ PostNotSent \/ DelayEnds
  BY <1>9 DEF qvars, NetNotReady, NetIsReady, ClientCreated, PeekFinds,
              PeekFindsNothing, PostNotSent, DelayEnds
<1>. QED BY <1>1, <1>2, <1>3, <1>4, <1>5, <1>6, <1>7, <1>8, <1>9
         DEF UNext, Uploader

\* No step turns an idle wait into a missed wake-up.
LEMMA StepWakeup == NoLostWakeup /\ [UNext]_uvars => NoLostWakeup'
<1> SUFFICES ASSUME NoLostWakeup, [UNext]_uvars PROVE NoLostWakeup'
  OBVIOUS
<1> USE DEF NoLostWakeup
<1>1. CASE BootDevice \/ PowerFails \/ PopsReported \/ WakesUp
  BY <1>1 DEF BootDevice, PowerFails, PopsReported, WakesUp
<1>2. ASSUME NEW c \in Arrivals, ArrivalQueued(c) PROVE NoLostWakeup'
  BY <1>2 DEF ArrivalQueued, Push
<1>3. CASE QueueProgress
  <2>1. s_q' = s_q /\ (upPc' = "wait" => upPc = "wait")
    BY <1>3 DEF QueueProgress, QueueStep, SaveOpen, SaveOpenFails, SaveWrite,
                SaveWriteShort, SaveClose, PushSignals
  <2>2. (s_evt \/ signal \/ s_lock = "push") => (s_evt \/ signal \/ s_lock = "push")'
    BY <1>3 DEF QueueProgress, QueueStep, SaveOpen, SaveOpenFails, SaveWrite,
                SaveWriteShort, SaveClose, PushSignals, SaveReturns
  <2>. QED BY <2>1, <2>2
<1>4. CASE PeekFindsNothing
  BY <1>4 DEF PeekFindsNothing, qvars
<1>5. CASE \/ ClientLocked \/ ClientCreated \/ ClientCreateFails \/ ClientConfigured \/ ClientConfigFails
  BY <1>5 DEF ClientLocked, ClientCreated, ClientCreateFails, ClientConfigured, ClientConfigFails,
              InitReturns, qvars
<1>6. CASE \/ NetNotReady \/ NetIsReady \/ PeekFinds \/ PostNotSent \/ RequestSent
           \/ ReplyArrives \/ RequestFails \/ DelayEnds
  BY <1>6 DEF NetNotReady, NetIsReady, PeekFinds, PostNotSent, RequestSent, ReplyArrives,
              RequestFails, DelayEnds, PostFails, qvars
<1>7. CASE \/ UNCHANGED uvars \/ NetUp \/ NetDown \/ ServerTakes \/ LateArrives
           \/ \E c \in Arrivals : ArrivalDropped(c)
  BY <1>7 DEF uvars, qvars, taskvars, NetUp, NetDown, ServerTakes, LateArrives,
              ArrivalDropped
<1>. QED BY <1>1, <1>2, <1>3, <1>4, <1>5, <1>6, <1>7 DEF UNext, Uploader

\* While an item is on its way, only pushes change the ring, and they leave its head.
LEMMA StepHead ==
  RingInBounds /\ Lifecycle /\ PopsWhatWasPosted /\ [UNext]_uvars => PopsWhatWasPosted'
<1> SUFFICES ASSUME RingInBounds, Lifecycle, PopsWhatWasPosted, [UNext]_uvars
             PROVE  PopsWhatWasPosted'
  OBVIOUS
<1> USE DEF PopsWhatWasPosted
<1>1. CASE \/ BootDevice \/ PowerFails \/ PopsReported \/ WakesUp
  BY <1>1 DEF BootDevice, PowerFails, PopsReported, WakesUp
<1>2. ASSUME NEW c \in Arrivals, ArrivalQueued(c) PROVE PopsWhatWasPosted'
  <2>1. /\ s_q' = Enqueue(s_q, c) /\ s_q.count < SMS_QUEUE_MAX
        /\ upPc' = upPc /\ item' = item
    BY <1>2 DEF ArrivalQueued, Push, taskvars
  <2>2. c \in Contents /\ s_q \in Rings
    BY UploadAssumption DEF RingInBounds
  <2>3. s_q.count \in Nat
    BY <2>2, SizeAssumption DEF Rings
  <2>4. Enqueue(s_q, c).count = s_q.count + 1
    BY DEF Enqueue
  <2>. QED BY <2>1, <2>2, <2>3, <2>4, HeadKept
<1>3. CASE QueueProgress
  BY <1>3 DEF QueueProgress, QueueStep, SaveOpen, SaveOpenFails, SaveWrite,
              SaveWriteShort, SaveClose, PushSignals
<1>4. CASE PeekFinds
  BY <1>4 DEF PeekFinds, qvars
<1>5. CASE PeekFindsNothing
  BY <1>5 DEF PeekFindsNothing
<1>6. CASE \/ ClientLocked \/ ClientCreated \/ ClientCreateFails \/ ClientConfigured \/ ClientConfigFails
  BY <1>6 DEF ClientLocked, ClientCreated, ClientCreateFails, ClientConfigured, ClientConfigFails,
              InitReturns, Lifecycle, qvars
<1>7. CASE \/ NetNotReady \/ NetIsReady \/ PostNotSent \/ RequestSent
           \/ ReplyArrives \/ RequestFails \/ DelayEnds
  BY <1>7 DEF NetNotReady, NetIsReady, PostNotSent, RequestSent, ReplyArrives,
              RequestFails, DelayEnds, PostFails, qvars
<1>8. CASE \/ UNCHANGED uvars \/ NetUp \/ NetDown \/ ServerTakes \/ LateArrives
           \/ \E c \in Arrivals : ArrivalDropped(c)
  BY <1>8 DEF uvars, qvars, taskvars, NetUp, NetDown, ServerTakes, LateArrives,
              ArrivalDropped
<1>. QED BY <1>1, <1>2, <1>3, <1>4, <1>5, <1>6, <1>7, <1>8 DEF UNext, Uploader

\* Every path takes and gives back the mutex, the client and the work lock together.
LEMMA StepLocks ==
  Lifecycle /\ WorkLockBalanced /\ [UNext]_uvars => Lifecycle' /\ WorkLockBalanced'
<1> SUFFICES ASSUME Lifecycle, WorkLockBalanced, [UNext]_uvars
             PROVE  Lifecycle' /\ WorkLockBalanced'
  OBVIOUS
<1> USE DEF Lifecycle, WorkLockBalanced
<1>1. CASE BootDevice
  BY <1>1 DEF BootDevice, Boot
<1>2. ASSUME NEW c \in Arrivals, ArrivalQueued(c) PROVE Lifecycle' /\ WorkLockBalanced'
  BY <1>2 DEF ArrivalQueued, Push, CanPush, taskvars
<1>3. CASE QueueProgress
  <2>1. /\ upPc' = IF s_lock = "pop" /\ s_lock' = "free" THEN "loop" ELSE upPc
        /\ s_client' = s_client
    BY <1>3 DEF QueueProgress
  <2>2. CASE SaveOpenFails \/ SaveClose
    <3>1. save # "idle" /\ up' = up /\ save' = "idle" /\ s_lock' = "free" /\ pm' = pm - 1
      BY <2>2 DEF SaveOpenFails, SaveClose, SaveReturns
    <3>2. upPc' = "request" <=> upPc = "request"
      BY <2>1
    <3>3. s_client \in {"locked", "created"} => upPc' = upPc
      BY <2>1
    <3>. QED BY <2>1, <3>1, <3>2, <3>3
  <2>3. CASE SaveOpen \/ SaveWrite \/ SaveWriteShort \/ PushSignals
    <3>1. /\ up' = up /\ s_lock' = s_lock /\ pm' = pm
          /\ save' # "idle" <=> save # "idle"
      BY <2>3 DEF SaveOpen, SaveWrite, SaveWriteShort, PushSignals
    <3>2. upPc' = upPc
      BY <2>1, <3>1
    <3>. QED BY <2>1, <3>1, <3>2
  <2>. QED BY <1>3, <2>2, <2>3 DEF QueueProgress, QueueStep
<1>4. CASE PopsReported
  BY <1>4 DEF PopsReported, PopHead, CanPop
<1>5. CASE PowerFails
  BY <1>5 DEF PowerFails, Crash
<1>6. CASE WakesUp
  BY <1>6 DEF WakesUp, WaitReturns
<1>7. CASE \/ ClientLocked \/ ClientCreated \/ ClientCreateFails \/ ClientConfigured \/ ClientConfigFails
  BY <1>7 DEF ClientLocked, ClientCreated, ClientCreateFails, ClientConfigured, ClientConfigFails,
              InitReturns, qvars
<1>8. CASE RequestSent \/ ReplyArrives \/ RequestFails \/ PostNotSent
  BY <1>8 DEF RequestSent, ReplyArrives, RequestFails, PostNotSent, PostFails, qvars
<1>9. CASE \/ NetNotReady \/ NetIsReady \/ PeekFinds \/ PeekFindsNothing \/ DelayEnds
  BY <1>9 DEF NetNotReady, NetIsReady, PeekFinds, PeekFindsNothing, DelayEnds, CanPop, qvars
<1>10. CASE \/ UNCHANGED uvars \/ NetUp \/ NetDown \/ ServerTakes \/ LateArrives
            \/ \E c \in Arrivals : ArrivalDropped(c)
  BY <1>10 DEF uvars, qvars, taskvars, NetUp, NetDown, ServerTakes, LateArrives,
               ArrivalDropped
<1>. QED BY <1>1, <1>2, <1>3, <1>4, <1>5, <1>6, <1>7, <1>8, <1>9, <1>10
         DEF UNext, Uploader

----------------------------------------------------------------------------
(* Types *)

LEMMA EmptyItemTyped == EmptyItem \in Items
BY HeadIsItem, EmptyRingFacts, SizeAssumption DEF RingHead, EmptyRing, Slots

\* A delay that has not reached its maximum may be doubled once.
LEMMA BackoffTyped ==
  ASSUME NEW b \in UPLOAD_RETRY_MIN_MS .. 2 * UPLOAD_RETRY_MAX_MS - 1
  PROVE  NextBackoff(b) \in UPLOAD_RETRY_MIN_MS .. 2 * UPLOAD_RETRY_MAX_MS - 1
BY UploadAssumption DEF NextBackoff

LEMMA IntervalTyped ==
  ASSUME NEW n \in NET_POLL_MIN_MS .. NET_POLL_MAX_MS
  PROVE  NextInterval(n) \in NET_POLL_MIN_MS .. NET_POLL_MAX_MS
BY UploadAssumption DEF NextInterval

\* What the queue's own steps change.
FlagTypes ==
  /\ up \in BOOLEAN
  /\ s_lock \in {"free", "push", "pop"}
  /\ save \in {"idle", "open", "write", "close"}
  /\ stale \in BOOLEAN
  /\ signal \in BOOLEAN
  /\ s_evt \in BOOLEAN

\* What the uploading thread keeps.
TaskTypes ==
  /\ upPc \in Positions
  /\ item \in Items
  /\ backoff_ms \in UPLOAD_RETRY_MIN_MS .. 2 * UPLOAD_RETRY_MAX_MS - 1
  /\ interval \in NET_POLL_MIN_MS .. NET_POLL_MAX_MS
  /\ s_client \in {"none", "locked", "created", "ready"}

\* The network, the arrivals and the history.
WorldTypes ==
  /\ net \in BOOLEAN
  /\ wire \in {"none", "sent", "served"}
  /\ late \subseteq Items
  /\ fresh \subseteq Arrivals
  /\ accepted \in Seq({ContentOf(it) : it \in Items})
  /\ received \subseteq Items
  /\ excused \subseteq {ContentOf(it) : it \in Items}
  /\ rolledBack \in BOOLEAN
  /\ crashes \in 0 .. MaxCrashes

LEMMA TypeParts ==
  UTypeOK <=> RingInBounds /\ pm \in Nat /\ FlagTypes /\ TaskTypes /\ WorldTypes
BY DEF UTypeOK, TypeOK, RingInBounds, FlagTypes, TaskTypes, WorldTypes

LEMMA InitTypes == UInit => UTypeOK
<1> SUFFICES ASSUME UInit PROVE UTypeOK
  OBVIOUS
<1>1. s_q \in Rings /\ file \in Files /\ QueueLoad(file) \in Rings
  BY EmptyRingFacts, BootAssumption, LoadYieldsRing DEF UInit, Init
<1>2. accepted \in Seq({ContentOf(it) : it \in Items})
  <2> DEFINE r == QueueLoad(file)
  <2>1. r.count \in Nat
    BY <1>1, SizeAssumption DEF Rings
  <2>2. accepted = [i \in 1 .. r.count |-> ContentOf(PendingOf(r)[i])]
    BY DEF UInit
  <2>3. \A i \in 1 .. r.count : PendingOf(r)[i] \in Items
    BY <1>1, PendingAreItems
  <2> HIDE DEF r
  <2>. QED BY <2>1, <2>2, <2>3
<1>3. /\ UPLOAD_RETRY_MIN_MS \in UPLOAD_RETRY_MIN_MS .. 2 * UPLOAD_RETRY_MAX_MS - 1
      /\ NET_POLL_MIN_MS \in NET_POLL_MIN_MS .. NET_POLL_MAX_MS
  BY UploadAssumption
<1>4. RingInBounds /\ pm \in Nat /\ FlagTypes
  BY <1>1 DEF UInit, Init, RingInBounds, FlagTypes
<1>5. TaskTypes
  BY <1>3, EmptyItemTyped DEF UInit, TaskTypes, Positions
<1>6. WorldTypes
  <2>1. /\ net = FALSE /\ wire = "none" /\ late = {} /\ fresh = Arrivals
        /\ received = {} /\ excused = {} /\ rolledBack = FALSE /\ crashes = 0
    BY DEF UInit
  <2>2. crashes \in 0 .. MaxCrashes
    BY <2>1, UploadAssumption
  <2>. QED BY <1>2, <2>1, <2>2 DEF WorldTypes
<1>. QED BY <1>4, <1>5, <1>6, TypeParts

LEMMA StepFlagTypes == FlagTypes /\ [UNext]_uvars => FlagTypes'
<1> SUFFICES ASSUME FlagTypes, [UNext]_uvars PROVE FlagTypes'
  OBVIOUS
<1> USE DEF FlagTypes
<1>1. CASE QueueProgress
  BY <1>1 DEF QueueProgress, QueueStep, SaveOpen, SaveOpenFails, SaveWrite,
              SaveWriteShort, SaveClose, PushSignals, SaveReturns
<1>2. ASSUME NEW c \in Arrivals, ArrivalQueued(c) PROVE FlagTypes'
  BY <1>2 DEF ArrivalQueued, Push
<1>3. CASE BootDevice \/ PowerFails \/ PopsReported \/ WakesUp
  BY <1>3 DEF BootDevice, Boot, PowerFails, Crash, PopsReported, PopHead, WakesUp,
              WaitReturns
<1>4. CASE \/ ClientLocked \/ ClientCreated \/ ClientCreateFails \/ ClientConfigured \/ ClientConfigFails
           \/ RequestSent \/ ReplyArrives \/ RequestFails \/ PostNotSent
  BY <1>4 DEF ClientLocked, ClientCreated, ClientCreateFails, ClientConfigured, ClientConfigFails,
              RequestSent, ReplyArrives, RequestFails, PostNotSent, qvars
<1>5. CASE NetNotReady \/ NetIsReady \/ PeekFinds \/ PeekFindsNothing \/ DelayEnds
  BY <1>5 DEF NetNotReady, NetIsReady, PeekFinds, PeekFindsNothing, DelayEnds, qvars
<1>6. CASE \/ UNCHANGED uvars \/ NetUp \/ NetDown \/ ServerTakes \/ LateArrives
           \/ \E c \in Arrivals : ArrivalDropped(c)
  BY <1>6 DEF uvars, qvars, NetUp, NetDown, ServerTakes, LateArrives, ArrivalDropped
<1>. QED BY <1>1, <1>2, <1>3, <1>4, <1>5, <1>6 DEF UNext, Uploader

LEMMA StepTaskTypes == RingInBounds /\ TaskTypes /\ [UNext]_uvars => TaskTypes'
<1> SUFFICES ASSUME RingInBounds, TaskTypes, [UNext]_uvars PROVE TaskTypes'
  OBVIOUS
<1>1. RingHead(s_q) \in Items
  BY HeadIsItem DEF RingInBounds
<1>2. /\ UPLOAD_RETRY_MIN_MS \in UPLOAD_RETRY_MIN_MS .. 2 * UPLOAD_RETRY_MAX_MS - 1
      /\ NET_POLL_MIN_MS \in NET_POLL_MIN_MS .. NET_POLL_MAX_MS
  BY UploadAssumption
<1>3. CASE BootDevice
  BY <1>2, <1>3, EmptyItemTyped DEF BootDevice, TaskTypes, Positions
<1>4. CASE QueueProgress
  BY <1>4 DEF QueueProgress, TaskTypes, Positions
<1>5. CASE NetNotReady
  BY <1>5, IntervalTyped DEF NetNotReady, TaskTypes
<1>6. CASE \/ ClientLocked \/ ClientCreated \/ ClientCreateFails \/ ClientConfigured \/ ClientConfigFails
  BY <1>6 DEF ClientLocked, ClientCreated, ClientCreateFails, ClientConfigured, ClientConfigFails,
              InitReturns, TaskTypes, Positions
<1>7. CASE PeekFinds \/ PeekFindsNothing
  BY <1>1, <1>2, <1>7, EmptyItemTyped DEF PeekFinds, PeekFindsNothing, TaskTypes, Positions
<1>8. CASE PostNotSent \/ RequestFails
  BY <1>8, BackoffTyped DEF PostNotSent, RequestFails, PostFails, TaskTypes, Positions
<1>9. CASE NetIsReady \/ WakesUp \/ RequestSent \/ ReplyArrives \/ DelayEnds
  BY <1>2, <1>9 DEF NetIsReady, WakesUp, RequestSent, ReplyArrives, DelayEnds, TaskTypes,
              Positions
<1>10. CASE PopsReported \/ PowerFails
  BY <1>2, <1>10 DEF PopsReported, PowerFails, TaskTypes, Positions
<1>11. CASE \/ UNCHANGED uvars \/ NetUp \/ NetDown \/ ServerTakes \/ LateArrives
            \/ \E c \in Arrivals : ArrivalQueued(c) \/ ArrivalDropped(c)
  BY <1>11 DEF uvars, taskvars, NetUp, NetDown, ServerTakes, LateArrives,
               ArrivalQueued, ArrivalDropped, TaskTypes
<1>. QED BY <1>3, <1>4, <1>5, <1>6, <1>7, <1>8, <1>9, <1>10, <1>11 DEF UNext, Uploader

LEMMA StepWorldTypes ==
  RingInBounds /\ TaskTypes /\ WorldTypes /\ [UNext]_uvars => WorldTypes'
<1> SUFFICES ASSUME RingInBounds, TaskTypes, WorldTypes, [UNext]_uvars PROVE WorldTypes'
  OBVIOUS
<1>1. item \in Items
  BY DEF TaskTypes
<1>2. ASSUME NEW c \in Arrivals, ArrivalQueued(c) PROVE WorldTypes'
  <2>1. c \in {ContentOf(it) : it \in Items}
    BY ContentsAreOfItems, UploadAssumption
  <2>2. accepted' \in Seq({ContentOf(it) : it \in Items})
    BY <1>2, <2>1 DEF ArrivalQueued, WorldTypes
  <2>. QED BY <1>2, <2>2 DEF ArrivalQueued, netvars, WorldTypes
<1>3. CASE PowerFails
  <2>1. ContentsOf(s_q) \subseteq {ContentOf(it) : it \in Items}
    BY PendingContents DEF RingInBounds
  <2>2. late' \subseteq Items /\ wire' = "none"
    BY <1>1, <1>3 DEF PowerFails, GivenUp, WorldTypes
  <2>3. crashes' \in 0 .. MaxCrashes
    BY <1>3, UploadAssumption DEF PowerFails, WorldTypes
  <2>4. excused' \subseteq {ContentOf(it) : it \in Items}
    BY <1>3, <2>1 DEF PowerFails, WorldTypes
  <2>5. rolledBack' \in BOOLEAN
    BY <1>3 DEF PowerFails, WorldTypes
  <2>. QED BY <1>3, <2>2, <2>3, <2>4, <2>5 DEF PowerFails, WorldTypes
<1>4. CASE RequestSent \/ ReplyArrives
  BY <1>4 DEF RequestSent, ReplyArrives, history, WorldTypes
<1>5. CASE RequestFails
  BY <1>1, <1>5 DEF RequestFails, GivenUp, history, WorldTypes
<1>6. CASE NetUp \/ NetDown \/ ServerTakes \/ LateArrives
  BY <1>1, <1>6 DEF NetUp, NetDown, ServerTakes, LateArrives, history, WorldTypes
<1>7. ASSUME NEW c \in Arrivals, ArrivalDropped(c) PROVE WorldTypes'
  BY <1>7 DEF ArrivalDropped, netvars, history, WorldTypes
<1>8. CASE \/ UNCHANGED uvars \/ BootDevice \/ QueueProgress \/ PopsReported \/ WakesUp
           \/ ClientLocked \/ ClientCreated \/ ClientCreateFails \/ ClientConfigured \/ ClientConfigFails
  BY <1>8 DEF uvars, BootDevice, QueueProgress, PopsReported, WakesUp, ClientLocked,
              ClientCreated, ClientCreateFails, ClientConfigured, ClientConfigFails, netvars, history,
              WorldTypes
<1>9. CASE \/ NetNotReady \/ NetIsReady \/ PeekFinds \/ PeekFindsNothing \/ PostNotSent
           \/ DelayEnds
  BY <1>9 DEF NetNotReady, NetIsReady, PeekFinds, PeekFindsNothing, PostNotSent, DelayEnds,
              netvars, history, WorldTypes
<1>. QED BY <1>2, <1>3, <1>4, <1>5, <1>6, <1>7, <1>8, <1>9 DEF UNext, Uploader

LEMMA AlwaysUIndInv == USpec => []UIndInv
<1>1. UIndInv /\ [UNext]_uvars => UIndInv'
  BY StepRing, StepLocks, StepWakeup, StepHead DEF UIndInv
<1>. QED BY <1>1, InitUIndInv, PTL DEF USpec

LEMMA AlwaysTyped == USpec => []UTypeOK
<1>1. UTypeOK /\ UIndInv /\ UIndInv' /\ [UNext]_uvars => UTypeOK'
  <2> SUFFICES ASSUME UTypeOK, UIndInv, UIndInv', [UNext]_uvars PROVE UTypeOK'
    OBVIOUS
  <2>1. RingInBounds /\ FlagTypes /\ TaskTypes /\ WorldTypes
    BY TypeParts
  <2>2. FlagTypes' /\ TaskTypes' /\ WorldTypes'
    BY <2>1, StepFlagTypes, StepTaskTypes, StepWorldTypes
  <2>3. RingInBounds' /\ pm' \in Nat
    BY DEF UIndInv, WorkLockBalanced
  <2>. QED BY <2>2, <2>3
           DEF UTypeOK, TypeOK, RingInBounds, FlagTypes, TaskTypes, WorldTypes
<1>. QED BY <1>1, InitTypes, AlwaysUIndInv, PTL DEF USpec

\* Every variable of the two threads keeps its type, whatever smsq.dat held.
THEOREM UploadTypeOK == USpec => []UTypeOK
BY AlwaysTyped

\* The uploading thread never sleeps beside a pending item without a push on its
\* way to wake it.
THEOREM UploadNoLostWakeup == USpec => []NoLostWakeup
BY AlwaysUIndInv, PTL DEF UIndInv

\* sms_queue_pop_head removes the item that was posted, although the mutex was free
\* between the peek and the pop.
THEOREM UploadPopsWhatWasPosted == USpec => []PopsWhatWasPosted
BY AlwaysUIndInv, PTL DEF UIndInv

\* No failure path of the client, the request or the save keeps the work lock.
THEOREM UploadWorkLockBalanced == USpec => []WorkLockBalanced
BY AlwaysUIndInv, PTL DEF UIndInv
----------------------------------------------------------------------------
(* No loss *)

\* A request in progress belongs to the post; one that was served, and the pop that
\* follows it, are about an item the server has been handed.
Reported ==
  /\ wire # "none" => upPc = "request"
  /\ wire = "served" \/ upPc = "pop" => item \in received

LossInv == Reported /\ NothingLost

LEMMA InitLoss == UInit => LossInv
<1> SUFFICES ASSUME UInit PROVE LossInv
  OBVIOUS
<1>1. AcceptedSet \subseteq ContentsOf(QueueLoad(file))
  BY DEF UInit, AcceptedSet, ContentsOf
<1>. QED BY <1>1 DEF UInit, Init, LossInv, Reported, NothingLost, Held

LEMMA StepReported == Lifecycle /\ Reported /\ [UNext]_uvars => Reported'
<1> SUFFICES ASSUME Lifecycle, Reported, [UNext]_uvars PROVE Reported'
  OBVIOUS
<1> USE DEF Reported
<1>1. CASE QueueProgress
  BY <1>1 DEF QueueProgress, netvars, history, Lifecycle
<1>2. CASE \/ ClientLocked \/ ClientCreated \/ ClientCreateFails \/ ClientConfigured \/ ClientConfigFails
  BY <1>2 DEF ClientLocked, ClientCreated, ClientCreateFails, ClientConfigured, ClientConfigFails,
              InitReturns, netvars, history, Lifecycle
<1>3. CASE RequestSent \/ ReplyArrives \/ RequestFails \/ PostNotSent
  BY <1>3 DEF RequestSent, ReplyArrives, RequestFails, PostNotSent, PostFails, GivenUp,
              netvars, history
<1>4. CASE BootDevice \/ PowerFails \/ PopsReported \/ WakesUp
  BY <1>4 DEF BootDevice, Boot, PowerFails, Crash, GivenUp, PopsReported, WakesUp, netvars,
              history, Lifecycle
<1>5. CASE NetNotReady \/ NetIsReady \/ PeekFinds \/ PeekFindsNothing \/ DelayEnds
  BY <1>5 DEF NetNotReady, NetIsReady, PeekFinds, PeekFindsNothing, DelayEnds, netvars,
              history
<1>6. CASE \/ UNCHANGED uvars \/ NetUp \/ NetDown \/ ServerTakes \/ LateArrives
           \/ \E c \in Arrivals : ArrivalQueued(c) \/ ArrivalDropped(c)
  BY <1>6 DEF uvars, taskvars, netvars, history, NetUp, NetDown, ServerTakes, LateArrives,
              ArrivalQueued, ArrivalDropped
<1>. QED BY <1>1, <1>2, <1>3, <1>4, <1>5, <1>6 DEF UNext, Uploader

\* A content leaves the ring only when its item has been received, or by a power
\* failure, which is the excuse.
LEMMA StepNothingLost ==
  UTypeOK /\ UIndInv /\ Reported /\ NothingLost /\ [UNext]_uvars => NothingLost'
<1> SUFFICES ASSUME UTypeOK, UIndInv, Reported, NothingLost, [UNext]_uvars
             PROVE  NothingLost'
  OBVIOUS
<1>1. s_q \in Rings /\ Lifecycle /\ PopsWhatWasPosted
  BY DEF UIndInv, RingInBounds
<1>2. CASE BootDevice
  BY <1>2 DEF BootDevice, Boot, history, NothingLost, Held, AcceptedSet, ReceivedSet
<1>3. ASSUME NEW c \in Arrivals, ArrivalQueued(c) PROVE NothingLost'
  <2>1. up /\ up' /\ s_q' = Enqueue(s_q, c) /\ s_q.count < SMS_QUEUE_MAX /\ c \in Contents
    BY <1>3, UploadAssumption DEF ArrivalQueued, Push, CanPush
  <2>2. ContentsOf(s_q) \cup {c} \subseteq ContentsOf(s_q')
    BY <1>1, <2>1, EnqueueContents
  <2>3. c \in {ContentOf(it) : it \in Items}
    BY <2>1, ContentsAreOfItems
  <2>4. AcceptedSet' = AcceptedSet \cup {c}
    BY <1>3, <2>3, AcceptedGrows DEF ArrivalQueued, AcceptedSet, UTypeOK
  <2>5. ReceivedSet' = ReceivedSet /\ excused' = excused
    BY <1>3 DEF ArrivalQueued, ReceivedSet
  <2>. QED BY <2>1, <2>2, <2>4, <2>5 DEF NothingLost, Held
<1>4. CASE QueueProgress
  <2>1. up' = up /\ s_q' = s_q /\ (save = "idle" => file' = file)
    BY <1>4 DEF QueueProgress, QueueStep, SaveOpen, SaveOpenFails, SaveWrite,
                SaveWriteShort, SaveClose, PushSignals
  <2>2. ~up => file' = file
    BY <1>1, <2>1 DEF Lifecycle
  <2>3. Held' = Held
    BY <2>1, <2>2 DEF Held
  <2>. QED BY <1>4, <2>3 DEF QueueProgress, history, NothingLost, AcceptedSet, ReceivedSet
<1>5. CASE PopsReported
  <2>1. up /\ up' /\ s_q.count > 0 /\ s_q' = Dequeue(s_q)
    BY <1>5 DEF PopsReported, PopHead, CanPop
  <2>2. ContentsOf(s_q) \subseteq ContentsOf(s_q') \cup {ContentOf(RingHead(s_q))}
    BY <1>1, <2>1, DequeueContents
  <2>3. RingHead(s_q) \in received
    BY <1>1, <1>5 DEF PopsReported, PopsWhatWasPosted, Reported
  <2>4. ContentOf(RingHead(s_q)) \in ReceivedSet
    BY <2>3 DEF ReceivedSet
  <2>5. AcceptedSet' = AcceptedSet /\ ReceivedSet' = ReceivedSet /\ excused' = excused
    BY <1>5 DEF PopsReported, history, AcceptedSet, ReceivedSet
  <2>. QED BY <2>1, <2>2, <2>4, <2>5 DEF NothingLost, Held
<1>6. CASE PowerFails
  <2>1. /\ Held = ContentsOf(s_q) /\ Held' = ContentsOf(QueueLoad(file))
        /\ excused' = excused \cup (Held \ Held')
    BY <1>6 DEF PowerFails, Crash, Held
  <2>2. AcceptedSet' = AcceptedSet /\ ReceivedSet' = ReceivedSet
    BY <1>6 DEF PowerFails, AcceptedSet, ReceivedSet
  <2>. QED BY <2>1, <2>2 DEF NothingLost
<1>7. CASE ServerTakes \/ LateArrives
  <2>1. Held' = Held /\ AcceptedSet' = AcceptedSet /\ excused' = excused
    BY <1>7 DEF ServerTakes, LateArrives, qvars, Held, AcceptedSet
  <2>2. received \subseteq received'
    BY <1>7 DEF ServerTakes, LateArrives
  <2>3. ReceivedSet \subseteq ReceivedSet'
    BY <2>2 DEF ReceivedSet
  <2>. QED BY <2>1, <2>3 DEF NothingLost
<1>8. ASSUME UNCHANGED <<up, s_q, file, history>> PROVE NothingLost'
  BY <1>8 DEF history, NothingLost, Held, AcceptedSet, ReceivedSet
<1>9. CASE \/ ClientLocked \/ ClientCreated \/ ClientCreateFails \/ ClientConfigured \/ ClientConfigFails
           \/ RequestSent \/ ReplyArrives \/ RequestFails \/ PostNotSent \/ WakesUp
  BY <1>8, <1>9 DEF ClientLocked, ClientCreated, ClientCreateFails, ClientConfigured, ClientConfigFails,
                    RequestSent, ReplyArrives, RequestFails, PostNotSent, WakesUp,
                    WaitReturns, qvars
<1>10. CASE \/ UNCHANGED uvars \/ NetUp \/ NetDown
            \/ NetNotReady \/ NetIsReady \/ PeekFinds \/ PeekFindsNothing \/ DelayEnds
            \/ \E c \in Arrivals : ArrivalDropped(c)
  BY <1>8, <1>10 DEF uvars, qvars, NetUp, NetDown, NetNotReady, NetIsReady, PeekFinds,
                     PeekFindsNothing, DelayEnds, ArrivalDropped
<1>. QED BY <1>2, <1>3, <1>4, <1>5, <1>6, <1>7, <1>9, <1>10 DEF UNext, Uploader

LEMMA AlwaysLoss == USpec => []LossInv
<1>1. UTypeOK /\ UIndInv /\ LossInv /\ [UNext]_uvars => LossInv'
  BY StepReported, StepNothingLost DEF LossInv, UIndInv
<1>. QED BY <1>1, InitLoss, AlwaysTyped, AlwaysUIndInv, PTL DEF USpec

\* An accepted message is pending, has reached the server, or was taken by a power
\* failure: no order of pushes, time-outs, retries and saves drops it.
THEOREM UploadNothingLost == USpec => []NothingLost
BY AlwaysLoss, PTL DEF LossInv

----------------------------------------------------------------------------
(* The pending items of a ring *)

ItemsOf(r) == {PendingOf(r)[k] : k \in 1 .. r.count}

LEMMA ContentsAre == \A r : ContentsOf(r) = {ContentOf(it) : it \in ItemsOf(r)}
BY DEF ContentsOf, ItemsOf

LEMMA NothingPending == ItemsOf(EmptyRing) = {} /\ ContentsOf(EmptyRing) = {}
<1>1. 1 .. EmptyRing.count = {}
  BY DEF EmptyRing
<1> QED
  BY <1>1 DEF ItemsOf, ContentsOf

\* The head is the first of the pending items.
LEMMA HeadIsFirst ==
  ASSUME NEW r \in Rings, r.count > 0
  PROVE  1 \in 1 .. r.count /\ PendingOf(r)[1] = RingHead(r)
<1>1. r.count \in Nat /\ r.head \in Slots /\ r.head \in Nat
  BY SizeAssumption DEF Rings, Slots
<1>2. Slot(r, 0) = r.head
  BY <1>1, FoldOnce, SizeAssumption DEF Slot, Slots
<1>3. 1 \in 1 .. r.count /\ 1 - 1 = 0
  BY <1>1
<1>4. PendingOf(r)[1] = r.items[Slot(r, 1 - 1)]
  BY <1>3 DEF PendingOf
<1> QED
  BY <1>2, <1>3, <1>4 DEF RingHead

\* A push puts its item behind the others.
LEMMA PushedBehind ==
  ASSUME NEW r \in Rings, NEW c \in Contents, r.count < SMS_QUEUE_MAX
  PROVE  /\ Enqueue(r, c).count = r.count + 1
         /\ \A k \in 1 .. r.count : PendingOf(Enqueue(r, c))[k] = PendingOf(r)[k]
         /\ PendingOf(Enqueue(r, c))[r.count + 1]
              = [type |-> c.type, seq |-> (r.seq + 1) % SEQ_MOD, data |-> c.data]
<1> DEFINE e == Enqueue(r, c)
<1>1. /\ e.count = r.count + 1
      /\ e.items[Slot(e, r.count)]
           = [type |-> c.type, seq |-> (r.seq + 1) % SEQ_MOD, data |-> c.data]
      /\ \A i \in 0 .. r.count - 1 : e.items[Slot(e, i)] = r.items[Slot(r, i)]
  BY EnqueueFacts
<1>2. r.count \in Nat
  BY SizeAssumption DEF Rings
<1> HIDE DEF e
<1>3. /\ \A k \in 1 .. r.count : PendingOf(r)[k] = r.items[Slot(r, k - 1)]
      /\ \A k \in 1 .. e.count : PendingOf(e)[k] = e.items[Slot(e, k - 1)]
  BY DEF PendingOf
<1>4. ASSUME NEW k \in 1 .. r.count PROVE PendingOf(e)[k] = PendingOf(r)[k]
  <2>1. k - 1 \in 0 .. r.count - 1 /\ k \in 1 .. e.count
    BY <1>1, <1>2
  <2> QED
    BY <1>1, <1>3, <2>1
<1>5. r.count + 1 \in 1 .. e.count /\ (r.count + 1) - 1 = r.count
  BY <1>1, <1>2
<1>6. PendingOf(e)[r.count + 1] = e.items[Slot(e, r.count)]
  BY <1>3, <1>5
<1> QED
  BY <1>1, <1>4, <1>6 DEF e

\* A pop moves the others up.
LEMMA PoppedAhead ==
  ASSUME NEW r \in Rings, r.count > 0
  PROVE  /\ Dequeue(r).count = r.count - 1
         /\ \A k \in 1 .. Dequeue(r).count :
              k + 1 \in 1 .. r.count /\ PendingOf(Dequeue(r))[k] = PendingOf(r)[k + 1]
<1> DEFINE d == Dequeue(r)
<1>1. /\ d.count = r.count - 1
      /\ \A i \in 0 .. r.count - 2 : d.items[Slot(d, i)] = r.items[Slot(r, i + 1)]
  BY DequeueFacts
<1>2. r.count \in Nat
  BY SizeAssumption DEF Rings
<1> HIDE DEF d
<1>3. /\ \A k \in 1 .. r.count : PendingOf(r)[k] = r.items[Slot(r, k - 1)]
      /\ \A k \in 1 .. d.count : PendingOf(d)[k] = d.items[Slot(d, k - 1)]
  BY DEF PendingOf
<1>4. ASSUME NEW k \in 1 .. d.count
      PROVE  k + 1 \in 1 .. r.count /\ PendingOf(d)[k] = PendingOf(r)[k + 1]
  <2>1. /\ k - 1 \in 0 .. r.count - 2 /\ k + 1 \in 1 .. r.count
        /\ (k - 1) + 1 = k /\ (k + 1) - 1 = k
    BY <1>1, <1>2
  <2> QED
    BY <1>1, <1>3, <2>1
<1> QED
  BY <1>1, <1>4 DEF d

LEMMA PoppedItems ==
  ASSUME NEW r \in Rings, r.count > 0
  PROVE  ItemsOf(Dequeue(r)) \subseteq ItemsOf(r)
BY PoppedAhead DEF ItemsOf

LEMMA PushedItems ==
  ASSUME NEW r \in Rings, NEW c \in Contents, r.count < SMS_QUEUE_MAX
  PROVE  ItemsOf(Enqueue(r, c)) = ItemsOf(r)
           \cup {[type |-> c.type, seq |-> (r.seq + 1) % SEQ_MOD, data |-> c.data]}
<1> DEFINE e == Enqueue(r, c)
           n == [type |-> c.type, seq |-> (r.seq + 1) % SEQ_MOD, data |-> c.data]
<1>1. /\ e.count = r.count + 1
      /\ \A k \in 1 .. r.count : PendingOf(e)[k] = PendingOf(r)[k]
      /\ PendingOf(e)[r.count + 1] = n
  BY PushedBehind
<1>2. r.count \in Nat
  BY SizeAssumption DEF Rings
<1> HIDE DEF e, n
<1>3. 1 .. e.count = (1 .. r.count) \cup {r.count + 1}
  BY <1>1, <1>2
<1>4. ItemsOf(e) = ItemsOf(r) \cup {n}
  BY <1>1, <1>3 DEF ItemsOf
<1> QED
  BY <1>4 DEF e, n

----------------------------------------------------------------------------
(* The shape of a step *)

\* What the server has been sent or may yet be handed.
OnTheWay == IF wire = "none" THEN {} ELSE {item}
OnRecord == late \cup received \cup OnTheWay

\* What has no claim to come before a later message any more.
Done == ReceivedSet \cup excused

\* A step that neither changes the ring nor fails the power: the file may be spoilt or
\* become the ring's copy, and the head may be put on its way.
QuietStep ==
  /\ UNCHANGED <<up, s_q, accepted, excused, rolledBack>>
  /\ fresh' \subseteq fresh
  /\ received \subseteq received'
  /\ \/ QueueLoad(file') = QueueLoad(file)
     \/ up /\ QueueLoad(file') \in {EmptyRing, s_q}
  /\ OnRecord' \subseteq OnRecord \cup (IF upPc = "post" THEN {item} ELSE {})

LEMMA StepShape ==
  ASSUME UIndInv, Reported, [UNext]_uvars
  PROVE  \/ \E c \in Arrivals : ArrivalQueued(c)
         \/ PopsReported
         \/ BootDevice
         \/ PowerFails
         \/ QuietStep
<1>1. RingInBounds /\ Lifecycle
  BY DEF UIndInv
<1>2. ASSUME UNCHANGED <<up, s_q, file, item, wire, late, fresh, history>>
      PROVE  QuietStep
  BY <1>2 DEF history, QuietStep, OnRecord, OnTheWay
<1>3. CASE QueueProgress
  <2>1. up' = up /\ s_q' = s_q
    BY <1>3 DEF QueueProgress, QueueStep, SaveOpen, SaveOpenFails, SaveWrite,
                SaveWriteShort, SaveClose, PushSignals
  <2>2. \/ file' = file
        \/ save # "idle" /\ file' = Torn
        \/ save # "idle" /\ file' = Snapshot(s_q)
    BY <1>3 DEF QueueProgress, QueueStep, SaveOpen, SaveOpenFails, SaveWrite,
                SaveWriteShort, SaveClose, PushSignals
  <2>3. \/ QueueLoad(file') = QueueLoad(file)
        \/ up /\ QueueLoad(file') \in {EmptyRing, s_q}
    BY <1>1, <2>2, LoadTorn, LoadSnapshot DEF RingInBounds, Lifecycle
  <2>4. UNCHANGED <<item, wire, late, fresh, history>>
    BY <1>3 DEF QueueProgress, netvars
  <2> QED
    BY <2>1, <2>3, <2>4 DEF history, QuietStep, OnRecord, OnTheWay
<1>4. CASE \/ ClientLocked \/ ClientCreated \/ ClientCreateFails \/ ClientConfigured \/ ClientConfigFails
           \/ PostNotSent \/ WakesUp
  BY <1>2, <1>4 DEF ClientLocked, ClientCreated, ClientCreateFails, ClientConfigured, ClientConfigFails,
                    PostNotSent, WakesUp, WaitReturns, qvars, netvars
<1>5. CASE PeekFinds \/ PeekFindsNothing
  <2>1. wire = "none"
    BY <1>5 DEF PeekFinds, PeekFindsNothing, Reported
  <2>2. UNCHANGED <<up, s_q, file, wire, late, fresh, history>>
    BY <1>5 DEF PeekFinds, PeekFindsNothing, qvars, netvars
  <2> QED
    BY <2>1, <2>2 DEF history, QuietStep, OnRecord, OnTheWay
<1>6. CASE RequestSent
  <2>1. /\ UNCHANGED <<up, s_q, file, item, late, fresh, history>>
        /\ upPc = "post" /\ wire' = "sent"
    BY <1>6 DEF RequestSent
  <2> QED
    BY <2>1 DEF history, QuietStep, OnRecord, OnTheWay
<1>7. CASE ReplyArrives \/ RequestFails
  <2>1. /\ UNCHANGED <<up, s_q, file, item, fresh, history>>
        /\ wire' = "none" /\ late' \subseteq late \cup OnTheWay
    BY <1>7 DEF ReplyArrives, RequestFails, GivenUp, OnTheWay
  <2> QED
    BY <2>1 DEF history, QuietStep, OnRecord, OnTheWay
<1>8. CASE ServerTakes
  <2>1. /\ UNCHANGED <<up, s_q, file, item, late, fresh, accepted, excused, rolledBack>>
        /\ wire = "sent" /\ wire' = "served" /\ received' = received \cup {item}
    BY <1>8 DEF ServerTakes, qvars, taskvars
  <2> QED
    BY <2>1 DEF QuietStep, OnRecord, OnTheWay
<1>9. CASE LateArrives
  <2>1. PICK it \in late : received' = received \cup {it} /\ late' = late \ {it}
    BY <1>9 DEF LateArrives
  <2>2. UNCHANGED <<up, s_q, file, item, wire, fresh, accepted, excused, rolledBack>>
    BY <1>9 DEF LateArrives, qvars, taskvars
  <2> QED
    BY <2>1, <2>2 DEF QuietStep, OnRecord, OnTheWay
<1>10. ASSUME NEW c \in Arrivals, ArrivalDropped(c) PROVE QuietStep
  <2>1. UNCHANGED <<up, s_q, file, item, wire, late, history>> /\ fresh' \subseteq fresh
    BY <1>10 DEF ArrivalDropped, qvars, taskvars, netvars
  <2> QED
    BY <2>1 DEF history, QuietStep, OnRecord, OnTheWay
<1>11. CASE \/ UNCHANGED uvars \/ NetUp \/ NetDown \/ NetNotReady \/ NetIsReady \/ DelayEnds
  BY <1>2, <1>11 DEF uvars, qvars, taskvars, netvars, NetUp, NetDown, NetNotReady,
                     NetIsReady, DelayEnds
<1> QED
  BY <1>3, <1>4, <1>5, <1>6, <1>7, <1>8, <1>9, <1>10, <1>11 DEF UNext, Uploader

----------------------------------------------------------------------------
(* First arrivals in order *)

\* The contents of a ring were accepted, and stand in it in the order in which they
\* were accepted.
InOrder(r, acc) ==
  /\ ContentsOf(r) \subseteq {acc[i] : i \in DOMAIN acc}
  /\ \A k, l \in 1 .. r.count : k < l =>
       \A i, j \in DOMAIN acc :
         acc[i] = ContentOf(PendingOf(r)[k]) /\ acc[j] = ContentOf(PendingOf(r)[l]) => i < j

\* A content was accepted, and all that was accepted before it is done.
Due(c, acc, done) ==
  /\ \E j \in DOMAIN acc : acc[j] = c
  /\ \A j \in DOMAIN acc : acc[j] = c => \A i \in 1 .. j - 1 : acc[i] \in done

AcceptedOnce ==
  /\ \A i, j \in DOMAIN accepted : accepted[i] = accepted[j] => i = j
  /\ AcceptedSet \cap fresh = {}

NoneOvertakes == \A it \in OnRecord : Due(ContentOf(it), accepted, Done)

OrderInv ==
  /\ AcceptedOnce
  /\ InOrder(s_q, accepted)
  /\ InOrder(QueueLoad(file), accepted)
  /\ NoneOvertakes

LEMMA EmptyInOrder == \A acc : InOrder(EmptyRing, acc)
<1>1. \A k : k \notin 1 .. EmptyRing.count
  BY DEF EmptyRing
<1> QED
  BY <1>1, NothingPending DEF InOrder

\* A history that grows by something new.
LEMMA Appended ==
  ASSUME NEW S, NEW acc \in Seq(S), NEW c \in S
  PROVE  /\ DOMAIN Append(acc, c) = DOMAIN acc \cup {Len(acc) + 1}
         /\ DOMAIN acc = 1 .. Len(acc) /\ Len(acc) \in Nat
         /\ Len(Append(acc, c)) = Len(acc) + 1
         /\ Append(acc, c)[Len(acc) + 1] = c
         /\ \A i \in DOMAIN acc : Append(acc, c)[i] = acc[i]
<1> DEFINE t == Append(acc, c)
<1>1. /\ Len(acc) \in Nat /\ DOMAIN acc = 1 .. Len(acc) /\ DOMAIN t = 1 .. Len(acc) + 1
      /\ t[Len(acc) + 1] = c /\ Len(t) = Len(acc) + 1
      /\ \A i \in 1 .. Len(acc) : t[i] = acc[i]
  OBVIOUS
<1> HIDE DEF t
<1>2. DOMAIN t = DOMAIN acc \cup {Len(acc) + 1}
  BY <1>1
<1> QED
  BY <1>1, <1>2 DEF t

\* What was in order stays so when something new is accepted.
LEMMA StillInOrder ==
  ASSUME NEW S, NEW acc \in Seq(S), NEW c \in S, NEW r, InOrder(r, acc),
         c \notin {acc[i] : i \in DOMAIN acc}
  PROVE  InOrder(r, Append(acc, c))
<1> DEFINE t == Append(acc, c)
<1>1. /\ DOMAIN t = DOMAIN acc \cup {Len(acc) + 1}
      /\ t[Len(acc) + 1] = c
      /\ \A i \in DOMAIN acc : t[i] = acc[i]
  BY Appended
<1> HIDE DEF t
<1>2. ContentsOf(r) \subseteq {t[i] : i \in DOMAIN t}
  BY <1>1 DEF InOrder
<1>3. ASSUME NEW k \in 1 .. r.count, NEW i \in DOMAIN t, t[i] = ContentOf(PendingOf(r)[k])
      PROVE  i \in DOMAIN acc /\ acc[i] = ContentOf(PendingOf(r)[k])
  <2>1. ContentOf(PendingOf(r)[k]) \in {acc[j] : j \in DOMAIN acc}
    BY DEF InOrder, ContentsOf
  <2>2. t[i] # c
    BY <1>3, <2>1
  <2> QED
    BY <1>1, <1>3, <2>2
<1>4. ASSUME NEW k \in 1 .. r.count, NEW l \in 1 .. r.count, k < l,
             NEW i \in DOMAIN t, NEW j \in DOMAIN t,
             t[i] = ContentOf(PendingOf(r)[k]), t[j] = ContentOf(PendingOf(r)[l])
      PROVE  i < j
  <2>1. i \in DOMAIN acc /\ acc[i] = ContentOf(PendingOf(r)[k])
    BY <1>3, <1>4
  <2>2. j \in DOMAIN acc /\ acc[j] = ContentOf(PendingOf(r)[l])
    BY <1>3, <1>4
  <2> QED
    BY <1>4, <2>1, <2>2 DEF InOrder
<1>5. InOrder(r, t)
  BY <1>2, <1>4 DEF InOrder
<1> QED
  BY <1>5 DEF t

\* A push keeps the order: what it accepts is new, and goes behind the rest.
LEMMA PushInOrder ==
  ASSUME NEW S, NEW acc \in Seq(S), NEW c \in Contents, c \in S,
         NEW r \in Rings, r.count < SMS_QUEUE_MAX, InOrder(r, acc),
         c \notin {acc[i] : i \in DOMAIN acc}
  PROVE  InOrder(Enqueue(r, c), Append(acc, c))
<1> DEFINE e == Enqueue(r, c)
           t == Append(acc, c)
<1>1. /\ DOMAIN t = DOMAIN acc \cup {Len(acc) + 1}
      /\ DOMAIN acc = 1 .. Len(acc) /\ Len(acc) \in Nat
      /\ t[Len(acc) + 1] = c
      /\ \A i \in DOMAIN acc : t[i] = acc[i]
  BY Appended
<1>2. /\ e.count = r.count + 1
      /\ \A k \in 1 .. r.count : PendingOf(e)[k] = PendingOf(r)[k]
      /\ PendingOf(e)[r.count + 1]
           = [type |-> c.type, seq |-> (r.seq + 1) % SEQ_MOD, data |-> c.data]
  BY PushedBehind
<1>3. r.count \in Nat
  BY SizeAssumption DEF Rings
<1>4. ContentOf(PendingOf(e)[r.count + 1]) = c
  BY <1>2 DEF ContentOf, Contents
<1>5. InOrder(r, t)
  BY StillInOrder
<1> HIDE DEF e, t
<1>6. ASSUME NEW k \in 1 .. e.count
      PROVE  \/ k \in 1 .. r.count /\ ContentOf(PendingOf(e)[k]) = ContentOf(PendingOf(r)[k])
             \/ k = r.count + 1 /\ ContentOf(PendingOf(e)[k]) = c
  BY <1>2, <1>3, <1>4
<1>7. ContentsOf(e) \subseteq {t[i] : i \in DOMAIN t}
  <2>1. ASSUME NEW k \in 1 .. e.count
        PROVE  ContentOf(PendingOf(e)[k]) \in {t[i] : i \in DOMAIN t}
    BY <1>1, <1>5, <1>6 DEF InOrder, ContentsOf
  <2> QED
    BY <2>1 DEF ContentsOf
<1>8. ASSUME NEW k \in 1 .. e.count, NEW l \in 1 .. e.count, k < l,
             NEW i \in DOMAIN t, NEW j \in DOMAIN t,
             t[i] = ContentOf(PendingOf(e)[k]), t[j] = ContentOf(PendingOf(e)[l])
      PROVE  i < j
  <2>1. k \in 1 .. r.count /\ t[i] = ContentOf(PendingOf(r)[k])
    BY <1>2, <1>3, <1>6, <1>8
  <2>2. CASE l \in 1 .. r.count
    <3>1. t[j] = ContentOf(PendingOf(r)[l])
      BY <1>2, <1>8, <2>2
    <3> QED
      BY <1>5, <1>8, <2>1, <2>2, <3>1 DEF InOrder
  <2>3. CASE l = r.count + 1
    <3>1. t[j] = c
      BY <1>4, <1>8, <2>3
    <3>2. j = Len(acc) + 1
      BY <1>1, <3>1
    <3>3. ContentOf(PendingOf(r)[k]) \in {acc[x] : x \in DOMAIN acc}
      BY <2>1 DEF InOrder, ContentsOf
    <3>4. i \in DOMAIN acc
      BY <1>1, <2>1, <3>3
    <3> QED
      BY <1>1, <3>2, <3>4
  <2> QED
    BY <1>6, <2>2, <2>3
<1>9. InOrder(e, t)
  BY <1>7, <1>8 DEF InOrder
<1> QED
  BY <1>9 DEF e, t

LEMMA PopInOrder ==
  ASSUME NEW r \in Rings, r.count > 0, NEW acc, InOrder(r, acc)
  PROVE  InOrder(Dequeue(r), acc)
<1> DEFINE d == Dequeue(r)
<1>1. \A k \in 1 .. d.count :
        k + 1 \in 1 .. r.count /\ PendingOf(d)[k] = PendingOf(r)[k + 1]
  BY PoppedAhead
<1> HIDE DEF d
<1>2. ContentsOf(d) \subseteq {acc[i] : i \in DOMAIN acc}
  BY <1>1 DEF InOrder, ContentsOf
<1>3. ASSUME NEW k \in 1 .. d.count, NEW l \in 1 .. d.count, k < l,
             NEW i \in DOMAIN acc, NEW j \in DOMAIN acc,
             acc[i] = ContentOf(PendingOf(d)[k]), acc[j] = ContentOf(PendingOf(d)[l])
      PROVE  i < j
  <2>1. /\ k + 1 \in 1 .. r.count /\ PendingOf(d)[k] = PendingOf(r)[k + 1]
        /\ l + 1 \in 1 .. r.count /\ PendingOf(d)[l] = PendingOf(r)[l + 1]
    BY <1>1
  <2>2. k + 1 < l + 1
    BY <1>3
  <2> QED
    BY <1>3, <2>1, <2>2 DEF InOrder
<1>4. InOrder(d, acc)
  BY <1>2, <1>3 DEF InOrder
<1> QED
  BY <1>4 DEF d

\* More is done, nothing is accepted.
LEMMA StillDue ==
  ASSUME NEW c, NEW acc, NEW done, NEW more, Due(c, acc, done), done \subseteq more
  PROVE  Due(c, acc, more)
BY DEF Due

\* A message that is accepted later takes nothing from those before it.
LEMMA DueWithMore ==
  ASSUME NEW S, NEW acc \in Seq(S), NEW c \in S, NEW x, NEW done, Due(x, acc, done),
         c \notin {acc[i] : i \in DOMAIN acc}
  PROVE  Due(x, Append(acc, c), done)
<1> DEFINE t == Append(acc, c)
<1>1. /\ DOMAIN t = DOMAIN acc \cup {Len(acc) + 1}
      /\ DOMAIN acc = 1 .. Len(acc) /\ Len(acc) \in Nat
      /\ t[Len(acc) + 1] = c
      /\ \A i \in DOMAIN acc : t[i] = acc[i]
  BY Appended
<1> HIDE DEF t
<1>2. \E j \in DOMAIN t : t[j] = x
  BY <1>1 DEF Due
<1>3. ASSUME NEW j \in DOMAIN t, t[j] = x, NEW i \in 1 .. j - 1
      PROVE  t[i] \in done
  <2>1. x # c
    BY DEF Due
  <2>2. j \in DOMAIN acc /\ acc[j] = x
    BY <1>1, <1>3, <2>1
  <2>3. i \in DOMAIN acc /\ acc[i] \in done
    BY <1>1, <2>2 DEF Due
  <2> QED
    BY <1>1, <2>3
<1>4. Due(x, t, done)
  BY <1>2, <1>3 DEF Due
<1> QED
  BY <1>4 DEF t

\* The head of the queue is due: what was accepted before it is not pending any more,
\* and nothing is lost.
LEMMA HeadIsDue ==
  ASSUME UTypeOK, NothingLost, AcceptedOnce, InOrder(s_q, accepted), up, s_q.count > 0
  PROVE  Due(ContentOf(RingHead(s_q)), accepted, Done)
<1>1. s_q \in Rings /\ accepted \in Seq({ContentOf(it) : it \in Items})
  BY DEF UTypeOK, TypeOK
<1>2. 1 \in 1 .. s_q.count /\ PendingOf(s_q)[1] = RingHead(s_q)
  BY <1>1, HeadIsFirst
<1>3. DOMAIN accepted = 1 .. Len(accepted) /\ Len(accepted) \in Nat
  BY <1>1
<1>4. \E j \in DOMAIN accepted : accepted[j] = ContentOf(RingHead(s_q))
  BY <1>2 DEF InOrder, ContentsOf
<1>5. ASSUME NEW j \in DOMAIN accepted, accepted[j] = ContentOf(RingHead(s_q)),
             NEW i \in 1 .. j - 1
      PROVE  accepted[i] \in Done
  <2>1. i \in DOMAIN accepted /\ i < j
    BY <1>3
  <2>2. accepted[i] \in ContentsOf(s_q) \cup Done
    BY <2>1 DEF NothingLost, Held, AcceptedSet, Done
  <2>3. ASSUME accepted[i] \in ContentsOf(s_q) PROVE FALSE
    <3>1. PICK k \in 1 .. s_q.count : accepted[i] = ContentOf(PendingOf(s_q)[k])
      BY <2>3 DEF ContentsOf
    <3>2. CASE k = 1
      BY <1>2, <1>5, <2>1, <3>1, <3>2, <1>3 DEF AcceptedOnce
    <3>3. CASE 1 < k
      <4>1. j < i
        BY <1>2, <1>5, <2>1, <3>1, <3>3 DEF InOrder
      <4> QED
        BY <1>3, <2>1, <4>1
    <3>4. k = 1 \/ 1 < k
      OBVIOUS
    <3> QED
      BY <3>2, <3>3, <3>4
  <2> QED
    BY <2>2, <2>3
<1> QED
  BY <1>4, <1>5 DEF Due

LEMMA InitOrder == MessagesDistinct /\ UInit => OrderInv
<1> SUFFICES ASSUME MessagesDistinct, UInit PROVE OrderInv
  OBVIOUS
<1> DEFINE r == QueueLoad(file)
<1>1. /\ \A k, l \in 1 .. r.count :
           ContentOf(PendingOf(r)[k]) = ContentOf(PendingOf(r)[l]) => k = l
      /\ ContentsOf(r) \cap Arrivals = {}
  BY DEF MessagesDistinct, UInit, Init
<1>2. accepted = [i \in 1 .. r.count |-> ContentOf(PendingOf(r)[i])]
  BY DEF UInit
<1>3. s_q = EmptyRing /\ fresh = Arrivals /\ late = {} /\ received = {} /\ wire = "none"
  BY DEF UInit, Init
<1> HIDE DEF r
<1>4. DOMAIN accepted = 1 .. r.count
      /\ \A i \in 1 .. r.count : accepted[i] = ContentOf(PendingOf(r)[i])
  BY <1>2
<1>5. AcceptedSet = ContentsOf(r)
  BY <1>4 DEF AcceptedSet, ContentsOf
<1>6. AcceptedOnce
  BY <1>1, <1>3, <1>4, <1>5 DEF AcceptedOnce
<1>7. InOrder(r, accepted)
  <2>1. ASSUME NEW k \in 1 .. r.count, NEW l \in 1 .. r.count, k < l,
               NEW i \in DOMAIN accepted, NEW j \in DOMAIN accepted,
               accepted[i] = ContentOf(PendingOf(r)[k]),
               accepted[j] = ContentOf(PendingOf(r)[l])
        PROVE  i < j
    <3>1. i = k /\ j = l
      BY <1>1, <1>4, <2>1
    <3> QED
      BY <2>1, <3>1
  <2> QED
    BY <1>5, <2>1 DEF InOrder, AcceptedSet
<1>8. NoneOvertakes
  BY <1>3 DEF NoneOvertakes, OnRecord, OnTheWay
<1> QED
  BY <1>3, <1>6, <1>7, <1>8, EmptyInOrder DEF OrderInv, r

LEMMA StepOrder ==
  UTypeOK /\ UIndInv /\ LossInv /\ OrderInv /\ [UNext]_uvars => OrderInv'
<1> SUFFICES ASSUME UTypeOK, UIndInv, LossInv, OrderInv, [UNext]_uvars PROVE OrderInv'
  OBVIOUS
<1>1. /\ s_q \in Rings /\ Lifecycle /\ PopsWhatWasPosted /\ Reported /\ NothingLost
      /\ accepted \in Seq({ContentOf(it) : it \in Items})
  BY DEF UTypeOK, UIndInv, RingInBounds, LossInv
<1>2. /\ AcceptedOnce /\ InOrder(s_q, accepted) /\ InOrder(QueueLoad(file), accepted)
      /\ \A it \in OnRecord : Due(ContentOf(it), accepted, Done)
  BY DEF OrderInv, NoneOvertakes
<1>3. ASSUME NEW c \in Arrivals, ArrivalQueued(c) PROVE OrderInv'
  <2>1. /\ c \in Contents /\ c \in fresh /\ s_q.count < SMS_QUEUE_MAX
        /\ s_q' = Enqueue(s_q, c) /\ file' = file /\ fresh' = fresh \ {c}
        /\ accepted' = Append(accepted, c)
        /\ UNCHANGED <<item, wire, late, received, excused>>
    BY <1>3, UploadAssumption DEF ArrivalQueued, Push, taskvars, netvars
  <2>2. c \in {ContentOf(it) : it \in Items}
    BY <2>1, ContentsAreOfItems
  <2>3. c \notin {accepted[i] : i \in DOMAIN accepted}
    BY <1>2, <2>1 DEF AcceptedOnce, AcceptedSet
  <2>4. /\ DOMAIN accepted' = DOMAIN accepted \cup {Len(accepted) + 1}
        /\ accepted'[Len(accepted) + 1] = c
        /\ \A i \in DOMAIN accepted : accepted'[i] = accepted[i]
    BY <1>1, <2>1, <2>2, Appended
  <2>5. AcceptedOnce'
    <3>1. AcceptedSet' \cap fresh' = {}
      BY <1>2, <2>1, <2>4 DEF AcceptedOnce, AcceptedSet
    <3>2. \A i, j \in DOMAIN accepted' : accepted'[i] = accepted'[j] => i = j
      BY <1>2, <2>3, <2>4 DEF AcceptedOnce
    <3> QED
      BY <3>1, <3>2 DEF AcceptedOnce
  <2>6. InOrder(s_q, accepted)' /\ InOrder(QueueLoad(file), accepted)'
    BY <1>1, <1>2, <2>1, <2>2, <2>3, PushInOrder, StillInOrder
  <2>7. OnRecord' = OnRecord /\ Done' = Done
    BY <2>1 DEF OnRecord, OnTheWay, Done, ReceivedSet
  <2>8. NoneOvertakes'
    BY <1>1, <1>2, <2>1, <2>2, <2>3, <2>7, DueWithMore DEF NoneOvertakes
  <2> QED
    BY <2>5, <2>6, <2>8 DEF OrderInv
<1>4. ASSUME UNCHANGED <<accepted, fresh>>, Done \subseteq Done', OnRecord' \subseteq OnRecord
      PROVE  AcceptedOnce' /\ NoneOvertakes'
  BY <1>2, <1>4, StillDue DEF AcceptedOnce, AcceptedSet, NoneOvertakes
<1>5. CASE PopsReported
  <2>1. /\ s_q.count > 0 /\ s_q' = Dequeue(s_q)
        /\ UNCHANGED <<file, fresh, accepted, item, wire, late, received, excused>>
    BY <1>5 DEF PopsReported, PopHead, netvars, history
  <2>2. OnRecord' = OnRecord /\ Done' = Done
    BY <2>1 DEF OnRecord, OnTheWay, Done, ReceivedSet
  <2> QED
    BY <1>1, <1>2, <1>4, <2>1, <2>2, PopInOrder DEF OrderInv
<1>6. CASE BootDevice
  <2>1. /\ ~up /\ s_q' = QueueLoad(file)
        /\ UNCHANGED <<file, fresh, accepted, wire, late, received, excused>>
    BY <1>6 DEF BootDevice, Boot, netvars, history
  <2>2. wire = "none"
    BY <1>1, <2>1 DEF Lifecycle, Reported
  <2>3. OnRecord' = OnRecord /\ Done' = Done
    BY <2>1, <2>2 DEF OnRecord, OnTheWay, Done, ReceivedSet
  <2> QED
    BY <1>2, <1>4, <2>1, <2>3 DEF OrderInv
<1>7. CASE PowerFails
  <2>1. /\ s_q' = EmptyRing /\ wire' = "none" /\ excused \subseteq excused'
        /\ late' \subseteq late \cup OnTheWay
        /\ UNCHANGED <<file, fresh, accepted, received>>
    BY <1>7 DEF PowerFails, Crash, GivenUp, OnTheWay
  <2>2. OnRecord' \subseteq OnRecord /\ Done \subseteq Done'
    BY <2>1 DEF OnRecord, OnTheWay, Done, ReceivedSet
  <2> QED
    BY <1>2, <1>4, <2>1, <2>2, EmptyInOrder DEF OrderInv
<1>8. CASE QuietStep
  <2>1. /\ UNCHANGED <<up, s_q, accepted, excused>>
        /\ fresh' \subseteq fresh /\ received \subseteq received'
        /\ OnRecord' \subseteq OnRecord \cup (IF upPc = "post" THEN {item} ELSE {})
    BY <1>8 DEF QuietStep
  <2>2. Done \subseteq Done'
    BY <2>1 DEF Done, ReceivedSet
  <2>3. AcceptedOnce'
    BY <1>2, <2>1 DEF AcceptedOnce, AcceptedSet
  <2>4. InOrder(s_q, accepted)' /\ InOrder(QueueLoad(file), accepted)'
    BY <1>2, <1>8, EmptyInOrder DEF QuietStep
  <2>5. upPc = "post" => Due(ContentOf(item), accepted, Done)
    <3>1. upPc = "post" => up /\ s_q.count > 0 /\ item = RingHead(s_q)
      BY <1>1 DEF Lifecycle, PopsWhatWasPosted
    <3> QED
      BY <1>1, <1>2, <3>1, HeadIsDue
  <2>6. NoneOvertakes'
    <3>1. ASSUME NEW it \in OnRecord' PROVE Due(ContentOf(it), accepted, Done')
      <4>1. Due(ContentOf(it), accepted, Done)
        BY <1>2, <2>1, <2>5
      <4> QED
        BY <2>2, <4>1, StillDue
    <3> QED
      BY <2>1, <3>1 DEF NoneOvertakes
  <2> QED
    BY <2>3, <2>4, <2>6 DEF OrderInv
<1> QED
  BY <1>1, <1>3, <1>5, <1>6, <1>7, <1>8, StepShape

\* Messages first reach the server in the order of their acceptance, through
\* time-outs, retries, late duplicates, failed saves and restarts, those a power
\* failure took from the queue excepted: such a one may arrive late or never.
THEOREM UploadFirstArrivalsInOrder ==
  ASSUME MessagesDistinct
  PROVE  USpec => []FirstArrivalsInOrder
<1>1. UInit => OrderInv
  BY InitOrder
<1>2. UTypeOK /\ UIndInv /\ LossInv /\ OrderInv /\ [UNext]_uvars => OrderInv'
  BY StepOrder
<1>3. OrderInv => FirstArrivalsInOrder
  <2> SUFFICES ASSUME OrderInv, NEW j \in DOMAIN accepted, accepted[j] \in ReceivedSet,
                      NEW i \in 1 .. j - 1
               PROVE  accepted[i] \in ReceivedSet \cup excused
    BY DEF FirstArrivalsInOrder
  <2>1. PICK it \in received : accepted[j] = ContentOf(it)
    BY DEF ReceivedSet
  <2> QED
    BY <2>1 DEF OrderInv, NoneOvertakes, OnRecord, Due, Done
<1> QED
  BY <1>1, <1>2, <1>3, AlwaysTyped, AlwaysUIndInv, AlwaysLoss, PTL DEF USpec

----------------------------------------------------------------------------
(* Numbers that tell reports apart *)

\* An item has the number that its place in the history of acceptance gives it, when
\* the last number given is n.
NumberedIn(it, acc, n) ==
  \E i \in DOMAIN acc :
    acc[i] = ContentOf(it) /\ (it.seq + (Len(acc) - i)) % SEQ_MOD = n

\* The last number given, or the one from which the next start goes on.
Counter == IF up THEN s_q.seq ELSE QueueLoad(file).seq

\* Until the counter is set back, every item there is has its number.
NumberInv ==
  rolledBack \/ \A it \in ItemsOf(s_q) \cup ItemsOf(QueueLoad(file)) \cup OnRecord :
                  NumberedIn(it, accepted, Counter)

\* No more can be accepted than was pending at first or arrives.
AcceptedBounded ==
  Len(accepted) + Cardinality(fresh) <= SMS_QUEUE_MAX + Cardinality(Arrivals)

\* The items of a ring that is numbered without a gap.
LEMMA ConsecutiveNumbers ==
  ASSUME NEW r \in Rings, Consecutive(r), NEW k \in 1 .. r.count
  PROVE  (PendingOf(r)[k].seq + (r.count - k)) % SEQ_MOD = r.seq
<1> DEFINE Behind(d) == PendingOf(r)[r.count - d]
           Wrong == {d \in 0 .. r.count - 1 : (Behind(d).seq + d) % SEQ_MOD # r.seq}
<1>1. r.count \in Nat /\ r.seq \in 0 .. SEQ_MOD - 1 /\ SEQ_MOD \in Nat \ {0}
  BY SizeAssumption DEF Rings, SeqNums
<1>2. ASSUME NEW d \in 0 .. r.count - 1
      PROVE  /\ Behind(d) = r.items[Slot(r, r.count - d - 1)]
             /\ Behind(d).seq \in 0 .. SEQ_MOD - 1
  <2>1. r.count - d \in 1 .. r.count
    BY <1>1
  <2>2. Behind(d) \in Items
    BY <2>1, PendingAreItems
  <2> QED
    BY <2>1, <2>2 DEF PendingOf, Items, SeqNums
<1>3. ASSUME NEW d \in Wrong, \A e \in Wrong : d <= e PROVE FALSE
  <2>1. d \in 0 .. r.count - 1 /\ (Behind(d).seq + d) % SEQ_MOD # r.seq
    OBVIOUS
  <2>2. CASE d = 0
    <3>1. Behind(0) = r.items[Slot(r, r.count - 1)] /\ Behind(0).seq \in 0 .. SEQ_MOD - 1
      <4>1. 0 \in 0 .. r.count - 1 /\ r.count - 0 - 1 = r.count - 1
        BY <1>1, <2>1
      <4> HIDE DEF Behind
      <4> QED
        BY <1>2, <4>1
    <3>2. Behind(0).seq = r.seq
      BY <1>1, <2>1, <3>1 DEF Consecutive
    <3> HIDE DEF Behind
    <3> QED
      BY <1>1, <2>1, <2>2, <3>1, <3>2
  <2>3. CASE d > 0
    <3>1. d - 1 \in 0 .. r.count - 1 /\ d - 1 \notin Wrong
      BY <1>1, <1>3, <2>1, <2>3
    <3>2. (Behind(d - 1).seq + (d - 1)) % SEQ_MOD = r.seq
      BY <3>1
    <3>3. Behind(d - 1).seq = (Behind(d).seq + 1) % SEQ_MOD
      <4> DEFINE i == r.count - d - 1
      <4>1. i \in 0 .. r.count - 2 /\ i + 1 = r.count - (d - 1) - 1
        BY <1>1, <2>1, <2>3
      <4>2. r.items[Slot(r, i + 1)].seq = (r.items[Slot(r, i)].seq + 1) % SEQ_MOD
        BY <4>1 DEF Consecutive
      <4>3. Behind(d) = r.items[Slot(r, i)]
        BY <1>2, <2>1
      <4>4. Behind(d - 1) = r.items[Slot(r, i + 1)]
        <5> HIDE DEF Behind, i
        <5> QED
          BY <1>2, <3>1, <4>1
      <4> QED
        BY <4>2, <4>3, <4>4
    <3>4. Behind(d).seq \in Int /\ d \in Int
      BY <1>2, <2>1
    <3> HIDE DEF Behind
    <3> DEFINE s == Behind(d).seq
    <3>5. (((s + 1) % SEQ_MOD) + (d - 1)) % SEQ_MOD = ((s + 1) + (d - 1)) % SEQ_MOD
      <4>1. s + 1 \in Int /\ d - 1 \in Int
        BY <3>4
      <4> HIDE DEF s
      <4> QED
        BY <1>1, <4>1, ModAdd
    <3>6. (s + 1) + (d - 1) = s + d
      BY <3>4
    <3> QED
      BY <2>1, <3>2, <3>3, <3>5, <3>6
  <2> QED
    BY <1>1, <2>1, <2>2, <2>3
<1>4. Wrong = {}
  <2>1. Wrong \in SUBSET Nat
    BY <1>1
  <2> HIDE DEF Wrong
  <2> QED
    BY <1>3, <2>1, HasLeast
<1>5. r.count - k \in 0 .. r.count - 1 /\ r.count - (r.count - k) = k
  BY <1>1
<1>6. (Behind(r.count - k).seq + (r.count - k)) % SEQ_MOD = r.seq
  BY <1>4, <1>5
<1> QED
  BY <1>5, <1>6

\* One more is accepted and the counter goes on by one.
LEMMA NumberKept ==
  ASSUME NEW S, NEW acc \in Seq(S), NEW c \in S, NEW it \in Items, NEW n \in SeqNums,
         NumberedIn(it, acc, n)
  PROVE  NumberedIn(it, Append(acc, c), (n + 1) % SEQ_MOD)
<1> DEFINE t == Append(acc, c)
<1>1. /\ DOMAIN t = DOMAIN acc \cup {Len(acc) + 1}
      /\ DOMAIN acc = 1 .. Len(acc) /\ Len(acc) \in Nat
      /\ Len(t) = Len(acc) + 1
      /\ \A i \in DOMAIN acc : t[i] = acc[i]
  BY Appended
<1> HIDE DEF t
<1>2. PICK i \in DOMAIN acc :
        acc[i] = ContentOf(it) /\ (it.seq + (Len(acc) - i)) % SEQ_MOD = n
  BY DEF NumberedIn
<1>3. SEQ_MOD \in Nat \ {0} /\ it.seq \in Int
  BY SizeAssumption DEF Items, SeqNums
<1> DEFINE x == it.seq + (Len(acc) - i)
<1>4. x \in Int /\ it.seq + (Len(t) - i) = x + 1
  BY <1>1, <1>3
<1>5. x % SEQ_MOD = n
  BY <1>2
<1> HIDE DEF x
<1>6. (x + 1) % SEQ_MOD = (n + 1) % SEQ_MOD
  <2>1. 1 \in Int /\ SEQ_MOD \in Nat \ {0} /\ x \in Int
    BY <1>3, <1>4
  <2>2. ((x % SEQ_MOD) + 1) % SEQ_MOD = (x + 1) % SEQ_MOD
    BY <2>1, ModAdd
  <2> QED
    BY <1>5, <2>2
<1>7. NumberedIn(it, t, (n + 1) % SEQ_MOD)
  BY <1>1, <1>2, <1>4, <1>6 DEF NumberedIn
<1> QED
  BY <1>7 DEF t

\* What is pushed gets the number of its place.
LEMMA NumberGiven ==
  ASSUME NEW S, NEW acc \in Seq(S), NEW c \in Contents, c \in S, NEW n \in SeqNums
  PROVE  NumberedIn([type |-> c.type, seq |-> n, data |-> c.data], Append(acc, c), n)
<1> DEFINE t == Append(acc, c)
           it == [type |-> c.type, seq |-> n, data |-> c.data]
<1>1. /\ DOMAIN t = DOMAIN acc \cup {Len(acc) + 1}
      /\ Len(acc) \in Nat
      /\ Len(t) = Len(acc) + 1
      /\ t[Len(acc) + 1] = c
  BY Appended
<1>2. ContentOf(it) = c /\ it.seq = n
  BY DEF ContentOf, Contents
<1>3. (n + 0) % SEQ_MOD = n
  BY SizeAssumption DEF SeqNums
<1> HIDE DEF t, it
<1>4. Len(t) - (Len(acc) + 1) = 0
  BY <1>1
<1>5. NumberedIn(it, t, n)
  BY <1>1, <1>2, <1>3, <1>4 DEF NumberedIn
<1> QED
  BY <1>5 DEF t, it

\* Two items with the same number have the same place, if there are not more places
\* than numbers.
LEMMA NumbersApart ==
  ASSUME NEW S, NEW acc \in Seq(S), Len(acc) <= SEQ_MOD, NEW n \in SeqNums,
         NEW a \in Items, NEW b \in Items, a.seq = b.seq,
         NumberedIn(a, acc, n), NumberedIn(b, acc, n)
  PROVE  a = b
<1>1. DOMAIN acc = 1 .. Len(acc) /\ Len(acc) \in Nat /\ SEQ_MOD \in Nat \ {0}
  BY SizeAssumption
<1>2. PICK i \in DOMAIN acc :
        acc[i] = ContentOf(a) /\ (a.seq + (Len(acc) - i)) % SEQ_MOD = n
  BY DEF NumberedIn
<1>3. PICK j \in DOMAIN acc :
        acc[j] = ContentOf(b) /\ (b.seq + (Len(acc) - j)) % SEQ_MOD = n
  BY DEF NumberedIn
<1>4. a.seq \in Int
  BY SizeAssumption DEF Items, SeqNums
<1> DEFINE s == a.seq
           m == Len(acc)
           x == s + (m - i)
           y == s + (m - j)
<1>5. x \in Int /\ y \in Int /\ x - y = j - i /\ x - y < SEQ_MOD /\ y - x < SEQ_MOD
  <2>1. /\ s \in Int /\ m \in Nat /\ m <= SEQ_MOD /\ SEQ_MOD \in Nat
        /\ i \in 1 .. m /\ j \in 1 .. m
    BY <1>1, <1>4
  <2> HIDE DEF s, m
  <2> QED
    BY <2>1
<1>6. x % SEQ_MOD = y % SEQ_MOD
  BY <1>2, <1>3
<1> HIDE DEF x, y
<1>7. x = y
  BY <1>1, <1>5, <1>6, ModInject
<1>8. i = j
  BY <1>1, <1>5, <1>7
<1>9. a.type = b.type /\ a.data = b.data
  BY <1>2, <1>3, <1>8 DEF ContentOf
<1> QED
  BY <1>9 DEF Items

LEMMA InitNumbers == UInit => NumberInv
<1> SUFFICES ASSUME UInit PROVE NumberInv
  OBVIOUS
<1> DEFINE r == QueueLoad(file)
<1>1. r \in Rings /\ Consecutive(r)
  BY BootAssumption, LoadYieldsRing DEF UInit, Init
<1>2. accepted = [i \in 1 .. r.count |-> ContentOf(PendingOf(r)[i])]
  BY DEF UInit
<1>3. /\ ItemsOf(s_q) = {} /\ OnRecord = {} /\ Counter = r.seq
  BY NothingPending DEF UInit, Init, OnRecord, OnTheWay, Counter
<1> HIDE DEF r
<1>4. r.count \in Nat
  BY <1>1, SizeAssumption DEF Rings
<1>5. /\ DOMAIN accepted = 1 .. r.count /\ Len(accepted) = r.count
      /\ \A i \in 1 .. r.count : accepted[i] = ContentOf(PendingOf(r)[i])
  BY <1>2, <1>4
<1>6. ASSUME NEW it \in ItemsOf(r) PROVE NumberedIn(it, accepted, r.seq)
  <2>1. PICK k \in 1 .. r.count : it = PendingOf(r)[k]
    BY DEF ItemsOf
  <2>2. (it.seq + (r.count - k)) % SEQ_MOD = r.seq
    BY <1>1, <2>1, ConsecutiveNumbers
  <2> QED
    BY <1>5, <2>1, <2>2 DEF NumberedIn
<1> QED
  BY <1>3, <1>6 DEF NumberInv, r

LEMMA StepNumbers ==
  UTypeOK /\ UIndInv /\ LossInv /\ NumberInv /\ [UNext]_uvars => NumberInv'
<1> SUFFICES ASSUME UTypeOK, UIndInv, LossInv, NumberInv, [UNext]_uvars PROVE NumberInv'
  OBVIOUS
<1> DEFINE Known == ItemsOf(s_q) \cup ItemsOf(QueueLoad(file)) \cup OnRecord
<1>1. /\ s_q \in Rings /\ QueueLoad(file) \in Rings
      /\ Lifecycle /\ PopsWhatWasPosted /\ Reported
      /\ accepted \in Seq({ContentOf(it) : it \in Items})
      /\ rolledBack \in BOOLEAN
  BY LoadYieldsRing DEF UTypeOK, UIndInv, RingInBounds, LossInv
<1>2. rolledBack => rolledBack'
  <2>1. ASSUME UNCHANGED rolledBack PROVE rolledBack => rolledBack'
    BY <2>1
  <2>2. \/ rolledBack' = rolledBack
        \/ rolledBack' = (rolledBack \/ QueueLoad(file).seq # s_q.seq)
    <3>1. ASSUME NEW c \in Arrivals, ArrivalQueued(c) PROVE rolledBack' = rolledBack
      BY <3>1 DEF ArrivalQueued
    <3> QED
      BY <1>1, <3>1, StepShape
         DEF PopsReported, BootDevice, PowerFails, QuietStep, history
  <2> QED
    BY <2>2
<1> SUFFICES ASSUME ~rolledBack, ~rolledBack' PROVE NumberInv'
  BY <1>2 DEF NumberInv
<1>3. \A it \in Known : NumberedIn(it, accepted, Counter)
  BY DEF NumberInv
<1>4. ASSUME accepted' = accepted, Counter' = Counter, Known' \subseteq Known
      PROVE  NumberInv'
  BY <1>3, <1>4 DEF NumberInv
<1>5. ASSUME NEW c \in Arrivals, ArrivalQueued(c) PROVE NumberInv'
  <2> DEFINE n == (s_q.seq + 1) % SEQ_MOD
             new == [type |-> c.type, seq |-> n, data |-> c.data]
  <2>1. /\ c \in Contents /\ s_q.count < SMS_QUEUE_MAX
        /\ s_q' = Enqueue(s_q, c) /\ up /\ up' /\ file' = file
        /\ accepted' = Append(accepted, c)
        /\ UNCHANGED <<item, wire, late, received>>
    BY <1>5, UploadAssumption DEF ArrivalQueued, Push, CanPush, taskvars, netvars
  <2>2. c \in {ContentOf(it) : it \in Items}
    BY <2>1, ContentsAreOfItems
  <2>3. s_q.seq \in SeqNums /\ n \in SeqNums
    BY <1>1, NextSeq DEF Rings
  <2>4. Counter = s_q.seq /\ Counter' = n
    BY <1>1, <2>1, EnqueueFacts DEF Counter
  <2>5. Known' = Known \cup {new}
    <3>1. ItemsOf(s_q)' = ItemsOf(s_q) \cup {new}
      BY <1>1, <2>1, PushedItems
    <3>2. ItemsOf(QueueLoad(file))' = ItemsOf(QueueLoad(file)) /\ OnRecord' = OnRecord
      BY <2>1 DEF OnRecord, OnTheWay
    <3> HIDE DEF new
    <3> QED
      BY <3>1, <3>2
  <2>6. Known \subseteq Items
    <3>1. ItemsOf(s_q) \subseteq Items /\ ItemsOf(QueueLoad(file)) \subseteq Items
      BY <1>1, PendingAreItems DEF ItemsOf
    <3>2. OnRecord \subseteq Items
      BY DEF OnRecord, OnTheWay, UTypeOK
    <3> QED
      BY <3>1, <3>2
  <2> HIDE DEF n, Known
  <2>7. ASSUME NEW it \in Known PROVE NumberedIn(it, accepted', n)
    <3>1. NumberedIn(it, accepted, s_q.seq)
      BY <1>3, <2>4
    <3> QED
      BY <1>1, <2>1, <2>2, <2>3, <2>6, <3>1, NumberKept DEF n
  <2>8. NumberedIn(new, accepted', n)
    BY <1>1, <2>1, <2>2, <2>3, NumberGiven
  <2>9. \A it \in Known' : NumberedIn(it, accepted', Counter')
    BY <2>4, <2>5, <2>7, <2>8
  <2> QED
    BY <2>9 DEF NumberInv, Known
<1>6. CASE PopsReported
  <2>1. /\ s_q.count > 0 /\ s_q' = Dequeue(s_q) /\ up' = up /\ up
        /\ UNCHANGED <<file, accepted, item, wire, late, received>>
    BY <1>6 DEF PopsReported, PopHead, CanPop, netvars, history
  <2>2. ItemsOf(s_q)' \subseteq ItemsOf(s_q) /\ s_q'.seq = s_q.seq
    BY <1>1, <2>1, PoppedItems DEF Dequeue
  <2> QED
    BY <1>4, <2>1, <2>2 DEF OnRecord, OnTheWay, Counter
<1>7. CASE BootDevice
  <2>1. /\ ~up /\ up' /\ s_q' = QueueLoad(file)
        /\ UNCHANGED <<file, accepted, wire, late, received>>
    BY <1>7 DEF BootDevice, Boot, netvars, history
  <2>2. wire = "none"
    BY <1>1, <2>1 DEF Lifecycle, Reported
  <2> QED
    BY <1>4, <2>1, <2>2 DEF OnRecord, OnTheWay, Counter
<1>8. CASE PowerFails
  <2>1. /\ s_q' = EmptyRing /\ wire' = "none" /\ up /\ ~up'
        /\ late' \subseteq late \cup OnTheWay
        /\ UNCHANGED <<file, accepted, received>>
        /\ QueueLoad(file).seq = s_q.seq
    BY <1>8 DEF PowerFails, Crash, GivenUp, OnTheWay
  <2>2. Known' \subseteq Known
    BY <2>1, NothingPending DEF OnRecord, OnTheWay
  <2>3. Counter' = Counter
    BY <2>1 DEF Counter
  <2> QED
    BY <1>4, <2>1, <2>2, <2>3
<1>9. CASE QuietStep
  <2>1. /\ UNCHANGED <<up, s_q, accepted>>
        /\ \/ QueueLoad(file') = QueueLoad(file)
           \/ up /\ QueueLoad(file') \in {EmptyRing, s_q}
        /\ OnRecord' \subseteq OnRecord \cup (IF upPc = "post" THEN {item} ELSE {})
    BY <1>9 DEF QuietStep
  <2>2. Counter' = Counter
    BY <2>1 DEF Counter
  <2>3. upPc = "post" => item \in ItemsOf(s_q)
    BY <1>1, HeadIsFirst DEF PopsWhatWasPosted, ItemsOf
  <2>4. Known' \subseteq Known
    BY <2>1, <2>3, NothingPending
  <2> QED
    BY <1>4, <2>1, <2>2, <2>4
<1> QED
  BY <1>1, <1>5, <1>6, <1>7, <1>8, <1>9, StepShape

LEMMA InitBounded == IsFiniteSet(Arrivals) /\ UInit => AcceptedBounded
<1> SUFFICES ASSUME IsFiniteSet(Arrivals), UInit PROVE AcceptedBounded
  OBVIOUS
<1> DEFINE r == QueueLoad(file)
<1>1. r \in Rings
  BY BootAssumption, LoadYieldsRing DEF UInit, Init
<1>2. accepted = [i \in 1 .. r.count |-> ContentOf(PendingOf(r)[i])] /\ fresh = Arrivals
  BY DEF UInit
<1> HIDE DEF r
<1>3. r.count \in 0 .. SMS_QUEUE_MAX /\ SMS_QUEUE_MAX \in Nat
  BY <1>1, SizeAssumption DEF Rings
<1>4. Len(accepted) = r.count
  BY <1>2, <1>3
<1>5. Cardinality(Arrivals) \in Nat
  BY FS_CardinalityType
<1> QED
  BY <1>2, <1>3, <1>4, <1>5 DEF AcceptedBounded

LEMMA StepBounded ==
  ASSUME IsFiniteSet(Arrivals)
  PROVE  UTypeOK /\ UIndInv /\ LossInv /\ AcceptedBounded /\ [UNext]_uvars => AcceptedBounded'
<1> SUFFICES ASSUME UTypeOK, UIndInv, LossInv, AcceptedBounded, [UNext]_uvars
             PROVE  AcceptedBounded'
  OBVIOUS
<1>1. fresh \subseteq Arrivals /\ accepted \in Seq({ContentOf(it) : it \in Items})
  BY DEF UTypeOK
<1>2. IsFiniteSet(fresh) /\ Cardinality(fresh) \in Nat /\ Cardinality(Arrivals) \in Nat
  BY <1>1, FS_Subset, FS_CardinalityType
<1>3. SMS_QUEUE_MAX \in Nat /\ Len(accepted) \in Nat
  BY <1>1, SizeAssumption
<1>4. ASSUME NEW c \in Arrivals, ArrivalQueued(c) PROVE AcceptedBounded'
  <2>1. /\ c \in Contents /\ c \in fresh /\ fresh' = fresh \ {c}
        /\ accepted' = Append(accepted, c)
    BY <1>4, UploadAssumption DEF ArrivalQueued
  <2>2. c \in {ContentOf(it) : it \in Items}
    BY <2>1, ContentsAreOfItems
  <2>3. Len(accepted') = Len(accepted) + 1
    BY <1>1, <2>1, <2>2, Appended
  <2>4. Cardinality(fresh') = Cardinality(fresh) - 1
    BY <1>2, <2>1, FS_RemoveElement
  <2> QED
    BY <1>2, <1>3, <2>3, <2>4 DEF AcceptedBounded
<1>5. ASSUME accepted' = accepted, fresh' \subseteq fresh PROVE AcceptedBounded'
  <2>1. Cardinality(fresh') \in Nat /\ Cardinality(fresh') <= Cardinality(fresh)
    BY <1>2, <1>5, FS_Subset, FS_CardinalityType
  <2> QED
    BY <1>2, <1>3, <1>5, <2>1 DEF AcceptedBounded
<1>6. CASE PopsReported \/ BootDevice \/ PowerFails \/ QuietStep
  BY <1>5, <1>6 DEF PopsReported, BootDevice, PowerFails, QuietStep, history
<1> QED
  BY <1>4, <1>6, StepShape DEF UIndInv, LossInv

\* msg_id tells the server's reports apart until the counter is set back, as long as
\* no more messages come than it has numbers.
THEOREM UploadMsgIdsApart ==
  ASSUME NumbersSuffice
  PROVE  USpec => []MsgIdsApart
<1>1. UInit => NumberInv /\ AcceptedBounded
  BY InitNumbers, InitBounded DEF NumbersSuffice
<1>2. UTypeOK /\ UIndInv /\ LossInv /\ NumberInv /\ AcceptedBounded /\ [UNext]_uvars
        => NumberInv' /\ AcceptedBounded'
  BY StepNumbers, StepBounded DEF NumbersSuffice
<1>3. UTypeOK /\ NumberInv /\ AcceptedBounded => MsgIdsApart
  <2> SUFFICES ASSUME UTypeOK, NumberInv, AcceptedBounded, ~rolledBack,
                      NEW a \in received, NEW b \in received, a.seq = b.seq
               PROVE  a = b
    BY DEF MsgIdsApart
  <2>1. /\ accepted \in Seq({ContentOf(it) : it \in Items}) /\ fresh \subseteq Arrivals
        /\ a \in Items /\ b \in Items
    BY DEF UTypeOK
  <2>2. Counter \in SeqNums
    BY LoadYieldsRing DEF UTypeOK, TypeOK, Counter, Rings
  <2>3. Len(accepted) <= SEQ_MOD
    <3>1. Cardinality(fresh) \in Nat /\ Cardinality(Arrivals) \in Nat
      BY <2>1, FS_Subset, FS_CardinalityType DEF NumbersSuffice
    <3>2. Len(accepted) \in Nat /\ SMS_QUEUE_MAX \in Nat /\ SEQ_MOD \in Nat
      BY <2>1, SizeAssumption
    <3> QED
      BY <3>1, <3>2 DEF AcceptedBounded, NumbersSuffice
  <2>4. NumberedIn(a, accepted, Counter) /\ NumberedIn(b, accepted, Counter)
    BY DEF NumberInv, OnRecord
  <2> QED
    BY <2>1, <2>2, <2>3, <2>4, NumbersApart
<1> QED
  BY <1>1, <1>2, <1>3, AlwaysTyped, AlwaysUIndInv, AlwaysLoss, PTL DEF USpec

----------------------------------------------------------------------------
(* The device's side of ReportService *)

\* The queue and its file hold nothing that was not pushed.
StoredContents ==
  /\ ContentsOf(s_q) \subseteq Contents
  /\ ContentsOf(QueueLoad(file)) \subseteq Contents

\* While the thread is in a request there is one.
InRequest == upPc = "request" => wire # "none"

LEMMA InitStored == UInit => StoredContents /\ InRequest
BY BootContents, NothingPending DEF UInit, Init, StoredContents, InRequest

LEMMA StepStored ==
  UTypeOK /\ UIndInv /\ LossInv /\ StoredContents /\ [UNext]_uvars => StoredContents'
<1> SUFFICES ASSUME UTypeOK, UIndInv, LossInv, StoredContents, [UNext]_uvars
             PROVE  StoredContents'
  OBVIOUS
<1> USE DEF StoredContents
<1>1. s_q \in Rings /\ Reported
  BY DEF UIndInv, RingInBounds, LossInv
<1>2. ASSUME NEW c \in Arrivals, ArrivalQueued(c) PROVE StoredContents'
  <2>1. /\ c \in Contents /\ s_q.count < SMS_QUEUE_MAX
        /\ s_q' = Enqueue(s_q, c) /\ file' = file
    BY <1>2, UploadAssumption DEF ArrivalQueued, Push
  <2> DEFINE new == [type |-> c.type, seq |-> (s_q.seq + 1) % SEQ_MOD, data |-> c.data]
  <2>2. ItemsOf(s_q') = ItemsOf(s_q) \cup {new}
    BY <1>1, <2>1, PushedItems
  <2>3. ContentOf(new) \in Contents
    BY <2>1 DEF ContentOf, Contents
  <2> HIDE DEF new
  <2>4. ContentsOf(s_q') \subseteq ContentsOf(s_q) \cup {ContentOf(new)}
    BY <2>2, ContentsAre
  <2> QED
    BY <2>1, <2>3, <2>4
<1>3. CASE PopsReported
  <2>1. s_q.count > 0 /\ s_q' = Dequeue(s_q) /\ file' = file
    BY <1>3 DEF PopsReported, PopHead
  <2>2. ItemsOf(s_q') \subseteq ItemsOf(s_q)
    BY <1>1, <2>1, PoppedItems
  <2>3. ContentsOf(s_q') \subseteq ContentsOf(s_q)
    BY <2>2, ContentsAre
  <2> QED
    BY <2>1, <2>3
<1>4. CASE BootDevice \/ PowerFails \/ QuietStep
  BY <1>4, NothingPending DEF BootDevice, Boot, PowerFails, Crash, QuietStep
<1> QED
  BY <1>1, <1>2, <1>3, <1>4, StepShape

LEMMA StepInRequest == InRequest /\ [UNext]_uvars => InRequest'
<1> SUFFICES ASSUME InRequest, [UNext]_uvars PROVE InRequest'
  OBVIOUS
<1> USE DEF InRequest
<1>1. CASE BootDevice \/ PowerFails \/ PopsReported \/ WakesUp \/ QueueProgress
  BY <1>1 DEF BootDevice, PowerFails, PopsReported, WakesUp, QueueProgress, netvars
<1>2. CASE \/ ClientLocked \/ ClientCreated \/ ClientCreateFails \/ ClientConfigured \/ ClientConfigFails
  BY <1>2 DEF ClientLocked, ClientCreated, ClientCreateFails, ClientConfigured, ClientConfigFails,
              InitReturns, netvars
<1>3. CASE RequestSent \/ ReplyArrives \/ RequestFails \/ PostNotSent
  BY <1>3 DEF RequestSent, ReplyArrives, RequestFails, PostNotSent, PostFails
<1>4. CASE NetNotReady \/ NetIsReady \/ PeekFinds \/ PeekFindsNothing \/ DelayEnds
  BY <1>4 DEF NetNotReady, NetIsReady, PeekFinds, PeekFindsNothing, DelayEnds, netvars
<1>5. CASE \/ UNCHANGED uvars \/ NetUp \/ NetDown \/ ServerTakes \/ LateArrives
           \/ \E c \in Arrivals : ArrivalQueued(c) \/ ArrivalDropped(c)
  BY <1>5 DEF uvars, taskvars, netvars, NetUp, NetDown, ServerTakes, LateArrives,
              ArrivalQueued, ArrivalDropped
<1> QED
  BY <1>1, <1>2, <1>3, <1>4, <1>5 DEF UNext, Uploader

\* What the service sees of the device.
AskedFor == IF upPc \in {"request", "pop"} THEN item ELSE EmptyItem
AskedHow ==
  IF upPc = "pop" THEN "acked"
  ELSE CASE wire = "none" -> "idle" [] wire = "sent" -> "sent" [] wire = "served" -> "taken"

LEMMA ServiceIdle ==
  ASSUME UNCHANGED <<AskedFor, AskedHow, late, received>>
  PROVE  UNCHANGED Service!svars
BY DEF Service!svars, AskedFor, AskedHow

\* A post sends an item that was pushed, never a slot that was not filled.
LEMMA PostAsks ==
  ASSUME UTypeOK, PopsWhatWasPosted, Reported, StoredContents, RequestSent
  PROVE  Service!Ask
<1>1. /\ upPc = "post" /\ upPc' = "request" /\ wire' = "sent"
      /\ UNCHANGED <<item, late, received>>
  BY DEF RequestSent, history
<1>2. wire = "none" /\ s_q \in Rings /\ s_q.count > 0 /\ item = RingHead(s_q)
      /\ item \in Items
  BY <1>1 DEF Reported, PopsWhatWasPosted, UTypeOK, TypeOK
<1>3. ContentOf(item) \in Contents
  BY <1>2, HeadIsFirst DEF StoredContents, ContentsOf
<1>4. item # EmptyItem
  BY <1>3, SizeAssumption DEF ContentOf, Contents, EmptyItem
<1>5. AskedHow = "idle" /\ AskedHow' = "sent" /\ AskedFor' \in Items \ {EmptyItem}
  BY <1>1, <1>2, <1>4 DEF AskedFor, AskedHow
<1> QED
  BY <1>1, <1>5 DEF Service!Ask, AskedFor, AskedHow

\* Each step of the device is one of the service, or none.
LEMMA StepReports ==
  UTypeOK /\ UIndInv /\ LossInv /\ StoredContents /\ InRequest /\ [UNext]_uvars
    => [Service!Next]_Service!svars
<1> SUFFICES ASSUME UTypeOK, UIndInv, LossInv, StoredContents, InRequest, [UNext]_uvars
             PROVE  Service!Next \/ UNCHANGED Service!svars
  OBVIOUS
<1>1. Lifecycle /\ PopsWhatWasPosted /\ Reported /\ wire \in {"none", "sent", "served"}
  BY DEF UIndInv, LossInv, UTypeOK
<1>2. ASSUME upPc \notin {"request", "pop"}, upPc' \notin {"request", "pop"},
             UNCHANGED <<wire, late, received>>
      PROVE  UNCHANGED Service!svars
  <2>1. AskedFor' = AskedFor
    BY <1>2 DEF AskedFor
  <2>2. AskedHow' = AskedHow
    <3>1. upPc # "pop" /\ upPc' # "pop" /\ wire' = wire
      BY <1>2
    <3> QED
      BY <1>1, <3>1 DEF AskedHow
  <2> QED
    BY <1>2, <2>1, <2>2, ServiceIdle
<1>3. ASSUME UNCHANGED <<upPc, item, wire, late, received>> PROVE UNCHANGED Service!svars
  BY <1>3, ServiceIdle DEF AskedFor, AskedHow
<1>4. CASE RequestSent
  BY <1>1, <1>4, PostAsks DEF Service!Next
<1>5. CASE ReplyArrives
  <2>1. /\ upPc = "request" /\ wire = "served" /\ upPc' = "pop" /\ wire' = "none"
        /\ UNCHANGED <<item, late, received>>
    BY <1>5 DEF ReplyArrives, history
  <2>2. AskedHow = "taken" /\ AskedHow' = "acked" /\ AskedFor' = AskedFor
    BY <2>1 DEF AskedFor, AskedHow
  <2> QED
    BY <2>1, <2>2 DEF Service!Next, Service!Acknowledge, AskedFor, AskedHow
<1>6. ASSUME upPc = "request", GivenUp, UNCHANGED <<received>>,
             upPc' \notin {"request", "pop"}
      PROVE  Service!Next
  <2>1. /\ AskedFor = item /\ AskedFor' = EmptyItem /\ AskedHow' = "idle"
        /\ AskedHow = IF wire = "sent" THEN "sent" ELSE "taken"
    BY <1>1, <1>6 DEF AskedFor, AskedHow, GivenUp, InRequest
  <2>2. late' \in SUBSET (IF AskedHow = "sent" THEN late \cup {AskedFor} ELSE late)
    BY <1>6, <2>1 DEF GivenUp
  <2>3. AskedHow \in {"sent", "taken"}
    BY <2>1
  <2> QED
    BY <1>6, <2>1, <2>2, <2>3 DEF Service!Next, Service!GiveUp, AskedFor, AskedHow
<1>7. CASE RequestFails
  BY <1>6, <1>7 DEF RequestFails, PostFails, history
<1>8. ASSUME upPc = "pop", upPc' \notin {"request", "pop"}, wire' = "none",
             UNCHANGED <<late, received>>
      PROVE  Service!Next
  <2>1. AskedHow = "acked" /\ AskedHow' = "idle" /\ AskedFor' = EmptyItem
    BY <1>8 DEF AskedFor, AskedHow
  <2> QED
    BY <1>8, <2>1 DEF Service!Next, Service!Finish, AskedFor, AskedHow
<1>9. CASE PopsReported
  BY <1>1, <1>8, <1>9 DEF PopsReported, netvars, history, Reported
<1>10. CASE PowerFails
  <2>1. upPc' = "off" /\ wire' = "none" /\ GivenUp /\ received' = received
    BY <1>10 DEF PowerFails, GivenUp
  <2>2. upPc # "request" => wire = "none" /\ late' = late
    BY <1>1, <2>1 DEF Reported, GivenUp
  <2> QED
    BY <1>2, <1>6, <1>8, <2>1, <2>2
<1>11. CASE ServerTakes
  <2>1. /\ wire = "sent" /\ wire' = "served" /\ received' = received \cup {item}
        /\ UNCHANGED <<upPc, item, late>>
    BY <1>11 DEF ServerTakes, taskvars
  <2>2. upPc = "request"
    BY <1>1, <2>1 DEF Reported
  <2>3. AskedHow = "sent" /\ AskedHow' = "taken" /\ AskedFor = item /\ AskedFor' = item
    BY <2>1, <2>2 DEF AskedFor, AskedHow
  <2> QED
    BY <2>1, <2>3 DEF Service!Next, Service!Take, AskedFor, AskedHow
<1>12. CASE LateArrives
  <2>1. PICK it \in late : received' = received \cup {it} /\ late' = late \ {it}
    BY <1>12 DEF LateArrives
  <2>2. AskedFor' = AskedFor /\ AskedHow' = AskedHow
    BY <1>12 DEF LateArrives, taskvars, AskedFor, AskedHow
  <2>3. late' \in SUBSET late
    BY <2>1
  <2> QED
    BY <2>1, <2>2, <2>3 DEF Service!Next, Service!TakeLate, AskedFor, AskedHow
<1>13. CASE QueueProgress
  <2>1. /\ upPc' = IF s_lock = "pop" /\ s_lock' = "free" THEN "loop" ELSE upPc
        /\ UNCHANGED <<item, wire, late, received>>
    BY <1>13 DEF QueueProgress, netvars, history
  <2>2. s_lock = "pop" => upPc = "popping"
    BY <1>1 DEF Lifecycle
  <2> QED
    BY <1>2, <1>3, <2>1, <2>2
<1>14. CASE BootDevice
  <2>1. upPc = "off" /\ upPc' = "netwait" /\ UNCHANGED <<wire, late, received>>
    BY <1>1, <1>14 DEF BootDevice, Boot, Lifecycle, netvars, history
  <2> QED
    BY <1>2, <2>1
<1>15. CASE \/ ClientLocked \/ ClientCreated \/ ClientCreateFails \/ ClientConfigured \/ ClientConfigFails
  BY <1>1, <1>2, <1>15 DEF ClientLocked, ClientCreated, ClientCreateFails, ClientConfigured,
                    ClientConfigFails, InitReturns, netvars, history, Lifecycle
<1>16. CASE \/ NetNotReady \/ NetIsReady \/ PeekFinds \/ PeekFindsNothing \/ WakesUp
            \/ PostNotSent \/ DelayEnds
  BY <1>2, <1>16 DEF NetNotReady, NetIsReady, PeekFinds, PeekFindsNothing, WakesUp,
                     PostNotSent, PostFails, DelayEnds, netvars, history
<1>17. CASE \/ UNCHANGED uvars \/ NetUp \/ NetDown
            \/ \E c \in Arrivals : ArrivalQueued(c) \/ ArrivalDropped(c)
  BY <1>3, <1>17 DEF uvars, taskvars, netvars, history, NetUp, NetDown, ArrivalQueued,
                     ArrivalDropped
<1> QED
  BY <1>4, <1>5, <1>7, <1>9, <1>10, <1>11, <1>12, <1>13, <1>14, <1>15, <1>16, <1>17
     DEF UNext, Uploader

\* The device with its queue, through time-outs and power failures, implements
\* ReportService: it takes for done only what the server has taken.
THEOREM UploadReportsToService == USpec => ReportsToService
<1>1. UInit => Service!Init
  BY DEF UInit, Init, Service!Init
<1>2. /\ UInit => StoredContents /\ InRequest
      /\ UTypeOK /\ UIndInv /\ LossInv /\ StoredContents /\ InRequest /\ [UNext]_uvars
           => StoredContents' /\ InRequest'
  BY InitStored, StepStored, StepInRequest
<1>3. USpec => [](StoredContents /\ InRequest)
  BY <1>2, AlwaysTyped, AlwaysUIndInv, AlwaysLoss, PTL DEF USpec
<1> QED
  BY <1>1, <1>3, StepReports, AlwaysTyped, AlwaysUIndInv, AlwaysLoss, PTL
     DEF USpec, ReportsToService, Service!Spec
=============================================================================
