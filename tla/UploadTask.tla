----------------------------- MODULE UploadTask -----------------------------
(***************************************************************************)
(* applaction/net_upload.c: the uploading thread, together with the queue  *)
(* it drains (SmsQueue), the receiving thread reduced to its pushes, and   *)
(* the network and server reduced to what they can do to one request.      *)
(*                                                                         *)
(* upPc is the thread's position in upload_task and net_upload_post:       *)
(*   netwait  net_wait_ready                 request  cm_httpclient_       *)
(*   init     net_upload_init at the start            sync_request         *)
(*   loop     sms_queue_peek                 pop      sms_queue_pop_head   *)
(*   wait     sms_queue_wait                 popping  its queue_save       *)
(*   client   net_upload_init for an item    delay    osDelayMs            *)
(*   post     net_upload_post, up to the request                           *)
(***************************************************************************)
EXTENDS SmsQueue, FiniteSets

CONSTANTS
  Arrivals,             \* what the receiving thread may push, each once
  TooLong,              \* payloads whose JSON does not fit s_body
  UPLOAD_RETRY_MIN_MS,
  UPLOAD_RETRY_MAX_MS,
  NET_POLL_MIN_MS,
  NET_POLL_MAX_MS,
  MaxCrashes            \* power failures considered

ASSUME UploadAssumption ==
  /\ Arrivals \subseteq Contents
  /\ TooLong \subseteq Payload
  /\ UPLOAD_RETRY_MIN_MS \in Nat \ {0}
  /\ UPLOAD_RETRY_MAX_MS \in Nat
  /\ UPLOAD_RETRY_MIN_MS <= UPLOAD_RETRY_MAX_MS
  /\ NET_POLL_MIN_MS \in Nat \ {0}
  /\ NET_POLL_MAX_MS \in Nat
  /\ NET_POLL_MIN_MS <= NET_POLL_MAX_MS
  /\ MaxCrashes \in Nat

VARIABLES
  upPc,
  item,        \* the local copy of the item being uploaded
  backoff_ms,  \* the delay after the next failed post
  interval,    \* the delay before the next look at the network
  s_client,    \* the HTTP client: "none", "locked" (being created), "created", "ready"
  net,         \* the PDP context is active
  wire,        \* the request in progress: "none", "sent", "served" (reply due)
  late,        \* requests given up on that may still reach the server
  fresh,       \* arrivals still to come
  accepted,    \* history: contents whose push succeeded, in order
  received,    \* history: items the server has been handed
  excused,     \* history: contents a power failure took from the queue
  rolledBack,  \* history: a power failure set the sequence counter back
  crashes      \* power failures so far

taskvars == <<upPc, item, backoff_ms, interval, s_client>>
netvars  == <<net, wire, late>>
history  == <<accepted, received, excused, rolledBack>>
uvars    == <<qvars, taskvars, netvars, fresh, history, crashes>>

Positions == {"off", "netwait", "init", "loop", "wait", "client", "post",
              "request", "pop", "popping", "delay"}

ContentOf(it)  == [type |-> it.type, data |-> it.data]
ContentsOf(r)  == {ContentOf(PendingOf(r)[i]) : i \in 1 .. r.count}
AcceptedSet    == {accepted[i] : i \in DOMAIN accepted}
ReceivedSet    == {ContentOf(it) : it \in received}
RingHead(r)    == r.items[r.head]

\* What earlier runs left in the queue, they had pushed.
ASSUME BootContents == \A f \in BootFiles : ContentsOf(QueueLoad(f)) \subseteq Contents

\* Premise of the order of arrivals, where contents stand for messages: none is
\* pending twice at the first start, and none arrives that is pending then.
MessagesDistinct ==
  \A f \in BootFiles : LET r == QueueLoad(f) IN
    /\ \A k, l \in 1 .. r.count :
         ContentOf(PendingOf(r)[k]) = ContentOf(PendingOf(r)[l]) => k = l
    /\ ContentsOf(r) \cap Arrivals = {}

\* Premise of what is said about msg_id: the counter does not come round. The code
\* has 2^32 numbers.
NumbersSuffice ==
  /\ IsFiniteSet(Arrivals)
  /\ SMS_QUEUE_MAX + Cardinality(Arrivals) <= SEQ_MOD

----------------------------------------------------------------------------

UInit ==
  /\ Init
  /\ upPc = "off"
  /\ item = EmptyItem
  /\ backoff_ms = UPLOAD_RETRY_MIN_MS
  /\ interval = NET_POLL_MIN_MS
  /\ s_client = "none"
  /\ net = FALSE
  /\ wire = "none"
  /\ late = {}
  /\ fresh = Arrivals
  /\ LET r == QueueLoad(file)
     IN  accepted = [i \in 1 .. r.count |-> ContentOf(PendingOf(r)[i])]
  /\ received = {}
  /\ excused = {}
  /\ rolledBack = FALSE
  /\ crashes = 0

\* cm_opencpu_entry creates the thread; upload_task initialises its locals.
BootDevice ==
  /\ Boot
  /\ upPc' = "netwait"
  /\ item' = EmptyItem
  /\ backoff_ms' = UPLOAD_RETRY_MIN_MS
  /\ interval' = NET_POLL_MIN_MS
  /\ s_client' = "none"
  /\ UNCHANGED <<netvars, fresh, history, crashes>>

----------------------------------------------------------------------------
(* The receiving thread *)

\* sms_push_item and call_push_item.
ArrivalQueued(c) ==
  /\ c \in fresh
  /\ Push(c)
  /\ fresh' = fresh \ {c}
  /\ accepted' = Append(accepted, c)
  /\ UNCHANGED <<taskvars, netvars, received, excused, rolledBack, crashes>>

\* sms_queue_push returns false: the caller logs the loss and goes on.
ArrivalDropped(c) ==
  /\ c \in fresh
  /\ CanPush
  /\ s_q.count = SMS_QUEUE_MAX
  /\ fresh' = fresh \ {c}
  /\ UNCHANGED <<qvars, taskvars, netvars, history, crashes>>

\* Either thread's steps inside queue_save, and a push setting its event.
QueueProgress ==
  /\ QueueStep
  /\ upPc' = IF s_lock = "pop" /\ s_lock' = "free" THEN "loop" ELSE upPc
  /\ UNCHANGED <<item, backoff_ms, interval, s_client, netvars, fresh, history, crashes>>

----------------------------------------------------------------------------
(* Network and client *)

\* Variant: the interval doubled past its maximum.
NextIntervalUnclamped(n) == IF n >= NET_POLL_MAX_MS THEN n ELSE 2 * n

NextInterval(n) ==
  IF n >= NET_POLL_MAX_MS THEN n
  ELSE IF 2 * n > NET_POLL_MAX_MS THEN NET_POLL_MAX_MS ELSE 2 * n

NetNotReady ==
  /\ upPc = "netwait"
  /\ ~net
  /\ interval' = NextInterval(interval)
  /\ UNCHANGED <<qvars, upPc, item, backoff_ms, s_client, netvars, fresh, history, crashes>>

\* net_wait_ready returns, and its local is gone.
NetIsReady ==
  /\ upPc = "netwait"
  /\ net
  /\ upPc' = "init"
  /\ interval' = NET_POLL_MIN_MS
  /\ UNCHANGED <<qvars, item, backoff_ms, s_client, netvars, fresh, history, crashes>>

\* net_upload_init returns: upload_task ignores the first result.
InitReturns(ok) ==
  upPc' = IF upPc = "init" THEN "loop" ELSE IF ok THEN "post" ELSE "delay"

ClientLocked ==
  /\ upPc \in {"init", "client"}
  /\ s_client = "none"
  /\ s_client' = "locked"
  /\ pm' = pm + 1
  /\ UNCHANGED <<up, s_q, file, s_lock, save, stale, signal, s_evt>>
  /\ UNCHANGED <<upPc, item, backoff_ms, interval, netvars, fresh, history, crashes>>

ClientCreated ==
  /\ s_client = "locked"
  /\ s_client' = "created"
  /\ UNCHANGED <<qvars, upPc, item, backoff_ms, interval, netvars, fresh, history, crashes>>

\* An error or no handle.  A handle that comes with an error is forgotten, not
\* deleted: what the client library then keeps is not modelled.
ClientCreateFails ==
  /\ s_client = "locked"
  /\ s_client' = "none"
  /\ pm' = pm - 1
  /\ InitReturns(FALSE)
  /\ UNCHANGED <<up, s_q, file, s_lock, save, stale, signal, s_evt>>
  /\ UNCHANGED <<item, backoff_ms, interval, netvars, fresh, history, crashes>>

ClientConfigured ==
  /\ s_client = "created"
  /\ s_client' = "ready"
  /\ pm' = pm - 1
  /\ InitReturns(TRUE)
  /\ UNCHANGED <<up, s_q, file, s_lock, save, stale, signal, s_evt>>
  /\ UNCHANGED <<item, backoff_ms, interval, netvars, fresh, history, crashes>>

\* Variant: the failure path of cm_httpclient_set_cfg keeps the work lock.
ConfigFailsStillLocked ==
  /\ s_client = "created"
  /\ s_client' = "none"
  /\ InitReturns(FALSE)
  /\ UNCHANGED qvars
  /\ UNCHANGED <<item, backoff_ms, interval, netvars, fresh, history, crashes>>

\* A failing cm_httpclient_set_cfg deletes the client again.
ClientConfigFails ==
  /\ s_client = "created"
  /\ s_client' = "none"
  /\ pm' = pm - 1
  /\ InitReturns(FALSE)
  /\ UNCHANGED <<up, s_q, file, s_lock, save, stale, signal, s_evt>>
  /\ UNCHANGED <<item, backoff_ms, interval, netvars, fresh, history, crashes>>

----------------------------------------------------------------------------
(* The loop of upload_task *)

\* Variant: the peek takes the newest item.
PeekFindsNewest ==
  /\ upPc = "loop"
  /\ CanPop
  /\ s_q.count > 0
  /\ item' = s_q.items[Slot(s_q, s_q.count - 1)]
  /\ upPc' = IF s_client = "none" THEN "client" ELSE "post"
  /\ UNCHANGED <<qvars, backoff_ms, interval, s_client, netvars, fresh, history, crashes>>

\* sms_queue_peek copies the head under the mutex.
PeekFinds ==
  /\ upPc = "loop"
  /\ CanPop
  /\ s_q.count > 0
  /\ item' = RingHead(s_q)
  /\ upPc' = IF s_client = "none" THEN "client" ELSE "post"
  /\ UNCHANGED <<qvars, backoff_ms, interval, s_client, netvars, fresh, history, crashes>>

PeekFindsNothing ==
  /\ upPc = "loop"
  /\ CanPop
  /\ s_q.count = 0
  /\ item' = EmptyItem
  /\ backoff_ms' = UPLOAD_RETRY_MIN_MS
  /\ upPc' = "wait"
  /\ UNCHANGED <<qvars, interval, s_client, netvars, fresh, history, crashes>>

WakesUp ==
  /\ upPc = "wait"
  /\ WaitReturns
  /\ upPc' = "loop"
  /\ UNCHANGED <<item, backoff_ms, interval, s_client, netvars, fresh, history, crashes>>

NextBackoff(b) == IF b < UPLOAD_RETRY_MAX_MS THEN 2 * b ELSE UPLOAD_RETRY_MAX_MS

\* net_upload_post returns -1: the thread sleeps and doubles its delay.
PostFails ==
  /\ upPc' = "delay"
  /\ backoff_ms' = NextBackoff(backoff_ms)

\* No network, no memory for the JSON, or a body of 2048 bytes and more.
PostNotSent ==
  /\ upPc = "post"
  /\ PostFails
  /\ UNCHANGED <<qvars, item, interval, s_client, netvars, fresh, history, crashes>>

RequestSent ==
  /\ upPc = "post"
  /\ net
  /\ item.data \notin TooLong
  /\ upPc' = "request"
  /\ wire' = "sent"
  /\ pm' = pm + 1
  /\ UNCHANGED <<up, s_q, file, s_lock, save, stale, signal, s_evt>>
  /\ UNCHANGED <<item, backoff_ms, interval, s_client, net, late, fresh, history, crashes>>

\* A 200 came back.
ReplyArrives ==
  /\ upPc = "request"
  /\ wire = "served"
  /\ upPc' = "pop"
  /\ wire' = "none"
  /\ pm' = pm - 1
  /\ UNCHANGED <<up, s_q, file, s_lock, save, stale, signal, s_evt>>
  /\ UNCHANGED <<item, backoff_ms, interval, s_client, net, late, fresh, history, crashes>>

\* Any request not answered with 200 counts as failed, even if it was or will be
\* served: a connection error, a time-out of 30 s, another status.
GivenUp ==
  /\ wire' = "none"
  /\ late' \in IF wire = "sent" THEN {late, late \cup {item}} ELSE {late}

\* Variant: a failed request treated as a success.
RequestFailsPopped ==
  /\ upPc = "request"
  /\ upPc' = "pop"
  /\ GivenUp
  /\ pm' = pm - 1
  /\ UNCHANGED <<up, s_q, file, s_lock, save, stale, signal, s_evt>>
  /\ UNCHANGED <<item, backoff_ms, interval, s_client, net, fresh, history, crashes>>

RequestFails ==
  /\ upPc = "request"
  /\ PostFails
  /\ GivenUp
  /\ pm' = pm - 1
  /\ UNCHANGED <<up, s_q, file, s_lock, save, stale, signal, s_evt>>
  /\ UNCHANGED <<item, interval, s_client, net, fresh, history, crashes>>

PopsReported ==
  /\ upPc = "pop"
  /\ PopHead
  /\ upPc' = "popping"
  /\ backoff_ms' = UPLOAD_RETRY_MIN_MS
  /\ UNCHANGED <<item, interval, s_client, netvars, fresh, history, crashes>>

DelayEnds ==
  /\ upPc = "delay"
  /\ upPc' = "loop"
  /\ UNCHANGED <<qvars, item, backoff_ms, interval, s_client, netvars, fresh, history, crashes>>

----------------------------------------------------------------------------
(* The surroundings *)

NetUp ==
  /\ ~net
  /\ net' = TRUE
  /\ UNCHANGED <<qvars, taskvars, wire, late, fresh, history, crashes>>

NetDown ==
  /\ net
  /\ net' = FALSE
  /\ UNCHANGED <<qvars, taskvars, wire, late, fresh, history, crashes>>

ServerTakes ==
  /\ wire = "sent"
  /\ wire' = "served"
  /\ received' = received \cup {item}
  /\ UNCHANGED <<qvars, taskvars, net, late, fresh, accepted, excused, rolledBack, crashes>>

LateArrives ==
  /\ \E it \in late : received' = received \cup {it} /\ late' = late \ {it}
  /\ UNCHANGED <<qvars, taskvars, net, wire, fresh, accepted, excused, rolledBack, crashes>>

PowerFails ==
  /\ crashes < MaxCrashes
  /\ crashes' = crashes + 1
  /\ Crash
  /\ upPc' = "off"
  /\ GivenUp
  /\ excused' = excused \cup (ContentsOf(s_q) \ ContentsOf(QueueLoad(file)))
  /\ rolledBack' = (rolledBack \/ QueueLoad(file).seq # s_q.seq)
  /\ s_client' = "none"
  /\ UNCHANGED <<item, backoff_ms, interval, net, fresh, accepted, received>>

Uploader ==
  \/ NetNotReady \/ NetIsReady
  \/ ClientLocked \/ ClientCreated \/ ClientCreateFails
  \/ ClientConfigured \/ ClientConfigFails
  \/ PeekFinds \/ PeekFindsNothing \/ WakesUp
  \/ PostNotSent \/ RequestSent \/ ReplyArrives \/ RequestFails
  \/ PopsReported \/ DelayEnds

UNext ==
  \/ BootDevice
  \/ \E c \in Arrivals : ArrivalQueued(c) \/ ArrivalDropped(c)
  \/ QueueProgress
  \/ Uploader
  \/ NetUp \/ NetDown
  \/ ServerTakes \/ LateArrives
  \/ PowerFails

USpec == UInit /\ [][UNext]_uvars

\* Every retry is a new chance: the network does not come up only while the thread
\* sleeps.
NetUpForPost == upPc = "post" /\ NetUp

\* The threads are scheduled; the network, the server and the client library do
\* not fail for ever.  Nothing obliges a message to arrive or power to fail.
Fairness ==
  /\ WF_uvars(BootDevice)
  /\ WF_uvars(QueueProgress)
  /\ WF_uvars(Uploader)
  /\ WF_uvars(NetUp)
  /\ SF_uvars(NetUpForPost)
  /\ SF_uvars(NetIsReady)
  /\ SF_uvars(ClientCreated)
  /\ SF_uvars(ClientConfigured)
  /\ SF_uvars(RequestSent)
  /\ SF_uvars(ServerTakes)
  /\ SF_uvars(ReplyArrives)

LiveSpec == USpec /\ Fairness

----------------------------------------------------------------------------
(* What is checked *)

\* Every variable keeps its type; the poll interval never passes its maximum, and
\* the retry delay never reaches twice its maximum.
UTypeOK ==
  /\ TypeOK
  /\ upPc \in Positions
  /\ item \in Items
  /\ backoff_ms \in UPLOAD_RETRY_MIN_MS .. 2 * UPLOAD_RETRY_MAX_MS - 1
  /\ interval \in NET_POLL_MIN_MS .. NET_POLL_MAX_MS
  /\ s_client \in {"none", "locked", "created", "ready"}
  /\ net \in BOOLEAN
  /\ wire \in {"none", "sent", "served"}
  /\ late \subseteq Items
  /\ fresh \subseteq Arrivals
  /\ accepted \in Seq({ContentOf(it) : it \in Items})
  /\ received \subseteq Items
  /\ excused \subseteq {ContentOf(it) : it \in Items}
  /\ rolledBack \in BOOLEAN
  /\ crashes \in 0 .. MaxCrashes

\* The uploading thread never sleeps in sms_queue_wait beside a pending item: the
\* event is set, or a push is on its way to set it.
NoLostWakeup ==
  upPc = "wait" /\ s_q.count > 0 => s_evt \/ signal \/ s_lock = "push"

\* The item being posted is still the head of the queue, so the pop that follows a
\* 200 removes what was posted although the mutex was free in between.
PopsWhatWasPosted ==
  upPc \in {"client", "post", "request", "pop"} => s_q.count > 0 /\ item = RingHead(s_q)

\* What is pending now, or would be after the next start.
Held == ContentsOf(IF up THEN s_q ELSE QueueLoad(file))

\* An accepted message is pending, has reached the server, or was in the queue at a
\* power failure that smsq.dat did not survive whole.
NothingLost == AcceptedSet \subseteq Held \cup ReceivedSet \cup excused

\* When a message first reaches the server, every earlier accepted one has reached it
\* or has been taken from the queue by a power failure, whatever timed out, was tried
\* again or started anew in between.  A message so taken is exempt from the order: a
\* request for it may be on its way still and bring it after younger ones, or it never
\* arrives.
FirstArrivalsInOrder ==
  \A j \in DOMAIN accepted : accepted[j] \in ReceivedSet =>
     \A i \in 1 .. j - 1 : accepted[i] \in ReceivedSet \cup excused

\* msg_id tells the server's reports apart until a power failure during a save, or
\* after a failed one, sets the sequence counter back.
MsgIdsApart ==
  rolledBack \/ \A a, b \in received : a.seq = b.seq => a = b

\* The work lock is held once by each thread that is writing the file, creating a
\* client or waiting for a reply, and by the firmware until start-up: no failure
\* path keeps the module awake or lets it sleep on a request.
WorkLockBalanced ==
  pm = (IF up THEN 0 ELSE 1)
     + (IF save # "idle" THEN 1 ELSE 0)
     + (IF upPc = "request" \/ s_client \in {"locked", "created"} THEN 1 ELSE 0)

\* Every accepted message is eventually reported, unless a power failure took it.
EventuallyReported ==
  \A c \in Arrivals : c \in AcceptedSet ~> c \in ReceivedSet \cup excused

\* With what the network and the server do to its requests, the thread keeps to
\* ReportService: it takes for done only what the server has taken.
Service == INSTANCE ReportService WITH
  Reports  <- Items \ {EmptyItem},
  NoReport <- EmptyItem,
  report   <- IF upPc \in {"request", "pop"} THEN item ELSE EmptyItem,
  status   <- IF upPc = "pop" THEN "acked"
              ELSE CASE wire = "none" -> "idle" [] wire = "sent" -> "sent" [] wire = "served" -> "taken"
ReportsToService == Service!Spec
=============================================================================
