# Verification of the SMS forwarder

The program runs on an ML307A modem module: it receives text messages and rings,
keeps them in a queue that survives a loss of power, and reports them one by one to a
server over HTTP; that server forwards them to wxpusher, a push service. This directory
holds TLA+ models of the code under `src/`, the TLC configurations that check them on
small instances, and TLAPS proofs about the queue, the uploading thread, the receiving
thread with its cache, the AT channel, the server and the path of a text for every
instance.

Run inside this directory: `tlc -config queue.cfg MCSmsQueue`,
and so on with the pairs in the table of runs below; `tlapm SmsQueueProofs.tla`, and so
on with the modules named `...Proofs` and `NatFacts`.

## 1. Inventory

### Parts, their state and how they interact

| Part | Source | State | Operations |
| --- | --- | --- | --- |
| Entry point | `main.c` | none | loads the queue, releases the work lock held since power-on, starts both threads |
| Pending queue | `sms_queue.c` | ring `s_q` (head, count, seq, 16 items), file `smsq.dat`, mutex `s_lock`, event `s_evt` | load (two formats), push, peek, pop, count, wait; push and pop rewrite the file |
| Uploading thread | `net_upload.c` | HTTP client `s_client`, `backoff_ms`, the item it works on | wait for the network, create the client, post the head, pop it after a 200, back off |
| Receiving thread | `sms_recv.c` | buffers and flags shared with the callback, long-message cache `s_concat`, one-shot timer, call detection | decode a +CMT, collect parts, expire groups, detect calls; pushes to the queue |
| URC callback | `sms_recv.c` `urc_cb` | `s_cmt_buf`, `s_clip_buf`, `s_clip_tick`, pending flags | runs in the modem's thread; copies a URC and sets flags and events |
| AT channel | `sms_recv.c` `at_exec`, `at_resp_cb` | `s_at`, semaphore `s_at_done`, mutex `s_at_lock` | one command at a time, answered by a callback from the modem's thread |
| PDU decoder | `sms_pdu.c` | none | hex PDU to sender, time, text, and the header of a long message |
| Report server | `server/sms_debian.cpp` | one buffer per descriptor; the kernel's ready list and backlog | edge-triggered epoll loop: accept, receive, parse a request, forward it to wxpusher, answer, close |
| Ticks, threads | `app.c` | none | milliseconds to ticks; wrappers over the SDK |
| Test server | `server/sms_server.py` | none | prints reports |

```
 modem thread                sms_recv_task                upload_task            server
 urc_cb --flags, buffers--> decode, collect --push--> s_q --peek/pop--> post --HTTP--> parse, forward
                                                                    <--200 or time-out--  |  to wxpusher
 at_resp_cb --semaphore---> at_exec                    |
 timer  --event-----------> concat_expire           smsq.dat
```

### What is hard

* The callback interrupts the receiving thread anywhere, and shares buffers and flags
  with it without a lock.
* The uploading thread peeks and pops under a mutex it does not hold in between, and
  sleeps on an event the other thread sets after it has released that mutex.
* Power may fail between any two steps, in particular while `smsq.dat` is truncated.
* Requests time out after they were served; answers to AT commands come after the
  caller has given up.
* The tick counter and the sequence counter wrap.
* Every path has to give back the work lock, or the module never sleeps again.
* The server is told of data, of the end of a stream and of new connections once only,
  reuses descriptors, and answers one peer at a time after a request of its own; the
  device may have given up and asked again by then.
* A text passes five arrays of fixed size, three alphabets and three kinds of escaping.

`PROJECT.json` lists these as hazards, each at its line with its properties.

### What makes each part correct

* Queue: a bounded FIFO of consecutively numbered items; a restart gives back one
  whole stored state or an empty queue.
* Uploading: what is popped is what was posted; accepted messages reach the server
  in order, at least once, unless a power failure took them; no missed wake-up.
* Cache: no mixing of messages, no silently vanished part, unless two messages or a torn
  read bear one sender and reference; groups end in time.
* Calls: reports come in time and keep their distance.
* AT channel: each call returns its own answer and leaves the channel closed.
* Server: no connection is left unseen, no buffer mixes two of them; a report is
  forwarded before it is acknowledged; the device is answered whatever others do.
* Text: what wxpusher gets is what was written, within limits that are named below; a
  message cut short is never taken for a shorter one.

## 2. Modules

| Module | Models | Correspondence |
| --- | --- | --- |
| `DurableQueue` | what `sms_queue.c` promises | abstract: a sequence, a counter and one stored image, which can be stored or spoilt at any time |
| `SmsQueue` | `sms_queue.c`, start in `main.c` | the ring in RAM, the file by what `queue_load` makes of it; `queue_save` in the steps open, write, close, each able to fail; `Crash` between any two |
| `SmsQueueProofs` | | theorems about `SmsQueue` |
| `UploadTask` | `net_upload.c`, extends `SmsQueue` | the thread by its position; the other thread by its pushes; network and server by what they do to a request |
| `ReportService` | what the uploading thread and the server owe each other | abstract: a report is asked for, taken, acknowledged or given up; one given up may be taken later |
| `UploadProofs` | | theorems about `UploadTask` and what the server sees of it; extends `SmsQueueProofs` |
| `ConcatCache` | the cache of `sms_recv.c` | operators over a cache, a part and the tick counter; no state of its own |
| `RecvTask` | `sms_recv_task`, `urc_cb`, timer, clock; extends `ConcatCache` | the thread and the callback by their positions between shared accesses |
| `RecvProofs` | | lemmas about the operators of `ConcatCache`, theorems about `RecvTask` |
| `AtExec` | `at_exec`, `at_resp_cb`, set-up of `sms_recv_task` | the caller and the callback by their positions; the modem by when it answers |
| `AtExecProofs` | | theorems about `AtExec` |
| `ReportServer` | `sms_debian.cpp` but for the texts, with the device's requests and a stranger's | the server by its position in `main` and `handle_client`; the kernel by its ready list, backlog and descriptors; a stream by the pieces `try_parse_request` tells apart |
| `ReportServerProofs` | | theorems about `ReportServer` |
| `SmsPdu` | `sms_pdu.c` | one operator per function; the reader becomes positions in the octets |
| `ReportText` | the JSON of `net_upload_post`; `pretty_json`, `is_json_scalar`, `json_escape`, the body of `send_wxpusher` | operators over bytes; `pretty_json` one step per character |
| `MessagePath` | one text through `sms_handle_cmt`, the cache, `concat_expire`, the upload and `log_request`; numbers of callers too | uses `SmsPdu`, `ReportText` and an instance of `ConcatCache` |
| `PathProofs` | | lemmas about the operators of `SmsPdu`, theorems about what `MessagePath` makes of notifications |
| `PushProofs` | | lemmas about the operators of `ReportText`, theorems about what `MessagePath` sends on; extends `PathProofs` |
| `Standards` | TS 23.040 and 23.038, RFC 8259 and 3629, as far as needed | what the program is compared with; written from the standards, not from the code |
| `NatFacts` | | lemmas about remainders and least numbers, used by the proof modules |
| `MC...` | | values of the constants for TLC |

The system is checked in pieces that meet at stated places. `UploadTask` and
`ReportServer` meet at `ReportService`: the first has every step of the device and a
server that takes a request or does not, the second every step of the server and a
device that asks, waits, gives up and asks again. Both are shown to implement the same
specification under a refinement mapping (`ReportsToService`, `ServesReports`), so
neither relies on something of the other that does not hold. `RecvTask` and
`MessagePath` meet at `ConcatCache`: the first has the interleavings and treats texts
as tokens, the second has the texts and no interleavings; what becomes of a text
depends on the order of its parts but not on the threads. The rounding of `app.c` is in
`ConcatCache` (`osMsToTicks`).

In `ReportServer` a `recv` returns one piece. A real one may return several at once:
the buffer then has the same bytes, and as a complete request stays complete whatever
follows it, the same verdict, while what it skips are states that look at a prefix of
it. The failure of `epoll_wait` ends the server (`EpollFails`), since the code neither
tries again nor starts it anew. `accept` may fail at any time, and the loop then ends
with connections left in the backlog (`leftBehind`); `epoll_ctl` may refuse a new
descriptor, which `addfd` only prints (`unwatched`). A stranger's stream is finite: the
loop of `handle_client` (`sms_debian.cpp:492-526`) ends when nothing more has come, a
request is complete or the peer closes, so a peer that sends without a pause would hold
the only thread.

Payloads, senders and texts are model values. A long message's part carries the
header fields the code compares and, for the properties only, the message it belongs
to. Variables marked "history" are read by no action's guard.

Definitions introduced by a comment "Variant:" are altered forms of the operator that
follows them, as a slip in the code could have produced it; no specification uses
them. Each property of a passing run has one that breaks it (`PROJECT.json`,
"mutants"): this shows the run reaches the situations the property is about.

### Data races

The buffers shared by callback and task are plain memory. In `RecvTask` a copy is in
progress while `cbPc` is `cmt` (or `clip`). The task decodes the buffer digit by digit, so
a read in that time may give the old message, something that does not decode, or a
mixture that does: any part in `Torn`. A mixture may have any header, one PDU's sender
with the other's reference, part and total among them, so the instances have torn parts
that join the group of another message, or lie past its total or their own.

The lines of the callback that write what it shares are steps of their own (a number's
stamp, its flag and its event; a ring's flag and event; a message's buffer, flag and
event), and so are the task's test of an old number and its dropping it. A pending
flag tested and at once cleared is one step: a callback in between has the effect of one
before it. In `AtExec` the two writes of the callback to `s_at`
are separate steps, and so is the close by a caller that gave up: the callback may
finish between the time-out and the close.

## 3. Runs

| Run | Module | Shows |
| --- | --- | --- |
| `queue.cfg` | `MCSmsQueue` | `TypeOK`, `SeqsConsecutive`, `SaveHoldsWorkLock`, `RestartResumes`; implements `DurableQueue` |
| `upload_safe.cfg` | `MCUploadTask` | safety of the two threads over the queue, with one power failure, lost and delayed requests, one message too long to send |
| `upload_live.cfg` | `MCUploadTask` | `EventuallyReported` |
| `recv_sms.cfg` | `MCRecvTask` | the cache under every interleaving of callback and task, with torn reads and a reference used twice |
| `recv_calls.cfg` | `MCRecvTask` | deadlines, wake-ups and calls, with a task that may be late |
| `at_setup.cfg` | `AtExec` | the set-up's five commands |
| `server.cfg` | `MCReportServer` | the server under retries, a stranger, failing accepts and a failing `epoll_ctl`: `BuffersApart`, `NothingUnseen`, `NobodyStranded`, `ForwardedThenAnswered`; implements `ReportService`; `DeviceIsAnswered` |
| `path.cfg` | `MCMessagePath` | texts: `HeardAsSent`, `CutIsRefused`, `CompleteReadsAsWritten`, `PushCarriesItem`, `PushIsUtf8` |
| `recv_evict.cfg` | `MCRecvTask` | `EvictsOldest` is violated |
| `recv_overwrite.cfg` | `MCRecvTask` | `EverySmsHandled` is violated |
| `recv_clip.cfg` | `MCRecvTask` | `FreshClipKept` is violated |
| `at_stale.cfg` | `AtExec` | `OwnAnswer` is violated |

### Four disagreements between the code and its own words

* `EvictsOldest`: the cache's search for the oldest group (`sms_recv.c:393`) compares
  ticks with `<`. After the tick counter has wrapped it drops the youngest group; the
  log line at 398 says "drop oldest". With 5 ms ticks the counter wraps after 248 days.
* `EverySmsHandled`: a second +CMT before the task has read the first overwrites it
  (`sms_recv.c:302`).
* `FreshClipKept`: `call_handle_ring` reads the clock before the callback stamps the
  number, the unsigned difference is huge, and a fresh number is dropped as old
  (`sms_recv.c:721`).
* `OwnAnswer`: an answer that comes as its command times out leaves a token in the
  semaphore; the next `at_exec` returns at once with what is in `s_at`. `at_setup.cfg`
  checks that this needs the race (`OwnAnswerUnlessRaced`).

### Bounds, and why they are enough

* `queue.cfg`: a ring of 2 slots and a counter modulo 5, from every kind of file:
  none, current and old format with items straddling the end of the ring, and both
  with positions out of range. Slots and counter wrap many times; crashes are unbounded.
* `upload_safe.cfg`: 2 slots and a file with one old message, in the last slot and with
  the last number, so that slots and counter wrap at the first push; three arrivals, so
  the ring fills up while its head is being posted; delays 2..3, so that doubling does
  not hit the maximum; one power failure. There are 5 numbers for the 4 messages, as
  many as `NumbersSuffice` asks for: with 2^32 numbers, `MsgIdsApart` is a claim about
  devices that have not numbered that many items.
  `upload_live.cfg`: nothing stored, two arrivals, and delays that do not change.
* `recv_sms.cfg`: 2 groups of 3 places, and four notifications: a message of two parts, a
  part under the same reference of another sender, and a part of a second message under
  the same reference of the first. A read torn by a copy may give any of six
  mixtures: parts 2 of 2, 3 of 2 and 3 of 3 under the first sender and reference, a part
  under the second sender and either reference, a message of one part. So completion,
  eviction, expiry, a part read twice, a reference used again, and a part past the total of
  its group all occur. The clock has 4 bits, starts 2 ticks before it wraps and runs for 4
  (a group expires after 3).
  `MaxLag` is 0: a round of the task takes no time.
* `recv_calls.cfg`: a ring with a short message, and a ring with its number and a part,
  with two mixtures; `MaxLag` is 1, so that time passes between any two steps of a round.
  `MaxClock` covers two reports of a call with the ignored time between them.
* `recv_evict.cfg` takes three messages for its two groups; `recv_overwrite.cfg` and
  `recv_clip.cfg` take the notifications of `recv_sms.cfg` and `recv_calls.cfg`.
* `at_setup.cfg`: the code's own five commands (`Cmds`), the second of them the other try of
  the first (`Fallbacks`); result codes 0 and 1.
* The `recv` runs take milliseconds that are no multiples of a tick (13 ms are 3 ticks).
* `server.cfg`: two reports, three connections of which one may be a stranger's, two
  descriptors and a backlog of two. That is enough for a retry beside the request it
  repeats, a descriptor used again while another is open, accept failing with and without
  a free one, and a connection that comes while others are accepted. `epoll_ctl` fails
  once at most (`MaxUnwatched`). A stranger sends a request without a length or no request;
  as no piece need ever come, requests that are never finished occur too.
* `path.cfg`: messages of up to two characters from sets that have every length of
  encoding and everything that is escaped, runs of septets around the octet boundary
  with an escape there, one to four parts in every order with a reference of either
  size, every prefix of every notification. Among them are a character 0 and an octet 0
  inside a text, messages of the class and waiting groups of the data coding in each
  alphabet they have, and a character of a national table. The arrays are small (a part 7 bytes, an item
  42, a body 160), so that each is filled to its limit and beyond by some message; what
  the limits do does not depend on their size. `SMS_SENDER_MAX` is the code's.

The `recv` runs stop at `MaxClock`, the `at` runs when the set-up is over, `path` with
the message (or with an item that does not fit its request), and `server` when its
connections are used up or the server has ended: the models end there and deadlock is
not checked. In the other runs it is.

### What holds only with a premise

Some of the text's properties have a premise that names a limit of the code; the
instances contain messages on both sides of it.

* A part is cut at 255 bytes and a text at 767, wherever that falls. If it falls inside
  a character, or a surrogate pair was torn apart by the sender's splitting, what goes to
  wxpusher is not UTF-8 (`PushIsUtf8`). Its refusal is ignored and the device is
  answered 200. Parts of 153 septets can be longer than 255 bytes if their characters
  are not ASCII; then `CompleteReadsAsWritten` does not apply either.
* `decode_address` gives national numbers a plus, because bit 7 of the type of number is
  set for all types, and refuses most alphanumeric senders; `decode_scts` looks for the
  zone's sign in bit 7 where the standard has it in bit 3, so zones west of Greenwich lose
  it, and counts of quarters ending in 8 or 9 are given one (`HeardAsSent`).
* A message of more than `SMS_CONCAT_MAX_PARTS` parts is never whole.
* The decoder returns a C string: a text ends at its first character or octet 0. What
  the properties compare with is the text up to there, part by part (`Said`).
* `dcs_encoding` (`sms_pdu.c:230-241`) looks at two bits of the data coding. That is right
  for the general group and the class group, but in the groups for waiting messages those
  bits say what is waiting: UCS2 (0xE0) is read as septets and the default alphabet (0xC8)
  as UCS2. Of such a message (`coding = "waiting"`) nothing is promised, not even that one cut short is refused,
  since its length is misread too. Compressed text is not in the model.
* The elements of a header that announce a national table are skipped, and the characters
  of that table come out as others: of such a message (`coding = "shifted"`) all is
  promised but its text.
* Two messages of one sender under one reference, a part numbered beyond its total, or a
  torn read that bears a known sender and reference disturb what is collected there:
  `CompleteIsWhole` and `NoPartVanishes` are stated for a sender and reference that is
  `Undisturbed`, and of the others say only where parts may end up.
* A message that a power failure took from the queue may still be on its way to the
  server, and arrive after younger ones. `FirstArrivalsInOrder` is about the others.
* `MsgIdsApart` ends with a restart that sets the counter back (`rolledBack`): the code then
  gives numbers out twice.
* `CallsApart` is about the distance of reports, not about calls, which have no identity
  here: a phone that rings for longer than the ignored time and a window is reported
  again. `FlagWakesTask` is about messages and rings; a number alone starts nothing.

### Fairness

`upload_live.cfg` assumes: the threads run (weak fairness of the steps in the queue and
of the uploading thread, both at normal priority of a preemptive system); the network
comes back, and not only while the thread sleeps; creating the client, sending,
serving and answering succeed infinitely often if tried infinitely often (strong
fairness). Nothing obliges a message to arrive or power to fail. All messages fit the
request's buffer: one that does not is never reported, nor any behind it.
`at_setup.cfg` assumes only that the task runs and that `osSemaphoreAcquire` returns
after its time-out; the modem need not answer.
`server.cfg` assumes weak fairness of the server's steps together: it has one thread,
which the system runs, and none of its calls blocks for ever (client sockets do not
block, those to wxpusher have time-outs of 5 s; `getaddrinfo` is trusted to return). It
assumes nothing of peers and network: `DeviceIsAnswered` starts from a request that has
come whole, and promises an answer, the device's giving up, or one of the three ways in
which the code fails it: a connection left in the backlog by a failed accept, one whose
descriptor `epoll_ctl` refused, and the end of the server. It supposes that strangers' streams end. `PeerClosedSpins`, the mutant that breaks it, loops at the end of a
stranger's stream.

## 4. Proofs

`SmsQueueProofs` proves, for every `SMS_QUEUE_MAX` and `SEQ_MOD` above 0, every set of
payloads and every set of initial files that satisfies `BootAssumption` (a file of
either format whose items are numbered consecutively, one with positions out of range,
or no usable file):

* `QueueTypeOK`, `QueueSeqsConsecutive`, `QueueSaveHoldsWorkLock`, `QueueRestartResumes`:
  the four invariants of `queue.cfg`;
* `QueueImplementsDurableQueue`: the refinement.

The inductive invariant `IndInv` adds to the checked invariants that a save is in
progress only while the device is up, and that between write and close the file holds
the ring unless the write was short. The first is needed for the work lock's count
after a crash, the second for `RestartResumes` at the close. `SeqsConsecutive` is
inductive given the types: enqueueing writes the slot behind the last, which differs
from all pending ones as long as the ring is not full, and the new number is one more
than the last item's. Lemmas state this arithmetic modulo the ring's size once
(`Slot` stays in range, shifting the head by one shifts the slots, distinct offsets
give distinct slots), and what enqueueing and dequeueing do to the abstract sequence:
`Append` and `Tail`. The refinement maps a push to `Accept`, a pop to `Remove`, the
truncating open to `Spoil`, the write to `Store`, and every other step to a stutter.

`UploadProofs` proves about `UploadTask`, further for every set of arrivals, every choice
of delays with the minimum above 0 and not above the maximum, every number of power
failures, and any initial file that holds messages (`BootContents`):

* `UploadTypeOK`, `UploadNoLostWakeup`, `UploadPopsWhatWasPosted`,
  `UploadWorkLockBalanced`, `UploadNothingLost`, `UploadFirstArrivalsInOrder`,
  `UploadMsgIdsApart`: the seven invariants of `upload_safe.cfg`;
* `UploadReportsToService`: the refinement.

`UploadTask` changes the queue by the actions of `SmsQueue`, so the lemmas about
`Enqueue`, `Dequeue` and `QueueLoad` are those of `SmsQueueProofs`. The invariant
`UIndInv` is proved conjunct by conjunct:

* `NoLostWakeup` is inductive by itself. The step that matters is the end of a push:
  the mutex is released and `signal` is set in one step, and the event replaces it.
* `PopsWhatWasPosted` needs the ring's bounds (`RingInBounds`): a push writes behind
  the last item, which is never the head of a ring that is not empty (`HeadKept`).
* `WorkLockBalanced` needs `Lifecycle`: a half-made client exists only inside
  `net_upload_init`, the mutex is held exactly during a save, a thread that holds it
  for a pop is at that pop, and a device that is off has none of these.

`NothingLost` needs one more fact, `Reported`: a request in progress belongs to the
post the thread is in, and if it was served, or the thread is about to pop, the server
has been handed the item. With `PopsWhatWasPosted` this makes the item that a pop
removes a received one (`DequeueContents`). A push adds its content and removes none
(`EnqueueContents`), and what a power failure removes is by definition excused.

What the server sees is proved from one lemma (`StepShape`): as far as the items are
concerned a step is a push, a pop, a start, a power failure or none of these. The
invariants below were checked by TLC on the instance of `upload_safe.cfg` before they
were proved.

* `FirstArrivalsInOrder` needs `OrderInv`: a content is accepted once; what the ring
  holds, and what the file would give back, are accepted contents in the order of
  acceptance (`InOrder`); and before an item that is on its way to the server, or was
  received, all that was accepted earlier is received or was taken by a power failure
  (`NoneOvertakes`); one so taken is outside the claim, early or late. The
  last is where `NothingLost` enters: when the thread peeks at the head, whatever was
  accepted before it is not pending, since the ring is in order, and so it has been
  received or excused. The file need not be the ring: after a failed save a restart
  brings back items that were popped, and `InOrder` of the file keeps them in place. The
  theorem supposes `MessagesDistinct`, for contents stand for messages here: of two equal
  ones nobody could say which arrived first.
* `MsgIdsApart` needs `NumberInv`: unless a power failure has set the counter back, an
  item that is pending, stored, on its way or received has the number that its place in
  the history of acceptance gives it, counted back from the counter
  (`(seq + Len(accepted) - i) % SEQ_MOD = Counter`). Two items with one number are then
  accepted a multiple of `SEQ_MOD` apart, and `AcceptedBounded` leaves no room for that
  if `NumbersSuffice`. What `SeqsConsecutive` says of neighbours becomes a statement
  about all pending items by taking the least offset that is wrong
  (`ConsecutiveNumbers`): `HasLeast` of `NatFacts` stands in for an induction.
* `ReportsToService` needs that nothing but contents is stored (`StoredContents`), so
  that the thread never asks for the empty item, and that a thread in a request has one
  (`InRequest`). The step that sends maps to `Ask`, the server's to `Take` or `TakeLate`,
  an answer to `Acknowledge` or `GiveUp`, a pop to the end of the report; a power failure
  gives a request up.

`RecvProofs` proves about `RecvTask`, for any number of groups and places, any clock
whose width exceeds the three intervals, wherever it starts, any parts, and any delay
`MaxLag` of the task:

* `RecvTypeCorrect`, `NotesWakeTask`, `CacheStaysCoherent`, `TimerCoversGroups`,
  `GroupsEndInTime`, `WindowsEndInTime`, `ReportsStandApart`: `RTypeOK`, `FlagWakesTask`,
  `GroupsCoherent`, `ExpiryArmed`, `GroupsLeaveInTime`, `WindowEndsInTime`, `CallsApart`;
* `CompleteMessagesWhole` and `PartsAccountedFor`: `CompleteIsWhole` and `NoPartVanishes`.

None has a hypothesis on what is sent or read: parts may be numbered beyond their total,
references may be used by several messages, and a torn read may bring any header.

The inductive invariant `RIndInv` is `RTypeOK` with

* `CacheInv`: each group holds parts of its own sender and reference, each at its place,
  as many as it counts, fewer than its total while it waits, and no two groups have one
  key. A lemma is proved for each operation of the cache; two of them say
  why the group found is the right one, namely that the part's key belongs to it and, when
  there is no such group, to none.
* `NotedInv`: a flag that is set has its event set, or is about to be read or signalled.
* `TimerInv`: of each waiting group, while the task sleeps, its age and what the timer
  has left are within the expiry time, or one tick is left, or the event is set; when
  the task starts the timer, no group's age exceeds the expiry time by the lag. `ExpiryArmed` alone is
  not inductive: it does not say how old the other groups are when the timer is started
  for the one that ends first. Ages are differences modulo the width of the clock, and
  `ModAdd` and `ModInject` show that they grow by one with each tick as long as they stay
  below that width; this is where the assumption `TIMEOUT_TICKS < TICK_MOD` is used.
* `WindowInv`: the same for the wait that ends a call's window.
* `CallsInv`: `s_call_last_tick` and the start of the window are ticks of moments not
  before the last report. The program compares ticks, which wrap; `CallsApart` compares
  moments, which do not. The difference of two ticks is never more than that of their
  moments, so what the program finds far enough apart is.

`CompleteIsWhole` and `NoPartVanishes` distinguish what no reading of a torn buffer could
spoil from what one can. That a part is only ever put in a group of its own sender and
reference, at its own number, is part of `CacheInv` and holds always. That the group is
one message, whole, and that a part is dropped only where a full cache or queue drops it,
needs `Undisturbed(handled, sender, ref)`: all that was decoded under this sender and
reference is of one message, numbered up to a total the cache has room for, and not torn.
Since `handled` only grows, the premise held before whenever it holds now, and the rest of
the cache does not matter to it. It cannot be dropped: a part beyond the total its group
was opened with is refused without an item, and a reference used again joins two messages.

`AtExecProofs` proves about `AtExec`, for any number of commands, any of them second tries
of those before them, and any result codes:

* `AtTypeCorrect`, `AnswersAreOwn`, `CallsLeaveChannelClosed`: the three invariants of
  `at_setup.cfg`; and `WorkLockReturned`, that the work lock is held exactly inside
  `at_exec`.

The inductive invariant `AIndInv` adds `ChannelInv`: unless an answer has raced a
time-out, the channel is quiet between calls, open without a token when the command is
sent, and while the caller waits, closed only by the callback of this very command, after
it has stored result and text and with one token to come or there (`Waited`).

`ReportServerProofs` proves about `ReportServer`, for any number of connections and
descriptors, any backlog and list of reports, and every set of streams strangers send:

* `ServerTypeOK`, `ServerBuffersApart`, `ServerNothingUnseen`, `ServerNobodyStranded`,
  `ServerForwardedThenAnswered`: the five invariants of `server.cfg`;
* `ServerServesReports`: the refinement.

The inductive invariant `SIndInv` adds to the five:

* `Placed`: while the server is inside `handle_client` it works on one open descriptor
  that has no second event in the batch, and every event is for an open descriptor.
  Without it a `close` could leave an event behind that a new connection with the same
  number would get. `BuffersApart` and `NothingUnseen` are inductive given this.
* `Distinct`: a connection has one descriptor or one place in the backlog, and has been
  used. So what is done for one connection leaves the others alone.
* `NotYet`: nothing was forwarded for a connection in the backlog, nor for an open one
  before the server is about to answer it. From this `forwards[c] <= 1`.
* `InOrder`: what a buffer, the socket and the network hold of a report's request is, in
  this order, a part of the request without a gap (`Follows`). It may be cut off at the
  end but nowhere else. With `RequestVerdict` it follows that a verdict on a report is
  "incomplete" until the whole has come, and never "bad" or "not JSON".
* `WholeFirst`: the server goes to `send_wxpusher` only with a complete request, and
  answers a report only after it.
* `Attempt`: the device's connection carries the head of its queue.

The refinement maps `Forwards` to `Take` or, for a connection the device has given up,
to `TakeLate`; the device's four steps to `Ask`, `Acknowledge`, `GiveUp` and `Finish`;
and every other step, the server's end and strangers' connections among them, to a
stutter. `DeviceAnswered` is an `Acknowledge` because of `ForwardedThenAnswered`.

`PathProofs` proves about `MessagePath`, for any notifications and any sizes of the
arrays:

* `PathTypeCorrect`: `PTypeOK`, that no text or sender outgrows its array. What has to be
  shown is that everything on the way is a string: the fields of a PDU that passes the
  tests of `Decodable` are there (`FieldsAre`), a septet that `get_septet` finds has a
  character (`SeptetIs`), every alphabet gives bytes (`Gsm7IsString`, `Ucs2IsString`,
  `EightBitIsString`), and so do the elements of a header and a group with gaps
  (`PlaceIs`, `AssembledIs`).
* `CutNotificationsRefused`: `CutIsRefused`, if the PDUs, but for those of a coding
  misread, are as long as they say (`PdusEndWhole`). A cut notification has fewer digits, and the same as far as they go
  (`RestOfCut`, `FewerOctets`); a PDU tells its length in octets that any decodable prefix
  of it still has (`LengthIsTold`), so none is decodable.
* `LongMessagesReadWhole`: `CompleteReadsAsWritten`, if besides a PDU in a known coding
  decodes to its part's text, up to a character 0, and place (`PdusReadAsSent`) and parts are numbered (`PartsNumbered`). The invariant
  `Gathers` says that a group holds parts of the message in their places, counts them and
  expects as many as there are; a complete group then has them all (`CompleteReads`).

`PushProofs` goes on from there, for any sizes of the arrays:

* `PushedItemsArrive`: `PushCarriesItem`, for any notifications and without a premise.
* `PushedIsUtf8`: `PushIsUtf8`, under the three premises above and that a caller's number
  is in ASCII (`CallsAscii`).

`pretty_json`, the reader of JSON and the reader of UTF-8 take a string byte by byte.
`Runs(kind, a, w, b)` says of any of the three that it comes from the state `a` to `b`
over the string `w`; runs can be joined (`RunJoin`, `RunFlatten`), so a text is followed
piece by piece, down to one escaped byte. Two lemmas carry the argument:

* `Carries`: whatever bytes an escaping is given, the reader of JSON gets them back, and
  what was UTF-8 stays so. It holds of both escapings, the device's and the server's.
* `Literal`: `pretty_json` copies an escaped string and is outside of it only at its end:
  an escaped quotation mark never looks like the closing one, nor a bracket or blank in a
  text like structure. Between the strings, `Passes` leads from one place of the
  object to the next. Together they give `UploadPretty`: the JSON of every item is
  accepted, with its strings and its UTF-8 kept.

The invariant `PushInv` says that what is posted is the item's JSON and what is pushed is
made of it. `TextInv` is needed for UTF-8: senders are ASCII, and if the message sent is
without fault (`Spotless`) an item's text is UTF-8 or has filled its array (`Sound`). A
text put together of parts is shown to be so from `Gathers`: each part is there as it was
sent, or there is a mark for it. TLC checked `TextInv` on the instance of `path.cfg`
before it was proved. `MarkAssumption` bounds the parts by 99, since `Mark` writes two
figures; the code has 10.

The premises `PdusEndWhole` and `PdusReadAsSent` are what `path.cfg` checks of each of its
messages: `HeardAsSent` states them of the notification that has come whole.
`MCMessagePath` assumes the other two, which TLC evaluates.

The decoders are recursive functions, written as the loops they stand for. Instead of an
induction over the text, for which the library's theorems cannot be used, the proofs take
the last place from where on the claim does not fail (`HasLeast`): `Unrolled` describes
a function that reads a string piece by piece, `UnrollExists` shows that there is one,
and `UnrollTyped` that it gives a string if its pieces are strings. `FlattenJoins` does
the same for the library's `FlattenSeq`.

Only model-checked:

* All liveness (`EventuallyReported`, `SetUpTerminates`, `DeviceIsAnswered`), which is
  beyond the prover.
* Of `MessagePath`: `HeardAsSent`, which compares what `SmsPdu` reads with what
  `Standards` says was sent. It is about the messages of the instance, whose octets
  `Standards` computes; in general it would say that the decoders undo the encoding of
  every text in every alphabet, and the packing of septets across octets above all; that
  has not been attempted. `PathProofs` and `PushProofs` use it as a premise where they
  depend on it.
* The four properties that the code violates.

## 5. Not modelled

* The reading of IMEI and IMSI, a part of `msg_id` that is constant per device: the
  model's `msg_id` is the sequence number.
* Of a report's JSON the members `msg_id`, `imei`, `imsi`, `type` and `scts`: plain text
  that is handled like the others. cJSON's printer is modelled from its use (external).
* The reply of wxpusher: `parse_wxpusher_code` only chooses what is logged, and the
  result of `send_wxpusher` is not used by its caller.
* Header lines but for the length and the request line; the path, which is only logged.
* A handle that `cm_httpclient_create` returns together with an error: `net_upload_init`
  forgets it (`net_upload.c:119-122`), and what the library keeps for it is outside.
* Compressed text, and strangers that never stop sending (section 2).
* The delays of `osDelayMs`: a thread that waits may wait for any time. The wrappers that
  create threads and timers.
* The test server, which keeps no state, and the debug scan, which is compiled out.

## 6. Plan

1. Done: queue with its refinement and proofs; uploading; receiving; AT channel.
2. Done: the report server and its composition with the device at `ReportService`; the
   decoding of PDUs and the path of a text from the network to wxpusher; ticks.
3. Done: the proofs of every invariant, action property and refinement that a run checks
   and finds to hold, but for `HeardAsSent`.
4. Left: `HeardAsSent` for every text of an alphabet; liveness, if a prover is at hand
   that reaches it.
