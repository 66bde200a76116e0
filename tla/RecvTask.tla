------------------------------ MODULE RecvTask ------------------------------
(***************************************************************************)
(* applaction/sms_recv.c: sms_recv_task, the URC callback that runs in     *)
(* the modem's thread and interrupts it anywhere, the timer of the long-   *)
(* message cache, and the tick counter.                                    *)
(*                                                                         *)
(* pc is the task's position in its loop:                                  *)
(*   start   set-up, before the loop       ring     test of s_ring_pending *)
(*   wait    osEventFlagsWait              ringing  call_handle_ring       *)
(*   cmt     test of s_cmt_pending         stale    its test of the +CLIP  *)
(*   read    sms_handle_cmt                drop     a stale one dropped    *)
(*   expire  concat_expire                 window   call_handle_window     *)
(*   rearm   concat_timer_rearm            report   its second half        *)
(* cbPc is the callback's: clip and cmt while it copies the URC into a      *)
(* buffer; stamp, and clipFlag, ring, cmtFlag and clipSignal, ringSignal,  *)
(* cmtSignal, for the lines that set a pending flag and an event.          *)
(***************************************************************************)
EXTENDS ConcatCache

CONSTANTS
  CALL_CLIP_WINDOW_MS,
  CALL_DEDUP_MS,
  Urcs,          \* the URCs to come: [id, clip, ring, cmt]
  NoNumber,      \* no +CLIP: in the URC, or an unknown caller
  TornNumber,    \* a number read while the callback copies another over it
  BootTick,      \* osKernelGetTickCount() at the start
  MaxClock,      \* ticks considered
  MaxLag         \* ticks the task may be late by in one round of its loop

WINDOW_TICKS == osMsToTicks(CALL_CLIP_WINDOW_MS)
DEDUP_TICKS  == osMsToTicks(CALL_DEDUP_MS)

ASSUME RecvAssumption ==
  /\ CALL_CLIP_WINDOW_MS \in Nat
  /\ CALL_DEDUP_MS \in Nat
  /\ WINDOW_TICKS < TICK_MOD
  /\ DEDUP_TICKS < TICK_MOD
  /\ BootTick \in Ticks
  /\ MaxClock \in Nat
  /\ MaxLag \in Nat
  /\ \A u \in Urcs : u.ring \in BOOLEAN /\ u.cmt \in Parts \cup {NoPart}

VARIABLES
  clock,               \* ticks since the start
  slack,               \* how many more ticks this round may take
  s_concat_timer,      \* ticks until the timer fires, TimerOff when stopped
  s_evt,               \* event flags set
  waitLeft,            \* ticks until osEventFlagsWait times out, or Forever
  pc, cbPc,
  urc,                 \* the URC the callback is handling
  coming,              \* the URCs still to come
  s_cmt_buf, s_cmt_pending,
  s_clip_buf, s_clip_pending, s_clip_tick, s_ring_pending,
  now,                 \* call_handle_ring's local
  number,              \* call_handle_window's local
  s_call_collecting, s_call_window_tick, s_call_last_tick, s_call_reported,
  s_concat,
  handled,             \* history: parts decoded
  pushed,              \* history: items queued, [how, sender, ref, text]
  lost,                \* history: parts evicted or refused by a full queue
  calls                \* history: calls pushed, [number, at]

timevars == <<clock, slack, s_concat_timer, waitLeft>>
cbvars   == <<cbPc, urc, coming>>
cmtvars  == <<s_cmt_buf, s_cmt_pending>>
clipvars == <<s_clip_buf, s_clip_pending, s_clip_tick, s_ring_pending>>
callvars == <<now, number, s_call_collecting, s_call_window_tick,
              s_call_last_tick, s_call_reported>>
history  == <<handled, pushed, lost, calls>>
rvars    == <<timevars, s_evt, pc, cbvars, cmtvars, clipvars, callvars, s_concat, history>>

Forever == -1
Flags   == {"cmt", "timeout", "ring", "clip"}
NoUrc   == [id |-> 0, clip |-> NoNumber, ring |-> FALSE, cmt |-> NoPart]
Numbers == {u.clip : u \in Urcs} \cup {NoNumber}
Tick    == (BootTick + clock) % TICK_MOD

RInit ==
  /\ clock = 0 /\ slack = MaxLag
  /\ s_concat_timer = TimerOff /\ waitLeft = Forever
  /\ s_evt = {}
  /\ pc = "start" /\ cbPc = "idle" /\ urc = NoUrc /\ coming = Urcs
  /\ s_cmt_buf = NoPart /\ s_cmt_pending = FALSE
  /\ s_clip_buf = NoNumber /\ s_clip_pending = FALSE /\ s_clip_tick = 0
  /\ s_ring_pending = FALSE
  /\ now = 0 /\ number = NoNumber
  /\ s_call_collecting = FALSE /\ s_call_window_tick = 0
  /\ s_call_last_tick = 0 /\ s_call_reported = FALSE
  /\ s_concat = [i \in GroupIds |-> EmptyGroup]
  /\ handled = {} /\ pushed = {} /\ lost = {} /\ calls = <<>>

----------------------------------------------------------------------------
(* urc_cb *)

\* The order in which the callback looks for the three kinds of URC.
AfterRing(u) == IF u.cmt # NoPart THEN "cmt" ELSE "idle"
AfterClip(u) == IF u.ring THEN "ring" ELSE AfterRing(u)
First(u)     == IF u.clip # NoNumber THEN "clip" ELSE AfterClip(u)

UrcArrives(u) ==
  /\ cbPc = "idle"
  /\ u \in coming
  /\ coming' = coming \ {u}
  /\ urc' = u
  /\ cbPc' = First(u)
  /\ UNCHANGED <<timevars, s_evt, pc, cmtvars, clipvars, callvars, s_concat, history>>

ClipCopied ==
  /\ cbPc = "clip"
  /\ s_clip_buf' = urc.clip
  /\ cbPc' = "stamp"
  /\ UNCHANGED <<timevars, s_evt, pc, urc, coming, cmtvars, s_clip_pending, s_clip_tick,
                 s_ring_pending, callvars, s_concat, history>>

ClipStamped ==
  /\ cbPc = "stamp"
  /\ s_clip_tick' = Tick
  /\ cbPc' = "clipFlag"
  /\ UNCHANGED <<timevars, s_evt, pc, urc, coming, cmtvars, s_clip_buf, s_clip_pending,
                 s_ring_pending, callvars, s_concat, history>>

ClipFlagged ==
  /\ cbPc = "clipFlag"
  /\ s_clip_pending' = TRUE
  /\ cbPc' = "clipSignal"
  /\ UNCHANGED <<timevars, s_evt, pc, urc, coming, cmtvars, s_clip_buf, s_clip_tick,
                 s_ring_pending, callvars, s_concat, history>>

ClipSignalled ==
  /\ cbPc = "clipSignal"
  /\ s_evt' = s_evt \cup {"clip"}
  /\ cbPc' = AfterClip(urc)
  /\ UNCHANGED <<timevars, pc, urc, coming, cmtvars, clipvars, callvars, s_concat, history>>

RingFlagged ==
  /\ cbPc = "ring"
  /\ s_ring_pending' = TRUE
  /\ cbPc' = "ringSignal"
  /\ UNCHANGED <<timevars, s_evt, pc, urc, coming, cmtvars, s_clip_buf, s_clip_pending,
                 s_clip_tick, callvars, s_concat, history>>

RingSignalled ==
  /\ cbPc = "ringSignal"
  /\ s_evt' = s_evt \cup {"ring"}
  /\ cbPc' = AfterRing(urc)
  /\ UNCHANGED <<timevars, pc, urc, coming, cmtvars, clipvars, callvars, s_concat, history>>

\* Into the one buffer, which the task may be reading meanwhile.
CmtCopied ==
  /\ cbPc = "cmt"
  /\ s_cmt_buf' = urc.cmt
  /\ cbPc' = "cmtFlag"
  /\ UNCHANGED <<timevars, s_evt, pc, urc, coming, s_cmt_pending, clipvars, callvars,
                 s_concat, history>>

\* Variant: the pending flag set without the event.
CmtFlaggedOnly ==
  /\ cbPc = "cmtFlag"
  /\ s_cmt_pending' = TRUE
  /\ cbPc' = "idle"
  /\ UNCHANGED <<timevars, s_evt, pc, urc, coming, s_cmt_buf, clipvars, callvars, s_concat,
                 history>>

CmtFlagged ==
  /\ cbPc = "cmtFlag"
  /\ s_cmt_pending' = TRUE
  /\ cbPc' = "cmtSignal"
  /\ UNCHANGED <<timevars, s_evt, pc, urc, coming, s_cmt_buf, clipvars, callvars, s_concat,
                 history>>

CmtSignalled ==
  /\ cbPc = "cmtSignal"
  /\ s_evt' = s_evt \cup {"cmt"}
  /\ cbPc' = "idle"
  /\ UNCHANGED <<timevars, pc, urc, coming, cmtvars, clipvars, callvars, s_concat, history>>

Callback ==
  \/ ClipCopied \/ ClipStamped \/ ClipFlagged \/ ClipSignalled
  \/ RingFlagged \/ RingSignalled
  \/ CmtCopied \/ CmtFlagged \/ CmtSignalled

----------------------------------------------------------------------------
(* sms_recv_task: waiting, and messages *)

\* call_window_ticks
WindowTicks ==
  IF Since(Tick, s_call_window_tick) >= WINDOW_TICKS THEN 1
  ELSE WINDOW_TICKS - Since(Tick, s_call_window_tick)

\* Variant: an open window does not bound the wait.
GoWaitForever ==
  /\ pc' = "wait"
  /\ waitLeft' = Forever
  /\ slack' = MaxLag

\* The top of the loop: how long to wait.
GoWait ==
  /\ pc' = "wait"
  /\ waitLeft' = IF s_call_collecting THEN WindowTicks ELSE Forever
  /\ slack' = MaxLag

SetUpDone ==
  /\ pc = "start"
  /\ GoWait
  /\ UNCHANGED <<clock, s_concat_timer, s_evt, cbvars, cmtvars, clipvars, callvars, s_concat,
                 history>>

\* osEventFlagsWait clears the flags it returns for.
Wakes ==
  /\ pc = "wait"
  /\ s_evt # {} \/ waitLeft = 0
  /\ s_evt' = {}
  /\ pc' = "cmt"
  /\ UNCHANGED <<timevars, cbvars, cmtvars, clipvars, callvars, s_concat, history>>

TakesCmt ==
  /\ pc = "cmt"
  /\ pc' = IF s_cmt_pending THEN "read" ELSE "ring"
  /\ s_cmt_pending' = FALSE
  /\ UNCHANGED <<timevars, s_evt, cbvars, s_cmt_buf, clipvars, callvars, s_concat, history>>

\* What sms_handle_cmt may make of the buffer: it reads byte by byte, and a read that
\* overlaps the callback's copy may decode to a mixture ...
Readable == {s_cmt_buf} \cup IF cbPc = "cmt" THEN Torn ELSE {}

\* ... or does not decode.
ReadsTorn ==
  /\ pc = "read"
  /\ cbPc = "cmt"
  /\ pc' = "ring"
  /\ UNCHANGED <<timevars, s_evt, cbvars, cmtvars, clipvars, callvars, s_concat, history>>

\* What is queued; ref is not in the code's item, it tells whose parts the text holds.
Item(how, sender, ref, text) == [how |-> how, sender |-> sender, ref |-> ref, text |-> text]

\* A message of one part, which sms_push_item queues or, if the queue refuses it, drops.
ReadsSingle(p) ==
  /\ pc = "read"
  /\ p \in Readable
  /\ ~Long(p)
  /\ handled' = handled \cup {p}
  /\ \/ pushed' = pushed \cup {Item("single", p.sender, p.ref, <<p>>)} /\ UNCHANGED lost
     \/ lost' = lost \cup {p} /\ UNCHANGED pushed
  /\ pc' = "ring"
  /\ UNCHANGED <<timevars, s_evt, cbvars, cmtvars, clipvars, callvars, s_concat, calls>>

PartsOf(g) == {g.parts[k] : k \in Places} \ {NoPart}

ReadsPart(p) ==
  /\ pc = "read"
  /\ p \in Readable
  /\ Long(p)
  /\ handled' = handled \cup {p}
  /\ s_concat' = CacheAfter(s_concat, p, Tick)
  /\ s_concat_timer' = Rearm(s_concat', Tick)
  /\ LET g == WithPart(s_concat, p, Tick)
         evicted == IF Evicts(s_concat, p) THEN PartsOf(s_concat[Target(s_concat, p)]) ELSE {}
     IN  IF Complete(g)
         THEN \/ /\ pushed' = pushed \cup {Item("concat", p.sender, p.ref, Assemble(g))}
                 /\ lost' = lost \cup evicted
              \/ /\ lost' = lost \cup evicted \cup PartsOf(g)
                 /\ UNCHANGED pushed
         ELSE lost' = lost \cup evicted /\ UNCHANGED pushed
  /\ pc' = "ring"
  /\ UNCHANGED <<clock, slack, waitLeft, s_evt, cbvars, cmtvars, clipvars, callvars, calls>>

\* concat_expire: every overdue group is queued as it stands.
Expires ==
  /\ pc = "expire"
  /\ s_concat' = CacheAfterExpire(s_concat, Tick)
  /\ \E refused \in SUBSET Overdue(s_concat, Tick) :
       /\ lost' = lost \cup UNION {PartsOf(s_concat[i]) : i \in refused}
       /\ pushed' = pushed \cup
            {Item("timeout", s_concat[i].sender, s_concat[i].ref, Assemble(s_concat[i])) :
               i \in Overdue(s_concat, Tick) \ refused}
  /\ pc' = "rearm"
  /\ UNCHANGED <<timevars, s_evt, cbvars, cmtvars, clipvars, callvars, handled, calls>>

Rearms ==
  /\ pc = "rearm"
  /\ s_concat_timer' = Rearm(s_concat, Tick)
  /\ GoWait
  /\ UNCHANGED <<clock, s_evt, cbvars, cmtvars, clipvars, callvars, s_concat, history>>

----------------------------------------------------------------------------
(* sms_recv_task: calls *)

AfterCalls == IF s_call_collecting THEN "window" ELSE "expire"

\* Entering call_handle_ring reads the tick counter.
TakesRing ==
  /\ pc = "ring"
  /\ s_ring_pending
  /\ s_ring_pending' = FALSE
  /\ now' = Tick
  /\ pc' = "ringing"
  /\ UNCHANGED <<timevars, s_evt, cbvars, cmtvars, s_clip_buf, s_clip_pending, s_clip_tick,
                 number, s_call_collecting, s_call_window_tick, s_call_last_tick,
                 s_call_reported, s_concat, history>>

NoRing ==
  /\ pc = "ring"
  /\ ~s_ring_pending
  /\ pc' = AfterCalls
  /\ UNCHANGED <<timevars, s_evt, cbvars, cmtvars, clipvars, callvars, s_concat, history>>

\* Variant: the ignored time after a report left out.
SameCallNoDedup == s_call_collecting

SameCall ==
  \/ s_call_collecting
  \/ s_call_reported /\ Since(now, s_call_last_tick) < DEDUP_TICKS

RingIgnored ==
  /\ pc = "ringing"
  /\ SameCall
  /\ pc' = AfterCalls
  /\ UNCHANGED <<timevars, s_evt, cbvars, cmtvars, clipvars, callvars, s_concat, history>>

\* A new call.
RingOpensWindow ==
  /\ pc = "ringing"
  /\ ~SameCall
  /\ s_call_collecting' = TRUE
  /\ s_call_window_tick' = now
  /\ pc' = "stale"
  /\ UNCHANGED <<timevars, s_evt, cbvars, cmtvars, clipvars, now, number, s_call_last_tick,
                 s_call_reported, s_concat, history>>

\* A +CLIP older than a window is to be dropped; a newer one may come before it is.
ClipTested ==
  /\ pc = "stale"
  /\ pc' = IF s_clip_pending /\ Since(now, s_clip_tick) > WINDOW_TICKS THEN "drop"
            ELSE "window"
  /\ UNCHANGED <<timevars, s_evt, cbvars, cmtvars, clipvars, callvars, s_concat, history>>

ClipDropped ==
  /\ pc = "drop"
  /\ s_clip_pending' = FALSE
  /\ pc' = "window"
  /\ UNCHANGED <<timevars, s_evt, cbvars, cmtvars, s_clip_buf, s_clip_tick, s_ring_pending,
                 callvars, s_concat, history>>

WindowOpen == Since(Tick, s_call_window_tick) < WINDOW_TICKS

StillCollecting ==
  /\ pc = "window"
  /\ WindowOpen
  /\ pc' = "expire"
  /\ UNCHANGED <<timevars, s_evt, cbvars, cmtvars, clipvars, callvars, s_concat, history>>

WindowCloses ==
  /\ pc = "window"
  /\ ~WindowOpen
  /\ number' \in IF ~s_clip_pending THEN {NoNumber}
                  ELSE IF cbPc = "clip" THEN {s_clip_buf, TornNumber} ELSE {s_clip_buf}
  /\ pc' = "report"
  /\ UNCHANGED <<timevars, s_evt, cbvars, cmtvars, clipvars, now, s_call_collecting,
                 s_call_window_tick, s_call_last_tick, s_call_reported, s_concat, history>>

\* The call counts as reported whether or not the queue takes it.
ReportsCall ==
  /\ pc = "report"
  /\ s_call_collecting' = FALSE
  /\ s_clip_pending' = FALSE
  /\ s_call_reported' = TRUE
  /\ s_call_last_tick' = Tick
  /\ calls' \in {calls, Append(calls, [number |-> number, at |-> clock])}
  /\ pc' = "expire"
  /\ UNCHANGED <<timevars, s_evt, cbvars, cmtvars, s_clip_buf, s_clip_tick, s_ring_pending,
                 now, number, s_call_window_tick, s_concat, handled, pushed, lost>>

----------------------------------------------------------------------------

\* Nothing is left for either thread to do at this tick.
Asleep == pc = "wait" /\ s_evt = {} /\ waitLeft # 0 /\ cbPc = "idle"

\* One tick: the timer fires once, with concat_timer_cb setting its event.  The set-up
\* waits for the modem and may take any time.
TimePasses ==
  /\ clock < MaxClock
  /\ Asleep \/ pc = "start" \/ slack > 0
  /\ clock' = clock + 1
  /\ slack' = IF Asleep \/ pc = "start" THEN slack ELSE slack - 1
  /\ s_concat_timer' = IF s_concat_timer = TimerOff THEN TimerOff ELSE s_concat_timer - 1
  /\ s_evt' = IF s_concat_timer = 1 THEN s_evt \cup {"timeout"} ELSE s_evt
  /\ waitLeft' = IF pc = "wait" /\ waitLeft > 0 THEN waitLeft - 1 ELSE waitLeft
  /\ UNCHANGED <<pc, cbvars, cmtvars, clipvars, callvars, s_concat, history>>

Task ==
  \/ SetUpDone \/ Wakes \/ TakesCmt \/ ReadsTorn
  \/ \E p \in Parts : ReadsSingle(p) \/ ReadsPart(p)
  \/ Expires \/ Rearms
  \/ TakesRing \/ NoRing \/ RingIgnored \/ RingOpensWindow \/ ClipTested \/ ClipDropped
  \/ StillCollecting \/ WindowCloses \/ ReportsCall

RNext ==
  \/ \E u \in Urcs : UrcArrives(u)
  \/ Callback
  \/ Task
  \/ TimePasses

RSpec == RInit /\ [][RNext]_rvars

----------------------------------------------------------------------------
(* What is checked *)

\* Every variable keeps its type; a group never counts more parts than it has places.
RTypeOK ==
  /\ clock \in 0 .. MaxClock /\ slack \in 0 .. MaxLag
  /\ s_concat_timer \in 0 .. TIMEOUT_TICKS
  /\ s_evt \subseteq Flags
  /\ waitLeft \in {Forever} \cup 0 .. WINDOW_TICKS
  /\ pc \in {"start", "wait", "cmt", "read", "ring", "ringing", "stale", "drop", "window",
             "report", "expire", "rearm"}
  /\ cbPc \in {"idle", "clip", "stamp", "clipFlag", "clipSignal", "ring", "ringSignal",
               "cmt", "cmtFlag", "cmtSignal"}
  /\ urc \in Urcs \cup {NoUrc} /\ coming \subseteq Urcs
  /\ s_cmt_buf \in Parts \cup {NoPart} /\ s_cmt_pending \in BOOLEAN
  /\ s_clip_buf \in Numbers /\ s_clip_pending \in BOOLEAN
  /\ s_clip_tick \in Ticks /\ s_ring_pending \in BOOLEAN
  /\ now \in Ticks /\ number \in Numbers \cup {TornNumber}
  /\ s_call_collecting \in BOOLEAN /\ s_call_window_tick \in Ticks
  /\ s_call_last_tick \in Ticks /\ s_call_reported \in BOOLEAN
  /\ s_concat \in [GroupIds -> Groups]
  /\ handled \subseteq Parts /\ lost \subseteq Parts

\* The task never sleeps on a message or a ring the callback has finished noting.
FlagWakesTask == Asleep => ~s_cmt_pending /\ ~s_ring_pending

\* A part that waits for the rest of its message is covered by the timer: it fires
\* no later than the group's 30 seconds end, or its event is already set.
ExpiryArmed ==
  pc = "wait" => \A i \in GroupIds : s_concat[i].used =>
    \/ "timeout" \in s_evt
    \/ s_concat_timer # TimerOff /\ s_concat_timer <= Remaining(s_concat[i], Tick)

\* A sleeping task leaves no group past its 30 seconds, but for the ticks its last
\* round took: partial messages are queued in time, across a wrap of the counter.
GroupsLeaveInTime ==
  Asleep => \A i \in GroupIds :
    s_concat[i].used => Since(Tick, s_concat[i].first) < TIMEOUT_TICKS + MaxLag

\* received_parts counts the places taken, no group is left complete, and no two
\* groups collect for the same sender and reference.
GroupsCoherent ==
  \A i \in GroupIds : LET g == s_concat[i] IN
    /\ g.received = Cardinality({k \in Places : g.parts[k] # NoPart})
    /\ g.used => g.received < g.total
    /\ \A j \in GroupIds \ {i} :
         ~(g.used /\ s_concat[j].used /\ g.ref = s_concat[j].ref
                  /\ g.sender = s_concat[j].sender)

\* All the parts of one message, each in its place.
IsWhole(text) ==
  \A k, l \in DOMAIN text :
    /\ text[k] # NoPart /\ text[k].part = k /\ text[k].total = Len(text)
    /\ text[k].sms = text[l].sms

\* A message queued as complete holds nothing that came under another sender or another
\* reference, and each part it holds is at its own number.  It lacks no part and mixes
\* no two messages unless the parts decoded under its sender and reference did: a
\* reference the sender used twice, parts numbered beyond their total, a torn read.
CompleteIsWhole ==
  \A m \in pushed : m.how = "concat" =>
    /\ \A k \in DOMAIN m.text :
         \/ m.text[k] = NoPart
         \/ m.text[k] \in Under(handled, m.sender, m.ref) /\ m.text[k].part = k
    /\ Undisturbed(handled, m.sender, m.ref) => IsWhole(m.text)

\* A decoded part itself waits in its group, has been queued, or was dropped where the
\* code says so: the cache or the queue was full.  This is said of every message of one
\* part, torn ones included, and of a part of a longer one unless another message, or
\* a torn read, came under the same sender and reference.
NoPartVanishes ==
  LET queued == (UNION {{m.text[k] : k \in DOMAIN m.text} : m \in pushed}) \ {NoPart}
      cached == UNION {PartsOf(s_concat[i]) : i \in GroupIds}
  IN  \A p \in handled : ~Long(p) \/ Undisturbed(handled, p.sender, p.ref) =>
        p \in cached \cup queued \cup lost

\* A full cache gives up the group that has waited longest.
EvictsOldest ==
  [][\A p \in Parts : ReadsPart(p) /\ Evicts(s_concat, p) =>
       \A i \in GroupIds :
         Since(Tick, s_concat[i].first) <= Since(Tick, s_concat[Target(s_concat, p)].first)]_rvars

\* A ringing phone is reported when its window ends, but for the ticks a round takes:
\* the task does not sleep on.
WindowEndsInTime ==
  Asleep /\ s_call_collecting => Since(Tick, s_call_window_tick) < WINDOW_TICKS + MaxLag

\* Two reports of calls are at least the ignored time and a window apart: rings that go
\* on for longer than that are reported again.
CallsApart ==
  \A i \in 1 .. Len(calls) - 1 : calls[i + 1].at - calls[i].at >= DEDUP_TICKS + WINDOW_TICKS

\* Opening a window drops only a +CLIP that came more than a window before.
FreshClipKept ==
  [][ClipDropped => Since(Tick, s_clip_tick) > WINDOW_TICKS]_rvars

\* Once the task sleeps, every message a URC brought has been decoded.
EverySmsHandled ==
  Asleep => \A u \in Urcs \ coming : u.cmt # NoPart => u.cmt \in handled
=============================================================================
