------------------------------- MODULE AtExec -------------------------------
(***************************************************************************)
(* applaction/sms_recv.c: at_exec, the callback at_resp_cb that answers it *)
(* from the modem's thread, and the set-up of sms_recv_task, which calls   *)
(* it for one command after another.                                       *)
(*                                                                         *)
(* atPc: idle    between two commands       wait   osSemaphoreAcquire      *)
(*       init    cm_virt_at_init            close  cm_virt_at_deinit, late *)
(*       send    cm_virt_at_send            ret    release mutex and lock  *)
(*                                          loop   set-up is over          *)
(* respPc: idle, result, fill, deinit, release: at_resp_cb's progress.     *)
(*                                                                         *)
(* cm_virt_at is external: an opened session that was sent a command calls *)
(* back once with the answer, unless it is closed first.  Closing does not *)
(* wait for a callback that is running: the callback itself closes.        *)
(***************************************************************************)
EXTENDS Integers, Sequences

CONSTANTS
  Codes,      \* result codes of the modem, 0 for OK
  Cmds,       \* how many commands the set-up has; they are known by their number
  Fallbacks   \* those that are tried only if the one before has failed

ASSUME CodesAssumption == 0 \in Codes /\ Codes \subseteq Nat
ASSUME CmdsAssumption  == Cmds \in Nat /\ Fallbacks \subseteq 2 .. Cmds

VARIABLES
  atPc, respPc,
  cmd,        \* the command being executed, 0 before the first
  result,     \* s_at.result: [code, from], from the command it answers
  content,    \* s_at.buf: the command whose response it holds, 0 for empty
  s_at_done,  \* tokens of the semaphore
  session,    \* cm_virt_at: "closed", "open", "sent"
  answering,  \* the command whose answer the running callback carries
  pm,         \* how often the work lock is held
  rets,       \* history: what each call of at_exec returned
  raced       \* history: an answer came between a call's time-out and its close

avars == <<atPc, respPc, cmd, result, content, s_at_done, session, answering, pm,
           rets, raced>>

Failed == -1
NoAnswer == [code |-> Failed, from |-> 0]

AInit ==
  /\ atPc = "idle" /\ respPc = "idle" /\ cmd = 0
  /\ result = NoAnswer /\ content = 0
  /\ s_at_done = 0 /\ session = "closed" /\ answering = 0
  /\ pm = 0 /\ rets = <<>> /\ raced = FALSE

----------------------------------------------------------------------------
(* sms_recv_task up to its loop *)

\* edrx_config tries AT+CEDRXS once more without quotation marks; AT+CMGF, AT+CNMI and
\* AT+CLIP follow, their results only logged.
NextCmd == IF cmd + 1 \in Fallbacks /\ rets[Len(rets)].code = 0 THEN cmd + 2 ELSE cmd + 1

\* at_exec up to cm_virt_at_init: the lock is free, as only this task calls.
Execute ==
  /\ atPc = "idle"
  /\ NextCmd <= Cmds
  /\ cmd' = NextCmd
  /\ result' = NoAnswer
  /\ content' = 0
  /\ pm' = pm + 1
  /\ atPc' = "init"
  /\ UNCHANGED <<respPc, s_at_done, session, answering, rets, raced>>

SetUpEnds ==
  /\ atPc = "idle"
  /\ NextCmd > Cmds
  /\ atPc' = "loop"
  /\ UNCHANGED <<respPc, cmd, result, content, s_at_done, session, answering, pm, rets, raced>>

----------------------------------------------------------------------------
(* at_exec *)

Return(r) ==
  /\ rets' = Append(rets, [cmd |-> cmd, code |-> r.code, from |-> r.from, text |-> r.text])
  /\ atPc' = "ret"

Failure == [code |-> Failed, from |-> 0, text |-> 0]

InitSucceeds ==
  /\ atPc = "init"
  /\ session' = "open"
  /\ atPc' = "send"
  /\ UNCHANGED <<respPc, cmd, result, content, s_at_done, answering, pm, rets, raced>>

InitFails ==
  /\ atPc = "init"
  /\ Return(Failure)
  /\ UNCHANGED <<respPc, cmd, result, content, s_at_done, session, answering, pm, raced>>

\* A callback of the command before may have closed the session meanwhile.
SendSucceeds ==
  /\ atPc = "send"
  /\ session' = IF session = "open" THEN "sent" ELSE session
  /\ atPc' = "wait"
  /\ UNCHANGED <<respPc, cmd, result, content, s_at_done, answering, pm, rets, raced>>

\* Variant: a failed send that leaves the channel open.
SendFailsOpen ==
  /\ atPc = "send"
  /\ Return(Failure)
  /\ UNCHANGED <<respPc, cmd, result, content, s_at_done, session, answering, pm, raced>>

SendFails ==
  /\ atPc = "send"
  /\ session' = "closed"
  /\ Return(Failure)
  /\ UNCHANGED <<respPc, cmd, result, content, s_at_done, answering, pm, raced>>

\* Variant: osWaitForever in place of AT_TIMEOUT_MS.
WaitsForever == atPc = "wait" /\ s_at_done = 0 /\ UNCHANGED avars

\* AT_TIMEOUT_MS passed without a token ...
TimesOut ==
  /\ atPc = "wait"
  /\ s_at_done = 0
  /\ atPc' = "close"
  /\ UNCHANGED <<respPc, cmd, result, content, s_at_done, session, answering, pm, rets, raced>>

\* ... and cm_virt_at_deinit, before which the answer may have come after all.
ClosesLate ==
  /\ atPc = "close"
  /\ session' = "closed"
  /\ raced' = (raced \/ respPc # "idle" \/ session # "sent")
  /\ Return(Failure)
  /\ UNCHANGED <<respPc, cmd, result, content, s_at_done, answering, pm>>

Answered ==
  /\ atPc = "wait"
  /\ s_at_done > 0
  /\ s_at_done' = s_at_done - 1
  /\ Return([code |-> result.code, from |-> result.from, text |-> content])
  /\ UNCHANGED <<respPc, cmd, result, content, session, answering, pm, raced>>

\* Variant: a way out that forgets cm_pm_work_unlock.
UnlocksMutexOnly ==
  /\ atPc = "ret"
  /\ atPc' = "idle"
  /\ UNCHANGED <<respPc, cmd, result, content, s_at_done, session, answering, pm, rets, raced>>

Unlocks ==
  /\ atPc = "ret"
  /\ pm' = pm - 1
  /\ atPc' = "idle"
  /\ UNCHANGED <<respPc, cmd, result, content, s_at_done, session, answering, rets, raced>>

----------------------------------------------------------------------------
(* at_resp_cb *)

AnswerComes ==
  /\ respPc = "idle"
  /\ session = "sent"
  /\ answering' = cmd
  /\ respPc' = "result"
  /\ UNCHANGED <<atPc, cmd, result, content, s_at_done, session, pm, rets, raced>>

\* Variant: the semaphore released before the response is read.
ReleasesEarly ==
  /\ respPc = "result"
  /\ s_at_done' = 1
  /\ \E c \in Codes : result' = [code |-> c, from |-> answering]
  /\ respPc' = "fill"
  /\ UNCHANGED <<atPc, cmd, content, session, answering, pm, rets, raced>>

StoresResult ==
  /\ respPc = "result"
  /\ \E c \in Codes : result' = [code |-> c, from |-> answering]
  /\ respPc' = "fill"
  /\ UNCHANGED <<atPc, cmd, content, s_at_done, session, answering, pm, rets, raced>>

\* cm_virt_at_get; nothing says what it still returns once the caller has closed.
FillsBuffer ==
  /\ respPc = "fill"
  /\ content' \in IF session = "sent" THEN {answering} ELSE {content, answering}
  /\ respPc' = "deinit"
  /\ UNCHANGED <<atPc, cmd, result, s_at_done, session, answering, pm, rets, raced>>

\* cm_virt_at_deinit, whosever session is open by now.
Closes ==
  /\ respPc = "deinit"
  /\ session' = "closed"
  /\ respPc' = "release"
  /\ UNCHANGED <<atPc, cmd, result, content, s_at_done, answering, pm, rets, raced>>

\* osSemaphoreRelease; the semaphore holds one token at most.
Releases ==
  /\ respPc = "release"
  /\ s_at_done' = 1
  /\ respPc' = "idle"
  /\ UNCHANGED <<atPc, cmd, result, content, session, answering, pm, rets, raced>>

Caller ==
  \/ Execute \/ SetUpEnds
  \/ InitSucceeds \/ InitFails \/ SendSucceeds \/ SendFails
  \/ TimesOut \/ ClosesLate \/ Answered \/ Unlocks

Responder == AnswerComes \/ StoresResult \/ FillsBuffer \/ Closes \/ Releases

ANext == Caller \/ Responder

\* The task is scheduled and the time-out is finite; the modem owes no answer.
ASpec == AInit /\ [][ANext]_avars /\ WF_avars(Caller)

----------------------------------------------------------------------------
(* What is checked *)

\* Every variable keeps its type; the semaphore never holds two tokens.
ATypeOK ==
  /\ atPc \in {"idle", "init", "send", "wait", "close", "ret", "loop"}
  /\ respPc \in {"idle", "result", "fill", "deinit", "release"}
  /\ cmd \in 0 .. Cmds
  /\ result \in [code : Codes \cup {Failed}, from : 0 .. Cmds]
  /\ content \in 0 .. Cmds
  /\ s_at_done \in 0 .. 1
  /\ session \in {"closed", "open", "sent"}
  /\ answering \in 0 .. Cmds
  /\ pm \in 0 .. 1
  /\ rets \in Seq([cmd : 1 .. Cmds, code : Codes \cup {Failed}, from : 0 .. Cmds,
                   text : 0 .. Cmds])
  /\ raced \in BOOLEAN

\* at_exec returns the result and the text of the command it was called for.
OwnAnswer ==
  \A i \in DOMAIN rets : rets[i].code # Failed =>
    rets[i].from = rets[i].cmd /\ rets[i].text = rets[i].cmd

\* It does, as long as no answer came between the time-out of a call and its close.
OwnAnswerUnlessRaced == raced \/ OwnAnswer

\* Short of that race, every way out of at_exec leaves the virtual AT channel closed
\* and no token in the semaphore: the next call starts from nothing.
ChannelClosed ==
  (~raced /\ atPc \in {"idle", "loop"}) =>
    session = "closed" /\ s_at_done = 0 /\ respPc = "idle"

\* Whatever the modem does, the set-up ends and the task reaches its loop.
SetUpTerminates == <>(atPc = "loop")
=============================================================================
