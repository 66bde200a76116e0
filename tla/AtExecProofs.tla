---------------------------- MODULE AtExecProofs ----------------------------
(***************************************************************************)
(* Proofs about AtExec, for any set of result codes and any number of      *)
(* commands, however the calling task, the modem's thread and the time-out *)
(* interleave.                                                             *)
(***************************************************************************)
EXTENDS AtExec, TLAPS

----------------------------------------------------------------------------
(* The inductive invariant *)

\* The task is inside at_exec, which holds the work lock throughout.
Calling == atPc \notin {"idle", "loop"}

CallInv ==
  /\ pm = IF Calling THEN 1 ELSE 0
  /\ Calling => cmd # 0

\* The channel as at_exec must find it: no session, no token, no callback.
Quiet == session = "closed" /\ s_at_done = 0 /\ respPc = "idle"

\* While at_exec waits, the session is closed only by the callback of this very
\* command, once it has stored the result and the text, and the one token follows.
Waited ==
  /\ session # "open"
  /\ session = "sent" => s_at_done = 0 /\ respPc # "release"
  /\ session = "closed" =>
       /\ respPc \in {"idle", "release"}
       /\ s_at_done = IF respPc = "idle" THEN 1 ELSE 0
       /\ result.from = cmd /\ content = cmd
  /\ respPc # "idle" => answering = cmd
  /\ respPc \in {"fill", "deinit"} => result.from = cmd
  /\ respPc = "deinit" => content = cmd

ChannelInv ==
  raced \/
  /\ atPc \in {"idle", "init", "ret", "loop"} => Quiet
  /\ atPc = "send" => session = "open" /\ s_at_done = 0 /\ respPc = "idle"
  /\ atPc \in {"wait", "close"} => Waited

AIndInv == ATypeOK /\ CallInv /\ ChannelInv /\ OwnAnswerUnlessRaced

----------------------------------------------------------------------------
(* Types, and the work lock *)

\* What a call returns when it reads its answer.
Returned == [code |-> result.code, from |-> result.from, text |-> content]

\* An entry of the history keeps its type when a call returns a typed result.
LEMMA ReturnTyped ==
  ASSUME ATypeOK, cmd # 0, NEW r,
         r.code \in Codes \cup {Failed}, r.from \in 0 .. Cmds, r.text \in 0 .. Cmds,
         Return(r)
  PROVE  rets' \in Seq([cmd : 1 .. Cmds, code : Codes \cup {Failed},
                        from : 0 .. Cmds, text : 0 .. Cmds])
<1> DEFINE E == [cmd : 1 .. Cmds, code : Codes \cup {Failed}, from : 0 .. Cmds,
                 text : 0 .. Cmds]
<1>1. cmd \in 1 .. Cmds
  BY CmdsAssumption DEF ATypeOK
<1>2. [cmd |-> cmd, code |-> r.code, from |-> r.from, text |-> r.text] \in E
  BY <1>1
<1>3. rets \in Seq(E)
  BY DEF ATypeOK
<1> HIDE DEF E
<1>4. rets' \in Seq(E)
  BY <1>2, <1>3 DEF Return
<1> QED
  BY <1>4 DEF E

\* Every step keeps the types, and the work lock is held exactly inside at_exec: no
\* way out forgets it, and none gives it back twice.
LEMMA TypeStep ==
  ASSUME ATypeOK, CallInv, ANext
  PROVE  ATypeOK' /\ CallInv'
<1> USE CmdsAssumption, CodesAssumption DEF CallInv, Calling
<1>1. CASE Execute
  BY <1>1 DEF Execute, NextCmd, ATypeOK, NoAnswer
<1>2. CASE SetUpEnds
  BY <1>2 DEF SetUpEnds, ATypeOK
<1>3. CASE InitSucceeds
  BY <1>3 DEF InitSucceeds, ATypeOK
<1>4. CASE InitFails
  <2>1. Return(Failure) /\ cmd # 0
    BY <1>4 DEF InitFails
  <2>2. Failure.code \in Codes \cup {Failed} /\ Failure.from \in 0 .. Cmds
          /\ Failure.text \in 0 .. Cmds
    BY DEF Failure
  <2>3. rets' \in Seq([cmd : 1 .. Cmds, code : Codes \cup {Failed},
                       from : 0 .. Cmds, text : 0 .. Cmds])
    BY <2>1, <2>2, ReturnTyped
  <2> QED
    BY <1>4, <2>3 DEF InitFails, Return, ATypeOK
<1>5. CASE SendSucceeds
  BY <1>5 DEF SendSucceeds, ATypeOK
<1>6. CASE SendFails
  <2>1. Return(Failure) /\ cmd # 0
    BY <1>6 DEF SendFails
  <2>2. Failure.code \in Codes \cup {Failed} /\ Failure.from \in 0 .. Cmds
          /\ Failure.text \in 0 .. Cmds
    BY DEF Failure
  <2>3. rets' \in Seq([cmd : 1 .. Cmds, code : Codes \cup {Failed},
                       from : 0 .. Cmds, text : 0 .. Cmds])
    BY <2>1, <2>2, ReturnTyped
  <2> QED
    BY <1>6, <2>3 DEF SendFails, Return, ATypeOK
<1>7. CASE TimesOut
  BY <1>7 DEF TimesOut, ATypeOK
<1>8. CASE ClosesLate
  <2>1. Return(Failure) /\ cmd # 0
    BY <1>8 DEF ClosesLate
  <2>2. Failure.code \in Codes \cup {Failed} /\ Failure.from \in 0 .. Cmds
          /\ Failure.text \in 0 .. Cmds
    BY DEF Failure
  <2>3. rets' \in Seq([cmd : 1 .. Cmds, code : Codes \cup {Failed},
                       from : 0 .. Cmds, text : 0 .. Cmds])
    BY <2>1, <2>2, ReturnTyped
  <2>4. raced' \in BOOLEAN
    BY <1>8 DEF ClosesLate, ATypeOK
  <2> QED
    BY <1>8, <2>3, <2>4 DEF ClosesLate, Return, ATypeOK
<1>9. CASE Answered
  <2>1. Return(Returned) /\ cmd # 0
    BY <1>9 DEF Answered, Returned
  <2>2. Returned.code \in Codes \cup {Failed} /\ Returned.from \in 0 .. Cmds
          /\ Returned.text \in 0 .. Cmds
    BY DEF Returned, ATypeOK
  <2>3. rets' \in Seq([cmd : 1 .. Cmds, code : Codes \cup {Failed},
                       from : 0 .. Cmds, text : 0 .. Cmds])
    BY <2>1, <2>2, ReturnTyped
  <2> QED
    BY <1>9, <2>3 DEF Answered, Return, ATypeOK
<1>10. CASE Unlocks
  BY <1>10 DEF Unlocks, ATypeOK
<1>11. CASE AnswerComes
  BY <1>11 DEF AnswerComes, ATypeOK
<1>12. CASE StoresResult
  BY <1>12 DEF StoresResult, ATypeOK
<1>13. CASE FillsBuffer
  BY <1>13 DEF FillsBuffer, ATypeOK
<1>14. CASE Closes
  BY <1>14 DEF Closes, ATypeOK
<1>15. CASE Releases
  BY <1>15 DEF Releases, ATypeOK
<1> QED
  BY <1>1, <1>2, <1>3, <1>4, <1>5, <1>6, <1>7, <1>8, <1>9, <1>10, <1>11, <1>12, <1>13,
     <1>14, <1>15 DEF ANext, Caller, Responder

----------------------------------------------------------------------------
(* The channel *)

\* Only a late close can see an answer race the time-out, and a race is never forgotten.
LEMMA RacedStep ==
  ASSUME ATypeOK, ANext
  PROVE  raced => raced'
<1>1. CASE ClosesLate
  BY <1>1 DEF ClosesLate
<1>2. CASE ~ClosesLate
  <2>1. UNCHANGED raced
    BY <1>2 DEF ANext, Caller, Responder, Execute, SetUpEnds, InitSucceeds, InitFails,
       SendSucceeds, SendFails, TimesOut, Answered, Unlocks, AnswerComes, StoresResult,
       FillsBuffer, Closes, Releases
  <2> QED
    BY <2>1
<1> QED
  BY <1>1, <1>2

\* Short of a race, every step of the caller, of the callback and of the clock leaves the
\* channel in order.
LEMMA ChannelStep ==
  ASSUME ATypeOK, CallInv, ChannelInv, ANext
  PROVE  ChannelInv'
<1> SUFFICES ASSUME ~raced' PROVE ChannelInv'
  BY DEF ChannelInv
<1>0. ~raced
  BY RacedStep
<1> USE <1>0 DEF ChannelInv, Quiet, Waited
<1>1. CASE Execute
  BY <1>1 DEF Execute
<1>2. CASE SetUpEnds
  BY <1>2 DEF SetUpEnds
<1>3. CASE InitSucceeds
  BY <1>3 DEF InitSucceeds
<1>4. CASE InitFails
  BY <1>4 DEF InitFails, Return
<1>5. CASE SendSucceeds
  BY <1>5 DEF SendSucceeds
<1>6. CASE SendFails
  BY <1>6 DEF SendFails, Return
<1>7. CASE TimesOut
  BY <1>7 DEF TimesOut
<1>8. CASE ClosesLate
  <2>1. respPc = "idle" /\ session = "sent"
    BY <1>8 DEF ClosesLate
  <2> QED
    BY <1>8, <2>1 DEF ClosesLate, Return
<1>9. CASE Answered
  <2>1. session = "closed" /\ respPc = "idle" /\ s_at_done = 1
    BY <1>9 DEF Answered, ATypeOK
  <2> QED
    BY <1>9, <2>1 DEF Answered, Return
<1>10. CASE Unlocks
  BY <1>10 DEF Unlocks
<1>11. CASE AnswerComes
  <2>1. atPc \in {"wait", "close"}
    BY <1>11 DEF AnswerComes, ATypeOK
  <2> QED
    BY <1>11, <2>1 DEF AnswerComes
<1>12. CASE StoresResult
  <2>1. atPc \in {"wait", "close"}
    BY <1>12 DEF StoresResult, ATypeOK
  <2>2. result'.from = answering
    BY <1>12 DEF StoresResult
  <2> QED
    BY <1>12, <2>1, <2>2 DEF StoresResult
<1>13. CASE FillsBuffer
  <2>1. atPc \in {"wait", "close"}
    BY <1>13 DEF FillsBuffer, ATypeOK
  <2>2. session = "sent" /\ content' = cmd
    BY <1>13, <2>1 DEF FillsBuffer, ATypeOK
  <2> QED
    BY <1>13, <2>1, <2>2 DEF FillsBuffer
<1>14. CASE Closes
  <2>1. atPc \in {"wait", "close"}
    BY <1>14 DEF Closes, ATypeOK
  <2>2. session = "sent"
    BY <1>14, <2>1 DEF Closes, ATypeOK
  <2> QED
    BY <1>14, <2>1, <2>2 DEF Closes
<1>15. CASE Releases
  <2>1. atPc \in {"wait", "close"}
    BY <1>15 DEF Releases, ATypeOK
  <2>2. session = "closed"
    BY <1>15, <2>1 DEF Releases, ATypeOK
  <2> QED
    BY <1>15, <2>1, <2>2 DEF Releases
<1> QED
  BY <1>1, <1>2, <1>3, <1>4, <1>5, <1>6, <1>7, <1>8, <1>9, <1>10, <1>11, <1>12, <1>13,
     <1>14, <1>15 DEF ANext, Caller, Responder

----------------------------------------------------------------------------
(* What the calls return *)

\* A call that returns adds its own entry and leaves those before it alone.
LEMMA ReturnAdds ==
  ASSUME ATypeOK, NEW r, Return(r)
  PROVE  /\ DOMAIN rets' = 1 .. Len(rets) + 1
         /\ \A i \in DOMAIN rets : rets'[i] = rets[i]
         /\ rets'[Len(rets) + 1] = [cmd |-> cmd, code |-> r.code, from |-> r.from,
                                    text |-> r.text]
<1> DEFINE e == [cmd |-> cmd, code |-> r.code, from |-> r.from, text |-> r.text]
<1>1. rets \in Seq([cmd : 1 .. Cmds, code : Codes \cup {Failed},
                    from : 0 .. Cmds, text : 0 .. Cmds])
  BY DEF ATypeOK
<1>2. rets' = Append(rets, e)
  BY DEF Return
<1> HIDE DEF e
<1>3. /\ DOMAIN rets' = 1 .. Len(rets) + 1
      /\ \A i \in DOMAIN rets : rets'[i] = rets[i]
      /\ rets'[Len(rets) + 1] = e
  BY <1>1, <1>2
<1> QED
  BY <1>3 DEF e

\* A result that is a failure, or the command's own, keeps every answer the call's own.
LEMMA ReturnOwn ==
  ASSUME ATypeOK, OwnAnswer, NEW r, Return(r),
         r.code # Failed => r.from = cmd /\ r.text = cmd
  PROVE  OwnAnswer'
<1> SUFFICES ASSUME NEW i \in DOMAIN rets', rets'[i].code # Failed
             PROVE  rets'[i].from = rets'[i].cmd /\ rets'[i].text = rets'[i].cmd
  BY DEF OwnAnswer
<1> DEFINE e == [cmd |-> cmd, code |-> r.code, from |-> r.from, text |-> r.text]
<1>0. /\ DOMAIN rets' = 1 .. Len(rets) + 1
      /\ \A j \in DOMAIN rets : rets'[j] = rets[j]
      /\ rets'[Len(rets) + 1] = e
  BY ReturnAdds
<1>1. CASE i = Len(rets) + 1
  <2>1. rets'[i] = e
    BY <1>0, <1>1
  <2>2. e.code = r.code /\ e.from = r.from /\ e.text = r.text /\ e.cmd = cmd
    OBVIOUS
  <2> QED
    BY <2>1, <2>2
<1>2. CASE i # Len(rets) + 1
  <2>1. rets \in Seq([cmd : 1 .. Cmds, code : Codes \cup {Failed},
                      from : 0 .. Cmds, text : 0 .. Cmds])
    BY DEF ATypeOK
  <2>2. Len(rets) \in Nat /\ DOMAIN rets = 1 .. Len(rets)
    BY <2>1
  <2>3. i \in DOMAIN rets
    BY <1>0, <1>2, <2>2
  <2> QED
    BY <1>0, <2>3 DEF OwnAnswer
<1> QED
  BY <1>1, <1>2

\* The semaphore is taken only after the callback of the same command has released it,
\* so the step that returns an answer returns the command's own.
LEMMA OwnAnswerStep ==
  ASSUME ATypeOK, ChannelInv, OwnAnswerUnlessRaced, ANext
  PROVE  OwnAnswerUnlessRaced'
<1> SUFFICES ASSUME ~raced' PROVE OwnAnswer'
  BY DEF OwnAnswerUnlessRaced
<1>0. ~raced /\ OwnAnswer
  BY RacedStep DEF OwnAnswerUnlessRaced
<1>1. CASE InitFails \/ SendFails \/ ClosesLate
  <2>1. Return(Failure)
    BY <1>1 DEF InitFails, SendFails, ClosesLate
  <2>2. Failure.code = Failed
    BY DEF Failure
  <2> QED
    BY <1>0, <2>1, <2>2, ReturnOwn
<1>2. CASE Answered
  <2>1. Return(Returned)
    BY <1>2 DEF Answered, Returned
  <2>2. Waited /\ session # "sent"
    BY <1>0, <1>2 DEF Answered, ChannelInv, Waited
  <2>3. result.from = cmd /\ content = cmd
    BY <2>2 DEF Waited, ATypeOK
  <2>4. Returned.from = cmd /\ Returned.text = cmd
    BY <2>3 DEF Returned
  <2> QED
    BY <1>0, <2>1, <2>4, ReturnOwn
<1>3. CASE ~(InitFails \/ SendFails \/ ClosesLate \/ Answered)
  <2>1. UNCHANGED rets
    BY <1>3 DEF ANext, Caller, Responder, Execute, SetUpEnds, InitSucceeds, SendSucceeds,
       TimesOut, Unlocks, AnswerComes, StoresResult, FillsBuffer, Closes, Releases
  <2> QED
    BY <1>0, <2>1 DEF OwnAnswer
<1> QED
  BY <1>1, <1>2, <1>3

----------------------------------------------------------------------------
(* The theorems *)

\* The invariant holds before the first command.
LEMMA AInitInvariant == AInit => AIndInv
<1> SUFFICES ASSUME AInit PROVE AIndInv
  OBVIOUS
<1>1. ATypeOK
  <2>1. rets \in Seq([cmd : 1 .. Cmds, code : Codes \cup {Failed},
                      from : 0 .. Cmds, text : 0 .. Cmds])
    BY DEF AInit
  <2>2. result \in [code : Codes \cup {Failed}, from : 0 .. Cmds]
    BY CmdsAssumption DEF AInit, NoAnswer
  <2>3. /\ atPc = "idle" /\ respPc = "idle" /\ session = "closed" /\ raced = FALSE
        /\ cmd \in 0 .. Cmds /\ content \in 0 .. Cmds
        /\ answering \in 0 .. Cmds /\ s_at_done \in 0 .. 1 /\ pm \in 0 .. 1
    BY CmdsAssumption DEF AInit
  <2> QED
    BY <2>1, <2>2, <2>3, Zenon DEF ATypeOK
<1>2. CallInv /\ ChannelInv /\ OwnAnswerUnlessRaced
  BY DEF AInit, CallInv, Calling, ChannelInv, Quiet, OwnAnswerUnlessRaced, OwnAnswer
<1> QED
  BY <1>1, <1>2 DEF AIndInv

\* Every step, and a stutter, keeps it.
LEMMA AStepInvariant == AIndInv /\ [ANext]_avars => AIndInv'
<1>1. CASE ANext
  BY <1>1, TypeStep, ChannelStep, OwnAnswerStep DEF AIndInv
<1>2. CASE UNCHANGED avars
  BY <1>2 DEF AIndInv, ATypeOK, CallInv, Calling, ChannelInv, Quiet, Waited,
     OwnAnswerUnlessRaced, OwnAnswer, avars
<1> QED
  BY <1>1, <1>2

\* Every variable of the channel keeps its type, however many commands there are and
\* whatever the modem answers and when: the semaphore never holds a second token, nor is
\* the work lock held twice.
THEOREM AtTypeCorrect == ASpec => []ATypeOK
<1>1. AIndInv => ATypeOK
  BY DEF AIndInv
<1> QED
  BY <1>1, AInitInvariant, AStepInvariant, PTL DEF ASpec

\* at_exec holds the work lock exactly from its first line to its last: every one of
\* its ways out gives it back, once, before the next command or the loop.
THEOREM WorkLockReturned == ASpec => [](pm = IF Calling THEN 1 ELSE 0)
<1>1. AIndInv => (pm = IF Calling THEN 1 ELSE 0)
  BY DEF AIndInv, CallInv
<1> QED
  BY <1>1, AInitInvariant, AStepInvariant, PTL DEF ASpec

\* Unless an answer comes between a time-out and the close that follows it, at_exec
\* returns the result and the text of its own command, and never of one before, for any
\* number of commands.
THEOREM AnswersAreOwn == ASpec => []OwnAnswerUnlessRaced
<1>1. AIndInv => OwnAnswerUnlessRaced
  BY DEF AIndInv
<1> QED
  BY <1>1, AInitInvariant, AStepInvariant, PTL DEF ASpec

\* Under the same condition every way out of at_exec, the failed open, the failed send,
\* the time-out and the answer, leaves the channel closed and the semaphore empty.
THEOREM CallsLeaveChannelClosed == ASpec => []ChannelClosed
<1>1. AIndInv => ChannelClosed
  BY DEF AIndInv, ChannelInv, ChannelClosed, Quiet
<1> QED
  BY <1>1, AInitInvariant, AStepInvariant, PTL DEF ASpec
=============================================================================
