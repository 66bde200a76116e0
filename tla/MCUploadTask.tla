---------------------------- MODULE MCUploadTask ----------------------------
(***************************************************************************)
(* UploadTask on a two-slot queue: two messages and a call may arrive.     *)
(***************************************************************************)
EXTENDS UploadTask

CONSTANTS p0, p1, p2, p3, none

MCPayload  == {p0, p1, p2, p3}
MCArrivals == {[type |-> "sms", data |-> p1], [type |-> "sms", data |-> p2],
               [type |-> "call", data |-> p3]}
\* For liveness: the second message arrives while the first is on its way.
MCTwoArrivals == {[type |-> "sms", data |-> p1], [type |-> "call", data |-> p3]}
MCNoneTooLong == {}
MCOneTooLong  == {p2}

\* An earlier run left a message in the last slot, with the last number.
OldMessage == [type |-> "sms", seq |-> SEQ_MOD - 1, data |-> p0]
MCOldPending ==
  {Snapshot([head |-> SMS_QUEUE_MAX - 1, count |-> 1, seq |-> SEQ_MOD - 1,
             items |-> [EmptyRing.items EXCEPT ![SMS_QUEUE_MAX - 1] = OldMessage]])}
MCNothingStored == {Torn}

ASSUME MCPremises == MessagesDistinct /\ NumbersSuffice
=============================================================================
