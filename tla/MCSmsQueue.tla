----------------------------- MODULE MCSmsQueue -----------------------------
(***************************************************************************)
(* SmsQueue on a ring of MCMax slots with a sequence counter that wraps.   *)
(***************************************************************************)
EXTENDS SmsQueue

CONSTANTS p1, none

MCPayload == {p1}

\* Two pending items that straddle the end of the ring and of the counter.
Straddling(I(_, _)) ==
  [head |-> SMS_QUEUE_MAX - 1, count |-> 2, seq |-> 0,
   items |-> [i \in 0 .. SMS_QUEUE_MAX - 1 |->
                CASE i = SMS_QUEUE_MAX - 1 -> I(SEQ_MOD - 1, p1)
                  [] i = 0 -> I(0, p1)
                  [] OTHER -> I(0, none)]]

CurItem(n, d) == [type |-> "call", seq |-> n, data |-> d]
V1Item(n, d)  == [seq |-> n, data |-> d]

MCBootFiles ==
  LET cur == Straddling(CurItem)
      v1  == Straddling(V1Item)
  IN  {Torn, Snapshot(cur), [fmt |-> "v1", blob |-> v1],
       Snapshot([cur EXCEPT !.count = SMS_QUEUE_MAX + 1]),
       [fmt |-> "v1", blob |-> [v1 EXCEPT !.head = SMS_QUEUE_MAX]]}
=============================================================================
