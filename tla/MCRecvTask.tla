----------------------------- MODULE MCRecvTask -----------------------------
(***************************************************************************)
(* RecvTask with two groups of three places, and sets of URCs for messages *)
(* and for calls.                                                          *)
(***************************************************************************)
EXTENDS RecvTask

CONSTANTS none, torn, alice, bob

Part(m, s, r, k, n) == [sms |-> m, sender |-> s, ref |-> r, part |-> k, total |-> n]

\* Two senders use one reference number, and one of them uses it twice; another message
\* needs a third group.
A(k) == Part("A", alice, 1, k, 2)
B(k) == Part("B", bob, 1, k, 2)
C(k) == Part("C", alice, 2, k, 2)
D(k) == Part("D", alice, 1, k, 2)
S    == Part("S", bob, 0, 1, 1)

\* Some of what a torn read may come to: a known or a new sender and reference, and a
\* part and a total from both PDUs, past the total of the group that waits or their own.
Mixed ==
  {Part("garbled", alice, 1, k[1], k[2]) : k \in {<<2, 2>>, <<3, 2>>, <<3, 3>>}} \cup
  {Part("garbled", bob, r, 3, 3) : r \in {1, 2}} \cup {Part("garbled", bob, 0, 1, 1)}

MCParts == {A(1), A(2), B(2), C(1), D(2), S} \cup Mixed

\* For calls: one of each kind, and a torn part that opens a second group.
CallParts == {A(1), S, Part("garbled", bob, 1, 3, 3), Part("garbled", bob, 0, 1, 1)}

Sms(i, p)    == [id |-> i, clip |-> none, ring |-> FALSE, cmt |-> p]
Ring(i, p)   == [id |-> i, clip |-> none, ring |-> TRUE, cmt |-> p]
All(i, n, p) == [id |-> i, clip |-> n, ring |-> TRUE, cmt |-> p]

\* Messages: a whole one, and parts of two others, one under its reference.
SmsUrcs  == {Sms(1, A(1)), Sms(2, A(2)), Sms(3, B(2)), Sms(4, D(2))}

\* Three messages for two groups.
EvictUrcs == {Sms(1, A(1)), Sms(2, B(2)), Sms(3, C(1))}

\* Calls: a ring, and one with its number, each in one URC with a message.
CallUrcs == {Ring(1, S), All(2, bob, A(1))}
=============================================================================
