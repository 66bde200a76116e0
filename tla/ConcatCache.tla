---------------------------- MODULE ConcatCache ----------------------------
(***************************************************************************)
(* applaction/sms_recv.c: the cache that collects the parts of long        *)
(* messages, as operators over a cache c, a decoded part p and the tick    *)
(* counter t.  RecvTask calls them.                                        *)
(*                                                                         *)
(* A part is a record [sms, sender, ref, part, total]: the header fields   *)
(* the code looks at, and sms, the message it belongs to, which the code   *)
(* never sees: "garbled" for what a read of a buffer made of the digits of *)
(* two PDUs, one being copied over the other.                              *)
(***************************************************************************)
EXTENDS Integers, Sequences, FiniteSets

CONSTANTS
  SMS_CONCAT_MAX_GROUPS,
  SMS_CONCAT_MAX_PARTS,
  SMS_CONCAT_TIMEOUT_MS,
  TICK_MOD,        \* 2^32 in the code: the width of the tick counter
  Parts,           \* the parts the network may deliver
  NoPart           \* an empty place in a group

\* app.c: a tick takes 5 ms; times are rounded up, and never to nothing.
osMsToTicks(ms) == IF ms = 0 THEN 1 ELSE (ms + 4) \div 5

TIMEOUT_TICKS == osMsToTicks(SMS_CONCAT_TIMEOUT_MS)

ASSUME CacheAssumption ==
  /\ SMS_CONCAT_MAX_GROUPS \in Nat \ {0}
  /\ SMS_CONCAT_MAX_PARTS \in Nat \ {0}
  /\ SMS_CONCAT_TIMEOUT_MS \in Nat
  /\ TICK_MOD \in Nat \ {0}
  /\ TIMEOUT_TICKS < TICK_MOD
  /\ NoPart \notin Parts
  /\ \A p \in Parts :
       /\ p = [sms |-> p.sms, sender |-> p.sender, ref |-> p.ref, part |-> p.part,
               total |-> p.total]
       /\ p.part \in Nat /\ p.total \in Nat

\* A part that goes through the cache.
Long(p) == p.total > 1 /\ p.part > 0

\* A mixture that decodes, with any header: each digit may come from either PDU.
Torn == {p \in Parts : p.sms = "garbled"}

\* Of the parts in H, those collected under one sender and reference.
Under(H, sender, ref) == {p \in H : Long(p) /\ p.sender = sender /\ p.ref = ref}

\* They are all of one message, its sender numbered them up to a total the cache has
\* room for, and none is a mixture.
Undisturbed(H, sender, ref) ==
  /\ \A p \in Under(H, sender, ref) :
       p \notin Torn /\ p.part <= p.total /\ p.total <= SMS_CONCAT_MAX_PARTS
  /\ \A p, q \in Under(H, sender, ref) : p.sms = q.sms /\ p.total = q.total

GroupIds == 0 .. SMS_CONCAT_MAX_GROUPS - 1
Places   == 1 .. SMS_CONCAT_MAX_PARTS
Ticks    == 0 .. TICK_MOD - 1
Refs     == {p.ref : p \in Parts}
Senders  == {p.sender : p \in Parts}

Groups ==
  [used : BOOLEAN, ref : Refs \cup {0}, sender : Senders \cup {NoPart},
   total : 0 .. SMS_CONCAT_MAX_PARTS, received : 0 .. SMS_CONCAT_MAX_PARTS,
   first : Ticks, parts : [Places -> Parts \cup {NoPart}]]

\* concat_clear
EmptyGroup ==
  [used |-> FALSE, ref |-> 0, sender |-> NoPart, total |-> 0, received |-> 0,
   first |-> 0, parts |-> [k \in Places |-> NoPart]]

\* Variant: a signed difference, wrong when the counter wraps.
SinceSigned(t, a) == t - a

\* Ticks from a to t, by unsigned subtraction.
Since(t, a) == (t - a) % TICK_MOD

\* Variant: a plain comparison, wrong when the counter wraps.
ExpiredPlain(g, t) == t >= g.first + TIMEOUT_TICKS

Expired(g, t) == Since(t, g.first) >= TIMEOUT_TICKS

----------------------------------------------------------------------------
(* concat_find_or_create *)

\* Variant: the sender is not compared.
MatchingRefOnly(c, p) == {i \in GroupIds : c[i].used /\ c[i].ref = p.ref}

Matching(c, p) == {i \in GroupIds : c[i].used /\ c[i].ref = p.ref /\ c[i].sender = p.sender}
Unused(c)      == {i \in GroupIds : ~c[i].used}

\* The comparison of first_tick is a plain one, unlike every other in the file.
Earliest(c)    == {i \in GroupIds : \A j \in GroupIds : c[i].first <= c[j].first}

LowestOf(S) == CHOOSE i \in S : \A j \in S : i <= j

Evicts(c, p) == Matching(c, p) = {} /\ Unused(c) = {}

\* Variant: the search for a free group left out.
TargetNeverUnused(c, p) ==
  LowestOf(IF Matching(c, p) # {} THEN Matching(c, p) ELSE Earliest(c))

Target(c, p) ==
  LowestOf(IF Matching(c, p) # {} THEN Matching(c, p)
           ELSE IF Unused(c) # {} THEN Unused(c) ELSE Earliest(c))

NewGroup(p, t) ==
  [EmptyGroup EXCEPT
     !.used = TRUE, !.ref = p.ref, !.sender = p.sender, !.first = t,
     !.total = IF p.total > SMS_CONCAT_MAX_PARTS THEN SMS_CONCAT_MAX_PARTS ELSE p.total]

----------------------------------------------------------------------------
(* concat_store_part and concat_assemble *)

Store(g, p) ==
  IF p.part \notin Places \/ g.parts[p.part] # NoPart THEN g
  ELSE [g EXCEPT !.parts[p.part] = p, !.received = @ + 1]

\* The text of a group, with NoPart for the mark of a missing part.
Assemble(g) == [k \in 1 .. g.total |-> g.parts[k]]

----------------------------------------------------------------------------
(* handle_decoded_sms, for a part of a long message *)

\* The group p belongs to, with p stored.
WithPart(c, p, t) ==
  LET i == Target(c, p)
  IN  Store(IF i \in Matching(c, p) THEN c[i] ELSE NewGroup(p, t), p)

Complete(g) == g.received >= g.total

\* Variant: a completed group is not cleared.
CacheAfterKept(c, p, t) == [c EXCEPT ![Target(c, p)] = WithPart(c, p, t)]

CacheAfter(c, p, t) ==
  [c EXCEPT ![Target(c, p)] =
     IF Complete(WithPart(c, p, t)) THEN EmptyGroup ELSE WithPart(c, p, t)]

----------------------------------------------------------------------------
(* concat_expire and concat_timer_rearm *)

Overdue(c, t) == {i \in GroupIds : c[i].used /\ Expired(c[i], t)}

CacheAfterExpire(c, t) == [i \in GroupIds |-> IF i \in Overdue(c, t) THEN EmptyGroup ELSE c[i]]

Remaining(g, t) == IF Expired(g, t) THEN 1 ELSE TIMEOUT_TICKS - Since(t, g.first)

TimerOff == 0

\* Variant: the full time again whenever a group is left.
RearmWhole(c, t) == IF Unused(c) = GroupIds THEN TimerOff ELSE TIMEOUT_TICKS

\* The delay the timer is started with: that of the group that expires first.
Rearm(c, t) ==
  LET left == {Remaining(c[i], t) : i \in GroupIds \ Unused(c)}
  IN  IF left = {} THEN TimerOff ELSE CHOOSE n \in left : \A m \in left : n <= m
=============================================================================
