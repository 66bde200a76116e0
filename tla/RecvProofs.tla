----------------------------- MODULE RecvProofs -----------------------------
(***************************************************************************)
(* Proofs about RecvTask, for any URCs, any size of the cache, any times   *)
(* and any width of the tick counter, wherever the callback interrupts the *)
(* task and however long a round of it takes.                              *)
(***************************************************************************)
EXTENDS RecvTask, NatFacts, FiniteSetTheorems, TLAPS

----------------------------------------------------------------------------
(* The cache, for any number of groups and places: times *)

\* Unsigned subtraction: the difference, a whole turn added when it is negative.
LEMMA SinceIs ==
  ASSUME NEW t \in Ticks, NEW a \in Ticks
  PROVE  /\ Since(t, a) = IF t >= a THEN t - a ELSE t - a + TICK_MOD
         /\ Since(t, a) \in Ticks
<1>1. TICK_MOD \in Nat \ {0}
  BY CacheAssumption
<1>2. CASE t >= a
  BY <1>1, <1>2 DEF Since, Ticks
<1>3. CASE t < a
  <2>1. t - a = (-1) * TICK_MOD + (t - a + TICK_MOD) /\ t - a + TICK_MOD \in 0 .. TICK_MOD - 1
    BY <1>1, <1>3 DEF Ticks
  <2>2. (t - a) % TICK_MOD = t - a + TICK_MOD
    BY <1>1, <2>1, ModUnique
  <2> QED
    BY <1>1, <1>3, <2>2 DEF Since, Ticks
<1> QED
  BY <1>1, <1>2, <1>3 DEF Ticks

\* A tick later, every time since is one tick longer, or 0 after the longest.
LEMMA SinceNext ==
  ASSUME NEW t \in Ticks, NEW a \in Ticks, NEW u \in Ticks,
         u = IF t = TICK_MOD - 1 THEN 0 ELSE t + 1
  PROVE  Since(u, a) = IF Since(t, a) = TICK_MOD - 1 THEN 0 ELSE Since(t, a) + 1
<1>1. TICK_MOD \in Nat \ {0}
  BY CacheAssumption
<1>2. Since(t, a) = IF t >= a THEN t - a ELSE t - a + TICK_MOD
  BY SinceIs
<1>3. Since(u, a) = IF u >= a THEN u - a ELSE u - a + TICK_MOD
  BY SinceIs
<1> QED
  BY <1>1, <1>2, <1>3 DEF Ticks

\* Between two readings of a counter that started at b, the ticks that really passed
\* are never fewer than the difference says.
LEMMA SinceNoMore ==
  ASSUME NEW b \in Nat, NEW x \in Nat, NEW y \in Nat, x <= y
  PROVE  Since((b + y) % TICK_MOD, (b + x) % TICK_MOD) <= y - x
<1> DEFINE M == TICK_MOD
           q == (b + y) \div M
           r == (b + y) % M
           k == (b + x) \div M
           s == (b + x) % M
<1>1. M \in Nat \ {0}
  BY CacheAssumption
<1>2. q \in Int /\ r \in 0 .. M - 1 /\ b + y = q * M + r
  BY <1>1, DivMod
<1>3. k \in Int /\ s \in 0 .. M - 1 /\ b + x = k * M + s
  BY <1>1, DivMod
<1>4. Since(r, s) = IF r >= s THEN r - s ELSE r - s + M
  BY <1>1, <1>2, <1>3, SinceIs DEF Ticks
<1> HIDE DEF q, r, k, s, M
<1>5. y - x = (q - k) * M + (r - s)
  BY <1>1, <1>2, <1>3
<1>6. CASE r >= s
  <2>1. q - k >= 0
    <3>0. SUFFICES ASSUME q - k <= -1 PROVE FALSE
      BY <1>2, <1>3
    <3>1. (q - k) * M <= -M
      BY <3>0, <1>1, <1>2, <1>3
    <3> QED
      BY <3>1, <1>1, <1>2, <1>3, <1>5
  <2>2. (q - k) * M >= 0
    BY <2>1, <1>1, <1>2, <1>3
  <2>3. (q - k) * M \in Int
    BY <1>1, <1>2, <1>3
  <2> QED
    BY <2>2, <2>3, <1>2, <1>3, <1>4, <1>5, <1>6 DEF r, s, M
<1>7. CASE r < s
  <2>1. q - k >= 1
    <3>0. SUFFICES ASSUME q - k <= 0 PROVE FALSE
      BY <1>2, <1>3
    <3>1. (q - k) * M <= 0
      BY <3>0, <1>1, <1>2, <1>3
    <3> QED
      BY <3>1, <1>1, <1>2, <1>3, <1>5, <1>7
  <2>2. (q - k) * M >= M
    BY <2>1, <1>1, <1>2, <1>3
  <2>3. (q - k) * M \in Int
    BY <1>1, <1>2, <1>3
  <2> QED
    BY <2>2, <2>3, <1>1, <1>2, <1>3, <1>4, <1>5, <1>7 DEF r, s, M
<1> QED
  BY <1>2, <1>3, <1>6, <1>7

\* Times are rounded up, and never to nothing.
LEMMA TicksPositive ==
  ASSUME NEW ms \in Nat
  PROVE  osMsToTicks(ms) \in Nat \ {0}
BY DEF osMsToTicks

----------------------------------------------------------------------------
(* The time a group has left, and the timer *)

\* The names the proofs use for the assumptions.
LEMMA CacheConstants ==
  /\ TICK_MOD \in Nat \ {0}
  /\ TIMEOUT_TICKS \in Nat \ {0} /\ TIMEOUT_TICKS < TICK_MOD
  /\ GroupIds # {} /\ GroupIds \subseteq Nat /\ 0 \in Ticks
BY CacheAssumption, TicksPositive DEF GroupIds, TIMEOUT_TICKS, Ticks

\* A group that is not overdue has the rest of its time, an overdue one a tick.
LEMMA RemainingIs ==
  ASSUME NEW g \in Groups, NEW t \in Ticks
  PROVE  /\ Remaining(g, t) \in 1 .. TIMEOUT_TICKS
         /\ Since(t, g.first) >= TIMEOUT_TICKS => Remaining(g, t) = 1
         /\ Since(t, g.first) < TIMEOUT_TICKS =>
              Remaining(g, t) = TIMEOUT_TICKS - Since(t, g.first)
<1>1. g.first \in Ticks
  BY DEF Groups
<1>2. Since(t, g.first) \in Nat
  BY <1>1, SinceIs DEF Ticks
<1> QED
  BY <1>2, CacheConstants DEF Remaining, Expired

\* The timer is started for the group that expires first, and for no longer than any
\* group has left; it is stopped when no group is left.
LEMMA RearmIs ==
  ASSUME NEW c \in [GroupIds -> Groups], NEW t \in Ticks
  PROVE  /\ Rearm(c, t) \in 0 .. TIMEOUT_TICKS
         /\ \A i \in GroupIds : c[i].used =>
              Rearm(c, t) # TimerOff /\ Rearm(c, t) <= Remaining(c[i], t)
<1> DEFINE left == {Remaining(c[i], t) : i \in GroupIds \ Unused(c)}
<1>1. Rearm(c, t) = IF left = {} THEN TimerOff ELSE CHOOSE n \in left : \A m \in left : n <= m
  BY DEF Rearm
<1>2. left \subseteq 1 .. TIMEOUT_TICKS
  BY RemainingIs
<1>3. \A i \in GroupIds : c[i].used => Remaining(c[i], t) \in left
  BY DEF Unused
<1> HIDE DEF left
<1>4. CASE left = {}
  BY <1>1, <1>3, <1>4, CacheConstants DEF TimerOff
<1>5. CASE left # {}
  <2>1. left \in SUBSET Nat
    BY <1>2, CacheConstants
  <2>2. \E n \in left : \A m \in left : n <= m
    BY <2>1, <1>5, HasLeast
  <2>3. Rearm(c, t) \in left /\ \A m \in left : Rearm(c, t) <= m
    BY <1>1, <1>5, <2>2
  <2>4. Rearm(c, t) \in 1 .. TIMEOUT_TICKS
    BY <2>3, <1>2
  <2>5. \A i \in GroupIds : c[i].used => Rearm(c, t) <= Remaining(c[i], t)
    BY <2>3, <1>3
  <2> HIDE DEF TIMEOUT_TICKS
  <2>6. TIMEOUT_TICKS \in Nat
    BY CacheConstants
  <2> QED
    BY <2>4, <2>5, <2>6 DEF TimerOff
<1> QED
  BY <1>4, <1>5

----------------------------------------------------------------------------
(* The group a part goes to *)

\* The first of a set of groups is one of them.
LEMMA LowestIn ==
  ASSUME NEW S \in SUBSET GroupIds, S # {}
  PROVE  LowestOf(S) \in S
<1>1. S \in SUBSET Nat
  BY CacheConstants
<1>2. \E i \in S : \A j \in S : i <= j
  BY <1>1, HasLeast
<1> QED
  BY <1>2 DEF LowestOf

\* Some group is the oldest by its first tick.
LEMMA EarliestExists ==
  ASSUME NEW c \in [GroupIds -> Groups]
  PROVE  Earliest(c) # {} /\ Earliest(c) \subseteq GroupIds
<1> DEFINE F == {c[i].first : i \in GroupIds}
<1>1. F \in SUBSET Nat /\ F # {}
  <2>1. \A i \in GroupIds : c[i].first \in Nat
    BY DEF Groups, Ticks
  <2> QED
    BY <2>1, CacheConstants
<1>2. PICK x \in F : \A y \in F : x <= y
  BY <1>1, HasLeast
<1>3. PICK i \in GroupIds : x = c[i].first
  BY <1>2
<1>4. i \in Earliest(c)
  BY <1>2, <1>3 DEF Earliest
<1> QED
  BY <1>4 DEF Earliest

\* A part goes to its own group when there is one, else to a free one, else to one
\* whose parts are given up.
LEMMA TargetIs ==
  ASSUME NEW c \in [GroupIds -> Groups], NEW p \in Parts
  PROVE  /\ Target(c, p) \in GroupIds
         /\ Matching(c, p) # {} => Target(c, p) \in Matching(c, p)
         /\ Matching(c, p) = {} /\ ~Evicts(c, p) => ~c[Target(c, p)].used
<1>1. CASE Matching(c, p) # {}
  <2>1. Matching(c, p) \in SUBSET GroupIds
    BY DEF Matching
  <2>2. Target(c, p) \in Matching(c, p)
    BY <1>1, <2>1, LowestIn DEF Target
  <2> QED
    BY <1>1, <2>1, <2>2
<1>2. CASE Matching(c, p) = {} /\ Unused(c) # {}
  <2>1. Unused(c) \in SUBSET GroupIds
    BY DEF Unused
  <2>2. Target(c, p) \in Unused(c)
    BY <1>2, <2>1, LowestIn DEF Target
  <2> QED
    BY <1>2, <2>1, <2>2 DEF Unused
<1>3. CASE Matching(c, p) = {} /\ Unused(c) = {}
  <2>1. Target(c, p) = LowestOf(Earliest(c))
    BY <1>3 DEF Target
  <2>2. Target(c, p) \in GroupIds
    BY <2>1, EarliestExists, LowestIn
  <2> QED
    BY <1>3, <2>2 DEF Evicts
<1> QED
  BY <1>1, <1>2, <1>3

----------------------------------------------------------------------------
(* What a group is worth *)

Taken(g) == {k \in Places : g.parts[k] # NoPart}

\* A group counts the places taken; each holds the part of its own number, sender and
\* reference.
Fits(g) ==
  /\ g.received = Cardinality(Taken(g))
  /\ \A k \in Taken(g) : /\ Long(g.parts[k]) /\ g.parts[k].part = k
                         /\ g.parts[k].ref = g.ref /\ g.parts[k].sender = g.sender
  /\ ~g.used => Taken(g) = {}

\* It holds parts of H, and its total is that of a part of H that came for it.
Came(g, H) ==
  /\ \A k \in Taken(g) : g.parts[k] \in H
  /\ g.used => \E q \in Under(H, g.sender, g.ref) :
       g.total = IF q.total > SMS_CONCAT_MAX_PARTS THEN SMS_CONCAT_MAX_PARTS ELSE q.total

SameKey(g, h) == g.used /\ h.used /\ g.ref = h.ref /\ g.sender = h.sender

\* What the task finds in the cache whenever it looks.
CacheInv(c) ==
  /\ c \in [GroupIds -> Groups]
  /\ \A i \in GroupIds : Fits(c[i]) /\ (c[i].used => c[i].received < c[i].total)
  /\ \A i, j \in GroupIds : i # j => ~SameKey(c[i], c[j])

\* The places are finitely many, and so are those taken.
LEMMA TakenFinite ==
  ASSUME NEW g
  PROVE  /\ IsFiniteSet(Taken(g)) /\ Cardinality(Taken(g)) \in Nat
         /\ Cardinality(Taken(g)) <= SMS_CONCAT_MAX_PARTS
<1>1. SMS_CONCAT_MAX_PARTS \in Nat
  BY CacheAssumption
<1>2. IsFiniteSet(Places) /\ Cardinality(Places) = SMS_CONCAT_MAX_PARTS
  BY <1>1, FS_Interval DEF Places
<1>3. Taken(g) \subseteq Places
  BY DEF Taken
<1> QED
  BY <1>2, <1>3, FS_Subset, FS_CardinalityType

\* A cleared group is a group, and fits.
LEMMA EmptyFits ==
  /\ EmptyGroup \in Groups /\ Fits(EmptyGroup) /\ ~EmptyGroup.used
  /\ \A H : Came(EmptyGroup, H)
<1>1. SMS_CONCAT_MAX_PARTS \in Nat /\ 0 \in Ticks
  BY CacheAssumption, CacheConstants
<1>2. EmptyGroup \in Groups
  BY <1>1 DEF EmptyGroup, Groups
<1>3. ~EmptyGroup.used /\ EmptyGroup.received = 0
  BY DEF EmptyGroup
<1>4. Taken(EmptyGroup) = {}
  BY DEF EmptyGroup, Taken
<1>5. Cardinality(Taken(EmptyGroup)) = 0
  BY <1>4, FS_EmptySet
<1> QED
  BY <1>2, <1>3, <1>4, <1>5 DEF Fits, Came

\* A part is a part, and an empty place is none.
LEMMA PartFacts ==
  ASSUME NEW p \in Parts
  PROVE  p # NoPart /\ p.part \in Nat /\ p.total \in Nat
BY CacheAssumption

\* Storing a part in a group of its own keeps what the group holds, takes the part's
\* place if that was free, and counts it.
LEMMA StoreIs ==
  ASSUME NEW g \in Groups, Fits(g), g.used,
         NEW p \in Parts, Long(p), p.ref = g.ref, p.sender = g.sender
  PROVE  LET h == Store(g, p) IN
         /\ h \in Groups /\ Fits(h) /\ h.used
         /\ h.ref = g.ref /\ h.sender = g.sender /\ h.total = g.total /\ h.first = g.first
         /\ \A k \in Taken(g) : h.parts[k] = g.parts[k]
         /\ p.part \in Places => p.part \in Taken(h)
         /\ \A k \in Taken(h) : k \in Taken(g) \/ h.parts[k] = p
<1> DEFINE h == Store(g, p)
<1>1. CASE p.part \notin Places \/ g.parts[p.part] # NoPart
  <2>1. h = g
    BY <1>1 DEF Store
  <2> QED
    BY <1>1, <2>1 DEF Taken
<1>2. CASE p.part \in Places /\ g.parts[p.part] = NoPart
  <2>1. h = [g EXCEPT !.parts[p.part] = p, !.received = @ + 1]
    BY <1>2 DEF Store
  <2>2. /\ h.used = g.used /\ h.ref = g.ref /\ h.sender = g.sender /\ h.total = g.total
        /\ h.first = g.first /\ h.received = g.received + 1
        /\ h.parts = [g.parts EXCEPT ![p.part] = p]
    BY <2>1 DEF Groups
  <2>3. g.parts \in [Places -> Parts \cup {NoPart}]
    BY DEF Groups
  <2>4. \A k \in Places : h.parts[k] = IF k = p.part THEN p ELSE g.parts[k]
    BY <2>2, <2>3
  <2>5. Taken(h) = Taken(g) \cup {p.part} /\ p.part \notin Taken(g)
    BY <1>2, <2>4, PartFacts DEF Taken
  <2>6. h.received = Cardinality(Taken(h)) /\ h.received \in 0 .. SMS_CONCAT_MAX_PARTS
    <3>1. Cardinality(Taken(h)) = Cardinality(Taken(g)) + 1
      BY <2>5, TakenFinite, FS_AddElement
    <3>2. h.received = Cardinality(Taken(h))
      BY <2>2, <3>1 DEF Fits
    <3> QED
      BY <3>2, TakenFinite, CacheAssumption
  <2>7. h \in Groups
    <3>1. h.parts \in [Places -> Parts \cup {NoPart}]
      BY <2>2, <2>3
    <3> QED
      BY <2>1, <2>6, <3>1 DEF Groups
  <2>8. Fits(h)
    <3>1. \A k \in Taken(h) : /\ Long(h.parts[k]) /\ h.parts[k].part = k
                              /\ h.parts[k].ref = h.ref /\ h.parts[k].sender = h.sender
      BY <2>2, <2>4, <2>5 DEF Fits, Taken
    <3> QED
      BY <2>2, <2>6, <3>1 DEF Fits
  <2> HIDE DEF h
  <2>9. \A k \in Taken(g) : h.parts[k] = g.parts[k]
    BY <2>4, <2>5 DEF Taken
  <2>10. \A k \in Taken(h) : k \in Taken(g) \/ h.parts[k] = p
    BY <2>4, <2>5 DEF Taken
  <2>11. p.part \in Taken(h)
    BY <2>5
  <2>12. h.used /\ h.ref = g.ref /\ h.sender = g.sender /\ h.total = g.total /\ h.first = g.first
    BY <2>2
  <2> QED
    BY <2>7, <2>8, <2>9, <2>10, <2>11, <2>12 DEF h
<1> QED
  BY <1>1, <1>2

\* A new group is one of its own for the part.
LEMMA NewGroupIs ==
  ASSUME NEW p \in Parts, Long(p), NEW t \in Ticks
  PROVE  LET g == NewGroup(p, t) IN
         /\ g \in Groups /\ Fits(g) /\ g.used /\ g.ref = p.ref /\ g.sender = p.sender
         /\ g.first = t /\ Taken(g) = {}
         /\ g.total = IF p.total > SMS_CONCAT_MAX_PARTS THEN SMS_CONCAT_MAX_PARTS ELSE p.total
<1> DEFINE g == NewGroup(p, t)
           n == IF p.total > SMS_CONCAT_MAX_PARTS THEN SMS_CONCAT_MAX_PARTS ELSE p.total
<1>1. SMS_CONCAT_MAX_PARTS \in Nat
  BY CacheAssumption
<1>2. /\ g.used = TRUE /\ g.ref = p.ref /\ g.sender = p.sender /\ g.first = t /\ g.total = n
      /\ g.received = 0 /\ g.parts = [k \in Places |-> NoPart]
  BY DEF NewGroup, EmptyGroup
<1>3. n \in 0 .. SMS_CONCAT_MAX_PARTS
  BY <1>1, PartFacts
<1>4. g \in Groups
  <2>1. p.ref \in Refs /\ p.sender \in Senders
    BY DEF Refs, Senders
  <2>2. g = [EmptyGroup EXCEPT !.used = TRUE, !.ref = p.ref, !.sender = p.sender,
                               !.first = t, !.total = n]
    BY DEF NewGroup
  <2> HIDE DEF g, n
  <2> QED
    BY <1>3, <2>1, <2>2, EmptyFits DEF Groups
<1>5. Taken(g) = {}
  BY <1>2 DEF Taken
<1>6. Cardinality(Taken(g)) = 0
  BY <1>5, FS_EmptySet
<1> HIDE DEF g
<1>7. Fits(g)
  BY <1>2, <1>5, <1>6 DEF Fits
<1> QED
  BY <1>2, <1>4, <1>5, <1>7 DEF g

\* Storing a part in a group of its own adds nothing but that part.
LEMMA StoreCame ==
  ASSUME NEW g \in Groups, Fits(g), g.used, NEW H, NEW p \in Parts, Long(p),
         p.ref = g.ref, p.sender = g.sender,
         \A k \in Taken(g) : g.parts[k] \in H,
         \E q \in Under(H \cup {p}, g.sender, g.ref) :
           g.total = IF q.total > SMS_CONCAT_MAX_PARTS THEN SMS_CONCAT_MAX_PARTS ELSE q.total
  PROVE  Came(Store(g, p), H \cup {p})
<1> DEFINE h == Store(g, p)
<1>1. /\ h.ref = g.ref /\ h.sender = g.sender /\ h.total = g.total
      /\ \A k \in Taken(g) : h.parts[k] = g.parts[k]
      /\ \A k \in Taken(h) : k \in Taken(g) \/ h.parts[k] = p
  BY StoreIs
<1> HIDE DEF h
<1>2. Came(h, H \cup {p})
  BY <1>1 DEF Came
<1> QED
  BY <1>2 DEF h

----------------------------------------------------------------------------
(* The cache *)

\* The group a part went to fits, is the part's, holds the part or the one that took
\* its place before, and has lost nothing it held for the same message.
LEMMA WithPartIs ==
  ASSUME NEW c, CacheInv(c), NEW p \in Parts, Long(p), NEW t \in Ticks
  PROVE  LET w == WithPart(c, p, t)
             o == c[Target(c, p)]
         IN  /\ w \in Groups /\ Fits(w) /\ w.used /\ w.ref = p.ref /\ w.sender = p.sender
             /\ p.part \in Places => p.part \in Taken(w)
             /\ ~Evicts(c, p) => \A k \in Taken(o) : w.parts[k] = o.parts[k]
<1> DEFINE T == Target(c, p)
           o == c[T]
           w == WithPart(c, p, t)
<1>1. c \in [GroupIds -> Groups] /\ \A i \in GroupIds : Fits(c[i])
  BY DEF CacheInv
<1>2. /\ T \in GroupIds
      /\ Matching(c, p) # {} => T \in Matching(c, p)
      /\ Matching(c, p) = {} /\ ~Evicts(c, p) => ~c[T].used
  BY <1>1, TargetIs
<1>3. o \in Groups /\ Fits(o)
  BY <1>1, <1>2
<1>4. CASE T \in Matching(c, p)
  <2>1. w = Store(o, p)
    BY <1>4 DEF WithPart
  <2>2. o.used /\ p.ref = o.ref /\ p.sender = o.sender
    BY <1>4 DEF Matching
  <2> HIDE DEF o, w, T
  <2>3. /\ w \in Groups /\ Fits(w) /\ w.used /\ w.ref = o.ref /\ w.sender = o.sender
        /\ \A k \in Taken(o) : w.parts[k] = o.parts[k]
        /\ p.part \in Places => p.part \in Taken(w)
    BY <1>3, <2>1, <2>2, StoreIs
  <2> QED
    BY <2>2, <2>3 DEF o, w, T
<1>5. CASE T \notin Matching(c, p)
  <2> DEFINE g == NewGroup(p, t)
  <2>1. w = Store(g, p)
    BY <1>5 DEF WithPart
  <2>2. /\ g \in Groups /\ Fits(g) /\ g.used /\ g.ref = p.ref /\ g.sender = p.sender
    BY NewGroupIs
  <2>3. ~Evicts(c, p) => Taken(o) = {}
    BY <1>2, <1>3, <1>5 DEF Fits
  <2> HIDE DEF o, w, T, g
  <2>4. /\ w \in Groups /\ Fits(w) /\ w.used /\ w.ref = g.ref /\ w.sender = g.sender
        /\ p.part \in Places => p.part \in Taken(w)
    BY <2>1, <2>2, StoreIs
  <2> QED
    BY <2>2, <2>3, <2>4 DEF o, w, T
<1> QED
  BY <1>4, <1>5

\* The group a part went to holds parts that came before, and that part.
LEMMA WithPartCame ==
  ASSUME NEW c, CacheInv(c), NEW H, \A i \in GroupIds : Came(c[i], H),
         NEW p \in Parts, Long(p), NEW t \in Ticks
  PROVE  Came(WithPart(c, p, t), H \cup {p})
<1> DEFINE T == Target(c, p)
           o == c[T]
           w == WithPart(c, p, t)
<1>1. c \in [GroupIds -> Groups] /\ \A i \in GroupIds : Fits(c[i])
  BY DEF CacheInv
<1>2. T \in GroupIds
  BY <1>1, TargetIs
<1>3. o \in Groups /\ Fits(o) /\ Came(o, H)
  BY <1>1, <1>2
<1>4. CASE T \in Matching(c, p)
  <2>1. w = Store(o, p)
    BY <1>4 DEF WithPart
  <2>2. o.used /\ p.ref = o.ref /\ p.sender = o.sender
    BY <1>4 DEF Matching
  <2> HIDE DEF o, w, T
  <2>3. /\ \A k \in Taken(o) : o.parts[k] \in H
        /\ \E q \in Under(H \cup {p}, o.sender, o.ref) :
             o.total = IF q.total > SMS_CONCAT_MAX_PARTS THEN SMS_CONCAT_MAX_PARTS
                       ELSE q.total
    BY <1>3, <2>2 DEF Came, Under
  <2>4. Came(w, H \cup {p})
    BY <1>3, <2>1, <2>2, <2>3, StoreCame
  <2> QED
    BY <2>4 DEF w
<1>5. CASE T \notin Matching(c, p)
  <2> DEFINE g == NewGroup(p, t)
  <2>1. w = Store(g, p)
    BY <1>5 DEF WithPart
  <2>2. /\ g \in Groups /\ Fits(g) /\ g.used /\ g.ref = p.ref /\ g.sender = p.sender
        /\ Taken(g) = {}
        /\ g.total = IF p.total > SMS_CONCAT_MAX_PARTS THEN SMS_CONCAT_MAX_PARTS ELSE p.total
    BY NewGroupIs
  <2> HIDE DEF w, g
  <2>3. p \in Under(H \cup {p}, g.sender, g.ref)
    BY <2>2 DEF Under
  <2>4. Came(w, H \cup {p})
    BY <2>1, <2>2, <2>3, StoreCame
  <2> QED
    BY <2>4 DEF w
<1> QED
  BY <1>4, <1>5

\* After a part the cache is in order again: a completed group is cleared, and no second
\* group was opened for a message that has one.
LEMMA CacheAfterInv ==
  ASSUME NEW c, CacheInv(c), NEW p \in Parts, Long(p), NEW t \in Ticks
  PROVE  CacheInv(CacheAfter(c, p, t))
<1> DEFINE T == Target(c, p)
           w == WithPart(c, p, t)
           n == IF Complete(w) THEN EmptyGroup ELSE w
           d == CacheAfter(c, p, t)
<1>1. /\ c \in [GroupIds -> Groups]
      /\ \A i \in GroupIds : Fits(c[i]) /\ (c[i].used => c[i].received < c[i].total)
      /\ \A i, j \in GroupIds : i # j => ~SameKey(c[i], c[j])
  BY DEF CacheInv
<1>2. T \in GroupIds /\ (Matching(c, p) # {} => T \in Matching(c, p))
  BY <1>1, TargetIs
<1>3. w \in Groups /\ Fits(w) /\ w.used /\ w.ref = p.ref /\ w.sender = p.sender
  BY WithPartIs
<1>4. d = [c EXCEPT ![T] = n]
  BY DEF CacheAfter
<1> HIDE DEF T, w, d
<1>5. n \in Groups /\ Fits(n) /\ (n.used => n.received < n.total)
  <2>1. CASE Complete(w)
    BY <2>1, EmptyFits
  <2>2. CASE ~Complete(w)
    <3>1. w.received \in Int /\ w.total \in Int
      BY <1>3, CacheAssumption DEF Groups
    <3>2. w.received < w.total
      BY <2>2, <3>1 DEF Complete
    <3> QED
      BY <1>3, <2>2, <3>2
  <2> QED
    BY <2>1, <2>2
<1>6. n.used => n.ref = p.ref /\ n.sender = p.sender
  BY <1>3, EmptyFits
<1> HIDE DEF n
<1>7. d \in [GroupIds -> Groups]
  BY <1>1, <1>4, <1>5
<1>8. \A i \in GroupIds : d[i] = IF i = T THEN n ELSE c[i]
  BY <1>1, <1>4
<1>9. ASSUME NEW i \in GroupIds, i # T PROVE ~SameKey(c[i], n)
  <2> SUFFICES ASSUME SameKey(c[i], n) PROVE FALSE
    OBVIOUS
  <2>1. c[i].used /\ c[i].ref = p.ref /\ c[i].sender = p.sender
    BY <1>6 DEF SameKey
  <2>2. i \in Matching(c, p)
    BY <2>1 DEF Matching
  <2>3. c[T].used /\ c[T].ref = p.ref /\ c[T].sender = p.sender
    BY <1>2, <2>2 DEF Matching
  <2> QED
    BY <1>1, <1>2, <1>9, <2>1, <2>3 DEF SameKey
<1>10. \A i, j \in GroupIds : i # j => ~SameKey(d[i], d[j])
  BY <1>1, <1>8, <1>9 DEF SameKey
<1> QED
  BY <1>1, <1>5, <1>7, <1>8, <1>10 DEF CacheInv, d

\* Clearing the overdue groups leaves the others as they were.
LEMMA ExpireInv ==
  ASSUME NEW c, CacheInv(c), NEW t \in Ticks
  PROVE  /\ CacheInv(CacheAfterExpire(c, t))
         /\ \A i \in GroupIds : CacheAfterExpire(c, t)[i].used =>
              /\ CacheAfterExpire(c, t)[i] = c[i]
              /\ Since(t, c[i].first) < TIMEOUT_TICKS
<1> DEFINE d == CacheAfterExpire(c, t)
<1>1. /\ c \in [GroupIds -> Groups]
      /\ \A i \in GroupIds : Fits(c[i]) /\ (c[i].used => c[i].received < c[i].total)
      /\ \A i, j \in GroupIds : i # j => ~SameKey(c[i], c[j])
  BY DEF CacheInv
<1>2. d = [i \in GroupIds |-> IF i \in Overdue(c, t) THEN EmptyGroup ELSE c[i]]
  BY DEF CacheAfterExpire
<1> HIDE DEF d
<1>3. \A i \in GroupIds : d[i] = c[i] \/ d[i] = EmptyGroup
  BY <1>2
<1>4. d \in [GroupIds -> Groups]
  BY <1>1, <1>2, EmptyFits
<1>5. \A i \in GroupIds : Fits(d[i]) /\ (d[i].used => d[i].received < d[i].total)
  BY <1>1, <1>3, EmptyFits
<1>6. \A i, j \in GroupIds : i # j => ~SameKey(d[i], d[j])
  BY <1>1, <1>3, EmptyFits DEF SameKey
<1>7. ASSUME NEW i \in GroupIds, d[i].used
      PROVE  d[i] = c[i] /\ Since(t, c[i].first) < TIMEOUT_TICKS
  <2>1. i \notin Overdue(c, t) /\ d[i] = c[i]
    BY <1>2, <1>7, EmptyFits
  <2>2. ~Expired(c[i], t)
    BY <1>7, <2>1 DEF Overdue
  <2>3. c[i].first \in Ticks
    BY <1>1 DEF Groups
  <2>4. Since(t, c[i].first) \in Int
    BY <2>3, SinceIs DEF Ticks
  <2>5. TIMEOUT_TICKS \in Int
    BY CacheConstants
  <2> QED
    BY <2>1, <2>2, <2>4, <2>5 DEF Expired
<1> QED
  BY <1>4, <1>5, <1>6, <1>7 DEF CacheInv, d

\* An empty cache is in order.
LEMMA EmptyCacheInv == CacheInv([i \in GroupIds |-> EmptyGroup])
BY EmptyFits DEF CacheInv, SameKey

----------------------------------------------------------------------------
(* Senders that number their parts, and torn reads elsewhere *)

\* A part a group holds is one that can come.
LEMMA TakenPart ==
  ASSUME NEW g \in Groups, NEW k \in Taken(g)
  PROVE  k \in Places /\ g.parts[k] \in Parts
<1>1. g.parts \in [Places -> Parts \cup {NoPart}]
  BY DEF Groups
<1> QED
  BY <1>1 DEF Taken

\* Fewer parts decoded disturb no more.
LEMMA UndisturbedBefore ==
  ASSUME NEW H, NEW J, H \subseteq J, NEW sender, NEW ref, Undisturbed(J, sender, ref)
  PROVE  Undisturbed(H, sender, ref)
<1>1. Under(H, sender, ref) \subseteq Under(J, sender, ref)
  BY DEF Under
<1> QED
  BY <1>1 DEF Undisturbed

\* A part a group holds is one of those decoded under its sender and reference.
LEMMA TakenUnder ==
  ASSUME NEW g \in Groups, Fits(g), NEW H, Came(g, H), NEW k \in Taken(g)
  PROVE  g.parts[k] \in Under(H, g.sender, g.ref) /\ g.parts[k].part = k
BY DEF Fits, Came, Under

\* The total of an undisturbed group is that of each of its parts, and of each decoded
\* for it; none lies beyond it.
LEMMA PlacesWithinTotal ==
  ASSUME NEW g \in Groups, Fits(g), g.used, NEW H \in SUBSET Parts, Came(g, H),
         Undisturbed(H, g.sender, g.ref)
  PROVE  /\ g.total \in Nat /\ g.total <= SMS_CONCAT_MAX_PARTS
         /\ \A p \in Under(H, g.sender, g.ref) : p.total = g.total /\ p.part \in 1 .. g.total
         /\ Taken(g) \subseteq 1 .. g.total
<1> DEFINE U == Under(H, g.sender, g.ref)
<1>1. PICK q \in U :
        g.total = IF q.total > SMS_CONCAT_MAX_PARTS THEN SMS_CONCAT_MAX_PARTS ELSE q.total
  BY DEF Came
<1>2. \A p \in U : /\ p \in Parts /\ Long(p) /\ p.part <= p.total
                   /\ p.total <= SMS_CONCAT_MAX_PARTS /\ p.total = q.total
  BY <1>1 DEF Under, Undisturbed
<1>3. SMS_CONCAT_MAX_PARTS \in Nat /\ \A p \in U : p.total \in Nat /\ p.part \in Nat
  BY <1>2, PartFacts, CacheAssumption
<1>4. g.total = q.total /\ q.total <= SMS_CONCAT_MAX_PARTS /\ q.total \in Nat
  BY <1>1, <1>2, <1>3
<1>5. \A p \in U : p.total = g.total /\ p.part \in 1 .. g.total
  BY <1>2, <1>3, <1>4 DEF Long
<1>6. \A k \in Taken(g) : g.parts[k] \in U /\ g.parts[k].part = k
  BY TakenUnder
<1> QED
  BY <1>4, <1>5, <1>6

\* An undisturbed group that counts as many parts as its total assembles to one whole
\* message.
LEMMA CompleteHoldsAll ==
  ASSUME NEW g \in Groups, Fits(g), g.used, Complete(g), NEW H \in SUBSET Parts,
         Came(g, H), Undisturbed(H, g.sender, g.ref)
  PROVE  IsWhole(Assemble(g))
<1>1. /\ g.total \in Nat /\ Taken(g) \subseteq 1 .. g.total
      /\ \A p \in Under(H, g.sender, g.ref) : p.total = g.total
  BY PlacesWithinTotal
<1>2. IsFiniteSet(1 .. g.total) /\ Cardinality(1 .. g.total) = g.total
  BY <1>1, CountTo, Zenon
<1>3. Cardinality(Taken(g)) >= g.total /\ Cardinality(Taken(g)) \in Nat
  BY TakenFinite DEF Fits, Complete
<1>4. Cardinality(Taken(g)) <= g.total
  BY <1>1, <1>2, FS_Subset
<1>5. Taken(g) = 1 .. g.total
  <2>1. Cardinality(Taken(g)) = Cardinality(1 .. g.total)
    BY <1>1, <1>2, <1>3, <1>4
  <2> QED
    BY <1>1, <1>2, <2>1, FS_Subset
<1>6. \A k \in 1 .. g.total : /\ g.parts[k] # NoPart /\ g.parts[k].part = k
                             /\ g.parts[k] \in Under(H, g.sender, g.ref)
  BY <1>5, TakenUnder DEF Taken
<1>7. \A k, l \in 1 .. g.total : g.parts[k].sms = g.parts[l].sms
  BY <1>6 DEF Undisturbed
<1> DEFINE text == Assemble(g)
<1>8. text = [k \in 1 .. g.total |-> g.parts[k]]
  BY DEF Assemble
<1> HIDE DEF text
<1>9. DOMAIN text = 1 .. g.total /\ Len(text) = g.total
      /\ \A k \in 1 .. g.total : text[k] = g.parts[k]
  BY <1>1, <1>8
<1>10. IsWhole(text)
  BY <1>1, <1>6, <1>7, <1>9 DEF IsWhole
<1> QED
  BY <1>10 DEF text

\* Two parts of one message with one number and one total are the same part.
LEMMA SameHeader ==
  ASSUME NEW p \in Parts, NEW q \in Parts, p.sms = q.sms,
         p.sender = q.sender, p.ref = q.ref, p.part = q.part, p.total = q.total
  PROVE  p = q
<1>1. p = [sms |-> p.sms, sender |-> p.sender, ref |-> p.ref, part |-> p.part,
           total |-> p.total]
  BY CacheAssumption
<1>2. q = [sms |-> q.sms, sender |-> q.sender, ref |-> q.ref, part |-> q.part,
           total |-> q.total]
  BY CacheAssumption
<1> QED
  BY <1>1, <1>2

----------------------------------------------------------------------------
(* The inductive invariant *)

\* What the callback has noted down has an event that wakes the task, or the task is
\* still before the place where it looks, or the callback is about to set the event.
NotedInv ==
  /\ s_cmt_pending => pc = "cmt" \/ "cmt" \in s_evt \/ cbPc = "cmtSignal"
  /\ s_ring_pending =>
       pc \in {"cmt", "read", "ring"} \/ "ring" \in s_evt \/ cbPc = "ringSignal"

\* The groups hold what was decoded.
CameInv == \A i \in GroupIds : Came(s_concat[i], handled)

\* How long ago a group's first part came, and the ticks this round has taken so far.
Age(i) == Since(Tick, s_concat[i].first)
Late   == MaxLag - slack

\* Once concat_expire is done no group is overdue but by what the round took; while the
\* task waits the timer runs for no longer than any group has left, or fires at the next
\* tick for a group that came to its end during the round.
TimerInv ==
  /\ pc = "start" => \A i \in GroupIds : ~s_concat[i].used
  /\ pc = "rearm" => \A i \in GroupIds : s_concat[i].used => Age(i) < TIMEOUT_TICKS + Late
  /\ pc = "wait" => \A i \in GroupIds : s_concat[i].used =>
       \/ "timeout" \in s_evt
       \/ /\ s_concat_timer # TimerOff
          /\ \/ Age(i) + s_concat_timer <= TIMEOUT_TICKS
             \/ s_concat_timer = 1 /\ Age(i) < TIMEOUT_TICKS + MaxLag

WindowAge == Since(Tick, s_call_window_tick)

\* The same of the window of a call: past its test it is open but for what the round
\* took, and while the task waits the wait ends with the window.
WindowInv ==
  /\ pc \in {"stale", "drop", "window", "report"} => s_call_collecting
  /\ pc = "start" => ~s_call_collecting
  /\ pc \in {"expire", "rearm"} /\ s_call_collecting => WindowAge < WINDOW_TICKS + Late
  /\ pc = "wait" /\ s_call_collecting =>
       \/ waitLeft = 0
       \/ waitLeft > 0 /\ WindowAge + waitLeft <= WINDOW_TICKS
       \/ waitLeft = 1 /\ WindowAge < WINDOW_TICKS + MaxLag

TickAt(n) == (BootTick + n) % TICK_MOD
LastAt    == calls[Len(calls)].at

\* The ticks the code keeps were read when the clock stood somewhere: the last report no
\* earlier than the last call queued, a ring that is being looked at no earlier than
\* that report, and a window not before the ignored time had passed.
CallsInv ==
  /\ calls \in Seq([number : Numbers \cup {TornNumber}, at : Nat])
  /\ \A i \in DOMAIN calls : calls[i].at <= clock
  /\ CallsApart
  /\ calls # <<>> =>
       /\ s_call_reported
       /\ \E l \in LastAt .. clock :
            /\ s_call_last_tick = TickAt(l)
            /\ pc = "ringing" => \E n \in l .. clock : now = TickAt(n)
       /\ s_call_collecting =>
            \E n \in LastAt + DEDUP_TICKS .. clock : s_call_window_tick = TickAt(n)
       /\ pc = "report" => LastAt + DEDUP_TICKS + WINDOW_TICKS <= clock

RIndInv ==
  /\ RTypeOK /\ CacheInv(s_concat) /\ CameInv
  /\ NotedInv /\ TimerInv /\ WindowInv /\ CallsInv

----------------------------------------------------------------------------
(* Types *)

\* The constants and what is computed from them.
LEMMA RecvConstants ==
  /\ MaxClock \in Nat /\ MaxLag \in Nat /\ BootTick \in Nat
  /\ WINDOW_TICKS \in Nat \ {0} /\ WINDOW_TICKS < TICK_MOD
  /\ DEDUP_TICKS \in Nat \ {0} /\ DEDUP_TICKS < TICK_MOD
BY RecvAssumption, CacheAssumption, TicksPositive DEF WINDOW_TICKS, DEDUP_TICKS, Ticks

\* The tick counter keeps within its width.
LEMMA TickTyped == RTypeOK => Tick \in Ticks
BY RecvConstants, CacheConstants, DivMod DEF RTypeOK, Tick, Ticks

\* The parts of a group are parts.
LEMMA PartsOfGroup ==
  ASSUME NEW g \in Groups
  PROVE  PartsOf(g) \subseteq Parts /\ PartsOf(g) = {g.parts[k] : k \in Taken(g)}
<1>1. g.parts \in [Places -> Parts \cup {NoPart}]
  BY DEF Groups
<1> QED
  BY <1>1 DEF PartsOf, Taken

\* A URC brings a part or none, and one of the numbers.
LEMMA UrcTyped ==
  ASSUME RTypeOK
  PROVE  urc.cmt \in Parts \cup {NoPart} /\ urc.clip \in Numbers /\ urc.ring \in BOOLEAN
<1>1. CASE urc \in Urcs
  BY <1>1, RecvAssumption DEF Numbers
<1>2. CASE urc = NoUrc
  BY <1>2 DEF NoUrc, Numbers
<1> QED
  BY <1>1, <1>2 DEF RTypeOK

\* How long the wait is for an open window.
LEMMA WindowTicksIs ==
  ASSUME RTypeOK
  PROVE  /\ WindowAge \in Nat /\ WindowTicks \in 1 .. WINDOW_TICKS
         /\ \/ WindowAge + WindowTicks <= WINDOW_TICKS
            \/ WindowAge >= WINDOW_TICKS /\ WindowTicks = 1
<1>1. Tick \in Ticks /\ s_call_window_tick \in Ticks
  BY TickTyped DEF RTypeOK
<1>2. WindowAge \in Nat
  BY <1>1, SinceIs DEF WindowAge, Ticks
<1>3. WindowTicks = IF WindowAge >= WINDOW_TICKS THEN 1 ELSE WINDOW_TICKS - WindowAge
  BY DEF WindowTicks, WindowAge
<1>4. WINDOW_TICKS \in Nat \ {0}
  BY RecvConstants
<1> QED
  BY <1>2, <1>3, <1>4

\* A decoded part leaves the types as they are.
LEMMA ReadsPartTyped ==
  ASSUME RTypeOK, CacheInv(s_concat), NEW p \in Parts, ReadsPart(p)
  PROVE  RTypeOK' /\ CacheInv(s_concat')
<1> DEFINE w == WithPart(s_concat, p, Tick)
           o == s_concat[Target(s_concat, p)]
           evicted == IF Evicts(s_concat, p) THEN PartsOf(o) ELSE {}
<1>1. Tick \in Ticks /\ Long(p)
  BY TickTyped DEF ReadsPart
<1>2. CacheInv(s_concat')
  BY <1>1, CacheAfterInv DEF ReadsPart
<1>3. s_concat' \in [GroupIds -> Groups]
  BY <1>2 DEF CacheInv
<1>4. s_concat_timer' \in 0 .. TIMEOUT_TICKS
  BY <1>1, <1>3, RearmIs DEF ReadsPart
<1>5. w \in Groups /\ o \in Groups
  BY <1>1, WithPartIs, TargetIs DEF RTypeOK
<1>6. evicted \subseteq Parts /\ PartsOf(w) \subseteq Parts
  BY <1>5, PartsOfGroup
<1>7. \/ lost' = lost \cup evicted
      \/ lost' = lost \cup evicted \cup PartsOf(w)
  BY DEF ReadsPart
<1> HIDE DEF w, o, evicted
<1>8. lost' \subseteq Parts
  BY <1>6, <1>7 DEF RTypeOK
<1>9. handled' \subseteq Parts
  BY DEF ReadsPart, RTypeOK
<1>10. pc' = "ring" /\ UNCHANGED <<clock, slack, waitLeft, s_evt, cbvars, cmtvars, clipvars,
                                   callvars, calls>>
  BY DEF ReadsPart
<1> QED
  BY <1>2, <1>3, <1>4, <1>8, <1>9, <1>10
  DEF RTypeOK, cbvars, cmtvars, clipvars, callvars, Numbers

\* Every step keeps the types, and the cache in order.
LEMMA RTypeStep ==
  ASSUME RTypeOK, CacheInv(s_concat), RNext
  PROVE  RTypeOK' /\ CacheInv(s_concat')
<1>0. Tick \in Ticks /\ WindowTicks \in 1 .. WINDOW_TICKS /\ RTypeOK
  BY TickTyped, WindowTicksIs
<1> USE DEF cbvars, cmtvars, clipvars, callvars, timevars, history, Flags
<1>1. ASSUME NEW u \in Urcs, UrcArrives(u) PROVE RTypeOK' /\ CacheInv(s_concat')
  BY <1>1 DEF UrcArrives, First, AfterClip, AfterRing, RTypeOK, Numbers
<1>2. CASE ClipCopied
  BY <1>2, UrcTyped DEF ClipCopied, RTypeOK, Numbers
<1>3. CASE ClipStamped \/ ClipFlagged \/ ClipSignalled
  <2>1. CASE ClipStamped
    BY <2>1, <1>0 DEF ClipStamped, RTypeOK, Numbers
  <2>2. CASE ClipFlagged
    BY <2>2 DEF ClipFlagged, RTypeOK, Numbers
  <2>3. CASE ClipSignalled
    BY <2>3, UrcTyped DEF ClipSignalled, AfterClip, AfterRing, RTypeOK, Numbers
  <2> QED
    BY <1>3, <2>1, <2>2, <2>3
<1>4. CASE RingFlagged \/ RingSignalled
  <2>1. CASE RingFlagged
    BY <2>1 DEF RingFlagged, RTypeOK, Numbers
  <2>2. CASE RingSignalled
    BY <2>2, UrcTyped DEF RingSignalled, AfterRing, RTypeOK, Numbers
  <2> QED
    BY <1>4, <2>1, <2>2
<1>5. CASE CmtCopied \/ CmtFlagged \/ CmtSignalled
  <2>1. CASE CmtCopied
    BY <2>1, UrcTyped DEF CmtCopied, RTypeOK, Numbers
  <2>2. CASE CmtFlagged
    BY <2>2 DEF CmtFlagged, RTypeOK, Numbers
  <2>3. CASE CmtSignalled
    BY <2>3 DEF CmtSignalled, RTypeOK, Numbers
  <2> QED
    BY <1>5, <2>1, <2>2, <2>3
<1>6. CASE SetUpDone
  BY <1>6, <1>0, RecvConstants DEF SetUpDone, GoWait, RTypeOK, Numbers
<1>7. CASE Wakes \/ TakesCmt \/ ReadsTorn
  <2>1. CASE Wakes
    BY <2>1 DEF Wakes, RTypeOK, Numbers
  <2>2. CASE TakesCmt
    <3>1. CacheInv(s_concat')
      BY <2>2, Zenon DEF TakesCmt
    <3>2. s_cmt_pending' \in BOOLEAN
      BY <2>2 DEF TakesCmt
    <3> QED
      BY <2>2, <3>1, <3>2 DEF TakesCmt, RTypeOK, Numbers
  <2>3. CASE ReadsTorn
    BY <2>3 DEF ReadsTorn, RTypeOK, Numbers
  <2> QED
    BY <1>7, <2>1, <2>2, <2>3
<1>8. ASSUME NEW p \in Parts, ReadsSingle(p) PROVE RTypeOK' /\ CacheInv(s_concat')
  <2>1. lost' \subseteq Parts
    BY <1>8 DEF ReadsSingle, RTypeOK
  <2> QED
    BY <1>8, <2>1 DEF ReadsSingle, RTypeOK, Numbers
<1>9. ASSUME NEW p \in Parts, ReadsPart(p) PROVE RTypeOK' /\ CacheInv(s_concat')
  BY <1>9, ReadsPartTyped
<1>10. CASE Expires
  <2>1. CacheInv(s_concat')
    BY <1>0, <1>10, ExpireInv DEF Expires
  <2>2. s_concat' \in [GroupIds -> Groups]
    BY <2>1 DEF CacheInv
  <2>3. \A i \in GroupIds : PartsOf(s_concat[i]) \subseteq Parts
    BY PartsOfGroup DEF RTypeOK
  <2>4. lost' \subseteq Parts
    <3>1. PICK refused \in SUBSET Overdue(s_concat, Tick) :
            lost' = lost \cup UNION {PartsOf(s_concat[i]) : i \in refused}
      BY <1>10 DEF Expires
    <3>2. refused \subseteq GroupIds
      BY <3>1 DEF Overdue
    <3> QED
      BY <2>3, <3>1, <3>2 DEF RTypeOK
  <2>5. pc' = "rearm" /\ UNCHANGED <<timevars, s_evt, cbvars, cmtvars, clipvars, callvars,
                                     handled, calls>>
    BY <1>10 DEF Expires
  <2> QED
    BY <2>1, <2>2, <2>4, <2>5 DEF RTypeOK, Numbers
<1>11. CASE Rearms
  <2>1. s_concat_timer' \in 0 .. TIMEOUT_TICKS
    BY <1>0, <1>11, RearmIs DEF Rearms, RTypeOK
  <2> QED
    BY <1>11, <1>0, <2>1, RecvConstants DEF Rearms, GoWait, RTypeOK, Numbers
<1>12. CASE TakesRing
  <2>1. /\ now' \in Ticks /\ s_ring_pending' = FALSE /\ pc' = "ringing"
        /\ UNCHANGED <<timevars, s_evt, cbvars, cmtvars, s_clip_buf, s_clip_pending,
                       s_clip_tick, number, s_call_collecting, s_call_window_tick,
                       s_call_last_tick, s_call_reported, s_concat, history>>
    BY <1>12, <1>0 DEF TakesRing
  <2>2. /\ pc' = "ringing" /\ now' \in Ticks /\ s_ring_pending' = FALSE
        /\ UNCHANGED <<clock, slack, s_concat_timer, waitLeft, s_evt, cbPc, urc, coming,
                       s_cmt_buf, s_cmt_pending, s_clip_buf, s_clip_pending, s_clip_tick,
                       number, s_call_collecting, s_call_window_tick, s_call_last_tick,
                       s_call_reported, s_concat, handled, lost>>
    BY <2>1
  <2>3. now' \in Ticks /\ number' \in Numbers \cup {TornNumber}
    BY <2>2 DEF RTypeOK, Numbers
  <2>4. s_clip_tick' \in Ticks /\ s_ring_pending' \in BOOLEAN
    BY <2>2 DEF RTypeOK, Numbers
  <2>5. pc' \in {"start", "wait", "cmt", "read", "ring", "ringing", "stale", "drop", "window",
                "report", "expire", "rearm"}
    BY <2>2 DEF RTypeOK, Numbers
  <2>6. CacheInv(s_concat')
    BY <2>2 DEF RTypeOK, Numbers
  <2> QED
    BY <2>2, <2>3, <2>4, <2>5, <2>6 DEF RTypeOK, Numbers
<1>13. CASE NoRing \/ RingIgnored
  <2>1. CASE NoRing
    BY <2>1 DEF NoRing, AfterCalls, RTypeOK, Numbers
  <2>2. CASE RingIgnored
    BY <2>2 DEF RingIgnored, AfterCalls, RTypeOK, Numbers
  <2> QED
    BY <1>13, <2>1, <2>2
<1>14. CASE RingOpensWindow \/ ClipTested \/ ClipDropped
  <2>1. CASE RingOpensWindow
    BY <2>1 DEF RingOpensWindow, RTypeOK, Numbers
  <2>2. CASE ClipTested
    <3>1. pc' \in {"drop", "window"}
      BY <2>2 DEF ClipTested
    <3>2. UNCHANGED <<timevars, s_evt, cbvars, cmtvars, clipvars, callvars, s_concat, history>>
      BY <2>2 DEF ClipTested
    <3> QED
      BY <3>1, <3>2 DEF RTypeOK, Numbers
  <2>3. CASE ClipDropped
    <3>1. pc' = "window" /\ s_clip_pending' \in BOOLEAN
      BY <2>3 DEF ClipDropped
    <3>2. UNCHANGED <<timevars, s_evt, cbvars, cmtvars, s_clip_buf, s_clip_tick,
                      s_ring_pending, callvars, s_concat, history>>
      BY <2>3 DEF ClipDropped
    <3>3. CacheInv(s_concat')
      BY <3>2, Zenon
    <3> QED
      BY <3>1, <3>2, <3>3 DEF RTypeOK, Numbers
  <2> QED
    BY <1>14, <2>1, <2>2, <2>3
<1>15. CASE StillCollecting
  BY <1>15 DEF StillCollecting, RTypeOK, Numbers
<1>16. CASE WindowCloses
  <2>1. number' \in Numbers \cup {TornNumber}
    BY <1>16 DEF WindowCloses, RTypeOK, Numbers
  <2> QED
    BY <1>16, <2>1 DEF WindowCloses, RTypeOK, Numbers
<1>17. CASE ReportsCall
  <2>1. s_call_last_tick' \in Ticks
    BY <1>17, <1>0 DEF ReportsCall
  <2> QED
    <3>1. CacheInv(s_concat')
      BY <1>17, Zenon DEF ReportsCall
    <3>2. /\ s_clip_pending' \in BOOLEAN /\ s_call_reported' \in BOOLEAN
          /\ s_call_collecting' \in BOOLEAN
      BY <1>17 DEF ReportsCall
    <3> QED
      BY <1>17, <2>1, <3>1, <3>2 DEF ReportsCall, RTypeOK, Numbers
<1>18. CASE TimePasses
  <2>1. clock' \in 0 .. MaxClock /\ slack' \in 0 .. MaxLag
    BY <1>18, RecvConstants DEF TimePasses, Asleep, RTypeOK
  <2>2. s_concat_timer' \in 0 .. TIMEOUT_TICKS
    BY <1>18, CacheConstants DEF TimePasses, TimerOff, RTypeOK
  <2>3. waitLeft' \in {Forever} \cup 0 .. WINDOW_TICKS
    BY <1>18, RecvConstants DEF TimePasses, Forever, RTypeOK
  <2>4. s_evt' \subseteq Flags
    BY <1>18 DEF TimePasses, RTypeOK
  <2>5. UNCHANGED <<pc, cbvars, cmtvars, clipvars, callvars, s_concat, history>>
    BY <1>18 DEF TimePasses
  <2> QED
    BY <2>1, <2>2, <2>3, <2>4, <2>5 DEF RTypeOK, Numbers
<1> QED
  BY <1>1, <1>2, <1>3, <1>4, <1>5, <1>6, <1>7, <1>8, <1>9, <1>10, <1>11, <1>12, <1>13,
     <1>14, <1>15, <1>16, <1>17, <1>18 DEF RNext, Callback, Task

----------------------------------------------------------------------------
(* What the groups hold *)

\* But for decoding and expiring, no step touches the cache or what is queued.
LEMMA QuietSteps ==
  ASSUME RNext, ~(\E p \in Parts : ReadsSingle(p) \/ ReadsPart(p)), ~Expires
  PROVE  UNCHANGED <<s_concat, handled, pushed, lost>>
BY DEF RNext, Callback, Task, UrcArrives, ClipCopied, ClipStamped, ClipFlagged, ClipSignalled,
   RingFlagged, RingSignalled, CmtCopied, CmtFlagged, CmtSignalled, SetUpDone, Wakes, TakesCmt,
   ReadsTorn, Rearms, TakesRing, NoRing, RingIgnored, RingOpensWindow, ClipTested, ClipDropped,
   StillCollecting, WindowCloses, ReportsCall, TimePasses, history

\* What came, came still when more has come.
LEMMA CameGrows ==
  ASSUME NEW g, NEW H, NEW J, H \subseteq J, Came(g, H)
  PROVE  Came(g, J)
BY DEF Came, Under

\* Every step keeps the groups made of decoded parts.
LEMMA CameStep ==
  ASSUME RTypeOK, CacheInv(s_concat), CameInv, RNext
  PROVE  CameInv'
<1>0. s_concat \in [GroupIds -> Groups]
  BY DEF RTypeOK
<1>1. CASE \E p \in Parts : ReadsPart(p)
  <2>1. PICK p \in Parts : ReadsPart(p)
    BY <1>1
  <2> DEFINE T == Target(s_concat, p)
             w == WithPart(s_concat, p, Tick)
             n == IF Complete(w) THEN EmptyGroup ELSE w
  <2>2. Tick \in Ticks /\ Long(p) /\ handled' = handled \cup {p}
    BY <2>1, TickTyped DEF ReadsPart
  <2>3. s_concat' = [s_concat EXCEPT ![T] = n]
    BY <2>1 DEF ReadsPart, CacheAfter
  <2>4. Came(w, handled')
    BY <2>2, WithPartCame DEF CameInv
  <2> HIDE DEF T, w
  <2>5. Came(n, handled')
    BY <2>4, EmptyFits
  <2> HIDE DEF n
  <2>6. ASSUME NEW i \in GroupIds PROVE Came(s_concat'[i], handled')
    <3>1. s_concat'[i] = n \/ s_concat'[i] = s_concat[i]
      BY <1>0, <2>3
    <3>2. Came(s_concat[i], handled')
      BY <2>2, CameGrows DEF CameInv
    <3> QED
      BY <2>5, <3>1, <3>2
  <2> QED
    BY <2>6 DEF CameInv
<1>2. CASE Expires
  <2>1. handled' = handled /\ s_concat' = CacheAfterExpire(s_concat, Tick)
    BY <1>2 DEF Expires
  <2>2. \A i \in GroupIds : s_concat'[i] = EmptyGroup \/ s_concat'[i] = s_concat[i]
    BY <2>1 DEF CacheAfterExpire
  <2> QED
    BY <2>1, <2>2, EmptyFits DEF CameInv
<1>3. CASE \E p \in Parts : ReadsSingle(p)
  <2>1. handled \subseteq handled' /\ UNCHANGED s_concat
    BY <1>3 DEF ReadsSingle
  <2> QED
    BY <2>1, CameGrows DEF CameInv
<1>4. CASE ~(\E p \in Parts : ReadsSingle(p) \/ ReadsPart(p)) /\ ~Expires
  BY <1>4, QuietSteps DEF CameInv
<1> QED
  BY <1>1, <1>2, <1>3, <1>4

----------------------------------------------------------------------------
(* Events *)

\* Every step keeps each note covered: the callback sets the flag before the event, the
\* task clears the events before it looks at the flags.
LEMMA NotedStep ==
  ASSUME NotedInv, RNext
  PROVE  NotedInv'
<1> USE DEF NotedInv, cbvars, cmtvars, clipvars
<1>1. CASE \E u \in Urcs : UrcArrives(u)
  BY <1>1 DEF UrcArrives
<1>2. CASE ClipCopied \/ ClipStamped \/ ClipFlagged \/ ClipSignalled \/ CmtCopied
  BY <1>2 DEF ClipCopied, ClipStamped, ClipFlagged, ClipSignalled, CmtCopied
<1>2a. CASE RingFlagged \/ RingSignalled
  BY <1>2a DEF RingFlagged, RingSignalled
<1>3. CASE CmtFlagged \/ CmtSignalled
  BY <1>3 DEF CmtFlagged, CmtSignalled
<1>4. CASE SetUpDone \/ Wakes \/ TakesCmt \/ ReadsTorn
  BY <1>4 DEF SetUpDone, GoWait, Wakes, TakesCmt, ReadsTorn
<1>5. CASE \E p \in Parts : ReadsSingle(p) \/ ReadsPart(p)
  BY <1>5 DEF ReadsSingle, ReadsPart
<1>6. CASE Expires \/ Rearms
  BY <1>6 DEF Expires, Rearms, GoWait
<1>7. CASE TakesRing \/ NoRing
  BY <1>7 DEF TakesRing, NoRing, AfterCalls
<1>8. CASE RingIgnored \/ RingOpensWindow \/ ClipTested \/ ClipDropped
  BY <1>8 DEF RingIgnored, RingOpensWindow, ClipTested, ClipDropped, AfterCalls
<1>9. CASE StillCollecting \/ WindowCloses \/ ReportsCall
  BY <1>9 DEF StillCollecting, WindowCloses, ReportsCall
<1>10. CASE TimePasses
  BY <1>10 DEF TimePasses
<1> QED
  BY <1>1, <1>2, <1>2a, <1>3, <1>4, <1>5, <1>6, <1>7, <1>8, <1>9, <1>10
  DEF RNext, Callback, Task

----------------------------------------------------------------------------
(* Time *)

\* No step but the tick moves the clock.
LEMMA ClockSteps ==
  ASSUME RNext, ~TimePasses
  PROVE  clock' = clock /\ Tick' = Tick
<1>1. clock' = clock
  BY DEF RNext, Callback, Task, UrcArrives, ClipCopied, ClipStamped, ClipFlagged,
     ClipSignalled, RingFlagged, RingSignalled, CmtCopied,
     CmtFlagged, CmtSignalled, SetUpDone, Wakes, TakesCmt, ReadsTorn, ReadsSingle, ReadsPart,
     Expires, Rearms, TakesRing, NoRing, RingIgnored, RingOpensWindow, ClipTested, ClipDropped,
       StillCollecting,
     WindowCloses, ReportsCall, timevars
<1> QED
  BY <1>1 DEF Tick

\* A tick makes every time since one longer, or starts it anew.
LEMMA TickPasses ==
  ASSUME RTypeOK, TimePasses, NEW a \in Ticks
  PROVE  /\ Since(Tick, a) \in Nat /\ Since(Tick', a) \in Nat
         /\ Since(Tick', a) <= Since(Tick, a) + 1
         /\ Since(Tick', a) < TICK_MOD
<1>1. TICK_MOD \in Nat \ {0} /\ BootTick \in Nat /\ clock \in Nat /\ clock' = clock + 1
  BY CacheConstants, RecvConstants DEF RTypeOK, TimePasses
<1>2. BootTick + clock \in Int /\ BootTick + clock' = (BootTick + clock) + 1
  BY <1>1
<1>3. Tick' = IF Tick = TICK_MOD - 1 THEN 0 ELSE Tick + 1
  <2>1. ((BootTick + clock) + 1) % TICK_MOD =
          IF ((BootTick + clock) % TICK_MOD) = TICK_MOD - 1 THEN 0
          ELSE ((BootTick + clock) % TICK_MOD) + 1
    BY <1>1, <1>2, ModNext
  <2>2. Tick' = (BootTick + clock') % TICK_MOD
    BY DEF Tick
  <2> QED
    BY <1>2, <2>1, <2>2 DEF Tick
<1>4. Tick \in Ticks
  BY TickTyped
<1> DEFINE t == Tick
           u == Tick'
<1>5. u \in Ticks
  BY <1>1, <1>3, <1>4 DEF Ticks
<1>6. u = IF t = TICK_MOD - 1 THEN 0 ELSE t + 1
  BY <1>3
<1> HIDE DEF t, u
<1>7. t \in Ticks
  BY <1>4 DEF t
<1>8. /\ Since(t, a) \in Ticks /\ Since(u, a) \in Ticks
      /\ Since(u, a) = IF Since(t, a) = TICK_MOD - 1 THEN 0 ELSE Since(t, a) + 1
  BY <1>5, <1>6, <1>7, SinceIs, SinceNext
<1>9. /\ Since(t, a) \in Nat /\ Since(u, a) \in Nat
      /\ Since(u, a) <= Since(t, a) + 1 /\ Since(u, a) < TICK_MOD
  BY <1>1, <1>8 DEF Ticks
<1> QED
  BY <1>9 DEF t, u

\* The timer covers every group, whatever the step.
LEMMA TimerStep ==
  ASSUME RTypeOK, CacheInv(s_concat), TimerInv, RNext
  PROVE  TimerInv'
<1>0. /\ TIMEOUT_TICKS \in Nat \ {0} /\ TIMEOUT_TICKS < TICK_MOD /\ TICK_MOD \in Nat
      /\ MaxLag \in Nat /\ slack \in 0 .. MaxLag /\ s_concat_timer \in 0 .. TIMEOUT_TICKS
      /\ Tick \in Ticks /\ s_concat \in [GroupIds -> Groups]
  BY CacheConstants, RecvConstants, TickTyped DEF RTypeOK
<1>1. \A i \in GroupIds : s_concat[i].first \in Ticks /\ Age(i) \in Nat
  <2>1. \A i \in GroupIds : s_concat[i].first \in Ticks
    BY <1>0 DEF Groups
  <2>2. \A i \in GroupIds : Age(i) \in Ticks
    BY <1>0, <2>1, SinceIs DEF Age
  <2>3. Ticks \subseteq Nat
    BY DEF Ticks
  <2> QED
    BY <2>1, <2>2, <2>3
<1>2. CASE TimePasses
  <2>0. /\ pc' = pc /\ s_concat' = s_concat
        /\ pc \notin {"start", "wait"} => slack > 0 /\ slack' = slack - 1
        /\ s_concat_timer' = IF s_concat_timer = TimerOff THEN TimerOff ELSE s_concat_timer - 1
        /\ s_evt' = IF s_concat_timer = 1 THEN s_evt \cup {"timeout"} ELSE s_evt
    BY <1>2 DEF TimePasses, Asleep
  <2>1. ASSUME NEW i \in GroupIds
        PROVE  Age(i)' \in Nat /\ Age(i)' <= Age(i) + 1 /\ Age(i)' < TICK_MOD
    BY <1>1, <1>2, <2>0, TickPasses DEF Age
  <2>2. pc' = "start" => \A i \in GroupIds : ~s_concat'[i].used
    BY <2>0 DEF TimerInv
  <2>3. ASSUME pc' = "rearm", NEW i \in GroupIds, s_concat'[i].used
        PROVE  Age(i)' < TIMEOUT_TICKS + Late'
    <3>1. Age(i) < TIMEOUT_TICKS + Late
      BY <2>0, <2>3 DEF TimerInv
    <3>2. Late' = Late + 1 /\ Late \in Nat
      BY <1>0, <2>0, <2>3 DEF Late
    <3> QED
      BY <1>0, <1>1, <2>1, <3>1, <3>2
  <2>4. ASSUME pc' = "wait", NEW i \in GroupIds, s_concat'[i].used
        PROVE  \/ "timeout" \in s_evt'
               \/ /\ s_concat_timer' # TimerOff
                  /\ \/ Age(i)' + s_concat_timer' <= TIMEOUT_TICKS
                     \/ s_concat_timer' = 1 /\ Age(i)' < TIMEOUT_TICKS + MaxLag
    <3>1. CASE "timeout" \in s_evt \/ s_concat_timer = 1
      BY <2>0, <3>1
    <3>2. CASE "timeout" \notin s_evt /\ s_concat_timer # 1
      <4>1. s_concat_timer # TimerOff /\ Age(i) + s_concat_timer <= TIMEOUT_TICKS
        BY <2>0, <2>4, <3>2 DEF TimerInv
      <4>2. s_concat_timer' = s_concat_timer - 1 /\ s_concat_timer' # TimerOff
        BY <1>0, <2>0, <3>2, <4>1 DEF TimerOff
      <4> QED
        BY <1>0, <1>1, <2>1, <4>1, <4>2
    <3> QED
      BY <3>1, <3>2
  <2> QED
    BY <2>2, <2>3, <2>4 DEF TimerInv
<1>3. CASE ~TimePasses /\ ~SetUpDone /\ ~Expires /\ ~Rearms
      /\ ~(\E p \in Parts : ReadsPart(p))
  <2>1. /\ pc' = pc \/ pc' \notin {"start", "rearm", "wait"}
        /\ s_evt \subseteq s_evt' \/ pc' = "cmt"
        /\ UNCHANGED <<timevars, s_concat>>
    BY <1>3 DEF RNext, Callback, Task, UrcArrives, ClipCopied, ClipStamped, ClipFlagged,
     ClipSignalled, RingFlagged, RingSignalled,
       CmtCopied, CmtFlagged, CmtSignalled, Wakes, TakesCmt, ReadsTorn, ReadsSingle, TakesRing,
       NoRing, RingIgnored, RingOpensWindow, ClipTested, ClipDropped,
       StillCollecting, WindowCloses, ReportsCall,
       AfterCalls
  <2>2. UNCHANGED <<s_concat_timer, slack, s_concat>>
    BY <2>1 DEF timevars
  <2>3. Tick' = Tick
    BY <1>3, ClockSteps
  <2> QED
    BY <2>1, <2>2, <2>3 DEF TimerInv, Age, Late
<1>4. CASE SetUpDone
  BY <1>4 DEF SetUpDone, GoWait, TimerInv
<1>5. CASE \E p \in Parts : ReadsPart(p)
  BY <1>5 DEF ReadsPart, TimerInv
<1>6. CASE Expires
  <2>1. s_concat' = CacheAfterExpire(s_concat, Tick) /\ pc' = "rearm" /\ UNCHANGED slack
    BY <1>6 DEF Expires, timevars
  <2>2. Tick' = Tick
    BY <1>6 DEF Expires, timevars, Tick
  <2>3. ASSUME NEW i \in GroupIds, s_concat'[i].used
        PROVE  Age(i)' < TIMEOUT_TICKS + Late'
    <3>1. s_concat'[i] = s_concat[i] /\ Age(i) < TIMEOUT_TICKS
      BY <1>0, <2>1, <2>3, ExpireInv DEF Age
    <3>2. Age(i)' = Age(i)
      BY <2>2, <3>1 DEF Age
    <3>3. Late' \in Nat
      BY <1>0, <2>1 DEF Late
    <3> QED
      BY <1>0, <1>1, <3>1, <3>2, <3>3
  <2> QED
    BY <2>1, <2>3 DEF TimerInv
<1>7. CASE Rearms
  <2>1. /\ s_concat_timer' = Rearm(s_concat, Tick) /\ pc = "rearm" /\ pc' = "wait"
        /\ UNCHANGED s_concat
    BY <1>7 DEF Rearms, GoWait
  <2>2. Tick' = Tick
    BY <1>7 DEF Rearms, Tick
  <2>3. ASSUME NEW i \in GroupIds, s_concat'[i].used
        PROVE  /\ s_concat_timer' # TimerOff
               /\ \/ Age(i)' + s_concat_timer' <= TIMEOUT_TICKS
                  \/ s_concat_timer' = 1 /\ Age(i)' < TIMEOUT_TICKS + MaxLag
    <3>1. Age(i)' = Age(i) /\ s_concat[i].used
      BY <2>1, <2>2, <2>3 DEF Age
    <3>2. Age(i) < TIMEOUT_TICKS + Late
      BY <2>1, <3>1 DEF TimerInv
    <3>3. s_concat_timer' # TimerOff /\ s_concat_timer' <= Remaining(s_concat[i], Tick)
          /\ s_concat_timer' \in 0 .. TIMEOUT_TICKS
      BY <1>0, <2>1, <3>1, RearmIs
    <3>4. /\ Age(i) >= TIMEOUT_TICKS => Remaining(s_concat[i], Tick) = 1
          /\ Age(i) < TIMEOUT_TICKS => Remaining(s_concat[i], Tick) = TIMEOUT_TICKS - Age(i)
      BY <1>0, RemainingIs DEF Age
    <3>5. Late \in Int /\ Late <= MaxLag
      BY <1>0 DEF Late
    <3> QED
      BY <1>0, <1>1, <3>1, <3>2, <3>3, <3>4, <3>5 DEF TimerOff
  <2> QED
    BY <2>1, <2>3 DEF TimerInv
<1> QED
  BY <1>2, <1>3, <1>4, <1>5, <1>6, <1>7

\* An open window ends the wait, whatever the step.
LEMMA WindowStep ==
  ASSUME RTypeOK, WindowInv, RNext
  PROVE  WindowInv'
<1>0. /\ WINDOW_TICKS \in Nat \ {0} /\ WINDOW_TICKS < TICK_MOD /\ TICK_MOD \in Nat
      /\ MaxLag \in Nat /\ slack \in 0 .. MaxLag
      /\ waitLeft \in {Forever} \cup 0 .. WINDOW_TICKS
      /\ Tick \in Ticks /\ s_call_window_tick \in Ticks /\ WindowAge \in Nat
  BY CacheConstants, RecvConstants, TickTyped, WindowTicksIs DEF RTypeOK
<1>1. Late \in Nat /\ Late <= MaxLag
  BY <1>0 DEF Late
<1>2. CASE TimePasses
  <2>0. /\ pc' = pc /\ UNCHANGED <<s_call_collecting, s_call_window_tick>>
        /\ pc \notin {"start", "wait"} => slack > 0 /\ slack' = slack - 1
        /\ waitLeft' = IF pc = "wait" /\ waitLeft > 0 THEN waitLeft - 1 ELSE waitLeft
    BY <1>2 DEF TimePasses, Asleep, callvars
  <2>1. WindowAge' \in Nat /\ WindowAge' <= WindowAge + 1 /\ WindowAge' < TICK_MOD
    BY <1>0, <1>2, <2>0, TickPasses DEF WindowAge
  <2>2. ASSUME pc' \in {"expire", "rearm"}, s_call_collecting'
        PROVE  WindowAge' < WINDOW_TICKS + Late'
    <3>1. WindowAge < WINDOW_TICKS + Late
      BY <2>0, <2>2 DEF WindowInv
    <3>2. Late' = Late + 1
      BY <1>0, <2>0, <2>2 DEF Late
    <3> QED
      BY <1>0, <1>1, <2>1, <3>1, <3>2
  <2>3. ASSUME pc' = "wait", s_call_collecting'
        PROVE  \/ waitLeft' = 0
               \/ waitLeft' > 0 /\ WindowAge' + waitLeft' <= WINDOW_TICKS
               \/ waitLeft' = 1 /\ WindowAge' < WINDOW_TICKS + MaxLag
    <3>1. \/ waitLeft = 0
          \/ waitLeft > 0 /\ WindowAge + waitLeft <= WINDOW_TICKS
          \/ waitLeft = 1 /\ WindowAge < WINDOW_TICKS + MaxLag
      BY <2>0, <2>3 DEF WindowInv
    <3>2. waitLeft \in Int
      BY <1>0 DEF Forever
    <3>3. waitLeft' = IF waitLeft > 0 THEN waitLeft - 1 ELSE waitLeft
      BY <2>0, <2>3
    <3>4. WINDOW_TICKS \in Int /\ WindowAge \in Int /\ WindowAge' \in Int
      BY <1>0, <2>1
    <3>5. CASE waitLeft = 0
      BY <3>3, <3>5
    <3>6. CASE waitLeft > 0 /\ WindowAge + waitLeft <= WINDOW_TICKS
      <4> DEFINE a == WindowAge
                 b == WindowAge'
                 w == WINDOW_TICKS
      <4>1. a \in Int /\ b \in Int /\ w \in Int /\ b <= a + 1 /\ a + waitLeft <= w
        BY <2>1, <3>4, <3>6
      <4> HIDE DEF a, b, w
      <4>2. waitLeft' = 0 \/ (waitLeft' > 0 /\ b + waitLeft' <= w)
        BY <3>2, <3>3, <3>6, <4>1
      <4> QED
        BY <4>2 DEF a, b, w
    <3>7. CASE waitLeft = 1 /\ WindowAge < WINDOW_TICKS + MaxLag
      BY <3>3, <3>7
    <3> QED
      BY <3>1, <3>5, <3>6, <3>7
  <2>4. /\ pc' \in {"stale", "drop", "window", "report"} => s_call_collecting'
        /\ pc' = "start" => ~s_call_collecting'
    BY <2>0 DEF WindowInv
  <2> QED
    BY <2>2, <2>3, <2>4 DEF WindowInv
<1>3. CASE ~TimePasses
  <2>1. Tick' = Tick
    BY <1>3, ClockSteps
  <2>2. CASE SetUpDone
    BY <2>2 DEF SetUpDone, GoWait, WindowInv, callvars
  <2>3. CASE Rearms
    <3>1. /\ pc = "rearm" /\ pc' = "wait"
          /\ waitLeft' = IF s_call_collecting THEN WindowTicks ELSE Forever
          /\ UNCHANGED <<s_call_collecting, s_call_window_tick>>
      BY <2>3 DEF Rearms, GoWait, callvars
    <3>2. WindowAge' = WindowAge
      BY <2>1, <3>1 DEF WindowAge
    <3>3. ASSUME s_call_collecting
          PROVE  \/ waitLeft' > 0 /\ WindowAge' + waitLeft' <= WINDOW_TICKS
                 \/ waitLeft' = 1 /\ WindowAge' < WINDOW_TICKS + MaxLag
      <4>1. WindowAge < WINDOW_TICKS + Late
        BY <3>1, <3>3 DEF WindowInv
      <4>2. waitLeft' = WindowTicks
        BY <3>1, <3>3
      <4> QED
        BY <1>0, <1>1, <3>2, <4>1, <4>2, WindowTicksIs
    <3> QED
      BY <3>1, <3>3 DEF WindowInv
  <2>4. CASE RingOpensWindow \/ ClipTested \/ ClipDropped
    BY <2>4 DEF RingOpensWindow, ClipTested, ClipDropped, WindowInv, callvars
  <2>5. CASE StillCollecting
    <3>1. /\ WindowAge < WINDOW_TICKS /\ pc = "window" /\ pc' = "expire"
          /\ UNCHANGED <<s_call_collecting, s_call_window_tick>>
      BY <2>5 DEF StillCollecting, WindowOpen, WindowAge, callvars
    <3>2. WindowAge' = WindowAge /\ Late' = Late
      BY <2>1, <2>5, <3>1 DEF WindowAge, Late, StillCollecting, timevars
    <3> QED
      BY <1>0, <1>1, <3>1, <3>2 DEF WindowInv
  <2>6. CASE WindowCloses
    BY <2>6 DEF WindowCloses, WindowInv
  <2>7. CASE ReportsCall
    BY <2>7 DEF ReportsCall, WindowInv
  <2>8. CASE NoRing \/ RingIgnored
    <3>1. /\ pc' = IF s_call_collecting THEN "window" ELSE "expire"
          /\ UNCHANGED s_call_collecting
      BY <2>8 DEF NoRing, RingIgnored, AfterCalls, callvars
    <3> QED
      BY <3>1, <1>0 DEF WindowInv, RTypeOK
  <2>9. CASE Expires
    <3>1. /\ pc = "expire" /\ pc' = "rearm"
          /\ UNCHANGED <<s_call_collecting, s_call_window_tick, slack>>
      BY <2>9 DEF Expires, callvars, timevars
    <3>2. WindowAge' = WindowAge /\ Late' = Late
      BY <2>1, <3>1 DEF WindowAge, Late
    <3> QED
      BY <3>1, <3>2 DEF WindowInv
  <2>10. CASE Wakes \/ TakesCmt \/ ReadsTorn \/ TakesRing
              \/ \E p \in Parts : ReadsSingle(p) \/ ReadsPart(p)
    <3>1. pc' \in {"cmt", "read", "ring", "ringing"}
      BY <2>10 DEF Wakes, TakesCmt, ReadsTorn, TakesRing, ReadsSingle, ReadsPart
    <3> QED
      BY <3>1 DEF WindowInv
  <2>11. CASE Callback \/ \E u \in Urcs : UrcArrives(u)
    <3>1. UNCHANGED <<pc, timevars, callvars>>
      BY <2>11 DEF Callback, UrcArrives, ClipCopied, ClipStamped, ClipFlagged,
     ClipSignalled, RingFlagged, RingSignalled, CmtCopied,
         CmtFlagged, CmtSignalled, timevars
    <3>2. WindowAge' = WindowAge /\ Late' = Late
      BY <2>1, <3>1 DEF WindowAge, Late, timevars, callvars
    <3> QED
      BY <3>1, <3>2 DEF WindowInv, timevars, callvars
  <2> QED
    BY <1>3, <2>2, <2>3, <2>4, <2>5, <2>6, <2>7, <2>8, <2>9, <2>10, <2>11 DEF RNext, Task
<1> QED
  BY <1>2, <1>3

----------------------------------------------------------------------------
(* Calls *)

\* Between two moments of the clock at least the ticks have passed that the counter says.
LEMMA CounterNoMore ==
  ASSUME NEW m \in Nat, NEW n \in Nat, m <= n
  PROVE  Since(TickAt(n), TickAt(m)) \in Nat /\ Since(TickAt(n), TickAt(m)) <= n - m
<1>1. BootTick \in Nat /\ TICK_MOD \in Nat \ {0}
  BY RecvConstants, CacheConstants
<1>2. Since(TickAt(n), TickAt(m)) <= n - m
  BY <1>1, SinceNoMore DEF TickAt
<1>3. TickAt(n) \in Ticks /\ TickAt(m) \in Ticks
  BY <1>1, DivMod DEF TickAt, Ticks
<1>4. Since(TickAt(n), TickAt(m)) \in Ticks
  BY <1>3, SinceIs
<1> QED
  BY <1>2, <1>4 DEF Ticks

\* The task reads the counter where the clock stands.
LEMMA TickIs == Tick = TickAt(clock)
BY DEF Tick, TickAt

\* The calls are numbered from one, and stand for moments of the clock.
LEMMA CallsTyped ==
  ASSUME CallsInv, RTypeOK
  PROVE  /\ clock \in Nat /\ Len(calls) \in Nat /\ DOMAIN calls = 1 .. Len(calls)
         /\ \A i \in DOMAIN calls : calls[i].at \in Nat
         /\ calls # <<>> => Len(calls) \in DOMAIN calls /\ LastAt \in Nat /\ LastAt <= clock
<1> DEFINE C == [number : Numbers \cup {TornNumber}, at : Nat]
<1>1. calls \in Seq(C)
  BY DEF CallsInv
<1>2. \A e \in C : e.at \in Nat
  OBVIOUS
<1> HIDE DEF C
<1>3. /\ Len(calls) \in Nat /\ DOMAIN calls = 1 .. Len(calls)
      /\ \A i \in DOMAIN calls : calls[i] \in C
      /\ calls # <<>> => Len(calls) \in DOMAIN calls
  BY <1>1
<1>4. clock \in Nat
  BY RecvConstants DEF RTypeOK
<1> QED
  BY <1>2, <1>3, <1>4 DEF LastAt, CallsInv

\* A step that touches no call keeps what is known of them.
LEMMA CallsFrame ==
  ASSUME RTypeOK, CallsInv, UNCHANGED <<calls, s_call_reported, s_call_last_tick,
                                        s_call_window_tick, now>>,
         clock' \in Nat, clock' >= clock,
         s_call_collecting' => s_call_collecting,
         pc' = "ringing" => pc = "ringing",
         pc' = "report" => pc = "report"
  PROVE  CallsInv'
<1>1. /\ clock \in Nat
      /\ \A i \in DOMAIN calls : calls[i].at \in Nat
      /\ calls # <<>> => LastAt \in Nat /\ LastAt <= clock
  BY CallsTyped
<1>2. CallsApart' /\ LastAt' = LastAt
  BY DEF CallsInv, CallsApart, LastAt
<1>3. \A i \in DOMAIN calls' : calls'[i].at <= clock'
  BY <1>1 DEF CallsInv
<1>4. ASSUME calls' # <<>>
      PROVE  /\ s_call_reported'
             /\ \E l \in LastAt' .. clock' :
                  /\ s_call_last_tick' = TickAt(l)
                  /\ pc' = "ringing" => \E n \in l .. clock' : now' = TickAt(n)
  <2>1. PICK l \in LastAt .. clock :
          /\ s_call_last_tick = TickAt(l)
          /\ pc = "ringing" => \E n \in l .. clock : now = TickAt(n)
    BY <1>4 DEF CallsInv
  <2>2. l \in LastAt' .. clock'
    BY <1>1, <1>2, <1>4, <2>1
  <2>3. pc' = "ringing" => \E n \in l .. clock' : now' = TickAt(n)
    BY <1>1, <1>4, <2>1
  <2> QED
    BY <1>4, <2>1, <2>2, <2>3 DEF CallsInv
<1>5. ASSUME calls' # <<>>, s_call_collecting'
      PROVE  \E n \in LastAt' + DEDUP_TICKS .. clock' : s_call_window_tick' = TickAt(n)
  <2>1. PICK n \in LastAt + DEDUP_TICKS .. clock : s_call_window_tick = TickAt(n)
    BY <1>5 DEF CallsInv
  <2>2. n \in LastAt' + DEDUP_TICKS .. clock'
    BY <1>1, <1>2, <1>5, <2>1, RecvConstants
  <2> QED
    BY <2>1, <2>2
<1>6. ASSUME calls' # <<>>, pc' = "report"
      PROVE  LastAt' + DEDUP_TICKS + WINDOW_TICKS <= clock'
  BY <1>1, <1>2, <1>6, RecvConstants DEF CallsInv
<1>7. (calls \in Seq([number : Numbers \cup {TornNumber}, at : Nat]))'
  BY DEF CallsInv, Numbers
<1> QED
  BY <1>2, <1>3, <1>4, <1>5, <1>6, <1>7 DEF CallsInv

\* A ring that opens a window comes at least the ignored time after the last call.
LEMMA WindowOpensLate ==
  ASSUME RTypeOK, CallsInv, RingOpensWindow, calls # <<>>
  PROVE  \E n \in LastAt + DEDUP_TICKS .. clock : now = TickAt(n)
<1>1. PICK l \in LastAt .. clock :
        /\ s_call_last_tick = TickAt(l)
        /\ pc = "ringing" => \E n \in l .. clock : now = TickAt(n)
  BY DEF CallsInv
<1>2. PICK n \in l .. clock : now = TickAt(n)
  BY <1>1 DEF RingOpensWindow
<1>3. LastAt \in Nat /\ clock \in Nat /\ DEDUP_TICKS \in Nat
  BY CallsTyped, RecvConstants
<1>4. l \in Nat /\ n \in Nat /\ l <= n
  BY <1>1, <1>2, <1>3
<1>5. Since(now, s_call_last_tick) \in Nat /\ Since(now, s_call_last_tick) <= n - l
  BY <1>1, <1>2, <1>4, CounterNoMore
<1>6. ~(Since(now, s_call_last_tick) < DEDUP_TICKS)
  BY DEF RingOpensWindow, SameCall, CallsInv
<1>7. n \in LastAt + DEDUP_TICKS .. clock
  BY <1>1, <1>2, <1>3, <1>4, <1>5, <1>6
<1> QED
  BY <1>2, <1>7

\* A window closes at least its time after it opened.
LEMMA WindowClosesLate ==
  ASSUME RTypeOK, CallsInv, WindowInv, WindowCloses, calls # <<>>
  PROVE  LastAt + DEDUP_TICKS + WINDOW_TICKS <= clock
<1>1. pc = "window" /\ s_call_collecting
  BY DEF WindowCloses, WindowInv
<1>2. PICK n \in LastAt + DEDUP_TICKS .. clock : s_call_window_tick = TickAt(n)
  BY <1>1 DEF CallsInv
<1>3. LastAt \in Nat /\ clock \in Nat /\ DEDUP_TICKS \in Nat /\ WINDOW_TICKS \in Nat
  BY CallsTyped, RecvConstants
<1>4. n \in Nat /\ n <= clock
  BY <1>2, <1>3
<1>5. Since(Tick, s_call_window_tick) \in Nat /\ Since(Tick, s_call_window_tick) <= clock - n
  BY <1>2, <1>3, <1>4, CounterNoMore, TickIs
<1>6. ~(Since(Tick, s_call_window_tick) < WINDOW_TICKS)
  BY DEF WindowCloses, WindowOpen
<1> QED
  BY <1>2, <1>3, <1>4, <1>5, <1>6

\* A report: the call that is added stands the two times from the one before.
LEMMA ReportKeepsApart ==
  ASSUME RTypeOK, CallsInv, ReportsCall
  PROVE  CallsInv'
<1> DEFINE e == [number |-> number, at |-> clock]
           C == [number : Numbers \cup {TornNumber}, at : Nat]
<1>1. /\ clock \in Nat /\ Len(calls) \in Nat /\ DOMAIN calls = 1 .. Len(calls)
      /\ \A i \in DOMAIN calls : calls[i].at \in Nat /\ calls[i].at <= clock
      /\ calls # <<>> => Len(calls) \in DOMAIN calls /\ LastAt \in Nat /\ LastAt <= clock
  BY CallsTyped DEF CallsInv
<1>2. /\ pc = "report" /\ pc' = "expire" /\ clock' = clock /\ s_call_collecting' = FALSE
      /\ s_call_reported' = TRUE /\ s_call_last_tick' = TickAt(clock)
      /\ calls' = calls \/ calls' = Append(calls, e)
  BY TickIs DEF ReportsCall, timevars
<1>3. calls \in Seq(C) /\ e \in C
  BY <1>1 DEF CallsInv, RTypeOK
<1>4. e.at = clock
  OBVIOUS
<1> HIDE DEF e, C
<1>5. calls' \in Seq(C)
  BY <1>2, <1>3
<1>6. /\ \A i \in DOMAIN calls' : calls'[i].at <= clock'
      /\ CallsApart'
      /\ calls' # <<>> => clock \in LastAt' .. clock'
  <2>1. CASE calls' = calls
    BY <1>1, <1>2, <2>1 DEF CallsInv, CallsApart, LastAt
  <2>2. CASE calls' = Append(calls, e)
    <3>1. /\ Len(calls') = Len(calls) + 1 /\ DOMAIN calls' = 1 .. Len(calls) + 1
          /\ \A i \in DOMAIN calls : calls'[i] = calls[i]
          /\ calls'[Len(calls) + 1] = e
      BY <1>3, <2>2
    <3>2. LastAt' = clock
      BY <1>4, <3>1 DEF LastAt
    <3>3. \A i \in DOMAIN calls' : calls'[i].at <= clock'
      BY <1>1, <1>2, <1>4, <3>1
    <3>4. ASSUME NEW i \in 1 .. Len(calls') - 1
          PROVE  calls'[i + 1].at - calls'[i].at >= DEDUP_TICKS + WINDOW_TICKS
      <4>1. i \in DOMAIN calls /\ calls'[i] = calls[i]
        BY <1>1, <3>1
      <4>2. CASE i = Len(calls)
        <5>1. calls # <<>>
          BY <1>1, <4>1
        <5>2. LastAt + DEDUP_TICKS + WINDOW_TICKS <= clock
          BY <1>2, <5>1 DEF CallsInv
        <5>3. calls'[i].at = LastAt /\ calls'[i + 1].at = clock
          BY <1>4, <3>1, <4>1, <4>2 DEF LastAt
        <5> QED
          BY <1>1, <5>1, <5>2, <5>3, RecvConstants
      <4>3. CASE i # Len(calls)
        <5>1. i \in 1 .. Len(calls) - 1 /\ i + 1 \in DOMAIN calls
          BY <1>1, <4>1, <4>3
        <5>2. calls'[i + 1] = calls[i + 1]
          BY <3>1, <5>1
        <5> QED
          BY <4>1, <5>1, <5>2 DEF CallsInv, CallsApart
      <4> QED
        BY <4>2, <4>3
    <3> QED
      BY <1>1, <1>2, <3>2, <3>3, <3>4 DEF CallsApart
  <2> QED
    BY <1>2, <2>1, <2>2
<1>7. (calls \in Seq([number : Numbers \cup {TornNumber}, at : Nat]))'
  BY <1>5 DEF C, Numbers
<1>8. ASSUME calls' # <<>>
      PROVE  \E l \in LastAt' .. clock' :
               /\ s_call_last_tick' = TickAt(l)
               /\ pc' = "ringing" => \E n \in l .. clock' : now' = TickAt(n)
  BY <1>2, <1>6, <1>8
<1> QED
  BY <1>2, <1>6, <1>7, <1>8 DEF CallsInv

\* Every step keeps what is known of the calls.
LEMMA CallsStep ==
  ASSUME RTypeOK, WindowInv, CallsInv, RNext
  PROVE  CallsInv'
<1>0. clock \in Nat /\ (calls # <<>> => LastAt \in Nat /\ LastAt <= clock)
  BY CallsTyped
<1>1. CASE TakesRing
  <2>1. /\ pc' = "ringing" /\ now' = TickAt(clock)
        /\ UNCHANGED <<clock, calls, s_call_reported, s_call_last_tick, s_call_window_tick,
                       s_call_collecting>>
    BY <1>1, TickIs DEF TakesRing, timevars, history
  <2>2. ASSUME calls # <<>>
        PROVE  \E l \in LastAt .. clock :
                 s_call_last_tick = TickAt(l) /\ \E n \in l .. clock : now' = TickAt(n)
    <3>1. PICK l \in LastAt .. clock : s_call_last_tick = TickAt(l)
      BY <2>2 DEF CallsInv
    <3>2. clock \in l .. clock
      BY <1>0, <2>2, <3>1
    <3> QED
      BY <2>1, <3>1, <3>2
  <2>3. CallsApart' /\ LastAt' = LastAt
    BY <2>1 DEF CallsInv, CallsApart, LastAt
  <2> QED
    BY <2>1, <2>2, <2>3 DEF CallsInv, Numbers
<1>2. CASE RingOpensWindow
  <2>1. /\ pc' = "stale" /\ s_call_window_tick' = now
        /\ UNCHANGED <<clock, calls, s_call_reported, s_call_last_tick, now>>
    BY <1>2 DEF RingOpensWindow, timevars, history
  <2>2. CallsApart' /\ LastAt' = LastAt
    BY <2>1 DEF CallsInv, CallsApart, LastAt
  <2>3. calls # <<>> => \E n \in LastAt + DEDUP_TICKS .. clock : now = TickAt(n)
    BY <1>2, WindowOpensLate
  <2> QED
    BY <2>1, <2>2, <2>3 DEF CallsInv, Numbers
<1>3. CASE WindowCloses
  <2>1. /\ pc = "window" /\ pc' = "report"
        /\ UNCHANGED <<clock, calls, s_call_reported, s_call_last_tick, s_call_window_tick,
                       s_call_collecting, now>>
    BY <1>3 DEF WindowCloses, timevars, history
  <2>2. CallsApart' /\ LastAt' = LastAt
    BY <2>1 DEF CallsInv, CallsApart, LastAt
  <2>3. calls # <<>> => LastAt + DEDUP_TICKS + WINDOW_TICKS <= clock
    BY <1>3, WindowClosesLate
  <2> QED
    BY <2>1, <2>2, <2>3 DEF CallsInv, Numbers
<1>4. CASE ReportsCall
  BY <1>4, ReportKeepsApart
<1>5. CASE ~TakesRing /\ ~RingOpensWindow /\ ~WindowCloses /\ ~ReportsCall
  <2>1. /\ UNCHANGED <<calls, callvars>>
        /\ pc' = "ringing" => pc = "ringing"
        /\ pc' = "report" => pc = "report"
    BY <1>5 DEF RNext, Callback, Task, UrcArrives, ClipCopied, ClipStamped, ClipFlagged,
     ClipSignalled, RingFlagged, RingSignalled,
       CmtCopied, CmtFlagged, CmtSignalled, SetUpDone, GoWait, Wakes, TakesCmt, ReadsTorn,
       ReadsSingle, ReadsPart, Expires, Rearms, NoRing, RingIgnored, ClipTested, ClipDropped,
       StillCollecting, TimePasses, AfterCalls, history
  <2>2. clock' \in Nat /\ clock' >= clock
    <3>1. CASE TimePasses
      BY <1>0, <3>1 DEF TimePasses
    <3>2. CASE ~TimePasses
      BY <1>0, <3>2, ClockSteps
    <3> QED
      BY <3>1, <3>2
  <2> QED
    BY <2>1, <2>2, CallsFrame DEF callvars
<1> QED
  BY <1>1, <1>2, <1>3, <1>4, <1>5

----------------------------------------------------------------------------
(* The theorems, whatever parts the network delivers *)

\* The invariant holds at the start.
LEMMA RInitInvariant == RInit => RIndInv
<1> SUFFICES ASSUME RInit PROVE RIndInv
  OBVIOUS
<1>1. CacheInv(s_concat)
  BY EmptyCacheInv DEF RInit
<1>2. s_concat \in [GroupIds -> Groups]
  BY <1>1 DEF CacheInv
<1>3. /\ clock \in 0 .. MaxClock /\ slack \in 0 .. MaxLag
      /\ s_concat_timer \in 0 .. TIMEOUT_TICKS
      /\ waitLeft \in {Forever} \cup 0 .. WINDOW_TICKS
      /\ s_clip_tick \in Ticks /\ now \in Ticks
      /\ s_call_window_tick \in Ticks /\ s_call_last_tick \in Ticks
  BY RecvConstants, CacheConstants DEF RInit, TimerOff
<1>4. RTypeOK
  BY <1>2, <1>3 DEF RInit, RTypeOK, Numbers
<1>5. NotedInv /\ WindowInv /\ CameInv
  BY EmptyFits DEF RInit, NotedInv, WindowInv, CameInv
<1>6. TimerInv
  BY EmptyFits DEF RInit, TimerInv
<1>7. CallsInv
  <2>1. calls = <<>>
    BY DEF RInit
  <2>2. calls \in Seq([number : Numbers \cup {TornNumber}, at : Nat])
    BY <2>1
  <2> QED
    BY <2>1, <2>2 DEF CallsInv, CallsApart
<1> QED
  BY <1>1, <1>4, <1>5, <1>6, <1>7 DEF RIndInv

\* Every step, and a stutter, keeps it.
LEMMA RStepInvariant == RIndInv /\ [RNext]_rvars => RIndInv'
<1> SUFFICES ASSUME RIndInv, [RNext]_rvars PROVE RIndInv'
  OBVIOUS
<1> USE DEF RIndInv
<1>1. CASE RNext
  BY <1>1, RTypeStep, CameStep, NotedStep, TimerStep, WindowStep, CallsStep
<1>2. CASE UNCHANGED rvars
  <2> USE DEF rvars, timevars, cbvars, cmtvars, clipvars, callvars, history
  <2>1. RTypeOK' /\ CacheInv(s_concat')
    BY <1>2 DEF RTypeOK, Numbers
  <2>2. NotedInv' /\ CameInv'
    BY <1>2 DEF NotedInv, CameInv
  <2>3. Tick' = Tick
    BY <1>2 DEF Tick
  <2>4. TimerInv' /\ WindowInv'
    BY <1>2, <2>3 DEF TimerInv, WindowInv, Age, WindowAge, Late
  <2>5. CallsInv'
    BY <1>2 DEF CallsInv, CallsApart, LastAt, Numbers
  <2> QED
    BY <2>1, <2>2, <2>4, <2>5
<1> QED
  BY <1>1, <1>2

\* Every variable of the task, the callback and the timer keeps its type; no group ever
\* counts more parts than it has places, whatever part numbers arrive.
THEOREM RecvTypeCorrect == RSpec => []RTypeOK
<1>1. RIndInv => RTypeOK
  BY DEF RIndInv
<1> QED
  BY <1>1, RInitInvariant, RStepInvariant, PTL DEF RSpec

\* The task never sleeps on a message or a ring the callback has noted.
THEOREM NotesWakeTask == RSpec => []FlagWakesTask
<1>1. RIndInv => FlagWakesTask
  BY DEF RIndInv, NotedInv, FlagWakesTask, Asleep
<1> QED
  BY <1>1, RInitInvariant, RStepInvariant, PTL DEF RSpec

\* Every group counts its parts, none is left complete, and a message has one group.
THEOREM CacheStaysCoherent == RSpec => []GroupsCoherent
<1>1. RIndInv => GroupsCoherent
  BY DEF RIndInv, CacheInv, Fits, Taken, SameKey, GroupsCoherent
<1> QED
  BY <1>1, RInitInvariant, RStepInvariant, PTL DEF RSpec

\* While the task waits, the timer runs out no later than any group's time, or its
\* event is set: no restart of the timer forgets an older group.
THEOREM TimerCoversGroups == RSpec => []ExpiryArmed
<1>1. RIndInv => ExpiryArmed
  <2> SUFFICES ASSUME RIndInv, pc = "wait", NEW i \in GroupIds, s_concat[i].used,
                      "timeout" \notin s_evt
               PROVE  s_concat_timer # TimerOff /\ s_concat_timer <= Remaining(s_concat[i], Tick)
    BY DEF ExpiryArmed
  <2>1. /\ s_concat_timer # TimerOff
        /\ \/ Age(i) + s_concat_timer <= TIMEOUT_TICKS
           \/ s_concat_timer = 1 /\ Age(i) < TIMEOUT_TICKS + MaxLag
    BY DEF RIndInv, TimerInv
  <2>2. Tick \in Ticks /\ s_concat[i] \in Groups /\ s_concat_timer \in 0 .. TIMEOUT_TICKS
    BY TickTyped DEF RIndInv, RTypeOK
  <2>3. Age(i) \in Ticks
    BY <2>2, SinceIs DEF Age, Groups
  <2>4. Age(i) \in Nat
    BY <2>3 DEF Ticks
  <2>5. /\ Remaining(s_concat[i], Tick) \in 1 .. TIMEOUT_TICKS
        /\ Age(i) < TIMEOUT_TICKS => Remaining(s_concat[i], Tick) = TIMEOUT_TICKS - Age(i)
    BY <2>2, RemainingIs DEF Age
  <2> QED
    BY <2>1, <2>2, <2>4, <2>5, CacheConstants DEF TimerOff
<1> QED
  BY <1>1, RInitInvariant, RStepInvariant, PTL DEF RSpec

\* A sleeping task keeps no group past its time, but for what one round took; this holds
\* across every wrap of the counter.
THEOREM GroupsEndInTime == RSpec => []GroupsLeaveInTime
<1>1. RIndInv => GroupsLeaveInTime
  <2> SUFFICES ASSUME RIndInv, Asleep, NEW i \in GroupIds, s_concat[i].used
               PROVE  Age(i) < TIMEOUT_TICKS + MaxLag
    BY DEF GroupsLeaveInTime, Age
  <2>1. /\ s_concat_timer # TimerOff
        /\ \/ Age(i) + s_concat_timer <= TIMEOUT_TICKS
           \/ s_concat_timer = 1 /\ Age(i) < TIMEOUT_TICKS + MaxLag
    BY DEF RIndInv, TimerInv, Asleep
  <2>2. Tick \in Ticks /\ s_concat[i] \in Groups /\ s_concat_timer \in 0 .. TIMEOUT_TICKS
    BY TickTyped DEF RIndInv, RTypeOK
  <2>3. Age(i) \in Ticks
    BY <2>2, SinceIs DEF Age, Groups
  <2>4. Age(i) \in Nat
    BY <2>3 DEF Ticks
  <2> QED
    BY <2>1, <2>2, <2>4, CacheConstants, RecvConstants DEF TimerOff
<1> QED
  BY <1>1, RInitInvariant, RStepInvariant, PTL DEF RSpec

\* A sleeping task has no window open past its time, but for what one round took: a call
\* without a number is reported all the same.
THEOREM WindowsEndInTime == RSpec => []WindowEndsInTime
<1>1. RIndInv => WindowEndsInTime
  <2> SUFFICES ASSUME RIndInv, Asleep, s_call_collecting
               PROVE  WindowAge < WINDOW_TICKS + MaxLag
    BY DEF WindowEndsInTime, WindowAge
  <2>1. \/ waitLeft > 0 /\ WindowAge + waitLeft <= WINDOW_TICKS
        \/ waitLeft = 1 /\ WindowAge < WINDOW_TICKS + MaxLag
    BY DEF RIndInv, WindowInv, Asleep
  <2>2. waitLeft \in Int /\ WindowAge \in Nat
    BY WindowTicksIs, RecvConstants DEF RIndInv, RTypeOK, Forever
  <2> QED
    BY <2>1, <2>2, RecvConstants
<1> QED
  BY <1>1, RInitInvariant, RStepInvariant, PTL DEF RSpec

\* Two reports of calls are at least the ignored time and a window apart, however the
\* counter wraps between them and however late the task runs.
THEOREM ReportsStandApart == RSpec => []CallsApart
<1>1. RIndInv => CallsApart
  BY DEF RIndInv, CallsInv
<1> QED
  BY <1>1, RInitInvariant, RStepInvariant, PTL DEF RSpec

----------------------------------------------------------------------------
(* The theorems about whole messages, where nothing else came under a reference *)

\* No step forgets what was decoded, or takes back what was queued or dropped.
LEMMA HistoryGrows ==
  ASSUME RNext
  PROVE  handled \subseteq handled' /\ pushed \subseteq pushed' /\ lost \subseteq lost'
<1>1. CASE \E p \in Parts : ReadsSingle(p)
  BY <1>1 DEF ReadsSingle
<1>2. CASE \E p \in Parts : ReadsPart(p)
  <2>1. PICK p \in Parts : ReadsPart(p)
    BY <1>2
  <2>2. handled \subseteq handled'
    BY <2>1 DEF ReadsPart
  <2>3. pushed \subseteq pushed' /\ lost \subseteq lost'
    BY <2>1 DEF ReadsPart
  <2> QED
    BY <2>2, <2>3
<1>3. CASE Expires
  <2>1. handled' = handled
    BY <1>3 DEF Expires
  <2>2. PICK refused \in SUBSET Overdue(s_concat, Tick) :
          /\ lost' = lost \cup UNION {PartsOf(s_concat[i]) : i \in refused}
          /\ pushed' = pushed \cup
               {Item("timeout", s_concat[i].sender, s_concat[i].ref, Assemble(s_concat[i])) :
                  i \in Overdue(s_concat, Tick) \ refused}
    BY <1>3 DEF Expires
  <2> QED
    BY <2>1, <2>2
<1>4. CASE ~(\E p \in Parts : ReadsSingle(p) \/ ReadsPart(p)) /\ ~Expires
  BY <1>4, QuietSteps
<1> QED
  BY <1>1, <1>2, <1>3, <1>4

\* The text of a group is made of its parts.
LEMMA AssembleIs ==
  ASSUME NEW g \in Groups
  PROVE  /\ DOMAIN Assemble(g) = 1 .. g.total
         /\ \A k \in 1 .. g.total : /\ Assemble(g)[k] = g.parts[k]
                                    /\ g.parts[k] = NoPart \/ k \in Taken(g)
<1>1. g.total \in 0 .. SMS_CONCAT_MAX_PARTS /\ SMS_CONCAT_MAX_PARTS \in Nat
  BY CacheAssumption DEF Groups
<1>2. 1 .. g.total \subseteq Places
  BY <1>1 DEF Places
<1> QED
  BY <1>2 DEF Assemble, Taken

\* What is known of one queued message.
OfOneKey(m) ==
  /\ \A k \in DOMAIN m.text :
       \/ m.text[k] = NoPart
       \/ m.text[k] \in Under(handled, m.sender, m.ref) /\ m.text[k].part = k
  /\ Undisturbed(handled, m.sender, m.ref) => IsWhole(m.text)

\* Only the part that completes its group queues a message as complete.
LEMMA CompleteStep ==
  ASSUME RIndInv, CompleteIsWhole, RNext
  PROVE  CompleteIsWhole'
<1>0. handled \subseteq handled'
  BY HistoryGrows
<1> SUFFICES ASSUME NEW m \in pushed', m.how = "concat"
             PROVE  OfOneKey(m)'
  BY DEF CompleteIsWhole, OfOneKey
<1>1. CASE m \in pushed
  <2>1. OfOneKey(m)
    BY <1>1 DEF CompleteIsWhole, OfOneKey
  <2>2. Under(handled, m.sender, m.ref) \subseteq Under(handled', m.sender, m.ref)
    BY <1>0 DEF Under
  <2>3. Undisturbed(handled', m.sender, m.ref) => Undisturbed(handled, m.sender, m.ref)
    BY <1>0, UndisturbedBefore
  <2> QED
    BY <2>1, <2>2, <2>3 DEF OfOneKey
<1>2. CASE m \notin pushed
  <2>1. CASE \E p \in Parts : ReadsSingle(p)
    <3>1. PICK p \in Parts : m = Item("single", p.sender, p.ref, <<p>>)
      BY <1>2, <2>1 DEF ReadsSingle
    <3> QED
      BY <3>1 DEF Item
  <2>2. CASE Expires
    <3>1. PICK i \in GroupIds :
            m = Item("timeout", s_concat[i].sender, s_concat[i].ref, Assemble(s_concat[i]))
      BY <1>2, <2>2 DEF Expires, Overdue
    <3> QED
      BY <3>1 DEF Item
  <2>3. CASE \E p \in Parts : ReadsPart(p)
    <3>1. PICK p \in Parts : ReadsPart(p)
      BY <2>3
    <3> DEFINE w == WithPart(s_concat, p, Tick)
               text == Assemble(w)
    <3>2. Complete(w) /\ m = Item("concat", p.sender, p.ref, text)
      BY <1>2, <3>1 DEF ReadsPart
    <3>3. Tick \in Ticks /\ CacheInv(s_concat) /\ Long(p) /\ handled' = handled \cup {p}
      BY <3>1, TickTyped DEF RIndInv, ReadsPart
    <3>4. w \in Groups /\ Fits(w) /\ w.used /\ w.ref = p.ref /\ w.sender = p.sender
      BY <3>3, WithPartIs
    <3>5. Came(w, handled')
      BY <3>3, WithPartCame DEF RIndInv, CameInv
    <3>6. handled' \in SUBSET Parts
      BY <3>3 DEF RIndInv, RTypeOK
    <3> HIDE DEF w
    <3>7. /\ DOMAIN text = 1 .. w.total
          /\ \A k \in 1 .. w.total : text[k] = w.parts[k] /\ (w.parts[k] = NoPart \/ k \in Taken(w))
      BY <3>4, AssembleIs
    <3>8. \A k \in Taken(w) : w.parts[k] \in Under(handled', w.sender, w.ref)
                              /\ w.parts[k].part = k
      BY <3>4, <3>5, TakenUnder
    <3>9. Undisturbed(handled', w.sender, w.ref) => IsWhole(text)
      BY <3>2, <3>4, <3>5, <3>6, CompleteHoldsAll
    <3> HIDE DEF text
    <3>10. m.sender = w.sender /\ m.ref = w.ref /\ m.text = text
      BY <3>2, <3>4 DEF Item
    <3> QED
      BY <3>7, <3>8, <3>9, <3>10 DEF OfOneKey
  <2>4. CASE ~(\E p \in Parts : ReadsSingle(p) \/ ReadsPart(p)) /\ ~Expires
    BY <1>2, <2>4, QuietSteps
  <2> QED
    BY <2>1, <2>2, <2>3, <2>4
<1> QED
  BY <1>1, <1>2

\* Where a decoded part may be.
Cached == UNION {PartsOf(s_concat[i]) : i \in GroupIds}
Queued == (UNION {{m.text[k] : k \in DOMAIN m.text} : m \in pushed}) \ {NoPart}
Held   == Cached \cup Queued \cup lost

\* The parts that are accounted for.
Clear(p) == ~Long(p) \/ Undisturbed(handled, p.sender, p.ref)

\* What is queued stays queued.
LEMMA QueuedGrows ==
  ASSUME pushed \subseteq pushed'
  PROVE  Queued \subseteq Queued'
BY DEF Queued

\* A group that is queued takes along its parts, when nothing disturbed it.
LEMMA AssemblesAll ==
  ASSUME NEW g \in Groups, Fits(g), g.used, NEW H \in SUBSET Parts, Came(g, H),
         NEW x \in PartsOf(g), ~Long(x) \/ Undisturbed(H, x.sender, x.ref)
  PROVE  x \in {Assemble(g)[k] : k \in DOMAIN Assemble(g)} /\ x # NoPart
<1>1. PICK k \in Taken(g) : x = g.parts[k]
  BY PartsOfGroup
<1>2. Long(x) /\ x.ref = g.ref /\ x.sender = g.sender
  BY <1>1 DEF Fits
<1>3. Undisturbed(H, g.sender, g.ref)
  BY <1>2
<1>4. Taken(g) \subseteq 1 .. g.total
  BY <1>3, PlacesWithinTotal
<1>5. k \in 1 .. g.total
  BY <1>4
<1>6. k \in DOMAIN Assemble(g) /\ Assemble(g)[k] = x
  BY <1>1, <1>5, AssembleIs
<1>7. x # NoPart
  BY <1>1 DEF Taken
<1> QED
  BY <1>6, <1>7

\* Storing a part: every part held before is still held, and so is it.
LEMMA PartStaysHeld ==
  ASSUME RIndInv, NEW p \in Parts, ReadsPart(p), NEW x \in Held \cup {p}, Clear(x)'
  PROVE  x \in Held'
<1> DEFINE T == Target(s_concat, p)
           o == s_concat[T]
           w == WithPart(s_concat, p, Tick)
           evicted == IF Evicts(s_concat, p) THEN PartsOf(o) ELSE {}
<1>1. /\ Tick \in Ticks /\ CacheInv(s_concat) /\ Long(p)
      /\ s_concat \in [GroupIds -> Groups]
  BY TickTyped DEF RIndInv, ReadsPart, CacheInv
<1>2. T \in GroupIds /\ o \in Groups
  BY <1>1, TargetIs
<1>3. /\ w \in Groups /\ Fits(w) /\ w.used /\ w.ref = p.ref /\ w.sender = p.sender
      /\ p.part \in Places => p.part \in Taken(w)
      /\ ~Evicts(s_concat, p) => \A k \in Taken(o) : w.parts[k] = o.parts[k]
  BY <1>1, WithPartIs
<1>4. s_concat' = [s_concat EXCEPT ![T] = IF Complete(w) THEN EmptyGroup ELSE w]
  BY DEF ReadsPart, CacheAfter
<1>5. IF Complete(w)
      THEN \/ /\ pushed' = pushed \cup {Item("concat", p.sender, p.ref, Assemble(w))}
              /\ lost' = lost \cup evicted
           \/ /\ lost' = lost \cup evicted \cup PartsOf(w)
              /\ pushed' = pushed
      ELSE lost' = lost \cup evicted /\ pushed' = pushed
  BY DEF ReadsPart
<1>5a. /\ handled' = handled \cup {p} /\ handled' \in SUBSET Parts
       /\ Came(w, handled')
  <2>1. handled' = handled \cup {p}
    BY DEF ReadsPart
  <2>2. Came(w, handled \cup {p})
    BY <1>1, WithPartCame DEF RIndInv, CameInv
  <2> QED
    BY <2>1, <2>2 DEF RIndInv, RTypeOK
<1>5b. ~Long(x) \/ Undisturbed(handled', x.sender, x.ref)
  BY DEF Clear
<1> HIDE DEF T, o, w, evicted
<1>6. PartsOf(o) \subseteq PartsOf(w) \cup evicted
  <2>1. CASE Evicts(s_concat, p)
    BY <2>1 DEF evicted
  <2>2. CASE ~Evicts(s_concat, p)
    <3>1. \A k \in Taken(o) : k \in Places /\ w.parts[k] = o.parts[k] /\ o.parts[k] # NoPart
      BY <1>3, <2>2 DEF Taken
    <3>2. Taken(o) \subseteq Taken(w)
      BY <3>1 DEF Taken
    <3>3. PartsOf(o) = {o.parts[k] : k \in Taken(o)} /\ PartsOf(w) = {w.parts[k] : k \in Taken(w)}
      BY <1>2, <1>3, PartsOfGroup
    <3> QED
      BY <3>1, <3>2, <3>3
  <2> QED
    BY <2>1, <2>2
<1>7. evicted \subseteq Held'
  BY <1>5 DEF Held
<1>8. x \in PartsOf(w) => x \in Held'
  <2> SUFFICES ASSUME x \in PartsOf(w) PROVE x \in Held'
    OBVIOUS
  <2>1. CASE ~Complete(w)
    <3>1. s_concat'[T] = w
      BY <1>1, <1>2, <1>4, <2>1
    <3>2. x \in Cached'
      BY <1>2, <3>1 DEF Cached
    <3> QED
      BY <3>2 DEF Held
  <2>2. CASE Complete(w) /\ lost' = lost \cup evicted \cup PartsOf(w)
    BY <2>2 DEF Held
  <2>3. CASE Complete(w)
             /\ pushed' = pushed \cup {Item("concat", p.sender, p.ref, Assemble(w))}
    <3> DEFINE m == Item("concat", p.sender, p.ref, Assemble(w))
    <3>1. m \in pushed' /\ m.text = Assemble(w)
      BY <2>3 DEF Item
    <3> HIDE DEF m
    <3>2. x \in {m.text[k] : k \in DOMAIN m.text} /\ x # NoPart
      BY <1>3, <1>5a, <1>5b, <3>1, AssemblesAll
    <3>3. x \in Queued'
      BY <3>1, <3>2 DEF Queued
    <3> QED
      BY <3>3 DEF Held
  <2> QED
    BY <1>5, <2>1, <2>2, <2>3
<1>9. CASE x \in Cached
  <2>1. PICK i \in GroupIds : x \in PartsOf(s_concat[i])
    BY <1>9 DEF Cached
  <2>2. CASE i = T
    BY <2>1, <2>2, <1>6, <1>7, <1>8 DEF o
  <2>3. CASE i # T
    <3>1. s_concat'[i] = s_concat[i]
      BY <1>1, <1>4, <2>3
    <3>2. x \in Cached'
      BY <2>1, <3>1 DEF Cached
    <3> QED
      BY <3>2 DEF Held
  <2> QED
    BY <2>2, <2>3
<1>10. CASE x \in Queued \cup lost
  <2>1. pushed \subseteq pushed' /\ lost \subseteq lost'
    BY <1>5
  <2> QED
    BY <1>10, <2>1, QueuedGrows DEF Held
<1>11. CASE x = p
  <2> DEFINE q == w.parts[p.part]
  <2>1. Undisturbed(handled', w.sender, w.ref) /\ p \in Under(handled', w.sender, w.ref)
    BY <1>1, <1>3, <1>5a, <1>5b, <1>11 DEF Under
  <2>2. /\ w.total \in Nat /\ w.total <= SMS_CONCAT_MAX_PARTS
        /\ \A r \in Under(handled', w.sender, w.ref) :
             r.total = w.total /\ r.part \in 1 .. w.total
    BY <1>3, <1>5a, <2>1, PlacesWithinTotal
  <2>3. p.part \in Places
    BY <2>1, <2>2, CacheAssumption DEF Places
  <2>4. p.part \in Taken(w)
    BY <1>3, <2>3
  <2>5. q \in Under(handled', w.sender, w.ref) /\ q.part = p.part
    BY <1>3, <1>5a, <2>4, TakenUnder
  <2>6. q \in PartsOf(w) /\ q \in Parts
    BY <1>3, <2>4, PartsOfGroup
  <2> HIDE DEF q
  <2>7. /\ q.sms = p.sms /\ q.sender = p.sender /\ q.ref = p.ref /\ q.part = p.part
        /\ q.total = p.total
    BY <2>1, <2>2, <2>5 DEF Undisturbed, Under
  <2>8. q = p
    BY <2>6, <2>7, SameHeader
  <2> QED
    BY <1>8, <1>11, <2>6, <2>8
<1> QED
  BY <1>9, <1>10, <1>11 DEF Held

\* Expiring: the parts of an overdue group are queued or lost, the others stay.
LEMMA ExpiredStayHeld ==
  ASSUME RIndInv, Expires, NEW x \in Held, Clear(x)
  PROVE  x \in Held'
<1>1. CacheInv(s_concat) /\ s_concat \in [GroupIds -> Groups] /\ handled \in SUBSET Parts
  BY DEF RIndInv, CacheInv, RTypeOK
<1>2. PICK refused \in SUBSET Overdue(s_concat, Tick) :
        /\ lost' = lost \cup UNION {PartsOf(s_concat[i]) : i \in refused}
        /\ pushed' = pushed \cup
             {Item("timeout", s_concat[i].sender, s_concat[i].ref, Assemble(s_concat[i])) :
                i \in Overdue(s_concat, Tick) \ refused}
  BY DEF Expires
<1>3. Queued \subseteq Queued' /\ lost \subseteq lost'
  <2>1. pushed \subseteq pushed' /\ lost \subseteq lost'
    BY <1>2
  <2> QED
    BY <2>1, QueuedGrows
<1>4. ASSUME NEW i \in GroupIds, x \in PartsOf(s_concat[i]) PROVE x \in Held'
  <2>1. CASE i \notin Overdue(s_concat, Tick)
    <3>1. s_concat'[i] = s_concat[i]
      BY <2>1 DEF Expires, CacheAfterExpire
    <3>2. x \in Cached'
      BY <1>4, <3>1 DEF Cached
    <3> QED
      BY <3>2 DEF Held
  <2>2. CASE i \in refused
    BY <1>2, <1>4, <2>2 DEF Held
  <2>3. CASE i \in Overdue(s_concat, Tick) \ refused
    <3> DEFINE g == s_concat[i]
               m == Item("timeout", g.sender, g.ref, Assemble(g))
    <3>1. m \in pushed' /\ m.text = Assemble(g)
      BY <1>2, <2>3 DEF Item
    <3>2. g \in Groups /\ Fits(g) /\ g.used /\ Came(g, handled) /\ x \in PartsOf(g)
      BY <1>1, <1>4, <2>3 DEF CacheInv, Overdue, RIndInv, CameInv
    <3> HIDE DEF m, g
    <3>3. x \in {m.text[k] : k \in DOMAIN m.text} /\ x # NoPart
      BY <1>1, <3>1, <3>2, AssemblesAll DEF Clear
    <3>4. x \in Queued'
      BY <3>1, <3>3 DEF Queued
    <3> QED
      BY <3>4 DEF Held
  <2> QED
    BY <2>1, <2>2, <2>3
<1> QED
  BY <1>3, <1>4 DEF Held, Cached

\* No step lets a decoded part disappear.
LEMMA HeldStep ==
  ASSUME RIndInv, NoPartVanishes, RNext
  PROVE  NoPartVanishes'
<1>0. \A p \in handled : Clear(p) => p \in Held
  BY DEF NoPartVanishes, Held, Cached, Queued, Clear
<1> SUFFICES ASSUME NEW x \in handled', Clear(x)'
             PROVE  x \in Held'
  BY DEF NoPartVanishes, Held, Cached, Queued, Clear
<1>00. x \in handled => x \in Held
  <2>1. Clear(x)
    BY HistoryGrows, UndisturbedBefore DEF Clear
  <2> QED
    BY <1>0, <2>1
<1>1. CASE \E r \in Parts : ReadsPart(r)
  <2>1. PICK r \in Parts : ReadsPart(r)
    BY <1>1
  <2>2. handled' = handled \cup {r}
    BY <2>1 DEF ReadsPart
  <2>3. x \in Held \cup {r}
    BY <1>00, <2>2
  <2> QED
    BY <2>1, <2>3, PartStaysHeld
<1>2. CASE \E r \in Parts : ReadsSingle(r)
  <2>1. PICK r \in Parts : ReadsSingle(r)
    BY <1>2
  <2> DEFINE m == Item("single", r.sender, r.ref, <<r>>)
  <2>2. m \in pushed' \/ r \in lost'
    BY <2>1 DEF ReadsSingle
  <2>3. handled' = handled \cup {r} /\ UNCHANGED s_concat
    BY <2>1 DEF ReadsSingle
  <2>4. m.text = <<r>> /\ DOMAIN m.text = {1} /\ m.text[1] = r /\ r # NoPart
    BY PartFacts DEF Item
  <2>5. pushed \subseteq pushed' /\ lost \subseteq lost'
    BY HistoryGrows
  <2> HIDE DEF m
  <2>6. Cached' = Cached
    BY <2>3 DEF Cached
  <2>7. Held \subseteq Held'
    BY <2>5, <2>6, QueuedGrows DEF Held
  <2>8. r \in Held'
    BY <2>2, <2>4 DEF Held, Queued
  <2> QED
    BY <1>00, <2>3, <2>7, <2>8
<1>3. CASE Expires
  <2>1. UNCHANGED handled
    BY <1>3 DEF Expires
  <2>2. x \in Held /\ Clear(x)
    BY <1>00, <2>1 DEF Clear
  <2> QED
    BY <1>3, <2>2, ExpiredStayHeld
<1>4. CASE ~(\E r \in Parts : ReadsSingle(r) \/ ReadsPart(r)) /\ ~Expires
  <2>1. UNCHANGED <<s_concat, handled, pushed, lost>>
    BY <1>4, QuietSteps
  <2>2. Held' = Held
    BY <2>1 DEF Held, Cached, Queued
  <2> QED
    BY <1>00, <2>1, <2>2
<1> QED
  BY <1>1, <1>2, <1>3, <1>4

\* A message queued as complete holds only parts that came under its sender and
\* reference, at their own numbers; and if all that was decoded under them is one message,
\* well numbered and read in one piece, it is that message, whole and in order.  What
\* torn reads and other senders bring elsewhere in the cache does not matter.
THEOREM CompleteMessagesWhole == RSpec => []CompleteIsWhole
<1>1. RInit => CompleteIsWhole
  BY DEF RInit, CompleteIsWhole
<1>2. RIndInv /\ CompleteIsWhole /\ [RNext]_rvars => CompleteIsWhole'
  <2>1. RIndInv /\ CompleteIsWhole /\ RNext => CompleteIsWhole'
    BY CompleteStep
  <2>2. CompleteIsWhole /\ UNCHANGED rvars => CompleteIsWhole'
    BY DEF CompleteIsWhole, rvars, history
  <2> QED
    BY <2>1, <2>2
<1> QED
  BY <1>1, <1>2, RInitInvariant, RStepInvariant, PTL DEF RSpec

\* No decoded part vanishes, unless another message or a torn read came under its sender
\* and reference: it waits in its group, has been queued, or was dropped by a full cache
\* or a full queue.
THEOREM PartsAccountedFor == RSpec => []NoPartVanishes
<1>1. RInit => NoPartVanishes
  BY DEF RInit, NoPartVanishes
<1>2. RIndInv /\ NoPartVanishes /\ [RNext]_rvars => NoPartVanishes'
  <2>1. RIndInv /\ NoPartVanishes /\ RNext => NoPartVanishes'
    BY HeldStep
  <2>2. NoPartVanishes /\ UNCHANGED rvars => NoPartVanishes'
    BY DEF NoPartVanishes, rvars, history
  <2> QED
    BY <2>1, <2>2
<1> QED
  BY <1>1, <1>2, RInitInvariant, RStepInvariant, PTL DEF RSpec
=============================================================================
