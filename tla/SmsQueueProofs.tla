--------------------------- MODULE SmsQueueProofs ---------------------------
(***************************************************************************)
(* Proofs about SmsQueue for every ring size, counter width, payload set   *)
(* and first content of smsq.dat.                                          *)
(***************************************************************************)
EXTENDS SmsQueue, SequenceTheorems, TLAPS

----------------------------------------------------------------------------
(* The ring's index arithmetic *)

\* Between n and 2n - 1 the remainder modulo n is a subtraction.
LEMMA ModOneLap ==
  \A n \in Nat : \A x \in n .. 2 * n - 1 : n > 0 => x % n = x - n
OBVIOUS

\* A ring index is the plain sum, folded back at most once.
LEMMA FoldOnce ==
  ASSUME NEW h \in Slots, NEW i \in 0 .. SMS_QUEUE_MAX
  PROVE  /\ (h + i) % SMS_QUEUE_MAX
              = IF h + i < SMS_QUEUE_MAX THEN h + i ELSE h + i - SMS_QUEUE_MAX
         /\ (h + i) % SMS_QUEUE_MAX \in Slots
<1> SMS_QUEUE_MAX \in Nat /\ SMS_QUEUE_MAX > 0
  BY SizeAssumption
<1>1. CASE h + i < SMS_QUEUE_MAX
  <2>1. h + i \in 0 .. SMS_QUEUE_MAX - 1
    BY <1>1 DEF Slots
  <2>. QED BY <1>1, <2>1 DEF Slots
<1>2. CASE h + i >= SMS_QUEUE_MAX
  <2> DEFINE x == h + i
  <2>1. x \in SMS_QUEUE_MAX .. 2 * SMS_QUEUE_MAX - 1
    BY <1>2 DEF Slots
  <2> HIDE DEF x
  <2>2. x % SMS_QUEUE_MAX = x - SMS_QUEUE_MAX
    BY <2>1, ModOneLap
  <2> USE DEF x
  <2>. QED BY <1>2, <2>1, <2>2 DEF Slots
<1>. QED BY <1>1, <1>2 DEF Slots

\* The next sequence number is again a sequence number.
LEMMA NextSeq == \A n \in SeqNums : (n + 1) % SEQ_MOD \in SeqNums
BY SizeAssumption DEF SeqNums

LEMMA EmptyRingFacts ==
  /\ EmptyRing \in Rings
  /\ Consecutive(EmptyRing)
<1>1. 0 \in Slots /\ 0 \in SeqNums /\ 0 \in 0 .. SMS_QUEUE_MAX
  BY SizeAssumption DEF Slots, SeqNums
<1>2. EmptyItem \in Items
  BY <1>1 DEF EmptyItem, Items, Kinds
<1>. QED BY <1>1, <1>2 DEF EmptyRing, Rings, Consecutive

\* Whatever smsq.dat holds, queue_load yields a ring inside its bounds.
LEMMA LoadYieldsRing == \A f \in Files : QueueLoad(f) \in Rings
<1> SUFFICES ASSUME NEW f \in Files PROVE QueueLoad(f) \in Rings
  OBVIOUS
<1>1. CASE f.fmt = "v1" /\ InRange(f.blob)
  <2>1. f.blob \in Blobs(ItemsV1)
    BY <1>1 DEF Files, Torn
  <2>2. \A i \in Slots : [type |-> "sms", seq |-> f.blob.items[i].seq,
                          data |-> f.blob.items[i].data] \in Items
    BY <2>1 DEF Blobs, ItemsV1, Items, Kinds
  <2>3. ImportV1(f.blob) \in Rings
    BY <1>1, <2>1, <2>2, SizeAssumption DEF ImportV1, Rings, Blobs, InRange, Slots
  <2>. QED BY <1>1, <2>3 DEF QueueLoad
<1>2. CASE f.fmt = "cur" /\ InRange(f.blob)
  <2>1. f.blob \in Blobs(Items)
    BY <1>2 DEF Files, Torn
  <2>2. f.blob \in Rings
    BY <1>2, <2>1, SizeAssumption DEF Rings, Blobs, InRange, Slots
  <2>. QED BY <1>2, <2>2 DEF QueueLoad
<1>3. CASE /\ ~(f.fmt = "v1" /\ InRange(f.blob))
           /\ ~(f.fmt = "cur" /\ InRange(f.blob))
  BY <1>3, EmptyRingFacts DEF QueueLoad
<1>. QED BY <1>1, <1>2, <1>3

\* A torn file restores nothing; a complete snapshot restores what was saved.
LEMMA LoadTorn == QueueLoad(Torn) = EmptyRing
BY DEF QueueLoad, Torn

LEMMA LoadSnapshot == \A r \in Rings : QueueLoad(Snapshot(r)) = r
BY SizeAssumption DEF QueueLoad, Snapshot, Rings, InRange, Slots

LEMMA SnapshotIsFile == \A r \in Rings : Snapshot(r) \in Files
<1> SUFFICES ASSUME NEW r \in Rings PROVE Snapshot(r) \in Files
  OBVIOUS
<1>1. r \in Blobs(Items)
  BY SizeAssumption DEF Rings, Blobs, Slots
<1>. QED BY <1>1 DEF Snapshot, Files

----------------------------------------------------------------------------
(* Enqueue appends to the queue, Dequeue takes its head *)

\* The ring after a push, slot by slot: the new item is last, the others stay.
LEMMA EnqueueFacts ==
  ASSUME NEW r \in Rings, NEW c \in Contents, r.count < SMS_QUEUE_MAX
  PROVE  /\ Enqueue(r, c) \in Rings
         /\ Enqueue(r, c).head = r.head
         /\ Enqueue(r, c).count = r.count + 1
         /\ Enqueue(r, c).seq = (r.seq + 1) % SEQ_MOD
         /\ Enqueue(r, c).items[Slot(Enqueue(r, c), r.count)]
              = [type |-> c.type, seq |-> (r.seq + 1) % SEQ_MOD, data |-> c.data]
         /\ \A i \in 0 .. r.count - 1 :
              Enqueue(r, c).items[Slot(Enqueue(r, c), i)] = r.items[Slot(r, i)]
<1> DEFINE n == (r.seq + 1) % SEQ_MOD
           e == Enqueue(r, c)
           p == Slot(r, r.count)
           it == [type |-> c.type, seq |-> n, data |-> c.data]
<1>1. SMS_QUEUE_MAX \in Nat /\ SMS_QUEUE_MAX > 0
  BY SizeAssumption
<1>2. r.head \in Slots /\ r.count \in 0 .. SMS_QUEUE_MAX /\ r.items \in [Slots -> Items]
  BY DEF Rings
<1>3. p \in Slots
  BY <1>2, FoldOnce DEF Slot
<1>4. n \in SeqNums
  BY NextSeq DEF Rings
<1>5. it \in Items
  BY <1>4 DEF Items, Contents
<1>6. /\ e.head = r.head /\ e.count = r.count + 1 /\ e.seq = n
      /\ e.items = [r.items EXCEPT ![p] = it]
      /\ e = [head |-> r.head, count |-> r.count + 1, seq |-> n,
              items |-> [r.items EXCEPT ![p] = it]]
  BY DEF Enqueue, Rings
<1>7. e \in Rings
  BY <1>1, <1>2, <1>3, <1>4, <1>5, <1>6 DEF Rings
<1>8. e.items[Slot(e, r.count)] = it
  BY <1>2, <1>3, <1>6 DEF Slot
<1>9. ASSUME NEW i \in 0 .. r.count - 1
      PROVE  e.items[Slot(e, i)] = r.items[Slot(r, i)]
  <2>1. i \in 0 .. SMS_QUEUE_MAX
    BY <1>1, <1>2
  <2>2. /\ Slot(r, i) = IF r.head + i < SMS_QUEUE_MAX THEN r.head + i
                         ELSE r.head + i - SMS_QUEUE_MAX
        /\ Slot(r, i) \in Slots
    BY <1>2, <2>1, FoldOnce DEF Slot
  <2>3. p = IF r.head + r.count < SMS_QUEUE_MAX THEN r.head + r.count
            ELSE r.head + r.count - SMS_QUEUE_MAX
    BY <1>2, FoldOnce DEF Slot
  <2> HIDE DEF p
  <2>4. Slot(r, i) # p
    <3>1. /\ r.head \in Nat /\ r.head < SMS_QUEUE_MAX
          /\ i \in Nat /\ i < r.count /\ r.count \in Nat /\ r.count < SMS_QUEUE_MAX
      BY <1>1, <1>2 DEF Slots
    <3> QED
      BY <1>1, <2>2, <2>3, <3>1
  <2>5. Slot(e, i) = Slot(r, i)
    BY <1>6 DEF Slot
  <2>. QED BY <1>2, <1>3, <1>6, <2>2, <2>4, <2>5
<1>. QED BY <1>6, <1>7, <1>8, <1>9

\* The ring after a pop: what was at distance i + 1 from the head is now at i.
LEMMA DequeueFacts ==
  ASSUME NEW r \in Rings, r.count > 0
  PROVE  /\ Dequeue(r) \in Rings
         /\ Dequeue(r).count = r.count - 1
         /\ Dequeue(r).seq = r.seq
         /\ \A i \in 0 .. r.count - 2 :
              Dequeue(r).items[Slot(Dequeue(r), i)] = r.items[Slot(r, i + 1)]
<1> DEFINE d == Dequeue(r)
<1>1. SMS_QUEUE_MAX \in Nat /\ SMS_QUEUE_MAX > 0
  BY SizeAssumption
<1>2. r.head \in Slots /\ r.count \in 0 .. SMS_QUEUE_MAX
  BY DEF Rings
<1>3. /\ d.head = (r.head + 1) % SMS_QUEUE_MAX /\ d.count = r.count - 1
      /\ d.seq = r.seq /\ d.items = r.items
      /\ d = [head |-> (r.head + 1) % SMS_QUEUE_MAX, count |-> r.count - 1,
              seq |-> r.seq, items |-> r.items]
  BY DEF Dequeue, Rings
<1>4. 1 \in 0 .. SMS_QUEUE_MAX
  BY <1>1
<1>5. d.head \in Slots
  BY <1>2, <1>3, <1>4, FoldOnce
<1>6. d \in Rings
  BY <1>1, <1>2, <1>3, <1>5 DEF Rings
<1>7. ASSUME NEW i \in 0 .. r.count - 2
      PROVE  d.items[Slot(d, i)] = r.items[Slot(r, i + 1)]
  <2>1. i \in 0 .. SMS_QUEUE_MAX /\ i + 1 \in 0 .. SMS_QUEUE_MAX
    BY <1>1, <1>2
  <2> DEFINE h1 == (r.head + 1) % SMS_QUEUE_MAX
  <2>2. /\ h1 \in Slots
        /\ h1 = IF r.head + 1 < SMS_QUEUE_MAX THEN r.head + 1
                ELSE r.head + 1 - SMS_QUEUE_MAX
    BY <1>2, <1>4, FoldOnce
  <2> HIDE DEF h1
  <2>3. (h1 + i) % SMS_QUEUE_MAX
          = IF h1 + i < SMS_QUEUE_MAX THEN h1 + i ELSE h1 + i - SMS_QUEUE_MAX
    BY <2>1, <2>2, FoldOnce
  <2>4. (r.head + (i + 1)) % SMS_QUEUE_MAX
          = IF r.head + (i + 1) < SMS_QUEUE_MAX THEN r.head + (i + 1)
            ELSE r.head + (i + 1) - SMS_QUEUE_MAX
    BY <1>2, <2>1, FoldOnce
  <2> DEFINE x == (h1 + i) % SMS_QUEUE_MAX
             y == (r.head + (i + 1)) % SMS_QUEUE_MAX
  <2>5. x = y
    <3>1. /\ x = IF h1 + i < SMS_QUEUE_MAX THEN h1 + i ELSE h1 + i - SMS_QUEUE_MAX
          /\ y = IF r.head + (i + 1) < SMS_QUEUE_MAX THEN r.head + (i + 1)
                 ELSE r.head + (i + 1) - SMS_QUEUE_MAX
      BY <2>3, <2>4
    <3> HIDE DEF x, y
    <3>. QED BY <1>1, <1>2, <2>1, <2>2, <3>1 DEF Slots
  <2>. QED BY <1>3, <2>5 DEF Slot, h1
<1>. QED BY <1>3, <1>6, <1>7

LEMMA EnqueueConsecutive ==
  ASSUME NEW r \in Rings, NEW c \in Contents, r.count < SMS_QUEUE_MAX, Consecutive(r)
  PROVE  Consecutive(Enqueue(r, c))
<1> DEFINE e == Enqueue(r, c)
<1>1. /\ e.count = r.count + 1 /\ e.seq = (r.seq + 1) % SEQ_MOD
      /\ e.items[Slot(e, r.count)].seq = (r.seq + 1) % SEQ_MOD
      /\ \A i \in 0 .. r.count - 1 : e.items[Slot(e, i)] = r.items[Slot(r, i)]
  <2>1. e.items[Slot(e, r.count)]
          = [type |-> c.type, seq |-> (r.seq + 1) % SEQ_MOD, data |-> c.data]
    BY EnqueueFacts
  <2>2. e.items[Slot(e, r.count)].seq = (r.seq + 1) % SEQ_MOD
    BY <2>1
  <2>3. /\ e.count = r.count + 1 /\ e.seq = (r.seq + 1) % SEQ_MOD
        /\ \A i \in 0 .. r.count - 1 : e.items[Slot(e, i)] = r.items[Slot(r, i)]
    BY EnqueueFacts
  <2>. QED BY <2>2, <2>3
<1>2. r.count \in Nat
  BY SizeAssumption DEF Rings
<1> HIDE DEF e
<1>3. ASSUME NEW i \in 0 .. e.count - 2
      PROVE  e.items[Slot(e, i + 1)].seq = (e.items[Slot(e, i)].seq + 1) % SEQ_MOD
  <2>1. CASE i = r.count - 1
    <3>1. e.items[Slot(e, i)].seq = r.seq
      BY <1>1, <1>2, <2>1 DEF Consecutive
    <3>2. e.items[Slot(e, i + 1)].seq = (r.seq + 1) % SEQ_MOD
      BY <1>1, <1>2, <2>1
    <3>. QED BY <3>1, <3>2
  <2>2. CASE i < r.count - 1
    <3>1. i \in 0 .. r.count - 2 /\ i \in 0 .. r.count - 1 /\ i + 1 \in 0 .. r.count - 1
      BY <1>2, <2>2
    <3>. QED BY <1>1, <3>1 DEF Consecutive
  <2>. QED BY <1>1, <1>2, <2>1, <2>2
<1>4. e.items[Slot(e, e.count - 1)].seq = e.seq
  BY <1>1, <1>2
<1>5. Consecutive(e)
  BY <1>3, <1>4 DEF Consecutive
<1>. QED BY <1>5 DEF e

LEMMA DequeueConsecutive ==
  ASSUME NEW r \in Rings, r.count > 0, Consecutive(r)
  PROVE  Consecutive(Dequeue(r))
<1> DEFINE d == Dequeue(r)
<1>1. /\ d.count = r.count - 1 /\ d.seq = r.seq
      /\ \A i \in 0 .. r.count - 2 : d.items[Slot(d, i)] = r.items[Slot(r, i + 1)]
  BY DequeueFacts
<1>2. r.count \in Nat
  BY SizeAssumption DEF Rings
<1> HIDE DEF d
<1>3. ASSUME NEW i \in 0 .. d.count - 2
      PROVE  d.items[Slot(d, i + 1)].seq = (d.items[Slot(d, i)].seq + 1) % SEQ_MOD
  <2>1. i \in 0 .. r.count - 2 /\ i + 1 \in 0 .. r.count - 2
    BY <1>1, <1>2
  <2>. QED BY <1>1, <2>1 DEF Consecutive
<1>4. d.count > 0 => d.items[Slot(d, d.count - 1)].seq = d.seq
  <2> SUFFICES ASSUME d.count > 0 PROVE d.items[Slot(d, d.count - 1)].seq = d.seq
    OBVIOUS
  <2>1. d.count - 1 \in 0 .. r.count - 2 /\ (d.count - 1) + 1 = r.count - 1
    BY <1>1, <1>2
  <2>2. r.items[Slot(r, r.count - 1)].seq = r.seq
    BY <1>2 DEF Consecutive
  <2>. QED BY <1>1, <2>1, <2>2
<1>5. Consecutive(d)
  BY <1>3, <1>4 DEF Consecutive
<1>. QED BY <1>5 DEF d

----------------------------------------------------------------------------
(* The same facts about the queue an abstract reader sees *)

LEMMA AbstractItems ==
  ASSUME NEW r \in Rings
  PROVE  /\ DOMAIN AbstractQueue(r) = 1 .. r.count
         /\ AbstractQueue(r) \in Seq({AbstractItem(it) : it \in Items})
         /\ Len(AbstractQueue(r)) = r.count
         /\ \A i \in 1 .. r.count :
              AbstractQueue(r)[i] = AbstractItem(r.items[Slot(r, i - 1)])
<1>1. r.count \in 0 .. SMS_QUEUE_MAX /\ r.count \in Nat /\ r.head \in Slots
  BY SizeAssumption DEF Rings
<1>2. \A i \in 1 .. r.count : r.items[Slot(r, i - 1)] \in Items
  <2> SUFFICES ASSUME NEW i \in 1 .. r.count PROVE r.items[Slot(r, i - 1)] \in Items
    OBVIOUS
  <2>1. i - 1 \in 0 .. SMS_QUEUE_MAX
    BY <1>1, SizeAssumption
  <2>2. Slot(r, i - 1) \in Slots
    BY <1>1, <2>1, FoldOnce DEF Slot
  <2>. QED BY <2>2 DEF Rings
<1>3. \A i \in 1 .. r.count :
        AbstractQueue(r)[i] = AbstractItem(r.items[Slot(r, i - 1)])
  BY DEF AbstractQueue, PendingOf
<1>4. AbstractQueue(r) \in [1 .. r.count -> {AbstractItem(it) : it \in Items}]
  BY <1>2, <1>3 DEF AbstractQueue
<1>. QED BY <1>1, <1>3, <1>4

LEMMA AbstractEmpty == AbstractQueue(EmptyRing) = <<>>
BY DEF AbstractQueue, EmptyRing

\* A push appends one item, numbered one past the last number given out.
LEMMA AbstractEnqueue ==
  ASSUME NEW r \in Rings, NEW c \in Contents, r.count < SMS_QUEUE_MAX
  PROVE  AbstractQueue(Enqueue(r, c))
           = Append(AbstractQueue(r), [seq |-> (r.seq + 1) % SEQ_MOD, content |-> c])
<1> DEFINE e == Enqueue(r, c)
           q == AbstractQueue(r)
           qe == AbstractQueue(e)
           a == [seq |-> (r.seq + 1) % SEQ_MOD, content |-> c]
<1>1. /\ e \in Rings /\ e.count = r.count + 1
      /\ e.items[Slot(e, r.count)]
           = [type |-> c.type, seq |-> (r.seq + 1) % SEQ_MOD, data |-> c.data]
      /\ \A i \in 0 .. r.count - 1 : e.items[Slot(e, i)] = r.items[Slot(r, i)]
  BY EnqueueFacts
<1>2. r.count \in Nat
  BY SizeAssumption DEF Rings
<1>3. AbstractItem(e.items[Slot(e, r.count)]) = a
  BY <1>1 DEF AbstractItem, Contents
<1> HIDE DEF e, a
<1>4. /\ DOMAIN q = 1 .. r.count
      /\ \A i \in 1 .. r.count : q[i] = AbstractItem(r.items[Slot(r, i - 1)])
      /\ Len(q) = r.count
  BY AbstractItems
<1>5. /\ qe \in Seq({AbstractItem(it) : it \in Items})
      /\ DOMAIN qe = 1 .. r.count + 1
      /\ \A i \in 1 .. r.count + 1 : qe[i] = AbstractItem(e.items[Slot(e, i - 1)])
  BY <1>1, AbstractItems
<1> HIDE DEF q, qe
<1>6. qe[r.count + 1] = a
  BY <1>2, <1>3, <1>5
<1>7. ASSUME NEW i \in 1 .. r.count PROVE qe[i] = q[i]
  <2>1. i - 1 \in 0 .. r.count - 1 /\ i \in 1 .. r.count + 1
    BY <1>2
  <2>. QED BY <1>1, <1>4, <1>5, <2>1
<1>8. a \in {AbstractItem(it) : it \in Items}
  <2>1. e.items[Slot(e, r.count)] \in Items
    BY <1>1, <1>2, FoldOnce DEF Slot, Rings
  <2>. QED BY <1>3, <2>1
<1>9. /\ q \in Seq({AbstractItem(it) : it \in Items})
      /\ Append(q, a) \in Seq({AbstractItem(it) : it \in Items})
      /\ Len(Append(q, a)) = r.count + 1
      /\ Append(q, a)[r.count + 1] = a
      /\ \A i \in 1 .. r.count : Append(q, a)[i] = q[i]
  <2>1. q \in Seq({AbstractItem(it) : it \in Items})
    BY AbstractItems DEF q
  <2>. QED BY <1>2, <1>4, <1>8, <2>1
<1>10. Len(qe) = r.count + 1
  BY <1>2, <1>5
<1>11. \A i \in 1 .. Len(qe) : qe[i] = Append(q, a)[i]
  BY <1>2, <1>6, <1>7, <1>9, <1>10
<1>12. qe = Append(q, a)
  BY <1>5, <1>9, <1>10, <1>11, SeqEqual
<1>. QED BY <1>12 DEF q, qe, e, a

\* A pop removes exactly the oldest item.
LEMMA AbstractDequeue ==
  ASSUME NEW r \in Rings, r.count > 0
  PROVE  AbstractQueue(Dequeue(r)) = Tail(AbstractQueue(r))
<1> DEFINE d == Dequeue(r)
           q == AbstractQueue(r)
           qd == AbstractQueue(d)
<1>1. /\ d \in Rings /\ d.count = r.count - 1
      /\ \A i \in 0 .. r.count - 2 : d.items[Slot(d, i)] = r.items[Slot(r, i + 1)]
  BY DequeueFacts
<1>2. r.count \in Nat
  BY SizeAssumption DEF Rings
<1> HIDE DEF d
<1>4. /\ DOMAIN q = 1 .. r.count
      /\ \A i \in 1 .. r.count : q[i] = AbstractItem(r.items[Slot(r, i - 1)])
      /\ Len(q) = r.count
  BY AbstractItems
<1>5. /\ qd \in Seq({AbstractItem(it) : it \in Items})
      /\ DOMAIN qd = 1 .. r.count - 1
      /\ \A i \in 1 .. r.count - 1 : qd[i] = AbstractItem(d.items[Slot(d, i - 1)])
  BY <1>1, AbstractItems
<1> HIDE DEF q, qd
<1>6. ASSUME NEW i \in 1 .. r.count - 1 PROVE qd[i] = q[i + 1]
  <2>1. i - 1 \in 0 .. r.count - 2 /\ i + 1 \in 1 .. r.count /\ (i - 1) + 1 = (i + 1) - 1
    BY <1>2
  <2>. QED BY <1>1, <1>4, <1>5, <2>1
<1>7. /\ q \in Seq({AbstractItem(it) : it \in Items})
      /\ q # <<>>
  BY <1>2, <1>4, AbstractItems DEF q
<1>8. /\ Tail(q) \in Seq({AbstractItem(it) : it \in Items})
      /\ Len(Tail(q)) = r.count - 1
      /\ \A i \in 1 .. r.count - 1 : Tail(q)[i] = q[i + 1]
  BY <1>2, <1>4, <1>7, HeadTailProperties
<1>9. Len(qd) = r.count - 1
  BY <1>2, <1>5
<1>10. qd = Tail(q)
  BY <1>5, <1>6, <1>8, <1>9, SeqEqual
<1>. QED BY <1>10 DEF q, qd, d

----------------------------------------------------------------------------
(* The inductive invariant *)

\* queue_save runs only on a device that has booted.
SavesWhileUp == save # "idle" => up

\* A save that has written the file has written the ring as it still stands.
WrittenIsCurrent == up /\ save \in {"idle", "close"} /\ ~stale => QueueLoad(file) = s_q

IndInv ==
  /\ TypeOK
  /\ SeqsConsecutive
  /\ SaveHoldsWorkLock
  /\ SavesWhileUp
  /\ WrittenIsCurrent

LEMMA InitIndInv == Init => IndInv
<1> SUFFICES ASSUME Init PROVE IndInv
  OBVIOUS
<1>1. file \in Files /\ Consecutive(QueueLoad(file))
  BY BootAssumption DEF Init
<1>. QED BY <1>1, EmptyRingFacts
         DEF Init, IndInv, TypeOK, SeqsConsecutive, SaveHoldsWorkLock,
             SavesWhileUp, WrittenIsCurrent

\* No step of either thread, and no power failure, breaks the invariant.
LEMMA StepIndInv == IndInv /\ [Next]_qvars => IndInv'
<1> SUFFICES ASSUME IndInv, [Next]_qvars PROVE IndInv'
  OBVIOUS
<1> USE DEF IndInv
<1>1. CASE Boot
  <2>1. s_q' \in Rings /\ Consecutive(s_q')
    BY <1>1, LoadYieldsRing DEF Boot, TypeOK, SeqsConsecutive
  <2>2. save = "idle" /\ pm' = 0 /\ pm' \in Nat
    BY <1>1 DEF Boot, SaveHoldsWorkLock, SavesWhileUp
  <2>3. TypeOK'
    BY <1>1, <2>1, <2>2, Zenon DEF Boot, TypeOK
  <2>4. SeqsConsecutive'
    BY <1>1, <2>1 DEF Boot, SeqsConsecutive
  <2>5. SaveHoldsWorkLock' /\ SavesWhileUp' /\ WrittenIsCurrent'
    BY <1>1, <2>2 DEF Boot, SaveHoldsWorkLock, SavesWhileUp, WrittenIsCurrent
  <2>. QED BY <2>3, <2>4, <2>5
<1>2. ASSUME NEW c \in Contents, Push(c) PROVE IndInv'
  <2>1. s_q' \in Rings
    BY <1>2, EnqueueFacts DEF Push, TypeOK
  <2>2. Consecutive(s_q')
    BY <1>2, EnqueueConsecutive DEF Push, TypeOK, SeqsConsecutive
  <2>3. TypeOK'
    BY <1>2, <2>1 DEF Push, TypeOK
  <2>4. SeqsConsecutive'
    BY <1>2, <2>2 DEF Push, SeqsConsecutive
  <2>5. SaveHoldsWorkLock' /\ SavesWhileUp' /\ WrittenIsCurrent'
    BY <1>2 DEF Push, CanPush, SaveHoldsWorkLock, SavesWhileUp, WrittenIsCurrent
  <2>. QED BY <2>3, <2>4, <2>5
<1>3. CASE PopHead
  <2>1. s_q' \in Rings
    BY <1>3, DequeueFacts DEF PopHead, TypeOK
  <2>2. Consecutive(s_q')
    BY <1>3, DequeueConsecutive DEF PopHead, TypeOK, SeqsConsecutive
  <2>3. TypeOK'
    BY <1>3, <2>1 DEF PopHead, TypeOK
  <2>4. SeqsConsecutive'
    BY <1>3, <2>2 DEF PopHead, SeqsConsecutive
  <2>5. SaveHoldsWorkLock' /\ SavesWhileUp' /\ WrittenIsCurrent'
    BY <1>3 DEF PopHead, CanPop, SaveHoldsWorkLock, SavesWhileUp, WrittenIsCurrent
  <2>. QED BY <2>3, <2>4, <2>5
<1>4. CASE SaveOpen
  <2>1. Torn \in Files
    BY DEF Files
  <2>2. Consecutive(QueueLoad(Torn))
    BY LoadTorn, EmptyRingFacts
  <2>. QED BY <1>4, <2>1, <2>2
           DEF SaveOpen, TypeOK, SeqsConsecutive, SaveHoldsWorkLock,
               SavesWhileUp, WrittenIsCurrent
<1>5. CASE SaveOpenFails \/ SaveClose
  <2>1. /\ save # "idle" /\ SaveReturns /\ UNCHANGED <<up, s_q, file, s_evt>>
        /\ stale' \in BOOLEAN /\ (~stale' => save = "close" /\ ~stale)
    BY <1>5 DEF SaveOpenFails, SaveClose, TypeOK
  <2>2. up /\ pm' = 0
    BY <2>1 DEF SaveReturns, SaveHoldsWorkLock, SavesWhileUp
  <2>3. signal' \in BOOLEAN
    BY <2>1 DEF SaveReturns
  <2>4. TypeOK'
    BY <2>1, <2>2, <2>3 DEF SaveReturns, TypeOK
  <2>5. SeqsConsecutive'
    BY <2>1 DEF SeqsConsecutive
  <2>6. SaveHoldsWorkLock' /\ SavesWhileUp' /\ WrittenIsCurrent'
    BY <2>1, <2>2 DEF SaveReturns, SaveHoldsWorkLock, SavesWhileUp, WrittenIsCurrent
  <2>. QED BY <2>4, <2>5, <2>6
<1>6. CASE SaveWrite
  <2>1. Snapshot(s_q) \in Files
    BY SnapshotIsFile DEF TypeOK
  <2>2. QueueLoad(Snapshot(s_q)) = s_q /\ Consecutive(s_q)
    BY LoadSnapshot DEF TypeOK, SeqsConsecutive
  <2>. QED BY <1>6, <2>1, <2>2
           DEF SaveWrite, TypeOK, SeqsConsecutive, SaveHoldsWorkLock,
               SavesWhileUp, WrittenIsCurrent
<1>7. CASE SaveWriteShort
  BY <1>7 DEF SaveWriteShort, TypeOK, SeqsConsecutive, SaveHoldsWorkLock,
              SavesWhileUp, WrittenIsCurrent
<1>8. CASE PushSignals \/ WaitReturns
  <2>1. /\ UNCHANGED <<up, s_q, file, s_lock, save, stale, pm>>
        /\ signal' \in BOOLEAN /\ s_evt' \in BOOLEAN
    BY <1>8 DEF PushSignals, WaitReturns, TypeOK
  <2>. QED BY <2>1 DEF TypeOK, SeqsConsecutive, SaveHoldsWorkLock, SavesWhileUp,
                       WrittenIsCurrent
<1>9. CASE Crash
  BY <1>9, EmptyRingFacts
     DEF Crash, TypeOK, SeqsConsecutive, SaveHoldsWorkLock, SavesWhileUp,
         WrittenIsCurrent
<1>10. CASE UNCHANGED qvars
  BY <1>10 DEF qvars, TypeOK, SeqsConsecutive, SaveHoldsWorkLock, SavesWhileUp,
               WrittenIsCurrent
<1>. QED BY <1>1, <1>2, <1>3, <1>4, <1>5, <1>6, <1>7, <1>8, <1>9, <1>10
         DEF Next, QueueStep

LEMMA AlwaysIndInv == Spec => []IndInv
BY InitIndInv, StepIndInv, PTL DEF Spec

\* Whatever file the device starts from, the ring never leaves its bounds.
THEOREM QueueTypeOK == Spec => []TypeOK
BY AlwaysIndInv, PTL DEF IndInv

\* Pending items are numbered without gaps, in RAM and in what a restart would
\* restore, for every ring size, counter width and crash schedule.
THEOREM QueueSeqsConsecutive == Spec => []SeqsConsecutive
BY AlwaysIndInv, PTL DEF IndInv

\* The work lock is taken and released in pairs around every save.
THEOREM QueueSaveHoldsWorkLock == Spec => []SaveHoldsWorkLock
BY AlwaysIndInv, PTL DEF IndInv

\* Power may fail between any two steps: outside a save, and unless the last save
\* failed, the restarted device finds its queue unchanged.
THEOREM QueueRestartResumes == Spec => []RestartResumes
<1>1. IndInv => RestartResumes
  BY DEF IndInv, WrittenIsCurrent, RestartResumes
<1>. QED BY <1>1, AlwaysIndInv, PTL

----------------------------------------------------------------------------
(* The refinement *)

LEMMA ImageTorn == Image(Torn) = Abstract!Nothing
BY LoadTorn, AbstractEmpty DEF Image, Abstract!Nothing, EmptyRing

LEMMA InitRefines == Init => Abstract!Init
BY AbstractEmpty DEF Init, Abstract!Init, EmptyRing

LEMMA StepRefines == IndInv /\ [Next]_qvars => [Abstract!Next]_(Abstract!avars)
<1> SUFFICES ASSUME IndInv, [Next]_qvars PROVE [Abstract!Next]_(Abstract!avars)
  OBVIOUS
<1> USE DEF IndInv
<1>1. CASE Boot
  <2>1. Abstract!Recover
    BY <1>1 DEF Boot, Abstract!Recover, Image
  <2>. QED BY <2>1 DEF Abstract!Next
<1>2. ASSUME NEW c \in Contents, Push(c) PROVE Abstract!Accept(c)
  <2>1. Len(AbstractQueue(s_q)) < SMS_QUEUE_MAX
    BY <1>2, AbstractItems DEF Push, TypeOK
  <2>2. s_q'.seq = (s_q.seq + 1) % SEQ_MOD
    BY <1>2, EnqueueFacts DEF Push, TypeOK
  <2>3. AbstractQueue(s_q')
          = Append(AbstractQueue(s_q), [seq |-> (s_q.seq + 1) % SEQ_MOD, content |-> c])
    BY <1>2, AbstractEnqueue DEF Push, TypeOK
  <2>. QED BY <1>2, <2>1, <2>2, <2>3 DEF Push, CanPush, Abstract!Accept
<1>3. CASE PopHead
  <2>1. AbstractQueue(s_q) # <<>>
    <3>1. Len(AbstractQueue(s_q)) = s_q.count /\ s_q.count > 0
      BY <1>3, AbstractItems DEF PopHead, TypeOK
    <3>. QED BY <3>1
  <2>2. s_q'.seq = s_q.seq
    BY <1>3, DequeueFacts DEF PopHead, TypeOK
  <2>3. AbstractQueue(s_q') = Tail(AbstractQueue(s_q))
    BY <1>3, AbstractDequeue DEF PopHead, TypeOK
  <2>4. Abstract!Remove
    BY <1>3, <2>1, <2>2, <2>3 DEF PopHead, CanPop, Abstract!Remove
  <2>. QED BY <2>4 DEF Abstract!Next
<1>4. CASE SaveOpen
  <2>1. Abstract!Spoil
    BY <1>4, ImageTorn DEF SaveOpen, SavesWhileUp, Abstract!Spoil
  <2>. QED BY <2>1 DEF Abstract!Next
<1>5. CASE SaveWrite
  <2>1. Image(Snapshot(s_q)) = [pending |-> AbstractQueue(s_q), last |-> s_q.seq]
    BY LoadSnapshot DEF TypeOK, Image
  <2>2. Abstract!Store
    BY <1>5, <2>1 DEF SaveWrite, SavesWhileUp, Abstract!Store
  <2>. QED BY <2>2 DEF Abstract!Next
<1>6. CASE Crash
  <2>1. Abstract!Crash
    BY <1>6, AbstractEmpty DEF Crash, Abstract!Crash, EmptyRing
  <2>. QED BY <2>1 DEF Abstract!Next
<1>7. CASE SaveOpenFails \/ SaveClose \/ SaveWriteShort \/ PushSignals \/ WaitReturns
           \/ UNCHANGED qvars
  <2>1. UNCHANGED <<up, s_q, file>>
    BY <1>7 DEF SaveOpenFails, SaveClose, SaveWriteShort, PushSignals,
                WaitReturns, qvars
  <2>. QED BY <2>1 DEF Abstract!avars
<1>. QED BY <1>1, <1>2, <1>3, <1>4, <1>5, <1>6, <1>7
         DEF Next, QueueStep, Abstract!Next

\* Every behaviour of the ring, its mutex and its in-place saves is a behaviour
\* of the bounded durable FIFO.
THEOREM QueueImplementsDurableQueue == Spec => ImplementsDurableQueue
<1>1. Init => Abstract!Init
  BY InitRefines
<1>2. IndInv /\ [Next]_qvars => [Abstract!Next]_(Abstract!avars)
  BY StepRefines
<1>. QED BY <1>1, <1>2, AlwaysIndInv, PTL DEF Spec, ImplementsDurableQueue,
                                              Abstract!Spec

=============================================================================
