---------------------------- MODULE DurableQueue ----------------------------
(***************************************************************************)
(* What sms_queue.c promises its two callers, without the ring, the mutex  *)
(* or the file format: a bounded FIFO of numbered items, and one stored    *)
(* image of it from which a restart resumes.  An image is either the whole *)
(* queue as it stood when it was stored, or empty: never a mixture.        *)
(***************************************************************************)
EXTENDS Integers, Sequences

CONSTANTS
  Capacity,   \* how many items may be pending
  SeqMod,     \* sequence numbers are counted modulo SeqMod
  Contents,   \* what a caller can put in an item
  Images      \* the images a device may be given before its first start

VARIABLES
  running,    \* the queue has been initialised since the last power-on
  pending,    \* the queue: items [seq, content], oldest first
  last,       \* the sequence number given out last
  disk        \* the stored image: [pending, last]

avars == <<running, pending, last, disk>>

Nothing == [pending |-> <<>>, last |-> 0]

Init ==
  /\ running = FALSE
  /\ pending = <<>>
  /\ last = 0
  /\ disk \in Images

Recover ==
  /\ ~running
  /\ running' = TRUE
  /\ pending' = disk.pending
  /\ last' = disk.last
  /\ UNCHANGED disk

Accept(c) ==
  /\ running
  /\ Len(pending) < Capacity
  /\ last' = (last + 1) % SeqMod
  /\ pending' = Append(pending, [seq |-> last', content |-> c])
  /\ UNCHANGED <<running, disk>>

Remove ==
  /\ running
  /\ pending # <<>>
  /\ pending' = Tail(pending)
  /\ UNCHANGED <<running, last, disk>>

Store ==
  /\ running
  /\ disk' = [pending |-> pending, last |-> last]
  /\ UNCHANGED <<running, pending, last>>

\* Replacing the image is not atomic: for a while nothing is stored.
Spoil ==
  /\ running
  /\ disk' = Nothing
  /\ UNCHANGED <<running, pending, last>>

Crash ==
  /\ running
  /\ running' = FALSE
  /\ pending' = <<>>
  /\ last' = 0
  /\ UNCHANGED disk

Next ==
  \/ Recover
  \/ \E c \in Contents : Accept(c)
  \/ Remove
  \/ Store
  \/ Spoil
  \/ Crash

Spec == Init /\ [][Next]_avars
=============================================================================
