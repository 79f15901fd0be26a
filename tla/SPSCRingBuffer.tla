--------------------------- MODULE SPSCRingBuffer ---------------------------
(***************************************************************************)
(* lib/ringbuffer/SPSCRingBuffer.hpp: the lock-free ring buffer between    *)
(* one producer thread and one consumer thread.                            *)
(*                                                                         *)
(* Every access to memory is a step.  Each index is written by one thread  *)
(* and read by both: its writer reads what it wrote last, the other thread *)
(* may read an old value, but never one older than a value it read before  *)
(* (C++'s modification order).  heads and tails are the values the indices *)
(* took, seen_tail and seen_head how far the other thread has read.  The   *)
(* element itself is not atomic: release and acquire make the one that     *)
(* belongs to an index visible with it, and the two threads must never be  *)
(* at the same slot together.                                              *)
(***************************************************************************)
EXTENDS Integers, Sequences

CONSTANTS
    Values,      \* the elements pushed
    None,        \* the value-initialised element
    Size,        \* the constructor's argument
    MaxPushes    \* bound: how many pushes succeed

ASSUME SizeAssumption      == Size \in Nat
ASSUME MaxPushesAssumption == MaxPushes \in Nat

VARIABLES
    heads,       \* the values head_ took, the current one last
    tails,       \* the values tail_ took
    buffer_,     \* the slots
    producer,    \* where push is: "idle", "write", "store"
    pushing,     \* the element being pushed
    seen_tail,   \* the position in tails that the producer read last
    consumer,    \* where pop is: "idle", "read", "store"
    taken,       \* what pop copied out of its slot
    seen_head,   \* the position in heads that the consumer read last
    item         \* what the last successful pop returned

producerVars == <<producer, pushing, seen_tail>>
consumerVars == <<consumer, taken, seen_head, item>>
spscVars == <<heads, tails, buffer_, producerVars, consumerVars>>

size_ == Size + 1    \* one slot stays free

head_ == heads[Len(heads)]
tail_ == tails[Len(tails)]

\* Mutant: no wrap.
After_NoWrap(i) == i + 1

\* Mutant: the sentinel slot is forgotten in the wrap.
After_NoSentinel(i) == (i + 1) % Size

After(i) == (i + 1) % size_

SpscInit ==
    /\ heads = <<0>> /\ tails = <<0>>
    /\ buffer_ = [i \in 0 .. size_ - 1 |-> None]
    /\ producer = "idle" /\ pushing = None /\ seen_tail = 1
    /\ consumer = "idle" /\ taken = None /\ seen_head = 1 /\ item = None

(***************************************************************************)
(* push                                                                    *)
(***************************************************************************)

\* The acquire load of tail_ finds the ring full, as far as the producer knows.
PushFull ==
    /\ producer = "idle"
    /\ \E k \in seen_tail .. Len(tails) :
          /\ After(head_) = tails[k]
          /\ seen_tail' = k
    /\ UNCHANGED <<heads, tails, buffer_, producer, pushing, consumerVars>>

\* Mutant: the test for a full ring is dropped.
PushBegins_Unchecked(d) ==
    /\ producer = "idle"
    /\ Len(heads) <= MaxPushes
    /\ producer' = "write"
    /\ pushing' = d
    /\ UNCHANGED <<heads, tails, buffer_, seen_tail, consumerVars>>

PushBegins(d) ==
    /\ producer = "idle"
    /\ Len(heads) <= MaxPushes
    /\ \E k \in seen_tail .. Len(tails) :
          /\ After(head_) # tails[k]
          /\ seen_tail' = k
    /\ producer' = "write"
    /\ pushing' = d
    /\ UNCHANGED <<heads, tails, buffer_, consumerVars>>

PushWrites ==
    /\ producer = "write"
    /\ buffer_' = [buffer_ EXCEPT ![head_] = pushing]
    /\ producer' = "store"
    /\ UNCHANGED <<heads, tails, pushing, seen_tail, consumerVars>>

\* The release store of head_; push returns true.
PushStores ==
    /\ producer = "store"
    /\ heads' = Append(heads, After(head_))
    /\ producer' = "idle"
    /\ UNCHANGED <<tails, buffer_, pushing, seen_tail, consumerVars>>

(***************************************************************************)
(* pop                                                                     *)
(***************************************************************************)

\* The acquire load of head_ finds the ring empty, as far as the consumer knows.
PopNothing ==
    /\ consumer = "idle"
    /\ \E k \in seen_head .. Len(heads) :
          /\ tail_ = heads[k]
          /\ seen_head' = k
    /\ UNCHANGED <<heads, tails, buffer_, producerVars, consumer, taken, item>>

PopBegins ==
    /\ consumer = "idle"
    /\ \E k \in seen_head .. Len(heads) :
          /\ tail_ # heads[k]
          /\ seen_head' = k
    /\ consumer' = "read"
    /\ UNCHANGED <<heads, tails, buffer_, producerVars, taken, item>>

PopReads ==
    /\ consumer = "read"
    /\ taken' = buffer_[tail_]
    /\ consumer' = "store"
    /\ UNCHANGED <<heads, tails, buffer_, producerVars, seen_head, item>>

\* The release store of tail_; pop returns true.
PopStores ==
    /\ consumer = "store"
    /\ tails' = Append(tails, After(tail_))
    /\ item' = taken
    /\ consumer' = "idle"
    /\ UNCHANGED <<heads, buffer_, producerVars, taken, seen_head>>

SpscNext ==
    \/ \E d \in Values : PushBegins(d)
    \/ PushFull \/ PushWrites \/ PushStores
    \/ PopBegins \/ PopNothing \/ PopReads \/ PopStores

SpscSpec == SpscInit /\ [][SpscNext]_spscVars
-----------------------------------------------------------------------------
(***************************************************************************)
(* Properties.                                                             *)
(***************************************************************************)

\* Type invariant.
SpscTypeOK ==
    /\ heads \in Seq(0 .. size_ - 1) /\ tails \in Seq(0 .. size_ - 1)
    /\ buffer_ \in [0 .. size_ - 1 -> Values \cup {None}]
    /\ producer \in {"idle", "write", "store"} /\ pushing \in Values \cup {None}
    /\ consumer \in {"idle", "read", "store"}
    /\ taken \in Values \cup {None} /\ item \in Values \cup {None}
    /\ seen_tail \in 1 .. Len(tails) /\ seen_head \in 1 .. Len(heads)
    /\ Len(tails) <= Len(heads)

\* The producer never writes the slot that the consumer is reading, however
\* old the indices they act on: neither thread takes a lock, and the element
\* is copied by plain reads and writes.
NoDataRace == ~(producer = "write" /\ consumer = "read" /\ head_ = tail_)

\* The elements from tail_ up to head_.
Held ==
    [j \in 1 .. (head_ - tail_ + size_) % size_ |-> buffer_[(tail_ + j - 1) % size_]]

\* The buffer is a FIFO queue of Size elements: nothing is lost, repeated,
\* reordered or read before it was written, although both threads may decide
\* on values of the other's index that are long out of date.
Fifo == INSTANCE BoundedFifo WITH Elem <- Values, q <- Held, Capacity <- Size
FifoSpec == Fifo!Spec
=============================================================================
