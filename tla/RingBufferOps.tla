--------------------------- MODULE RingBufferOps ---------------------------
(***************************************************************************)
(* The operations of lib/ringbuffer/RingBuffer.hpp as operators on a       *)
(* record, for the state machines that own a ring: RingBuffer (the class   *)
(* with its callers) and SRIMBQueueTopic (the message queue of a topic).   *)
(*                                                                         *)
(* A ring is [size, buf, head, tail, count]: the fields of the class       *)
(* without the underscores.  Every method of the class runs under the      *)
(* ring's own mutex, so each of them is one atomic operator here.  A ring  *)
(* without storage (_buffer == nullptr) has size 0 and the empty function  *)
(* as buf; methods that use the storage need check(rb).                    *)
(***************************************************************************)
EXTENDS Integers, Sequences

\* The rings over the elements E.
RingOf(E, size) ==
    [size : {size}, buf : [0 .. size - 1 -> E],
     head : 0 .. size - 1, tail : 0 .. size - 1, count : 0 .. size]

\* The constructor: every slot is value-initialised to zero.
NewRing(size, zero) ==
    [size  |-> size,
     buf   |-> [i \in 0 .. size - 1 |-> zero],
     head  |-> 0,
     tail  |-> 0,
     count |-> 0]

check(rb) == rb.size > 0

\* An index that runs past the array continues at its front.
Wrap(i, size) == i % size

(***************************************************************************)
(* Writing.  push overwrites the oldest element of a full ring: the tail   *)
(* moves with the head and the count stays.                                *)
(***************************************************************************)

\* Mutant: a push on a full ring that forgets to move the tail.
push_KeepsTail(rb, data) ==
    [rb EXCEPT !.buf[rb.head] = data,
               !.head  = Wrap(@ + 1, rb.size),
               !.count = IF @ = rb.size THEN @ ELSE @ + 1]

push(rb, data) ==
    [size  |-> rb.size,
     buf   |-> [rb.buf EXCEPT ![rb.head] = data],
     head  |-> Wrap(rb.head + 1, rb.size),
     tail  |-> IF rb.count = rb.size THEN Wrap(rb.tail + 1, rb.size) ELSE rb.tail,
     count |-> IF rb.count = rb.size THEN rb.count ELSE rb.count + 1]

\* How many of the oldest elements a batch of len elements evicts.
ToAdvance(rb, len) ==
    IF len > rb.size - rb.count THEN len - (rb.size - rb.count) ELSE 0

\* The storage after the two memcpys of push_batch: src[1 .. firstPart] from
\* the head to the end of the array, the rest from index 0.
CopyIn(rb, src) ==
    LET firstPart  == rb.size - rb.head
        secondPart == Len(src) - firstPart
    IN  [i \in 0 .. rb.size - 1 |->
            IF rb.head <= i /\ i < rb.head + Len(src) THEN src[i - rb.head + 1]
            ELSE IF i < secondPart THEN src[firstPart + i + 1]
            ELSE rb.buf[i]]

\* Needs Len(src) <= rb.size: a longer batch would run past the storage.
push_batch(rb, src) ==
    LET toAdvance == ToAdvance(rb, Len(src))
    IN  [rb EXCEPT !.buf   = CopyIn(rb, src),
                   !.tail  = Wrap(@ + toAdvance, rb.size),
                   !.head  = Wrap(@ + Len(src), rb.size),
                   !.count = @ - toAdvance + Len(src)]

(***************************************************************************)
(* Reading.                                                                *)
(***************************************************************************)

\* get(idx): the slot idx, whether or not it holds a live element.
get(rb, idx) == rb.buf[idx]

popped(rb) == rb.buf[rb.tail]

\* Mutant: a pop that does not wrap the tail.
pop_NoWrap(rb) == [rb EXCEPT !.tail = @ + 1, !.count = @ - 1]

pop(rb) == [rb EXCEPT !.tail = Wrap(@ + 1, rb.size), !.count = @ - 1]

ToCopy(rb, len) == IF len < rb.count THEN len ELSE rb.count

\* Mutant: the second memcpy starts one slot late.
CopyOut_SkipsFirst(rb, len) ==
    LET firstPart == rb.size - rb.tail
    IN  [j \in 1 .. ToCopy(rb, len) |->
            IF j <= firstPart THEN rb.buf[rb.tail + j - 1]
                              ELSE rb.buf[j - firstPart]]

\* What drain, drain_all and peek copy out: again two memcpys, up to the end
\* of the array and then from index 0.
CopyOut(rb, len) ==
    LET firstPart == rb.size - rb.tail
    IN  [j \in 1 .. ToCopy(rb, len) |->
            IF j <= firstPart THEN rb.buf[rb.tail + j - 1]
                              ELSE rb.buf[j - firstPart - 1]]

drain(rb, len) ==
    IF rb.count = 0 THEN rb
    ELSE [rb EXCEPT !.tail  = Wrap(@ + ToCopy(rb, len), rb.size),
                    !.count = @ - ToCopy(rb, len)]

(***************************************************************************)
(* Storage management.                                                     *)
(***************************************************************************)

reset(rb, zero) == IF check(rb) THEN NewRing(rb.size, zero) ELSE rb

\* _deallocate drops the storage and leaves head, tail and count alone.
deallocated(rb) == [rb EXCEPT !.size = 0, !.buf = << >>]

(***************************************************************************)
(* The live elements, oldest first.  Not in the code: it is what the code  *)
(* means by the ring's content.  A ring without storage holds nothing.     *)
(***************************************************************************)
SlotAt(rb, j) == Wrap(rb.tail + j, rb.size)

Contents(rb) ==
    IF check(rb) THEN [j \in 1 .. rb.count |-> rb.buf[SlotAt(rb, j - 1)]]
                 ELSE << >>
=============================================================================
