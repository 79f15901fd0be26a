---------------------------- MODULE RingBuffer ----------------------------
(***************************************************************************)
(* lib/ringbuffer/RingBuffer.hpp: the ring buffer with its callers.        *)
(*                                                                         *)
(* Any thread may call any method at any time and every method holds the   *)
(* ring's mutex from its first to its last access, so a call is one step.  *)
(* The exception is drain_all: it reads _count once more after the unlock, *)
(* to say whether it emptied the ring, and other calls fit in between.     *)
(* ret is what the last step gave back: its result and what it copied out. *)
(*                                                                         *)
(* No method tests check().  Those that read return early when _count is   *)
(* 0, with storage or without; a push, or a read while elements are        *)
(* counted, follows a null pointer and divides by 0 when there is none.    *)
(* Such a call has no next state: check(rb) is a guard of these actions,   *)
(* and so an obligation of the callers, as are batches that fit.           *)
(***************************************************************************)
EXTENDS RingBufferOps, SequencesExt

CONSTANTS
    Elem,        \* the elements callers write
    Zero,        \* the value-initialised element
    Sizes,       \* the sizes callers pass to the constructor and reallocate
    MaxLen       \* the longest array callers pass to a batch method

ASSUME SizesAssumption  == Sizes \subseteq Nat \ {0}
ASSUME MaxLenAssumption == MaxLen \in Nat \ {0}

VARIABLES
    rb,          \* the ring: [size, buf, head, tail, count]
    ret,         \* [ok, out] of the last step
    drainer      \* the caller inside drain_all after the unlock: "none", or
                 \* whether its array took every element ("all", "some")

vars == <<rb, ret, drainer>>

\* The result of a call that runs from lock to unlock.
Returns(ok, out) == ret' = [ok |-> ok, out |-> out]

\* The arrays a caller may pass to push_batch.
Batches == BoundedSeq(Elem, MaxLen)

\* The constructor ignores the result of _allocate; without storage check()
\* is false from the start.
Init ==
    /\ \E size \in Sizes \cup {0} : rb = NewRing(size, Zero)
    /\ ret = [ok |-> TRUE, out |-> << >>]
    /\ drainer = "none"

Push(data) ==
    /\ check(rb)
    /\ rb' = push(rb, data)
    /\ Returns(TRUE, << >>)
    /\ UNCHANGED drainer

\* An empty batch returns before the lock; push_batch on a batch that does
\* not fit the storage is outside the callers' contract.
PushBatch(src) ==
    /\ check(rb)
    /\ Len(src) <= rb.size
    /\ rb' = IF Len(src) = 0 THEN rb ELSE push_batch(rb, src)
    /\ Returns(TRUE, << >>)
    /\ UNCHANGED drainer

\* The reads that are defined.
Readable == rb.count = 0 \/ check(rb)

PopEmpty ==
    /\ rb.count = 0
    /\ Returns(FALSE, << >>)
    /\ UNCHANGED <<rb, drainer>>

Pop ==
    /\ check(rb)
    /\ rb.count # 0
    /\ Returns(TRUE, <<popped(rb)>>)
    /\ rb' = pop(rb)
    /\ UNCHANGED drainer

Drain(len) ==
    /\ Readable
    /\ Returns(TRUE, CopyOut(rb, len))
    /\ rb' = drain(rb, len)
    /\ UNCHANGED drainer

DrainAll(max_len) ==
    /\ Readable
    /\ drainer = "none"
    /\ IF rb.count = 0
         THEN Returns(TRUE, << >>) /\ UNCHANGED drainer
         ELSE /\ Returns(TRUE, CopyOut(rb, max_len))
              /\ drainer' = IF max_len >= rb.count THEN "all" ELSE "some"
    /\ rb' = drain(rb, max_len)

\* return _count == 0, after the unlock.
DrainAllReturns ==
    /\ drainer # "none"
    /\ drainer' = "none"
    /\ Returns(rb.count = 0, << >>)
    /\ UNCHANGED rb

Peek(len) ==
    /\ Readable
    /\ Returns(TRUE, CopyOut(rb, len))
    /\ UNCHANGED <<rb, drainer>>

Reset ==
    /\ rb' = reset(rb, Zero)
    /\ Returns(TRUE, << >>)
    /\ UNCHANGED drainer

\* reallocate: _deallocate, then _allocate.  The allocation fails for size 0
\* and whenever the heap has no room; then the ring is left without storage.
Reallocate(new_size) ==
    /\ new_size # 0
    /\ rb' = NewRing(new_size, Zero)
    /\ Returns(TRUE, << >>)
    /\ UNCHANGED drainer

ReallocateFails ==
    /\ rb' = deallocated(rb)
    /\ Returns(FALSE, << >>)
    /\ UNCHANGED drainer

Next ==
    \/ \E data \in Elem : Push(data)
    \/ \E src \in Batches : PushBatch(src)
    \/ PopEmpty
    \/ Pop
    \/ \E len \in 0 .. MaxLen : Drain(len) \/ DrainAll(len) \/ Peek(len)
    \/ DrainAllReturns
    \/ Reset
    \/ \E size \in Sizes : Reallocate(size)
    \/ ReallocateFails

Spec == Init /\ [][Next]_vars
-----------------------------------------------------------------------------
(***************************************************************************)
(* Properties.                                                             *)
(***************************************************************************)

\* Type invariant.  Without storage the indices keep whatever value they had.
TypeOK ==
    /\ IF check(rb)
         THEN \E size \in Sizes : rb \in RingOf(Elem \cup {Zero}, size)
         ELSE /\ rb.size = 0 /\ rb.buf = << >>
              /\ {rb.head, rb.tail, rb.count} \subseteq Nat
    /\ ret.ok \in BOOLEAN
    /\ ret.out \in Seq(Elem)
    /\ drainer \in {"none", "all", "some"}

\* The three counters of the ring agree: the next slot to write is count
\* slots after the next slot to read.  push, the batch writes and the drains
\* keep head, tail and count by separate modular updates, and a full ring and
\* an empty one differ in the count alone.
IndicesAgree == check(rb) => rb.head = SlotAt(rb, rb.count)

\* Between calls the ring behaves as a bounded FIFO queue that drops its
\* oldest elements: nothing is reordered, duplicated, or read from a slot
\* that was never written, across every wrap of head and tail.
Queue == INSTANCE OverwritingQueue WITH q <- Contents(rb), cap <- rb.size
QueueSpec == Queue!Spec

\* RingBuffer.hpp:20 says that _count counts the elements in the buffer, and
\* the reads rely on it to touch the storage only if there are any.
CountsElements == rb.count = Len(Contents(rb))

\* RingBuffer.hpp:201-202 says that drain_all returns false when the caller's
\* array is too short for the content and true otherwise.
DrainAllTellsTruncation ==
    [][drainer # "none" /\ drainer' = "none" => (ret'.ok <=> drainer = "all")]_vars
=============================================================================
