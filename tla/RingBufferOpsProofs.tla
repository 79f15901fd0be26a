------------------------ MODULE RingBufferOpsProofs ------------------------
(***************************************************************************)
(* Lemmas about the ring operations, for rings of every size.              *)
(***************************************************************************)
EXTENDS RingBufferOps, TLAPS

\* An index below the size is its own slot, one past it that of a turn less.
LEMMA WrapOnce ==
    ASSUME NEW n \in Nat \ {0}, NEW x \in 0 .. 2 * n - 1
    PROVE  Wrap(x, n) = IF x < n THEN x ELSE x - n
  <1>1. CASE x < n
    BY <1>1 DEF Wrap
  <1>2. CASE ~(x < n)
    BY <1>2 DEF Wrap
  <1>. QED  BY <1>1, <1>2

\* Every index has a slot.
LEMMA WrapRange ==
    ASSUME NEW n \in Nat \ {0}, NEW x \in Int
    PROVE  Wrap(x, n) \in 0 .. n - 1
  BY DEF Wrap

\* The arithmetic of a push into a ring of n slots with tail t and count c
\* that is not full: the head is the slot after the last element.
LEMMA PushIndices ==
    ASSUME NEW n \in Nat \ {0}, NEW t \in 0 .. n - 1, NEW c \in 0 .. n - 1
    PROVE  /\ Wrap(Wrap(t + c, n) + 1, n) = Wrap(t + (c + 1), n)
           /\ \A j \in 0 .. c - 1 : Wrap(t + j, n) # Wrap(t + c, n)
  <1>1. ASSUME NEW j \in 0 .. c - 1
        PROVE  Wrap(t + j, n) # Wrap(t + c, n)
    BY WrapOnce
  <1>2. Wrap(Wrap(t + c, n) + 1, n) = Wrap(t + (c + 1), n)
    BY WrapOnce
  <1>. QED  BY <1>1, <1>2

\* The same for a full ring, whose head is at its tail: both move on by one,
\* the slot j places after the new tail is the one j + 1 places after the old.
LEMMA PushIndicesFull ==
    ASSUME NEW n \in Nat \ {0}, NEW t \in 0 .. n - 1
    PROVE  /\ Wrap(t + n, n) = t
           /\ Wrap(Wrap(t + 1, n) + n, n) = Wrap(t + 1, n)
           /\ Wrap(Wrap(t + 1, n) + (n - 1), n) = t
           /\ \A j \in 0 .. n - 2 : /\ Wrap(Wrap(t + 1, n) + j, n) = Wrap(t + (j + 1), n)
                                    /\ Wrap(t + (j + 1), n) # t
  <1>1. Wrap(t + 1, n) = IF t + 1 < n THEN t + 1 ELSE 0
    BY WrapOnce
  <1>2. /\ Wrap(t + n, n) = t
        /\ Wrap(Wrap(t + 1, n) + n, n) = Wrap(t + 1, n)
        /\ Wrap(Wrap(t + 1, n) + (n - 1), n) = t
    BY <1>1, WrapOnce
  <1>3. ASSUME NEW j \in 0 .. n - 2
        PROVE  /\ Wrap(Wrap(t + 1, n) + j, n) = Wrap(t + (j + 1), n)
               /\ Wrap(t + (j + 1), n) # t
    BY <1>1, WrapOnce
  <1>. QED  BY <1>2, <1>3

\* The constructor makes a ring.
LEMMA NewRingType ==
    ASSUME NEW E, NEW size \in Nat \ {0}, NEW zero \in E
    PROVE  NewRing(size, zero) \in RingOf(E, size)
  BY DEF NewRing, RingOf

\* push keeps the ring a ring of the same size.
LEMMA PushType ==
    ASSUME NEW E, NEW size \in Nat \ {0}, NEW rb \in RingOf(E, size), NEW data \in E
    PROVE  push(rb, data) \in RingOf(E, size)
  <1>1. /\ Wrap(rb.head + 1, size) \in 0 .. size - 1
        /\ Wrap(rb.tail + 1, size) \in 0 .. size - 1
    <2>1. rb.head + 1 \in Int /\ rb.tail + 1 \in Int
      BY DEF RingOf
    <2>. QED  BY <2>1, WrapRange
  <1>2. [rb.buf EXCEPT ![rb.head] = data] \in [0 .. size - 1 -> E]
    BY DEF RingOf
  <1>. QED  BY <1>1, <1>2 DEF RingOf, push

\* How far a push moves the oldest element: by one if the ring was full.
Evicted(rb) == IF rb.count = rb.size THEN 1 ELSE 0

\* After a push the ring holds what it held before without the evicted
\* element, and then the pushed one; the head is again count slots after the
\* tail.
LEMMA PushContents ==
    ASSUME NEW E, NEW size \in Nat \ {0}, NEW rb \in RingOf(E, size), NEW data \in E,
           rb.head = SlotAt(rb, rb.count)
    PROVE  LET r == push(rb, data) IN
           /\ r.count = rb.count + 1 - Evicted(rb)
           /\ r.head = SlotAt(r, r.count)
           /\ r.buf[SlotAt(r, r.count - 1)] = data
           /\ \A j \in 0 .. r.count - 2 :
                 r.buf[SlotAt(r, j)] = rb.buf[SlotAt(rb, j + Evicted(rb))]
  <1>. DEFINE r == push(rb, data)
  <1>1. /\ rb.size = size
        /\ rb.head \in 0 .. size - 1
        /\ rb.tail \in 0 .. size - 1
        /\ rb.count \in 0 .. size
        /\ rb.buf \in [0 .. size - 1 -> E]
        /\ rb.head = Wrap(rb.tail + rb.count, size)
    BY DEF RingOf, SlotAt
  <1>2. /\ r.size = size
        /\ r.buf = [rb.buf EXCEPT ![rb.head] = data]
        /\ r.head = Wrap(rb.head + 1, size)
    BY <1>1 DEF push
  <1>3. \A x \in Int : Wrap(x, size) \in 0 .. size - 1
    BY WrapRange
  <1>4. r.buf[rb.head] = data
    BY <1>1, <1>2
  <1>5. \A x \in 0 .. size - 1 : x # rb.head => r.buf[x] = rb.buf[x]
    BY <1>1, <1>2
  <1>6. CASE rb.count # size
    <2>1. rb.count \in 0 .. size - 1
      BY <1>1, <1>6
    <2>2. r.tail = rb.tail /\ r.count = rb.count + 1 /\ Evicted(rb) = 0
      BY <1>1, <1>6 DEF push, Evicted
    <2>3. /\ r.head = SlotAt(r, r.count)
          /\ SlotAt(r, r.count - 1) = rb.head
      <3>1. Wrap(Wrap(rb.tail + rb.count, size) + 1, size)
               = Wrap(rb.tail + (rb.count + 1), size)
        <4>1. rb.tail \in 0 .. size - 1
          BY <1>1
        <4>. QED  BY ONLY <4>1, <2>1, size \in Nat \ {0}, PushIndices
      <3>2. r.head = SlotAt(r, r.count)
        BY <1>1, <1>2, <2>2, <3>1 DEF SlotAt
      <3>3. rb.count + 1 - 1 = rb.count
        BY <2>1
      <3>. QED  BY <1>1, <1>2, <2>2, <3>2, <3>3 DEF SlotAt
    <2>4. ASSUME NEW j \in 0 .. rb.count - 1
          PROVE  r.buf[SlotAt(r, j)] = rb.buf[SlotAt(rb, j + Evicted(rb))]
      <3>1. j + Evicted(rb) = j
        BY <2>1, <2>2
      <3>2. SlotAt(r, j) = SlotAt(rb, j) /\ SlotAt(rb, j) = Wrap(rb.tail + j, size)
        BY <1>1, <1>2, <2>2 DEF SlotAt
      <3>3. Wrap(rb.tail + j, size) \in 0 .. size - 1
        <4>1. rb.tail + j \in Int
          BY <1>1, <2>1
        <4>. QED  BY <4>1, WrapRange
      <3>4. Wrap(rb.tail + j, size) # Wrap(rb.tail + rb.count, size)
        BY <1>1, <2>1, PushIndices
      <3>. QED  BY <1>1, <1>5, <3>1, <3>2, <3>3, <3>4
    <2>5. r.count - 2 = rb.count - 1
      BY <2>1, <2>2
    <2>. QED  BY <1>4, <2>1, <2>2, <2>3, <2>4, <2>5
  <1>7. CASE rb.count = size
    <2>1. r.tail = Wrap(rb.tail + 1, size) /\ r.count = size /\ Evicted(rb) = 1
      BY <1>1, <1>7 DEF push, Evicted
    <2>2. rb.head = rb.tail
      BY <1>1, <1>7, PushIndicesFull
    <2>3. /\ r.head = SlotAt(r, r.count)
          /\ SlotAt(r, r.count - 1) = rb.head
      <3>1. /\ Wrap(Wrap(rb.tail + 1, size) + size, size) = Wrap(rb.tail + 1, size)
            /\ Wrap(Wrap(rb.tail + 1, size) + (size - 1), size) = rb.tail
        BY <1>1, PushIndicesFull
      <3>2. r.head = SlotAt(r, r.count)
        BY <1>2, <2>1, <2>2, <3>1 DEF SlotAt
      <3>. QED  BY <1>2, <2>1, <2>2, <3>1, <3>2 DEF SlotAt
    <2>4. ASSUME NEW j \in 0 .. size - 2
          PROVE  r.buf[SlotAt(r, j)] = rb.buf[SlotAt(rb, j + Evicted(rb))]
      <3>1. j + Evicted(rb) = j + 1
        BY <2>1
      <3>2. /\ SlotAt(r, j) = Wrap(Wrap(rb.tail + 1, size) + j, size)
            /\ SlotAt(rb, j + 1) = Wrap(rb.tail + (j + 1), size)
        BY <1>1, <1>2, <2>1 DEF SlotAt
      <3>3. Wrap(rb.tail + (j + 1), size) \in 0 .. size - 1
        <4>1. rb.tail + (j + 1) \in Int
          BY <1>1
        <4>. QED  BY <4>1, WrapRange
      <3>4. /\ Wrap(Wrap(rb.tail + 1, size) + j, size) = Wrap(rb.tail + (j + 1), size)
            /\ Wrap(rb.tail + (j + 1), size) # rb.tail
        <4>1. ASSUME NEW t \in 0 .. size - 1
              PROVE  /\ Wrap(Wrap(t + 1, size) + j, size) = Wrap(t + (j + 1), size)
                     /\ Wrap(t + (j + 1), size) # t
          BY PushIndicesFull
        <4>. QED  BY <1>1, <4>1
      <3>. QED  BY <1>5, <2>2, <3>1, <3>2, <3>3, <3>4
    <2>. QED  BY <1>1, <1>4, <1>7, <2>1, <2>3, <2>4
  <1>. QED  BY <1>6, <1>7
=============================================================================
