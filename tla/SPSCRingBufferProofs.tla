------------------------ MODULE SPSCRingBufferProofs ------------------------
(***************************************************************************)
(* The lock-free ring buffer for every size, any elements, and any number  *)
(* of pushes and pops: no data race, and a bounded FIFO queue.             *)
(***************************************************************************)
EXTENDS SPSCRingBuffer, RingBufferOpsProofs

\* The number of values the indices took.  Their difference is the number of
\* elements in the buffer.
Pushes == Len(heads)
Pops   == Len(tails)

\* Values that the indices took at most Size steps apart tell by how many
\* steps.  This is what an old value is still good for.
Distances ==
    \A j \in DOMAIN heads, k \in DOMAIN tails :
        k <= j /\ j <= k + Size => heads[j] = Wrap(tails[k] + (j - k), size_)

\* What the threads have read is new enough: no index is more than Size steps
\* past, or one behind, the value of the other that its writer acted on.
Views ==
    /\ Pushes <= Pops + Size
    /\ Pushes <= seen_tail + Size
    /\ producer # "idle" => Pushes < seen_tail + Size
    /\ Pops <= seen_head
    /\ consumer # "idle" => Pops < seen_head

\* The slots that the threads are at.
Slots ==
    /\ producer # "idle" => pushing \in Values
    /\ producer = "store" => buffer_[head_] = pushing
    /\ consumer = "store" => taken = buffer_[tail_]

Inv == SpscTypeOK /\ Distances /\ Views /\ Slots

-----------------------------------------------------------------------------
\* The slot one step after that c steps after t, and c steps after that one
\* step after t.
LEMMA OneFurther ==
    ASSUME NEW n \in Nat \ {0}, NEW t \in 0 .. n - 1, NEW c \in 0 .. n - 1
    PROVE  /\ Wrap(Wrap(t + c, n) + 1, n) = Wrap(t + (c + 1), n)
           /\ Wrap(Wrap(t + 1, n) + c, n) = Wrap(t + (c + 1), n)
<1>1. Wrap(t + c, n) = IF t + c < n THEN t + c ELSE t + c - n
  BY WrapOnce
<1>2. Wrap(t + 1, n) = IF t + 1 < n THEN t + 1 ELSE t + 1 - n
  BY WrapOnce
<1>3. Wrap(t + (c + 1), n) = IF t + (c + 1) < n THEN t + (c + 1) ELSE t + (c + 1) - n
  BY WrapOnce
<1>4. Wrap(0, n) = 0
  BY WrapOnce
<1> QED
  BY <1>1, <1>2, <1>3, <1>4, WrapOnce

\* Less than n steps lead to different slots, and tell how many they were.
LEMMA StepsApart ==
    ASSUME NEW n \in Nat \ {0}, NEW t \in 0 .. n - 1,
           NEW c \in 0 .. n - 1, NEW d \in 0 .. n - 1, c # d
    PROVE  Wrap(t + c, n) # Wrap(t + d, n)
BY WrapOnce

\* How many steps lie between two slots, as Held computes it.
LEMMA StepsBetween ==
    ASSUME NEW n \in Nat \ {0}, NEW t \in 0 .. n - 1, NEW c \in 0 .. n - 1
    PROVE  Wrap(Wrap(t + c, n) - t + n, n) = c
<1>1. Wrap(t + c, n) = IF t + c < n THEN t + c ELSE t + c - n
  BY WrapOnce
<1>2. Wrap(t + c, n) - t + n = IF t + c < n THEN c + n ELSE c
  BY <1>1
<1> QED
  BY <1>2, WrapOnce

-----------------------------------------------------------------------------
\* The indices are slots, After steps from one to the next.
LEMMA IndexTypes ==
    ASSUME SpscTypeOK
    PROVE  /\ size_ \in Nat \ {0} /\ size_ = Size + 1 /\ Size \in Nat
           /\ Pushes \in Nat \ {0} /\ Pops \in Nat \ {0}
           /\ head_ \in 0 .. size_ - 1 /\ tail_ \in 0 .. size_ - 1
           /\ After(head_) \in 0 .. size_ - 1 /\ After(tail_) \in 0 .. size_ - 1
<1>1. size_ \in Nat \ {0} /\ size_ = Size + 1 /\ Size \in Nat
  BY SizeAssumption DEF size_
<1>2. Pushes \in Nat \ {0} /\ Pops \in Nat \ {0}
  BY DEF SpscTypeOK, Pushes, Pops
<1>3. head_ \in 0 .. size_ - 1 /\ tail_ \in 0 .. size_ - 1
  BY <1>1, <1>2 DEF SpscTypeOK, Pushes, Pops, head_, tail_
<1>4. ASSUME NEW i \in 0 .. size_ - 1
      PROVE  After(i) \in 0 .. size_ - 1
  BY <1>1, WrapRange DEF After, Wrap
<1> QED
  BY <1>1, <1>2, <1>3, <1>4

\* Where the newest head is, seen from an old tail that is not too old.
LEMMA HeadFromTail ==
    ASSUME SpscTypeOK, Distances, NEW k \in DOMAIN tails,
           k <= Pushes, Pushes <= k + Size
    PROVE  /\ tails[k] \in 0 .. size_ - 1
           /\ head_ = Wrap(tails[k] + (Pushes - k), size_)
<1>1. Pushes \in DOMAIN heads
  BY IndexTypes DEF SpscTypeOK, Pushes
<1>2. head_ = heads[Pushes]
  BY DEF head_, Pushes
<1>3. k \in Nat /\ tails[k] \in 0 .. size_ - 1
  <2>1. tails \in Seq(0 .. size_ - 1) /\ size_ \in Nat
    BY IndexTypes DEF SpscTypeOK
  <2> QED
    BY <2>1
<1>4. heads[Pushes] = Wrap(tails[k] + (Pushes - k), size_)
  BY <1>1 DEF Distances
<1> QED
  BY <1>2, <1>3, <1>4

\* Where an old head is, seen from the newest tail.
LEMMA TailToHead ==
    ASSUME SpscTypeOK, Distances, NEW j \in DOMAIN heads,
           Pops <= j, j <= Pops + Size
    PROVE  heads[j] = Wrap(tail_ + (j - Pops), size_)
<1>1. Pops \in DOMAIN tails
  BY IndexTypes DEF SpscTypeOK, Pops
<1>2. tail_ = tails[Pops]
  BY DEF tail_, Pops
<1> QED
  BY <1>1, <1>2 DEF SpscTypeOK, Distances
-----------------------------------------------------------------------------
\* A push that begins found the buffer not full, however old the tail it read.
LEMMA NotFull ==
    ASSUME SpscTypeOK, Distances, Views, NEW k \in seen_tail .. Pops,
           After(head_) # tails[k]
    PROVE  Pushes < k + Size
<1>1. /\ k \in DOMAIN tails /\ k \in Nat /\ Pops <= Pushes /\ seen_tail \in Nat
      /\ Size \in Nat /\ Pushes \in Nat /\ Pops \in Nat /\ size_ = Size + 1
  BY IndexTypes DEF SpscTypeOK, Pops, Pushes
<1>2. k <= Pushes /\ Pushes <= k + Size
  BY <1>1 DEF Views
<1>3. tails[k] \in 0 .. size_ - 1 /\ head_ = Wrap(tails[k] + (Pushes - k), size_)
  BY <1>1, <1>2, HeadFromTail
<1>4. SUFFICES ASSUME Pushes - k = Size PROVE FALSE
  BY <1>1, <1>2
<1>5. Wrap(Wrap(tails[k] + Size, size_) + 1, size_) = Wrap(tails[k] + (Size + 1), size_)
  BY <1>1, <1>3, OneFurther
<1>6. Wrap(tails[k] + (Size + 1), size_) = tails[k]
  BY <1>1, <1>3, WrapOnce
<1> QED
  BY <1>3, <1>4, <1>5, <1>6 DEF After, Wrap

\* A pop that begins found an element, however old the head it read.
LEMMA NotEmpty ==
    ASSUME SpscTypeOK, Distances, Views, NEW j \in seen_head .. Pushes,
           tail_ # heads[j]
    PROVE  Pops < j
<1>1. /\ j \in DOMAIN heads /\ j \in Nat /\ seen_head \in Nat
      /\ Size \in Nat /\ Pushes \in Nat /\ Pops \in Nat
      /\ size_ = Size + 1 /\ tail_ \in 0 .. size_ - 1
  BY IndexTypes DEF SpscTypeOK, Pushes
<1>2. Pops <= j /\ j <= Pops + Size
  BY <1>1 DEF Views
<1>3. heads[j] = Wrap(tail_ + (j - Pops), size_)
  BY <1>1, <1>2, TailToHead
<1>4. SUFFICES ASSUME j = Pops PROVE FALSE
  BY <1>1, <1>2
<1>5. heads[j] = Wrap(tail_ + 0, size_)
  BY <1>1, <1>3, <1>4
<1> QED
  BY <1>1, <1>5, WrapOnce

\* While the buffer holds elements, also when it is full, head and tail differ:
\* the purpose of the slot that stays free.
LEMMA IndicesDiffer ==
    ASSUME SpscTypeOK, Distances, Pops < Pushes, Pushes <= Pops + Size
    PROVE  head_ # tail_
<1>1. /\ Size \in Nat /\ Pushes \in Nat \ {0} /\ Pops \in Nat \ {0} /\ size_ = Size + 1
      /\ tail_ \in 0 .. size_ - 1 /\ Pushes \in DOMAIN heads
      /\ head_ = heads[Pushes]
  BY IndexTypes DEF SpscTypeOK, Pushes, head_
<1>2. head_ = Wrap(tail_ + (Pushes - Pops), size_)
  BY <1>1, TailToHead
<1>3. Wrap(tail_ + (Pushes - Pops), size_) # Wrap(tail_ + 0, size_)
  <2>1. /\ Pushes - Pops \in 0 .. size_ - 1 /\ 0 \in 0 .. size_ - 1
        /\ Pushes - Pops # 0 /\ size_ \in Nat \ {0}
    BY <1>1
  <2> QED
    BY <1>1, <2>1, StepsApart
<1> QED
  BY <1>1, <1>2, <1>3, WrapOnce

-----------------------------------------------------------------------------
\* The new index keeps its distance from the other's values.
LEMMA HeadMoves ==
    ASSUME Inv, PushStores
    PROVE  Distances'
<1>1. /\ heads' = Append(heads, After(head_)) /\ tails' = tails
      /\ heads \in Seq(0 .. size_ - 1) /\ After(head_) \in 0 .. size_ - 1
      /\ Size \in Nat /\ Pushes \in Nat \ {0} /\ size_ = Size + 1 /\ Pops <= Pushes
      /\ head_ \in 0 .. size_ - 1
  BY IndexTypes DEF PushStores, Inv, SpscTypeOK, Pushes, Pops
<1>2. /\ Len(heads') = Pushes + 1
      /\ \A j \in 1 .. Pushes : heads'[j] = heads[j]
      /\ heads'[Pushes + 1] = After(head_)
      /\ DOMAIN heads' = 1 .. Pushes + 1 /\ DOMAIN heads = 1 .. Pushes
  BY <1>1 DEF Pushes
<1>3. DOMAIN tails = 1 .. Pops /\ Pops \in Nat /\ \A k \in 1 .. Pops : tails[k] \in 0 .. size_ - 1
  <2>1. tails \in Seq(0 .. size_ - 1) /\ size_ \in Nat
    BY IndexTypes DEF Inv, SpscTypeOK
  <2> QED
    BY <2>1 DEF Pops
<1>4. SUFFICES ASSUME NEW j \in 1 .. Pushes + 1, NEW k \in 1 .. Pops,
                      k <= j, j <= k + Size
               PROVE  heads'[j] = Wrap(tails[k] + (j - k), size_)
  BY <1>1, <1>2, <1>3 DEF Distances, size_
<1>5. CASE j <= Pushes
  <2>1. j \in DOMAIN heads /\ k \in DOMAIN tails
    BY <1>1, <1>2, <1>3, <1>5
  <2> QED
    BY <1>1, <1>2, <1>4, <1>5, <2>1 DEF Inv, Distances
<1>6. CASE j = Pushes + 1
  <2>1. k <= Pushes /\ Pushes <= k + Size /\ k \in DOMAIN tails /\ tails[k] \in 0 .. size_ - 1
    BY <1>1, <1>3, <1>4, <1>6
  <2>2. head_ = Wrap(tails[k] + (Pushes - k), size_)
    BY <2>1, HeadFromTail DEF Inv
  <2>3. Pushes - k \in 0 .. size_ - 1 /\ size_ \in Nat \ {0}
    BY <1>1, <1>3, <1>4, <1>6, <2>1
  <2>4. Wrap(head_ + 1, size_) = Wrap(tails[k] + ((Pushes - k) + 1), size_)
    BY <2>1, <2>2, <2>3, OneFurther
  <2>5. (Pushes - k) + 1 = j - k
    BY <1>1, <1>3, <1>6
  <2> QED
    BY <1>2, <1>6, <2>4, <2>5 DEF After, Wrap
<1>7. j <= Pushes \/ j = Pushes + 1
  BY <1>1, <1>4
<1> QED
  BY <1>5, <1>6, <1>7

\* The same for the tail: the values of the head from its own newest on.
LEMMA TailMoves ==
    ASSUME Inv, PopStores
    PROVE  Distances'
<1>1. /\ tails' = Append(tails, After(tail_)) /\ heads' = heads
      /\ tails \in Seq(0 .. size_ - 1) /\ After(tail_) \in 0 .. size_ - 1
      /\ Size \in Nat /\ Pops \in Nat \ {0} /\ size_ = Size + 1
      /\ tail_ \in 0 .. size_ - 1 /\ Pushes \in Nat /\ Pushes <= Pops + Size
  BY IndexTypes DEF PopStores, Inv, SpscTypeOK, Pops, Views
<1>2. /\ Len(tails') = Pops + 1
      /\ \A k \in 1 .. Pops : tails'[k] = tails[k]
      /\ tails'[Pops + 1] = After(tail_)
      /\ DOMAIN tails' = 1 .. Pops + 1 /\ DOMAIN tails = 1 .. Pops
  BY <1>1 DEF Pops
<1>3. DOMAIN heads = 1 .. Pushes
  BY DEF Inv, SpscTypeOK, Pushes
<1>4. SUFFICES ASSUME NEW j \in 1 .. Pushes, NEW k \in 1 .. Pops + 1,
                      k <= j, j <= k + Size
               PROVE  heads[j] = Wrap(tails'[k] + (j - k), size_)
  BY <1>1, <1>2, <1>3 DEF Distances, size_
<1>5. CASE k <= Pops
  <2>1. j \in DOMAIN heads /\ k \in DOMAIN tails
    BY <1>1, <1>2, <1>3, <1>5
  <2> QED
    BY <1>1, <1>2, <1>4, <1>5, <2>1 DEF Inv, Distances
<1>6. CASE k = Pops + 1
  <2>1. Pops <= j /\ j <= Pops + Size /\ j \in DOMAIN heads
    BY <1>1, <1>3, <1>4, <1>6
  <2>2. heads[j] = Wrap(tail_ + (j - Pops), size_)
    BY <2>1, TailToHead DEF Inv
  <2>3. j - k \in 0 .. size_ - 1 /\ (j - k) + 1 = j - Pops /\ size_ \in Nat \ {0}
    BY <1>1, <1>4, <1>6, <2>1
  <2>4. Wrap(Wrap(tail_ + 1, size_) + (j - k), size_) = Wrap(tail_ + ((j - k) + 1), size_)
    BY <1>1, <2>3, OneFurther
  <2> QED
    BY <1>2, <1>6, <2>2, <2>3, <2>4 DEF After, Wrap
<1>7. k <= Pops \/ k = Pops + 1
  BY <1>1, <1>4
<1> QED
  BY <1>5, <1>6, <1>7
-----------------------------------------------------------------------------
\* The empty buffer.
LEMMA InvInit == SpscInit => Inv
<1> SUFFICES ASSUME SpscInit PROVE Inv
  OBVIOUS
<1>1. size_ \in Nat \ {0} /\ Size \in Nat
  BY SizeAssumption DEF size_
<1>2. SpscTypeOK
  BY <1>1 DEF SpscInit, SpscTypeOK
<1>3. Distances
  <2>1. DOMAIN heads = {1} /\ DOMAIN tails = {1} /\ heads[1] = 0 /\ tails[1] = 0
    BY DEF SpscInit
  <2>2. Wrap(0, size_) = 0
    BY <1>1, WrapOnce
  <2> QED
    BY <2>1, <2>2 DEF Distances
<1> QED
  BY <1>1, <1>2, <1>3 DEF SpscInit, Inv, Views, Slots, Pushes, Pops

\* An index takes one more value, the next slot.
LEMMA HeadStored ==
    ASSUME SpscTypeOK, PushStores
    PROVE  /\ heads' \in Seq(0 .. size_ - 1) /\ Pushes' = Pushes + 1 /\ Pops' = Pops
           /\ head_' = After(head_) /\ tail_' = tail_
<1>1. /\ heads' = Append(heads, After(head_)) /\ tails' = tails
      /\ heads \in Seq(0 .. size_ - 1) /\ After(head_) \in 0 .. size_ - 1
      /\ size_ \in Nat
  BY IndexTypes DEF PushStores, SpscTypeOK
<1>2. heads' \in Seq(0 .. size_ - 1) /\ Len(heads') = Len(heads) + 1
  BY <1>1
<1>3. heads'[Len(heads')] = After(head_)
  BY <1>1, <1>2
<1> QED
  BY <1>1, <1>2, <1>3 DEF Pushes, Pops, head_, tail_

\* The same for the tail.
LEMMA TailStored ==
    ASSUME SpscTypeOK, PopStores
    PROVE  /\ tails' \in Seq(0 .. size_ - 1) /\ Pops' = Pops + 1 /\ Pushes' = Pushes
           /\ tail_' = After(tail_) /\ head_' = head_
<1>1. /\ tails' = Append(tails, After(tail_)) /\ heads' = heads
      /\ tails \in Seq(0 .. size_ - 1) /\ After(tail_) \in 0 .. size_ - 1
      /\ size_ \in Nat
  BY IndexTypes DEF PopStores, SpscTypeOK
<1>2. tails' \in Seq(0 .. size_ - 1) /\ Len(tails') = Len(tails) + 1
  BY <1>1
<1>3. tails'[Len(tails')] = After(tail_)
  BY <1>1, <1>2
<1> QED
  BY <1>1, <1>2, <1>3 DEF Pushes, Pops, head_, tail_

\* What a push that looks at the tail may conclude, however old what it sees.
LEMMA TailSeen ==
    ASSUME Inv
    PROVE  /\ PushFull => seen_tail' \in 1 .. Pops /\ Pushes <= seen_tail' + Size
           /\ \A d \in Values : PushBegins(d) =>
                  /\ seen_tail' \in 1 .. Pops /\ Pushes <= seen_tail' + Size
                  /\ Pushes < seen_tail' + Size
<1>1. /\ seen_tail \in 1 .. Pops /\ Pushes <= seen_tail + Size
      /\ Pops \in Nat /\ Pushes \in Nat /\ Size \in Nat
  BY IndexTypes DEF Inv, SpscTypeOK, Views, Pops
<1>2. ASSUME NEW k \in seen_tail .. Pops, seen_tail' = k
      PROVE  seen_tail' \in 1 .. Pops /\ Pushes <= seen_tail' + Size
  BY <1>1, <1>2
<1>3. ASSUME NEW k \in seen_tail .. Pops, seen_tail' = k, After(head_) # tails[k]
      PROVE  Pushes < seen_tail' + Size
  BY <1>3, NotFull DEF Inv
<1>4. PushFull => \E k \in seen_tail .. Pops : seen_tail' = k
  BY DEF PushFull, Pops
<1>5. ASSUME NEW d \in Values, PushBegins(d)
      PROVE  \E k \in seen_tail .. Pops : After(head_) # tails[k] /\ seen_tail' = k
  BY <1>5 DEF PushBegins, Pops
<1> QED
  BY <1>2, <1>3, <1>4, <1>5

\* The same for a pop and the head.
LEMMA HeadSeen ==
    ASSUME Inv
    PROVE  /\ PopNothing => seen_head' \in 1 .. Pushes /\ Pops <= seen_head'
           /\ PopBegins => seen_head' \in 1 .. Pushes /\ Pops < seen_head'
<1>1. /\ seen_head \in 1 .. Pushes /\ Pops <= seen_head
      /\ Pops \in Nat /\ Pushes \in Nat
  BY IndexTypes DEF Inv, SpscTypeOK, Views, Pushes
<1>2. ASSUME NEW k \in seen_head .. Pushes, seen_head' = k
      PROVE  seen_head' \in 1 .. Pushes /\ Pops <= seen_head'
  BY <1>1, <1>2
<1>3. ASSUME NEW k \in seen_head .. Pushes, seen_head' = k, tail_ # heads[k]
      PROVE  Pops < seen_head'
  BY <1>3, NotEmpty DEF Inv
<1>4. PopNothing => \E k \in seen_head .. Pushes : seen_head' = k
  BY DEF PopNothing, Pushes
<1>5. PopBegins => \E k \in seen_head .. Pushes : tail_ # heads[k] /\ seen_head' = k
  BY DEF PopBegins, Pushes
<1> QED
  BY <1>2, <1>3, <1>4, <1>5

\* Steps that move no index keep all but what they say they change.
LEMMA InvNext == Inv /\ [SpscNext]_spscVars => Inv'
<1> SUFFICES ASSUME Inv, [SpscNext]_spscVars PROVE Inv'
  OBVIOUS
<1> USE DEF producerVars, consumerVars
<1>a. /\ SpscTypeOK /\ Distances /\ Views /\ Slots
      /\ Pushes \in Nat \ {0} /\ Pops \in Nat \ {0} /\ Size \in Nat
      /\ size_ = Size + 1 /\ head_ \in 0 .. size_ - 1 /\ tail_ \in 0 .. size_ - 1
  BY IndexTypes DEF Inv
<1>b. ASSUME UNCHANGED <<heads, tails>>
      PROVE  /\ Distances' /\ Pushes' = Pushes /\ Pops' = Pops
             /\ head_' = head_ /\ tail_' = tail_
  BY <1>a, <1>b DEF Distances, Pushes, Pops, head_, tail_
<1>1. CASE PushFull
  <2>1. /\ UNCHANGED <<heads, tails, buffer_, producer, pushing, consumerVars>>
        /\ producer = "idle"
    BY <1>1 DEF PushFull
  <2>2. seen_tail' \in 1 .. Pops /\ Pushes <= seen_tail' + Size
    BY <1>1, TailSeen
  <2>3. SpscTypeOK'
    BY <1>a, <2>1, <2>2 DEF SpscTypeOK, Pops
  <2>4. Views'
    BY <1>a, <1>b, <2>1, <2>2 DEF Views
  <2>5. Slots'
    BY <1>a, <1>b, <2>1 DEF Slots
  <2> QED
    BY <1>b, <2>1, <2>3, <2>4, <2>5 DEF Inv
<1>2. ASSUME NEW d \in Values, PushBegins(d) PROVE Inv'
  <2>1. /\ UNCHANGED <<heads, tails, buffer_, consumerVars>>
        /\ producer' = "write" /\ pushing' = d
    BY <1>2 DEF PushBegins
  <2>2. /\ seen_tail' \in 1 .. Pops /\ Pushes <= seen_tail' + Size
        /\ Pushes < seen_tail' + Size
    BY <1>2, TailSeen
  <2>3. SpscTypeOK'
    BY <1>a, <2>1, <2>2 DEF SpscTypeOK, Pops
  <2>4. Views'
    <3>1. /\ Pushes <= Pops + Size /\ Pops <= seen_head
          /\ consumer # "idle" => Pops < seen_head
      BY <1>a DEF Views
    <3>2. consumer' = consumer /\ seen_head' = seen_head
      BY <2>1
    <3> QED
      BY <1>b, <2>1, <2>2, <3>1, <3>2 DEF Views
  <2>5. Slots'
    BY <1>a, <1>b, <1>2, <2>1 DEF Slots
  <2> QED
    BY <1>b, <2>1, <2>3, <2>4, <2>5 DEF Inv
<1>3. CASE PushWrites
  <2>1. /\ UNCHANGED <<heads, tails, pushing, seen_tail, consumerVars>>
        /\ producer = "write" /\ producer' = "store"
        /\ buffer_' = [buffer_ EXCEPT ![head_] = pushing]
    BY <1>3 DEF PushWrites
  <2>2. buffer_ \in [0 .. size_ - 1 -> Values \cup {None}]
    BY <1>a DEF SpscTypeOK
  <2>3. buffer_'[head_] = pushing /\ \A i \in 0 .. size_ - 1 : i # head_ => buffer_'[i] = buffer_[i]
    BY <1>a, <2>1, <2>2
  <2>4. SpscTypeOK'
    BY <1>a, <2>1 DEF SpscTypeOK
  <2>5. Views'
    BY <1>a, <1>b, <2>1 DEF Views
  <2>6. consumer = "store" => head_ # tail_
    <3>1. consumer = "store" => Pops < Pushes /\ Pushes <= Pops + Size
      BY <1>a DEF Views, SpscTypeOK, Pushes
    <3> QED
      BY <1>a, <3>1, IndicesDiffer
  <2>7. Slots'
    BY <1>a, <1>b, <2>1, <2>3, <2>6 DEF Slots
  <2> QED
    BY <1>b, <2>1, <2>4, <2>5, <2>7 DEF Inv
<1>4. CASE PushStores
  <2>1. /\ UNCHANGED <<tails, buffer_, pushing, seen_tail, consumerVars>>
        /\ producer = "store" /\ producer' = "idle"
    BY <1>4 DEF PushStores
  <2>2. /\ heads' \in Seq(0 .. size_ - 1) /\ Pushes' = Pushes + 1 /\ Pops' = Pops
        /\ tail_' = tail_
    BY <1>a, <1>4, HeadStored
  <2>3. seen_tail \in 1 .. Pops /\ seen_head \in 1 .. Pushes /\ Pops <= Pushes
    BY <1>a DEF SpscTypeOK, Pushes, Pops
  <2>4. seen_head' \in 1 .. Pushes' /\ Pops' <= Pushes'
    BY <1>a, <2>1, <2>2, <2>3
  <2>5. SpscTypeOK'
    BY <1>a, <2>1, <2>2, <2>4 DEF SpscTypeOK, Pushes, Pops
  <2>6. Views'
    BY <1>a, <2>1, <2>2, <2>3 DEF Views
  <2>7. Slots'
    BY <1>a, <2>1, <2>2 DEF Slots
  <2>8. Distances'
    BY <1>4, HeadMoves
  <2> QED
    BY <2>5, <2>6, <2>7, <2>8 DEF Inv
<1>5. CASE PopNothing
  <2>1. /\ UNCHANGED <<heads, tails, buffer_, producerVars, consumer, taken, item>>
        /\ consumer = "idle"
    BY <1>5 DEF PopNothing
  <2>2. seen_head' \in 1 .. Pushes /\ Pops <= seen_head'
    BY <1>5, HeadSeen
  <2>3. SpscTypeOK'
    BY <1>a, <2>1, <2>2 DEF SpscTypeOK, Pushes
  <2>4. Views'
    BY <1>a, <1>b, <2>1, <2>2 DEF Views
  <2>5. Slots'
    BY <1>a, <1>b, <2>1 DEF Slots
  <2> QED
    BY <1>b, <2>1, <2>3, <2>4, <2>5 DEF Inv
<1>6. CASE PopBegins
  <2>1. /\ UNCHANGED <<heads, tails, buffer_, producerVars, taken, item>>
        /\ consumer' = "read"
    BY <1>6 DEF PopBegins
  <2>2. seen_head' \in 1 .. Pushes /\ Pops < seen_head'
    BY <1>6, HeadSeen
  <2>3. SpscTypeOK'
    BY <1>a, <2>1, <2>2 DEF SpscTypeOK, Pushes
  <2>4. Views'
    BY <1>a, <1>b, <2>1, <2>2 DEF Views
  <2>5. Slots'
    BY <1>a, <1>b, <2>1 DEF Slots
  <2> QED
    BY <1>b, <2>1, <2>3, <2>4, <2>5 DEF Inv
<1>7. CASE PopReads
  <2>1. /\ UNCHANGED <<heads, tails, buffer_, producerVars, seen_head, item>>
        /\ consumer = "read" /\ consumer' = "store" /\ taken' = buffer_[tail_]
    BY <1>7 DEF PopReads
  <2>2. taken' \in Values \cup {None}
    BY <1>a, <2>1 DEF SpscTypeOK
  <2>3. SpscTypeOK'
    BY <1>a, <2>1, <2>2 DEF SpscTypeOK
  <2>4. Views'
    BY <1>a, <1>b, <2>1 DEF Views
  <2>5. Slots'
    BY <1>a, <1>b, <2>1 DEF Slots
  <2> QED
    BY <1>b, <2>1, <2>3, <2>4, <2>5 DEF Inv
<1>8. CASE PopStores
  <2>1. /\ UNCHANGED <<heads, buffer_, producerVars, taken, seen_head>>
        /\ consumer = "store" /\ consumer' = "idle" /\ item' = taken
    BY <1>8 DEF PopStores
  <2>2. /\ tails' \in Seq(0 .. size_ - 1) /\ Pops' = Pops + 1 /\ Pushes' = Pushes
        /\ head_' = head_
    BY <1>a, <1>8, TailStored
  <2>3. seen_tail \in 1 .. Pops /\ seen_head \in 1 .. Pushes /\ Pops < seen_head
    BY <1>a, <2>1 DEF SpscTypeOK, Pushes, Pops, Views
  <2>4. seen_tail' \in 1 .. Pops' /\ Pops' <= Pushes'
    BY <1>a, <2>1, <2>2, <2>3
  <2>5. SpscTypeOK'
    BY <1>a, <2>1, <2>2, <2>4 DEF SpscTypeOK, Pushes, Pops
  <2>6. Views'
    BY <1>a, <2>1, <2>2, <2>3 DEF Views
  <2>7. Slots'
    BY <1>a, <2>1, <2>2 DEF Slots
  <2>8. Distances'
    BY <1>8, TailMoves
  <2> QED
    BY <2>5, <2>6, <2>7, <2>8 DEF Inv
<1>9. CASE UNCHANGED spscVars
  <2>1. UNCHANGED <<heads, tails, buffer_, producerVars, consumerVars>>
    BY <1>9 DEF spscVars
  <2>2. SpscTypeOK'
    BY <1>a, <2>1 DEF SpscTypeOK
  <2>3. Views' /\ Slots'
    BY <1>a, <1>b, <2>1 DEF Views, Slots
  <2> QED
    BY <1>b, <2>1, <2>2, <2>3 DEF Inv
<1> QED
  BY <1>1, <1>2, <1>3, <1>4, <1>5, <1>6, <1>7, <1>8, <1>9 DEF SpscNext

\* The invariant, for every size.
THEOREM Invariance == SpscSpec => []Inv
<1>1. Inv /\ [SpscNext]_spscVars => Inv'
  BY InvNext
<1> QED
  BY InvInit, <1>1, PTL DEF SpscSpec
\* Type correctness, for every size.
THEOREM SpscTypeCorrect == SpscSpec => []SpscTypeOK
<1>1. Inv => SpscTypeOK
  BY DEF Inv
<1> QED
  BY Invariance, <1>1, PTL

\* The threads are never at one slot (SPSCRingBuffer.hpp:34, 47): however old
\* the indices they act on, for every size and any number of pushes.
THEOREM NoRace == SpscSpec => []NoDataRace
<1>1. Inv => NoDataRace
  <2> SUFFICES ASSUME Inv, producer = "write", consumer = "read"
               PROVE  head_ # tail_
    BY DEF NoDataRace
  <2>1. /\ Pops < seen_head /\ seen_head \in 1 .. Pushes /\ Pushes <= Pops + Size
        /\ Pops \in Nat /\ Pushes \in Nat
    BY IndexTypes DEF Inv, Views, SpscTypeOK, Pushes
  <2>2. Pops < Pushes
    BY <2>1
  <2> QED
    BY <2>1, <2>2, IndicesDiffer DEF Inv
<1> QED
  BY Invariance, <1>1, PTL

-----------------------------------------------------------------------------
\* What the buffer holds: as many elements as there were more pushes than pops,
\* from the tail on.
LEMMA HeldElements ==
    ASSUME SpscTypeOK, Distances, Views
    PROVE  Held = [i \in 1 .. Pushes - Pops |-> buffer_[Wrap(tail_ + (i - 1), size_)]]
<1>1. /\ Size \in Nat /\ Pushes \in Nat \ {0} /\ Pops \in Nat \ {0} /\ size_ = Size + 1
      /\ tail_ \in 0 .. size_ - 1 /\ Pushes \in DOMAIN heads /\ head_ = heads[Pushes]
      /\ Pops <= Pushes /\ Pushes <= Pops + Size
  BY IndexTypes DEF SpscTypeOK, Pushes, Pops, head_, Views
<1>2. head_ = Wrap(tail_ + (Pushes - Pops), size_)
  BY <1>1, TailToHead
<1>3. size_ \in Nat \ {0} /\ Pushes - Pops \in 0 .. size_ - 1
  BY <1>1
<1>4. Wrap(head_ - tail_ + size_, size_) = Pushes - Pops
  BY <1>1, <1>2, <1>3, StepsBetween
<1>5. \A i \in Int : tail_ + i - 1 = tail_ + (i - 1)
  BY <1>1
<1> QED
  BY <1>3, <1>4, <1>5 DEF Held, Wrap

\* Held as a sequence.
Content ==
    /\ Held \in Seq(Values \cup {None})
    /\ Len(Held) = Pushes - Pops
    /\ Pushes - Pops \in 0 .. Size
    /\ \A i \in 1 .. Pushes - Pops : Held[i] = buffer_[Wrap(tail_ + (i - 1), size_)]

\* The invariant tells what it is.
LEMMA HeldContent == Inv => Content
<1> SUFFICES ASSUME Inv PROVE Content
  OBVIOUS
<1>1. /\ Size \in Nat /\ Pushes \in Nat \ {0} /\ Pops \in Nat \ {0} /\ size_ = Size + 1
      /\ tail_ \in 0 .. size_ - 1 /\ Pops <= Pushes /\ Pushes <= Pops + Size
  BY IndexTypes DEF Inv, SpscTypeOK, Views, Pushes, Pops
<1>2. Held = [i \in 1 .. Pushes - Pops |-> buffer_[Wrap(tail_ + (i - 1), size_)]]
  BY HeldElements DEF Inv
<1>3. Pushes - Pops \in Nat /\ size_ \in Nat \ {0}
  BY <1>1
<1>4. ASSUME NEW i \in 1 .. Pushes - Pops
      PROVE  buffer_[Wrap(tail_ + (i - 1), size_)] \in Values \cup {None}
  <2>1. Wrap(tail_ + (i - 1), size_) \in 0 .. size_ - 1
    BY <1>1, <1>3, WrapRange
  <2> QED
    BY <2>1 DEF Inv, SpscTypeOK
<1> QED
  BY <1>1, <1>2, <1>3, <1>4 DEF Content

\* The same of the next state.
LEMMA HeldNext == Inv' => Content'
BY HeldContent, PTL

\* Sequences of one length with the same elements are the same.
LEMMA SameElements ==
    ASSUME NEW S, NEW s \in Seq(S), NEW t \in Seq(S), Len(s) = Len(t),
           \A i \in 1 .. Len(s) : s[i] = t[i]
    PROVE  s = t
OBVIOUS

\* The content does not change when neither the indices nor the slots of its
\* elements do.
LEMMA HeldSame ==
    ASSUME Inv, Inv', heads' = heads, tails' = tails,
           \A i \in 1 .. Pushes - Pops :
               buffer_'[Wrap(tail_ + (i - 1), size_)] = buffer_[Wrap(tail_ + (i - 1), size_)]
    PROVE  Held' = Held
<1>1. Pushes' = Pushes /\ Pops' = Pops /\ tail_' = tail_
  BY DEF Pushes, Pops, tail_
<1>2. Content /\ Content'
  BY HeldContent, HeldNext
<1>3. /\ Held \in Seq(Values \cup {None}) /\ Held' \in Seq(Values \cup {None})
      /\ Len(Held) = Pushes - Pops /\ Len(Held') = Pushes - Pops
      /\ \A i \in 1 .. Pushes - Pops : Held'[i] = buffer_'[Wrap(tail_ + (i - 1), size_)]
      /\ \A i \in 1 .. Pushes - Pops : Held[i] = buffer_[Wrap(tail_ + (i - 1), size_)]
  BY <1>1, <1>2 DEF Content, size_
<1>4. \A i \in 1 .. Len(Held') : Held'[i] = Held[i]
  BY <1>3
<1> QED
  BY <1>3, <1>4, SameElements

\* A push puts its element at the end.
LEMMA HeldGrows ==
    ASSUME Inv, Inv', PushStores
    PROVE  Len(Held) < Size /\ Held' = Append(Held, pushing)
<1>1. /\ Pushes' = Pushes + 1 /\ Pops' = Pops /\ tail_' = tail_ /\ buffer_' = buffer_
      /\ producer = "store"
  BY HeadStored DEF Inv, PushStores
<1>2. /\ Content /\ Content' /\ SpscTypeOK /\ Distances /\ Views
      /\ Size \in Nat /\ Pushes \in Nat \ {0} /\ Pops \in Nat \ {0} /\ Pops <= Pushes
      /\ pushing \in Values /\ buffer_[head_] = pushing
  BY <1>1, HeldContent, HeldNext, IndexTypes DEF Inv, SpscTypeOK, Slots, Pushes, Pops
<1>3. Pushes < Pops + Size
  <2>1. seen_tail \in 1 .. Pops /\ Pushes < seen_tail + Size
    BY <1>1, <1>2 DEF SpscTypeOK, Views, Pops
  <2> QED
    BY <1>2, <2>1
<1>4. head_ = Wrap(tail_ + (Pushes - Pops), size_)
  <2>1. Pushes \in DOMAIN heads /\ heads[Pushes] = head_ /\ Pushes <= Pops + Size
    BY <1>2, <1>3 DEF SpscTypeOK, Pushes, head_
  <2> QED
    BY <1>2, <2>1, TailToHead
<1>5. /\ Held \in Seq(Values \cup {None}) /\ Held' \in Seq(Values \cup {None})
      /\ Len(Held) = Pushes - Pops /\ Len(Held') = Pushes - Pops + 1
      /\ \A i \in 1 .. Pushes - Pops + 1 : Held'[i] = buffer_[Wrap(tail_ + (i - 1), size_)]
      /\ \A i \in 1 .. Pushes - Pops : Held[i] = buffer_[Wrap(tail_ + (i - 1), size_)]
  BY <1>1, <1>2 DEF Content, size_
<1>6. /\ Append(Held, pushing) \in Seq(Values \cup {None})
      /\ Len(Append(Held, pushing)) = Pushes - Pops + 1
      /\ \A i \in 1 .. Pushes - Pops : Append(Held, pushing)[i] = Held[i]
      /\ Append(Held, pushing)[Pushes - Pops + 1] = pushing
  BY <1>2, <1>5
<1>7. Held'[Pushes - Pops + 1] = pushing
  <2>1. Pushes - Pops + 1 \in 1 .. Pushes - Pops + 1 /\ (Pushes - Pops + 1) - 1 = Pushes - Pops
    BY <1>2
  <2> QED
    BY <1>2, <1>4, <1>5, <2>1
<1>8. \A i \in 1 .. Len(Held') : Held'[i] = Append(Held, pushing)[i]
  <2>1. ASSUME NEW i \in 1 .. Pushes - Pops + 1
        PROVE  Held'[i] = Append(Held, pushing)[i]
    <3>1. i \in 1 .. Pushes - Pops \/ i = Pushes - Pops + 1
      BY <1>2
    <3> QED
      BY <1>5, <1>6, <1>7, <3>1
  <2> QED
    BY <1>5, <2>1
<1>9. Held' = Append(Held, pushing)
  BY <1>5, <1>6, <1>8, SameElements
<1> QED
  BY <1>2, <1>3, <1>5, <1>9

\* A pop takes the oldest element out.
LEMMA HeldShrinks ==
    ASSUME Inv, Inv', PopStores
    PROVE  Held # << >> /\ taken = Head(Held) /\ Held' = Tail(Held)
<1>1. /\ Pops' = Pops + 1 /\ Pushes' = Pushes /\ tail_' = Wrap(tail_ + 1, size_)
      /\ buffer_' = buffer_ /\ consumer = "store"
  BY TailStored DEF Inv, PopStores, After, Wrap
<1>2. /\ Content /\ Content' /\ SpscTypeOK /\ Views
      /\ Size \in Nat /\ Pushes \in Nat \ {0} /\ Pops \in Nat \ {0}
      /\ size_ = Size + 1 /\ tail_ \in 0 .. size_ - 1 /\ taken = buffer_[tail_]
  BY <1>1, HeldContent, HeldNext, IndexTypes DEF Inv, Slots
<1>3. Pops < Pushes
  <2>1. seen_head \in 1 .. Pushes /\ Pops < seen_head
    BY <1>1, <1>2 DEF SpscTypeOK, Views, Pushes
  <2> QED
    BY <1>2, <2>1
<1>4. /\ Held \in Seq(Values \cup {None}) /\ Held' \in Seq(Values \cup {None})
      /\ Len(Held) = Pushes - Pops /\ Len(Held') = Pushes - (Pops + 1)
      /\ Pushes - Pops \in 0 .. Size
      /\ \A i \in 1 .. Pushes - (Pops + 1) :
             Held'[i] = buffer_[Wrap(Wrap(tail_ + 1, size_) + (i - 1), size_)]
      /\ \A i \in 1 .. Pushes - Pops : Held[i] = buffer_[Wrap(tail_ + (i - 1), size_)]
  BY <1>1, <1>2 DEF Content, size_
<1>5. Len(Held) > 0
  BY <1>2, <1>3, <1>4
<1>6. Held # << >> /\ Head(Held) = Held[1]
  BY <1>4, <1>5
<1>7. Held[1] = taken
  <2>1. Wrap(tail_ + (1 - 1), size_) = tail_
    BY <1>2, WrapOnce
  <2>2. 1 \in 1 .. Pushes - Pops
    BY <1>2, <1>3
  <2> QED
    BY <1>2, <1>4, <2>1, <2>2
<1>8. /\ Tail(Held) \in Seq(Values \cup {None})
      /\ Len(Tail(Held)) = Pushes - (Pops + 1)
      /\ \A i \in 1 .. Pushes - (Pops + 1) : Tail(Held)[i] = Held[i + 1]
  BY <1>2, <1>4, <1>5, <1>6
<1>9. ASSUME NEW i \in 1 .. Pushes - (Pops + 1)
      PROVE  Held'[i] = Tail(Held)[i]
  <2>1. i - 1 \in 0 .. size_ - 1 /\ size_ \in Nat \ {0} /\ (i - 1) + 1 = (i + 1) - 1
        /\ i + 1 \in 1 .. Pushes - Pops
    BY <1>2, <1>4
  <2>2. Wrap(Wrap(tail_ + 1, size_) + (i - 1), size_) = Wrap(tail_ + ((i - 1) + 1), size_)
    BY <1>2, <2>1, OneFurther
  <2>3. Held[i + 1] = buffer_[Wrap(tail_ + ((i + 1) - 1), size_)]
    BY <1>4, <2>1
  <2> QED
    BY <1>4, <1>8, <2>1, <2>2, <2>3
<1>10. Held' = Tail(Held)
  BY <1>4, <1>8, <1>9, SameElements
<1> QED
  BY <1>6, <1>7, <1>10

\* Every step is a step of the queue or leaves its content and what was taken
\* out of it alone.
LEMMA FifoNext ==
    ASSUME Inv, Inv', [SpscNext]_spscVars
    PROVE  [Fifo!Next]_Fifo!vars
<1> USE DEF producerVars, consumerVars
<1>1. ASSUME UNCHANGED <<heads, tails, buffer_, item>>
      PROVE  UNCHANGED Fifo!vars
  BY <1>1, HeldSame DEF Fifo!vars
<1>2. CASE PushWrites
  <2>1. /\ UNCHANGED <<heads, tails, item>>
        /\ buffer_' = [buffer_ EXCEPT ![head_] = pushing]
        /\ producer = "write"
    BY <1>2 DEF PushWrites
  <2>2. /\ Size \in Nat /\ Pushes \in Nat \ {0} /\ Pops \in Nat \ {0} /\ Pops <= Pushes
        /\ size_ = Size + 1 /\ tail_ \in 0 .. size_ - 1 /\ head_ \in 0 .. size_ - 1
        /\ SpscTypeOK /\ Distances /\ buffer_ \in [0 .. size_ - 1 -> Values \cup {None}]
    BY IndexTypes DEF Inv, SpscTypeOK, Pushes, Pops
  <2>3. Pushes < Pops + Size
    <3>1. seen_tail \in 1 .. Pops /\ Pushes < seen_tail + Size
      BY <2>1 DEF Inv, SpscTypeOK, Views, Pops
    <3> QED
      BY <2>2, <3>1
  <2>4. head_ = Wrap(tail_ + (Pushes - Pops), size_)
    <3>1. Pushes \in DOMAIN heads /\ heads[Pushes] = head_ /\ Pushes <= Pops + Size
      BY <2>2, <2>3 DEF SpscTypeOK, Pushes, head_
    <3> QED
      BY <2>2, <3>1, TailToHead
  <2>5. ASSUME NEW i \in 1 .. Pushes - Pops
        PROVE  buffer_'[Wrap(tail_ + (i - 1), size_)] = buffer_[Wrap(tail_ + (i - 1), size_)]
    <3>1. /\ i - 1 \in 0 .. size_ - 1 /\ Pushes - Pops \in 0 .. size_ - 1
          /\ i - 1 # Pushes - Pops /\ size_ \in Nat \ {0} /\ tail_ + (i - 1) \in Int
      BY <2>2, <2>3
    <3>2. Wrap(tail_ + (i - 1), size_) # head_
      BY <2>2, <2>4, <3>1, StepsApart
    <3>3. Wrap(tail_ + (i - 1), size_) \in 0 .. size_ - 1
      BY <3>1, WrapRange
    <3> QED
      BY <2>1, <2>2, <3>2, <3>3
  <2>6. Held' = Held
    BY <2>1, <2>5, HeldSame
  <2> QED
    BY <2>1, <2>6 DEF Fifo!vars
<1>3. CASE PushStores
  <2>1. UNCHANGED item /\ producer = "store"
    BY <1>3 DEF PushStores
  <2>2. pushing \in Values
    BY <2>1 DEF Inv, Slots
  <2>3. Len(Held) < Size /\ Held' = Append(Held, pushing)
    BY <1>3, HeldGrows
  <2>4. Fifo!Put(pushing)
    BY <2>1, <2>3 DEF Fifo!Put
  <2> QED
    BY <2>2, <2>4 DEF Fifo!Next
<1>4. CASE PopStores
  <2>1. item' = taken
    BY <1>4 DEF PopStores
  <2>2. Held # << >> /\ taken = Head(Held) /\ Held' = Tail(Held)
    BY <1>4, HeldShrinks
  <2>3. Fifo!Take
    BY <2>1, <2>2 DEF Fifo!Take
  <2> QED
    BY <2>3 DEF Fifo!Next
<1>5. CASE PushFull
  BY <1>1, <1>5 DEF PushFull
<1>6. ASSUME NEW d \in Values, PushBegins(d) PROVE UNCHANGED Fifo!vars
  BY <1>1, <1>6 DEF PushBegins
<1>7. CASE PopNothing
  BY <1>1, <1>7 DEF PopNothing
<1>8. CASE PopBegins
  BY <1>1, <1>8 DEF PopBegins
<1>9. CASE PopReads
  BY <1>1, <1>9 DEF PopReads
<1>10. CASE UNCHANGED spscVars
  BY <1>1, <1>10 DEF spscVars
<1> QED
  BY <1>2, <1>3, <1>4, <1>5, <1>6, <1>7, <1>8, <1>9, <1>10 DEF SpscNext

\* The buffer starts as an empty queue.
LEMMA FifoInit == SpscInit => Fifo!Init
<1> SUFFICES ASSUME SpscInit PROVE Held = << >> /\ item = None
  BY DEF Fifo!Init
<1>1. Content /\ Pushes = 1 /\ Pops = 1
  BY InvInit, HeldContent DEF SpscInit, Pushes, Pops
<1>2. Len(Held) = 0 /\ Held \in Seq(Values \cup {None})
  BY <1>1 DEF Content
<1> QED
  BY <1>2 DEF SpscInit

\* The buffer is a FIFO queue of Size elements, for every Size
\* (SPSCRingBuffer.hpp:30-55).
THEOREM ImplementsFifo == SpscSpec => FifoSpec
<1>1. Inv /\ Inv' /\ [SpscNext]_spscVars => [Fifo!Next]_Fifo!vars
  BY FifoNext
<1> QED
  BY Invariance, FifoInit, <1>1, PTL DEF SpscSpec, FifoSpec, Fifo!Spec
=============================================================================
