-------------------------- MODULE RingBufferProofs --------------------------
(***************************************************************************)
(* The ring buffer with its callers, for every size, any elements and      *)
(* batches of any length: its counters agree, and it is the bounded queue  *)
(* that forgets its oldest elements.                                       *)
(***************************************************************************)
EXTENDS RingBuffer, RingBufferOpsProofs

-----------------------------------------------------------------------------
\* Arithmetic of the indices.

\* The slot a steps after t, in a ring of n.
Step(t, a, n) == Wrap(t + a, n)

\* It is one addition and at most one turn.
LEMMA StepOver ==
    ASSUME NEW n \in Nat \ {0}, NEW t \in 0 .. n - 1, NEW a \in 0 .. n
    PROVE  /\ Step(t, a, n) = IF t + a < n THEN t + a ELSE t + a - n
           /\ Step(t, a, n) \in 0 .. n - 1
<1>1. t + a \in 0 .. 2 * n - 1
  OBVIOUS
<1>2. Step(t, a, n) = IF t + a < n THEN t + a ELSE t + a - n
  BY <1>1, WrapOnce DEF Step
<1> QED
  BY <1>1, <1>2

\* An index inside the array stays, also after a full turn.
LEMMA FullTurn ==
    ASSUME NEW n \in Nat \ {0}, NEW t \in 0 .. n - 1
    PROVE  Step(t, 0, n) = t /\ Step(t, n, n) = t
<1>1. 0 \in 0 .. n /\ n \in 0 .. n
  OBVIOUS
<1> QED
  BY <1>1, StepOver

\* Stepping on by a and then by b, or by c and then by d, is the same when the
\* steps sum up to the same.
LEMMA SameStep ==
    ASSUME NEW n \in Nat \ {0}, NEW t \in 0 .. n - 1, NEW a \in 0 .. n, NEW b \in 0 .. n,
           NEW c \in 0 .. n, NEW d \in 0 .. n, a + b = c + d
    PROVE  Step(Step(t, a, n), b, n) = Step(Step(t, c, n), d, n)
<1>1. PICK x \in 0 .. n - 1, y \in 0 .. n - 1 :
        /\ x = Step(t, a, n) /\ x = IF t + a < n THEN t + a ELSE t + a - n
        /\ y = Step(t, c, n) /\ y = IF t + c < n THEN t + c ELSE t + c - n
  BY StepOver
<1>2. /\ Step(x, b, n) = IF x + b < n THEN x + b ELSE x + b - n
      /\ Step(y, d, n) = IF y + d < n THEN y + d ELSE y + d - n
  BY StepOver
<1> QED
  BY <1>1, <1>2

\* Two steps in one.
LEMMA StepOnce ==
    ASSUME NEW n \in Nat \ {0}, NEW t \in 0 .. n - 1, NEW a \in 0 .. n, NEW b \in 0 .. n,
           NEW c \in 0 .. n, c = a + b
    PROVE  Step(Step(t, a, n), b, n) = Step(t, c, n)
<1>1. 0 \in 0 .. n /\ a + b = c + 0
  OBVIOUS
<1>2. Step(Step(t, a, n), b, n) = Step(Step(t, c, n), 0, n)
  BY <1>1, SameStep
<1>3. Step(t, c, n) \in 0 .. n - 1
  BY StepOver
<1> QED
  BY <1>2, <1>3, FullTurn

\* c steps, and then the n - c + k that complete the turn and go k further.
LEMMA StepRound ==
    ASSUME NEW n \in Nat \ {0}, NEW t \in 0 .. n - 1, NEW c \in 0 .. n, NEW k \in 0 .. n,
           NEW b \in 0 .. n, b = n - c + k
    PROVE  Step(Step(t, c, n), b, n) = Step(t, k, n)
<1>1. n \in 0 .. n /\ c + b = n + k
  OBVIOUS
<1>2. Step(Step(t, c, n), b, n) = Step(Step(t, n, n), k, n)
  BY <1>1, SameStep
<1> QED
  BY <1>2, FullTurn

\* A batch of l elements, written after c of which the first a are forgotten,
\* to a ring whose tail is t: where the head ends up, where the elements kept
\* are (no slot of the batch), and where those of the batch.
Placed(n, t, c, l, a) ==
    /\ Step(Step(t, c, n), l, n) = Step(Step(t, a, n), c - a + l, n)
    /\ \A j \in 0 .. c - a - 1 :
          /\ Step(Step(t, a, n), j, n) = Step(t, a + j, n)
          /\ \E i \in 0 .. n - 1 : ~(i < l) /\ Step(Step(t, c, n), i, n) = Step(t, a + j, n)
    /\ \A i \in 0 .. l - 1 :
          i \in 0 .. n - 1 /\ Step(Step(t, a, n), c - a + i, n) = Step(Step(t, c, n), i, n)

\* The sums of the three counts say so.
LEMMA BatchSlots ==
    ASSUME NEW n \in Nat \ {0}, NEW t \in 0 .. n - 1, NEW c \in 0 .. n, NEW l \in 0 .. n,
           NEW a \in 0 .. c, c - a + l <= n, a = 0 \/ c - a + l = n
    PROVE  Placed(n, t, c, l, a)
<1>1. a \in 0 .. n
  OBVIOUS
<1>2. Step(Step(t, c, n), l, n) = Step(Step(t, a, n), c - a + l, n)
  <2>1. PICK d \in 0 .. n : d = c - a + l
    OBVIOUS
  <2>2. c + l = a + d
    BY <2>1
  <2>. QED  BY <1>1, <2>1, <2>2, SameStep
<1>3. ASSUME NEW j \in 0 .. c - a - 1
      PROVE  /\ Step(Step(t, a, n), j, n) = Step(t, a + j, n)
             /\ \E i \in 0 .. n - 1 : ~(i < l) /\ Step(Step(t, c, n), i, n) = Step(t, a + j, n)
  <2>1. PICK k \in 0 .. n : k = a + j
    OBVIOUS
  <2>2. PICK i \in 0 .. n - 1 : i = n - c + k /\ ~(i < l)
    BY <2>1
  <2>3. j \in 0 .. n /\ i \in 0 .. n
    OBVIOUS
  <2>4. Step(Step(t, a, n), j, n) = Step(t, k, n)
    BY <1>1, <2>1, <2>3, StepOnce
  <2>5. Step(Step(t, c, n), i, n) = Step(t, k, n)
    BY <2>2, <2>3, StepRound
  <2>. QED  BY <2>1, <2>2, <2>4, <2>5
<1>4. ASSUME NEW i \in 0 .. l - 1
      PROVE  i \in 0 .. n - 1 /\ Step(Step(t, a, n), c - a + i, n) = Step(Step(t, c, n), i, n)
  <2>1. PICK d \in 0 .. n : d = c - a + i
    OBVIOUS
  <2>2. i \in 0 .. n /\ i \in 0 .. n - 1 /\ c + i = a + d
    BY <2>1
  <2>3. Step(Step(t, c, n), i, n) = Step(Step(t, a, n), d, n)
    BY <1>1, <2>2, SameStep
  <2>. QED  BY <2>1, <2>2, <2>3
<1> QED
  BY <1>2, <1>3, <1>4 DEF Placed

-----------------------------------------------------------------------------
\* A ring of n slots, whose counters agree and whose live slots were written.
Agree(r) == r.head = SlotAt(r, r.count)
Written(r) == \A j \in 0 .. r.count - 1 : r.buf[SlotAt(r, j)] \in Elem
Sound(r, n) == r \in RingOf(Elem \cup {Zero}, n) /\ Agree(r) /\ Written(r)

\* Its fields.
LEMMA Fields ==
    ASSUME NEW n \in Nat \ {0}, NEW r \in RingOf(Elem \cup {Zero}, n)
    PROVE  /\ r.size = n /\ r.head \in 0 .. n - 1 /\ r.tail \in 0 .. n - 1 /\ r.count \in 0 .. n
           /\ r.buf \in [0 .. n - 1 -> Elem \cup {Zero}]
           /\ r.count \in Nat /\ r.size > 0
<1>1. /\ r.size = n /\ r.head \in 0 .. n - 1 /\ r.tail \in 0 .. n - 1 /\ r.count \in 0 .. n
      /\ r.buf \in [0 .. n - 1 -> Elem \cup {Zero}]
  BY DEF RingOf
<1> QED
  BY <1>1

\* Its content.
LEMMA ContentsSeq ==
    ASSUME NEW n \in Nat \ {0}, NEW r, Sound(r, n)
    PROVE  /\ Contents(r) \in Seq(Elem) /\ Len(Contents(r)) = r.count
           /\ \A j \in 1 .. r.count : Contents(r)[j] = r.buf[SlotAt(r, j - 1)]
<1>1. r.count \in Nat /\ check(r)
  <2>1. r \in RingOf(Elem \cup {Zero}, n)
    BY DEF Sound
  <2>2. r.count \in Nat /\ r.size > 0
    BY <2>1, Fields
  <2>. QED  BY <2>2 DEF check
<1>2. Contents(r) = [j \in 1 .. r.count |-> r.buf[SlotAt(r, j - 1)]]
  BY <1>1 DEF Contents
<1>3. \A j \in 1 .. r.count : r.buf[SlotAt(r, j - 1)] \in Elem
  <2>1. \A j \in 1 .. r.count : j - 1 \in 0 .. r.count - 1
    BY <1>1
  <2>. QED  BY <2>1 DEF Sound, Written
<1> QED
  BY <1>1, <1>2, <1>3

\* Sequences of one length with the same elements are the same.
LEMMA SameElements ==
    ASSUME NEW s \in Seq(Elem), NEW t \in Seq(Elem), Len(s) = Len(t),
           \A i \in 1 .. Len(s) : s[i] = t[i]
    PROVE  s = t
OBVIOUS

\* Taking a part of a sequence.
LEMMA Part ==
    ASSUME NEW s \in Seq(Elem), NEW a \in Nat, NEW b \in Nat, a <= b, b <= Len(s)
    PROVE  /\ SubSeq(s, a + 1, b) \in Seq(Elem) /\ Len(SubSeq(s, a + 1, b)) = b - a
           /\ \A i \in 1 .. b - a : SubSeq(s, a + 1, b)[i] = s[a + i]
OBVIOUS

\* u is s and then t, without the first a elements.
IsRest(u, s, t, a) ==
    /\ u \in Seq(Elem) /\ Len(u) = Len(s) - a + Len(t)
    /\ \A i \in 1 .. Len(s) - a : u[i] = s[a + i]
    /\ \A i \in 1 .. Len(t) : u[Len(s) - a + i] = t[i]

\* How many elements a queue of n forgets when t is written to s.
Excess(s, t, n) == IF Len(s) + Len(t) <= n THEN 0 ELSE Len(s) + Len(t) - n

\* Joining two forgets nothing.
LEMMA Joined ==
    ASSUME NEW s \in Seq(Elem), NEW t \in Seq(Elem)
    PROVE  IsRest(s \o t, s, t, 0)
BY DEF IsRest

\* There is one such rest.
LEMMA RestUnique ==
    ASSUME NEW s \in Seq(Elem), NEW t \in Seq(Elem), NEW a \in 0 .. Len(s), NEW u, NEW v,
           IsRest(u, s, t, a), IsRest(v, s, t, a)
    PROVE  u = v
<1>1. ASSUME NEW i \in 1 .. Len(u) PROVE u[i] = v[i]
  <2>1. CASE i \in 1 .. Len(s) - a
    BY <2>1 DEF IsRest
  <2>2. CASE i \notin 1 .. Len(s) - a
    <3>1. PICK k : k = i - (Len(s) - a)
      OBVIOUS
    <3>2. k \in 1 .. Len(t) /\ Len(s) - a + k = i
      BY <2>2, <3>1 DEF IsRest
    <3>. QED  BY <3>2 DEF IsRest
  <2>. QED  BY <2>1, <2>2
<1> QED
  BY <1>1, SameElements DEF IsRest

\* What is left of u, which is s and then t, when the oldest are forgotten.
LEMMA NewestOf ==
    ASSUME NEW s \in Seq(Elem), NEW t \in Seq(Elem), NEW n \in Nat,
           NEW a \in 0 .. Len(s), a = Excess(s, t, n),
           NEW u, IsRest(u, s, t, 0)
    PROVE  IsRest(Queue!Newest(u, n), s, t, a)
<1>1. /\ Len(u) \in Nat /\ Len(s) \in Nat /\ Len(t) \in Nat /\ a \in Nat /\ a <= Len(u)
      /\ u \in Seq(Elem) /\ Len(u) = Len(s) + Len(t)
  BY DEF IsRest
<1>4. /\ \A i \in 1 .. Len(s) : u[i] = s[i]
      /\ \A i \in 1 .. Len(t) : u[Len(s) + i] = t[i]
  <2>1. Len(s) - 0 = Len(s) /\ \A i \in 1 .. Len(s) : 0 + i = i
    BY <1>1
  <2>. QED  BY <2>1 DEF IsRest
<1>2. CASE Len(u) <= n
  <2>1. Queue!Newest(u, n) = u /\ a = 0
    BY <1>1, <1>2 DEF Queue!Newest, Excess
  <2>. QED  BY <2>1
<1>3. CASE ~(Len(u) <= n)
  <2>1. a = Len(u) - n /\ Len(u) - n + 1 = a + 1
    BY <1>1, <1>3 DEF Excess
  <2>2. Queue!Newest(u, n) = SubSeq(u, Len(u) - n + 1, Len(u))
    BY ONLY <1>3 DEF Queue!Newest
  <2>3. PICK new : new = SubSeq(u, a + 1, Len(u))
    OBVIOUS
  <2>4. Queue!Newest(u, n) = new
    BY <2>1, <2>2, <2>3
  <2>5. /\ new \in Seq(Elem) /\ Len(new) = Len(u) - a
        /\ \A i \in 1 .. Len(u) - a : new[i] = u[a + i]
    <3>1. a <= Len(u) /\ Len(u) <= Len(u) /\ u \in Seq(Elem) /\ a \in Nat /\ Len(u) \in Nat
      BY <1>1
    <3>. QED  BY ONLY <3>1, <2>3, Part
  <2>6. ASSUME NEW i \in 1 .. Len(s) - a
        PROVE  new[i] = s[a + i]
    <3>1. a + i \in 1 .. Len(s) /\ i \in 1 .. Len(u) - a
      BY <1>1
    <3>. QED  BY <1>4, <2>5, <3>1
  <2>7. ASSUME NEW i \in 1 .. Len(t)
        PROVE  new[Len(s) - a + i] = t[i]
    <3>1. PICK k : k = Len(s) - a + i
      OBVIOUS
    <3>2. k \in 1 .. Len(u) - a /\ a + k = Len(s) + i
      BY <1>1, <3>1
    <3>3. new[k] = u[a + k]
      BY <2>5, <3>2
    <3>. QED  BY <1>4, <3>1, <3>2, <3>3
  <2>8. Len(new) = Len(s) - a + Len(t)
    BY <1>1, <2>5
  <2>. QED  BY <2>4, <2>5, <2>6, <2>7, <2>8 DEF IsRest
<1> QED
  BY <1>2, <1>3

\* What is left of a queue after a write.
LEMMA NewestIs ==
    ASSUME NEW s \in Seq(Elem), NEW t \in Seq(Elem), NEW n \in Nat,
           NEW a \in 0 .. Len(s), a = Excess(s, t, n)
    PROVE  IsRest(Queue!Newest(s \o t, n), s, t, a)
  BY Joined, NewestOf

-----------------------------------------------------------------------------
\* The two memcpys of a batch write it to the slots from the head on, over the
\* end of the array and no further.
LEMMA CopiedIn ==
    ASSUME NEW n \in Nat \ {0}, NEW r \in RingOf(Elem \cup {Zero}, n),
           NEW src \in Seq(Elem), Len(src) <= n, NEW i \in 0 .. n - 1
    PROVE  CopyIn(r, src)[Wrap(r.head + i, n)] =
              IF i < Len(src) THEN src[i + 1] ELSE r.buf[Wrap(r.head + i, n)]
<1>1. /\ r.size = n /\ r.head \in 0 .. n - 1 /\ Len(src) \in Nat
      /\ r.head + i \in 0 .. 2 * n - 1
  <2>1. r.size = n /\ r.head \in 0 .. n - 1
    BY Fields
  <2>2. Len(src) \in Nat
    OBVIOUS
  <2>. QED  BY <2>1, <2>2
<1>2. PICK x : x = Wrap(r.head + i, n)
  OBVIOUS
<1>3. x = IF r.head + i < n THEN r.head + i ELSE r.head + i - n
  BY <1>1, <1>2, WrapOnce
<1>4. x \in 0 .. n - 1
  BY <1>1, <1>3
<1>5. CopyIn(r, src)[x] =
        IF r.head <= x /\ x < r.head + Len(src) THEN src[x - r.head + 1]
        ELSE IF x < Len(src) - (n - r.head) THEN src[(n - r.head) + x + 1]
        ELSE r.buf[x]
  BY <1>1, <1>4 DEF CopyIn
<1>6. CASE r.head + i < n
  <2>1. x - r.head + 1 = i + 1 /\ r.head <= x /\ (x < r.head + Len(src) <=> i < Len(src))
    BY <1>1, <1>3, <1>6
  <2>2. ~(x < Len(src) - (n - r.head))
    BY <1>1, <1>3, <1>6
  <2>. QED  BY <1>2, <1>5, <2>1, <2>2
<1>7. CASE ~(r.head + i < n)
  <2>1. ~(r.head <= x) /\ (n - r.head) + x + 1 = i + 1
    BY <1>1, <1>3, <1>7
  <2>2. x < Len(src) - (n - r.head) <=> i < Len(src)
    BY <1>1, <1>3, <1>7
  <2>. QED  BY <1>2, <1>5, <2>1, <2>2
<1> QED
  BY <1>6, <1>7

\* What a read copies out is the oldest part of the content.
LEMMA CopiedOut ==
    ASSUME NEW n \in Nat \ {0}, NEW r, Sound(r, n), NEW len \in Nat
    PROVE  CopyOut(r, len) = SubSeq(Contents(r), 1, Queue!Smaller(len, Len(Contents(r))))
<1>1. /\ r.size = n /\ r.tail \in 0 .. n - 1 /\ r.count \in 0 .. n /\ r.count \in Nat
  BY Fields DEF Sound
<1>2. /\ Contents(r) \in Seq(Elem) /\ Len(Contents(r)) = r.count
      /\ \A j \in 1 .. r.count : Contents(r)[j] = r.buf[SlotAt(r, j - 1)]
  BY ContentsSeq
<1>3. PICK k \in 0 .. r.count : k = ToCopy(r, len) /\ k = Queue!Smaller(len, Len(Contents(r)))
  BY <1>1, <1>2 DEF ToCopy, Queue!Smaller
<1>4. ASSUME NEW j \in 1 .. k
      PROVE  CopyOut(r, len)[j] = Contents(r)[j]
  <2>1. PICK x : x = SlotAt(r, j - 1)
    OBVIOUS
  <2>2. r.tail + (j - 1) \in 0 .. 2 * n - 1 /\ j \in 1 .. r.count
    BY <1>1, <1>3
  <2>3. x = IF r.tail + (j - 1) < n THEN r.tail + (j - 1) ELSE r.tail + (j - 1) - n
    BY <1>1, <2>1, <2>2, WrapOnce DEF SlotAt
  <2>4. CopyOut(r, len)[j] = IF j <= n - r.tail THEN r.buf[r.tail + j - 1]
                                                ELSE r.buf[j - (n - r.tail) - 1]
    BY <1>1, <1>3 DEF CopyOut
  <2>5. CASE r.tail + (j - 1) < n
    <3>1. j <= n - r.tail /\ r.tail + j - 1 = x
      BY <1>1, <2>3, <2>5
    <3>. QED  BY <1>2, <2>1, <2>2, <2>4, <3>1
  <2>6. CASE ~(r.tail + (j - 1) < n)
    <3>1. ~(j <= n - r.tail) /\ j - (n - r.tail) - 1 = x
      BY <1>1, <2>3, <2>6
    <3>. QED  BY <1>2, <2>1, <2>2, <2>4, <3>1
  <2>. QED  BY <2>5, <2>6
<1>5. CopyOut(r, len) \in Seq(Elem) /\ Len(CopyOut(r, len)) = k
  <2>1. ASSUME NEW j \in 1 .. k PROVE CopyOut(r, len)[j] \in Elem
    <3>1. j \in 1 .. r.count
      BY <1>1, <1>3
    <3>. QED  BY <1>2, <1>4, <3>1
  <2>2. DOMAIN CopyOut(r, len) = 1 .. k /\ CopyOut(r, len) = [j \in 1 .. k |-> CopyOut(r, len)[j]]
    BY <1>3 DEF CopyOut
  <2>3. k \in Nat
    BY <1>1, <1>3
  <2>. QED  BY <2>1, <2>2, <2>3
<1>6. PICK part : part = SubSeq(Contents(r), 1, k)
  OBVIOUS
<1>7. part \in Seq(Elem) /\ Len(part) = k /\ \A j \in 1 .. k : part[j] = Contents(r)[j]
  BY <1>1, <1>2, <1>3, <1>6
<1>8. CopyOut(r, len) = part
  BY <1>4, <1>5, <1>7, SameElements
<1> QED
  BY <1>3, <1>6, <1>8

-----------------------------------------------------------------------------
\* A fresh ring is sound and empty.
LEMMA NewSound ==
    ASSUME NEW n \in Nat \ {0}
    PROVE  /\ Sound(NewRing(n, Zero), n) /\ NewRing(n, Zero).size = n
           /\ Contents(NewRing(n, Zero)) = << >>
<1>. DEFINE w == NewRing(n, Zero)
<1>1. w \in RingOf(Elem \cup {Zero}, n)
  BY NewRingType
<1>2. w.size = n /\ w.head = 0 /\ w.tail = 0 /\ w.count = 0
  BY DEF NewRing
<1>3. 0 \in 0 .. n - 1 /\ 0 + 0 = 0
  OBVIOUS
<1>4. Wrap(0, n) = 0
  <2>1. Step(0, 0, n) = 0
    BY <1>3, FullTurn
  <2>. QED  BY <1>3, <2>1 DEF Step
<1>5. Sound(w, n)
  <2>1. Agree(w)
    BY <1>2, <1>3, <1>4 DEF Agree, SlotAt
  <2>2. Written(w)
    BY <1>2 DEF Written
  <2>. QED  BY <1>1, <2>1, <2>2 DEF Sound
<1>6. Contents(w) \in Seq(Elem) /\ Len(Contents(w)) = 0
  BY <1>2, <1>5, ContentsSeq
<1> QED
  BY <1>2, <1>5, <1>6

\* The counters after a batch, and where its elements and the kept ones are.
Batched(w, r, src, a, n) ==
    /\ a \in 0 .. r.count /\ r.count - a + Len(src) \in 0 .. n
    /\ w.size = n /\ w.count = r.count - a + Len(src)
    /\ w \in RingOf(Elem \cup {Zero}, n) /\ Agree(w)
    /\ \A j \in 0 .. r.count - a - 1 : w.buf[SlotAt(w, j)] = r.buf[SlotAt(r, a + j)]
    /\ \A i \in 0 .. Len(src) - 1 : w.buf[SlotAt(w, r.count - a + i)] = src[i + 1]

\* push_batch does this.
LEMMA BatchCounters ==
    ASSUME NEW n \in Nat \ {0}, NEW r, Sound(r, n),
           NEW src \in Seq(Elem), Len(src) <= n, NEW w, w = push_batch(r, src),
           NEW a, a = ToAdvance(r, Len(src))
    PROVE  Batched(w, r, src, a, n)
<1>1. /\ r \in RingOf(Elem \cup {Zero}, n)
      /\ r.size = n /\ r.head \in 0 .. n - 1 /\ r.tail \in 0 .. n - 1 /\ r.count \in 0 .. n
      /\ r.buf \in [0 .. n - 1 -> Elem \cup {Zero}]
      /\ r.head = Wrap(r.tail + r.count, n)
  BY Fields DEF Sound, Agree, SlotAt
<1>2. PICK l \in 0 .. n : l = Len(src)
  OBVIOUS
<1>3. /\ a \in 0 .. r.count /\ r.count - a + l \in 0 .. n
      /\ a = 0 \/ r.count - a + l = n
  BY <1>1, <1>2 DEF ToAdvance
<1>4. /\ w.size = n /\ w.buf = CopyIn(r, src) /\ w.tail = Wrap(r.tail + a, n)
      /\ w.head = Wrap(r.head + l, n) /\ w.count = r.count - a + l
  BY <1>1, <1>2 DEF push_batch, RingOf
<1>5. w.head \in 0 .. n - 1 /\ w.tail \in 0 .. n - 1
  <2>1. r.tail + a \in Int /\ r.head + l \in Int
    BY <1>1, <1>3
  <2>. QED  BY <1>4, <2>1, WrapRange
<1>6. w.buf \in [0 .. n - 1 -> Elem \cup {Zero}]
  <2>1. ASSUME NEW i \in 0 .. n - 1
        PROVE  CopyIn(r, src)[i] \in Elem \cup {Zero}
    <3>1. CASE r.head <= i /\ i < r.head + l
      <4>1. i - r.head + 1 \in 1 .. Len(src)
        BY <1>1, <1>2, <3>1
      <4>2. CopyIn(r, src)[i] = src[i - r.head + 1]
        BY <1>1, <1>2, <3>1 DEF CopyIn
      <4>. QED  BY <4>1, <4>2
    <3>2. CASE ~(r.head <= i /\ i < r.head + l) /\ i < l - (n - r.head)
      <4>1. (n - r.head) + i + 1 \in 1 .. Len(src)
        BY <1>1, <1>2, <3>2
      <4>2. CopyIn(r, src)[i] = src[(n - r.head) + i + 1]
        BY <1>1, <1>2, <3>2 DEF CopyIn
      <4>. QED  BY <4>1, <4>2
    <3>3. CASE ~(r.head <= i /\ i < r.head + l) /\ ~(i < l - (n - r.head))
      <4>1. CopyIn(r, src)[i] = r.buf[i]
        BY <1>1, <1>2, <3>3 DEF CopyIn
      <4>. QED  BY <1>1, <4>1
    <3>. QED  BY <3>1, <3>2, <3>3
  <2>2. CopyIn(r, src) = [i \in 0 .. n - 1 |-> CopyIn(r, src)[i]]
    BY <1>1 DEF CopyIn
  <2>. QED  BY <1>4, <2>1, <2>2
<1>7. w \in RingOf(Elem \cup {Zero}, n)
  <2>1. w = [size |-> n, buf |-> w.buf, head |-> w.head, tail |-> w.tail, count |-> w.count]
    BY <1>1, <1>4 DEF push_batch, RingOf
  <2>. QED  BY <1>3, <1>4, <1>5, <1>6, <2>1 DEF RingOf
<1>b. /\ Step(r.head, l, n) = Step(w.tail, r.count - a + l, n)
      /\ \A j \in 0 .. r.count - a - 1 :
            /\ Step(w.tail, j, n) = Step(r.tail, a + j, n)
            /\ \E i \in 0 .. n - 1 : ~(i < l) /\ Step(r.head, i, n) = Step(r.tail, a + j, n)
      /\ \A i \in 0 .. l - 1 :
            i \in 0 .. n - 1 /\ Step(w.tail, r.count - a + i, n) = Step(r.head, i, n)
  <2>1. PICK t \in 0 .. n - 1, c \in 0 .. n : t = r.tail /\ c = r.count
    BY <1>1
  <2>2. a \in 0 .. c /\ c - a + l <= n /\ (a = 0 \/ c - a + l = n)
    BY <1>3, <2>1
  <2>3. Placed(n, t, c, l, a)
    BY ONLY <1>2, <2>1, <2>2, n \in Nat \ {0}, BatchSlots
  <2>4. Step(t, c, n) = r.head /\ Step(t, a, n) = w.tail
    BY <1>1, <1>4, <2>1 DEF Step
  <2>. QED  BY <2>1, <2>3, <2>4 DEF Placed
<1>8. Agree(w)
  BY <1>b, <1>4 DEF Agree, SlotAt, Step
<1>9. ASSUME NEW j \in 0 .. r.count - a - 1
      PROVE  w.buf[SlotAt(w, j)] = r.buf[SlotAt(r, a + j)]
  <2>1. PICK i \in 0 .. n - 1 : ~(i < l) /\ Step(r.head, i, n) = Step(r.tail, a + j, n)
    BY <1>b
  <2>2. CopyIn(r, src)[Wrap(r.head + i, n)] = r.buf[Wrap(r.head + i, n)]
    <3>1. ~(i < Len(src))
      BY <1>2, <2>1
    <3>2. r \in RingOf(Elem \cup {Zero}, n) /\ Len(src) <= n
      BY <1>1
    <3>. QED  BY ONLY <2>1, <3>1, <3>2, n \in Nat \ {0}, src \in Seq(Elem), CopiedIn
  <2>3. Wrap(r.head + i, n) = SlotAt(r, a + j) /\ SlotAt(w, j) = SlotAt(r, a + j)
    BY <1>1, <1>4, <1>b, <2>1 DEF SlotAt, Step
  <2>. QED  BY <1>4, <2>2, <2>3
<1>10. ASSUME NEW i \in 0 .. Len(src) - 1
       PROVE  w.buf[SlotAt(w, r.count - a + i)] = src[i + 1]
  <2>1. i \in 0 .. n - 1 /\ Step(w.tail, r.count - a + i, n) = Step(r.head, i, n)
    BY <1>2, <1>b
  <2>2. CopyIn(r, src)[Wrap(r.head + i, n)] = src[i + 1]
    <3>1. i < Len(src)
      BY <1>2
    <3>2. r \in RingOf(Elem \cup {Zero}, n) /\ Len(src) <= n
      BY <1>1
    <3>. QED  BY ONLY <2>1, <3>1, <3>2, n \in Nat \ {0}, src \in Seq(Elem), CopiedIn
  <2>3. SlotAt(w, r.count - a + i) = Wrap(r.head + i, n)
    BY <1>4, <2>1 DEF SlotAt, Step
  <2>. QED  BY <1>4, <2>2, <2>3
<1> QED
  BY <1>2, <1>3, <1>4, <1>7, <1>8, <1>9, <1>10 DEF Batched

\* A batch is written after the content, and the excess forgotten.
LEMMA BatchSound ==
    ASSUME NEW n \in Nat \ {0}, NEW r, Sound(r, n),
           NEW src \in Seq(Elem), Len(src) <= n
    PROVE  /\ Sound(push_batch(r, src), n) /\ push_batch(r, src).size = n
           /\ Contents(push_batch(r, src)) = Queue!Newest(Contents(r) \o src, n)
<1>1. PICK w : w = push_batch(r, src)
  OBVIOUS
<1>a. PICK a : a = ToAdvance(r, Len(src))
  OBVIOUS
<1>2. /\ a \in 0 .. r.count /\ r.count - a + Len(src) \in 0 .. n
      /\ w.size = n /\ w.count = r.count - a + Len(src)
      /\ w \in RingOf(Elem \cup {Zero}, n) /\ Agree(w)
      /\ \A j \in 0 .. r.count - a - 1 : w.buf[SlotAt(w, j)] = r.buf[SlotAt(r, a + j)]
      /\ \A i \in 0 .. Len(src) - 1 : w.buf[SlotAt(w, r.count - a + i)] = src[i + 1]
  <2>1. Batched(w, r, src, a, n)
    BY <1>1, <1>a, BatchCounters
  <2>. QED  BY <2>1 DEF Batched
<1>3. /\ r.size = n /\ r.count \in 0 .. n /\ Len(src) \in Nat
      /\ \A j \in 0 .. r.count - 1 : r.buf[SlotAt(r, j)] \in Elem
  <2>1. r \in RingOf(Elem \cup {Zero}, n) /\ Written(r)
    BY DEF Sound
  <2>2. r.size = n /\ r.count \in 0 .. n
    BY <2>1, Fields
  <2>3. Len(src) \in Nat
    OBVIOUS
  <2>. QED  BY <2>1, <2>2, <2>3 DEF Written
<1>4. Sound(w, n)
  <2>1. ASSUME NEW j \in 0 .. w.count - 1
        PROVE  w.buf[SlotAt(w, j)] \in Elem
    <3>1. CASE j < r.count - a
      <4>1. j \in 0 .. r.count - a - 1 /\ a + j \in 0 .. r.count - 1
        BY <1>2, <1>3, <3>1
      <4>. QED  BY <1>2, <1>3, <4>1
    <3>2. CASE ~(j < r.count - a)
      <4>1. PICK i : i = j - (r.count - a)
        OBVIOUS
      <4>2. i \in 0 .. Len(src) - 1 /\ r.count - a + i = j /\ i + 1 \in 1 .. Len(src)
        <5>1. /\ r.count \in Int /\ a \in Int /\ j \in Int /\ 0 <= j
              /\ j < r.count - a + Len(src) /\ Len(src) \in Int
          BY <1>2, <1>3
        <5>2. i \in Int /\ 0 <= i /\ i < Len(src) /\ r.count - a + i = j
          BY <3>2, <4>1, <5>1
        <5>. QED  BY <5>1, <5>2
      <4>3. w.buf[SlotAt(w, j)] = src[i + 1]
        BY <1>2, <4>2
      <4>. QED  BY <4>2, <4>3
    <3>. QED  BY <3>1, <3>2
  <2>. QED  BY <1>2, <2>1 DEF Sound, Written
<1>5. /\ Contents(r) \in Seq(Elem) /\ Len(Contents(r)) = r.count
      /\ \A j \in 1 .. r.count : Contents(r)[j] = r.buf[SlotAt(r, j - 1)]
  BY ContentsSeq
<1>6. /\ Contents(w) \in Seq(Elem) /\ Len(Contents(w)) = w.count
      /\ \A j \in 1 .. w.count : Contents(w)[j] = w.buf[SlotAt(w, j - 1)]
  BY <1>4, ContentsSeq
<1>7. a = Excess(Contents(r), src, n)
  BY <1>a, <1>3, <1>5 DEF Excess, ToAdvance
<1>8. IsRest(Contents(w), Contents(r), src, a)
  <2>1. ASSUME NEW j \in 1 .. r.count - a
        PROVE  Contents(w)[j] = Contents(r)[a + j]
    <3>1. /\ j \in 1 .. w.count /\ j - 1 \in 0 .. r.count - a - 1
          /\ a + j \in 1 .. r.count /\ a + (j - 1) = (a + j) - 1
      BY <1>2, <1>3
    <3>. QED  BY <1>2, <1>5, <1>6, <3>1
  <2>2. ASSUME NEW i \in 1 .. Len(src)
        PROVE  Contents(w)[r.count - a + i] = src[i]
    <3>1. PICK j, h : j = r.count - a + i /\ h = i - 1
      OBVIOUS
    <3>2. /\ j \in 1 .. w.count /\ h \in 0 .. Len(src) - 1 /\ j - 1 = r.count - a + h
          /\ h + 1 = i
      BY <1>2, <1>3, <3>1
    <3>3. Contents(w)[j] = w.buf[SlotAt(w, r.count - a + h)]
      BY <1>6, <3>2
    <3>4. w.buf[SlotAt(w, r.count - a + h)] = src[h + 1]
      BY <1>2, <3>2
    <3>. QED  BY <3>1, <3>2, <3>3, <3>4
  <2>. QED  BY <1>2, <1>5, <1>6, <2>1, <2>2 DEF IsRest
<1>9. IsRest(Queue!Newest(Contents(r) \o src, n), Contents(r), src, a)
  BY <1>2, <1>5, <1>7, NewestIs
<1> QED
  BY <1>1, <1>2, <1>4, <1>5, <1>8, <1>9, RestUnique

\* A push is a batch of one.
LEMMA PushIsBatch ==
    ASSUME NEW n \in Nat \ {0}, NEW r \in RingOf(Elem \cup {Zero}, n), NEW data \in Elem
    PROVE  push(r, data) = push_batch(r, <<data>>)
<1>1. /\ r.size = n /\ r.head \in 0 .. n - 1 /\ r.tail \in 0 .. n - 1 /\ r.count \in 0 .. n
      /\ r.buf \in [0 .. n - 1 -> Elem \cup {Zero}]
  BY Fields
<1>2. Len(<<data>>) = 1 /\ <<data>>[1] = data
  OBVIOUS
<1>3. CopyIn(r, <<data>>) = [r.buf EXCEPT ![r.head] = data]
  <2>1. \A i \in 0 .. n - 1 : r.head <= i /\ i < r.head + 1 <=> i = r.head
    BY <1>1
  <2>2. \A i \in 0 .. n - 1 : ~(i < 1 - (n - r.head))
    BY <1>1
  <2>3. r.head - r.head + 1 = 1
    BY <1>1
  <2>. QED  BY <1>1, <1>2, <2>1, <2>2, <2>3 DEF CopyIn
<1>4. Wrap(r.tail + 0, n) = r.tail
  <2>1. Step(r.tail, 0, n) = r.tail
    BY <1>1, FullTurn
  <2>. QED  BY <2>1 DEF Step
<1>5. ToAdvance(r, 1) = IF r.count = n THEN 1 ELSE 0
  BY <1>1 DEF ToAdvance
<1>6. push_batch(r, <<data>>) =
        [size |-> n, buf |-> CopyIn(r, <<data>>), head |-> Wrap(r.head + 1, n),
         tail |-> Wrap(r.tail + ToAdvance(r, 1), n), count |-> r.count - ToAdvance(r, 1) + 1]
  <2>1. r = [size |-> n, buf |-> r.buf, head |-> r.head, tail |-> r.tail, count |-> r.count]
    BY DEF RingOf
  <2>2. PICK w : w = push_batch(r, <<data>>)
    OBVIOUS
  <2>3. /\ w.size = n /\ w.buf = CopyIn(r, <<data>>) /\ w.head = Wrap(r.head + 1, n)
        /\ w.tail = Wrap(r.tail + ToAdvance(r, 1), n) /\ w.count = r.count - ToAdvance(r, 1) + 1
    BY <1>1, <1>2, <2>1, <2>2 DEF push_batch
  <2>4. w = [size |-> w.size, buf |-> w.buf, head |-> w.head, tail |-> w.tail, count |-> w.count]
    BY <2>1, <2>2 DEF push_batch
  <2>. QED  BY <2>2, <2>3, <2>4
<1>7. CASE r.count = n
  BY <1>1, <1>3, <1>5, <1>6, <1>7 DEF push
<1>8. CASE r.count # n
  <2>1. r.count - 0 + 1 = r.count + 1
    BY <1>1
  <2>. QED  BY <1>1, <1>3, <1>4, <1>5, <1>6, <1>8, <2>1 DEF push
<1> QED
  BY <1>7, <1>8

\* A pop drains one.
LEMMA PopIsDrain ==
    ASSUME NEW n \in Nat \ {0}, NEW r, Sound(r, n), r.count # 0
    PROVE  /\ pop(r) = drain(r, 1)
           /\ <<popped(r)>> = CopyOut(r, 1)
<1>1. /\ r \in RingOf(Elem \cup {Zero}, n)
      /\ r.size = n /\ r.tail \in 0 .. n - 1 /\ r.count \in 0 .. n /\ r.count \in Nat
  BY Fields DEF Sound
<1>2. ToCopy(r, 1) = 1
  BY <1>1 DEF ToCopy
<1>3. pop(r) = drain(r, 1)
  BY <1>1, <1>2 DEF pop, drain
<1>4. CopyOut(r, 1) = [j \in 1 .. 1 |-> r.buf[r.tail]]
  <2>1. \A j \in 1 .. 1 : j <= n - r.tail /\ r.tail + j - 1 = r.tail
    BY <1>1
  <2>. QED  BY <1>1, <1>2, <2>1 DEF CopyOut
<1> QED
  BY <1>3, <1>4 DEF popped

\* A drain takes the oldest elements off the content.
LEMMA DrainSound ==
    ASSUME NEW n \in Nat \ {0}, NEW r, Sound(r, n), NEW len \in Nat
    PROVE  /\ Sound(drain(r, len), n) /\ drain(r, len).size = n
           /\ Contents(drain(r, len)) =
                 SubSeq(Contents(r), Queue!Smaller(len, Len(Contents(r))) + 1, Len(Contents(r)))
<1>1. /\ r \in RingOf(Elem \cup {Zero}, n) /\ r.size = n
      /\ r.head \in 0 .. n - 1 /\ r.tail \in 0 .. n - 1 /\ r.count \in 0 .. n /\ r.count \in Nat
      /\ r.buf \in [0 .. n - 1 -> Elem \cup {Zero}]
      /\ r.head = SlotAt(r, r.count)
      /\ \A j \in 0 .. r.count - 1 : r.buf[SlotAt(r, j)] \in Elem
  <2>1. r \in RingOf(Elem \cup {Zero}, n) /\ Agree(r) /\ Written(r)
    BY DEF Sound
  <2>. QED  BY <2>1, Fields DEF Agree, Written
<1>2. /\ Contents(r) \in Seq(Elem) /\ Len(Contents(r)) = r.count
      /\ \A j \in 1 .. r.count : Contents(r)[j] = r.buf[SlotAt(r, j - 1)]
  BY ContentsSeq
<1>3. PICK k \in 0 .. r.count : k = ToCopy(r, len) /\ k = Queue!Smaller(len, Len(Contents(r)))
  BY <1>1, <1>2 DEF ToCopy, Queue!Smaller
<1>4. PICK w : w = drain(r, len)
  OBVIOUS
<1>5. /\ w \in RingOf(Elem \cup {Zero}, n) /\ w.size = n /\ w.buf = r.buf /\ w.head = r.head
      /\ w.count = r.count - k /\ Agree(w)
      /\ \A j \in 0 .. r.count - k - 1 : SlotAt(w, j) = SlotAt(r, k + j)
  <2>1. CASE r.count = 0
    <3>1. w = r /\ k = 0 /\ r.count - k = r.count /\ \A j \in 0 .. r.count - k - 1 : k + j = j
      BY <1>1, <1>3, <1>4, <2>1 DEF drain
    <3>. QED  BY <1>1, <3>1 DEF Agree
  <2>2. CASE r.count # 0
    <3>1. w = [size |-> n, buf |-> r.buf, head |-> r.head, tail |-> Wrap(r.tail + k, n),
               count |-> r.count - k]
      BY <1>1, <1>3, <1>4, <2>2 DEF drain, RingOf
    <3>2. PICK t \in 0 .. n - 1, c \in 0 .. n : t = r.tail /\ c = r.count
      BY <1>1
    <3>3. k \in 0 .. c /\ k \in 0 .. n /\ c - k \in 0 .. n
      BY <1>3, <3>2
    <3>4. Step(t, k, n) \in 0 .. n - 1
      BY <3>2, <3>3, StepOver
    <3>5. w \in RingOf(Elem \cup {Zero}, n)
      BY <1>1, <3>1, <3>2, <3>3, <3>4 DEF RingOf, Step
    <3>6. Step(Step(t, k, n), c - k, n) = Step(t, c, n)
      BY <3>2, <3>3, StepOnce
    <3>7. ASSUME NEW j \in 0 .. c - k - 1
          PROVE  Step(Step(t, k, n), j, n) = Step(t, k + j, n)
      <4>1. j \in 0 .. n /\ k + j \in 0 .. n
        BY <3>2, <3>3
      <4>. QED  BY <3>2, <3>3, <4>1, StepOnce
    <3>. QED  BY <1>1, <3>1, <3>2, <3>5, <3>6, <3>7 DEF Agree, SlotAt, Step
  <2>. QED  BY <2>1, <2>2
<1>6. Sound(w, n)
  <2>1. ASSUME NEW j \in 0 .. w.count - 1 PROVE w.buf[SlotAt(w, j)] \in Elem
    <3>1. k + j \in 0 .. r.count - 1 /\ j \in 0 .. r.count - k - 1
      BY <1>1, <1>3, <1>5
    <3>. QED  BY <1>1, <1>5, <3>1
  <2>. QED  BY <1>5, <2>1 DEF Sound, Written
<1>7. /\ Contents(w) \in Seq(Elem) /\ Len(Contents(w)) = w.count
      /\ \A j \in 1 .. w.count : Contents(w)[j] = w.buf[SlotAt(w, j - 1)]
  BY <1>6, ContentsSeq
<1>8. PICK rest : rest = SubSeq(Contents(r), k + 1, Len(Contents(r)))
  OBVIOUS
<1>9. /\ rest \in Seq(Elem) /\ Len(rest) = r.count - k
      /\ \A j \in 1 .. r.count - k : rest[j] = Contents(r)[k + j]
  <2>1. k \in Nat /\ r.count \in Nat /\ k <= r.count /\ r.count <= Len(Contents(r))
    BY <1>1, <1>2, <1>3
  <2>2. rest = SubSeq(Contents(r), k + 1, r.count)
    BY <1>2, <1>8
  <2>. QED  BY ONLY <1>2, <2>1, <2>2, Part
<1>10. ASSUME NEW j \in 1 .. Len(Contents(w)) PROVE Contents(w)[j] = rest[j]
  <2>1. /\ j \in 1 .. r.count - k /\ j \in 1 .. w.count /\ k + j \in 1 .. r.count
        /\ j - 1 \in 0 .. r.count - k - 1 /\ k + (j - 1) = (k + j) - 1
    <3>1. PICK c \in Nat : c = r.count
      BY <1>1
    <3>2. k \in 0 .. c /\ Len(Contents(w)) = c - k /\ w.count = c - k
      BY <1>3, <1>5, <1>7, <3>1
    <3>3. /\ j \in 1 .. c - k /\ k + j \in 1 .. c
          /\ j - 1 \in 0 .. c - k - 1 /\ k + (j - 1) = (k + j) - 1
      BY ONLY <3>2, c \in Nat, j \in 1 .. Len(Contents(w))
    <3>. QED  BY <3>1, <3>2, <3>3
  <2>2. Contents(w)[j] = r.buf[SlotAt(r, k + (j - 1))]
    BY <1>5, <1>7, <2>1
  <2>3. Contents(r)[k + j] = r.buf[SlotAt(r, (k + j) - 1)]
    BY <1>2, <2>1
  <2>. QED  BY <1>9, <2>1, <2>2, <2>3
<1>11. Contents(w) = rest
  BY <1>5, <1>7, <1>9, <1>10, SameElements
<1> QED
  BY <1>3, <1>4, <1>5, <1>6, <1>8, <1>11

-----------------------------------------------------------------------------
\* The invariant.
NoStorage == [size : {0}, buf : {<< >>}, head : Nat, tail : Nat, count : Nat]

RingInv == rb \in NoStorage \/ \E n \in Sizes : Sound(rb, n)

Inv ==
    /\ RingInv
    /\ ret.ok \in BOOLEAN /\ ret.out \in Seq(Elem)
    /\ drainer \in {"none", "all", "some"}

\* Whether a ring has storage.
LEMMA Storage ==
    /\ \A r \in NoStorage : ~check(r) /\ r.size = 0 /\ Contents(r) = << >>
    /\ \A n \in Sizes : n \in Nat \ {0}
    /\ \A r : \A n \in Sizes : Sound(r, n) =>
          /\ check(r) /\ r.size = n /\ r.count \in Nat
          /\ Contents(r) \in Seq(Elem) /\ Len(Contents(r)) = r.count
<1>1. \A r \in NoStorage : ~check(r) /\ r.size = 0
  BY DEF NoStorage, check
<1>2. \A r \in NoStorage : Contents(r) = << >>
  BY <1>1 DEF Contents
<1>3. \A n \in Sizes : n \in Nat \ {0}
  BY SizesAssumption
<1>4. ASSUME NEW r, NEW n \in Sizes, Sound(r, n)
      PROVE  /\ check(r) /\ r.size = n /\ r.count \in Nat
             /\ Contents(r) \in Seq(Elem) /\ Len(Contents(r)) = r.count
  <2>1. r.size = n /\ r.count \in Nat /\ r.size > 0
    BY <1>3, <1>4, Fields DEF Sound
  <2>. QED  BY <1>3, <1>4, <2>1, ContentsSeq DEF check
<1> QED
  BY <1>1, <1>2, <1>3, <1>4

\* push leaves a ring in order, with the content it promises.
LEMMA PushStep ==
    ASSUME Inv, NEW data \in Elem, Push(data)
    PROVE  Inv' /\ Queue!Next
<1>1. check(rb)
  BY DEF Push
<1>2. PICK n \in Sizes : Sound(rb, n)
  BY <1>1, Storage DEF Inv, RingInv
<1>3. n \in Nat \ {0} /\ <<data>> \in Seq(Elem) /\ Len(<<data>>) = 1 /\ Len(<<data>>) <= n
  BY Storage
<1>4. rb' = push_batch(rb, <<data>>)
  BY <1>2, <1>3, PushIsBatch DEF Push, Sound
<1>5. /\ Sound(rb', n) /\ rb'.size = n /\ rb.size = n
      /\ Contents(rb') = Queue!Newest(Contents(rb) \o <<data>>, n)
  BY <1>2, <1>3, <1>4, BatchSound, Storage
<1>6. ret' = [ok |-> TRUE, out |-> << >>] /\ drainer' = drainer
  BY DEF Push, Returns
<1>7. Inv'
  BY <1>5, <1>6 DEF Inv, RingInv
<1>8. <<data>> \in Queue!Batches /\ Len(<<data>>) <= rb.size
  <2>1. 1 \in 0 .. MaxLen
    BY MaxLenAssumption
  <2>2. <<data>> \in [1 .. 1 -> Elem]
    OBVIOUS
  <2>3. <<data>> \in UNION {[1 .. m -> Elem] : m \in 0 .. MaxLen}
    BY <2>1, <2>2
  <2>4. rb.size = n
    BY <1>5
  <2>5. Len(<<data>>) <= rb.size
    BY <1>3, <2>4
  <2>. QED  BY <2>3, <2>5 DEF Queue!Batches, Queue!BoundedSeq, Queue!SeqOf
<1>9. Queue!Write(<<data>>)
  BY <1>5, <1>6 DEF Queue!Write
<1> QED
  BY <1>7, <1>8, <1>9 DEF Queue!Next

\* push_batch, and its early return on an empty batch.
LEMMA PushBatchStep ==
    ASSUME Inv, NEW src \in Batches, PushBatch(src)
    PROVE  Inv' /\ Queue!Next
<1>1. check(rb) /\ Len(src) <= rb.size
  BY DEF PushBatch
<1>2. PICK n \in Sizes : Sound(rb, n)
  BY <1>1, Storage DEF Inv, RingInv
<1>3. /\ n \in Nat \ {0} /\ rb.size = n /\ rb.count \in 0 .. n
      /\ Contents(rb) \in Seq(Elem) /\ Len(Contents(rb)) = rb.count
  BY <1>2, Storage, Fields DEF Sound
<1>4. src \in Seq(Elem)
  <2>1. PICK m \in 0 .. MaxLen : src \in [1 .. m -> Elem]
    BY DEF Batches, BoundedSeq, SeqOf
  <2>2. m \in Nat
    BY MaxLenAssumption
  <2>. QED  BY <2>1, <2>2
<1>5. /\ Sound(rb', n) /\ rb'.size = n
      /\ Contents(rb') = Queue!Newest(Contents(rb) \o src, n)
  <2>1. CASE Len(src) = 0
    <3>1. rb' = rb /\ src = << >>
      BY <1>4, <2>1 DEF PushBatch
    <3>2. Contents(rb) \o src = Contents(rb)
      BY <1>3, <3>1
    <3>3. Queue!Newest(Contents(rb), n) = Contents(rb)
      BY <1>3 DEF Queue!Newest
    <3>. QED  BY <1>2, <1>3, <3>1, <3>2, <3>3
  <2>2. CASE Len(src) # 0
    <3>1. rb' = push_batch(rb, src)
      BY <2>2 DEF PushBatch
    <3>. QED  BY <1>1, <1>2, <1>3, <1>4, <3>1, BatchSound
  <2>. QED  BY <2>1, <2>2
<1>6. ret' = [ok |-> TRUE, out |-> << >>] /\ drainer' = drainer
  BY DEF PushBatch, Returns
<1>7. Inv'
  BY <1>5, <1>6 DEF Inv, RingInv
<1>8. src \in Queue!Batches
  BY DEF Queue!Batches, Queue!BoundedSeq, Queue!SeqOf, Batches, BoundedSeq, SeqOf
<1>9. Queue!Write(src)
  BY <1>3, <1>5, <1>6 DEF Queue!Write
<1> QED
  BY <1>1, <1>7, <1>8, <1>9 DEF Queue!Next

\* A read of a ring that counts no elements, with storage or without.
LEMMA EmptyStep ==
    ASSUME Inv, rb.count = 0, rb' = rb, NEW len \in 0 .. MaxLen, NEW consumed \in BOOLEAN,
           \/ ret' = [ok |-> TRUE, out |-> << >>]
           \/ ret' = [ok |-> FALSE, out |-> << >>] /\ consumed /\ len = 1,
           drainer' \in {"none", "all", "some"}
    PROVE  Inv' /\ Queue!Next
<1>1. Contents(rb) = << >>
  <2>1. CASE rb \in NoStorage
    BY <2>1, Storage
  <2>2. ASSUME NEW n \in Sizes, Sound(rb, n) PROVE Contents(rb) = << >>
    <3>1. Contents(rb) \in Seq(Elem) /\ Len(Contents(rb)) = 0
      BY <2>2, Storage
    <3>. QED  BY <3>1
  <2>. QED  BY <2>1, <2>2 DEF Inv, RingInv
<1>2. Inv'
  <2>1. RingInv'
    BY DEF Inv, RingInv
  <2>2. CASE ret' = [ok |-> TRUE, out |-> << >>]
    BY <2>1, <2>2 DEF Inv
  <2>3. CASE ret' = [ok |-> FALSE, out |-> << >>]
    BY <2>1, <2>3 DEF Inv
  <2>. QED  BY <2>2, <2>3
<1>3. SubSeq(<< >>, 1, 0) = << >> /\ SubSeq(<< >>, 0 + 1, Len(<< >>)) = << >>
  OBVIOUS
<1>4. \A l \in 0 .. MaxLen : Queue!Smaller(l, Len(Contents(rb))) = 0
  BY <1>1, MaxLenAssumption DEF Queue!Smaller
<1>5. 1 \in 0 .. MaxLen /\ (Contents(rb) # << >>) = FALSE
  BY <1>1, MaxLenAssumption
<1>6. CASE ret' = [ok |-> TRUE, out |-> << >>]
  <2>1. Queue!Read(0, TRUE, consumed)
    BY <1>1, <1>3, <1>6 DEF Queue!Read
  <2>. QED  BY <1>2, <1>4, <2>1 DEF Queue!Next
<1>7. CASE ret' = [ok |-> FALSE, out |-> << >>]
  <2>1. Queue!Read(0, FALSE, TRUE)
    BY <1>1, <1>3, <1>7 DEF Queue!Read
  <2>2. Queue!Read(Queue!Smaller(1, Len(Contents(rb))), Contents(rb) # << >>, TRUE)
    BY <1>4, <1>5, <2>1
  <2>. QED  BY <1>2, <2>2 DEF Queue!Next
<1> QED
  BY <1>6, <1>7

\* The reads: rb' is a drain of len or rb itself.
LEMMA ReadStep ==
    ASSUME Inv, Readable, NEW len \in 0 .. MaxLen, NEW consumed \in BOOLEAN,
           rb' = IF consumed THEN drain(rb, len) ELSE rb,
           ret' = [ok |-> TRUE, out |-> CopyOut(rb, len)],
           drainer' \in {"none", "all", "some"}
    PROVE  Inv' /\ Queue!Next
<1>a. CASE check(rb)
  <2>1. PICK n \in Sizes : Sound(rb, n)
    BY <1>a, Storage DEF Inv, RingInv
  <2>2. /\ n \in Nat \ {0} /\ rb.size = n /\ rb.count \in Nat /\ len \in Nat
        /\ Contents(rb) \in Seq(Elem) /\ Len(Contents(rb)) = rb.count
    BY <2>1, Storage, MaxLenAssumption
  <2>3. PICK k : k = Queue!Smaller(len, Len(Contents(rb)))
    OBVIOUS
  <2>4. CopyOut(rb, len) = SubSeq(Contents(rb), 1, k)
    BY <2>1, <2>2, <2>3, CopiedOut
  <2>5. k \in Nat /\ k <= Len(Contents(rb))
    BY <2>2, <2>3 DEF Queue!Smaller
  <2>6. CopyOut(rb, len) \in Seq(Elem)
    BY <2>2, <2>4, <2>5
  <2>7. /\ Sound(rb', n) /\ rb'.size = n
        /\ Contents(rb') = IF consumed THEN SubSeq(Contents(rb), k + 1, Len(Contents(rb)))
                                       ELSE Contents(rb)
    BY <2>1, <2>2, <2>3, DrainSound
  <2>8. Inv'
    BY <2>6, <2>7 DEF Inv, RingInv
  <2>9. Queue!Read(k, TRUE, consumed)
    BY <2>2, <2>4, <2>7 DEF Queue!Read
  <2>10. rb.size > 0 /\ Queue!Read(Queue!Smaller(len, Len(Contents(rb))), TRUE, consumed)
    <3>1. rb.size > 0
      BY <2>2
    <3>. QED  BY <2>3, <2>9, <3>1
  <2>11. Queue!Next
    BY <2>10 DEF Queue!Next
  <2> QED
    BY <2>8, <2>11
<1>b. CASE rb.count = 0
  <2>1. ToCopy(rb, len) = 0
    BY <1>b, MaxLenAssumption DEF ToCopy
  <2>2. CopyOut(rb, len) = << >> /\ drain(rb, len) = rb
    BY <1>b, <2>1 DEF CopyOut, drain
  <2>. QED  BY <1>b, <2>2, EmptyStep
<1> QED
  BY <1>a, <1>b DEF Readable

\* pop.
LEMMA PopStep ==
    ASSUME Inv, Pop
    PROVE  Inv' /\ Queue!Next
<1>1. check(rb) /\ rb.count # 0
  BY DEF Pop
<1>2. PICK n \in Sizes : Sound(rb, n)
  BY <1>1, Storage DEF Inv, RingInv
<1>3. n \in Nat \ {0}
  BY Storage
<1>4. rb' = drain(rb, 1) /\ ret' = [ok |-> TRUE, out |-> CopyOut(rb, 1)] /\ drainer' = drainer
  BY <1>1, <1>2, <1>3, PopIsDrain DEF Pop, Returns
<1>5. 1 \in 0 .. MaxLen /\ TRUE \in BOOLEAN
  BY MaxLenAssumption
<1> QED
  BY <1>1, <1>4, <1>5, ReadStep DEF Inv, Readable

\* pop of an empty ring.
LEMMA PopEmptyStep ==
    ASSUME Inv, PopEmpty
    PROVE  Inv' /\ Queue!Next
<1>1. rb.count = 0 /\ ret' = [ok |-> FALSE, out |-> << >>] /\ rb' = rb /\ drainer' = drainer
  BY DEF PopEmpty, Returns
<1>2. 1 \in 0 .. MaxLen /\ TRUE \in BOOLEAN
  BY MaxLenAssumption
<1> QED
  BY <1>1, <1>2, EmptyStep DEF Inv

\* A ring that loses its content: reset, reallocate, and its failure.
LEMMA ForgetStep ==
    ASSUME Inv, drainer' = drainer, NEW ok \in BOOLEAN, ret' = [ok |-> ok, out |-> << >>],
           Contents(rb') = << >>, RingInv',
           \/ ok /\ rb'.size \in Sizes \cup {rb.size}
           \/ ~ok /\ rb'.size = 0
    PROVE  Inv' /\ Queue!Next
<1>1. Inv'
  BY DEF Inv
<1>2. Queue!Forget(rb'.size, ok)
  BY DEF Queue!Forget
<1> QED
  BY <1>1, <1>2 DEF Queue!Next

\* Every step keeps the invariant and is a step of the queue.
LEMMA NextStep == Inv /\ [Next]_vars => Inv' /\ [Queue!Next]_Queue!vars
<1>. SUFFICES ASSUME Inv, [Next]_vars PROVE Inv' /\ [Queue!Next]_Queue!vars
  OBVIOUS
<1>a. drainer \in {"none", "all", "some"} /\ RingInv
  BY DEF Inv
<1>1. ASSUME NEW data \in Elem, Push(data) PROVE Inv' /\ Queue!Next
  BY <1>1, PushStep
<1>2. ASSUME NEW src \in Batches, PushBatch(src) PROVE Inv' /\ Queue!Next
  BY <1>2, PushBatchStep
<1>3. CASE PopEmpty
  BY <1>3, PopEmptyStep
<1>4. CASE Pop
  BY <1>4, PopStep
<1>5. ASSUME NEW len \in 0 .. MaxLen, Drain(len) PROVE Inv' /\ Queue!Next
  <2>1. /\ Readable /\ rb' = drain(rb, len) /\ ret' = [ok |-> TRUE, out |-> CopyOut(rb, len)]
        /\ drainer' \in {"none", "all", "some"} /\ TRUE \in BOOLEAN
    BY <1>a, <1>5 DEF Drain, Returns
  <2>. QED  BY <2>1, ReadStep
<1>6. ASSUME NEW len \in 0 .. MaxLen, DrainAll(len) PROVE Inv' /\ Queue!Next
  <2>1. Readable /\ rb' = drain(rb, len) /\ drainer' \in {"none", "all", "some"}
    BY <1>a, <1>6 DEF DrainAll
  <2>2. ret' = [ok |-> TRUE, out |-> CopyOut(rb, len)]
    <3>1. CASE rb.count # 0
      BY <1>6, <3>1 DEF DrainAll, Returns
    <3>2. CASE rb.count = 0
      <4>1. ToCopy(rb, len) = 0
        BY MaxLenAssumption, <3>2 DEF ToCopy
      <4>2. CopyOut(rb, len) = << >>
        BY <4>1 DEF CopyOut
      <4>. QED  BY <1>6, <3>2, <4>2 DEF DrainAll, Returns
    <3>. QED  BY <3>1, <3>2
  <2>. QED  BY <2>1, <2>2, ReadStep
<1>7. ASSUME NEW len \in 0 .. MaxLen, Peek(len) PROVE Inv' /\ Queue!Next
  <2>1. /\ Readable /\ rb' = rb /\ ret' = [ok |-> TRUE, out |-> CopyOut(rb, len)]
        /\ drainer' \in {"none", "all", "some"} /\ FALSE \in BOOLEAN
    BY <1>a, <1>7 DEF Peek, Returns
  <2>. QED  BY <2>1, ReadStep
<1>8. CASE DrainAllReturns
  <2>1. /\ rb' = rb /\ ret' = [ok |-> rb.count = 0, out |-> << >>]
        /\ (rb.count = 0) \in BOOLEAN /\ drainer' \in {"none", "all", "some"}
    BY <1>8 DEF DrainAllReturns, Returns
  <2>2. Inv'
    BY <1>a, <2>1 DEF Inv, RingInv
  <2>3. rb.size > 0 => (rb.count = 0) = (Contents(rb) = << >>)
    <3>. SUFFICES ASSUME rb.size > 0 PROVE rb.count = 0 <=> Contents(rb) = << >>
      OBVIOUS
    <3>1. PICK n \in Sizes : Sound(rb, n)
      BY <1>a, Storage DEF RingInv, check
    <3>2. Contents(rb) \in Seq(Elem) /\ Len(Contents(rb)) = rb.count
      BY <3>1, Storage
    <3>. QED  BY <3>2
  <2>4. Queue!Report(rb.count = 0)
    BY <2>1, <2>3 DEF Queue!Report
  <2>. QED  BY <2>1, <2>2, <2>4 DEF Queue!Next
<1>9. CASE Reset
  <2>1. ret' = [ok |-> TRUE, out |-> << >>] /\ drainer' = drainer /\ TRUE \in BOOLEAN
    BY <1>9 DEF Reset, Returns
  <2>2. CASE check(rb)
    <3>1. PICK n \in Sizes : Sound(rb, n)
      BY <1>a, <2>2, Storage DEF RingInv
    <3>2. rb' = NewRing(n, Zero) /\ rb.size = n
      BY <1>9, <2>2, <3>1, Storage DEF Reset, reset
    <3>3. Sound(rb', n) /\ rb'.size = n /\ Contents(rb') = << >>
      BY <3>1, <3>2, NewSound, Storage
    <3>. QED  BY <2>1, <3>2, <3>3, ForgetStep DEF RingInv
  <2>3. CASE ~check(rb)
    <3>1. rb' = rb /\ RingInv'
      BY <1>9, <1>a, <2>3 DEF Reset, reset, RingInv
    <3>2. Contents(rb) = << >>
      BY <2>3 DEF Contents
    <3>. QED  BY <2>1, <3>1, <3>2, ForgetStep
  <2>. QED  BY <2>2, <2>3
<1>10. ASSUME NEW size \in Sizes, Reallocate(size) PROVE Inv' /\ Queue!Next
  <2>1. /\ ret' = [ok |-> TRUE, out |-> << >>] /\ drainer' = drainer /\ TRUE \in BOOLEAN
        /\ rb' = NewRing(size, Zero)
    BY <1>10 DEF Reallocate, Returns
  <2>2. Sound(rb', size) /\ rb'.size = size /\ Contents(rb') = << >>
    BY <2>1, NewSound, Storage
  <2>. QED  BY <2>1, <2>2, ForgetStep DEF RingInv
<1>11. CASE ReallocateFails
  <2>1. /\ ret' = [ok |-> FALSE, out |-> << >>] /\ drainer' = drainer /\ FALSE \in BOOLEAN
        /\ rb' = [rb EXCEPT !.size = 0, !.buf = << >>]
    BY <1>11 DEF ReallocateFails, Returns, deallocated
  <2>2. rb' \in NoStorage
    <3>1. CASE rb \in NoStorage
      BY <2>1, <3>1 DEF NoStorage
    <3>2. ASSUME NEW n \in Sizes, Sound(rb, n) PROVE rb' \in NoStorage
      <4>1. rb \in RingOf(Elem \cup {Zero}, n) /\ n \in Nat \ {0}
        BY <3>2, Storage DEF Sound
      <4>2. rb.head \in Nat /\ rb.tail \in Nat /\ rb.count \in Nat
        <5>1. rb.head \in 0 .. n - 1 /\ rb.tail \in 0 .. n - 1 /\ rb.count \in Nat
          BY <4>1, Fields
        <5>. QED  BY <4>1, <5>1
      <4>3. rb = [size |-> rb.size, buf |-> rb.buf, head |-> rb.head, tail |-> rb.tail,
                  count |-> rb.count]
        BY <4>1 DEF RingOf
      <4>. QED  BY <2>1, <4>2, <4>3 DEF NoStorage
    <3>. QED  BY <1>a, <3>1, <3>2 DEF RingInv
  <2>. QED  BY <2>1, <2>2, Storage, ForgetStep DEF RingInv
<1>12. CASE UNCHANGED vars
  BY <1>12 DEF vars, Inv, RingInv, Queue!vars
<1> QED
  BY <1>1, <1>2, <1>3, <1>4, <1>5, <1>6, <1>7, <1>8, <1>9, <1>10, <1>11, <1>12 DEF Next

\* A program starts with a fresh ring, with storage or without.
LEMMA InitInv == Init => Inv /\ Queue!Init
<1>. SUFFICES ASSUME Init PROVE Inv /\ Queue!Init
  OBVIOUS
<1>1. PICK n \in Sizes \cup {0} : rb = NewRing(n, Zero)
  BY DEF Init
<1>2. ret = [ok |-> TRUE, out |-> << >>] /\ drainer = "none"
  BY DEF Init
<1>3. RingInv /\ Contents(rb) = << >> /\ rb.size \in Sizes \cup {0}
  <2>1. CASE n \in Sizes
    BY <1>1, <2>1, NewSound, Storage DEF RingInv
  <2>2. CASE n = 0
    <3>1. [i \in 0 .. 0 - 1 |-> Zero] = << >>
      OBVIOUS
    <3>2. rb \in NoStorage
      BY <1>1, <2>2, <3>1 DEF NewRing, NoStorage
    <3>. QED  BY <3>2, Storage DEF RingInv
  <2>. QED  BY <1>1, <2>1, <2>2
<1>4. Inv
  BY <1>2, <1>3 DEF Inv
<1> QED
  BY <1>2, <1>3, <1>4 DEF Queue!Init

\* The invariant holds throughout.
LEMMA Invariance == Spec => []Inv
<1>1. Inv /\ [Next]_vars => Inv'
  BY NextStep
<1> QED
  BY <1>1, InitInv, PTL DEF Spec

\* With storage the indices are inside it and the count is at most its size;
\* what the methods copy out are elements that callers wrote, never a slot
\* that still has its initial value.
THEOREM RingTypeCorrect == Spec => []TypeOK
<1>1. Inv => TypeOK
  <2>. SUFFICES ASSUME Inv PROVE TypeOK
    OBVIOUS
  <2>1. CASE rb \in NoStorage
    <3>1. ~check(rb)
      BY <2>1, Storage
    <3>. QED  BY <2>1, <3>1 DEF Inv, TypeOK, NoStorage
  <2>2. ASSUME NEW n \in Sizes, Sound(rb, n) PROVE TypeOK
    <3>1. check(rb) /\ rb \in RingOf(Elem \cup {Zero}, n)
      BY <2>2, Storage DEF Sound
    <3>. QED  BY <3>1 DEF Inv, TypeOK
  <2>. QED  BY <2>1, <2>2 DEF Inv, RingInv
<1> QED
  BY <1>1, Invariance, PTL

\* head, tail and count are kept by separate modular updates and always agree:
\* the next slot to write is count slots after the next one to read.
THEOREM IndicesAlwaysAgree == Spec => []IndicesAgree
<1>1. Inv => IndicesAgree
  <2>. SUFFICES ASSUME Inv, check(rb) PROVE rb.head = SlotAt(rb, rb.count)
    BY DEF IndicesAgree
  <2>1. PICK n \in Sizes : Sound(rb, n)
    BY Storage DEF Inv, RingInv
  <2>. QED  BY <2>1 DEF Sound, Agree
<1> QED
  BY <1>1, Invariance, PTL

\* For every size and every batch the ring is a bounded FIFO queue that forgets
\* its oldest elements.
THEOREM ImplementsQueue == Spec => QueueSpec
<1>1. Inv /\ [Next]_vars => [Queue!Next]_Queue!vars
  BY NextStep
<1> QED
  BY <1>1, InitInv, Invariance, PTL DEF Spec, QueueSpec, Queue!Spec
=============================================================================
