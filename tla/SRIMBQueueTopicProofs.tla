----------------------- MODULE SRIMBQueueTopicProofs -----------------------
(***************************************************************************)
(* Proofs about SRIMBQueueTopic, for every length of the queue, every      *)
(* number of messages, subscribers and work items.                         *)
(***************************************************************************)
EXTENDS SRIMBQueueTopic, RingBufferOpsProofs

USE QueueLenAssumption, MaxWorkItemAssumption, RequiredAssumption

(***************************************************************************)
(* Types.                                                                  *)
(***************************************************************************)

\* The ring has a slot: what the lemmas about the ring's operators ask.
LEMMA QueueLenPositive == QUEUE_LEN \in Nat \ {0}
  OBVIOUS

\* What the ring holds after a publish.
LEMMA PushedType ==
    ASSUME TypeOK, NEW d \in Data
    PROVE  Pushed(d) \in RingOf(Message, QUEUE_LEN)
  <1>1. [data |-> d, generation |-> generation + 1] \in Message
    BY DEF TypeOK, Message
  <1>. QED  BY <1>1, PushType, QueueLenPositive DEF TypeOK, Pushed

\* Every poll reads a slot of the ring.
LEMMA ReadIdxType ==
    ASSUME TypeOK, NEW s \in Subs
    PROVE  /\ ReadIdx(s) \in 0 .. QUEUE_LEN - 1
           /\ get(msg_queue, ReadIdx(s)) \in Message
  <1>1. ReadFrom(s) - oldest_generation + 1 \in Int
    BY DEF TypeOK, ReadFrom
  <1>2. Wrap(ReadFrom(s) - oldest_generation + 1, QUEUE_LEN) \in 0 .. QUEUE_LEN - 1
    BY <1>1, WrapRange, QueueLenPositive
  <1>3. msg_queue.tail \in 0 .. QUEUE_LEN - 1
    BY DEF TypeOK, RingOf
  <1>4. ReadIdx(s) \in 0 .. QUEUE_LEN - 1
    <2>1. msg_queue.tail + Wrap(ReadFrom(s) - oldest_generation + 1, QUEUE_LEN) \in Int
      BY <1>2, <1>3
    <2>. QED  BY <2>1, WrapRange, QueueLenPositive DEF ReadIdx
  <1>. QED  BY <1>4 DEF get, TypeOK, RingOf

\* The counters stay in a uint8_t.
LEMMA SubmitType ==
    ASSUME TypeOK, submit_workitems, workitem_count' = workitem_count
    PROVE  /\ work_items' \in [Entries -> Schedule]
           /\ \A i \in Registered' : work_items'[i].work_item \in WorkItems
           /\ queued' \subseteq WorkItems
  <1>1. Registered \subseteq Entries /\ Registered' = Registered
    BY DEF TypeOK, Registered, Entries
  <1>2. ASSUME NEW i \in Entries
        PROVE  /\ work_items'[i] \in Schedule
               /\ work_items'[i].work_item = work_items[i].work_item
    <2>1. work_items[i] \in Schedule
      BY DEF TypeOK
    <2>2. CountedUpdates(i) \in 0 .. 255
      BY <2>1 DEF CountedUpdates, Schedule
    <2>3. (IF Due(i) THEN 0 ELSE CountedUpdates(i)) \in 0 .. 255
      BY <2>2
    <2>. QED  BY <2>1, <2>3 DEF submit_workitems, Schedule
  <1>3. work_items' \in [Entries -> Schedule]
    <2>1. work_items' = [i \in Entries |-> work_items'[i]]
      BY DEF submit_workitems
    <2>. QED  BY <1>2, <2>1
  <1>4. queued' \subseteq WorkItems
    BY DEF TypeOK, submit_workitems
  <1>. QED  BY <1>1, <1>2, <1>3, <1>4 DEF TypeOK

\* Callers pass requirements that fit a uint8_t.
LEMMA NewEntryType ==
    ASSUME NEW w \in WorkItems, NEW required \in Required
    PROVE  NewEntry(w, required) \in Schedule
  BY DEF NewEntry, Schedule

\* Before anything is published the types hold.
LEMMA InitTypeOK == Init => TypeOK
  <1>. SUFFICES ASSUME Init PROVE TypeOK
    OBVIOUS
  <1>1. msg_queue \in RingOf(Message, QUEUE_LEN)
    <2>1. [data |-> NoData, generation |-> 0] \in Message
      BY DEF Message
    <2>. QED  BY <2>1, NewRingType, QueueLenPositive DEF Init
  <1>2. work_items \in [Entries -> Schedule] /\ Registered = {}
    BY DEF Init, Schedule, Registered
  <1>3. published \in Seq(Data)
    BY DEF Init
  <1>. QED  BY <1>1, <1>2, <1>3 DEF Init, TypeOK

\* Every step keeps the types; the ring's part of it is what a push does.
LEMMA NextTypeOK == TypeOK /\ [Next]_vars => TypeOK'
  <1>. SUFFICES ASSUME TypeOK, [Next]_vars PROVE TypeOK'
    OBVIOUS
  <1>1. ASSUME NEW d \in Data, Publish(d) PROVE TypeOK'
    <2>1. msg_queue' \in RingOf(Message, QUEUE_LEN)
      BY <1>1, PushedType DEF Publish
    <2>2. oldest_generation' \in Nat
      BY <1>1, PushedType DEF Publish, RingOf, Message, get
    <2>3. /\ work_items' \in [Entries -> Schedule]
          /\ \A i \in Registered' : work_items'[i].work_item \in WorkItems
          /\ queued' \subseteq WorkItems
      BY <1>1, SubmitType DEF Publish
    <2>4. generation' \in Nat /\ published' \in Seq(Data)
      BY <1>1 DEF Publish, TypeOK
    <2>. QED  BY <1>1, <2>1, <2>2, <2>3, <2>4 DEF Publish, TypeOK, subVars
  <1>2. ASSUME NEW s \in Subs, PollNothing(s) PROVE TypeOK'
    BY <1>2 DEF PollNothing, TypeOK, topicVars, itemVars, history, Registered
  <1>3. ASSUME NEW s \in Subs, PollMessage(s) PROVE TypeOK'
    <2>1. get(msg_queue, ReadIdx(s)) \in Message
      BY ReadIdxType
    <2>2. last_generation' \in [Subs -> Nat]
      BY <1>3, <2>1 DEF PollMessage, TypeOK, Message
    <2>3. polled' \in [Subs -> [ok : BOOLEAN, data : Data \cup {NoData}]]
      BY <1>3, <2>1 DEF PollMessage, TypeOK, Message
    <2>4. missed' \in [Subs -> BOOLEAN]
      BY <1>3 DEF PollMessage, TypeOK
    <2>. QED  BY <1>3, <2>2, <2>3, <2>4
              DEF PollMessage, TypeOK, topicVars, itemVars, history, Registered
  <1>4. ASSUME NEW s \in Subs, ClearMissed(s) PROVE TypeOK'
    BY <1>4 DEF ClearMissed, TypeOK, topicVars, itemVars, history, Registered
  <1>5. ASSUME NEW w \in WorkItems, NEW required \in Required, Register(w, required)
        PROVE  TypeOK'
    <2>1. work_items' \in [Entries -> Schedule] /\ since' \in [Entries -> Nat]
      BY <1>5, NewEntryType DEF Register, TypeOK
    <2>2. workitem_count' \in 0 .. MAX_WORK_ITEM
      BY <1>5 DEF Register, TypeOK
    <2>3. ASSUME NEW i \in Registered' PROVE work_items'[i].work_item \in WorkItems
      BY <1>5 DEF Register, NewEntry, TypeOK, Registered, Entries
    <2>. QED  BY <1>5, <2>1, <2>2, <2>3 DEF Register, TypeOK, topicVars, subVars
  <1>6. ASSUME NEW w \in WorkItems, NEW required \in Required,
               set_required_updates(w, required)
        PROVE  TypeOK'
    <2>1. PICK i \in Registered :
            /\ work_items[i].work_item = w
            /\ work_items' = [work_items EXCEPT ![i] = NewEntry(w, required)]
            /\ since' = [since EXCEPT ![i] = generation]
            /\ UNCHANGED <<topicVars, subVars, workitem_count, queued, published, started>>
      BY <1>6 DEF set_required_updates
    <2>2. work_items' \in [Entries -> Schedule] /\ since' \in [Entries -> Nat]
      BY <2>1, NewEntryType DEF TypeOK
    <2>3. ASSUME NEW j \in Registered' PROVE work_items'[j].work_item \in WorkItems
      <3>1. Registered' = Registered /\ Registered \subseteq Entries
        BY <2>1 DEF TypeOK, Registered, Entries
      <3>2. work_items'[j].work_item = work_items[j].work_item
        BY <2>1, <3>1 DEF TypeOK, NewEntry
      <3>. QED  BY <3>1, <3>2 DEF TypeOK
    <2>. QED  BY <2>1, <2>2, <2>3 DEF TypeOK, topicVars, subVars
  <1>7. ASSUME NEW w \in WorkItems, StartItem(w) PROVE TypeOK'
    BY <1>7 DEF StartItem, TypeOK, topicVars, subVars, Registered
  <1>8. CASE UNCHANGED vars
    BY <1>8 DEF vars, topicVars, itemVars, subVars, history, TypeOK, Registered
  <1>. QED  BY <1>1, <1>2, <1>3, <1>4, <1>5, <1>6, <1>7, <1>8 DEF Next

\* Every variable of the topic keeps its type, for every value of the
\* constants: the indices stay in the ring, the counters in a uint8_t, and
\* work_items never overflows.
THEOREM TypeCorrect == Spec => []TypeOK
  BY InitTypeOK, NextTypeOK, PTL DEF Spec

(***************************************************************************)
(* The ring and the log of what was published.                             *)
(***************************************************************************)

LogInv == TypeOK /\ RingHoldsNewest /\ HoldsWhatItRecorded

\* A publish appends its message to what the ring holds and drops the oldest
\* message of a full ring: oldest_generation, read back from the slot at the
\* tail, moves with it.
LEMMA PublishKeepsRing ==
    ASSUME TypeOK, RingHoldsNewest, NEW d \in Data, Publish(d)
    PROVE  RingHoldsNewest'
  <1>. DEFINE e == Evicted(msg_queue)
              new == [data |-> d, generation |-> generation + 1]
  <1>1. /\ msg_queue \in RingOf(Message, QUEUE_LEN)
        /\ msg_queue.size = QUEUE_LEN
        /\ new \in Message
        /\ generation \in Nat /\ oldest_generation \in Nat
        /\ published \in Seq(Data) /\ Len(published) = generation
    BY DEF TypeOK, RingOf, RingHoldsNewest, Message
  <1>2. /\ msg_queue' = push(msg_queue, new)
        /\ generation' = generation + 1
        /\ oldest_generation' = get(msg_queue', msg_queue'.tail).generation
        /\ published' = Append(published, d)
    BY DEF Publish, Pushed
  <1>3. /\ msg_queue'.count = msg_queue.count + 1 - e
        /\ msg_queue'.head = SlotAt(msg_queue', msg_queue'.count)
        /\ msg_queue'.buf[SlotAt(msg_queue', msg_queue'.count - 1)] = new
        /\ \A j \in 0 .. msg_queue'.count - 2 :
              msg_queue'.buf[SlotAt(msg_queue', j)] = msg_queue.buf[SlotAt(msg_queue, j + e)]
    BY <1>1, <1>2, PushContents, QueueLenPositive DEF RingHoldsNewest
  <1>4. /\ msg_queue' \in RingOf(Message, QUEUE_LEN)
        /\ SlotAt(msg_queue', 0) = msg_queue'.tail
    <2>1. msg_queue' \in RingOf(Message, QUEUE_LEN)
      BY <1>1, <1>2, PushType, QueueLenPositive
    <2>2. msg_queue'.tail \in 0 .. QUEUE_LEN - 1 /\ msg_queue'.size = QUEUE_LEN
      BY <2>1 DEF RingOf
    <2>3. msg_queue'.tail + 0 = msg_queue'.tail /\ msg_queue'.tail \in 0 .. 2 * QUEUE_LEN - 1
      BY <2>2
    <2>4. Wrap(msg_queue'.tail, QUEUE_LEN) = msg_queue'.tail
      BY <2>2, <2>3, WrapOnce, QueueLenPositive
    <2>. QED  BY <2>1, <2>2, <2>3, <2>4 DEF SlotAt
  <1>5. /\ msg_queue.count = Kept
        /\ e = IF generation < QUEUE_LEN THEN 0 ELSE 1
        /\ e \in {0, 1}
        /\ Kept' = Kept + 1 - e
        /\ Kept \in Nat
        /\ generation > 0 => oldest_generation = generation - Kept + 1
    BY <1>1, <1>2 DEF RingHoldsNewest, Kept, Evicted
  <1>6. msg_queue'.count = Kept'
    BY <1>3, <1>5
  <1>7. ASSUME NEW j \in 0 .. Kept' - 2
        PROVE  /\ generation > 0
               /\ oldest_generation + e + j \in 1 .. generation
               /\ msg_queue'.buf[SlotAt(msg_queue', j)] =
                     [data |-> published[oldest_generation + e + j],
                      generation |-> oldest_generation + e + j]
    <2>1. j + e \in 0 .. Kept - 1 /\ generation > 0
      BY <1>1, <1>5 DEF Kept
    <2>2. msg_queue'.buf[SlotAt(msg_queue', j)] = msg_queue.buf[SlotAt(msg_queue, j + e)]
      BY <1>3, <1>6
    <2>3. msg_queue.buf[SlotAt(msg_queue, j + e)] =
            [data |-> published[oldest_generation + (j + e)],
             generation |-> oldest_generation + (j + e)]
      BY <2>1 DEF RingHoldsNewest
    <2>4. /\ oldest_generation + (j + e) = oldest_generation + e + j
          /\ oldest_generation = generation - Kept + 1
      BY <1>1, <1>5, <2>1 DEF RingHoldsNewest
    <2>5. oldest_generation + e + j \in 1 .. generation
      BY <1>1, <1>5, <2>1, <2>4 DEF Kept
    <2>. QED  BY <2>1, <2>2, <2>3, <2>4, <2>5
  <1>8. oldest_generation' = generation' - Kept' + 1
    <2>1. CASE Kept' = 1
      <3>1. msg_queue'.buf[msg_queue'.tail] = new
        BY <1>3, <1>4, <1>6, <2>1
      <3>. QED  BY <1>1, <1>2, <2>1, <3>1 DEF get
    <2>2. CASE Kept' # 1
      <3>1. 0 \in 0 .. Kept' - 2
        BY <1>1, <1>5, <2>2 DEF Kept
      <3>2. /\ generation > 0
            /\ msg_queue'.buf[SlotAt(msg_queue', 0)] =
                  [data |-> published[oldest_generation + e + 0],
                   generation |-> oldest_generation + e + 0]
        BY <1>7, <3>1
      <3>3. oldest_generation' = oldest_generation + e + 0
        BY <1>2, <1>4, <3>2 DEF get
      <3>. QED  BY <1>1, <1>2, <1>5, <3>2, <3>3
    <2>. QED  BY <2>1, <2>2
  <1>9. ASSUME NEW j \in 0 .. Kept' - 1
        PROVE  msg_queue'.buf[SlotAt(msg_queue', j)] =
                 [data |-> published'[oldest_generation' + j],
                  generation |-> oldest_generation' + j]
    <2>1. CASE j = Kept' - 1
      <3>1. oldest_generation' + j = generation + 1
        BY <1>1, <1>2, <1>5, <1>8, <2>1
      <3>2. published'[generation + 1] = d
        BY <1>1, <1>2
      <3>. QED  BY <1>3, <1>6, <2>1, <3>1, <3>2
    <2>2. CASE j # Kept' - 1
      <3>1. j \in 0 .. Kept' - 2
        BY <1>5, <2>2
      <3>2. oldest_generation' = oldest_generation + e
        <4>1. generation > 0
          BY <1>7, <3>1
        <4>. QED  BY <1>1, <1>2, <1>5, <1>8, <4>1
      <3>3. /\ oldest_generation + e + j \in 1 .. generation
            /\ msg_queue'.buf[SlotAt(msg_queue', j)] =
                  [data |-> published[oldest_generation + e + j],
                   generation |-> oldest_generation + e + j]
        BY <1>7, <3>1
      <3>4. published'[oldest_generation + e + j] = published[oldest_generation + e + j]
        BY <1>1, <1>2, <3>3
      <3>. QED  BY <3>2, <3>3, <3>4
    <2>. QED  BY <2>1, <2>2
  <1>10. Len(published') = generation'
    BY <1>1, <1>2
  <1>. QED  BY <1>3, <1>6, <1>8, <1>9, <1>10 DEF RingHoldsNewest

\* A poll that finds the topic ahead of its subscriber reads the slot of the
\* message after ReadFrom(s), and ReadFrom(s) is past what the subscriber had
\* read exactly when it was overtaken.
LEMMA PollReads ==
    ASSUME LogInv, NEW s \in Subs, last_generation[s] # generation
    PROVE  /\ ReadFrom(s) + 1 \in last_generation[s] + 1 .. generation
           /\ ReadFrom(s) + 1 = IF Overtaken(s) THEN oldest_generation
                                                ELSE last_generation[s] + 1
           /\ oldest_generation = generation - Kept + 1
           /\ get(msg_queue, ReadIdx(s)) = [data |-> published[ReadFrom(s) + 1],
                                            generation |-> ReadFrom(s) + 1]
  <1>. DEFINE offset == ReadFrom(s) - oldest_generation + 1
  <1>1. /\ last_generation[s] \in Nat /\ last_generation[s] < generation
        /\ generation \in Nat /\ oldest_generation \in Nat
        /\ oldest_generation = generation - Kept + 1
        /\ msg_queue.size = QUEUE_LEN
    BY DEF LogInv, TypeOK, HoldsWhatItRecorded, RingHoldsNewest, RingOf
  <1>2. Kept \in 1 .. QUEUE_LEN
    BY <1>1 DEF Kept
  <1>3. /\ ReadFrom(s) + 1 \in last_generation[s] + 1 .. generation
        /\ ReadFrom(s) + 1 = IF Overtaken(s) THEN oldest_generation
                                             ELSE last_generation[s] + 1
        /\ offset \in 0 .. Kept - 1
        /\ oldest_generation + offset = ReadFrom(s) + 1
    BY <1>1, <1>2 DEF ReadFrom, Overtaken
  <1>4. ReadIdx(s) = SlotAt(msg_queue, offset)
    <2>1. offset \in 0 .. 2 * QUEUE_LEN - 1 /\ offset < QUEUE_LEN
      BY <1>2, <1>3
    <2>2. Wrap(offset, QUEUE_LEN) = offset
      BY <2>1, WrapOnce, QueueLenPositive
    <2>. QED  BY <1>1, <2>2 DEF ReadIdx, SlotAt
  <1>5. get(msg_queue, ReadIdx(s)) = [data |-> published[oldest_generation + offset],
                                     generation |-> oldest_generation + offset]
    BY <1>3, <1>4 DEF LogInv, RingHoldsNewest, get
  <1>. QED  BY <1>1, <1>3, <1>5

\* An empty ring holds the newest messages of an empty log.
LEMMA InitLogInv == Init => LogInv
  <1>. SUFFICES ASSUME Init PROVE RingHoldsNewest /\ HoldsWhatItRecorded
    BY InitTypeOK DEF LogInv
  <1>1. Kept = 0 /\ Len(published) = 0
    BY DEF Init, Kept
  <1>2. msg_queue.count = 0 /\ msg_queue.head = SlotAt(msg_queue, msg_queue.count)
    <2>1. msg_queue.head = 0 /\ msg_queue.tail = 0 /\ msg_queue.count = 0
          /\ msg_queue.size = QUEUE_LEN
      BY DEF Init, NewRing
    <2>2. Wrap(0 + 0, QUEUE_LEN) = 0
      BY DEF Wrap
    <2>. QED  BY <2>1, <2>2 DEF SlotAt
  <1>3. RingHoldsNewest
    BY <1>1, <1>2 DEF Init, RingHoldsNewest
  <1>4. HoldsWhatItRecorded
    BY DEF Init, HoldsWhatItRecorded
  <1>. QED  BY <1>3, <1>4

\* Every step keeps ring and log together: a publish by what a push does to
\* the content, a poll by finding the slot of the generation it records.
LEMMA NextLogInv == LogInv /\ [Next]_vars => LogInv'
  <1>. SUFFICES ASSUME LogInv, [Next]_vars
                PROVE  RingHoldsNewest' /\ HoldsWhatItRecorded'
    BY NextTypeOK DEF LogInv
  <1>1. ASSUME NEW d \in Data, Publish(d)
        PROVE  RingHoldsNewest' /\ HoldsWhatItRecorded'
    <2>1. ASSUME NEW s \in Subs
          PROVE  /\ last_generation'[s] <= generation'
                 /\ polled'[s].ok => /\ last_generation'[s] > 0
                                     /\ polled'[s].data = published'[last_generation'[s]]
      <3>1. /\ last_generation' = last_generation /\ polled' = polled
            /\ generation' = generation + 1 /\ published' = Append(published, d)
        BY <1>1 DEF Publish, subVars
      <3>2. /\ last_generation[s] \in Nat /\ generation \in Nat
            /\ published \in Seq(Data) /\ Len(published) = generation
            /\ last_generation[s] <= generation
            /\ polled[s].ok => /\ last_generation[s] > 0
                               /\ polled[s].data = published[last_generation[s]]
        BY DEF LogInv, TypeOK, RingHoldsNewest, HoldsWhatItRecorded
      <3>3. last_generation[s] > 0 =>
              published'[last_generation[s]] = published[last_generation[s]]
        BY <3>1, <3>2
      <3>. QED  BY <3>1, <3>2, <3>3
    <2>. QED  BY <1>1, <2>1, PublishKeepsRing DEF LogInv, HoldsWhatItRecorded
  <1>2. ASSUME UNCHANGED <<topicVars, published>>
        PROVE  RingHoldsNewest'
    BY <1>2 DEF LogInv, RingHoldsNewest, topicVars, Kept
  <1>3. ASSUME NEW s \in Subs, PollNothing(s)
        PROVE  RingHoldsNewest' /\ HoldsWhatItRecorded'
    <2>1. RingHoldsNewest'
      BY <1>2, <1>3 DEF PollNothing, history
    <2>2. HoldsWhatItRecorded'
      BY <1>3 DEF PollNothing, history, topicVars, LogInv, TypeOK, HoldsWhatItRecorded
    <2>. QED  BY <2>1, <2>2
  <1>4. ASSUME NEW s \in Subs, PollMessage(s)
        PROVE  RingHoldsNewest' /\ HoldsWhatItRecorded'
    <2>1. RingHoldsNewest'
      BY <1>2, <1>4 DEF PollMessage, history
    <2>2. /\ ReadFrom(s) + 1 \in 1 .. generation
          /\ get(msg_queue, ReadIdx(s)) = [data |-> published[ReadFrom(s) + 1],
                                           generation |-> ReadFrom(s) + 1]
      BY <1>4, PollReads DEF PollMessage, LogInv, TypeOK
    <2>3. /\ generation' = generation /\ published' = published
          /\ last_generation' = [last_generation EXCEPT ![s] = ReadFrom(s) + 1]
          /\ polled' = [polled EXCEPT ![s] =
                           [ok |-> TRUE, data |-> published[ReadFrom(s) + 1]]]
      BY <1>4, <2>2 DEF PollMessage, topicVars, history
    <2>4. HoldsWhatItRecorded'
      BY <2>2, <2>3 DEF LogInv, TypeOK, HoldsWhatItRecorded
    <2>. QED  BY <2>1, <2>4
  <1>5. ASSUME UNCHANGED <<topicVars, last_generation, polled, published>>
        PROVE  RingHoldsNewest' /\ HoldsWhatItRecorded'
    BY <1>2, <1>5 DEF LogInv, HoldsWhatItRecorded, topicVars
  <1>6. ASSUME NEW s \in Subs, ClearMissed(s)
        PROVE  RingHoldsNewest' /\ HoldsWhatItRecorded'
    BY <1>5, <1>6 DEF ClearMissed, history
  <1>7. ASSUME NEW w \in WorkItems, NEW required \in Required,
               Register(w, required) \/ set_required_updates(w, required)
        PROVE  RingHoldsNewest' /\ HoldsWhatItRecorded'
    BY <1>5, <1>7 DEF Register, set_required_updates, subVars
  <1>8. ASSUME NEW w \in WorkItems, StartItem(w)
        PROVE  RingHoldsNewest' /\ HoldsWhatItRecorded'
    BY <1>5, <1>8 DEF StartItem, subVars
  <1>9. CASE UNCHANGED vars
    BY <1>5, <1>9 DEF vars, subVars, history
  <1>. QED  BY <1>1, <1>3, <1>4, <1>6, <1>7, <1>8, <1>9 DEF Next

\* The ring always holds exactly the newest QUEUE_LEN messages, in order and
\* each under its generation.
THEOREM RingCorrect == Spec => []RingHoldsNewest
  <1>1. LogInv => RingHoldsNewest
    BY DEF LogInv
  <1>. QED  BY <1>1, InitLogInv, NextLogInv, PTL DEF Spec

\* What a subscriber holds is the message of the generation it recorded.
THEOREM PollCorrect == Spec => []HoldsWhatItRecorded
  <1>1. LogInv => HoldsWhatItRecorded
    BY DEF LogInv
  <1>. QED  BY <1>1, InitLogInv, NextLogInv, PTL DEF Spec

(***************************************************************************)
(* The queued topic implements the log.                                    *)
(***************************************************************************)

\* Every step of the topic is a step of the log or leaves it unchanged.
LEMMA StepRefinesLog == LogInv /\ [Next]_vars => [Log!Next]_(Log!vars)
  <1>. SUFFICES ASSUME LogInv, [Next]_vars PROVE [Log!Next]_(Log!vars)
    OBVIOUS
  <1>1. ASSUME NEW d \in Data, Publish(d) PROVE Log!Publish(d)
    BY <1>1 DEF Publish, subVars, Log!Publish
  <1>2. ASSUME NEW s \in Subs, PollNothing(s) PROVE Log!ReadNothing(s)
    BY <1>2 DEF PollNothing, history, LogInv, RingHoldsNewest, Log!ReadNothing
  <1>3. ASSUME NEW s \in Subs, PollMessage(s) PROVE Log!ReadNext(s)
    <2>1. /\ last_generation[s] \in Nat /\ generation \in Nat
          /\ last_generation[s] < generation
          /\ Len(published) = generation
          /\ missed \in [Subs -> BOOLEAN]
      BY <1>3 DEF PollMessage, LogInv, TypeOK, RingHoldsNewest, HoldsWhatItRecorded
    <2>2. /\ ReadFrom(s) + 1 = IF Overtaken(s) THEN oldest_generation
                                               ELSE last_generation[s] + 1
          /\ oldest_generation = generation - Kept + 1
          /\ get(msg_queue, ReadIdx(s)) = [data |-> published[ReadFrom(s) + 1],
                                           generation |-> ReadFrom(s) + 1]
      BY <1>3, PollReads DEF PollMessage
    <2>3. Log!Oldest = oldest_generation
      BY <2>1, <2>2 DEF Log!Oldest, Kept
    <2>4. /\ Log!NextFor(s) = ReadFrom(s) + 1
          /\ Overtaken(s) <=> Log!NextFor(s) # last_generation[s] + 1
      BY <2>1, <2>2, <2>3 DEF Log!NextFor, Overtaken
    <2>5. missed' = [missed EXCEPT ![s] = @ \/ Log!NextFor(s) # last_generation[s] + 1]
      BY <1>3, <2>4, Zenon DEF PollMessage
    <2>6. /\ last_generation' = [last_generation EXCEPT ![s] = Log!NextFor(s)]
          /\ polled' = [polled EXCEPT ![s] =
                           [ok |-> TRUE, data |-> published[Log!NextFor(s)]]]
          /\ published' = published
      BY <1>3, <2>2, <2>4 DEF PollMessage, history
    <2>. QED  BY <2>1, <2>5, <2>6 DEF Log!ReadNext
  <1>4. ASSUME NEW s \in Subs, ClearMissed(s) PROVE Log!Acknowledge(s)
    BY <1>4 DEF ClearMissed, history, Log!Acknowledge
  <1>5. ASSUME UNCHANGED <<subVars, published>> PROVE UNCHANGED Log!vars
    BY <1>5 DEF subVars, Log!vars
  <1>6. ASSUME NEW w \in WorkItems, NEW required \in Required,
               Register(w, required) \/ set_required_updates(w, required)
        PROVE  UNCHANGED Log!vars
    BY <1>5, <1>6 DEF Register, set_required_updates
  <1>7. ASSUME NEW w \in WorkItems, StartItem(w) PROVE UNCHANGED Log!vars
    BY <1>5, <1>7 DEF StartItem
  <1>8. CASE UNCHANGED vars
    BY <1>5, <1>8 DEF vars, history
  <1>. QED  BY <1>1, <1>2, <1>3, <1>4, <1>6, <1>7, <1>8 DEF Next, Log!Next

\* For every queue length the topic is a log of which the newest QUEUE_LEN
\* messages can be read: subscribers see the messages in order, each at most
\* once, and a skip never happens without the missed flag.
THEOREM ImplementsLog == Spec => LogSpec
  <1>1. Init => Log!Init
    BY DEF Init, Log!Init
  <1>. QED  BY <1>1, InitLogInv, NextLogInv, StepRefinesLog, PTL
            DEF Spec, LogSpec, Log!Spec

(***************************************************************************)
(* Notification of the work items.                                         *)
(***************************************************************************)

\* An entry never reaches its requirement between two calls, and while its
\* work item is not queued it has counted every message it was not told of.
CountsUntold ==
    \A i \in Registered :
        /\ work_items[i].updates_count < Later(1, work_items[i].required_updates)
        /\ work_items[i].work_item \notin queued
              => work_items[i].updates_count >= Untold(i)

\* Every step keeps the counters in agreement with the messages that their
\* items have not been told of.
LEMMA NextCountsUntold == TypeOK /\ CountsUntold /\ [Next]_vars => CountsUntold'
  <1>. SUFFICES ASSUME TypeOK, CountsUntold, [Next]_vars, NEW i \in Registered'
                PROVE  /\ work_items'[i].updates_count
                             < Later(1, work_items'[i].required_updates)
                       /\ work_items'[i].work_item \notin queued'
                             => work_items'[i].updates_count >= Untold(i)'
    BY DEF CountsUntold
  <1>. DEFINE Told == /\ work_items'[i].updates_count
                             < Later(1, work_items'[i].required_updates)
                      /\ work_items'[i].work_item \notin queued'
                             => work_items'[i].updates_count >= Untold(i)'
  <1>1. Registered \subseteq Entries /\ Registered' \subseteq Entries
    <2>1. TypeOK'
      BY NextTypeOK
    <2>2. workitem_count \in 0 .. MAX_WORK_ITEM /\ workitem_count' \in 0 .. MAX_WORK_ITEM
      BY <2>1 DEF TypeOK
    <2>3. ASSUME NEW n \in 0 .. MAX_WORK_ITEM PROVE 0 .. n - 1 \subseteq Entries
      BY DEF Entries
    <2>. QED  BY <2>2, <2>3 DEF Registered
  <1>2. /\ generation \in Nat
        /\ work_items[i] \in Schedule /\ since[i] \in Nat
        /\ i \in Registered => /\ work_items[i].work_item \in WorkItems
                               /\ started[work_items[i].work_item] \in Nat
    BY <1>1 DEF TypeOK
  <1>3. /\ work_items[i].updates_count \in 0 .. 255
        /\ work_items[i].required_updates \in 0 .. 255
    BY <1>2 DEF Schedule
  <1>4. ASSUME NEW d \in Data, Publish(d) PROVE Told
    <2>1. /\ i \in Registered /\ i \in Entries
          /\ generation' = generation + 1 /\ since' = since /\ started' = started
      BY <1>1, <1>4 DEF Publish, Registered
    <2>2. CountedUpdates(i) = work_items[i].updates_count + 1
      BY <1>3, <2>1 DEF CountsUntold, Later, CountedUpdates
    <2>3. work_items'[i] = [work_items[i] EXCEPT
              !.updates_count = IF Due(i) THEN 0 ELSE CountedUpdates(i)]
      BY <1>4, <2>1 DEF Publish, submit_workitems
    <2>4. /\ work_items'[i].work_item = work_items[i].work_item
          /\ work_items'[i].required_updates = work_items[i].required_updates
          /\ work_items'[i].updates_count = IF Due(i) THEN 0 ELSE CountedUpdates(i)
      BY <1>2, <2>3 DEF Schedule
    <2>5. Untold(i)' = Untold(i) + 1
      BY <1>2, <2>1, <2>4 DEF Untold, Later
    <2>6. Due(i) => work_items[i].work_item \in queued'
      BY <1>4, <2>1 DEF Publish, submit_workitems
    <2>7. work_items[i].work_item \in queued => work_items[i].work_item \in queued'
      BY <1>4 DEF Publish, submit_workitems
    <2>8. Untold(i) \in Int
      BY <1>2, <2>1 DEF Untold, Later
    <2>9. CASE Due(i)
      BY <1>3, <2>4, <2>6, <2>9 DEF Later
    <2>10. CASE ~Due(i)
      <3>1. CountedUpdates(i) < work_items[i].required_updates
        <4>1. CountedUpdates(i) \in Int
          BY <1>3, <2>2
        <4>. QED  BY <1>3, <4>1, <2>10 DEF Due
      <3>2. work_items[i].work_item \notin queued => work_items[i].updates_count >= Untold(i)
        BY <2>1 DEF CountsUntold
      <3>3. /\ work_items'[i].updates_count = work_items[i].updates_count + 1
            /\ work_items'[i].required_updates = work_items[i].required_updates
            /\ work_items'[i].updates_count < work_items[i].required_updates
        BY <2>2, <2>4, <2>10, <3>1
      <3>4. work_items'[i].updates_count < Later(1, work_items'[i].required_updates)
        BY <1>3, <3>3 DEF Later
      <3>5. ASSUME work_items'[i].work_item \notin queued'
            PROVE  work_items'[i].updates_count >= Untold(i)'
        <4>1. work_items[i].updates_count >= Untold(i)
          BY <2>4, <2>7, <3>2, <3>5
        <4>. QED  BY <1>3, <2>5, <2>8, <3>3, <4>1
      <3>. QED  BY <3>4, <3>5
    <2>. QED  BY <2>9, <2>10
  <1>5. ASSUME UNCHANGED <<generation, work_items, workitem_count, queued, since, started>>
        PROVE  Told
    BY <1>5 DEF CountsUntold, Registered, Untold
  <1>6. ASSUME NEW s \in Subs, PollNothing(s) \/ PollMessage(s) \/ ClearMissed(s)
        PROVE  Told
    BY <1>5, <1>6 DEF PollNothing, PollMessage, ClearMissed, topicVars, itemVars, history
  <1>7. ASSUME NEW w \in WorkItems, NEW required \in Required,
               NEW k \in Entries,
               work_items' = [work_items EXCEPT ![k] = NewEntry(w, required)],
               since' = [since EXCEPT ![k] = generation],
               UNCHANGED <<generation, queued, started>>,
               i = k \/ i \in Registered
        PROVE  Told
    <2>1. CASE i = k
      <3>1. work_items'[i] = NewEntry(w, required) /\ since'[i] = generation
        BY <1>7, <2>1 DEF TypeOK
      <3>2. /\ work_items'[i].work_item = w
            /\ work_items'[i].required_updates = required
            /\ work_items'[i].updates_count = 0
        BY <3>1 DEF NewEntry
      <3>3. started[w] \in Nat /\ required \in Nat
        BY DEF TypeOK
      <3>4. Untold(i)' <= 0
        BY <1>2, <1>7, <3>1, <3>2, <3>3 DEF Untold, Later
      <3>5. Untold(i)' \in Int
        BY <1>2, <1>7, <3>1, <3>2, <3>3 DEF Untold, Later
      <3>. QED  BY <3>2, <3>3, <3>4, <3>5 DEF Later
    <2>2. CASE i # k
      <3>1. work_items'[i] = work_items[i] /\ since'[i] = since[i] /\ i \in Registered
        BY <1>7, <2>2 DEF TypeOK
      <3>. QED  BY <1>7, <3>1 DEF CountsUntold, Untold
    <2>. QED  BY <2>1, <2>2
  <1>8. ASSUME NEW w \in WorkItems, NEW required \in Required, Register(w, required)
        PROVE  Told
    <2>1. workitem_count \in Entries /\ (i = workitem_count \/ i \in Registered)
      BY <1>8 DEF Register, TypeOK, Registered, Entries
    <2>. QED  BY <1>7, <1>8, <2>1 DEF Register, topicVars
  <1>9. ASSUME NEW w \in WorkItems, NEW required \in Required,
               set_required_updates(w, required)
        PROVE  Told
    <2>1. PICK k \in Registered :
            /\ work_items' = [work_items EXCEPT ![k] = NewEntry(w, required)]
            /\ since' = [since EXCEPT ![k] = generation]
            /\ UNCHANGED <<topicVars, subVars, workitem_count, queued, published, started>>
      BY <1>9 DEF set_required_updates
    <2>2. i \in Registered
      BY <2>1 DEF Registered
    <2>. QED  BY <1>1, <1>7, <2>1, <2>2 DEF topicVars
  <1>10. ASSUME NEW w \in WorkItems, StartItem(w) PROVE Told
    <2>1. /\ i \in Registered
          /\ work_items' = work_items /\ since' = since /\ generation' = generation
          /\ queued' = queued \ {w}
          /\ started' = [started EXCEPT ![w] = generation]
      BY <1>10 DEF StartItem, Registered, topicVars
    <2>2. CASE work_items[i].work_item = w
      <3>1. Untold(i)' <= 0 /\ Untold(i)' \in Int
        BY <1>2, <2>1, <2>2 DEF TypeOK, Untold, Later
      <3>. QED  BY <1>3, <2>1, <3>1 DEF CountsUntold
    <2>3. CASE work_items[i].work_item # w
      BY <1>2, <2>1, <2>3 DEF TypeOK, CountsUntold, Untold
    <2>. QED  BY <2>2, <2>3
  <1>11. CASE UNCHANGED vars
    BY <1>5, <1>11 DEF vars, topicVars, itemVars, history
  <1>. QED  BY <1>4, <1>6, <1>8, <1>9, <1>10, <1>11 DEF Next

\* No sequence of publishes, registrations, changed requirements and starts
\* of work items loses a wake-up.
THEOREM WakeUpsKept == Spec => []NotifiedInTime
  <1>1. Init => CountsUntold
    BY DEF Init, CountsUntold, Registered
  <1>2. TypeOK /\ CountsUntold => NotifiedInTime
    <2>. SUFFICES ASSUME TypeOK, CountsUntold, NEW i \in Registered,
                         work_items[i].work_item \notin queued
                  PROVE  ~(Untold(i) >= Later(1, work_items[i].required_updates))
      BY DEF NotifiedInTime
    <2>1. /\ work_items[i] \in Schedule /\ work_items[i].work_item \in WorkItems
          /\ since[i] \in Nat /\ generation \in Nat
          /\ started[work_items[i].work_item] \in Nat
      BY DEF TypeOK, Registered, Entries
    <2>2. work_items[i].updates_count \in Int /\ work_items[i].required_updates \in Int
      BY <2>1 DEF Schedule
    <2>3. Later(1, work_items[i].required_updates) \in Int
      BY <2>2 DEF Later
    <2>4. Later(since[i], started[work_items[i].work_item]) \in Int
      BY <2>1 DEF Later
    <2>5. Untold(i) \in Int
      BY <2>1, <2>4 DEF Untold
    <2>. QED  BY <2>2, <2>3, <2>5 DEF CountsUntold
  <1>. QED  BY <1>1, <1>2, InitTypeOK, NextTypeOK, NextCountsUntold, PTL DEF Spec
=============================================================================
