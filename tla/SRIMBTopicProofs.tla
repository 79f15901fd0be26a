-------------------------- MODULE SRIMBTopicProofs --------------------------
(***************************************************************************)
(* The latest-value topic, for any publishers, tasks, work items, work     *)
(* queues and messages: no wake-up is lost, and polls hand out whole,      *)
(* newest messages.                                                        *)
(***************************************************************************)
EXTENDS SRIMBTopic, TLAPS

\* Whoever is between lock and unlock holds the mutex, and nobody else has
\* changed what it has read or written so far.
Exclusive ==
    /\ \A p \in Publishers :
          /\ pc[p] \in {"write first", "write rest"} => mtx = p /\ msg[p] \in Data
          /\ pc[p] = "write rest" => data[1] = msg[p][1]
    /\ \A r \in Readers :
          /\ pc[r] \in {"poll", "copy"} => polling[r] \in Subs
          /\ pc[r] = "copy" => /\ mtx = r
                               /\ out[r] = data[1]
                               /\ last_generation[polling[r]] < generation

\* Outside the two steps of a publish the topic holds the newest message.
Whole ==
    /\ generation = Len(published)
    /\ \/ generation = 0
       \/ \E p \in Publishers : pc[p] = "write rest"
       \/ data = published[generation]

\* Before the threads run nothing has been published.
NotBooted ==
    ~booted => /\ generation = 0
               /\ \A p \in Publishers : pc[p] \notin {"write first", "write rest"}

Inv == TypeOK /\ Exclusive /\ Whole /\ NotBooted

-----------------------------------------------------------------------------
\* A message is two words.
LEMMA Message ==
    ASSUME NEW d \in Data \cup {NoData}
    PROVE  d[1] \in Words /\ d[2] \in Words /\ d = <<d[1], d[2]>>
  BY DataAssumption DEF Words

\* A submit keeps the queues sequences without repetition.
LEMMA SubmittedType ==
    ASSUME NEW w \in Items,
           pending \in [Queues -> Seq(Items)],
           \A q \in Queues : IsInjective(pending[q])
    PROVE  /\ Submitted(w) \in [Queues -> Seq(Items)]
           /\ \A q \in Queues : IsInjective(Submitted(w)[q])
<1>1. CASE IsQueued(w)
  BY <1>1 DEF Submitted
<1>2. CASE ~IsQueued(w)
  <2>1. QueueOf[w] \in Queues
    BY QueueOfAssumption
  <2>2. Submitted(w) = [pending EXCEPT ![QueueOf[w]] = Append(pending[QueueOf[w]], w)]
    BY <1>2 DEF Submitted
  <2>3. Append(pending[QueueOf[w]], w) \in Seq(Items)
    BY <2>1
  <2>4. IsInjective(Append(pending[QueueOf[w]], w))
    BY <1>2, <2>1 DEF IsInjective, IsQueued, Contains
  <2> QED
    BY <2>1, <2>2, <2>3, <2>4
<1> QED
  BY <1>1, <1>2

\* Neither does taking the first item off.
LEMMA TailType ==
    ASSUME NEW s \in Seq(Items), s # << >>, IsInjective(s)
    PROVE  Head(s) \in Items /\ Tail(s) \in Seq(Items) /\ IsInjective(Tail(s))
  BY DEF IsInjective

\* Writing one word of a message leaves the other.
LEMMA Half ==
    ASSUME NEW d \in Words \X Words, NEW x \in Words
    PROVE  /\ d = <<d[1], d[2]>>
           /\ [d EXCEPT ![1] = x] = <<x, d[2]>> /\ [d EXCEPT ![1] = x] \in Words \X Words
           /\ [d EXCEPT ![2] = x] = <<d[1], x>> /\ [d EXCEPT ![2] = x] \in Words \X Words
<1>1. PICK a \in Words, b \in Words : d = <<a, b>>
  OBVIOUS
<1>2. [<<a, b>> EXCEPT ![1] = x] = <<x, b>>
  OBVIOUS
<1>3. [<<a, b>> EXCEPT ![2] = x] = <<a, x>>
  OBVIOUS
<1> QED
  BY <1>1, <1>2, <1>3

\* What publishing does to the history.
LEMMA Appended ==
    ASSUME NEW log \in Seq(Data), NEW d \in Data
    PROVE  Len(Append(log, d)) = Len(log) + 1 /\ Append(log, d)[Len(log) + 1] = d
  OBVIOUS

\* The generation counts, and no subscriber is ahead of it.
Counts ==
    /\ generation \in Nat
    /\ \A s \in Subs : last_generation[s] \in Nat /\ last_generation[s] <= generation

\* The types say so.
LEMMA Generations == TypeOK => Counts
<1>. SUFFICES ASSUME TypeOK PROVE Counts
  OBVIOUS
<1>1. published \in Seq(Data) /\ generation \in 0 .. Len(published)
  BY DEF TypeOK
<1>2. generation \in Nat
  BY <1>1
<1>3. last_generation \in [Subs -> 0 .. generation]
  BY DEF TypeOK
<1> QED
  BY <1>2, <1>3 DEF Counts

-----------------------------------------------------------------------------
\* The type invariant is preserved; PublishRest needs what Exclusive says of
\* its message.
LEMMA NextTypeOK == Inv /\ [Next]_vars => TypeOK'
<1>. SUFFICES ASSUME Inv, [Next]_vars PROVE TypeOK'
  OBVIOUS
<1>. USE DEF Inv
<1>a. /\ work_items \in Seq(Items) /\ Len(work_items) <= MAX_WORK_ITEM
      /\ next \in [Publishers -> 1 .. Len(work_items) + 1]
      /\ generation \in 0 .. Len(published) /\ published \in Seq(Data)
      /\ last_generation \in [Subs -> 0 .. generation]
      /\ data \in Words \X Words /\ msg \in [Publishers -> Data \cup {NoData}]
  BY DEF TypeOK
<1>b. /\ Len(work_items) \in Nat /\ generation \in Nat /\ Len(published) \in Nat
      /\ generation <= Len(published) /\ generation \in 0 .. generation
      /\ 1 \in 1 .. Len(work_items) + 1
  BY <1>a
<1>1. ASSUME NEW w \in Items, Register(w) PROVE TypeOK'
  <2>1. /\ work_items' \in Seq(Items) /\ Len(work_items') = Len(work_items) + 1
        /\ Len(work_items') <= MAX_WORK_ITEM
    BY <1>1, <1>a, BoundAssumption DEF Register
  <2>2. next \in [Publishers -> 1 .. Len(work_items') + 1]
    BY <1>a, <2>1
  <2>. QED  BY <1>1, <2>1, <2>2 DEF TypeOK, Register, topicVars, pubVars, readerVars, subVars
<1>2. CASE Boot
  BY <1>2 DEF TypeOK, Boot, topicVars, pubVars, readerVars, subVars
<1>3. ASSUME NEW p \in Publishers, NEW d \in Data, PublishLock(p, d) PROVE TypeOK'
  BY <1>3 DEF TypeOK, PublishLock, Go, bootVars, readerVars, subVars
<1>4. ASSUME NEW p \in Publishers, PublishFirst(p) PROVE TypeOK'
  <2>1. data' \in Words \X Words
    BY <1>4, <1>a, Message, Half DEF PublishFirst
  <2>. QED  BY <1>4, <2>1 DEF TypeOK, PublishFirst, Go, bootVars, pubVars, readerVars, subVars
<1>5. ASSUME NEW p \in Publishers, PublishRest(p) PROVE TypeOK'
  <2>1. data' \in Words \X Words
    BY <1>5, <1>a, Message, Half DEF PublishRest
  <2>2. msg[p] \in Data
    BY <1>5 DEF PublishRest, Exclusive
  <2>3. /\ published' \in Seq(Data) /\ Len(published') = Len(published) + 1
    <3>1. published' = Append(published, msg[p])
      BY <1>5 DEF PublishRest
    <3>. QED  BY <1>a, <2>2, <3>1
  <2>6. generation' = generation + 1 /\ generation' \in 0 .. Len(published')
    <3>1. generation' = generation + 1
      BY <1>5 DEF PublishRest
    <3>. QED  BY <1>b, <2>3, <3>1
  <2>4. last_generation' \in [Subs -> 0 .. generation']
    <3>1. last_generation' = last_generation
      BY <1>5 DEF PublishRest, subVars
    <3>2. \A k \in 0 .. generation : k \in 0 .. generation'
      BY <1>b, <2>6
    <3>. QED  BY <1>a, <3>1, <3>2
  <2>5. next' \in [Publishers -> 1 .. Len(work_items) + 1]
    BY <1>5, <1>a, <1>b DEF PublishRest
  <2>. QED  BY <1>5, <2>1, <2>3, <2>4, <2>5, <2>6 DEF TypeOK, PublishRest, Go, bootVars, readerVars, subVars
<1>6. ASSUME NEW p \in Publishers, Submit(p) PROVE TypeOK'
  <2>1. next[p] \in 1 .. Len(work_items) /\ work_items[next[p]] \in Items
    BY <1>6, <1>a DEF Submit
  <2>2. /\ pending' \in [Queues -> Seq(Items)]
        /\ \A q \in Queues : IsInjective(pending'[q])
    BY <1>6, <2>1, SubmittedType DEF TypeOK, Submit
  <2>3. next' \in [Publishers -> 1 .. Len(work_items) + 1]
    BY <1>6, <1>a, <2>1 DEF Submit
  <2>. QED  BY <1>6, <2>2, <2>3 DEF TypeOK, Submit, topicVars, bootVars, readerVars, subVars
<1>7. ASSUME NEW p \in Publishers, PublishReturns(p) PROVE TypeOK'
  BY <1>7 DEF TypeOK, PublishReturns, Go, topicVars, bootVars, pubVars, readerVars, subVars
<1>8. ASSUME NEW t \in Tasks, TaskPolls(t) PROVE TypeOK'
  BY <1>8 DEF TypeOK, TaskPolls, Go, Readers, Subs, topicVars, bootVars, pubVars, subVars
<1>9. ASSUME NEW q \in Queues, HandlerStarts(q) PROVE TypeOK'
  <2>1. /\ Head(pending[q]) \in Items /\ Tail(pending[q]) \in Seq(Items)
        /\ IsInjective(Tail(pending[q]))
    BY <1>9, TailType DEF TypeOK, HandlerStarts
  <2>2. /\ pending' \in [Queues -> Seq(Items)]
        /\ \A k \in Queues : IsInjective(pending'[k])
    BY <1>9, <2>1 DEF TypeOK, HandlerStarts
  <2>3. polling' \in [Readers -> Subs \cup {NoSub}]
    BY <1>9, <2>1 DEF TypeOK, HandlerStarts, Subs
  <2>. QED  BY <1>9, <2>2, <2>3 DEF TypeOK, HandlerStarts, Go, Readers, topicVars, bootVars, pubVars, subVars
<1>10. ASSUME NEW r \in Readers, PollNothing(r) PROVE TypeOK'
  <2>1. polled' \in [Subs -> [ok : BOOLEAN, data : Words \X Words]]
    BY <1>10 DEF TypeOK, PollNothing
  <2>. QED  BY <1>10, <2>1 DEF TypeOK, PollNothing, Go, topicVars, bootVars, pubVars, readerVars
<1>11. ASSUME NEW r \in Readers, PollFirst(r) PROVE TypeOK'
  <2>1. data[1] \in Words
    BY DEF TypeOK
  <2>. QED  BY <1>11, <2>1 DEF TypeOK, PollFirst, Go, bootVars, pubVars, subVars
<1>12. ASSUME NEW r \in Readers, PollRest(r) PROVE TypeOK'
  <2>1. <<out[r], data[2]>> \in Words \X Words
    BY DEF TypeOK
  <2>2. polled' \in [Subs -> [ok : BOOLEAN, data : Words \X Words]]
    BY <1>12, <2>1 DEF TypeOK, PollRest
  <2>3. last_generation' \in [Subs -> 0 .. generation]
    BY <1>12, <1>a, <1>b DEF PollRest
  <2>. QED  BY <1>12, <2>2, <2>3 DEF TypeOK, PollRest, Go, bootVars, pubVars, readerVars
<1>13. ASSUME NEW r \in Readers, Returns(r) PROVE TypeOK'
  BY <1>13 DEF TypeOK, Returns, Go, topicVars, bootVars, pubVars, subVars
<1>14. CASE UNCHANGED vars
  BY <1>14 DEF TypeOK, vars, topicVars, bootVars, pubVars, readerVars, subVars
<1> QED
  BY <1>1, <1>2, <1>3, <1>4, <1>5, <1>6, <1>7, <1>8, <1>9, <1>10, <1>11, <1>12,
     <1>13, <1>14 DEF Next, Quiescent

\* Nothing is published before the threads run.
LEMMA NextNotBooted == Inv /\ [Next]_vars => NotBooted'
<1>. SUFFICES ASSUME Inv, [Next]_vars, ~booted' PROVE NotBooted'
  BY DEF NotBooted
<1>1. ~booted
  BY DEF Inv, TypeOK, Next, Register, Boot, PublishLock, PublishFirst, PublishRest, Submit,
     PublishReturns, TaskPolls, HandlerStarts, PollNothing, PollFirst, PollRest, Returns,
     Quiescent, bootVars, vars
<1>2. generation = 0 /\ \A p \in Publishers : pc[p] \notin {"write first", "write rest"}
  BY <1>1 DEF Inv, NotBooted
<1>3. /\ generation' = generation
      /\ \A p \in Publishers : pc'[p] \notin {"write first", "write rest"}
  BY <1>1, <1>2 DEF Inv, TypeOK, Next, Go, Register, Boot, PublishLock, PublishFirst,
     PublishRest, Submit, PublishReturns, TaskPolls, HandlerStarts, PollNothing, PollFirst,
     PollRest, Returns, Quiescent, topicVars, vars
<1> QED
  BY <1>2, <1>3 DEF NotBooted

\* The mutex excludes: whoever is between lock and unlock is undisturbed.
LEMMA NextExclusive == Inv /\ [Next]_vars => Exclusive'
<1>. SUFFICES ASSUME Inv, [Next]_vars PROVE Exclusive'
  OBVIOUS
<1>. USE DEF Inv
<1>a. /\ pc \in [Publishers \cup Readers ->
                    {"idle", "write first", "write rest", "submit", "poll", "copy", "polled"}]
      /\ msg \in [Publishers -> Data \cup {NoData}]
      /\ polling \in [Readers -> Subs \cup {NoSub}] /\ out \in [Readers -> Words]
      /\ data \in Words \X Words
  BY DEF TypeOK
<1>c. /\ generation \in Nat
      /\ \A s \in Subs : last_generation[s] \in Nat /\ last_generation[s] <= generation
  BY Generations DEF Counts
<1>b. /\ NoThread \notin Publishers \cup Readers /\ Tasks \subseteq Subs /\ Items \subseteq Subs
      /\ Tasks \subseteq Readers /\ Queues \subseteq Readers
  BY ThreadAssumption DEF Readers, Subs
<1>1. ASSUME NEW w \in Items, Register(w) PROVE Exclusive'
  BY <1>1 DEF Exclusive, Register, topicVars, pubVars, readerVars, subVars
<1>2. CASE Boot
  BY <1>2 DEF Exclusive, Boot, topicVars, pubVars, readerVars, subVars
<1>3. ASSUME NEW p \in Publishers, NEW d \in Data, PublishLock(p, d) PROVE Exclusive'
  BY <1>a, <1>b, <1>3 DEF Exclusive, PublishLock, Go, readerVars, subVars
<1>4. ASSUME NEW p \in Publishers, PublishFirst(p) PROVE Exclusive'
  <2>1. data'[1] = msg[p][1]
    <3>1. data' = [data EXCEPT ![1] = msg[p][1]] /\ msg[p] \in Data \cup {NoData}
      BY <1>a, <1>4 DEF PublishFirst
    <3>2. msg[p][1] \in Words
      BY <3>1, Message
    <3>3. data' = <<msg[p][1], data[2]>>
      BY <1>a, <3>1, <3>2, Half
    <3>. QED  BY <3>3
  <2>. QED  BY <1>a, <1>b, <1>4, <2>1 DEF Exclusive, PublishFirst, Go, pubVars, readerVars, subVars
<1>5. ASSUME NEW p \in Publishers, PublishRest(p) PROVE Exclusive'
  BY <1>a, <1>b, <1>5 DEF Exclusive, PublishRest, Go, readerVars, subVars
<1>6. ASSUME NEW p \in Publishers, Submit(p) PROVE Exclusive'
  BY <1>6 DEF Exclusive, Submit, topicVars, readerVars, subVars
<1>7. ASSUME NEW p \in Publishers, PublishReturns(p) PROVE Exclusive'
  BY <1>a, <1>b, <1>7 DEF Exclusive, PublishReturns, Go, topicVars, pubVars, readerVars, subVars
<1>8. ASSUME NEW t \in Tasks, TaskPolls(t) PROVE Exclusive'
  BY <1>a, <1>b, <1>8 DEF Exclusive, TaskPolls, Go, topicVars, pubVars, subVars
<1>9. ASSUME NEW q \in Queues, HandlerStarts(q) PROVE Exclusive'
  <2>1. Head(pending[q]) \in Items
    BY <1>9, TailType DEF TypeOK, HandlerStarts
  <2>. QED  BY <1>a, <1>b, <1>9, <2>1 DEF Exclusive, HandlerStarts, Go, topicVars, pubVars, subVars
<1>10. ASSUME NEW r \in Readers, PollNothing(r) PROVE Exclusive'
  BY <1>a, <1>b, <1>10 DEF Exclusive, PollNothing, Go, topicVars, pubVars, readerVars
<1>11. ASSUME NEW r \in Readers, PollFirst(r) PROVE Exclusive'
  <2>1. polling[r] \in Subs /\ last_generation[polling[r]] < generation
    <3>1. polling[r] \in Subs /\ last_generation[polling[r]] # generation
      BY <1>11 DEF Exclusive, PollFirst
    <3>. QED  BY <1>c, <3>1
  <2>. QED  BY <1>a, <1>b, <1>11, <2>1 DEF Exclusive, PollFirst, Go, pubVars, subVars
<1>12. ASSUME NEW r \in Readers, PollRest(r) PROVE Exclusive'
  BY <1>a, <1>b, <1>12 DEF Exclusive, PollRest, Go, pubVars, readerVars
<1>13. ASSUME NEW r \in Readers, Returns(r) PROVE Exclusive'
  BY <1>a, <1>b, <1>13 DEF Exclusive, Returns, Go, topicVars, pubVars, subVars
<1>14. CASE UNCHANGED vars
  BY <1>14 DEF Exclusive, vars, topicVars, pubVars, readerVars, subVars
<1> QED
  BY <1>1, <1>2, <1>3, <1>4, <1>5, <1>6, <1>7, <1>8, <1>9, <1>10, <1>11, <1>12,
     <1>13, <1>14 DEF Next, Quiescent

\* A publish leaves its own message, whole, in the topic.
LEMMA NextWhole == Inv /\ [Next]_vars => Whole'
<1>. SUFFICES ASSUME Inv, [Next]_vars PROVE Whole'
  OBVIOUS
<1>. USE DEF Inv
<1>a. /\ pc \in [Publishers \cup Readers ->
                    {"idle", "write first", "write rest", "submit", "poll", "copy", "polled"}]
      /\ data \in Words \X Words /\ published \in Seq(Data)
      /\ msg \in [Publishers -> Data \cup {NoData}]
  BY DEF TypeOK
<1>1. ASSUME NEW p \in Publishers, PublishFirst(p) PROVE Whole'
  <2>1. pc'[p] = "write rest"
    BY <1>a, <1>1 DEF PublishFirst, Go
  <2>. QED  BY <1>1, <2>1 DEF Whole, PublishFirst
<1>2. ASSUME NEW p \in Publishers, PublishRest(p) PROVE Whole'
  <2>1. msg[p] \in Data /\ data[1] = msg[p][1]
    BY <1>2 DEF Exclusive, PublishRest
  <2>2. data' = msg[p]
    <3>1. data' = [data EXCEPT ![2] = msg[p][2]]
      BY <1>2 DEF PublishRest
    <3>2. msg[p][2] \in Words /\ msg[p] = <<msg[p][1], msg[p][2]>>
      BY <2>1, Message
    <3>3. data' = <<data[1], msg[p][2]>>
      BY <1>a, <3>1, <3>2, Half
    <3>. QED  BY <2>1, <3>2, <3>3
  <2>3. published' = Append(published, msg[p]) /\ generation' = Len(published) + 1
    BY <1>2 DEF Whole, PublishRest
  <2>4. generation' = Len(published') /\ published'[generation'] = msg[p]
    <3>1. /\ Len(published') = Len(published) + 1
          /\ published'[Len(published) + 1] = msg[p]
      BY <1>a, <2>1, <2>3, Appended
    <3>. QED  BY <2>3, <3>1
  <2>. QED  BY <2>2, <2>4 DEF Whole
<1>3. ASSUME UNCHANGED <<data, generation, published>>,
             \A p \in Publishers : pc[p] = "write rest" => pc'[p] = "write rest"
      PROVE  Whole'
  BY <1>3 DEF Whole
<1>4. ASSUME ~\E p \in Publishers : PublishFirst(p) \/ PublishRest(p)
      PROVE  /\ UNCHANGED <<data, generation, published>>
             /\ \A p \in Publishers : pc[p] = "write rest" => pc'[p] = "write rest"
  BY <1>4, <1>a DEF Next, Go, Register, Boot, PublishLock, Submit, PublishReturns, TaskPolls,
     HandlerStarts, PollNothing, PollFirst, PollRest, Returns, Quiescent, topicVars, vars
<1> QED
  BY <1>1, <1>2, <1>3, <1>4

\* The invariant: types, exclusion, whole messages, nothing before the boot.
LEMMA Invariance == Init /\ [][Next]_vars => []Inv
<1>1. Init => Inv
  <2>. SUFFICES ASSUME Init PROVE Inv
    OBVIOUS
  <2>1. NoData[1] \in Words /\ NoData \in Words \X Words
    BY Message
  <2>2. work_items \in Seq(Items) /\ Len(work_items) = 0 /\ MAX_WORK_ITEM \in Nat
    BY BoundAssumption DEF Init
  <2>3. published \in Seq(Data) /\ generation \in 0 .. Len(published)
    BY DEF Init
  <2>4. next \in [Publishers -> 1 .. Len(work_items) + 1]
    BY <2>2 DEF Init
  <2>5. pending \in [Queues -> Seq(Items)] /\ \A q \in Queues : IsInjective(pending[q])
    BY DEF Init, IsInjective
  <2>6. last_generation \in [Subs -> 0 .. generation]
    BY DEF Init
  <2>7. polled \in [Subs -> [ok : BOOLEAN, data : Words \X Words]]
    BY <2>1 DEF Init
  <2>11. /\ mtx \in Publishers \cup Readers \cup {NoThread} /\ data \in Words \X Words
         /\ booted \in BOOLEAN
         /\ pc \in [Publishers \cup Readers ->
                       {"idle", "write first", "write rest", "submit", "poll", "copy", "polled"}]
         /\ msg \in [Publishers -> Data \cup {NoData}]
         /\ polling \in [Readers -> Subs \cup {NoSub}] /\ out \in [Readers -> Words]
    BY <2>1 DEF Init
  <2>12. Len(work_items) <= MAX_WORK_ITEM
    BY <2>2
  <2>8. TypeOK
    BY <2>2, <2>3, <2>4, <2>5, <2>6, <2>7, <2>11, <2>12 DEF TypeOK
  <2>9. Exclusive
    BY DEF Init, Exclusive
  <2>10. Whole /\ NotBooted
    BY DEF Init, Whole, NotBooted
  <2>. QED  BY <2>8, <2>9, <2>10 DEF Inv
<1>2. Inv /\ [Next]_vars => Inv'
  BY NextTypeOK, NextNotBooted, NextExclusive, NextWhole DEF Inv
<1> QED
  BY <1>1, <1>2, PTL

\* The types of the topic, of its subscribers and of the threads around it;
\* the generation of a subscriber is never ahead of the topic's, and no item
\* is twice in a queue.
THEOREM TopicTypeCorrect == Spec => []TypeOK
<1>1. Inv => TypeOK
  BY DEF Inv
<1> QED
  BY <1>1, Invariance, PTL DEF Spec

-----------------------------------------------------------------------------
\* A submit queues its item and drops none.
LEMMA SubmittedKeeps ==
    ASSUME pending \in [Queues -> Seq(Items)], NEW w \in Items, NEW v \in Items,
           v = w \/ IsQueued(v)
    PROVE  Contains(Submitted(w)[QueueOf[v]], v)
<1>1. QueueOf[w] \in Queues /\ QueueOf[v] \in Queues
  BY QueueOfAssumption
<1>2. CASE IsQueued(w)
  BY <1>2 DEF Submitted, IsQueued
<1>3. CASE ~IsQueued(w)
  <2>1. Submitted(w) = [pending EXCEPT ![QueueOf[w]] = Append(pending[QueueOf[w]], w)]
    BY <1>3 DEF Submitted
  <2>2. CASE QueueOf[v] # QueueOf[w]
    BY <1>1, <2>1, <2>2 DEF IsQueued
  <2>3. CASE QueueOf[v] = QueueOf[w]
    <3>1. Submitted(w)[QueueOf[v]] = Append(pending[QueueOf[w]], w)
      BY <1>1, <2>1, <2>3
    <3>2. pending[QueueOf[w]] \in Seq(Items)
      BY <1>1
    <3>. QED  BY <2>3, <3>1, <3>2 DEF IsQueued, Contains
  <2>. QED  BY <2>2, <2>3
<1> QED
  BY <1>2, <1>3

\* Taking the first item off a queue leaves the others in it.
LEMMA TailKeeps ==
    ASSUME NEW s \in Seq(Items), NEW w \in Items, Contains(s, w), w # Head(s)
    PROVE  Contains(Tail(s), w)
<1>1. PICK i \in 1 .. Len(s) : s[i] = w
  BY DEF Contains
<1>2. i # 1 /\ i - 1 \in 1 .. Len(Tail(s)) /\ Tail(s)[i - 1] = w
  BY <1>1
<1> QED
  BY <1>2 DEF Contains

\* The elements of a sequence of items.
LEMMA SeqOfItems ==
    ASSUME NEW s \in Seq(Items)
    PROVE  Len(s) \in Nat /\ \A i \in 1 .. Len(s) : s[i] \in Items
  OBVIOUS

\* A wake-up on its way stays on its way until the item has seen the newest
\* message.
LEMMA NextNoLostWakeUp == Inv /\ NoLostWakeUp /\ [Next]_vars => NoLostWakeUp'
<1>. SUFFICES ASSUME Inv, NoLostWakeUp, [Next]_vars,
                     NEW w \in Range(work_items'),
                     last_generation'[w] < generation'
              PROVE  IsQueued(w)' \/ WillBeSubmitted(w)' \/ WillPoll(w)'
  BY DEF NoLostWakeUp
<1>. DEFINE Awaited == IsQueued(w)' \/ WillBeSubmitted(w)' \/ WillPoll(w)'
<1>a. TypeOK /\ TypeOK'
  BY NextTypeOK DEF Inv
<1>b. /\ pc \in [Publishers \cup Readers ->
                    {"idle", "write first", "write rest", "submit", "poll", "copy", "polled"}]
      /\ polling \in [Readers -> Subs \cup {NoSub}]
      /\ pending \in [Queues -> Seq(Items)]
      /\ next \in [Publishers -> 1 .. Len(work_items) + 1]
      /\ work_items \in Seq(Items)
  BY <1>a DEF TypeOK
<1>c. Queues \subseteq Readers
  BY DEF Readers
<1>f. /\ work_items' \in Seq(Items) /\ Len(work_items) \in Nat
      /\ \A p \in Publishers : next[p] \in Nat /\ next[p] >= 1
  <2>1. work_items' \in Seq(Items)
    BY <1>a DEF TypeOK
  <2>2. Len(work_items) \in Nat
    BY <1>b, SeqOfItems
  <2>3. \A p \in Publishers : next[p] \in 1 .. Len(work_items) + 1
    BY <1>b
  <2>4. \A p \in Publishers : next[p] \in Nat /\ next[p] >= 1
    BY <2>2, <2>3
  <2>. QED  BY <2>1, <2>2, <2>4
<1>d. w \in Items
  BY <1>f DEF Range
<1>e. w \in Subs /\ generation' \in Nat /\ last_generation'[w] \in Nat
  <2>1. Counts'
    BY <1>a, Generations, PTL
  <2>. QED  BY <1>d, <2>1 DEF Subs, Counts
<1>1. booted
  <2>1. SUFFICES ASSUME ~booted PROVE FALSE
    BY <1>a DEF TypeOK
  <2>2. generation = 0 /\ \A p \in Publishers : pc[p] \notin {"write first", "write rest"}
    BY <2>1 DEF Inv, NotBooted
  <2>3. generation' = 0
    BY <2>1, <2>2 DEF Next, Register, Boot, PublishLock, PublishFirst, PublishRest, Submit,
       PublishReturns, TaskPolls, HandlerStarts, PollNothing, PollFirst, PollRest, Returns,
       Quiescent, topicVars, vars
  <2>. QED  BY <1>e, <2>3
<1>2. work_items' = work_items
  BY <1>1 DEF Next, Register, Boot, PublishLock, PublishFirst, PublishRest, Submit,
     PublishReturns, TaskPolls, HandlerStarts, PollNothing, PollFirst, PollRest, Returns,
     Quiescent, bootVars, vars
<1>3. ASSUME NEW p \in Publishers, PublishRest(p) PROVE Awaited
  <2>1. pc'[p] = "submit" /\ next'[p] = 1
    BY <1>b, <1>3 DEF PublishRest, Go
  <2>2. PICK i \in DOMAIN work_items' : work_items'[i] = w
    BY DEF Range
  <2>3. i \in next'[p] .. Len(work_items')
    <3>1. i \in 1 .. Len(work_items')
      BY <1>f, <2>2
    <3>. QED  BY <2>1, <3>1
  <2>. QED  BY <2>1, <2>2, <2>3 DEF WillBeSubmitted
<1>4. ASSUME NEW r \in Readers, PollRest(r) PROVE Awaited
  <2>1. polling[r] # w
    <3>1. last_generation' = [last_generation EXCEPT ![polling[r]] = generation]
          /\ generation' = generation
      BY <1>4 DEF PollRest
    <3>2. last_generation \in [Subs -> 0 .. generation]
      BY <1>a DEF TypeOK
    <3>3. polling[r] = w => last_generation'[w] = generation'
      BY <1>e, <3>1, <3>2
    <3>. QED  BY <1>e, <3>3
  <2>2. last_generation'[w] = last_generation[w] /\ generation' = generation
    BY <1>4, <1>e, <2>1 DEF PollRest, Inv, TypeOK
  <2>3. IsQueued(w) \/ WillBeSubmitted(w) \/ WillPoll(w)
    BY <1>2, <2>2 DEF NoLostWakeUp
  <2>4. IsQueued(w) => IsQueued(w)'
    BY <1>4 DEF PollRest, IsQueued
  <2>5. WillBeSubmitted(w) => WillBeSubmitted(w)'
    BY <1>b, <1>4 DEF PollRest, Go, WillBeSubmitted, bootVars, pubVars
  <2>6. WillPoll(w) => WillPoll(w)'
    BY <1>b, <1>c, <1>4, <2>1 DEF PollRest, Go, WillPoll, readerVars
  <2>. QED  BY <2>3, <2>4, <2>5, <2>6
<1>5. ASSUME ~\E p \in Publishers : PublishRest(p), ~\E r \in Readers : PollRest(r)
      PROVE  /\ last_generation' = last_generation /\ generation' = generation
             /\ IsQueued(w) \/ WillBeSubmitted(w) \/ WillPoll(w)
  <2>1. last_generation' = last_generation /\ generation' = generation
    BY <1>5 DEF Next, Register, Boot, PublishLock, PublishFirst, Submit,
       PublishReturns, TaskPolls, HandlerStarts, PollNothing, PollFirst, Returns,
       Quiescent, topicVars, subVars, vars
  <2>. QED  BY <1>2, <2>1 DEF NoLostWakeUp
<1>. DEFINE Before == IsQueued(w) \/ WillBeSubmitted(w) \/ WillPoll(w)
<1>6. ASSUME NEW p \in Publishers, NEW d \in Data, PublishLock(p, d), Before PROVE Awaited
  BY <1>b, <1>c, <1>6 DEF PublishLock, Go, IsQueued, WillBeSubmitted, WillPoll, bootVars, readerVars
<1>7. ASSUME NEW p \in Publishers, PublishFirst(p), Before PROVE Awaited
  BY <1>b, <1>c, <1>7 DEF PublishFirst, Go, IsQueued, WillBeSubmitted, WillPoll, bootVars,
     pubVars, readerVars
<1>8. ASSUME NEW p \in Publishers, Submit(p), Before PROVE Awaited
  <2>. DEFINE v == work_items[next[p]]
  <2>1. next[p] \in 1 .. Len(work_items) /\ v \in Items
    <3>1. next[p] <= Len(work_items)
      BY <1>8 DEF Submit
    <3>2. next[p] \in 1 .. Len(work_items)
      BY <1>f, <3>1
    <3>3. \A i \in 1 .. Len(work_items) : work_items[i] \in Items
      BY <1>b, SeqOfItems
    <3>. QED  BY <3>2, <3>3
  <2>2. pending' = Submitted(v) /\ next' = [next EXCEPT ![p] = next[p] + 1] /\ pc' = pc
        /\ polling' = polling
    BY <1>8 DEF Submit, readerVars
  <2>3. CASE w = v \/ IsQueued(w)
    BY <1>b, <1>d, <2>1, <2>2, <2>3, SubmittedKeeps DEF IsQueued
  <2>4. CASE w # v /\ WillBeSubmitted(w)
    <3>1. PICK k \in Publishers :
            pc[k] = "submit" /\ \E i \in next[k] .. Len(work_items) : work_items[i] = w
      BY <2>4 DEF WillBeSubmitted
    <3>2. PICK i \in next[k] .. Len(work_items) : work_items[i] = w
      BY <3>1
    <3>3. i \in next'[k] .. Len(work_items)
      <4>1. CASE k = p
        <5>1. i # next[p]
          BY <2>4, <3>2, <4>1
        <5>2. next'[k] = next[p] + 1
          BY <1>b, <2>2, <4>1
        <5>. QED  BY <1>f, <3>2, <4>1, <5>1, <5>2
      <4>2. CASE k # p
        BY <1>b, <2>2, <3>2, <4>2
      <4>. QED  BY <4>1, <4>2
    <3>. QED  BY <1>2, <2>2, <3>1, <3>2, <3>3 DEF WillBeSubmitted
  <2>5. CASE WillPoll(w)
    BY <2>2, <2>5 DEF WillPoll
  <2>. QED  BY <1>8, <2>3, <2>4, <2>5
<1>9. ASSUME NEW p \in Publishers, PublishReturns(p), Before PROVE Awaited
  <2>1. WillBeSubmitted(w) => WillBeSubmitted(w)'
    <3>. SUFFICES ASSUME WillBeSubmitted(w) PROVE WillBeSubmitted(w)'
      OBVIOUS
    <3>1. PICK k \in Publishers :
            pc[k] = "submit" /\ \E i \in next[k] .. Len(work_items) : work_items[i] = w
      BY DEF WillBeSubmitted
    <3>2. k # p
      <4>1. next[p] > Len(work_items)
        BY <1>9 DEF PublishReturns
      <4>2. ~\E i \in next[p] .. Len(work_items) : TRUE
        BY <1>f, <4>1
      <4>. QED  BY <3>1, <4>2
    <3>3. pc'[k] = "submit" /\ next' = next
      BY <1>b, <1>9, <3>1, <3>2 DEF PublishReturns, Go, pubVars
    <3>. QED  BY <1>2, <3>1, <3>3 DEF WillBeSubmitted
  <2>. QED  BY <1>b, <1>c, <1>9, <2>1 DEF PublishReturns, Go, IsQueued, WillPoll, readerVars
<1>10. ASSUME NEW t \in Tasks, TaskPolls(t), Before PROVE Awaited
  BY <1>b, <1>c, <1>10 DEF TaskPolls, Go, IsQueued, WillBeSubmitted, WillPoll, bootVars, pubVars
<1>11. ASSUME NEW q \in Queues, HandlerStarts(q), Before PROVE Awaited
  <2>1. /\ pc'[q] = "poll" /\ polling'[q] = Head(pending[q])
        /\ pending' = [pending EXCEPT ![q] = Tail(pending[q])]
    BY <1>b, <1>c, <1>11 DEF HandlerStarts, Go
  <2>2. CASE IsQueued(w)
    <3>1. QueueOf[w] \in Queues
      BY <1>d, QueueOfAssumption
    <3>2. CASE QueueOf[w] = q /\ w = Head(pending[q])
      BY <2>1, <3>2 DEF WillPoll
    <3>3. CASE QueueOf[w] = q /\ w # Head(pending[q])
      BY <1>b, <1>d, <2>1, <2>2, <3>3, TailKeeps DEF IsQueued
    <3>4. CASE QueueOf[w] # q
      BY <1>b, <2>1, <2>2, <3>1, <3>4 DEF IsQueued
    <3>. QED  BY <3>2, <3>3, <3>4
  <2>3. CASE WillBeSubmitted(w) \/ WillPoll(w)
    BY <1>b, <1>c, <1>11, <2>3 DEF HandlerStarts, Go, WillBeSubmitted, WillPoll, bootVars, pubVars
  <2>. QED  BY <1>11, <2>2, <2>3
<1>12. ASSUME NEW r \in Readers, PollNothing(r), Before PROVE Awaited
  <2>1. polling[r] # w /\ polling' = polling
    <3>1. last_generation[polling[r]] = generation /\ polling' = polling
          /\ last_generation'[w] = last_generation[w] /\ generation' = generation
      BY <1>12 DEF PollNothing, readerVars, topicVars
    <3>. QED  BY <1>e, <3>1
  <2>. QED  BY <1>b, <1>c, <1>12, <2>1 DEF PollNothing, Go, IsQueued, WillBeSubmitted, WillPoll,
            bootVars, pubVars
<1>13. ASSUME NEW r \in Readers, PollFirst(r), Before PROVE Awaited
  BY <1>b, <1>c, <1>13 DEF PollFirst, Go, IsQueued, WillBeSubmitted, WillPoll, bootVars, pubVars
<1>14. ASSUME NEW r \in Readers, Returns(r), Before PROVE Awaited
  BY <1>b, <1>c, <1>14 DEF Returns, Go, IsQueued, WillBeSubmitted, WillPoll, bootVars, pubVars
<1>15. ASSUME UNCHANGED vars, Before PROVE Awaited
  BY <1>15 DEF IsQueued, WillBeSubmitted, WillPoll, vars, bootVars, pubVars, readerVars
<1> QED
  BY <1>1, <1>3, <1>4, <1>5, <1>6, <1>7, <1>8, <1>9, <1>10, <1>11, <1>12, <1>13, <1>14, <1>15
     DEF Next, Register, Boot, Quiescent

\* No wake-up is lost between publish, the unlocked submit loop and handlers
\* that poll only once, whatever the order of the threads.
THEOREM NoWakeUpIsLost == Spec => []NoLostWakeUp
<1>1. Init => NoLostWakeUp
  BY DEF Init, NoLostWakeUp, Range
<1> QED
  BY <1>1, Invariance, NextNoLostWakeUp, PTL DEF Spec

-----------------------------------------------------------------------------
\* Every step of the topic is a step of LatestValue, or changes nothing there.
LEMMA LatestNext == Inv /\ [Next]_vars => [Latest!Next]_Latest!vars
<1>. SUFFICES ASSUME Inv, [Next]_vars PROVE [Latest!Next]_Latest!vars
  OBVIOUS
<1>. USE DEF Inv
<1>1. ASSUME NEW p \in Publishers, PublishRest(p) PROVE Latest!Next
  <2>1. msg[p] \in Data
    BY <1>1 DEF Exclusive, PublishRest
  <2>2. Latest!Publish(msg[p])
    BY <1>1 DEF PublishRest, subVars, Latest!Publish
  <2>. QED  BY <2>1, <2>2 DEF Latest!Next
<1>2. ASSUME NEW r \in Readers, PollNothing(r) PROVE Latest!Next
  <2>1. polling[r] \in Subs
    BY <1>2 DEF Exclusive, PollNothing
  <2>2. Latest!ReadNothing(polling[r])
    BY <1>2 DEF Whole, PollNothing, topicVars, Latest!ReadNothing
  <2>. QED  BY <2>1, <2>2 DEF Latest!Next
<1>3. ASSUME NEW r \in Readers, PollRest(r) PROVE Latest!Next
  <2>1. /\ polling[r] \in Subs /\ mtx = r /\ out[r] = data[1]
        /\ last_generation[polling[r]] < generation
    BY <1>3 DEF Exclusive, PollRest
  <2>2. generation # 0 /\ generation = Len(published)
    <3>1. Counts
      BY Generations
    <3>2. generation # 0
      BY <2>1, <3>1 DEF Counts
    <3>. QED  BY <3>2 DEF Whole
  <2>3. ~\E p \in Publishers : pc[p] = "write rest"
    BY <1>3, <2>1 DEF Exclusive, PollRest
  <2>4. data = published[Len(published)]
    BY <2>2, <2>3 DEF Whole
  <2>5. <<out[r], data[2]>> = published[Len(published)]
    BY <2>1, <2>4, Half DEF TypeOK
  <2>6. Latest!ReadLatest(polling[r])
    BY <1>3, <2>1, <2>2, <2>5 DEF PollRest, Latest!ReadLatest
  <2>. QED  BY <2>1, <2>6 DEF Latest!Next
<1>4. ASSUME ~\E p \in Publishers : PublishRest(p),
             ~\E r \in Readers : PollNothing(r) \/ PollRest(r)
      PROVE  UNCHANGED Latest!vars
  BY <1>4 DEF Next, Register, Boot, PublishLock, PublishFirst, Submit, PublishReturns,
     TaskPolls, HandlerStarts, PollFirst, Returns, Quiescent, topicVars, subVars, vars,
     Latest!vars
<1> QED
  BY <1>1, <1>2, <1>3, <1>4

\* Polls hand out the message published last, whole, at most once to each
\* subscriber, and return false only to a subscriber that has it.
THEOREM ImplementsLatest == Spec => LatestSpec
<1>1. Init => Latest!Init
  BY DEF Init, Latest!Init
<1> QED
  BY <1>1, Invariance, LatestNext, PTL DEF Spec, LatestSpec, Latest!Spec
=============================================================================
