----------------------------- MODULE SRIMBTopic -----------------------------
(***************************************************************************)
(* platform/infinity/SRIMB/SRIMB.hpp: the latest-value topic, with the     *)
(* threads around it.                                                      *)
(*                                                                         *)
(* publish writes the message and bumps the generation under the topic's   *)
(* mutex and submits the work items after the unlock, one by one, so other *)
(* publishers, the work queue threads and polling tasks run in between.    *)
(* The copy of a message takes two steps (a message is a pair of words):   *)
(* only the mutex makes it whole.                                          *)
(*                                                                         *)
(* A work queue thread takes the first item off its queue, clears its      *)
(* queued state, and calls its handler, which polls once and then works    *)
(* with what it got, as Test2 does.  A submit of an item that is queued    *)
(* does nothing; one whose handler runs is queued again (Zephyr's k_work). *)
(*                                                                         *)
(* register_work_item takes no lock; the program calls it from the         *)
(* constructors of static objects, before any thread runs (booted).        *)
(***************************************************************************)
EXTENDS Integers, Sequences, SequencesExt

CONSTANTS
    Data,            \* the messages: pairs of words
    NoData,          \* the value-initialised message
    Publishers,      \* the threads that publish
    Tasks,           \* the threads that poll, each with its SRIMBSub
    Queues,          \* the work queue threads
    Items,           \* the work items, each with its SRIMBSub
    QueueOf,         \* getWorkQueue(), nullptr resolved to the system queue
    MAX_WORK_ITEM,   \* the length of work_items_
    NoThread, NoSub, \* nobody
    MaxGeneration    \* bound: no publish begins after that many messages

ASSUME QueueOfAssumption == QueueOf \in [Items -> Queues]
ASSUME DataAssumption    == \A d \in Data \cup {NoData} : d = <<d[1], d[2]>>
ASSUME ThreadAssumption  == NoThread \notin Publishers \cup Tasks \cup Queues
ASSUME BoundAssumption   == MAX_WORK_ITEM \in Nat /\ MaxGeneration \in Nat

Subs    == Tasks \cup Items
Readers == Tasks \cup Queues

VARIABLES
    mtx,              \* the thread that holds the mutex
    data, generation, \* data_ and generation_
    work_items,       \* work_items_[0 .. count_ - 1]
    booted,           \* main() has started the threads
    pc,               \* per thread: where it is in publish or poll
    msg,              \* per publisher: its argument of publish
    next,             \* per publisher: the index of its submit loop
    polling,          \* per reader: the subscriber of its poll
    out,              \* per reader: the first word copied by its poll
    pending,          \* per work queue: the items queued
    last_generation,  \* per subscriber
    polled,           \* per subscriber: result and out of its last poll
    published         \* history: every message published

topicVars  == <<mtx, data, generation, published>>
bootVars   == <<work_items, booted>>
pubVars    == <<msg, next>>
readerVars == <<polling, out>>
subVars    == <<last_generation, polled>>
vars == <<topicVars, bootVars, pc, pubVars, readerVars, pending, subVars>>

Init ==
    /\ mtx = NoThread
    /\ data = NoData /\ generation = 0
    /\ work_items = << >> /\ booted = FALSE
    /\ pc = [t \in Publishers \cup Readers |-> "idle"]
    /\ msg = [p \in Publishers |-> NoData]
    /\ next = [p \in Publishers |-> 1]
    /\ polling = [r \in Readers |-> NoSub]
    /\ out = [r \in Readers |-> NoData[1]]
    /\ pending = [q \in Queues |-> << >>]
    /\ last_generation = [s \in Subs |-> 0]
    /\ polled = [s \in Subs |-> [ok |-> FALSE, data |-> NoData]]
    /\ published = << >>

Go(t, at) == pc' = [pc EXCEPT ![t] = at]

(***************************************************************************)
(* Boot.                                                                   *)
(***************************************************************************)

\* Mutant: no limit.
Register_NoLimit(w) ==
    /\ ~booted
    /\ work_items' = Append(work_items, w)
    /\ UNCHANGED <<topicVars, booted, pc, pubVars, readerVars, pending, subVars>>

\* At the limit register_work_item returns false and changes nothing.
Register(w) ==
    /\ ~booted
    /\ Len(work_items) < MAX_WORK_ITEM
    /\ work_items' = Append(work_items, w)
    /\ UNCHANGED <<topicVars, booted, pc, pubVars, readerVars, pending, subVars>>

Boot ==
    /\ ~booted
    /\ booted' = TRUE
    /\ UNCHANGED <<topicVars, work_items, pc, pubVars, readerVars, pending, subVars>>

(***************************************************************************)
(* publish                                                                 *)
(***************************************************************************)

PublishLock(p, d) ==
    /\ booted
    /\ generation < MaxGeneration
    /\ pc[p] = "idle"
    /\ mtx = NoThread
    /\ mtx' = p
    /\ msg' = [msg EXCEPT ![p] = d]
    /\ Go(p, "write first")
    /\ UNCHANGED <<data, generation, published, bootVars, next, readerVars, pending, subVars>>

PublishFirst(p) ==
    /\ pc[p] = "write first"
    /\ data' = [data EXCEPT ![1] = msg[p][1]]
    /\ Go(p, "write rest")
    /\ UNCHANGED <<mtx, generation, published, bootVars, pubVars, readerVars, pending, subVars>>

\* The rest of the message, generation_++ and the unlock.
PublishRest(p) ==
    /\ pc[p] = "write rest"
    /\ data' = [data EXCEPT ![2] = msg[p][2]]
    /\ generation' = generation + 1
    /\ published' = Append(published, msg[p])
    /\ mtx' = NoThread
    /\ next' = [next EXCEPT ![p] = 1]
    /\ Go(p, "submit")
    /\ UNCHANGED <<bootVars, msg, readerVars, pending, subVars>>

IsQueued(w) == Contains(pending[QueueOf[w]], w)

\* k_work_submit_to_queue.
Submitted(w) ==
    IF IsQueued(w) THEN pending ELSE [pending EXCEPT ![QueueOf[w]] = Append(@, w)]

\* Mutant: an item whose handler is running is not submitted.
Submit_SkipsRunning(p) ==
    /\ pc[p] = "submit"
    /\ next[p] <= Len(work_items)
    /\ pending' = IF \E q \in Queues : polling[q] = work_items[next[p]]
                    THEN pending ELSE Submitted(work_items[next[p]])
    /\ next' = [next EXCEPT ![p] = @ + 1]
    /\ UNCHANGED <<topicVars, bootVars, pc, msg, readerVars, subVars>>

\* One round of the loop of submit_all_workitems, which reads count_ again.
Submit(p) ==
    /\ pc[p] = "submit"
    /\ next[p] <= Len(work_items)
    /\ pending' = Submitted(work_items[next[p]])
    /\ next' = [next EXCEPT ![p] = @ + 1]
    /\ UNCHANGED <<topicVars, bootVars, pc, msg, readerVars, subVars>>

PublishReturns(p) ==
    /\ pc[p] = "submit"
    /\ next[p] > Len(work_items)
    /\ Go(p, "idle")
    /\ UNCHANGED <<topicVars, bootVars, pubVars, readerVars, pending, subVars>>

(***************************************************************************)
(* poll, called by tasks and by the handlers of work items                 *)
(***************************************************************************)

TaskPolls(t) ==
    /\ booted
    /\ pc[t] = "idle"
    /\ polling' = [polling EXCEPT ![t] = t]
    /\ Go(t, "poll")
    /\ UNCHANGED <<topicVars, bootVars, pubVars, out, pending, subVars>>

\* The work queue thread: the item leaves the queue before its handler runs.
HandlerStarts(q) ==
    /\ pc[q] = "idle"
    /\ pending[q] # << >>
    /\ polling' = [polling EXCEPT ![q] = Head(pending[q])]
    /\ pending' = [pending EXCEPT ![q] = Tail(@)]
    /\ Go(q, "poll")
    /\ UNCHANGED <<topicVars, bootVars, pubVars, out, subVars>>

\* Lock, find nothing new, unlock.
PollNothing(r) ==
    /\ pc[r] = "poll"
    /\ mtx = NoThread
    /\ last_generation[polling[r]] = generation
    /\ polled' = [polled EXCEPT ![polling[r]].ok = FALSE]
    /\ Go(r, "polled")
    /\ UNCHANGED <<topicVars, bootVars, pubVars, readerVars, pending, last_generation>>

\* Mutant: the copy begins without the mutex.
PollFirst_NoLock(r) ==
    /\ pc[r] = "poll"
    /\ last_generation[polling[r]] # generation
    /\ out' = [out EXCEPT ![r] = data[1]]
    /\ Go(r, "copy")
    /\ UNCHANGED <<topicVars, bootVars, pubVars, polling, pending, subVars>>

PollFirst(r) ==
    /\ pc[r] = "poll"
    /\ mtx = NoThread
    /\ last_generation[polling[r]] # generation
    /\ mtx' = r
    /\ out' = [out EXCEPT ![r] = data[1]]
    /\ Go(r, "copy")
    /\ UNCHANGED <<data, generation, published, bootVars, pubVars, polling, pending, subVars>>

\* The rest of the copy, set_last_generation and the unlock.
PollRest(r) ==
    /\ pc[r] = "copy"
    /\ polled' = [polled EXCEPT ![polling[r]] = [ok |-> TRUE, data |-> <<out[r], data[2]>>]]
    /\ last_generation' = [last_generation EXCEPT ![polling[r]] = generation]
    /\ mtx' = NoThread
    /\ Go(r, "polled")
    /\ UNCHANGED <<data, generation, published, bootVars, pubVars, readerVars, pending>>

\* The task uses its message; the handler returns to the work queue thread.
Returns(r) ==
    /\ pc[r] = "polled"
    /\ polling' = [polling EXCEPT ![r] = NoSub]
    /\ Go(r, "idle")
    /\ UNCHANGED <<topicVars, bootVars, pubVars, out, pending, subVars>>

\* Nothing left to do once the bound on publishing is reached.
Quiescent ==
    /\ booted
    /\ generation = MaxGeneration
    /\ \A t \in Publishers \cup Readers : pc[t] = "idle"
    /\ \A q \in Queues : pending[q] = << >>
    /\ UNCHANGED vars

Next ==
    \/ \E w \in Items : Register(w)
    \/ Boot
    \/ \E p \in Publishers :
          \/ \E d \in Data : PublishLock(p, d)
          \/ PublishFirst(p) \/ PublishRest(p) \/ Submit(p) \/ PublishReturns(p)
    \/ \E t \in Tasks : TaskPolls(t)
    \/ \E q \in Queues : HandlerStarts(q)
    \/ \E r \in Readers : PollNothing(r) \/ PollFirst(r) \/ PollRest(r) \/ Returns(r)
    \/ Quiescent

(***************************************************************************)
(* A thread inside a call gets the processor again: every thread that      *)
(* publishes or polls sleeps between its calls, so none starves the rest.  *)
(* A thread waiting for the mutex gets it eventually although others take  *)
(* it over and over: k_mutex_unlock hands the mutex to a waiting thread.   *)
(* Nobody is obliged to begin a publish, and tasks need not poll.          *)
(***************************************************************************)
Fairness ==
    /\ \A p \in Publishers :
          WF_vars(PublishFirst(p) \/ PublishRest(p) \/ Submit(p) \/ PublishReturns(p))
    /\ \A q \in Queues : WF_vars(HandlerStarts(q))
    /\ \A r \in Readers : SF_vars(PollNothing(r) \/ PollFirst(r)) /\ WF_vars(PollRest(r) \/ Returns(r))

Spec == Init /\ [][Next]_vars /\ Fairness
-----------------------------------------------------------------------------
(***************************************************************************)
(* Properties.                                                             *)
(***************************************************************************)

Words == {d[i] : d \in Data \cup {NoData}, i \in 1 .. 2}

\* Type invariant.
TypeOK ==
    /\ mtx \in Publishers \cup Readers \cup {NoThread}
    /\ data \in Words \X Words /\ generation \in 0 .. Len(published)
    /\ work_items \in Seq(Items) /\ Len(work_items) <= MAX_WORK_ITEM
    /\ booted \in BOOLEAN
    /\ pc \in [Publishers \cup Readers ->
                 {"idle", "write first", "write rest", "submit", "poll", "copy", "polled"}]
    /\ msg \in [Publishers -> Data \cup {NoData}]
    /\ next \in [Publishers -> 1 .. Len(work_items) + 1]
    /\ polling \in [Readers -> Subs \cup {NoSub}]
    /\ out \in [Readers -> Words]
    /\ pending \in [Queues -> Seq(Items)]
    /\ \A q \in Queues : IsInjective(pending[q])
    /\ last_generation \in [Subs -> 0 .. generation]
    /\ polled \in [Subs -> [ok : BOOLEAN, data : Words \X Words]]
    /\ published \in Seq(Data)

\* Every successful poll hands out the message published last, whole, and
\* records its generation; a poll returns false only when there is nothing
\* newer than what the subscriber has.
Latest == INSTANCE LatestValue WITH log <- published, cursor <- last_generation,
                                    result <- polled
LatestSpec == Latest!Spec

\* Whose wake-up for the newest message is still on its way.
WillBeSubmitted(w) ==
    \E p \in Publishers : /\ pc[p] = "submit"
                          /\ \E i \in next[p] .. Len(work_items) : work_items[i] = w

WillPoll(w) == \E q \in Queues : polling[q] = w /\ pc[q] \in {"poll", "copy"}

\* No wake-up is lost between publish, the unlocked submit loop and handlers
\* that poll only once: a registered work item that has not seen the newest
\* message is queued, is about to be submitted, or is in a poll that has not
\* read the topic yet.
NoLostWakeUp ==
    \A w \in Range(work_items) :
        last_generation[w] < generation => IsQueued(w) \/ WillBeSubmitted(w) \/ WillPoll(w)

\* Every registered work item eventually sees each message or a newer one.
Delivered ==
    \A w \in Items, g \in 1 .. MaxGeneration :
        (Contains(work_items, w) /\ generation >= g) ~> last_generation[w] >= g
=============================================================================
