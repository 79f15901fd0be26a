-------------------------- MODULE SRIMBQueueTopic --------------------------
(***************************************************************************)
(* platform/infinity/SRIMB/SRIMBQueueTopic.hpp: a topic that keeps the     *)
(* last QUEUE_LEN messages in a ring, hands them to polling subscribers in *)
(* order, and submits the registered work items to their work queues every *)
(* required_updates messages.                                              *)
(*                                                                         *)
(* Publishers, pollers and the threads that register work items call the   *)
(* topic concurrently; every method holds the topic's mutex from its first *)
(* to its last access, the submits of publish included, so a call is one   *)
(* step.  The work queue threads run between the calls: a queued item is   *)
(* taken off its queue and its handler begins (StartItem); what the        *)
(* handler does with the topic are further Poll steps.                     *)
(***************************************************************************)
EXTENDS RingBufferOps

CONSTANTS
    Data,            \* the messages
    NoData,          \* the value-initialised message
    QUEUE_LEN,       \* the template argument, a uint8_t
    Subs,            \* the subscribers: SRIMBSub objects
    WorkItems,       \* the k_work objects behind SRIMBWorkItemSub
    NoItem,          \* the content of an unused entry of work_items
    MAX_WORK_ITEM,   \* the length of work_items
    Required,        \* the required_updates that callers pass, uint8_t values
    MaxGeneration    \* bound: publishing stops here

ASSUME QueueLenAssumption    == QUEUE_LEN \in 1 .. 255
ASSUME MaxWorkItemAssumption == MAX_WORK_ITEM \in Nat
ASSUME RequiredAssumption    == Required \subseteq 0 .. 255
ASSUME MaxGenAssumption      == MaxGeneration \in Nat

VARIABLES
    msg_queue,          \* the ring of messages, each with its generation
    generation,         \* the generation of the newest message
    oldest_generation,  \* the generation of the oldest message in the ring
    work_items,         \* the registered work items with their counters
    workitem_count,
    last_generation,    \* per subscriber: the generation it read last
    missed,             \* per subscriber: its missed flag
    polled,             \* per subscriber: result and out of its last poll
    queued              \* work items submitted and not yet started

(***************************************************************************)
(* History, for the properties only: the messages published, and the       *)
(* generation at which each entry of work_items began counting and each    *)
(* work item last started.                                                 *)
(***************************************************************************)
VARIABLES published, since, started

topicVars == <<msg_queue, generation, oldest_generation>>
itemVars  == <<work_items, workitem_count, queued>>
subVars   == <<last_generation, missed, polled>>
history   == <<published, since, started>>
vars      == <<topicVars, itemVars, subVars, history>>

Message  == [data : Data \cup {NoData}, generation : Nat]
Schedule == [work_item : WorkItems \cup {NoItem},
             required_updates : 0 .. 255, updates_count : 0 .. 255]

\* The entries of work_items, and those in use.
Entries    == 0 .. MAX_WORK_ITEM - 1
Registered == 0 .. workitem_count - 1

Init ==
    /\ msg_queue = NewRing(QUEUE_LEN, [data |-> NoData, generation |-> 0])
    /\ generation = 0
    /\ oldest_generation = 0
    /\ work_items = [i \in Entries |->
           [work_item |-> NoItem, required_updates |-> 1, updates_count |-> 0]]
    /\ workitem_count = 0
    /\ last_generation = [s \in Subs |-> 0]
    /\ missed = [s \in Subs |-> FALSE]
    /\ polled = [s \in Subs |-> [ok |-> FALSE, data |-> NoData]]
    /\ queued = {}
    /\ published = << >>
    /\ since = [i \in Entries |-> 0]
    /\ started = [w \in WorkItems |-> 0]

(***************************************************************************)
(* publish                                                                 *)
(***************************************************************************)

\* w->updates_count++ on a uint8_t.
CountedUpdates(i) == (work_items[i].updates_count + 1) % 256

\* Mutant: the work item is submitted one message late.
Due_Late(i) == CountedUpdates(i) > work_items[i].required_updates

Due(i) == CountedUpdates(i) >= work_items[i].required_updates

\* Submitting an item that is already queued changes nothing.
submit_workitems ==
    /\ work_items' = [i \in Entries |->
           IF i \in Registered
             THEN [work_items[i] EXCEPT
                      !.updates_count = IF Due(i) THEN 0 ELSE CountedUpdates(i)]
             ELSE work_items[i]]
    /\ queued' = queued \cup {work_items[i].work_item : i \in {j \in Registered : Due(j)}}

Pushed(d) == push(msg_queue, [data |-> d, generation |-> generation + 1])

\* Mutant: oldest_generation is read before the push moves the tail.
Publish_StaleOldest(d) ==
    /\ generation < MaxGeneration
    /\ generation' = generation + 1
    /\ msg_queue' = Pushed(d)
    /\ oldest_generation' = get(msg_queue, msg_queue.tail).generation
    /\ submit_workitems
    /\ published' = Append(published, d)
    /\ UNCHANGED <<workitem_count, subVars, since, started>>

Publish(d) ==
    /\ generation < MaxGeneration
    /\ generation' = generation + 1
    /\ msg_queue' = Pushed(d)
    /\ oldest_generation' = get(Pushed(d), Pushed(d).tail).generation
    /\ submit_workitems
    /\ published' = Append(published, d)
    /\ UNCHANGED <<workitem_count, subVars, since, started>>

(***************************************************************************)
(* poll, and the subscriber's own set_missed(false)                        *)
(***************************************************************************)

\* Mutant: the flag is raised one message too early.
Overtaken_Early(s) == last_generation[s] + 1 <= oldest_generation

\* The messages after the one that s read last were overwritten.
Overtaken(s) == last_generation[s] + 1 < oldest_generation

\* last_generation_ once poll has skipped what was overwritten.
ReadFrom(s) == IF Overtaken(s) THEN oldest_generation - 1 ELSE last_generation[s]

ReadIdx(s) ==
    LET offset == Wrap(ReadFrom(s) - oldest_generation + 1, QUEUE_LEN)
    IN  Wrap(msg_queue.tail + offset, QUEUE_LEN)

PollNothing(s) ==
    /\ last_generation[s] = generation
    /\ polled' = [polled EXCEPT ![s].ok = FALSE]
    /\ UNCHANGED <<topicVars, itemVars, last_generation, missed, history>>

\* Mutant: the subscriber records the topic's generation, as SRIMBTopic does.
PollMessage_Jumps(s) ==
    /\ last_generation[s] # generation
    /\ missed' = [missed EXCEPT ![s] = @ \/ Overtaken(s)]
    /\ polled' = [polled EXCEPT ![s] =
                     [ok |-> TRUE, data |-> get(msg_queue, ReadIdx(s)).data]]
    /\ last_generation' = [last_generation EXCEPT ![s] = generation]
    /\ UNCHANGED <<topicVars, itemVars, history>>

PollMessage(s) ==
    /\ last_generation[s] # generation
    /\ missed' = [missed EXCEPT ![s] = @ \/ Overtaken(s)]
    /\ polled' = [polled EXCEPT ![s] =
                     [ok |-> TRUE, data |-> get(msg_queue, ReadIdx(s)).data]]
    /\ last_generation' =
           [last_generation EXCEPT ![s] = get(msg_queue, ReadIdx(s)).generation]
    /\ UNCHANGED <<topicVars, itemVars, history>>

ClearMissed(s) ==
    /\ missed' = [missed EXCEPT ![s] = FALSE]
    /\ UNCHANGED <<topicVars, itemVars, last_generation, polled, history>>

(***************************************************************************)
(* Work items                                                              *)
(***************************************************************************)

\* An entry that has counted no update yet.
NewEntry(w, required) ==
    [work_item |-> w, required_updates |-> required, updates_count |-> 0]

\* Mutant: no limit.
Register_NoLimit(w, required) ==
    /\ work_items' = [work_items EXCEPT ![workitem_count] = NewEntry(w, required)]
    /\ workitem_count' = workitem_count + 1
    /\ since' = [since EXCEPT ![workitem_count] = generation]
    /\ UNCHANGED <<topicVars, subVars, queued, published, started>>

\* Both overloads of register_work_item; a full array makes them return false
\* and change nothing.
Register(w, required) ==
    /\ workitem_count < MAX_WORK_ITEM
    /\ work_items' = [work_items EXCEPT ![workitem_count] = NewEntry(w, required)]
    /\ workitem_count' = workitem_count + 1
    /\ since' = [since EXCEPT ![workitem_count] = generation]
    /\ UNCHANGED <<topicVars, subVars, queued, published, started>>

\* The loop stops at the first entry of the work item.
set_required_updates(w, required) ==
    \E i \in Registered :
        /\ work_items[i].work_item = w
        /\ \A j \in Registered : work_items[j].work_item = w => i <= j
        /\ work_items' = [work_items EXCEPT ![i] = NewEntry(w, required)]
        /\ since' = [since EXCEPT ![i] = generation]
        /\ UNCHANGED <<topicVars, subVars, workitem_count, queued, published, started>>

\* The work queue thread takes w off its queue and calls its handler.
StartItem(w) ==
    /\ w \in queued
    /\ queued' = queued \ {w}
    /\ started' = [started EXCEPT ![w] = generation]
    /\ UNCHANGED <<topicVars, work_items, workitem_count, subVars, published, since>>

Next ==
    \/ \E d \in Data : Publish(d)
    \/ \E s \in Subs : PollNothing(s) \/ PollMessage(s) \/ ClearMissed(s)
    \/ \E w \in WorkItems :
          \/ \E required \in Required : Register(w, required) \/ set_required_updates(w, required)
          \/ StartItem(w)

Spec == Init /\ [][Next]_vars
-----------------------------------------------------------------------------
(***************************************************************************)
(* Properties.                                                             *)
(***************************************************************************)

\* Type invariant.
TypeOK ==
    /\ msg_queue \in RingOf(Message, QUEUE_LEN)
    /\ generation \in Nat
    /\ oldest_generation \in Nat
    /\ work_items \in [Entries -> Schedule]
    /\ workitem_count \in 0 .. MAX_WORK_ITEM
    /\ \A i \in Registered : work_items[i].work_item \in WorkItems
    /\ last_generation \in [Subs -> Nat]
    /\ missed \in [Subs -> BOOLEAN]
    /\ polled \in [Subs -> [ok : BOOLEAN, data : Data \cup {NoData}]]
    /\ queued \subseteq WorkItems
    /\ published \in Seq(Data)
    /\ since \in [Entries -> Nat]
    /\ started \in [WorkItems -> Nat]

\* How many messages the ring holds after that many publishes.
Kept == IF generation < QUEUE_LEN THEN generation ELSE QUEUE_LEN

\* The ring holds exactly the newest QUEUE_LEN messages in the order of their
\* publishing, each under its own generation, and oldest_generation is that
\* of the first: poll computes its slot from oldest_generation alone, so any
\* disagreement hands a subscriber another message than the one it is due.
RingHoldsNewest ==
    /\ Len(published) = generation
    /\ msg_queue.count = Kept
    /\ msg_queue.head = SlotAt(msg_queue, msg_queue.count)
    /\ generation > 0 => oldest_generation = generation - Kept + 1
    /\ \A j \in 0 .. Kept - 1 :
          msg_queue.buf[SlotAt(msg_queue, j)] = [data |-> published[oldest_generation + j],
                                              generation |-> oldest_generation + j]

\* A subscriber never gets ahead of the topic, and after a successful poll it
\* holds the message of the generation it recorded, overwritten or not since.
HoldsWhatItRecorded ==
    \A s \in Subs :
        /\ last_generation[s] <= generation
        /\ polled[s].ok => /\ last_generation[s] > 0
                           /\ polled[s].data = published[last_generation[s]]

\* Polling subscribers see the log of what was published: in order, without
\* repetition, and with the missed flag raised by every skip.
Log == INSTANCE TopicLog WITH Depth <- QUEUE_LEN, log <- published,
                              cursor <- last_generation, result <- polled
LogSpec == Log!Spec

Later(m, n) == IF m < n THEN n ELSE m

\* How many messages entry i has not been told of: those published since its
\* counting began and since its work item last started.
Untold(i) == generation - Later(since[i], started[work_items[i].work_item])

\* A work item is queued by the time required_updates messages (at least one)
\* were published after its handler last began: no sequence of publishes,
\* starts, registrations and changes of the requirement loses a wake-up, even
\* when several notifications fall into one submit.
NotifiedInTime ==
    \A i \in Registered :
        Untold(i) >= Later(1, work_items[i].required_updates)
            => work_items[i].work_item \in queued
=============================================================================
