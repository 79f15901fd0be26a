---------------------------- MODULE MCQueueTopic ----------------------------
(***************************************************************************)
(* SRIMBQueueTopic for TLC.  Subscribers and work items meet in nothing    *)
(* but the publishes, so a behaviour is about one of them: two             *)
(* subscribers, and enough messages to wrap a ring of three twice; or two  *)
(* work items, with requirements below and above what the ring holds, and  *)
(* one message, since what they are told does not depend on it.            *)
(***************************************************************************)
EXTENDS SRIMBQueueTopic

CONSTANT ItemData     \* the message of a behaviour about work items

VARIABLE clients      \* whom this behaviour is about

MCInit ==
    /\ clients \in {"subscribers", "work items"}
    /\ Init

Subscribers ==
    \/ \E d \in Data : Publish(d)
    \/ \E s \in Subs : PollNothing(s) \/ PollMessage(s) \/ ClearMissed(s)

Items ==
    \/ Publish(ItemData)
    \/ \E w \in WorkItems :
          \/ \E required \in Required : Register(w, required) \/ set_required_updates(w, required)
          \/ StartItem(w)

MCNext ==
    /\ UNCHANGED clients
    /\ \/ clients = "subscribers" /\ Subscribers
       \/ clients = "work items" /\ Items
=============================================================================
