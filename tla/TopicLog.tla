----------------------------- MODULE TopicLog -----------------------------
(***************************************************************************)
(* What a queued topic promises its subscribers.  The topic is the log of  *)
(* everything ever published, of which the newest Depth messages can still *)
(* be read.  A subscriber is a cursor into the log: a read hands out the   *)
(* first message after the cursor that is still there and raises the       *)
(* subscriber's missed flag exactly when that one is not the next.         *)
(***************************************************************************)
EXTENDS Integers, Sequences

CONSTANTS
    Data,        \* the messages
    NoData,      \* what a subscriber holds before its first message
    Subs,        \* the subscribers
    Depth        \* how many messages the topic keeps

VARIABLES
    log,         \* every message published, in order
    cursor,      \* how far each subscriber has read
    missed,      \* whether a message was lost since the subscriber last looked
    result       \* what each subscriber's last read returned: [ok, data]

vars == <<log, cursor, missed, result>>

Init ==
    /\ log = << >>
    /\ cursor = [s \in Subs |-> 0]
    /\ missed = [s \in Subs |-> FALSE]
    /\ result = [s \in Subs |-> [ok |-> FALSE, data |-> NoData]]

\* The position of the oldest message still kept.
Oldest == IF Len(log) > Depth THEN Len(log) - Depth + 1 ELSE 1

\* The position of the message that s reads next.
NextFor(s) == IF cursor[s] + 1 < Oldest THEN Oldest ELSE cursor[s] + 1

Publish(d) ==
    /\ log' = Append(log, d)
    /\ UNCHANGED <<cursor, missed, result>>

ReadNothing(s) ==
    /\ cursor[s] = Len(log)
    /\ result' = [result EXCEPT ![s].ok = FALSE]
    /\ UNCHANGED <<log, cursor, missed>>

ReadNext(s) ==
    /\ cursor[s] < Len(log)
    /\ result' = [result EXCEPT ![s] = [ok |-> TRUE, data |-> log[NextFor(s)]]]
    /\ cursor' = [cursor EXCEPT ![s] = NextFor(s)]
    /\ missed' = [missed EXCEPT ![s] = @ \/ NextFor(s) # cursor[s] + 1]
    /\ UNCHANGED log

Acknowledge(s) ==
    /\ missed' = [missed EXCEPT ![s] = FALSE]
    /\ UNCHANGED <<log, cursor, result>>

Next ==
    \/ \E d \in Data : Publish(d)
    \/ \E s \in Subs : ReadNothing(s) \/ ReadNext(s) \/ Acknowledge(s)

Spec == Init /\ [][Next]_vars
=============================================================================
