---------------------------- MODULE LatestValue ----------------------------
(***************************************************************************)
(* What a latest-value topic promises its subscribers: a read hands out    *)
(* the newest message whole, at most once each; older ones are superseded. *)
(***************************************************************************)
EXTENDS Integers, Sequences

CONSTANTS
    Data,        \* the messages
    NoData,      \* what a subscriber holds before its first message
    Subs         \* the subscribers

VARIABLES
    log,         \* every message published, in order
    cursor,      \* the position of the message each subscriber read last
    result       \* what each subscriber's last poll returned: [ok, data]

vars == <<log, cursor, result>>

Init ==
    /\ log = << >>
    /\ cursor = [s \in Subs |-> 0]
    /\ result = [s \in Subs |-> [ok |-> FALSE, data |-> NoData]]

Publish(d) ==
    /\ log' = Append(log, d)
    /\ UNCHANGED <<cursor, result>>

ReadNothing(s) ==
    /\ cursor[s] = Len(log)
    /\ result' = [result EXCEPT ![s].ok = FALSE]
    /\ UNCHANGED <<log, cursor>>

ReadLatest(s) ==
    /\ cursor[s] < Len(log)
    /\ cursor' = [cursor EXCEPT ![s] = Len(log)]
    /\ result' = [result EXCEPT ![s] = [ok |-> TRUE, data |-> log[Len(log)]]]
    /\ UNCHANGED log

Next ==
    \/ \E d \in Data : Publish(d)
    \/ \E s \in Subs : ReadNothing(s) \/ ReadLatest(s)

Spec == Init /\ [][Next]_vars
=============================================================================
