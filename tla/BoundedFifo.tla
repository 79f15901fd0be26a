---------------------------- MODULE BoundedFifo ----------------------------
(***************************************************************************)
(* A bounded FIFO queue between one producer and one consumer: a push      *)
(* takes effect or is refused, and the consumer takes out what was put in. *)
(***************************************************************************)
EXTENDS Integers, Sequences

CONSTANTS
    Elem,        \* the elements
    None,        \* what the consumer holds before its first pop
    Capacity     \* how many elements the queue holds

VARIABLES
    q,           \* the elements in the queue, oldest first
    item         \* the element the consumer took out last

vars == <<q, item>>

Init == q = << >> /\ item = None

Put(d) ==
    /\ Len(q) < Capacity
    /\ q' = Append(q, d)
    /\ UNCHANGED item

Take ==
    /\ q # << >>
    /\ item' = Head(q)
    /\ q' = Tail(q)

Next == (\E d \in Elem : Put(d)) \/ Take

Spec == Init /\ [][Next]_vars
=============================================================================
