------------------------- MODULE OverwritingQueue -------------------------
(***************************************************************************)
(* What a ring buffer promises to its callers: a bounded FIFO queue that   *)
(* forgets its oldest elements when it is full.  There are no indices and  *)
(* no storage here: the queue is a sequence, oldest element first.         *)
(***************************************************************************)
EXTENDS Integers, Sequences, SequencesExt

CONSTANTS
    Elem,        \* the elements
    Sizes,       \* the capacities a caller asks for
    MaxLen       \* the longest array a caller passes to a batch operation

VARIABLES
    q,           \* the elements held
    cap,         \* the capacity; 0 when no storage could be allocated
    ret          \* what the last call returned: [ok, out]

vars == <<q, cap, ret>>

\* The last n elements of s, or all of them.
Newest(s, n) == IF Len(s) <= n THEN s ELSE SubSeq(s, Len(s) - n + 1, Len(s))

Batches == BoundedSeq(Elem, MaxLen)

Smaller(m, n) == IF m < n THEN m ELSE n

Init == q = << >> /\ cap \in Sizes \cup {0} /\ ret = [ok |-> TRUE, out |-> << >>]

Write(s) ==
    /\ q' = Newest(q \o s, cap)
    /\ ret' = [ok |-> TRUE, out |-> << >>]
    /\ UNCHANGED cap

\* Hand out the oldest n elements; they leave the queue if consumed.
Read(n, ok, consumed) ==
    /\ ret' = [ok |-> ok, out |-> SubSeq(q, 1, n)]
    /\ q' = IF consumed THEN SubSeq(q, n + 1, Len(q)) ELSE q
    /\ UNCHANGED cap

\* Tell whether the queue is empty at this moment; without storage, anything.
Report(ok) ==
    /\ cap > 0 => ok = (q = << >>)
    /\ ret' = [ok |-> ok, out |-> << >>]
    /\ UNCHANGED <<q, cap>>

Forget(n, ok) ==
    /\ q' = << >>
    /\ cap' = n
    /\ ret' = [ok |-> ok, out |-> << >>]

Next ==
    \/ \E s \in Batches : Len(s) <= cap /\ Write(s)
    \/ Read(Smaller(1, Len(q)), q # << >>, TRUE)
    \/ \E len \in 0 .. MaxLen, consumed \in BOOLEAN :
          Read(Smaller(len, Len(q)), TRUE, consumed)
    \/ \E ok \in BOOLEAN : Report(ok)
    \/ Forget(cap, TRUE)
    \/ \E n \in Sizes : Forget(n, TRUE)
    \/ Forget(0, FALSE)

Spec == Init /\ [][Next]_vars
=============================================================================
