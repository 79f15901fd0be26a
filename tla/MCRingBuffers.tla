--------------------------- MODULE MCRingBuffers ---------------------------
(***************************************************************************)
(* The two buffers of lib/ringbuffer for TLC; they share nothing, so a     *)
(* behaviour is about one of them.  RingBuffer: rings of three sizes,      *)
(* batches as long as the largest of them, so that every split of a batch  *)
(* over the end of the array and every eviction count occurs.              *)
(* SPSCRingBuffer: two slots and the sentinel, and enough pushes to go     *)
(* round them twice.                                                       *)
(***************************************************************************)
EXTENDS RingBuffer, SPSCRingBuffer

VARIABLE class    \* the class of this behaviour

MCSizes == {1, 2, 3}

MCInit ==
    /\ class \in {"RingBuffer", "SPSCRingBuffer"}
    /\ Init /\ SpscInit
    /\ class = "RingBuffer" \/ rb = NewRing(1, Zero)

MCNext ==
    /\ UNCHANGED class
    /\ \/ class = "RingBuffer" /\ Next /\ UNCHANGED spscVars
       \/ class = "SPSCRingBuffer" /\ SpscNext /\ UNCHANGED vars
=============================================================================
