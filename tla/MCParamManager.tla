--------------------------- MODULE MCParamManager ---------------------------
(***************************************************************************)
(* ParamManager for TLC: two parameters, three values, two   *)
(* threads that may set either.  Everything that flash can hold at the     *)
(* first start is an initial state.                                        *)
(***************************************************************************)
EXTENDS ParamManager, TLC

CONSTANTS d0, d1, d2    \* the values; d0 is the default

\* All parameters have the same default.
MCDefault == [id \in IDs |-> d0]

\* The threads differ in nothing, and neither do the parameters.
MCSymmetry == Permutations(Threads) \cup Permutations(IDs)
=============================================================================
