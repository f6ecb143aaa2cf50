------------------------------ MODULE MCBuffer ------------------------------
(***************************************************************************)
(* Small instances of Buffer for TLC.                                      *)
(***************************************************************************)
EXTENDS Buffer, TLC

Places == Permutations(Regions)

\* All of a buffer of 2, across its end, at its end, past its end, and empty.
Across ==
  {[offset |-> 0, length |-> 2], [offset |-> 1, length |-> 2], [offset |-> 2, length |-> 1],
   [offset |-> 3, length |-> 1], [offset |-> 1, length |-> 0]}
=============================================================================
