--------------------------- MODULE MCAraContract ---------------------------
(***************************************************************************)
(* A small instance of AraContract for TLC.                                *)
(***************************************************************************)
EXTENDS AraContract, TLC

\* Request slots are interchangeable.
Slots == Permutations(Req)
=============================================================================
