---------------------------- MODULE MCRafProgram ----------------------------
(***************************************************************************)
(* Small instances of RafProgram for TLC.                                  *)
(***************************************************************************)
EXTENDS RafProgram, TLC

\* Two of "hello", " " and "world", with fewer letters.
Pair ==
  <<[offset |-> 0, length |-> 2, text |-> "hello"],
    [offset |-> 2, length |-> 1, text |-> "world"]>>

PairRanges == {Extent(Pair[i]) : i \in DOMAIN Pair}
=============================================================================
