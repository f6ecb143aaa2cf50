-------------------------- MODULE MCSimpleProgram --------------------------
(***************************************************************************)
(* A small instance of SimpleProgram for TLC.                              *)
(***************************************************************************)
EXTENDS SimpleProgram, TLC

\* Every range inside the memory.
AllRanges == UNION {{[offset |-> o, length |-> n] : n \in 0..(Bufsiz - o)} : o \in 0..Bufsiz}
=============================================================================
