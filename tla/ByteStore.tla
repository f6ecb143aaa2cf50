------------------------------ MODULE ByteStore ------------------------------
(***************************************************************************)
(* What an ara_buffer_t promises: a string of bytes.  A write that returns *)
(* its length changes its own range and nothing else, however the string   *)
(* has to grow or move; one that returns 0 may lose the whole string; a    *)
(* read returns what is there.  Bytes outside the string are not promised. *)
(***************************************************************************)
EXTENDS Integers

CONSTANTS
  Bytes,      \* the values a client writes
  Ranges,     \* the ranges it writes and reads
  Lengths     \* the lengths it makes strings of

VARIABLES
  bytes,      \* a function from 0..n-1, for a string of n bytes
  answer      \* what the last call returned

storevars == <<bytes, answer>>

Span(n) == 0..(n - 1)

Within(range) == range.offset..(range.offset + range.length - 1)

Nothing == [i \in {} |-> 0]

\* Values a byte has that nobody wrote.
Unwritten == {"zero", "junk"}

Values == Bytes \union Unwritten

Silent == [count |-> 0, out |-> Nothing]

StoreInit ==
  /\ bytes = Nothing
  /\ answer = Silent

Make ==
  /\ \E n \in Lengths : bytes' = [i \in Span(n) |-> "zero"]
  /\ answer' = Silent

\* A buffer that is destroyed, made without memory, or that failed to grow.
Lose ==
  /\ bytes' = Nothing
  /\ answer' = Silent

Put(range, value) ==
  /\ DOMAIN bytes \subseteq DOMAIN bytes'
  /\ bytes' \in [DOMAIN bytes' -> Values]
  /\ \A i \in DOMAIN bytes' :
       /\ i \in Within(range) => bytes'[i] = value
       /\ i \in DOMAIN bytes \ Within(range) => bytes'[i] = bytes[i]
  /\ answer' = [count |-> range.length, out |-> Nothing]

Get(range) ==
  /\ answer' \in [count : {range.length}, out : [Span(range.length) -> Values]]
  /\ \A i \in Span(range.length) :
       range.offset + i \in DOMAIN bytes => answer'.out[i] = bytes[range.offset + i]
  /\ UNCHANGED bytes

\* A call that does nothing: no memory, no range, or a range past the end.
Refuse ==
  /\ answer' = Silent
  /\ UNCHANGED bytes

StoreNext ==
  \/ Make
  \/ Lose
  \/ \E range \in Ranges : Get(range) \/ \E value \in Bytes : Put(range, value)
  \/ Refuse

StoreSpec == StoreInit /\ [][StoreNext]_storevars
=============================================================================
