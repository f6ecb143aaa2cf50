------------------------- MODULE MCRandomAccessFile -------------------------
(***************************************************************************)
(* Small instances of RandomAccessFile for TLC, and what the code and the  *)
(* comments of example/raf say of themselves.                              *)
(***************************************************************************)
EXTENDS RandomAccessFile, TLC

Slots == Permutations(Req)

\* Two overlapping ranges, one of which may be moved in three parts, and nothing.
Overlapping ==
  {[offset |-> 0, length |-> 2], [offset |-> 1, length |-> 3], [offset |-> 3, length |-> 0]}

OneRange == {[offset |-> 1, length |-> 2]}

(***************************************************************************)
(* write.c:15 panic(fs->result > -1, ...) before done(), and util.h:93     *)
(* fs->result = -1 for a transfer that stops short: no client is told of a *)
(* write whose bytes are not all in the file.                              *)
(***************************************************************************)
WriteFailuresPanic == \A r \in Calling : op[r] = "WRITE" => Whole(r)

(***************************************************************************)
(* open.c:79-82: for RAF_OPEN_READ_ONLY, raf->writable = ARA_FALSE.        *)
(***************************************************************************)
ReadOnlyIsNotWritable ==
  \A r \in Req : op[r] = "OPEN" /\ opts[r].flags = "READ_ONLY" /\ r \in Calling => ~writable
=============================================================================
