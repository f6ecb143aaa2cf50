------------------------------ MODULE RafTypes ------------------------------
(***************************************************************************)
(* The enumerations and the arithmetic of example/raf: how raf_open()      *)
(* reads its flags, and how raf_read() cuts a range to the file.           *)
(***************************************************************************)
EXTENDS Naturals

CONSTANT
  Wrap        \* the values of an ARAuint: 2^32 in the program

ASSUME WrapAssumption == Wrap \in Nat \ {0}

(***************************************************************************)
(* enum RandomAccessFileFlags counts 0, 1, 2, 3 and is used as a mask.     *)
(***************************************************************************)
FlagBits ==
  [NONE       |-> {},
   READ_ONLY  |-> {0},
   WRITE_ONLY |-> {1},
   READ_WRITE |-> {0, 1}]

Flags == {"NONE", "READ_ONLY", "WRITE_ONLY", "READ_WRITE"}

\* 0 != (flags & which)
Has(flags, which) == FlagBits[flags] \intersect FlagBits[which] # {}

(***************************************************************************)
(* raf->readable and raf->writable after on_uv_fs_open(), which tests for  *)
(* RAF_OPEN_READ_WRITE first.  RAF_OPEN_NONE leaves them as they were.     *)
(***************************************************************************)
ReadableBy(flags, was) ==
  IF Has(flags, "READ_WRITE") \/ Has(flags, "READ_ONLY") THEN TRUE
  ELSE IF Has(flags, "WRITE_ONLY") THEN FALSE
  ELSE was

WritableBy(flags, was) ==
  IF Has(flags, "READ_WRITE") THEN TRUE
  ELSE IF Has(flags, "READ_ONLY") THEN FALSE
  ELSE Has(flags, "WRITE_ONLY") \/ was

(***************************************************************************)
(* raf_read() cuts the range its client asks for to raf->size, in place    *)
(* and in three tests.  The sum in the second one is an ARAuint and wraps. *)
(***************************************************************************)
\* Plausible bug: the second test forgets the offset.
Clamp_NoOffset(range, size) ==
  LET offset == IF range.offset >= size THEN size ELSE range.offset
      wanted == IF range.offset >= size THEN 0 ELSE range.length
      within == IF wanted > size THEN size - offset ELSE wanted
  IN [offset |-> offset, length |-> IF within > size THEN size ELSE within]

Clamp(range, size) ==
  LET offset == IF range.offset >= size THEN size ELSE range.offset
      wanted == IF range.offset >= size THEN 0 ELSE range.length
      within == IF (offset + wanted) % Wrap > size THEN size - offset ELSE wanted
  IN [offset |-> offset, length |-> IF within > size THEN size ELSE within]
=============================================================================
