------------------------------- MODULE Buffer -------------------------------
(***************************************************************************)
(* One ara_buffer_t, its memory, and a client that makes, writes, reads    *)
(* and destroys it.                                                        *)
(*                                                                         *)
(* A function of src/buffer.c is an action; what it may leave behind is a  *)
(* set of outcomes, records of the variables it changes.  A failing        *)
(* malloc() and an access outside a region are undefined behaviour in this *)
(* code: the process dies, or it goes on.                                  *)
(***************************************************************************)
EXTENDS Integers

CONSTANTS
  Regions,    \* the pieces of memory malloc() may return
  Bytes,      \* the values a client writes, one for all bytes of a call
  Ranges,     \* the ranges [offset, length] it writes and reads
  Lengths,    \* the lengths it makes buffers of
  Wrap,       \* the values of an ARAuint: 2^32 in the program
  AllocFails  \* may malloc() and realloc() return NULL?

Null == "NULL"

ASSUME BufferAssumption ==
  /\ Null \notin Regions
  /\ Ranges \subseteq [offset : Nat, length : Nat]
  /\ Lengths \subseteq Nat
  /\ Wrap \in Nat \ {0}
  /\ AllocFails \in BOOLEAN

VARIABLES
  up,         \* the process runs
  spilled,    \* it has read or written outside a region (history)
  present,    \* the client has an ara_buffer_t
  alloc,      \* self->alloc: the struct comes from ara_buffer_new()
  made,       \* the client made the buffer and has not destroyed it (history)
  careful,    \* so far it kept the rules, and got its memory (history)
  buffer,     \* self->data and self->written
  heap,       \* the allocated regions, each a function from 0..n-1
  answer      \* what the last call returned

bvars == <<up, spilled, present, alloc, made, careful, buffer, heap, answer>>

Span(n) == 0..(n - 1)

Nothing == [i \in {} |-> 0]

Silent == [count |-> 0, out |-> Nothing]

\* What a byte holds that nobody wrote.
Values == Bytes \union {"zero", "junk"}

NoView == [base |-> Null, len |-> 0]

Zeroed == [base |-> Null, length |-> 0, view |-> NoView, mut |-> NoView, written |-> 0]

\* A static struct, or none yet.
BInit ==
  /\ up = TRUE
  /\ spilled = FALSE
  /\ present \in BOOLEAN
  /\ alloc = FALSE
  /\ made = FALSE
  /\ careful = TRUE
  /\ buffer = Zeroed
  /\ heap = Nothing
  /\ answer = Silent

-----------------------------------------------------------------------------
(***************************************************************************)
(* Memory.                                                                 *)
(***************************************************************************)
Allot(h, id, cells) == [i \in DOMAIN h \union {id} |-> IF i = id THEN cells ELSE h[i]]

Free(h, id) == [i \in DOMAIN h \ {id} |-> h[i]]

\* malloc(n), every byte being v: what it returns and the memory after it.
Mallocs(h, n, v) ==
  {[base |-> id, heap |-> Allot(h, id, [i \in Span(n) |-> v])] : id \in Regions \ DOMAIN h}
    \union (IF AllocFails THEN {[base |-> Null, heap |-> h]} ELSE {})

\* realloc(): the bytes both regions have are kept, in place or elsewhere.
Resized(h, id, n) == [i \in Span(n) |-> IF i \in DOMAIN h[id] THEN h[id][i] ELSE "junk"]

Reallocs(h, id, n) ==
  {[base |-> new, heap |-> Allot(Free(h, id), new, Resized(h, id, n))] :
     new \in (Regions \ DOMAIN h) \union {id}}
    \union (IF AllocFails THEN {[base |-> Null, heap |-> h]} ELSE {})

\* A buffer that is elsewhere, and has counted what it has.
Moved(b, base, length, view) ==
  [base |-> base, length |-> length, view |-> view, mut |-> b.mut, written |-> b.written]

\* An outcome of a function: ok is its result.
Outcome(b, h, s, ok) == [buffer |-> b, heap |-> h, spilled |-> s, ok |-> ok]

-----------------------------------------------------------------------------
(***************************************************************************)
(* ara_buffer_init() of buffer b.  The build (-O2) turns malloc() and      *)
(* memset() into calloc() and, since memset() may not be given NULL, drops *)
(* the test for NULL: a buffer without memory is TRUE.  Length 0 is FALSE, *)
(* and leaves the view as it was.                                          *)
(***************************************************************************)
Inits(b, h, n) ==
  IF n = 0
  THEN {Outcome([Moved(b, Null, 0, b.view) EXCEPT !.written = 0], h, spilled, FALSE)}
  ELSE {Outcome([base |-> m.base, length |-> n, view |-> [base |-> m.base, len |-> n],
                 mut |-> b.mut, written |-> 0], m.heap, spilled, TRUE) :
          m \in Mallocs(h, n, "zero")}

\* Plausible bug: the view stays on the region realloc() has freed.
ViewOf_Old(b, id, n) == b.view

ViewOf(b, id, n) == [base |-> id, len |-> n]

(***************************************************************************)
(* ara_buffer_realloc() of a buffer with memory, n > length.  The memset() *)
(* of the new bytes starts where the region ends.  When realloc() fails    *)
(* the old region is forgotten, and view still refers to it.               *)
(***************************************************************************)
Grows(b, h, n) ==
  {IF m.base = Null
   THEN Outcome(Moved(b, Null, 0, b.view), m.heap, spilled, FALSE)
   ELSE Outcome(Moved(b, m.base, n, ViewOf(b, m.base, n)), m.heap, TRUE, TRUE) :
     m \in Reallocs(h, b.base, n)}

\* The same of a buffer without memory, or of length 0: its length stays.
Acquires(b, h, n) ==
  {Outcome(Moved(b, m.base, b.length, ViewOf(b, m.base, b.length)), m.heap, spilled, TRUE) :
     m \in Mallocs(h, n, "junk")}

Reallocations(b, h, n) ==
  IF b.base # Null /\ b.length > 0 THEN Grows(b, h, n) ELSE Acquires(b, h, n)

-----------------------------------------------------------------------------
(***************************************************************************)
(* The calls.                                                              *)
(***************************************************************************)
\* Undefined behaviour that kills the process.
Dies ==
  /\ up' = FALSE
  /\ spilled' = TRUE
  /\ UNCHANGED <<present, alloc, made, buffer, heap, answer>>

Leaves(outcome) ==
  /\ buffer' = outcome.buffer
  /\ heap' = outcome.heap
  /\ spilled' = outcome.spilled
  /\ up' = up

\* ara_buffer_init(), by a client or for a request; memset(NULL) may be fatal.
BufferInit(n) ==
  /\ up
  /\ present
  /\ \/ /\ \E outcome \in Inits(buffer, heap, n) : Leaves(outcome) /\ made' = outcome.ok
        /\ careful' = (careful /\ ~made /\ (n > 0 => buffer'.base # Null))
        /\ alloc' = FALSE
        /\ answer' = Silent
        /\ UNCHANGED present
     \/ AllocFails /\ n > 0 /\ Dies /\ careful' = FALSE

\* ara_buffer_new(): a zeroed struct that ara_buffer_destroy() will free.
BufferNew(n) ==
  /\ up
  /\ ~present
  /\ n > 0
  /\ \/ /\ \E outcome \in Inits(Zeroed, heap, n) : Leaves(outcome)
        /\ present' = TRUE
        /\ alloc' = TRUE
        /\ made' = TRUE
        /\ careful' = (careful /\ buffer'.base # Null)
        /\ answer' = Silent
     \/ AllocFails /\ Dies /\ careful' = FALSE

\* raf_read() and raf_write(): both views are made of base and length.
TakeView ==
  /\ up
  /\ present
  /\ buffer' = [buffer EXCEPT !.view = [base |-> buffer.base, len |-> buffer.length],
                              !.mut = [base |-> buffer.base, len |-> buffer.length]]
  /\ answer' = Silent
  /\ UNCHANGED <<up, spilled, present, alloc, made, careful, heap>>

\* Plausible bug: the struct keeps its base.
BufferDestroy_KeepsBase ==
  /\ up
  /\ present
  /\ heap' = IF buffer.base = Null THEN heap ELSE Free(heap, buffer.base)
  /\ buffer' = IF alloc THEN Zeroed ELSE [buffer EXCEPT !.view = NoView, !.mut = NoView]
  /\ present' = ~alloc
  /\ alloc' = FALSE
  /\ made' = FALSE
  /\ answer' = Silent
  /\ UNCHANGED <<up, spilled, careful>>

\* length and written stay, and so do the views of a buffer without memory.
BufferDestroy ==
  /\ up
  /\ present
  /\ heap' = IF buffer.base = Null THEN heap ELSE Free(heap, buffer.base)
  /\ buffer' = IF alloc THEN Zeroed
               ELSE IF buffer.base = Null THEN buffer
               ELSE [buffer EXCEPT !.base = Null, !.view = NoView, !.mut = NoView]
  /\ present' = ~alloc
  /\ alloc' = FALSE
  /\ made' = FALSE
  /\ answer' = Silent
  /\ UNCHANGED <<up, spilled, careful>>

-----------------------------------------------------------------------------
(***************************************************************************)
(* ara_buffer_write().                                                     *)
(***************************************************************************)
Usable == up /\ present

\* The rule: a buffer is made before its use, and long enough.
Obeys(range) == made /\ range.offset + range.length <= buffer.length

Unchanged == Outcome(buffer, heap, spilled, TRUE)

\* A buffer without memory is made, of the length of this write.
Prepared(range) ==
  IF buffer.base = Null THEN Inits(buffer, heap, range.length) ELSE {Unchanged}

\* Plausible bug: a buffer that is just full grows.
TooShort_WhenFull(b, range) == range.offset + range.length >= b.length /\ range.length > 0

\* It grows if the offset alone is past its end, whatever the length.
TooShort(b, range) == range.offset > b.length /\ range.length > 0

Sized(p, range) ==
  IF p.ok /\ TooShort(p.buffer, range)
  THEN Reallocations(p.buffer, p.heap, p.buffer.length + range.offset)
  ELSE {p}

Covers(range, i) == range.offset <= i /\ i < range.offset + range.length

\* Is the range inside the memory at base, which is not NULL?
Inside(b, h, range) ==
  range.length > 0 => range.offset + range.length - 1 \in DOMAIN h[b.base]

\* Plausible bug: the bytes go to the beginning of the region.
Copied_AtStart(h, id, range, value) ==
  [h EXCEPT ![id] = [i \in DOMAIN h[id] |-> IF i < range.length THEN value ELSE h[id][i]]]

\* memcpy() into the region; what it does beyond is not in this memory.
Copied(h, id, range, value) ==
  [h EXCEPT ![id] = [i \in DOMAIN h[id] |-> IF Covers(range, i) THEN value ELSE h[id][i]]]

\* Plausible bug: the count is as wide as the buffer's length.
Counted_Wide(b, n) == b.written + n

\* self->written is an ARAuint.
Counted(b, n) == (b.written + n) % Wrap

BufferWrite(range, value) ==
  /\ Usable
  /\ \E p \in Prepared(range) : \E s \in Sized(p, range) :
       \/ /\ ~s.ok
          /\ Leaves(s)
          /\ answer' = Silent
       \/ /\ s.ok
          /\ s.buffer.base # Null
          /\ heap' = Copied(s.heap, s.buffer.base, range, value)
          /\ buffer' = [s.buffer EXCEPT !.written = Counted(s.buffer, range.length)]
          /\ spilled' = (s.spilled \/ ~Inside(s.buffer, s.heap, range))
          /\ answer' = [count |-> range.length, out |-> Nothing]
          /\ up' = up
  /\ careful' = (careful /\ Obeys(range))
  /\ UNCHANGED <<present, alloc, made>>

\* Growing, overrunning and a copy to NULL may kill the process.
BufferWriteDies(range) ==
  /\ Usable
  /\ \E p \in Prepared(range) : \E s \in Sized(p, range) :
       \/ AllocFails /\ range.length > 0 /\ buffer.base = Null
       \/ s.ok /\ s.buffer.base # Null
            /\ (s.spilled # spilled \/ ~Inside(s.buffer, s.heap, range))
  /\ Dies
  /\ careful' = (careful /\ Obeys(range))

-----------------------------------------------------------------------------
(***************************************************************************)
(* ara_buffer_read().                                                      *)
(***************************************************************************)
Refused(range) == buffer.base = Null \/ (range.offset > buffer.length /\ range.length > 0)

Byte(cells, i, range) ==
  IF range.offset + i \in DOMAIN cells THEN cells[range.offset + i] ELSE "junk"

BufferRead(range) ==
  /\ Usable
  /\ answer' =
       IF Refused(range) THEN Silent
       ELSE [count |-> range.length,
             out |-> [i \in Span(range.length) |-> Byte(heap[buffer.base], i, range)]]
  /\ spilled' = (spilled \/ (~Refused(range) /\ ~Inside(buffer, heap, range)))
  /\ careful' = (careful /\ Obeys(range))
  /\ UNCHANGED <<up, present, alloc, made, buffer, heap>>

BufferReadDies(range) ==
  /\ Usable
  /\ ~Refused(range)
  /\ ~Inside(buffer, heap, range)
  /\ Dies
  /\ careful' = (careful /\ Obeys(range))

BNext ==
  \/ \E n \in Lengths : BufferInit(n) \/ BufferNew(n)
  \/ TakeView
  \/ BufferDestroy
  \/ \E range \in Ranges : \/ \E value \in Bytes : BufferWrite(range, value)
                           \/ BufferWriteDies(range)
                           \/ BufferRead(range)
                           \/ BufferReadDies(range)

BSpec == BInit /\ [][BNext]_bvars

-----------------------------------------------------------------------------
(***************************************************************************)
(* Every variable has its type, the 32-bit count included.                 *)
(***************************************************************************)
Pointers == [base : Regions \union {Null}, len : Nat]

BTypeOK ==
  /\ up \in BOOLEAN
  /\ spilled \in BOOLEAN
  /\ present \in BOOLEAN
  /\ alloc \in BOOLEAN
  /\ made \in BOOLEAN
  /\ careful \in BOOLEAN
  /\ buffer \in [base : Regions \union {Null}, length : Nat, view : Pointers,
                 mut : Pointers, written : 0..(Wrap - 1)]
  /\ DOMAIN heap \subseteq Regions
  /\ \A id \in DOMAIN heap : heap[id] \in [DOMAIN heap[id] -> Values]
  /\ answer.count \in Nat
  /\ answer.out \in [DOMAIN answer.out -> Values]

\* Does a pointer of len bytes refer to allocated memory, or to nothing?
Refers(base, len) ==
  base # Null => base \in DOMAIN heap /\ Span(len) \subseteq DOMAIN heap[base]

(***************************************************************************)
(* base is never a freed region and length never more than its region has, *)
(* whichever allocation fails in whichever call, and although length is    *)
(* left as it was by destroy and by the malloc branch of realloc: nothing  *)
(* is freed twice, and a range inside length is inside the region.         *)
(***************************************************************************)
OwnRegion == Refers(buffer.base, buffer.length)

(***************************************************************************)
(* The view libuv is given never refers to freed memory, although init of  *)
(* length 0, a growth that fails and destroy without memory leave it on a  *)
(* region the buffer no longer has: such a region is lost, never freed.    *)
(***************************************************************************)
ViewHolds == Refers(buffer.view.base, buffer.view.len)

(***************************************************************************)
(* A client that makes the buffer before its use, once, long enough for    *)
(* its ranges, and is given the memory it asks for, loses no memory,       *)
(* touches none that is not the buffer's, and may use the view it has      *)
(* taken until it destroys the buffer.                                     *)
(***************************************************************************)
CarefulIsSafe ==
  careful =>
    /\ up
    /\ ~spilled
    /\ DOMAIN heap = {buffer.base} \ {Null}
    /\ Refers(buffer.mut.base, buffer.mut.len)

(***************************************************************************)
(* A buffer is a string of bytes (ByteStore), however it is moved, and     *)
(* whatever fails or is overrun.                                           *)
(***************************************************************************)
Bytestring ==
  IF buffer.base = Null THEN Nothing
  ELSE [i \in Span(buffer.length) |-> heap[buffer.base][i]]

Store == INSTANCE ByteStore WITH bytes <- Bytestring

KeepsBytes == Store!StoreSpec
=============================================================================
