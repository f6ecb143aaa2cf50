---------------------------- MODULE BufferProofs ----------------------------
(***************************************************************************)
(* Theorems about buffers of any length, in any memory, with any client.   *)
(***************************************************************************)
EXTENDS Buffer, TLAPS

LEMMA ConstantFacts ==
  /\ Null \notin Regions
  /\ Ranges \subseteq [offset : Nat, length : Nat]
  /\ Lengths \subseteq Nat
  /\ Wrap \in Nat \ {0}
  /\ AllocFails \in BOOLEAN
BY BufferAssumption

(***************************************************************************)
(* A memory, and a pointer into it.                                        *)
(***************************************************************************)
Memory(h) ==
  /\ DOMAIN h \subseteq Regions
  /\ \A id \in DOMAIN h : h[id] \in [DOMAIN h[id] -> Values]

Holds(h, base, len) ==
  base # Null => base \in DOMAIN h /\ Span(len) \subseteq DOMAIN h[base]

Buffers ==
  [base : Regions \union {Null}, length : Nat, view : Pointers, mut : Pointers,
   written : 0..(Wrap - 1)]

\* A region of n bytes, each being v.
Filled(n, v) == [i \in Span(n) |-> v]

\* What is true of a buffer b in a memory h between two calls.
Sound(b, h) ==
  /\ b \in Buffers
  /\ Memory(h)
  /\ Holds(h, b.base, b.length)
  /\ Holds(h, b.view.base, b.view.len)
  /\ b.base # Null => b.length > 0 /\ b.view.base = b.base

-----------------------------------------------------------------------------
(***************************************************************************)
(* malloc(), realloc() and free().                                         *)
(***************************************************************************)
\* malloc() touches no region it has given out.
LEMMA MallocFacts ==
  ASSUME NEW h, Memory(h), NEW n \in Nat, NEW v \in Values, NEW m \in Mallocs(h, n, v)
  PROVE  /\ m.base \in Regions \union {Null}
         /\ Memory(m.heap)
         /\ Holds(m.heap, m.base, n)
         /\ DOMAIN h \subseteq DOMAIN m.heap
         /\ \A id \in DOMAIN h : m.heap[id] = h[id]
         /\ m.base = Null => AllocFails /\ m.heap = h
         /\ m.base # Null => /\ m.base \notin DOMAIN h
                             /\ DOMAIN m.heap = DOMAIN h \union {m.base}
                             /\ m.heap[m.base] = Filled(n, v)
<1>1. CASE m = [base |-> Null, heap |-> h] /\ AllocFails
  BY <1>1 DEF Holds
<1>2. ASSUME NEW id \in Regions \ DOMAIN h,
             m = [base |-> id, heap |-> Allot(h, id, [i \in Span(n) |-> v])]
      PROVE  /\ m.base = id /\ id # Null
             /\ DOMAIN m.heap = DOMAIN h \union {id}
             /\ m.heap[id] = [i \in Span(n) |-> v]
             /\ \A i \in DOMAIN h : m.heap[i] = h[i]
             /\ Memory(m.heap)
  <2>1. /\ m.base = id /\ id # Null
        /\ DOMAIN m.heap = DOMAIN h \union {id}
        /\ m.heap[id] = [i \in Span(n) |-> v]
        /\ \A i \in DOMAIN h : m.heap[i] = h[i]
    BY <1>2, ConstantFacts DEF Allot
  <2>2. m.heap[id] \in [DOMAIN m.heap[id] -> Values]
    BY <2>1
  <2> QED
    BY <2>1, <2>2 DEF Memory
<1>3. \/ m = [base |-> Null, heap |-> h] /\ AllocFails
      \/ \E id \in Regions \ DOMAIN h :
           m = [base |-> id, heap |-> Allot(h, id, [i \in Span(n) |-> v])]
  BY DEF Mallocs
<1>4. CASE \E id \in Regions \ DOMAIN h :
             m = [base |-> id, heap |-> Allot(h, id, [i \in Span(n) |-> v])]
  <2>1. PICK id \in Regions \ DOMAIN h :
          m = [base |-> id, heap |-> Allot(h, id, [i \in Span(n) |-> v])]
    BY <1>4
  <2>2. DOMAIN [i \in Span(n) |-> v] = Span(n)
    OBVIOUS
  <2> QED
    BY <1>2, <2>1, <2>2 DEF Holds, Filled
<1> QED
  BY <1>1, <1>3, <1>4

\* realloc() touches no region but the one it is given, whose bytes it keeps.
LEMMA ReallocFacts ==
  ASSUME NEW h, Memory(h), NEW id \in DOMAIN h, NEW n \in Nat, NEW m \in Reallocs(h, id, n)
  PROVE  /\ m.base \in Regions \union {Null}
         /\ Memory(m.heap)
         /\ Holds(m.heap, m.base, n)
         /\ m.base = Null => AllocFails /\ m.heap = h
         /\ m.base # Null => /\ DOMAIN m.heap = (DOMAIN h \ {id}) \union {m.base}
                             /\ m.heap[m.base] = Resized(h, id, n)
<1>1. CASE m = [base |-> Null, heap |-> h] /\ AllocFails
  BY <1>1 DEF Holds
<1>2. ASSUME NEW new \in (Regions \ DOMAIN h) \union {id},
             m = [base |-> new, heap |-> Allot(Free(h, id), new, Resized(h, id, n))]
      PROVE  /\ m.base = new /\ new # Null
             /\ DOMAIN m.heap = (DOMAIN h \ {id}) \union {new}
             /\ m.heap[new] = Resized(h, id, n)
             /\ Memory(m.heap)
             /\ DOMAIN m.heap[new] = Span(n)
  <2>0. new \in Regions /\ new # Null
    BY ConstantFacts DEF Memory
  <2>1. /\ m.base = new
        /\ DOMAIN m.heap = (DOMAIN h \ {id}) \union {new}
        /\ m.heap[new] = Resized(h, id, n)
        /\ \A i \in DOMAIN h \ {id} : i # new => m.heap[i] = h[i]
    BY <1>2 DEF Allot, Free
  <2>2. /\ Resized(h, id, n) \in [Span(n) -> Values]
        /\ DOMAIN Resized(h, id, n) = Span(n)
    BY DEF Resized, Memory, Values
  <2>3. \A i \in DOMAIN m.heap : m.heap[i] \in [DOMAIN m.heap[i] -> Values]
    BY <2>1, <2>2 DEF Memory
  <2> QED
    BY <2>0, <2>1, <2>2, <2>3 DEF Memory
<1>3. \/ m = [base |-> Null, heap |-> h] /\ AllocFails
      \/ \E new \in (Regions \ DOMAIN h) \union {id} :
           m = [base |-> new, heap |-> Allot(Free(h, id), new, Resized(h, id, n))]
  BY DEF Reallocs
<1>4. CASE \E new \in (Regions \ DOMAIN h) \union {id} :
             m = [base |-> new, heap |-> Allot(Free(h, id), new, Resized(h, id, n))]
  <2>1. PICK new \in (Regions \ DOMAIN h) \union {id} :
          m = [base |-> new, heap |-> Allot(Free(h, id), new, Resized(h, id, n))]
    BY <1>4
  <2>2. new \in Regions
    BY DEF Memory
  <2> QED
    BY <1>2, <2>1, <2>2 DEF Holds
<1> QED
  BY <1>1, <1>3, <1>4

-----------------------------------------------------------------------------
(***************************************************************************)
(* What each function leaves behind is sound.                              *)
(***************************************************************************)
LEMMA InitSound ==
  ASSUME NEW b, NEW h, Sound(b, h), NEW n \in Nat, NEW o \in Inits(b, h, n)
  PROVE  /\ Sound(o.buffer, o.heap)
         /\ o.spilled = spilled
         /\ o.ok \in BOOLEAN
         /\ o.ok => /\ n > 0
                    /\ o.buffer.length = n
                    /\ o.buffer.base # Null =>
                         /\ o.heap[o.buffer.base] = Filled(n, "zero")
                         /\ DOMAIN o.heap = DOMAIN h \union {o.buffer.base}
                    /\ o.buffer.base = Null => AllocFails
         /\ ~o.ok => n = 0 /\ o.buffer.base = Null /\ o.heap = h
                       /\ o.buffer.view = b.view
         /\ o.buffer.mut = b.mut
         /\ \A id \in DOMAIN h : id \in DOMAIN o.heap /\ o.heap[id] = h[id]
<1>1. CASE n = 0
  <2>1. o = Outcome([Moved(b, Null, 0, b.view) EXCEPT !.written = 0], h, spilled, FALSE)
    BY <1>1 DEF Inits
  <2>2. /\ o.buffer = [base |-> Null, length |-> 0, view |-> b.view, mut |-> b.mut, written |-> 0]
        /\ o.heap = h /\ o.spilled = spilled /\ o.ok = FALSE
    BY <2>1 DEF Outcome, Moved
  <2>3. /\ o.buffer \in Buffers /\ o.buffer.base = Null /\ o.buffer.view = b.view
        /\ o.buffer.mut = b.mut
    BY <2>2, ConstantFacts DEF Sound, Buffers
  <2> QED
    BY <1>1, <2>2, <2>3 DEF Sound, Holds
<1>2. CASE n # 0
  <2>1. PICK m \in Mallocs(h, n, "zero") :
          o = Outcome([base |-> m.base, length |-> n, view |-> [base |-> m.base, len |-> n],
                       mut |-> b.mut, written |-> 0], m.heap, spilled, TRUE)
    BY <1>2 DEF Inits
  <2>2. /\ o.buffer = [base |-> m.base, length |-> n, view |-> [base |-> m.base, len |-> n],
                       mut |-> b.mut, written |-> 0]
        /\ o.heap = m.heap /\ o.spilled = spilled /\ o.ok = TRUE
    BY <2>1 DEF Outcome
  <2>3. Memory(h) /\ "zero" \in Values
    BY DEF Sound, Values
  <2>4. /\ m.base \in Regions \union {Null}
        /\ Memory(m.heap)
        /\ Holds(m.heap, m.base, n)
        /\ \A id \in DOMAIN h : id \in DOMAIN m.heap /\ m.heap[id] = h[id]
        /\ m.base = Null => AllocFails
        /\ m.base # Null => /\ DOMAIN m.heap = DOMAIN h \union {m.base}
                            /\ m.heap[m.base] = Filled(n, "zero")
    BY <2>3, MallocFacts
  <2>5. o.buffer \in Buffers
    BY <2>2, <2>4, ConstantFacts DEF Sound, Buffers, Pointers
  <2>6. n > 0
    BY <1>2
  <2>7. Sound(o.buffer, o.heap)
    BY <2>2, <2>4, <2>5, <2>6 DEF Sound
  <2>8. o.buffer.base = m.base /\ o.buffer.length = n /\ o.buffer.mut = b.mut
    BY <2>2
  <2>9. /\ o.buffer.base # Null =>
             /\ o.heap[o.buffer.base] = Filled(n, "zero")
             /\ DOMAIN o.heap = DOMAIN h \union {o.buffer.base}
        /\ o.buffer.base = Null => AllocFails
        /\ \A id \in DOMAIN h : id \in DOMAIN o.heap /\ o.heap[id] = h[id]
    BY <2>2, <2>4, <2>8
  <2> QED
    BY <2>2, <2>6, <2>7, <2>8, <2>9
<1> QED
  BY <1>1, <1>2

\* A growth keeps the bytes of the buffer, or loses all of them.
LEMMA ReallocationSound ==
  ASSUME NEW b, NEW h, Sound(b, h), NEW n \in Nat, b.length < n, b.length > 0,
         NEW o \in Reallocations(b, h, n)
  PROVE  /\ Sound(o.buffer, o.heap)
         /\ o.ok \in BOOLEAN
         /\ o.spilled \in {spilled, TRUE}
         /\ ~o.ok => o.buffer.base = Null
         /\ o.ok /\ o.buffer.base # Null /\ b.base # Null =>
              /\ o.buffer.length = n
              /\ o.heap[o.buffer.base] = Resized(h, b.base, n)
<1>1. /\ b \in Buffers /\ Memory(h)
      /\ Holds(h, b.base, b.length)
      /\ Holds(h, b.view.base, b.view.len)
      /\ b.length \in Nat
  BY DEF Sound, Buffers
<1>2. CASE b.base # Null
  <2>1. b.base \in DOMAIN h
    BY <1>1, <1>2 DEF Holds
  <2>2. PICK m \in Reallocs(h, b.base, n) :
          o = IF m.base = Null
              THEN Outcome(Moved(b, Null, 0, b.view), m.heap, spilled, FALSE)
              ELSE Outcome(Moved(b, m.base, n, ViewOf(b, m.base, n)), m.heap, TRUE, TRUE)
    BY <1>1, <1>2 DEF Reallocations, Grows
  <2>3. /\ m.base \in Regions \union {Null}
        /\ Memory(m.heap)
        /\ Holds(m.heap, m.base, n)
        /\ m.base = Null => m.heap = h
        /\ m.base # Null => m.heap[m.base] = Resized(h, b.base, n)
    BY <1>1, <2>1, ReallocFacts
  <2>4. CASE m.base = Null
    <3>1. /\ o.buffer = Moved(b, Null, 0, b.view)
          /\ o.heap = h /\ o.ok = FALSE /\ o.spilled = spilled
      BY <2>2, <2>3, <2>4 DEF Outcome
    <3>2. o.buffer \in Buffers /\ o.buffer.base = Null /\ o.buffer.view = b.view
      BY <1>1, <3>1 DEF Buffers, Moved
    <3> QED
      BY <1>1, <3>1, <3>2 DEF Sound, Holds
  <2>5. CASE m.base # Null
    <3>1. /\ o.buffer = Moved(b, m.base, n, [base |-> m.base, len |-> n])
          /\ o.heap = m.heap /\ o.ok = TRUE /\ o.spilled = TRUE
      BY <2>2, <2>5 DEF Outcome, ViewOf
    <3>2. /\ o.buffer \in Buffers /\ o.buffer.base = m.base /\ o.buffer.length = n
          /\ o.buffer.view = [base |-> m.base, len |-> n]
      BY <1>1, <2>3, <3>1 DEF Buffers, Pointers, Moved
    <3>3. n > 0
      BY <1>1
    <3>4. Sound(o.buffer, o.heap)
      BY <2>3, <3>1, <3>2, <3>3 DEF Sound
    <3> QED
      BY <2>3, <3>1, <3>2, <3>4
  <2> QED
    BY <2>4, <2>5
<1>3. CASE b.base = Null
  <2>1. PICK m \in Mallocs(h, n, "junk") :
          o = Outcome(Moved(b, m.base, b.length, ViewOf(b, m.base, b.length)), m.heap, spilled, TRUE)
    BY <1>3 DEF Reallocations, Acquires
  <2>2. /\ m.base \in Regions \union {Null}
        /\ Memory(m.heap)
        /\ Holds(m.heap, m.base, n)
    BY <1>1, MallocFacts DEF Values
  <2>3. /\ o.buffer = Moved(b, m.base, b.length, [base |-> m.base, len |-> b.length])
        /\ o.heap = m.heap /\ o.ok = TRUE /\ o.spilled = spilled
    BY <2>1 DEF Outcome, ViewOf
  <2>4. b.length \in Nat /\ Span(b.length) \subseteq Span(n)
    BY <1>1 DEF Buffers, Span
  <2>5. /\ o.buffer \in Buffers /\ o.buffer.base = m.base /\ o.buffer.length = b.length
        /\ o.buffer.view = [base |-> m.base, len |-> b.length]
    BY <1>1, <2>2, <2>3, <2>4 DEF Buffers, Pointers, Moved
  <2>6. Sound(o.buffer, o.heap)
    BY <2>2, <2>3, <2>4, <2>5 DEF Sound, Holds
  <2> QED
    BY <1>3, <2>3, <2>6
<1> QED
  BY <1>2, <1>3

\* memcpy() changes the bytes of one region.
LEMMA CopySound ==
  ASSUME NEW b, NEW h, Sound(b, h), b.base # Null, NEW range, NEW value \in Bytes,
         NEW n \in Nat
  PROVE  Sound([b EXCEPT !.written = Counted(b, n)], Copied(h, b.base, range, value))
<1> DEFINE h2 == Copied(h, b.base, range, value)
           b2 == [b EXCEPT !.written = Counted(b, n)]
<1>1. b \in Buffers /\ Memory(h) /\ b.base \in DOMAIN h
  BY DEF Sound, Holds
<1>2. /\ DOMAIN h2 = DOMAIN h
      /\ \A id \in DOMAIN h : id # b.base => h2[id] = h[id]
      /\ h2[b.base] = [i \in DOMAIN h[b.base] |->
                         IF Covers(range, i) THEN value ELSE h[b.base][i]]
  BY <1>1 DEF Copied
<1>3. \A id \in DOMAIN h : DOMAIN h2[id] = DOMAIN h[id] /\ h2[id] \in [DOMAIN h[id] -> Values]
  BY <1>1, <1>2 DEF Memory, Values
<1>4. Counted(b, n) \in 0..(Wrap - 1)
  BY <1>1, ConstantFacts DEF Counted, Buffers
<1>5. /\ b2 \in Buffers /\ b2.base = b.base /\ b2.length = b.length /\ b2.view = b.view
  BY <1>1, <1>4 DEF Buffers
<1>6. Memory(h2)
  BY <1>1, <1>2, <1>3 DEF Memory
<1> HIDE DEF h2, b2
<1>7. Sound(b2, h2)
  BY <1>2, <1>3, <1>5, <1>6 DEF Sound, Holds
<1> QED
  BY <1>7 DEF b2, h2

\* What a write copies its bytes into: sound, and with all bytes of the buffer.
LEMMA WriteSound ==
  ASSUME Sound(buffer, heap), spilled \in BOOLEAN, NEW range \in Ranges,
         NEW p \in Prepared(range), NEW s \in Sized(p, range)
  PROVE  /\ Sound(s.buffer, s.heap)
         /\ s.ok \in BOOLEAN
         /\ s.spilled \in BOOLEAN
         /\ ~s.ok => s.buffer.base = Null
         /\ s.ok /\ s.buffer.base # Null =>
              \A i \in DOMAIN Bytestring :
                i \in Span(s.buffer.length) /\ s.heap[s.buffer.base][i] = Bytestring[i]
<1>1. range.offset \in Nat /\ range.length \in Nat
  BY ConstantFacts
<1>2. /\ Sound(p.buffer, p.heap)
      /\ p.ok \in BOOLEAN
      /\ p.spilled = spilled
      /\ p.ok => p.buffer.length > 0
      /\ ~p.ok => p.buffer.base = Null
      /\ buffer.base # Null => p.buffer = buffer /\ p.heap = heap /\ p.ok = TRUE
  <2>1. CASE buffer.base = Null
    <3>1. p \in Inits(buffer, heap, range.length)
      BY <2>1 DEF Prepared
    <3>2. /\ Sound(p.buffer, p.heap)
          /\ p.ok \in BOOLEAN
          /\ p.spilled = spilled
          /\ p.ok => p.buffer.length > 0
          /\ ~p.ok => p.buffer.base = Null
      BY <1>1, <3>1, InitSound
    <3> QED
      BY <2>1, <3>2
  <2>2. CASE buffer.base # Null
    <3>1. p = Outcome(buffer, heap, spilled, TRUE)
      BY <2>2 DEF Prepared, Unchanged
    <3>2. p.buffer = buffer /\ p.heap = heap /\ p.spilled = spilled /\ p.ok = TRUE
      BY <3>1 DEF Outcome
    <3> QED
      BY <2>2, <3>2 DEF Sound
  <2> QED
    BY <2>1, <2>2
<1>3. p.buffer.length \in Nat
  BY <1>2 DEF Sound, Buffers
<1>4. CASE p.ok /\ TooShort(p.buffer, range)
  <2> DEFINE n == p.buffer.length + range.offset
  <2>1. s \in Reallocations(p.buffer, p.heap, n)
    BY <1>4 DEF Sized
  <2>2. n \in Nat /\ p.buffer.length < n /\ p.buffer.length > 0
    BY <1>1, <1>2, <1>3, <1>4 DEF TooShort
  <2> HIDE DEF n
  <2>3. /\ Sound(s.buffer, s.heap)
        /\ s.ok \in BOOLEAN
        /\ s.spilled \in {spilled, TRUE}
        /\ ~s.ok => s.buffer.base = Null
        /\ s.ok /\ s.buffer.base # Null /\ p.buffer.base # Null =>
             /\ s.buffer.length = n
             /\ s.heap[s.buffer.base] = Resized(p.heap, p.buffer.base, n)
    BY <1>2, <2>1, <2>2, ReallocationSound
  <2>4. ASSUME s.ok, s.buffer.base # Null, NEW i \in DOMAIN Bytestring
        PROVE  i \in Span(s.buffer.length) /\ s.heap[s.buffer.base][i] = Bytestring[i]
    <3>1. buffer.base # Null
      BY DEF Bytestring, Nothing
    <3>2. i \in Span(buffer.length) /\ Bytestring[i] = heap[buffer.base][i]
      BY <3>1 DEF Bytestring
    <3>3. i \in DOMAIN heap[buffer.base]
      BY <3>1, <3>2 DEF Sound, Holds
    <3>4. p.buffer = buffer /\ p.heap = heap
      BY <1>2, <3>1
    <3>5. s.buffer.length = n /\ s.heap[s.buffer.base] = Resized(heap, buffer.base, n)
      BY <2>3, <2>4, <3>1, <3>4
    <3>6. i \in Span(n)
      BY <1>3, <2>2, <3>2, <3>4 DEF Span
    <3>7. Resized(heap, buffer.base, n)[i] = heap[buffer.base][i]
      BY <3>3, <3>6 DEF Resized
    <3> QED
      BY <3>2, <3>5, <3>6, <3>7
  <2> QED
    BY <2>3, <2>4
<1>5. CASE ~(p.ok /\ TooShort(p.buffer, range))
  <2>1. s = p
    BY <1>5 DEF Sized
  <2>2. ASSUME s.ok, s.buffer.base # Null, NEW i \in DOMAIN Bytestring
        PROVE  i \in Span(s.buffer.length) /\ s.heap[s.buffer.base][i] = Bytestring[i]
    <3>1. buffer.base # Null
      BY DEF Bytestring, Nothing
    <3>2. i \in Span(buffer.length) /\ Bytestring[i] = heap[buffer.base][i]
      BY <3>1 DEF Bytestring
    <3> QED
      BY <1>2, <2>1, <3>1, <3>2
  <2> QED
    BY <1>2, <2>1, <2>2
<1> QED
  BY <1>4, <1>5

-----------------------------------------------------------------------------
(***************************************************************************)
(* The inductive invariant.  A length of 0 would send the buffer to the    *)
(* other branch of realloc, and a view left on a region that is not the    *)
(* buffer's is never freed because nothing but base is.                    *)
(***************************************************************************)
Typed(a) == a.count \in Nat /\ a.out \in [DOMAIN a.out -> Values]

BufferInvariant ==
  /\ up \in BOOLEAN
  /\ spilled \in BOOLEAN
  /\ present \in BOOLEAN
  /\ alloc \in BOOLEAN
  /\ made \in BOOLEAN
  /\ careful \in BOOLEAN
  /\ Sound(buffer, heap)
  /\ Typed(answer)

LEMMA SilentTyped == Typed(Silent)
BY DEF Typed, Silent, Nothing

LEMMA CountTyped ==
  ASSUME NEW n \in Nat PROVE Typed([count |-> n, out |-> Nothing])
<1>1. Nothing \in [DOMAIN Nothing -> Values]
  BY DEF Nothing
<1> QED
  BY <1>1 DEF Typed

\* The struct of a process that starts, or of ara_buffer_new().
LEMMA ZeroedSound == ASSUME NEW h, Memory(h) PROVE Sound(Zeroed, h)
BY ConstantFacts DEF Sound, Zeroed, NoView, Buffers, Pointers, Holds

LEMMA BufferInvariantInit == BInit => BufferInvariant
<1> SUFFICES ASSUME BInit PROVE BufferInvariant
  OBVIOUS
<1>1. Memory(heap)
  BY DEF BInit, Memory, Nothing
<1>2. Sound(buffer, heap)
  BY <1>1, ZeroedSound DEF BInit
<1> QED
  BY <1>2, SilentTyped DEF BInit, BufferInvariant

LEMMA BufferInvariantNext == BufferInvariant /\ [BNext]_bvars => BufferInvariant'
<1> SUFFICES ASSUME BufferInvariant, [BNext]_bvars PROVE BufferInvariant'
  OBVIOUS
<1>1. /\ up \in BOOLEAN /\ spilled \in BOOLEAN /\ present \in BOOLEAN
      /\ alloc \in BOOLEAN /\ made \in BOOLEAN /\ careful \in BOOLEAN
      /\ Sound(buffer, heap)
      /\ Typed(answer)
  BY DEF BufferInvariant
<1>2. /\ buffer \in Buffers /\ Memory(heap)
      /\ Holds(heap, buffer.base, buffer.length)
      /\ Holds(heap, buffer.view.base, buffer.view.len)
  BY <1>1 DEF Sound
<1>0. careful' \in BOOLEAN
  BY <1>1 DEF BNext, BufferInit, BufferNew, TakeView, BufferDestroy, BufferWrite, BufferWriteDies,
              BufferRead, BufferReadDies, bvars
<1>3. CASE Dies
  BY <1>0, <1>1, <1>3 DEF Dies, BufferInvariant
<1>4. ASSUME NEW n \in Lengths, BufferInit(n) PROVE BufferInvariant'
  <2>1. CASE ~Dies
    <3>1. PICK o \in Inits(buffer, heap, n) : Leaves(o) /\ made' = o.ok
      BY <1>4, <2>1 DEF BufferInit
    <3>2. n \in Nat
      BY ConstantFacts
    <3>3. Sound(o.buffer, o.heap) /\ o.ok \in BOOLEAN /\ o.spilled = spilled
      BY <1>1, <3>1, <3>2, InitSound
    <3>4. alloc' = FALSE /\ answer' = Silent /\ present' = present
      BY <1>4, <2>1 DEF BufferInit
    <3> QED
      BY <1>0, <1>1, <3>1, <3>3, <3>4, SilentTyped DEF Leaves, BufferInvariant
  <2> QED
    BY <1>3, <2>1
<1>5. ASSUME NEW n \in Lengths, BufferNew(n) PROVE BufferInvariant'
  <2>1. CASE ~Dies
    <3>1. PICK o \in Inits(Zeroed, heap, n) : Leaves(o)
      BY <1>5, <2>1 DEF BufferNew
    <3>2. Sound(Zeroed, heap) /\ n \in Nat
      BY <1>2, ConstantFacts, ZeroedSound
    <3>3. Sound(o.buffer, o.heap) /\ o.spilled = spilled
      BY <3>1, <3>2, InitSound
    <3>4. present' = TRUE /\ alloc' = TRUE /\ made' = TRUE /\ answer' = Silent
      BY <1>5, <2>1 DEF BufferNew
    <3> QED
      BY <1>0, <1>1, <3>1, <3>3, <3>4, SilentTyped DEF Leaves, BufferInvariant
  <2> QED
    BY <1>3, <2>1
<1>6. CASE TakeView
  <2>1. /\ buffer'.base = buffer.base /\ buffer'.length = buffer.length
        /\ buffer'.view = [base |-> buffer.base, len |-> buffer.length]
        /\ buffer' \in Buffers
        /\ heap' = heap
    BY <1>2, <1>6 DEF TakeView, Buffers, Pointers
  <2>2. Sound(buffer, heap)'
    BY <1>1, <2>1 DEF Sound
  <2> QED
    BY <1>0, <1>1, <1>6, <2>2, SilentTyped DEF TakeView, BufferInvariant
<1>7. CASE BufferDestroy
  <2>1. CASE buffer.base = Null
    <3>1. heap' = heap /\ buffer' \in {Zeroed, buffer}
      BY <1>7, <2>1 DEF BufferDestroy
    <3>2. Sound(buffer, heap)'
      BY <1>1, <1>2, <3>1, ZeroedSound
    <3> QED
      BY <1>0, <1>1, <1>7, <3>2, SilentTyped DEF BufferDestroy, BufferInvariant
  <2>2. CASE buffer.base # Null
    <3>1. /\ heap' = Free(heap, buffer.base)
          /\ buffer' = IF alloc THEN Zeroed
                       ELSE [buffer EXCEPT !.base = Null, !.view = NoView, !.mut = NoView]
      BY <1>7, <2>2 DEF BufferDestroy
    <3>2. Memory(heap')
      BY <1>2, <3>1 DEF Memory, Free
    <3>3. ASSUME alloc PROVE Sound(buffer, heap)'
      BY <3>1, <3>2, <3>3, ZeroedSound
    <3>4. ASSUME ~alloc PROVE Sound(buffer, heap)'
      <4>1. buffer' \in Buffers /\ buffer'.base = Null /\ buffer'.view.base = Null
        BY <1>2, <3>1, <3>4 DEF Buffers, NoView, Pointers
      <4> QED
        BY <3>2, <4>1 DEF Sound, Holds
    <3>5. Sound(buffer, heap)'
      BY <3>3, <3>4
    <3> QED
      BY <1>0, <1>1, <1>7, <3>5, SilentTyped DEF BufferDestroy, BufferInvariant
  <2> QED
    BY <2>1, <2>2
<1>8. ASSUME NEW range \in Ranges, NEW value \in Bytes, BufferWrite(range, value)
      PROVE  BufferInvariant'
  <2>1. range.offset \in Nat /\ range.length \in Nat
    BY ConstantFacts
  <2>2. PICK p \in Prepared(range) : \E s \in Sized(p, range) :
          \/ /\ ~s.ok
             /\ Leaves(s)
             /\ answer' = Silent
          \/ /\ s.ok
             /\ s.buffer.base # Null
             /\ heap' = Copied(s.heap, s.buffer.base, range, value)
             /\ buffer' = [s.buffer EXCEPT !.written = Counted(s.buffer, range.length)]
             /\ spilled' = (s.spilled \/ ~Inside(s.buffer, s.heap, range))
             /\ answer' = [count |-> range.length, out |-> Nothing]
             /\ up' = up
    BY <1>8 DEF BufferWrite
  <2>3. PICK s \in Sized(p, range) :
          \/ /\ ~s.ok
             /\ Leaves(s)
             /\ answer' = Silent
          \/ /\ s.ok
             /\ s.buffer.base # Null
             /\ heap' = Copied(s.heap, s.buffer.base, range, value)
             /\ buffer' = [s.buffer EXCEPT !.written = Counted(s.buffer, range.length)]
             /\ spilled' = (s.spilled \/ ~Inside(s.buffer, s.heap, range))
             /\ answer' = [count |-> range.length, out |-> Nothing]
             /\ up' = up
    BY <2>2
  <2>4. /\ Sound(s.buffer, s.heap)
        /\ s.ok \in BOOLEAN
        /\ s.spilled \in BOOLEAN
    BY <1>1, WriteSound
  <2>5. present' = present /\ alloc' = alloc /\ made' = made
    BY <1>8 DEF BufferWrite
  <2>6. CASE ~s.ok
    BY <1>0, <1>1, <2>3, <2>4, <2>5, <2>6, SilentTyped DEF Leaves, BufferInvariant
  <2>7. CASE s.ok
    <3>1. Sound(buffer, heap)'
      BY <2>1, <2>3, <2>4, <2>7, CopySound
    <3>2. Typed(answer')
      BY <2>1, <2>3, <2>7, CountTyped
    <3>3. up' = up /\ spilled' \in BOOLEAN
      BY <2>3, <2>4, <2>7
    <3> QED
      BY <1>0, <1>1, <2>5, <3>1, <3>2, <3>3 DEF BufferInvariant
  <2> QED
    BY <2>4, <2>6, <2>7
<1>9. ASSUME NEW range \in Ranges, BufferRead(range) PROVE BufferInvariant'
  <2>1. range.offset \in Nat /\ range.length \in Nat
    BY ConstantFacts
  <2>2. /\ UNCHANGED <<up, present, alloc, made, buffer, heap>>
        /\ spilled' \in BOOLEAN
    BY <1>1, <1>9 DEF BufferRead
  <2>3. Typed(answer')
    <3>1. CASE Refused(range)
      BY <1>9, <3>1, SilentTyped DEF BufferRead
    <3>2. CASE ~Refused(range)
      <4>1. heap[buffer.base] \in [DOMAIN heap[buffer.base] -> Values]
        BY <1>2, <3>2 DEF Refused, Holds, Memory
      <4>2. \A i : Byte(heap[buffer.base], i, range) \in Values
        BY <4>1 DEF Byte, Values
      <4>3. answer' = [count |-> range.length,
                       out |-> [i \in Span(range.length) |-> Byte(heap[buffer.base], i, range)]]
        BY <1>9, <3>2 DEF BufferRead
      <4> QED
        BY <2>1, <4>2, <4>3 DEF Typed
    <3> QED
      BY <3>1, <3>2
  <2> QED
    BY <1>0, <1>1, <2>2, <2>3 DEF BufferInvariant
<1>10. ASSUME NEW range \in Ranges, BufferWriteDies(range) \/ BufferReadDies(range)
       PROVE  BufferInvariant'
  BY <1>3, <1>10 DEF BufferWriteDies, BufferReadDies
<1>11. CASE UNCHANGED bvars
  BY <1>0, <1>1, <1>11 DEF bvars, BufferInvariant
<1> QED
  BY <1>4, <1>5, <1>6, <1>7, <1>8, <1>9, <1>10, <1>11 DEF BNext

LEMMA BufferStaysInvariant == BSpec => []BufferInvariant
BY BufferInvariantInit, BufferInvariantNext, PTL DEF BSpec

(***************************************************************************)
(* Every variable keeps its type, and the count of written bytes its 32    *)
(* bits, in any memory and with any client.                                *)
(***************************************************************************)
THEOREM BufferTypes == BSpec => []BTypeOK
<1>1. BufferInvariant => BTypeOK
  BY DEF BufferInvariant, Typed, Sound, Buffers, Memory, BTypeOK
<1> QED
  BY <1>1, BufferStaysInvariant, PTL

(***************************************************************************)
(* Nothing is freed twice, and length never says more than base has,       *)
(* whichever allocation of whichever call fails.                           *)
(***************************************************************************)
THEOREM RegionIsOwned == BSpec => []OwnRegion
<1>1. BufferInvariant => OwnRegion
  BY DEF BufferInvariant, Sound, Holds, OwnRegion, Refers
<1> QED
  BY <1>1, BufferStaysInvariant, PTL

(***************************************************************************)
(* The view libuv reads into or writes from is never of freed memory.      *)
(***************************************************************************)
THEOREM ViewIsHeld == BSpec => []ViewHolds
<1>1. BufferInvariant => ViewHolds
  BY DEF BufferInvariant, Sound, Holds, ViewHolds, Refers
<1> QED
  BY <1>1, BufferStaysInvariant, PTL

-----------------------------------------------------------------------------
(***************************************************************************)
(* A careful client.  Between two calls the only region is the buffer's,   *)
(* it has one exactly when it is made, and as long as the client asked.    *)
(***************************************************************************)
CarefulInvariant ==
  careful =>
    /\ up
    /\ ~spilled
    /\ DOMAIN heap = {buffer.base} \ {Null}
    /\ made => buffer.base # Null
    /\ ~made => buffer.base = Null
    /\ ~present => buffer = Zeroed
    /\ buffer.mut.base # Null => buffer.mut = [base |-> buffer.base, len |-> buffer.length]

\* A range inside the buffer's length needs no growth and no memory beyond it.
LEMMA FittingRange ==
  ASSUME NEW b, NEW h, Sound(b, h), NEW range \in Ranges, b.base # Null,
         range.offset + range.length <= b.length
  PROVE  ~TooShort(b, range) /\ Inside(b, h, range)
<1>1. range.offset \in Nat /\ range.length \in Nat /\ b.length \in Nat
  BY ConstantFacts DEF Sound, Buffers
<1>2. range.length > 0 => range.offset + range.length - 1 \in Span(b.length)
  BY <1>1 DEF Span
<1> QED
  BY <1>1, <1>2 DEF TooShort, Inside, Sound, Holds

LEMMA CarefulInvariantNext ==
  BufferInvariant /\ CarefulInvariant /\ [BNext]_bvars => CarefulInvariant'
<1> SUFFICES ASSUME BufferInvariant, CarefulInvariant, [BNext]_bvars, careful'
             PROVE  CarefulInvariant'
  BY DEF CarefulInvariant
<1>0. careful
  BY DEF BNext, BufferInit, BufferNew, TakeView, BufferDestroy, BufferWrite, BufferWriteDies,
         BufferRead, BufferReadDies, bvars
<1>1. /\ up /\ ~spilled
      /\ DOMAIN heap = {buffer.base} \ {Null}
      /\ made => buffer.base # Null
      /\ ~made => buffer.base = Null
      /\ ~present => buffer = Zeroed
      /\ buffer.mut.base # Null => buffer.mut = [base |-> buffer.base, len |-> buffer.length]
  BY <1>0 DEF CarefulInvariant
<1>2. Sound(buffer, heap) /\ buffer \in Buffers /\ Memory(heap)
  BY DEF BufferInvariant, Sound
<1>3. ASSUME NEW n \in Lengths, BufferInit(n) PROVE CarefulInvariant'
  <2>1. PICK o \in Inits(buffer, heap, n) : Leaves(o) /\ made' = o.ok
    BY <1>3 DEF BufferInit
  <2>2. present /\ present' = present /\ ~made /\ (n > 0 => buffer'.base # Null)
    BY <1>3 DEF BufferInit
  <2>3. n \in Nat
    BY ConstantFacts
  <2>4. /\ o.spilled = spilled
        /\ o.ok \in BOOLEAN
        /\ o.ok => /\ n > 0
                   /\ o.buffer.length = n
                   /\ o.buffer.base # Null => DOMAIN o.heap = DOMAIN heap \union {o.buffer.base}
        /\ ~o.ok => o.buffer.base = Null /\ o.heap = heap
        /\ o.buffer.mut = buffer.mut
    BY <1>2, <2>1, <2>3, InitSound
  <2>5. buffer.base = Null /\ buffer.mut.base = Null
    BY <1>1, <2>2
  <2>6. buffer' = o.buffer /\ heap' = o.heap /\ spilled' = o.spilled /\ up' = up
    BY <2>1 DEF Leaves
  <2> QED
    BY <1>1, <2>1, <2>2, <2>3, <2>4, <2>5, <2>6 DEF CarefulInvariant
<1>4. ASSUME NEW n \in Lengths, BufferNew(n) PROVE CarefulInvariant'
  <2>1. PICK o \in Inits(Zeroed, heap, n) : Leaves(o)
    BY <1>4 DEF BufferNew
  <2>2. present' = TRUE /\ made' = TRUE /\ ~present /\ n > 0 /\ n \in Nat /\ buffer'.base # Null
    BY <1>4, ConstantFacts DEF BufferNew
  <2>3. Sound(Zeroed, heap)
    BY <1>2, ZeroedSound
  <2>4. /\ o.spilled = spilled
        /\ o.ok => /\ o.buffer.length = n
                   /\ o.buffer.base # Null => DOMAIN o.heap = DOMAIN heap \union {o.buffer.base}
        /\ ~o.ok => n = 0
        /\ o.buffer.mut = Zeroed.mut
    BY <2>1, <2>2, <2>3, InitSound
  <2>5. buffer.base = Null /\ Zeroed.mut.base = Null
    BY <1>1, <2>2 DEF Zeroed, NoView
  <2>6. buffer' = o.buffer /\ heap' = o.heap /\ spilled' = o.spilled /\ up' = up
    BY <2>1 DEF Leaves
  <2> QED
    BY <1>1, <2>2, <2>4, <2>5, <2>6 DEF CarefulInvariant
<1>5. CASE TakeView
  <2>1. /\ buffer'.base = buffer.base /\ buffer'.length = buffer.length
        /\ buffer'.mut = [base |-> buffer.base, len |-> buffer.length]
    BY <1>2, <1>5 DEF TakeView, Buffers
  <2>2. UNCHANGED <<up, spilled, made, heap>> /\ present' = TRUE
    BY <1>5 DEF TakeView
  <2> QED
    BY <1>1, <2>1, <2>2 DEF CarefulInvariant
<1>6. CASE BufferDestroy
  <2>1. /\ up' = up /\ spilled' = spilled /\ made' = FALSE
        /\ present' = ~alloc
        /\ heap' = IF buffer.base = Null THEN heap ELSE Free(heap, buffer.base)
        /\ buffer' = IF alloc THEN Zeroed
                     ELSE IF buffer.base = Null THEN buffer
                     ELSE [buffer EXCEPT !.base = Null, !.view = NoView, !.mut = NoView]
    BY <1>6 DEF BufferDestroy
  <2>2. DOMAIN heap' = {}
    BY <1>1, <2>1 DEF Free
  <2>3. buffer'.base = Null /\ buffer'.mut.base = Null
    BY <1>1, <1>2, <2>1 DEF Zeroed, NoView, Buffers
  <2>4. ~present' => buffer' = Zeroed
    BY <2>1
  <2> QED
    BY <1>1, <2>1, <2>2, <2>3, <2>4 DEF CarefulInvariant
<1>7. ASSUME NEW range \in Ranges, Obeys(range)
      PROVE  /\ made /\ buffer.base # Null
             /\ ~TooShort(buffer, range)
             /\ Inside(buffer, heap, range)
             /\ \A p \in Prepared(range) : \A s \in Sized(p, range) :
                  s = Outcome(buffer, heap, spilled, TRUE)
  <2>1. made /\ buffer.base # Null
    BY <1>1, <1>7 DEF Obeys
  <2>2. ~TooShort(buffer, range) /\ Inside(buffer, heap, range)
    BY <1>2, <1>7, <2>1, FittingRange DEF Obeys
  <2>3. ASSUME NEW p \in Prepared(range), NEW s \in Sized(p, range)
        PROVE  s = Outcome(buffer, heap, spilled, TRUE)
    <3>1. p = Outcome(buffer, heap, spilled, TRUE)
      BY <2>1 DEF Prepared, Unchanged
    <3>2. p.buffer = buffer
      BY <3>1 DEF Outcome
    <3> QED
      BY <2>2, <3>1, <3>2 DEF Sized
  <2> QED
    BY <2>1, <2>2, <2>3
<1>8. ASSUME NEW range \in Ranges, NEW value \in Bytes, BufferWrite(range, value)
      PROVE  CarefulInvariant'
  <2> DEFINE s == Outcome(buffer, heap, spilled, TRUE)
  <2>1. Usable /\ Obeys(range)
    BY <1>8 DEF BufferWrite
  <2>2. s.ok = TRUE /\ s.buffer = buffer /\ s.heap = heap /\ s.spilled = spilled
    BY DEF Outcome
  <2> HIDE DEF s
  <2>3. /\ heap' = Copied(s.heap, s.buffer.base, range, value)
        /\ buffer' = [s.buffer EXCEPT !.written = Counted(s.buffer, range.length)]
        /\ spilled' = (s.spilled \/ ~Inside(s.buffer, s.heap, range))
        /\ up' = up
    BY <1>7, <1>8, <2>1, <2>2 DEF BufferWrite, s
  <2>4. present' = present /\ made' = made
    BY <1>8 DEF BufferWrite
  <2>5. /\ buffer'.base = buffer.base /\ buffer'.length = buffer.length
        /\ buffer'.mut = buffer.mut
    BY <1>2, <2>2, <2>3 DEF Buffers
  <2>6. DOMAIN heap' = DOMAIN heap
    BY <2>2, <2>3 DEF Copied
  <2>7. ~spilled' /\ present'
    <3>1. Inside(s.buffer, s.heap, range)
      BY <1>7, <2>1, <2>2
    <3> QED
      BY <1>1, <2>1, <2>2, <2>3, <2>4, <3>1 DEF Usable
  <2> QED
    BY <1>1, <2>3, <2>4, <2>5, <2>6, <2>7 DEF CarefulInvariant
<1>9. ASSUME NEW range \in Ranges, BufferRead(range) PROVE CarefulInvariant'
  <2>1. UNCHANGED <<up, present, made, buffer, heap>> /\ Inside(buffer, heap, range)
    BY <1>7, <1>9 DEF BufferRead
  <2>2. ~spilled'
    BY <1>1, <1>9, <2>1 DEF BufferRead
  <2> QED
    BY <1>1, <2>1, <2>2 DEF CarefulInvariant
<1>10. ASSUME NEW range \in Ranges PROVE ~BufferWriteDies(range) /\ ~BufferReadDies(range)
  <2>1. ~BufferReadDies(range)
    BY <1>7 DEF BufferReadDies
  <2>2. ASSUME BufferWriteDies(range) PROVE FALSE
    <3>1. Obeys(range)
      BY <2>2 DEF BufferWriteDies
    <3>0. buffer.base # Null
      BY <1>7, <3>1
    <3>2. PICK p \in Prepared(range) : \E s \in Sized(p, range) :
            s.ok /\ s.buffer.base # Null /\ (s.spilled # spilled \/ ~Inside(s.buffer, s.heap, range))
      BY <2>2, <3>0 DEF BufferWriteDies
    <3>3. PICK s \in Sized(p, range) :
            s.spilled # spilled \/ ~Inside(s.buffer, s.heap, range)
      BY <3>2
    <3>4. s = Outcome(buffer, heap, spilled, TRUE)
      BY <1>7, <3>1
    <3>5. s.buffer = buffer /\ s.heap = heap /\ s.spilled = spilled
      BY <3>4 DEF Outcome
    <3> QED
      BY <1>7, <3>1, <3>3, <3>5
  <2> QED
    BY <2>1, <2>2
<1>11. CASE UNCHANGED bvars
  BY <1>1, <1>11 DEF bvars, CarefulInvariant
<1> QED
  BY <1>3, <1>4, <1>5, <1>6, <1>8, <1>9, <1>10, <1>11 DEF BNext

(***************************************************************************)
(* A client that makes its buffer first, and long enough, and is given the *)
(* memory it asks for, never touches memory that is not the buffer's and   *)
(* never loses any.                                                        *)
(***************************************************************************)
THEOREM CarefulClientsAreSafe == BSpec => []CarefulIsSafe
<1>1. BInit => CarefulInvariant
  BY DEF BInit, CarefulInvariant, Zeroed, NoView, Nothing
<1>2. BufferInvariant /\ CarefulInvariant => CarefulIsSafe
  <2> SUFFICES ASSUME BufferInvariant, CarefulInvariant, careful
               PROVE  /\ up /\ ~spilled
                      /\ DOMAIN heap = {buffer.base} \ {Null}
                      /\ Refers(buffer.mut.base, buffer.mut.len)
    BY DEF CarefulIsSafe
  <2>1. /\ up /\ ~spilled
        /\ DOMAIN heap = {buffer.base} \ {Null}
        /\ buffer.mut.base # Null => buffer.mut = [base |-> buffer.base, len |-> buffer.length]
    BY DEF CarefulInvariant
  <2>2. Holds(heap, buffer.base, buffer.length)
    BY DEF BufferInvariant, Sound
  <2> QED
    BY <2>1, <2>2 DEF Refers, Holds
<1> QED
  BY <1>1, <1>2, CarefulInvariantNext, BufferStaysInvariant, PTL DEF BSpec

-----------------------------------------------------------------------------
(***************************************************************************)
(* The refinement: every step of a buffer is one of the string it holds.   *)
(***************************************************************************)
\* A buffer without memory holds no bytes.
LEMMA StringLost == ASSUME buffer'.base = Null PROVE Bytestring' = Nothing
BY DEF Bytestring

\* A step that changes neither memory nor base and length keeps the string.
LEMMA StringKept ==
  ASSUME buffer'.base = buffer.base, buffer'.length = buffer.length, heap' = heap
  PROVE  Bytestring' = Bytestring
BY DEF Bytestring

\* The string of a buffer that ara_buffer_init() has made.
LEMMA StringMade ==
  ASSUME NEW n \in Lengths, Span(n) = DOMAIN heap'[buffer'.base], buffer'.base # Null,
         buffer'.length = n, heap'[buffer'.base] = Filled(n, "zero"), answer' = Silent
  PROVE  Store!Make
<1>1. Bytestring' = [i \in Span(n) |-> "zero"]
  BY DEF Bytestring, Filled
<1> QED
  BY <1>1 DEF Store!Make, Store!Span, Span, Store!Silent, Store!Nothing, Silent, Nothing

LEMMA StringLostIsLose ==
  ASSUME buffer'.base = Null, answer' = Silent
  PROVE  Store!Lose
BY StringLost DEF Store!Lose, Store!Silent, Store!Nothing, Silent, Nothing

\* The bytes of a write are put into the string, and no other is touched.
LEMMA StringPut ==
  ASSUME NEW range \in Ranges, NEW value \in Bytes, NEW b, NEW h, Sound(b, h), b.base # Null,
         \A i \in DOMAIN Bytestring : i \in Span(b.length) /\ h[b.base][i] = Bytestring[i],
         heap' = Copied(h, b.base, range, value),
         buffer'.base = b.base, buffer'.length = b.length,
         answer' = [count |-> range.length, out |-> Nothing]
  PROVE  Store!Put(range, value)
<1>1. b \in Buffers /\ Memory(h) /\ b.base \in DOMAIN h /\ Span(b.length) \subseteq DOMAIN h[b.base]
  BY DEF Sound, Holds
<1>2. range.offset \in Nat /\ range.length \in Nat /\ b.length \in Nat
  BY <1>1, ConstantFacts DEF Buffers
<1>3. Bytestring' = [i \in Span(b.length) |-> IF Covers(range, i) THEN value ELSE h[b.base][i]]
  BY <1>1 DEF Bytestring, Copied
<1>4. DOMAIN Bytestring' = Span(b.length) /\ DOMAIN Bytestring \subseteq DOMAIN Bytestring'
  BY <1>3
<1>5. \A i \in Span(b.length) : h[b.base][i] \in Values
  BY <1>1 DEF Memory
<1>6. Bytestring' \in [DOMAIN Bytestring' -> Store!Values]
  BY <1>3, <1>5 DEF Store!Values, Store!Unwritten, Values
<1>7. \A i \in Span(b.length) : Covers(range, i) <=> i \in Store!Within(range)
  BY <1>2 DEF Covers, Store!Within, Span
<1>8. ASSUME NEW i \in DOMAIN Bytestring'
      PROVE  /\ i \in Store!Within(range) => Bytestring'[i] = value
             /\ i \in DOMAIN Bytestring \ Store!Within(range) => Bytestring'[i] = Bytestring[i]
  BY <1>3, <1>4, <1>7, <1>8
<1> QED
  BY <1>4, <1>6, <1>8 DEF Store!Put, Store!Nothing, Nothing

LEMMA StringStep ==
  BufferInvariant /\ [BNext]_bvars => [Store!StoreNext]_<<Bytestring, answer>>
<1> SUFFICES ASSUME BufferInvariant, [BNext]_bvars
             PROVE  Store!StoreNext \/ UNCHANGED <<Bytestring, answer>>
  OBVIOUS
<1>1. /\ Sound(buffer, heap) /\ buffer \in Buffers /\ Memory(heap)
      /\ Holds(heap, buffer.base, buffer.length) /\ spilled \in BOOLEAN
  BY DEF BufferInvariant, Sound
<1>2. CASE Dies
  BY <1>2, StringKept DEF Dies
<1>3. ASSUME NEW n \in Lengths, NEW b, Sound(b, heap), NEW o \in Inits(b, heap, n),
             Leaves(o), answer' = Silent
      PROVE  Store!StoreNext
  <2>1. n \in Nat
    BY ConstantFacts
  <2>2. /\ o.ok \in BOOLEAN
        /\ o.ok => /\ o.buffer.length = n
                   /\ o.buffer.base # Null => o.heap[o.buffer.base] = Filled(n, "zero")
        /\ ~o.ok => o.buffer.base = Null
    BY <1>3, <2>1, InitSound
  <2>3. buffer' = o.buffer /\ heap' = o.heap
    BY <1>3 DEF Leaves
  <2>4. CASE buffer'.base = Null
    BY <1>3, <2>4, StringLostIsLose DEF Store!StoreNext
  <2>5. CASE buffer'.base # Null
    <3>1. heap'[buffer'.base] = Filled(n, "zero") /\ buffer'.length = n
      BY <2>2, <2>3, <2>5
    <3>2. DOMAIN heap'[buffer'.base] = Span(n)
      BY <3>1 DEF Filled
    <3>3. Store!Make
      BY <1>3, <2>5, <3>1, <3>2, StringMade
    <3> QED
      BY <3>3 DEF Store!StoreNext
  <2> QED
    BY <2>4, <2>5
<1>4. ASSUME NEW n \in Lengths, BufferInit(n)
      PROVE  Store!StoreNext \/ UNCHANGED <<Bytestring, answer>>
  <2>1. CASE ~Dies
    <3>1. PICK o \in Inits(buffer, heap, n) : Leaves(o)
      BY <1>4, <2>1 DEF BufferInit
    <3>2. answer' = Silent
      BY <1>4, <2>1 DEF BufferInit
    <3> QED
      BY <1>1, <1>3, <3>1, <3>2
  <2> QED
    BY <1>2, <2>1
<1>5. ASSUME NEW n \in Lengths, BufferNew(n)
      PROVE  Store!StoreNext \/ UNCHANGED <<Bytestring, answer>>
  <2>1. CASE ~Dies
    <3>1. PICK o \in Inits(Zeroed, heap, n) : Leaves(o)
      BY <1>5, <2>1 DEF BufferNew
    <3>2. answer' = Silent
      BY <1>5, <2>1 DEF BufferNew
    <3>3. Sound(Zeroed, heap)
      BY <1>1, ZeroedSound
    <3> QED
      BY <1>3, <3>1, <3>2, <3>3
  <2> QED
    BY <1>2, <2>1
<1>6. CASE TakeView
  <2>1. buffer'.base = buffer.base /\ buffer'.length = buffer.length /\ heap' = heap
    BY <1>1, <1>6 DEF TakeView, Buffers
  <2>2. Bytestring' = Bytestring /\ answer' = Silent
    BY <1>6, <2>1, StringKept DEF TakeView
  <2>3. Store!Refuse
    BY <2>2 DEF Store!Refuse, Store!Silent, Store!Nothing, Silent, Nothing
  <2> QED
    BY <2>3 DEF Store!StoreNext
<1>7. CASE BufferDestroy
  <2>1. answer' = Silent
    BY <1>7 DEF BufferDestroy
  <2>2. buffer'.base = Null
    BY <1>1, <1>7 DEF BufferDestroy, Zeroed, Buffers
  <2> QED
    BY <2>1, <2>2, StringLostIsLose DEF Store!StoreNext
<1>8. ASSUME NEW range \in Ranges, NEW value \in Bytes, BufferWrite(range, value)
      PROVE  Store!StoreNext
  <2>1. PICK p \in Prepared(range) : \E s \in Sized(p, range) :
          \/ ~s.ok /\ buffer' = s.buffer /\ answer' = Silent
          \/ /\ s.ok
             /\ s.buffer.base # Null
             /\ heap' = Copied(s.heap, s.buffer.base, range, value)
             /\ buffer' = [s.buffer EXCEPT !.written = Counted(s.buffer, range.length)]
             /\ answer' = [count |-> range.length, out |-> Nothing]
    BY <1>8 DEF BufferWrite, Leaves
  <2>2. PICK s \in Sized(p, range) :
          \/ ~s.ok /\ buffer' = s.buffer /\ answer' = Silent
          \/ /\ s.ok
             /\ s.buffer.base # Null
             /\ heap' = Copied(s.heap, s.buffer.base, range, value)
             /\ buffer' = [s.buffer EXCEPT !.written = Counted(s.buffer, range.length)]
             /\ answer' = [count |-> range.length, out |-> Nothing]
    BY <2>1
  <2>3. /\ Sound(s.buffer, s.heap)
        /\ ~s.ok => s.buffer.base = Null
        /\ s.ok /\ s.buffer.base # Null =>
             \A i \in DOMAIN Bytestring :
               i \in Span(s.buffer.length) /\ s.heap[s.buffer.base][i] = Bytestring[i]
    BY <1>1, WriteSound
  <2>4. CASE ~s.ok
    BY <2>2, <2>3, <2>4, StringLostIsLose DEF Store!StoreNext
  <2>5. CASE s.ok /\ s.buffer.base # Null
    <3>1. s.buffer \in Buffers
      BY <2>3 DEF Sound
    <3>2. buffer'.base = s.buffer.base /\ buffer'.length = s.buffer.length
      BY <2>2, <2>5, <3>1 DEF Buffers
    <3>3. Store!Put(range, value)
      BY <2>2, <2>3, <2>5, <3>2, StringPut
    <3> QED
      BY <3>3 DEF Store!StoreNext
  <2> QED
    BY <2>2, <2>4, <2>5
<1>9. ASSUME NEW range \in Ranges, BufferRead(range) PROVE Store!StoreNext
  <2>1. Bytestring' = Bytestring
    BY <1>9, StringKept DEF BufferRead
  <2>2. CASE Refused(range)
    <3>1. Store!Refuse
      BY <1>9, <2>1, <2>2
         DEF BufferRead, Store!Refuse, Store!Silent, Store!Nothing, Silent, Nothing
    <3> QED
      BY <3>1 DEF Store!StoreNext
  <2>3. CASE ~Refused(range)
    <3> DEFINE out == [i \in Span(range.length) |-> Byte(heap[buffer.base], i, range)]
    <3>1. answer' = [count |-> range.length, out |-> out]
      BY <1>9, <2>3 DEF BufferRead
    <3>2. buffer.base # Null
      BY <2>3 DEF Refused
    <3>3. /\ heap[buffer.base] \in [DOMAIN heap[buffer.base] -> Values]
          /\ Span(buffer.length) \subseteq DOMAIN heap[buffer.base]
      BY <1>1, <3>2 DEF Holds, Memory
    <3>4. out \in [Store!Span(range.length) -> Store!Values]
      BY <3>3 DEF Byte, Values, Store!Values, Store!Unwritten, Store!Span, Span
    <3>5. Bytestring = [i \in Span(buffer.length) |-> heap[buffer.base][i]]
      BY <3>2 DEF Bytestring
    <3>6. ASSUME NEW i \in Store!Span(range.length), range.offset + i \in DOMAIN Bytestring
          PROVE  out[i] = Bytestring[range.offset + i]
      BY <3>3, <3>5, <3>6 DEF Byte, Store!Span, Span
    <3> HIDE DEF out
    <3>7. Store!Get(range)
      BY <2>1, <3>1, <3>4, <3>6 DEF Store!Get
    <3> QED
      BY <3>7 DEF Store!StoreNext
  <2> QED
    BY <2>2, <2>3
<1>10. CASE UNCHANGED bvars
  BY <1>10, StringKept DEF bvars
<1> QED
  BY <1>2, <1>4, <1>5, <1>6, <1>7, <1>8, <1>9, <1>10 DEF BNext, BufferWriteDies, BufferReadDies

(***************************************************************************)
(* A buffer is a string of bytes: whatever is allocated, fails or is       *)
(* overrun, a write changes its own range and a read returns what is there.*)
(***************************************************************************)
THEOREM BufferIsByteStore == BSpec => KeepsBytes
<1>1. BInit => Store!StoreInit
  BY DEF BInit, Zeroed, Bytestring, Store!StoreInit, Store!Silent, Store!Nothing, Silent, Nothing
<1> QED
  BY <1>1, StringStep, BufferStaysInvariant, PTL
     DEF BSpec, KeepsBytes, Store!StoreSpec, Store!storevars
=============================================================================
