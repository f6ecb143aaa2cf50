----------------------------- MODULE RafProgram -----------------------------
(***************************************************************************)
(* example/raf/main.c: one thread that opens a file, writes three pieces   *)
(* of a text next to each other, reads each piece back when it has been    *)
(* written, keeps what it reads in an ara_buffer_t of its own, and prints  *)
(* the buffer when it has kept as many bytes as the file has.              *)
(*                                                                         *)
(* All steps of the file are those of RandomAccessFile, and all steps of   *)
(* the buffer those of Buffer.  The code that runs in a callback is a      *)
(* script of calls.                                                        *)
(***************************************************************************)
EXTENDS RandomAccessFile

CONSTANTS
  Pieces,     \* the sequence of [offset, length, text] it writes, one after the other
  Regions,    \* the memory of its buffer
  Unlinks     \* is --unlink given: subset of BOOLEAN

Extent(piece) == [offset |-> piece.offset, length |-> piece.length]

End(range) == range.offset + range.length

Total == End(Pieces[Len(Pieces)])

ASSUME ProgramAssumption ==
  /\ Pieces \in Seq([offset : Nat, length : Nat \ {0}, text : STRING]) \ {<<>>}
  /\ \A i \in DOMAIN Pieces : Extent(Pieces[i]) \in Ranges
  /\ \A i, j \in DOMAIN Pieces : i < j => End(Pieces[i]) <= Pieces[j].offset
  /\ \A n \in 0..(Total - 1) : \E i \in DOMAIN Pieces :
       Pieces[i].offset <= n /\ n < End(Pieces[i])
  /\ "READ_WRITE" \in Modes
  /\ "NULL" \notin Regions
  /\ Unlinks \subseteq BOOLEAN

VARIABLES
  script,     \* the calls the running client code has yet to make
  unlink,     \* opts.unlink
  began,      \* the size of the file before the program runs (history)
  printed,    \* what printf() was given, in order (history)
  spilled, present, alloc, made, careful, buffer, heap, answer    \* of Buffer

memory == <<spilled, present, alloc, made, careful, buffer, heap, answer>>
pvars == <<rvars, script, unlink, began, printed, memory>>

Own == INSTANCE Buffer WITH
         Bytes <- {Pieces[i].text : i \in DOMAIN Pieces} \union {"other"},
         Lengths <- Sizes, AllocFails <- FALSE

Call(f, range) == [call |-> f, range |-> range]

NoRange == [offset |-> 0, length |-> 0]

PInit ==
  /\ RInit
  /\ script = <<Call("INIT", NoRange), Call("OPEN", NoRange)>>
  /\ unlink \in Unlinks
  /\ began = fileSize
  /\ printed = <<>>
  /\ Own!BInit
  /\ present = TRUE

-----------------------------------------------------------------------------
(***************************************************************************)
(* What the callbacks do: onopen(), onwrite(), onread() and onunlink().    *)
(***************************************************************************)
\* Plausible bug: the buffer is left to the first write.
OnOpen_NoBuffer ==
  IF ~fd THEN <<>>
  ELSE IF unlink THEN <<Call("UNLINK", NoRange)>>
  ELSE [i \in DOMAIN Pieces |-> Call("WRITE", Extent(Pieces[i]))]

OnOpen ==
  IF ~fd THEN <<>>
  ELSE IF unlink THEN <<Call("UNLINK", NoRange)>>
  ELSE (IF size > 0 THEN <<Call("BUFFER", NoRange)>> ELSE <<>>)
         \o [i \in DOMAIN Pieces |-> Call("WRITE", Extent(Pieces[i]))]

Code(r) ==
  IF op[r] = "OPEN" THEN OnOpen
  ELSE IF op[r] = "WRITE" THEN <<Call("READ", Extent(opts[r]))>>
  ELSE IF op[r] = "READ" /\ fd THEN <<Call("KEEP", Extent(opts[r])), Call("PRINT", NoRange)>>
  ELSE <<>>

-----------------------------------------------------------------------------
(***************************************************************************)
(* The calls of a script.                                                  *)
(***************************************************************************)
Upcoming(f) == script # <<>> /\ Head(script).call = f

Do(f) == Upcoming(f) /\ script' = Tail(script)

Elsewhere == UNCHANGED <<unlink, began, printed>>

MainInit == Do("INIT") /\ RafInit /\ Elsewhere /\ UNCHANGED memory

\* The range and flags main.c gives to raf_<op>().
Wanted(c) ==
  IF c.call = "OPEN" THEN [NoOpts EXCEPT !.flags = "READ_WRITE"]
  ELSE IF c.call = "READ" THEN Transfer(Clamp(c.range, size))
  ELSE Transfer(c.range)

CallBegins(t) ==
  /\ Upcoming(t)
  /\ RafSet(t)
  /\ UNCHANGED <<script, memory>>
  /\ Elsewhere

\* Which memory the request gets makes no difference.
CallMade(t) ==
  /\ Do(t)
  /\ RafAccepted(t, CHOOSE r \in Req : r \notin Live, Wanted(Head(script)))
  /\ UNCHANGED memory
  /\ Elsewhere

CallPanics(t) ==
  /\ Upcoming(t)
  /\ RafRefused(t)
  /\ UNCHANGED <<script, memory>>
  /\ Elsewhere

BufferMade ==
  /\ Do("BUFFER")
  /\ Idle
  /\ Own!BufferInit(size)
  /\ UNCHANGED <<vars, client, handle, file, transfers>>
  /\ Elsewhere

\* The bytes of a file at a range: those of the piece that was written there.
Stored(range) ==
  IF \E i \in DOMAIN Pieces : Extent(Pieces[i]) = range
  THEN Pieces[CHOOSE i \in DOMAIN Pieces : Extent(Pieces[i]) = range].text
  ELSE "other"

Kept ==
  LET range == Head(script).range
  IN /\ Do("KEEP")
     /\ Idle
     /\ Own!BufferWrite(range, Stored(range)) \/ Own!BufferWriteDies(range)
     /\ UNCHANGED <<vars, client, handle, file, transfers>>
     /\ Elsewhere

\* Plausible bug: everything is kept already when the first piece is.
AllKept_Some == size > 0 /\ buffer.written > 0

AllKept == size > 0 /\ size = buffer.written

Printed ==
  LET whole == [offset |-> 0, length |-> size]
  IN /\ Do("PRINT")
     /\ Idle
     /\ AllKept
     /\ \/ /\ Own!BufferRead(whole)
           /\ printed' = Append(printed, answer'.out)
        \/ Own!BufferReadDies(whole) /\ UNCHANGED printed
     /\ UNCHANGED <<vars, client, handle, file, transfers, unlink, began>>

NotPrinted ==
  /\ Do("PRINT")
  /\ Idle
  /\ ~AllKept
  /\ UNCHANGED <<rvars, memory>>
  /\ Elsewhere

Scripted ==
  \/ MainInit
  \/ \E t \in Types : CallBegins(t) \/ CallMade(t) \/ CallPanics(t)
  \/ BufferMade
  \/ Kept
  \/ Printed
  \/ NotPrinted

-----------------------------------------------------------------------------
(***************************************************************************)
(* uv_run(): whatever enters a callback starts its code.                   *)
(***************************************************************************)
Entered == Len(stack') > Len(stack) /\ stack'[Len(stack')].kind = "callback"

Looping(step, r) ==
  /\ step
  /\ UNCHANGED memory
  /\ Elsewhere
  /\ script' = IF Entered THEN Code(r)' ELSE script

CallbackReturns ==
  /\ script = <<>>
  /\ RafReturn
  /\ UNCHANGED <<script, memory>>
  /\ Elsewhere

PNext ==
  \/ Scripted
  \/ CallbackReturns
  \/ \E r \in Req : Looping(RafDeliver(r) \/ Worker(r) \/ Pool(r) \/ Callback(r) \/ RafUvClose(r), r)

PSpec == PInit /\ [][PNext]_pvars

\* The process is given time as long as it can do anything.
PFairSpec == PSpec /\ WF_pvars(PNext)

-----------------------------------------------------------------------------
\* A file that holds the whole text before the program runs.
Roomy == began >= Total

Text ==
  [i \in 0..(Total - 1) |->
     Pieces[CHOOSE j \in DOMAIN Pieces :
              i - Pieces[j].offset \in 0..(Pieces[j].length - 1)].text]

(***************************************************************************)
(* The program runs to its end, no assert() or panic() stops it but for a  *)
(* call of the system that failed, and its buffer is never overrun, if the *)
(* file is as long as the text: the session refuses none of its requests,  *)
(* and each read of what was just written fits the buffer made in          *)
(* onopen().  With a shorter file the buffer is too short, and             *)
(* ara_buffer_write() writes past its end.                                 *)
(***************************************************************************)
MainRuns == Roomy /\ NoWrap => ~spilled /\ (up \/ Blamed)

(***************************************************************************)
(* onread() prints when the bytes it has counted are as many as the file   *)
(* has.  It counts, it does not look which they are: for a file as long as *)
(* the text that is once, with all of the text in its place, in whatever   *)
(* order the reads are answered.                                           *)
(***************************************************************************)
PrintsText == Roomy /\ NoWrap /\ WritesSucceed => printed \in {<<>>, <<Text>>}

(***************************************************************************)
(* Whatever the file, no byte is ever printed in the place of another.     *)
(***************************************************************************)
Belongs(i) == {"zero", "junk"} \union (IF i < Total THEN {Text[i]} ELSE {})

NothingMisplaced ==
  NoWrap /\ WritesSucceed =>
    \A n \in DOMAIN printed : \A i \in DOMAIN printed[n] : printed[n][i] \in Belongs(i)

(***************************************************************************)
(* The program ends, uv_run() having nothing left to wait for, and a file  *)
(* that had the length of the text has been printed.                       *)
(***************************************************************************)
Exhausted == script = <<>> /\ stack = <<>> /\ Live = {}

ProgramEnds ==
  <>[](~up \/ (Exhausted /\ (began = Total /\ ~unlink => printed = <<Text>>)))
=============================================================================
