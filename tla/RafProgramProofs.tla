-------------------------- MODULE RafProgramProofs --------------------------
(***************************************************************************)
(* Theorems about example/raf/main.c for every text, cut into any number   *)
(* of pieces, every file and whatever fails.                               *)
(***************************************************************************)
EXTENDS RafProgram, RafOrderlyProofs, SequenceTheorems, FiniteSetTheorems

-----------------------------------------------------------------------------
(***************************************************************************)
(* The scripts of the callbacks, and where the code runs.                  *)
(***************************************************************************)
Extents == {Extent(Pieces[i]) : i \in DOMAIN Pieces}

Main == <<Call("INIT", NoRange), Call("OPEN", NoRange)>>

Entries ==
  [call : {"UNLINK", "BUFFER", "PRINT"}, range : {NoRange}]
    \union [call : {"WRITE", "READ"}, range : Extents]
    \union [call : {"KEEP"}, range : [offset : Nat, length : Nat]]

InMain ==
  /\ stack = <<>> /\ Live = {}
  /\ \/ script = Main /\ calling = "none"
     \/ script = Tail(Main) /\ status = "INIT"

InCallback == stack # <<>> /\ Top.kind = "callback" /\ script \in Seq(Entries)

Conducted ==
  /\ script # <<>> => InMain \/ InCallback
  /\ calling # "none" => Upcoming(calling) /\ Live # Req

(***************************************************************************)
(* The program does not close its file and asks for nothing but its pieces.*)
(***************************************************************************)
RequestedOf(r) ==
  /\ r \in Live => op[r] \in {"OPEN", "READ", "WRITE", "UNLINK"}
  /\ stage[r] # "idle" /\ op[r] = "WRITE" => Extent(opts[r]) \in Extents
  /\ stage[r] # "idle" /\ op[r] = "OPEN" => opts[r].flags = "READ_WRITE"

Requested == \A r \in Req : RequestedOf(r)

\* Once it is open the file may be read and written.
BothModes == fd /\ status # "UNKNOWN" => readable /\ writable

Program == orderly /\ Conducted /\ Requested /\ BothModes

(***************************************************************************)
(* What is proved of the file and its session.                             *)
(***************************************************************************)
FileSound ==
  /\ Ownership /\ Session /\ RTypeOK /\ Owned /\ Progressing /\ OpensFirst /\ Finishing
  /\ NoWrap => InFile
  /\ OrderlySession /\ OrderlyHandle

Answered ==
  /\ NoWrap => \A r \in Req : Explained(r)
  /\ NoWrap /\ ~up => Blamed \/ spilled
-----------------------------------------------------------------------------
(***************************************************************************)
(* The invariants of the file hold in the program, too.                    *)
(***************************************************************************)
\* An access outside the buffer that kills the process.
BufferFails ==
  /\ up /\ up' = FALSE
  /\ spilled'
  /\ UNCHANGED <<vars, client, handle, file, transfers>>

LEMMA FileSoundInit == RInit => FileSound
<1>1. RInit => Init
  BY DEF RInit
<1> QED
  BY <1>1, OwnershipInit, SessionInit, RafTypeInit, OwnedInit, ProgressInit, OpensFirstInit,
     FinishInit, InFileInit, OrderlyInit, HandleInit DEF FileSound

LEMMA FileSoundStep == ASSUME FileSound, [RNext]_rvars PROVE FileSound'
<1> USE DEF FileSound
<1>1. [Next]_vars
  BY RafStepIsAraStep DEF FileOwned
<1>2. Ownership' /\ Session'
  BY <1>1, OwnershipStep, SessionStep
<1>3. RTypeOK'
  BY RafTypeStep DEF Ownership
<1>4. Owned' /\ Progressing' /\ OpensFirst' /\ Finishing'
  BY OwnedStep, ProgressStep, OpensFirstStep, FinishStep
<1>5. (NoWrap => InFile)'
  <2>1. NoWrap' <=> NoWrap
    BY DEF NoWrap
  <2> QED
    BY <1>3, <2>1, InFileStep
<1>6. OrderlySession' /\ OrderlyHandle'
  BY OrderlySessionStep, HandleStep
<1> QED
  BY <1>2, <1>3, <1>4, <1>5, <1>6

LEMMA FileSoundFails == ASSUME FileSound, BufferFails PROVE FileSound'
<1> USE DEF FileSound
<1>1. /\ UNCHANGED <<vars, status, requests, op, stack, client, orderly>>
      /\ UNCHANGED <<handle, file, transfers, readable, writable, fd, descriptor>>
      /\ UNCHANGED <<size, fileSize, stage, opts, view, result, region, moved>>
      /\ Live' = Live /\ Calling' = Calling
      /\ up' = FALSE
  BY DEF BufferFails, vars, client, handle, file, transfers, requests, Live, Calling, IsCallback
<1>2. Ownership' /\ Session'
  BY <1>1, OwnershipStep, SessionStep
<1>3. RTypeOK'
  BY <1>1 DEF RTypeOK, client, handle
<1>4. Owned' /\ Progressing'
  BY <1>1, OwnedQuiet, ProgressQuiet
<1>5. OpensFirst'
  BY <1>1, OpensFirstQuiet DEF WorkFrame
<1>6. Finishing'
  BY <1>1, FinishOf DEF Finishing
<1>7. (NoWrap => InFile)'
  BY <1>1, <1>3, InFileQuiet DEF NoWrap
<1>8. OrderlySession' /\ OrderlyHandle'
  BY <1>1, OrderlyOutside, HandleKept
<1> QED
  BY <1>2, <1>3, <1>4, <1>5, <1>6, <1>7, <1>8

-----------------------------------------------------------------------------
(***************************************************************************)
(* The texts and the scripts.                                              *)
(***************************************************************************)
LEMMA PieceFacts ==
  /\ Pieces # <<>> /\ Len(Pieces) \in Nat \ {0} /\ DOMAIN Pieces = 1..Len(Pieces)
  /\ \A i \in DOMAIN Pieces : /\ Pieces[i].offset \in Nat
                              /\ Pieces[i].length \in Nat \ {0}
                              /\ End(Pieces[i]) <= Total
  /\ Total \in Nat \ {0}
  /\ Extents \subseteq Ranges
  /\ Extents \subseteq [offset : Nat, length : Nat \ {0}]
<1>1. /\ Pieces # <<>> /\ Len(Pieces) \in Nat \ {0} /\ DOMAIN Pieces = 1..Len(Pieces)
      /\ \A i \in DOMAIN Pieces : Pieces[i] \in [offset : Nat, length : Nat \ {0}, text : STRING]
  <2> DEFINE P == [offset : Nat, length : Nat \ {0}, text : STRING]
  <2>1. Pieces \in Seq(P) /\ Pieces # <<>>
    BY ProgramAssumption
  <2> HIDE DEF P
  <2>2. /\ Len(Pieces) \in Nat \ {0} /\ DOMAIN Pieces = 1..Len(Pieces)
        /\ \A i \in DOMAIN Pieces : Pieces[i] \in P
    BY <2>1
  <2> QED
    BY <2>1, <2>2 DEF P
<1>2. ASSUME NEW i \in DOMAIN Pieces
      PROVE  Pieces[i].offset \in Nat /\ Pieces[i].length \in Nat \ {0}
  BY <1>1
<1>3. ASSUME NEW i \in DOMAIN Pieces PROVE End(Pieces[i]) <= Total
  <2>1. CASE i = Len(Pieces)
    BY <1>1, <1>2, <2>1 DEF End, Total
  <2>2. CASE i < Len(Pieces)
    <3>1. End(Pieces[i]) <= Pieces[Len(Pieces)].offset
      BY <1>1, <2>2, ProgramAssumption
    <3> QED
      BY <1>1, <1>2, <3>1 DEF End, Total
  <2> QED
    BY <1>1, <2>1, <2>2
<1>4. Total \in Nat \ {0}
  BY <1>1, <1>2 DEF End, Total
<1>5. Extents \subseteq Ranges
  BY ProgramAssumption DEF Extents
<1>6. Extents \subseteq [offset : Nat, length : Nat \ {0}]
  BY <1>2 DEF Extents, Extent
<1> QED
  BY <1>1, <1>2, <1>3, <1>4, <1>5, <1>6

\* What main() begins with.
LEMMA MainCalls ==
  /\ Main # <<>> /\ Head(Main) = Call("INIT", NoRange)
  /\ Tail(Main) # <<>> /\ Head(Tail(Main)) = Call("OPEN", NoRange)
  /\ Tail(Tail(Main)) = <<>>
BY DEF Main

LEMMA EntryCalls ==
  ASSUME NEW c \in Entries
  PROVE  /\ c.call \in {"UNLINK", "BUFFER", "PRINT", "WRITE", "READ", "KEEP"}
         /\ c.call \in {"WRITE", "READ"} => c.range \in Extents
         /\ c.call = "KEEP" => c.range \in [offset : Nat, length : Nat]
         /\ c.call \in {"UNLINK", "BUFFER", "PRINT"} => c.range = NoRange
BY DEF Entries

LEMMA ScriptParts ==
  ASSUME NEW S, NEW s \in Seq(S), s # <<>>
  PROVE  Head(s) \in S /\ Tail(s) \in Seq(S)
OBVIOUS

\* Which code makes a call of a session, and for what.
LEMMA CallOf ==
  ASSUME Conducted, NEW t \in OpTypes, Upcoming(t)
  PROVE  /\ script # <<>>
         /\ \/ /\ t = "OPEN" /\ Head(script) = Call("OPEN", NoRange)
               /\ InMain /\ script = Tail(Main) /\ status = "INIT"
            \/ /\ InCallback /\ t \in {"READ", "WRITE", "UNLINK"}
               /\ Head(script) \in Entries /\ Head(script).call = t
<1>1. script # <<>> /\ Head(script).call = t
  BY DEF Upcoming
<1>2. CASE InMain
  BY <1>1, <1>2, MainCalls DEF InMain, Call, OpTypes
<1>3. CASE InCallback
  <2>1. Head(script) \in Entries
    BY <1>1, <1>3, ScriptParts DEF InCallback
  <2> QED
    BY <1>1, <1>3, <2>1, EntryCalls DEF OpTypes
<1> QED
  BY <1>1, <1>2, <1>3 DEF Conducted
-----------------------------------------------------------------------------
(***************************************************************************)
(* The steps of the program are those of the file, or the end of it.       *)
(***************************************************************************)
\* What the program asks for is what a client may ask for.
LEMMA WantedAsked ==
  ASSUME Conducted, NEW t \in OpTypes, Upcoming(t)
  PROVE  /\ Wanted(Head(script)) \in Asked(t)
         /\ t = "OPEN" => Wanted(Head(script)).flags = "READ_WRITE"
         /\ t = "WRITE" => Extent(Wanted(Head(script))) \in Extents
         /\ t # "CLOSE"
<1>1. CASE t = "OPEN"
  <2>1. Head(script) = Call("OPEN", NoRange)
    BY <1>1, CallOf
  <2>2. Wanted(Head(script)) = [NoOpts EXCEPT !.flags = "READ_WRITE"]
    BY <2>1 DEF Wanted, Call
  <2> QED
    BY <1>1, <2>2, ProgramAssumption DEF Asked, NoOpts
<1>2. CASE t \in {"READ", "WRITE"}
  <2>1. Head(script).call = t /\ Head(script).range \in Extents
    BY <1>2, CallOf, EntryCalls
  <2>2. Head(script).range \in Ranges /\ Head(script).range \in [offset : Nat, length : Nat \ {0}]
    BY <2>1, PieceFacts
  <2> QED
    BY <1>2, <2>1, <2>2 DEF Wanted, Asked, Transfer, Extent
<1>3. CASE t = "UNLINK"
  <2>1. Head(script).call = t /\ Head(script).range = NoRange
    BY <1>3, CallOf, EntryCalls
  <2> QED
    BY <1>3, <2>1 DEF Wanted, Asked, Transfer, NoRange, NoOpts
<1> QED
  BY <1>1, <1>2, <1>3, CallOf

\* The slot a request is put in is free.
LEMMA FreeSlot ==
  ASSUME Conducted, calling # "none"
  PROVE  (CHOOSE r \in Req : r \notin Live) \in Req \ Live
BY DEF Conducted, Live

LEMMA FileSteps ==
  ASSUME Conducted, [PNext]_pvars
  PROVE  [RNext]_rvars \/ BufferFails
<1> SUFFICES ASSUME PNext PROVE [RNext]_rvars \/ BufferFails
  BY DEF pvars, rvars
<1>1. CASE MainInit
  BY <1>1 DEF MainInit, RNext, Client
<1>2. ASSUME NEW t \in Types, CallBegins(t) \/ CallPanics(t) PROVE RNext
  BY <1>2 DEF CallBegins, CallPanics, RNext, Client
<1>3. ASSUME NEW t \in Types, CallMade(t) PROVE RNext
  <2> DEFINE free == CHOOSE r \in Req : r \notin Live
  <2>1. Upcoming(t) /\ RafAccepted(t, free, Wanted(Head(script))) /\ t \in OpTypes
    BY <1>3, RafAssumption DEF CallMade, Do
  <2>2. calling # "none"
    BY <2>1 DEF RafAccepted, OpTypes
  <2>3. free \in Req
    BY <2>2, FreeSlot
  <2>4. Wanted(Head(script)) \in Asked(t)
    BY <2>1, WantedAsked
  <2> QED
    BY <2>1, <2>3, <2>4 DEF RNext, Client
<1>4. ASSUME UNCHANGED <<vars, client, handle, file, transfers>>, up,
             up' = up \/ (up' = FALSE /\ spilled')
      PROVE  UNCHANGED rvars \/ BufferFails
  BY <1>4 DEF rvars, rafvars, BufferFails
<1>5. CASE BufferMade
  <2>1. up' = up
    BY <1>5, Zenon DEF BufferMade, Own!BufferInit, Own!Leaves
  <2> QED
    BY <1>4, <1>5, <2>1 DEF BufferMade, Idle
<1>6. CASE Kept
  BY <1>4, <1>6 DEF Kept, Idle, Own!BufferWrite, Own!BufferWriteDies, Own!Leaves, Own!Dies
<1>7. CASE Printed \/ NotPrinted
  BY <1>4, <1>7 DEF Printed, NotPrinted, Idle, Own!BufferRead, Own!BufferReadDies, Own!Dies
<1>8. CASE CallbackReturns
  BY <1>8 DEF CallbackReturns, RNext
<1>9. ASSUME NEW r \in Req,
             Looping(RafDeliver(r) \/ Worker(r) \/ Pool(r) \/ Callback(r) \/ RafUvClose(r), r)
      PROVE  RNext
  BY <1>9 DEF Looping, RNext
<1> QED
  BY <1>1, <1>2, <1>3, <1>5, <1>6, <1>7, <1>8, <1>9 DEF PNext, Scripted
-----------------------------------------------------------------------------
(***************************************************************************)
(* The loop.                                                               *)
(***************************************************************************)
LoopStep(r) == RafDeliver(r) \/ Worker(r) \/ Pool(r) \/ Callback(r) \/ RafUvClose(r)

\* The loop does nothing for a free slot.
LEMMA LoopLive ==
  ASSUME FileSound, NEW r \in Req, LoopStep(r)
  PROVE  r \in Live
<1>1. NoDanglingRequest /\ TypeOK
  BY DEF FileSound, Ownership
<1>2. CASE RafDeliver(r)
  BY <1>1, <1>2, DeliverFrames DEF RafDeliver, FileSound, NoDanglingRequest
<1>3. CASE Worker(r)
  <2>1. stack # <<>> /\ Top = [kind |-> "work", req |-> r]
    BY <1>3 DEF Worker, WorkPanics, WorkSubmits, WorkEnds, WorkEndStalls, WorkEndReturns, Starts
  <2>2. Len(stack) \in DOMAIN stack
    BY <1>1, <2>1 DEF TypeOK
  <2>3. Top.req = r
    BY <2>1
  <2> QED
    BY <1>1, <2>2, <2>3 DEF NoDanglingRequest, Top
<1>4. CASE stage[r] # "idle"
  BY <1>4 DEF FileSound, Progressing, Progress
<1>5. CASE Pool(r)
  BY <1>4, <1>5, PoolServes
<1>6. CASE Callback(r)
  BY <1>4, <1>6 DEF Callback, OnFsOpen, OnFsPlain, Resume, OnFsRead, OnFsWrite, OnFsStat,
                    OnFsFailure, Returned
<1>7. CASE RafUvClose(r)
  BY <1>1, <1>7 DEF RafUvClose, OnUvClose, NoDanglingRequest
<1> QED
  BY <1>2, <1>3, <1>5, <1>6, <1>7 DEF LoopStep

\* While a callback runs only the thread pool does anything else.
LEMMA OnlyPool ==
  ASSUME stack # <<>>, Top.kind = "callback", NEW r \in Req, LoopStep(r)
  PROVE  Pool(r)
<1>1. ~RafDeliver(r)
  BY DEF RafDeliver, OnAsyncBegin, BeginNoCallback, BeginWork, BeginUnserved, BeginJoin,
         BeginBadState, Deliver
<1>2. ~Worker(r)
  <2>1. Top # [kind |-> "work", req |-> r]
    OBVIOUS
  <2> QED
    BY <2>1 DEF Worker, WorkPanics, WorkSubmits, WorkEnds, WorkEndStalls, WorkEndReturns, Starts
<1>3. ~Callback(r)
  BY DEF Callback, OnFsOpen, OnFsPlain, Resume, OnFsRead, OnFsWrite, OnFsStat, OnFsFailure,
         Returned
<1>4. ~RafUvClose(r)
  BY DEF RafUvClose, OnUvClose
<1> QED
  BY <1>1, <1>2, <1>3, <1>4 DEF LoopStep

\* A callback of the client is entered when a file-system request ends the work
\* of a request, and in no other way.
LEMMA Completion ==
  ASSUME FileSound, Program, up, NEW r \in Req, LoopStep(r), Entered
  PROVE  /\ Callback(r) /\ FsDone(r) /\ Idle
         /\ r \in held /\ op' = op /\ opts' = opts /\ stage[r] # "idle" /\ stage'[r] = "done"
         /\ calling' = "none" /\ fileSize' = fileSize /\ fd' = fd
         /\ stack' = <<[kind |-> "callback", req |-> r]>>
         /\ status' = Op[op[r]].becomes
<1>0. TypeOK /\ stack \in Seq(Frames) /\ Ownership /\ OrderlySession
  BY DEF FileSound, Ownership, TypeOK
<1>1. CASE stack' = stack \/ Leave
  <2>1. Len(stack') <= Len(stack)
    BY <1>0, <1>1, LeaveStack DEF Leave
  <2> QED
    BY <1>0, <1>1, <2>1 DEF Entered, Leave
<1>2. CASE RafDeliver(r)
  <2>1. BeginWork(r) /\ stack = <<>>
    BY <1>0, <1>2, OrderlyDelivery, DeliverFrames DEF RafDeliver, Program
  <2>2. stack' = <<[kind |-> "work", req |-> r]>>
    BY <2>1 DEF BeginWork, Enter
  <2> QED
    BY <2>2 DEF Entered
<1>3. CASE Worker(r)
  <2>1. op[r] # "END"
    BY LoopLive DEF Program, Requested, RequestedOf
  <2> QED
    BY <1>1, <1>3, <2>1 DEF Worker, WorkPanics, WorkSubmits, WorkEnds, WorkEndStalls,
                            WorkEndReturns, Starts, ReturnWork, vars
<1>4. CASE Pool(r) \/ RafUvClose(r)
  BY <1>1, <1>4, PoolServes DEF RafUvClose, OnUvClose, vars
<1>5. CASE Callback(r)
  <2>1. /\ FsDone(r) /\ Idle /\ stack = <<>> /\ stage[r] # "idle"
        /\ fd' = fd
    BY <1>1, <1>5 DEF Callback, OnFsOpen, OnFsPlain, Resume, OnFsRead, OnFsWrite, OnFsStat,
                      OnFsFailure, FsFails, Returned, vars, handle
  <2>2. Notify(r, error) /\ r \in held /\ op' = op /\ status' = Op[op[r]].becomes
    BY <1>0, <1>5, <2>1, DoneIsOwed, OrderlyCompletion DEF FileSound, Program
  <2>3. stack' = <<[kind |-> "callback", req |-> r]>>
    BY <2>1, <2>2 DEF Notify, Enter
  <2>4. stage'[r] = "done"
    BY <2>1 DEF FsDone, FileSound, RTypeOK
  <2> QED
    BY <1>5, <2>1, <2>2, <2>3, <2>4 DEF FsDone, Idle, client, file
<1> QED
  BY <1>2, <1>3, <1>4, <1>5 DEF LoopStep

-----------------------------------------------------------------------------
(***************************************************************************)
(* What a step of the program does to its script and to its requests.      *)
(***************************************************************************)
OwnStep == BufferMade \/ Kept \/ Printed \/ NotPrinted

\* The steps of the program's own buffer.
LEMMA OwnSteps ==
  ASSUME OwnStep
  PROVE  /\ UNCHANGED <<vars, client, handle, file, transfers, unlink, began>>
         /\ up /\ calling = "none"
         /\ up' = up \/ BufferFails
         /\ script # <<>> /\ script' = Tail(script)
         /\ Head(script).call \in {"BUFFER", "KEEP", "PRINT"}
<1>1. ASSUME UNCHANGED <<vars, client, handle, file, transfers>>, up,
             up' = up \/ (up' = FALSE /\ spilled')
      PROVE  up' = up \/ BufferFails
  BY <1>1 DEF BufferFails
<1>2. CASE BufferMade
  <2>1. up' = up
    BY <1>2, Zenon DEF BufferMade, Own!BufferInit, Own!Leaves
  <2> QED
    BY <1>2, <2>1 DEF BufferMade, Idle, Do, Upcoming, Elsewhere
<1>3. CASE Kept
  BY <1>1, <1>3 DEF Kept, Idle, Do, Upcoming, Elsewhere, Own!BufferWrite, Own!BufferWriteDies,
                    Own!Leaves, Own!Dies
<1>4. CASE Printed
  BY <1>1, <1>4 DEF Printed, Idle, Do, Upcoming, Own!BufferRead, Own!BufferReadDies, Own!Dies
<1>5. CASE NotPrinted
  BY <1>5 DEF NotPrinted, Idle, Do, Upcoming, Elsewhere, rvars, rafvars
<1> QED
  BY <1>2, <1>3, <1>4, <1>5 DEF OwnStep

\* done() has yet to be called for the request.
Unanswered(r) == stage[r] \notin {"idle", "done"}

\* No request is made, and none is changed but by its end.
SameRequests ==
  \A q \in Req :
    /\ op'[q] \in {op[q], "UNKNOWN"}
    /\ Unanswered(q)' => Unanswered(q)
    /\ stage'[q] # "idle" => stage[q] # "idle" /\ op'[q] = op[q] /\ opts'[q] = opts[q]

LEMMA CallbackUnanswered == ASSUME NEW r \in Req, Callback(r) PROVE Unanswered(r)
BY DEF Callback, OnFsOpen, OnFsPlain, Resume, OnFsRead, OnFsWrite, OnFsStat, OnFsFailure, Returned,
       Unanswered

LEMMA LoopRequests ==
  ASSUME FileSound, NEW r \in Req, LoopStep(r)
  PROVE  SameRequests
<1>0. TypeOK /\ RTypeOK /\ Ownership
  BY DEF FileSound, Ownership
<1>1. CASE op' = op /\ UNCHANGED transfers
  BY <1>1 DEF SameRequests, transfers, Unanswered
<1>2. ASSUME op' = op, opts' = opts, NEW s, stage' = [stage EXCEPT ![r] = s], Unanswered(r)
      PROVE  SameRequests
  BY <1>0, <1>2 DEF SameRequests, RTypeOK, Unanswered
<1>3. CASE RafDeliver(r)
  BY <1>0, <1>1, <1>3, DeliverFrames DEF RafDeliver, rafvars
<1>4. ASSUME Done(r) PROVE op' = op
  BY <1>0, <1>4, DoneFrames DEF Done
<1>5. CASE Worker(r)
  <2>1. ASSUME NEW t \in Types, WorkPanics(r, t) PROVE SameRequests
    BY <1>1, <2>1 DEF WorkPanics, Panic, vars
  <2>2. ASSUME NEW t \in Types, WorkSubmits(r, t) PROVE SameRequests
    BY <1>2, <2>2 DEF WorkSubmits, Starts, ReturnWork, requests, Unanswered
  <2>3. CASE WorkEnds(r)
    BY <1>2, <1>4, <2>3 DEF WorkEnds, Starts, Unanswered
  <2>4. CASE WorkEndStalls(r)
    BY <1>2, <2>4 DEF WorkEndStalls, Starts, ReturnWork, requests, Unanswered
  <2>5. CASE WorkEndReturns(r)
    BY <1>1, <2>5 DEF WorkEndReturns, ReturnWork, requests, rafvars
  <2> QED
    BY <1>5, <2>1, <2>2, <2>3, <2>4, <2>5 DEF Worker
<1>6. CASE Pool(r)
  BY <1>2, <1>6, PoolServes DEF vars, Unanswered
<1>7. CASE Callback(r)
  <2>1. Unanswered(r)
    BY <1>7, CallbackUnanswered
  <2>2. CASE FsDone(r)
    BY <1>2, <1>4, <2>1, <2>2 DEF FsDone
  <2>3. CASE OnFsFailure(r)
    BY <1>1, <2>3 DEF OnFsFailure, FsFails, Panic, vars
  <2> QED
    BY <1>2, <1>7, <2>1, <2>2, <2>3
       DEF Callback, OnFsOpen, OnFsPlain, Resume, OnFsRead, OnFsWrite, OnFsStat, vars
<1>8. CASE RafUvClose(r)
  BY <1>0, <1>8 DEF RafUvClose, OnUvClose, Forget, SameRequests, TypeOK, RTypeOK, Unanswered
<1> QED
  BY <1>3, <1>5, <1>6, <1>7, <1>8 DEF LoopStep

\* All steps of the program but the second halves of its calls.
LEMMA StepRequests ==
  ASSUME FileSound, [PNext]_pvars, ~ \E t \in Types : CallMade(t)
  PROVE  SameRequests
<1>1. CASE op' = op /\ UNCHANGED transfers
  BY <1>1 DEF SameRequests, transfers, Unanswered
<1>2. CASE MainInit
  BY <1>1, <1>2 DEF MainInit, RafInit, AraInit, requests
<1>3. ASSUME NEW t \in Types, CallBegins(t) \/ CallPanics(t) PROVE SameRequests
  BY <1>1, <1>3 DEF CallBegins, RafSet, AraSet, CallPanics, RafRefused, CallBadState, CallNoLoop,
                    CallInitFails, AraThrow, Panic, requests
<1>4. CASE OwnStep
  BY <1>1, <1>4, OwnSteps DEF vars
<1>5. CASE CallbackReturns
  BY <1>5 DEF CallbackReturns, RafReturn, ReturnCallback, ReqEnd, Forget, SameRequests, FileSound,
              RTypeOK, Unanswered
<1>6. ASSUME NEW r \in Req,
             Looping(RafDeliver(r) \/ Worker(r) \/ Pool(r) \/ Callback(r) \/ RafUvClose(r), r)
      PROVE  SameRequests
  BY <1>6, LoopRequests DEF Looping, LoopStep
<1>7. CASE UNCHANGED pvars
  BY <1>1, <1>7 DEF pvars, rvars, rafvars, vars
<1> QED
  BY <1>2, <1>3, <1>4, <1>5, <1>6, <1>7 DEF PNext, Scripted, OwnStep

LEMMA RequestedStep ==
  ASSUME FileSound, Conducted, Requested, [PNext]_pvars
  PROVE  Requested'
<1>1. CASE ~ \E t \in Types : CallMade(t)
  <2>1. SameRequests
    BY <1>1, StepRequests
  <2> QED
    BY <2>1 DEF SameRequests, Requested, RequestedOf, Live, Extent
<1>2. ASSUME NEW t \in Types, CallMade(t) PROVE Requested'
  <2> DEFINE free == CHOOSE r \in Req : r \notin Live
             asked == Wanted(Head(script))
  <2>1. Upcoming(t) /\ RafAccepted(t, free, asked) /\ t \in OpTypes
    BY <1>2, RafAssumption DEF CallMade, Do
  <2>2. free \in Req
    BY <2>1, FreeSlot DEF RafAccepted, OpTypes
  <2>3. /\ t = "OPEN" => asked.flags = "READ_WRITE"
        /\ t = "WRITE" => Extent(asked) \in Extents
        /\ t \in {"OPEN", "READ", "WRITE", "UNLINK"}
    BY <2>1, WantedAsked, CallOf
  <2> HIDE DEF free, asked
  <2>4. /\ op' = [op EXCEPT ![free] = t] /\ opts' = [opts EXCEPT ![free] = asked]
        /\ stage' = [stage EXCEPT ![free] = "asked"]
    BY <2>1 DEF RafAccepted, CallAccepted
  <2>5. TypeOK /\ RTypeOK
    BY DEF FileSound, Ownership
  <2> QED
    BY <2>2, <2>3, <2>4, <2>5 DEF Requested, RequestedOf, Live, Extent, TypeOK, RTypeOK
<1> QED
  BY <1>1, <1>2

-----------------------------------------------------------------------------
(***************************************************************************)
(* The program is an orderly client.                                       *)
(***************************************************************************)
LEMMA HandleSteps ==
  ASSUME [RNext]_rvars
  PROVE  RafInit \/ (\E r \in Req : OnFsOpen(r)) \/ UNCHANGED <<fd, readable, writable>>
BY PoolServes
   DEF RNext, Client, RafSet, RafAccepted, RafRefused, Panic, RafReturn, RafDeliver, RafUvClose,
       Worker, WorkPanics, WorkSubmits, WorkEnds, WorkEndStalls, WorkEndReturns,
       Callback, OnFsPlain, Resume, OnFsRead, OnFsWrite, OnFsStat, OnFsFailure, FsFails,
       rvars, rafvars, handle

LEMMA BothModesStep ==
  ASSUME FileSound, Program, [PNext]_pvars
  PROVE  BothModes'
<1>1. CASE BufferFails
  BY <1>1 DEF BufferFails, Program, BothModes, vars, handle
<1>2. CASE [RNext]_rvars
  <2>1. [Next]_vars /\ OpensFirst' /\ Ownership
    BY <1>2, RafStepIsAraStep, FileSoundStep DEF FileSound, FileOwned
  <2>2. CASE RafInit
    BY <2>2 DEF RafInit, BothModes
  <2>3. ASSUME NEW r \in Req, OnFsOpen(r) PROVE BothModes'
    <3>1. opts[r].flags = "READ_WRITE"
      BY <2>3 DEF OnFsOpen, Returned, Program, Requested, RequestedOf
    <3> QED
      BY <2>3, <3>1 DEF OnFsOpen, BothModes, ReadableBy, WritableBy, Has, FlagBits
  <2>4. CASE UNCHANGED <<fd, readable, writable>>
    <3>1. CASE status # "UNKNOWN" \/ status' = "UNKNOWN"
      BY <2>4, <3>1 DEF Program, BothModes
    <3>2. CASE status = "UNKNOWN" /\ status' # "UNKNOWN"
      <4>1. status' = "INIT"
        BY <2>1, <3>2, StatusForward, RafAssumption DEF Forward
      <4> QED
        BY <2>1, <4>1 DEF OpensFirst, BothModes
    <3> QED
      BY <3>1, <3>2
  <2> QED
    BY <1>2, <2>2, <2>3, <2>4, HandleSteps
<1> QED
  BY <1>1, <1>2, FileSteps DEF Program

\* What a callback asks for, whatever set its calls are in.
LEMMA CodeIn ==
  ASSUME NEW S, NEW r \in Req,
         \A e \in Extents : Call("WRITE", e) \in S,
         Call("UNLINK", NoRange) \in S, Call("BUFFER", NoRange) \in S, Call("PRINT", NoRange) \in S,
         op'[r] = "WRITE" => Call("READ", Extent(opts'[r])) \in S,
         op'[r] = "READ" => Call("KEEP", Extent(opts'[r])) \in S
  PROVE  Code(r)' \in Seq(S)
<1>1. OnOpen' \in Seq(S)
  <2> DEFINE Writes == [i \in DOMAIN Pieces |-> Call("WRITE", Extent(Pieces[i]))]
  <2>1. Writes \in Seq(S)
    BY PieceFacts DEF Extents
  <2> HIDE DEF Writes
  <2>2. <<Call("BUFFER", NoRange)>> \o Writes \in Seq(S) /\ <<>> \o Writes \in Seq(S)
    BY <2>1
  <2> QED
    BY <2>2 DEF OnOpen, Writes
<1> QED
  BY <1>1 DEF Code, Extent

LEMMA CodeEntries ==
  ASSUME RTypeOK', NEW r \in Req, RequestedOf(r)', stage'[r] # "idle"
  PROVE  Code(r)' \in Seq(Entries)
<1>1. op'[r] = "WRITE" => Extent(opts'[r]) \in Extents
  BY DEF RequestedOf, Extent
<1>2. Extent(opts'[r]) \in [offset : Nat, length : Nat]
  BY DEF RTypeOK, Extent
<1> QED
  BY <1>1, <1>2, CodeIn DEF Call, Entries

\* While code has calls to make only the thread pool runs beside it.
LEMMA LoopQuiet ==
  ASSUME FileSound, Conducted, script # <<>>, NEW r \in Req, LoopStep(r)
  PROVE  Pool(r) /\ UNCHANGED <<vars, client, up>> /\ ~Entered
<1>1. Pool(r)
  <2>1. ~InMain
    BY LoopLive DEF InMain
  <2> QED
    BY <2>1, OnlyPool DEF Conducted, InCallback
<1>2. UNCHANGED <<vars, client, up>>
  BY <1>1, PoolServes
<1>3. Len(stack) \in Nat
  BY DEF FileSound, Ownership, TypeOK
<1> QED
  BY <1>1, <1>2, <1>3 DEF Entered, vars

LEMMA ConductedStep ==
  ASSUME FileSound, Program, Requested', [PNext]_pvars
  PROVE  Conducted'
<1>0. Conducted /\ Requested
  BY DEF Program
<1>1. CASE MainInit
  <2>1. script # <<>> /\ Head(script).call = "INIT" /\ script' = Tail(script)
    BY <1>1 DEF MainInit, Do, Upcoming
  <2>2. InMain /\ script = Main
    <3>1. ~InCallback
      BY <2>1, ScriptParts, EntryCalls DEF InCallback
    <3>2. InMain
      BY <1>0, <2>1, <3>1 DEF Conducted
    <3> QED
      BY <2>1, <3>2, MainCalls DEF InMain, Call
  <2>3. /\ calling' = "none" /\ stack' = <<>> /\ op' = op /\ status' = "INIT"
    BY <1>1, <2>2 DEF MainInit, RafInit, AraInit, Idle, client, InMain, requests
  <2> QED
    BY <2>1, <2>2, <2>3 DEF Conducted, InMain, Live
<1>2. ASSUME NEW t \in Types, CallBegins(t) PROVE Conducted'
  <2>1. /\ Upcoming(t) /\ script' = script /\ calling' = t /\ Live # Req
        /\ UNCHANGED <<status, op, stack>> /\ t \in OpTypes
    BY <1>2, RafAssumption DEF CallBegins, RafSet, AraSet, requests
  <2>2. InCallback \/ (InMain /\ script = Tail(Main) /\ status = "INIT")
    BY <1>0, <2>1, CallOf
  <2> QED
    BY <2>1, <2>2 DEF Conducted, InMain, InCallback, Top, Live, Upcoming
<1>3. ASSUME NEW t \in Types, CallMade(t) PROVE Conducted'
  <2>1. /\ Upcoming(t) /\ script' = Tail(script) /\ calling' = "none" /\ stack' = stack
        /\ t \in OpTypes
    BY <1>3, RafAssumption DEF CallMade, Do, RafAccepted, CallAccepted
  <2>2. script' # <<>> => InCallback /\ Tail(script) \in Seq(Entries)
    BY <1>0, <2>1, CallOf, MainCalls, ScriptParts DEF InCallback
  <2> QED
    BY <2>1, <2>2 DEF Conducted, InCallback, Top
<1>4. ASSUME NEW t \in Types, CallPanics(t) PROVE Conducted'
  <2>1. UNCHANGED <<script, calling, status, op, stack>>
    BY <1>4 DEF CallPanics, RafRefused, CallBadState, CallNoLoop, CallInitFails, AraThrow, Panic,
                client, requests
  <2> QED
    BY <1>0, <2>1 DEF Conducted, InMain, InCallback, Top, Live, Upcoming
<1>5. CASE OwnStep
  <2>1. /\ script # <<>> /\ script' = Tail(script) /\ calling' = "none" /\ stack' = stack
        /\ Head(script).call \in {"BUFFER", "KEEP", "PRINT"}
    BY <1>5, OwnSteps DEF vars, client
  <2>2. InCallback
    BY <1>0, <2>1, MainCalls DEF Conducted, InMain, Call
  <2> QED
    BY <2>1, <2>2, ScriptParts DEF Conducted, InCallback, Top
<1>6. CASE CallbackReturns
  BY <1>6 DEF CallbackReturns, RafReturn, Idle, client, Conducted
<1>7. ASSUME NEW r \in Req,
             Looping(RafDeliver(r) \/ Worker(r) \/ Pool(r) \/ Callback(r) \/ RafUvClose(r), r)
      PROVE  Conducted'
  <2>1. LoopStep(r) /\ script' = IF Entered THEN Code(r)' ELSE script
    BY <1>7 DEF Looping, LoopStep
  <2>2. CASE script # <<>>
    <3>1. UNCHANGED <<script, vars, client>>
      BY <1>0, <2>1, <2>2, LoopQuiet
    <3> QED
      BY <1>0, <3>1 DEF Conducted, InMain, InCallback, Top, Live, Upcoming, vars, client
  <2>3. CASE script = <<>>
    <3>1. calling = "none" /\ RNext /\ up
      BY <1>0, <2>1, <2>3, UpBefore DEF Conducted, Upcoming, RNext, LoopStep
    <3>2. calling' = "none"
      BY <2>1, <3>1, PoolServes
         DEF LoopStep, RafDeliver, Worker, WorkPanics, WorkSubmits, WorkEnds, WorkEndStalls,
             WorkEndReturns, Callback, OnFsOpen, OnFsPlain, Resume, OnFsRead, OnFsWrite, OnFsStat,
             OnFsFailure, FsFails, FsDone, Panic, RafUvClose, client, rafvars
    <3>3. CASE Entered
      <4>1. stage'[r] = "done" /\ stack' = <<[kind |-> "callback", req |-> r]>>
        BY <2>1, <3>1, <3>3, Completion
      <4>2. RTypeOK'
        BY <3>1, FileSoundStep DEF FileSound
      <4>3. script' \in Seq(Entries)
        BY <2>1, <3>3, <4>1, <4>2, CodeEntries DEF Requested
      <4>4. stack' # <<>> /\ Top'.kind = "callback"
        BY <4>1 DEF Top
      <4> QED
        BY <3>2, <4>3, <4>4 DEF Conducted, InCallback
    <3>4. CASE ~Entered
      BY <2>1, <2>3, <3>2, <3>4 DEF Conducted
    <3> QED
      BY <3>3, <3>4
  <2> QED
    BY <2>2, <2>3
<1>8. CASE UNCHANGED pvars
  BY <1>0, <1>8 DEF pvars, rvars, vars, rafvars, client, Conducted, InMain, InCallback, Top, Live,
                    Upcoming
<1> QED
  BY <1>1, <1>2, <1>3, <1>4, <1>5, <1>6, <1>7, <1>8 DEF PNext, Scripted, OwnStep

\* Code that runs in a callback finds the file open, for reading and writing.
LEMMA CallbackOpened ==
  ASSUME FileSound, Program, InCallback
  PROVE  status = "OPENED" /\ readable /\ writable /\ (\A r \in sent : op[r] # "CLOSE")
<1>1. Len(stack) \in DOMAIN stack /\ stack \in Seq(Frames)
  BY DEF InCallback, FileSound, Ownership, TypeOK
<1>2. Top.req \in Live /\ IsCallback(Len(stack))
  BY <1>1 DEF InCallback, Top, IsCallback, FileSound, Ownership, NoDanglingRequest
<1>3. status = Op[op[Top.req]].becomes
  BY <1>1, <1>2, RafAssumption DEF FileSound, Session, FrameStatus, Top
<1>4. op[Top.req] \in {"OPEN", "READ", "WRITE", "UNLINK"}
  BY <1>2 DEF Program, Requested, RequestedOf, Live
<1>5. status = "OPENED"
  BY <1>3, <1>4, OpTable DEF OpTypes
<1>6. fd
  BY <1>5 DEF FileSound, Program, OrderlyHandle, Opened
<1> QED
  BY <1>5, <1>6 DEF Program, BothModes, Requested, RequestedOf, FileSound, Ownership,
                    NoDanglingRequest, Live

LEMMA OrderlyKept ==
  ASSUME FileSound, Program, [PNext]_pvars
  PROVE  orderly'
<1>1. ASSUME NEW t \in Types, CallBegins(t) PROVE orderly'
  <2>1. Upcoming(t) /\ orderly' = (orderly /\ InOrder(t)) /\ t \in OpTypes
    BY <1>1, RafAssumption DEF CallBegins, RafSet
  <2>2. CASE t = "OPEN"
    BY <2>1, <2>2, CallOf DEF Program, InMain, InOrder
  <2>3. CASE t # "OPEN"
    <3>1. InCallback /\ t # "CLOSE"
      BY <2>1, <2>3, CallOf DEF Program
    <3> QED
      BY <2>1, <2>3, <3>1, CallbackOpened DEF Program, InOrder
  <2> QED
    BY <2>2, <2>3
<1>2. ASSUME NEW r \in Req, LoopStep(r) PROVE orderly'
  BY <1>2, PoolServes
     DEF Program, LoopStep, RafDeliver, Worker, WorkPanics, WorkSubmits, WorkEnds, WorkEndStalls,
         WorkEndReturns, Callback, OnFsOpen, OnFsPlain, Resume, OnFsRead, OnFsWrite, OnFsStat,
         OnFsFailure, FsFails, FsDone, Panic, RafUvClose, client, rafvars
<1>3. CASE OwnStep \/ CallbackReturns \/ MainInit
  BY <1>3, OwnSteps DEF Program, CallbackReturns, RafReturn, MainInit, RafInit, client
<1>4. ASSUME NEW t \in Types, CallMade(t) \/ CallPanics(t) PROVE orderly'
  BY <1>4 DEF Program, CallMade, RafAccepted, CallPanics, RafRefused, Panic, client
<1>5. CASE UNCHANGED pvars
  BY <1>5 DEF Program, pvars, rvars, rafvars, client
<1> QED
  BY <1>1, <1>2, <1>3, <1>4, <1>5 DEF PNext, Scripted, OwnStep, Looping, LoopStep

LEMMA ProgramInit == PInit => FileSound /\ Program /\ Answered
<1> SUFFICES ASSUME PInit PROVE FileSound /\ Program /\ Answered
  OBVIOUS
<1>1. RInit /\ Init /\ FileSound /\ script = Main /\ up
  BY FileSoundInit DEF PInit, RInit, Main
<1>2. InMain /\ calling = "none"
  BY <1>1 DEF InMain, RInit, Init, Live
<1>3. Requested /\ BothModes /\ orderly
  BY <1>1 DEF RInit, Init, Requested, RequestedOf, Live, BothModes
<1>4. Answered
  BY <1>1 DEF RInit, Answered, Explained
<1> QED
  BY <1>1, <1>2, <1>3, <1>4 DEF Program, Conducted

LEMMA ProgramStep == FileSound /\ Program /\ [PNext]_pvars => FileSound' /\ Program'
<1> SUFFICES ASSUME FileSound, Program, [PNext]_pvars PROVE FileSound' /\ Program'
  OBVIOUS
<1>1. FileSound'
  BY FileSteps, FileSoundStep, FileSoundFails DEF Program
<1>2. Requested'
  BY RequestedStep DEF Program
<1> QED
  BY <1>1, <1>2, BothModesStep, ConductedStep, OrderlyKept DEF Program

LEMMA ProgramInvariant == PSpec => [](FileSound /\ Program)
BY ProgramInit, ProgramStep, PTL DEF PSpec

\* The program makes every call in order: it is one of the orderly clients
\* OrderlyRunsClean is about.
THEOREM ProgramIsOrderly == PSpec => []orderly
BY ProgramInvariant, PTL DEF Program

-----------------------------------------------------------------------------
(***************************************************************************)
(* What stops the program.                                                 *)
(***************************************************************************)
LEMMA ProgramUp == ASSUME PNext PROVE up
<1>1. ASSUME NEW r \in Req, LoopStep(r) PROVE up
  BY <1>1, UpBefore DEF RNext, LoopStep
<1> QED
  BY <1>1, OwnSteps
     DEF PNext, Scripted, MainInit, RafInit, CallBegins, RafSet, CallMade, RafAccepted, CallPanics,
         RafRefused, OwnStep, CallbackReturns, RafReturn, Idle, Looping, LoopStep

\* What is set once, or by the print alone.
LEMMA OnceSet == ASSUME [PNext]_pvars PROVE began' = began /\ unlink' = unlink
BY DEF PNext, Scripted, MainInit, CallBegins, CallMade, CallPanics, BufferMade, Kept, Printed,
       NotPrinted, CallbackReturns, Looping, Elsewhere, pvars

LEMMA AnsweredStep == FileSound /\ Program /\ Answered /\ [PNext]_pvars => Answered'
<1> SUFFICES ASSUME FileSound, Program, Answered, [PNext]_pvars, NoWrap
             PROVE  (\A r \in Req : Explained(r)') /\ (~up' => Blamed' \/ spilled')
  BY DEF Answered, NoWrap
<1>1. CASE BufferFails
  BY <1>1 DEF BufferFails, Answered, Explained, Left, vars, transfers
<1>2. CASE RNext
  BY <1>2, AnswersStep, PanicsAreBlamed DEF Answered, FileSound, Program
<1>3. CASE UNCHANGED rvars
  <2>1. \A r \in Req : Explained(r)'
    BY <1>3 DEF Answered, Explained, Left, rvars, vars, rafvars, transfers
  <2>2. CASE PNext
    BY <1>3, <2>1, <2>2, ProgramUp DEF rvars, rafvars
  <2>3. CASE UNCHANGED pvars
    BY <1>3, <2>1, <2>3 DEF pvars, memory, Answered, Blamed, BlamedOn, Left, rvars, vars, rafvars,
                            transfers
  <2> QED
    BY <2>2, <2>3
<1> QED
  BY <1>1, <1>2, <1>3, FileSteps DEF Program

LEMMA AnsweredInvariant == PSpec => []Answered
BY ProgramInvariant, ProgramInit, AnsweredStep, PTL DEF PSpec

-----------------------------------------------------------------------------
(***************************************************************************)
(* A file that has room for the text keeps its size, and raf->size is that *)
(* size whenever the session is open.                                      *)
(***************************************************************************)
Sized ==
  /\ fileSize = began
  /\ status = "OPENED" => size = began
  /\ \A r \in Req : stage[r] = "statted" => result[r] \in {began, Failed}

LEMMA ExtentEnds == \A e \in Extents : End(e) <= Total
BY PieceFacts DEF Extents, Extent, End

LEMMA SizedKept ==
  ASSUME Sized, began' = began, fileSize' = fileSize,
         status' = "OPENED" => status = "OPENED" /\ size' = size,
         \A q \in Req : stage'[q] = "statted" => stage[q] = "statted" /\ result'[q] = result[q]
  PROVE  Sized'
BY DEF Sized

LEMMA SizedPool ==
  ASSUME FileSound, Program, Roomy, NoWrap, Sized, began' = began, NEW r \in Req, Pool(r)
  PROVE  Sized'
<1> USE ConstantFacts
<1>1. /\ UNCHANGED <<status, size>>
      /\ \/ stage[r] = "queued" /\ stage'[r] = "served"
         \/ stage[r] = "statting" /\ stage'[r] = "statted"
      /\ \A q \in Req \ {r} : stage'[q] = stage[q] /\ result'[q] = result[q]
  BY PoolServes, PoolResult DEF vars, handle, FileSound, RTypeOK
<1>2. CASE ServeWrite(r)
  <2>1. PICK n \in Count(r, "WRITE", view[r].left) : 
          /\ Serve(r, "WRITE", n)
          /\ fileSize' = IF n > 0 /\ view[r].at + n > fileSize THEN view[r].at + n ELSE fileSize
    BY <1>2 DEF ServeWrite
  <2>2. op[r] = "WRITE" /\ stage[r] = "queued" /\ stage'[r] = "served"
    BY <2>1 DEF Serve, FileSound, RTypeOK
  <2>3. view[r].at = opts[r].offset + view[r].base /\ view[r].base + view[r].left = opts[r].length
    BY <2>2 DEF FileSound, Progressing, Progress, InFlight
  <2>4. opts[r].offset + opts[r].length <= began
    <3>1. Extent(opts[r]) \in Extents
      BY <2>2 DEF Program, Requested, RequestedOf
    <3>2. End(Extent(opts[r])) <= Total
      BY <3>1, ExtentEnds
    <3> QED
      BY <3>2, PieceFacts DEF End, Extent, Roomy, Sized, FileSound, RTypeOK
  <2>5. /\ view[r] \in [base : Nat, left : Nat, at : Nat]
        /\ opts[r] \in [offset : Nat, length : Nat, flags : Flags]
        /\ began \in Nat /\ fileSize = began
    BY DEF FileSound, RTypeOK, Sized
  <2>6. n \in Nat \union {Failed} /\ n <= view[r].left
    BY <2>1, <2>5, CountType DEF FileSound
  <2>7. fileSize' = fileSize
    BY <2>1, <2>3, <2>4, <2>5, <2>6
  <2> QED
    BY <1>1, <2>2, <2>7 DEF Sized
<1>3. CASE ServeStat(r)
  <2>1. fileSize' = fileSize /\ result'[r] \in {fileSize, Failed}
    BY <1>3 DEF ServeStat, file, FileSound, RTypeOK
  <2> QED
    BY <1>1, <2>1 DEF Sized
<1>4. CASE ~ServeWrite(r) /\ ~ServeStat(r)
  <2>1. fileSize' = fileSize /\ stage'[r] = "served"
    BY <1>4 DEF Pool, ServeOpen, ServeClose, ServeUnlink, ServeRead, Serve, file, FileSound, RTypeOK
  <2> QED
    BY <1>1, <2>1, SizedKept
<1> QED
  BY <1>2, <1>3, <1>4

LEMMA SizedLoop ==
  ASSUME FileSound, Program, Roomy, NoWrap, Sized, began' = began, up, NEW r \in Req, LoopStep(r)
  PROVE  Sized'
<1>0. Ownership /\ OrderlySession /\ orderly /\ RTypeOK
  BY DEF FileSound, Program
<1>1. CASE RafDeliver(r)
  <2>1. /\ BeginWork(r) /\ op[r] \in OpTypes
        /\ UNCHANGED <<fileSize, size, stage, result>>
    BY <1>0, <1>1, OrderlyDelivery DEF RafDeliver, rafvars, file, handle, transfers
  <2>2. status \in Op[op[r]].starts /\ status' = Op[op[r]].during
    BY <2>1 DEF BeginWork
  <2>3. status' = "OPENED" => status = "OPENED"
    <3>1. CASE op[r] \in {"OPEN", "CLOSE"}
      BY <2>1, <2>2, <3>1, OpTable
    <3>2. CASE op[r] \notin {"OPEN", "CLOSE"}
      BY <2>1, <2>2, <3>2, OpTable
    <3> QED
      BY <3>1, <3>2
  <2> QED
    BY <2>1, <2>3, SizedKept
<1>2. CASE Worker(r)
  <2>1. op[r] # "END"
    BY LoopLive DEF Program, Requested, RequestedOf
  <2>2. /\ UNCHANGED <<fileSize, size, result, status>>
        /\ stage' = stage \/ stage' = [stage EXCEPT ![r] = "queued"]
    BY <1>2, <2>1
       DEF Worker, WorkPanics, WorkSubmits, WorkEnds, WorkEndStalls, WorkEndReturns, Starts,
           ReturnWork, Panic, session, vars, rafvars, file, handle, transfers
  <2> QED
    BY <1>0, <2>2, SizedKept DEF RTypeOK
<1>3. CASE Pool(r)
  BY <1>3, SizedPool
<1>4. ASSUME WorkDone(r)
      PROVE  status' = "OPENED" => status = "OPENED" \/ op[r] = "OPEN"
  <2>1. /\ op[r] \in OpTypes /\ status = Op[op[r]].expects /\ status' = Op[op[r]].becomes
    BY <1>0, <1>4, OrderlyCompletion
  <2> QED
    BY <2>1, OpTable
<1>5. CASE OnFsStat(r)
  <2>1. /\ stage[r] = "statted" /\ result[r] # Failed /\ size' = result[r] % Wrap
        /\ fileSize' = fileSize /\ result' = result /\ stage' = [stage EXCEPT ![r] = "done"]
    BY <1>5, ConstantFacts DEF OnFsStat, Returned, FsDone, file
  <2>2. result[r] = began /\ began \in Nat /\ began < Wrap
    BY <1>0, <2>1 DEF Sized, RTypeOK, FileSound, InFile
  <2>3. size' = began
    BY <2>1, <2>2, SmallMod, ConstantFacts
  <2> QED
    BY <1>0, <2>1, <2>3 DEF Sized, RTypeOK
<1>6. CASE Callback(r) /\ ~OnFsStat(r)
  <2>1. CASE FsDone(r) /\ op[r] # "OPEN" /\ UNCHANGED handle
    <3>1. /\ UNCHANGED <<fileSize, size, result>> /\ stage' = [stage EXCEPT ![r] = "done"]
          /\ WorkDone(r)
      BY <1>6, <2>1, DoneIsOwed DEF FsDone, file, handle, FileSound
    <3> QED
      BY <1>0, <1>4, <2>1, <3>1, SizedKept DEF RTypeOK
  <2>2. CASE /\ UNCHANGED <<fileSize, size, result, status>>
             /\ \/ stage' = stage
                \/ \E s \in {"queued", "statting"} : stage' = [stage EXCEPT ![r] = s]
    BY <1>0, <2>2, SizedKept DEF RTypeOK
  <2> QED
    BY <1>6, <2>1, <2>2
       DEF Callback, OnFsOpen, OnFsPlain, Resume, OnFsRead, OnFsWrite, OnFsFailure, FsFails, Panic,
           Returned, vars, file, handle, transfers
<1>7. CASE RafUvClose(r)
  BY <1>0, <1>7, SizedKept DEF RafUvClose, OnUvClose, Forget, session, file, handle, RTypeOK
<1> QED
  BY <1>1, <1>2, <1>3, <1>5, <1>6, <1>7 DEF LoopStep

LEMMA SizedStep ==
  ASSUME FileSound, Program, Roomy, NoWrap, Sized, [PNext]_pvars
  PROVE  Sized'
<1>1. began' = began
  BY OnceSet
<1>2. CASE MainInit
  BY <1>1, <1>2, SizedKept DEF MainInit, RafInit, AraInit, file, transfers
<1>3. CASE UNCHANGED <<status, size, fileSize, stage, result>>
  BY <1>1, <1>3, SizedKept
<1>4. ASSUME NEW t \in Types, CallBegins(t) \/ CallPanics(t) PROVE Sized'
  BY <1>3, <1>4 DEF CallBegins, RafSet, AraSet, CallPanics, RafRefused, CallBadState, CallNoLoop,
                    CallInitFails, AraThrow, Panic, handle, file, transfers
<1>5. ASSUME NEW t \in Types, CallMade(t) PROVE Sized'
  <2>1. /\ UNCHANGED <<status, size, fileSize, result>>
        /\ \E r : stage' = [stage EXCEPT ![r] = "asked"]
    BY <1>5 DEF CallMade, RafAccepted, CallAccepted, session, handle, file
  <2> QED
    BY <1>1, <2>1, SizedKept DEF FileSound, RTypeOK
<1>6. CASE OwnStep \/ UNCHANGED pvars
  BY <1>3, <1>6, OwnSteps DEF pvars, rvars, rafvars, vars, handle, file, transfers
<1>7. CASE CallbackReturns
  BY <1>1, <1>7, SizedKept DEF CallbackReturns, RafReturn, ReturnCallback, Forget, session, handle,
                               file, FileSound, RTypeOK
<1>8. ASSUME NEW r \in Req, LoopStep(r) PROVE Sized'
  <2>1. up
    BY <1>8, UpBefore DEF RNext, LoopStep
  <2> QED
    BY <1>1, <1>8, <2>1, SizedLoop
<1> QED
  BY <1>2, <1>4, <1>5, <1>6, <1>7, <1>8 DEF PNext, Scripted, OwnStep, Looping, LoopStep

-----------------------------------------------------------------------------
(***************************************************************************)
(* The program's buffer.  Once it has been made for a file with room for   *)
(* the text it is as long as the file, and never grows.                    *)
(***************************************************************************)
Ready ==
  /\ {"base", "length", "written"} \subseteq DOMAIN buffer
  /\ buffer.base # "NULL" /\ buffer.base \in DOMAIN heap
  /\ buffer.length = began
  /\ DOMAIN heap[buffer.base] = 0..(began - 1)

LEMMA OwnConstants == Own!Null = "NULL" /\ \A n : Own!Span(n) = 0..(n - 1)
BY DEF Own!Null, Own!Span

\* What ara_buffer_init() leaves when malloc() succeeds, as it does here.
LEMMA InitMakes ==
  ASSUME NEW b, NEW h, NEW n \in Nat \ {0}, NEW outcome \in Own!Inits(b, h, n)
  PROVE  \E id \in Regions \ DOMAIN h :
           outcome = [buffer |-> [base |-> id, length |-> n, view |-> [base |-> id, len |-> n],
                                  mut |-> b.mut, written |-> 0],
                      heap |-> Own!Allot(h, id, [i \in 0..(n - 1) |-> "zero"]),
                      spilled |-> spilled, ok |-> TRUE]
<1>1. PICK m \in Own!Mallocs(h, n, "zero") :
        outcome = Own!Outcome([base |-> m.base, length |-> n, view |-> [base |-> m.base, len |-> n],
                               mut |-> b.mut, written |-> 0], m.heap, spilled, TRUE)
  BY DEF Own!Inits
<1>2. PICK id \in Regions \ DOMAIN h :
        m = [base |-> id, heap |-> Own!Allot(h, id, [i \in Own!Span(n) |-> "zero"])]
  BY <1>1 DEF Own!Mallocs
<1>3. m.base = id /\ m.heap = Own!Allot(h, id, [i \in 0..(n - 1) |-> "zero"])
  BY <1>2, OwnConstants
<1> QED
  BY <1>1, <1>2, <1>3 DEF Own!Outcome

LEMMA BufferMadeReady ==
  ASSUME BufferMade, size = began, began \in Nat \ {0}
  PROVE  Ready' /\ spilled' = spilled
<1>1. PICK outcome \in Own!Inits(buffer, heap, size) :
        buffer' = outcome.buffer /\ heap' = outcome.heap /\ spilled' = outcome.spilled
  BY Zenon DEF BufferMade, Own!BufferInit, Own!Leaves
<1>2. PICK id \in Regions \ DOMAIN heap :
        outcome = [buffer |-> [base |-> id, length |-> size, view |-> [base |-> id, len |-> size],
                               mut |-> buffer.mut, written |-> 0],
                   heap |-> Own!Allot(heap, id, [i \in 0..(size - 1) |-> "zero"]),
                   spilled |-> spilled, ok |-> TRUE]
  BY <1>1, InitMakes
<1>3. /\ buffer' = [base |-> id, length |-> size, view |-> [base |-> id, len |-> size],
                    mut |-> buffer.mut, written |-> 0]
      /\ heap' = Own!Allot(heap, id, [i \in 0..(size - 1) |-> "zero"])
      /\ spilled' = spilled
  BY <1>1, <1>2
<1>4. heap'[id] = [i \in 0..(size - 1) |-> "zero"] /\ id \in DOMAIN heap'
  BY <1>3 DEF Own!Allot
<1>5. began' = began
  BY DEF BufferMade, Elsewhere
<1> QED
  BY <1>2, <1>3, <1>4, <1>5, ProgramAssumption DEF Ready

\* A range inside the buffer is written, or read, where it is.
LEMMA KeptReady ==
  ASSUME Ready, Kept, began \in Nat, Head(script).range \in [offset : Nat, length : Nat],
         End(Head(script).range) <= began
  PROVE  /\ Ready' /\ (spilled' => spilled) /\ up' = up
         /\ buffer' = [buffer EXCEPT !.written = Own!Counted(buffer, Head(script).range.length)]
         /\ heap' = Own!Copied(heap, buffer.base, Head(script).range, Stored(Head(script).range))
<1> DEFINE range == Head(script).range
           value == Stored(range)
           same == Own!Outcome(buffer, heap, spilled, TRUE)
<1>0. range.offset \in Nat /\ range.length \in Nat /\ range.offset + range.length <= began
  BY DEF End
<1>1. Own!BufferWrite(range, value) \/ Own!BufferWriteDies(range)
  BY DEF Kept
<1> HIDE DEF value
<1>2. Own!Prepared(range) = {same}
  BY OwnConstants DEF Ready, Own!Prepared, Own!Unchanged
<1>3. /\ same.buffer = buffer /\ same.heap = heap /\ same.spilled = spilled /\ same.ok = TRUE
  BY DEF Own!Outcome
<1>4. Own!Sized(same, range) = {same}
  <2>1. ~(range.offset > began)
    BY <1>0
  <2>2. ~Own!TooShort(buffer, range)
    BY <2>1 DEF Ready, Own!TooShort
  <2> QED
    BY <1>3, <2>2 DEF Own!Sized
<1>5. Own!Inside(buffer, heap, range)
  BY <1>0 DEF Ready, Own!Inside
<1>6. buffer.base # Own!Null
  BY OwnConstants DEF Ready
<1> HIDE DEF same, range
<1>7. ~Own!BufferWriteDies(range)
  BY <1>2, <1>3, <1>4, <1>5 DEF Own!BufferWriteDies
<1>8. /\ heap' = Own!Copied(heap, buffer.base, range, value)
      /\ buffer' = [buffer EXCEPT !.written = Own!Counted(buffer, range.length)]
      /\ spilled' = (spilled \/ ~Own!Inside(buffer, heap, range))
      /\ up' = up
  BY <1>1, <1>2, <1>3, <1>4, <1>7 DEF Own!BufferWrite
<1>9. spilled' => spilled
  BY <1>5, <1>8
<1>10. Ready'
  <2>1. /\ DOMAIN heap' = DOMAIN heap
        /\ DOMAIN heap'[buffer.base] = DOMAIN heap[buffer.base]
    BY <1>8 DEF Ready, Own!Copied
  <2>2. /\ DOMAIN buffer' = DOMAIN buffer
        /\ buffer'.base = buffer.base /\ buffer'.length = buffer.length
    BY <1>8 DEF Ready
  <2>3. began' = began
    BY DEF Kept, Elsewhere
  <2> QED
    BY <2>1, <2>2, <2>3 DEF Ready
<1> QED
  BY <1>8, <1>9, <1>10 DEF range, value

LEMMA PrintedReady ==
  ASSUME Ready, Printed, size = began, began \in Nat \ {0}
  PROVE  /\ Ready' /\ (spilled' => spilled) /\ up' = up
         /\ UNCHANGED <<buffer, heap>>
         /\ printed' = Append(printed, [i \in 0..(began - 1) |-> heap[buffer.base][i]])
<1> DEFINE whole == [offset |-> 0, length |-> size]
<1>1. \/ Own!BufferRead(whole) /\ printed' = Append(printed, answer'.out)
      \/ Own!BufferReadDies(whole)
  BY DEF Printed
<1>2. ~Own!Refused(whole)
  BY OwnConstants DEF Ready, Own!Refused
<1>3. Own!Inside(buffer, heap, whole)
  BY DEF Ready, Own!Inside
<1>4. /\ Own!BufferRead(whole) /\ printed' = Append(printed, answer'.out)
  BY <1>1, <1>3 DEF Own!BufferReadDies
<1>5. /\ UNCHANGED <<buffer, heap, up>> /\ spilled' = (spilled \/ ~Own!Inside(buffer, heap, whole))
      /\ answer' = [count |-> size,
                    out |-> [i \in Own!Span(size) |-> Own!Byte(heap[buffer.base], i, whole)]]
  BY <1>2, <1>3, <1>4 DEF Own!BufferRead
<1>6. spilled' => spilled
  BY <1>3, <1>5
<1>7. \A i \in 0..(began - 1) : Own!Byte(heap[buffer.base], i, whole) = heap[buffer.base][i]
  BY DEF Ready, Own!Byte
<1>8. answer'.out = [i \in 0..(began - 1) |-> heap[buffer.base][i]]
  BY <1>5, <1>7, OwnConstants
<1>9. began' = began
  BY DEF Printed
<1> QED
  BY <1>4, <1>5, <1>6, <1>8, <1>9 DEF Ready

Fitting == {c \in Entries : c.call = "KEEP" => End(c.range) <= began}

(***************************************************************************)
(* Until the buffer is made nothing has been written or read, and the code *)
(* that runs makes it before it does anything else, or unlinks the file.   *)
(***************************************************************************)
Unmade ==
  /\ \A r \in Live : op[r] \notin {"READ", "WRITE"}
  /\ InCallback /\ script # <<>> =>
       Head(script).call = "BUFFER" \/ script = <<Call("UNLINK", NoRange)>>

Buffered ==
  /\ ~spilled
  /\ InCallback => script \in Seq(Fitting)
  /\ Ready \/ Unmade

LEMMA BufferedKept ==
  ASSUME Buffered, began' = began, UNCHANGED <<spilled, buffer, heap>>,
         \/ script' = <<>>
         \/ InCallback' => InCallback /\ script' = script,
         \A q \in Req : op'[q] \in {op[q], "OPEN", "UNLINK", "UNKNOWN"}
  PROVE  Buffered'
<1>1. Ready => Ready'
  BY DEF Ready
<1>2. InCallback' => script' \in Seq(Fitting')
  <2>1. Fitting' = Fitting
    BY DEF Fitting
  <2>2. CASE script' = <<>>
    <3>1. \A S : <<>> \in Seq(S)
      OBVIOUS
    <3> QED
      BY <2>2, <3>1
  <2>3. CASE script' # <<>>
    BY <2>1, <2>3, Zenon DEF Buffered
  <2> QED
    BY <2>2, <2>3
<1>3. Unmade => Unmade'
  BY DEF Unmade, Live
<1> QED
  BY <1>1, <1>2, <1>3 DEF Buffered

\* The code that runs does what the script says, and knows the size of the file.
LEMMA RunningCode ==
  ASSUME FileSound, Program, Roomy, NoWrap, Sized, script # <<>>,
         Head(script).call \notin {"INIT", "OPEN"}
  PROVE  InCallback /\ size = began /\ began \in Nat \ {0}
<1>1. InCallback
  BY MainCalls DEF Program, Conducted, InMain, Call
<1>2. began \in Nat \ {0}
  BY PieceFacts DEF Roomy, Sized, FileSound, RTypeOK
<1> QED
  BY <1>1, <1>2, CallbackOpened DEF Sized

LEMMA BufferedOwn ==
  ASSUME FileSound, Program, Roomy, NoWrap, Sized, Buffered, OwnStep
  PROVE  Buffered' /\ up' = up
<1>0. /\ UNCHANGED <<op, stack, began>> /\ script # <<>> /\ script' = Tail(script)
      /\ Head(script).call \in {"BUFFER", "KEEP", "PRINT"}
  BY OwnSteps DEF vars
<1>1. InCallback /\ size = began /\ began \in Nat \ {0}
  BY <1>0, RunningCode
<1>2. Head(script) \in Fitting /\ Tail(script) \in Seq(Fitting)
  BY <1>0, <1>1, ScriptParts DEF Buffered
<1>3. script' \in Seq(Fitting')
  BY <1>0, <1>2 DEF Fitting
<1>4. CASE BufferMade
  <2>1. Ready' /\ spilled' = spilled
    BY <1>1, <1>4, BufferMadeReady
  <2>2. up' = up
    BY <1>4, Zenon DEF BufferMade, Own!BufferInit, Own!Leaves
  <2> QED
    BY <1>3, <2>1, <2>2 DEF Buffered
<1>5. CASE ~BufferMade
  <2>1. Head(script).call \in {"KEEP", "PRINT"}
    BY <1>5 DEF OwnStep, Kept, Printed, NotPrinted, Do, Upcoming
  <2>2. Ready
    BY <1>0, <1>1, <2>1 DEF Buffered, Unmade, Call
  <2>3. CASE Kept
    <3>1. Head(script).call = "KEEP"
      BY <2>3 DEF Kept, Do, Upcoming
    <3>2. Head(script).range \in [offset : Nat, length : Nat] /\ End(Head(script).range) <= began
      BY <1>2, <3>1, EntryCalls DEF Fitting
    <3> QED
      BY <1>1, <1>3, <2>2, <2>3, <3>2, KeptReady DEF Buffered
  <2>4. CASE Printed
    BY <1>1, <1>3, <2>2, <2>4, PrintedReady DEF Buffered
  <2>5. CASE NotPrinted
    BY <1>0, <1>3, <2>2, <2>5 DEF NotPrinted, memory, rvars, rafvars, Buffered, Ready
  <2> QED
    BY <1>5, <2>3, <2>4, <2>5 DEF OwnStep
<1> QED
  BY <1>4, <1>5

LEMMA BufferedMade ==
  ASSUME FileSound, Program, Buffered, NEW t \in Types, CallMade(t)
  PROVE  Buffered'
<1> DEFINE free == CHOOSE r \in Req : r \notin Live
<1>1. /\ Upcoming(t) /\ script' = Tail(script) /\ UNCHANGED <<memory, stack, began>>
      /\ t \in OpTypes
      /\ op' = [op EXCEPT ![free] = t]
  BY RafAssumption DEF CallMade, Do, RafAccepted, CallAccepted, Elsewhere
<1>2. UNCHANGED <<spilled, buffer, heap>> /\ op \in [Req -> WorkTypes]
  BY <1>1 DEF memory, FileSound, Ownership, TypeOK
<1>3. \A q \in Req : op'[q] \in {op[q], t}
  BY <1>1, <1>2
<1>4. CASE t = "OPEN"
  <2>1. script' = <<>>
    BY <1>1, <1>4, CallOf, MainCalls DEF Program
  <2> QED
    BY <1>1, <1>2, <1>3, <1>4, <2>1, BufferedKept
<1>5. CASE t # "OPEN"
  <2>1. InCallback /\ script # <<>> /\ Head(script).call = t /\ t \in {"READ", "WRITE", "UNLINK"}
    BY <1>1, <1>5, CallOf DEF Program
  <2>2. Tail(script) \in Seq(Fitting)
    BY <2>1, ScriptParts DEF Buffered
  <2>3. CASE Ready
    BY <1>1, <1>2, <2>2, <2>3 DEF Buffered, Ready, Fitting
  <2>4. CASE Unmade
    <3>1. script = <<Call("UNLINK", NoRange)>>
      BY <2>1, <2>4 DEF Unmade
    <3>2. script' = <<>> /\ t = "UNLINK"
      BY <1>1, <2>1, <3>1 DEF Call
    <3> QED
      BY <1>1, <1>2, <1>3, <3>2, BufferedKept
  <2> QED
    BY <2>3, <2>4 DEF Buffered
<1> QED
  BY <1>4, <1>5

LEMMA BufferedLoop ==
  ASSUME FileSound, Program, RTypeOK', Requested', Roomy, NoWrap, Sized, Sized', Buffered,
         began' = began, up, NEW r \in Req, Looping(LoopStep(r), r)
  PROVE  Buffered'
<1>0. /\ LoopStep(r) /\ UNCHANGED <<spilled, buffer, heap>>
      /\ script' = IF Entered THEN Code(r)' ELSE script
  BY DEF Looping, memory
<1>1. CASE script # <<>>
  <2>1. UNCHANGED <<script, vars>>
    BY <1>0, <1>1, LoopQuiet DEF Program
  <2> QED
    BY <1>0, <2>1, BufferedKept DEF vars, InCallback, Top
<1>2. CASE script = <<>> /\ ~Entered
  <2>1. \A q \in Req : op'[q] \in {op[q], "UNKNOWN"}
    BY <1>0, LoopRequests DEF SameRequests
  <2> QED
    BY <1>0, <1>2, <2>1, BufferedKept
<1>3. CASE Entered
  <2>1. /\ r \in held /\ op' = op /\ opts' = opts /\ stage'[r] = "done" /\ stage[r] # "idle"
        /\ status' = Op[op[r]].becomes
    BY <1>0, <1>3, Completion
  <2>2. r \in Live /\ op[r] \in {"OPEN", "READ", "WRITE", "UNLINK"}
    BY <2>1 DEF FileSound, Ownership, NoDanglingRequest, Program, Requested, RequestedOf
  <2>3. script' \in Seq(Fitting')
    <3>1. Extent(opts'[r]) \in [offset : Nat, length : Nat]
      BY DEF RTypeOK, Extent
    <3>2. op'[r] = "READ" => End(Extent(opts'[r])) <= began
      BY <2>1 DEF FileSound, InFile, Within, Sized, End, Extent
    <3>3. op'[r] = "WRITE" => Extent(opts'[r]) \in Extents
      BY <2>1 DEF Program, Requested, RequestedOf, Extent
    <3>4. Code(r)' \in Seq(Fitting)
      BY <3>1, <3>2, <3>3, CodeIn DEF Call, Entries, Fitting
    <3> QED
      BY <1>0, <1>3, <3>4 DEF Fitting
  <2>4. Ready => Ready'
    BY <1>0 DEF Ready
  <2>5. ASSUME Unmade PROVE Unmade'
    <3>1. \A q \in Live' : op'[q] \notin {"READ", "WRITE"}
      BY <2>1, <2>5 DEF Unmade, Live
    <3>2. op[r] \in {"OPEN", "UNLINK"}
      BY <2>2, <2>5 DEF Unmade
    <3>3. CASE op[r] = "UNLINK"
      BY <1>0, <1>3, <2>1, <3>1, <3>3 DEF Code, Unmade
    <3>4. CASE op[r] = "OPEN"
      <4>1. size' > 0
        BY <2>1, <3>4, OpTable, PieceFacts DEF Sized, Roomy, OpTypes, FileSound, RTypeOK
      <4>2. script' = OnOpen'
        BY <1>0, <1>3, <2>1, <3>4 DEF Code
      <4> DEFINE Writes == [i \in DOMAIN Pieces |-> Call("WRITE", Extent(Pieces[i]))]
      <4>3. Writes \in Seq({Call("WRITE", e) : e \in Extents})
        BY PieceFacts DEF Extents
      <4> HIDE DEF Writes
      <4>4. Head(<<Call("BUFFER", NoRange)>> \o Writes) = Call("BUFFER", NoRange)
        BY <4>3
      <4>5. \/ script' = <<>>
            \/ script' = <<Call("UNLINK", NoRange)>>
            \/ script' = <<Call("BUFFER", NoRange)>> \o Writes
        BY <4>1, <4>2 DEF OnOpen, Writes
      <4> QED
        BY <3>1, <4>4, <4>5 DEF Unmade, Call
    <3> QED
      BY <3>2, <3>3, <3>4
  <2> QED
    BY <1>0, <2>3, <2>4, <2>5 DEF Buffered
<1> QED
  BY <1>1, <1>2, <1>3

LEMMA BufferedStep ==
  ASSUME FileSound, Program, FileSound', Program', Roomy, NoWrap, Sized, Sized', Buffered,
         [PNext]_pvars
  PROVE  Buffered'
<1>0. began' = began /\ RTypeOK' /\ Requested'
  BY OnceSet DEF FileSound, Program
<1>1. CASE MainInit
  <2>1. stack' = <<>> /\ op' = op /\ UNCHANGED <<spilled, buffer, heap>>
    BY <1>1 DEF MainInit, RafInit, AraInit, requests, memory
  <2> QED
    BY <1>0, <2>1, BufferedKept DEF InCallback
<1>2. CASE UNCHANGED <<script, op, stack, memory>>
  BY <1>0, <1>2, BufferedKept DEF memory, InCallback, Top
<1>3. ASSUME NEW t \in Types, CallBegins(t) \/ CallPanics(t) PROVE Buffered'
  BY <1>2, <1>3 DEF CallBegins, RafSet, AraSet, CallPanics, RafRefused, CallBadState, CallNoLoop,
                    CallInitFails, AraThrow, requests
<1>4. CASE CallbackReturns
  BY <1>0, <1>4, BufferedKept DEF CallbackReturns, RafReturn, ReturnCallback, ReqEnd, memory
<1>5. ASSUME NEW r \in Req,
             Looping(RafDeliver(r) \/ Worker(r) \/ Pool(r) \/ Callback(r) \/ RafUvClose(r), r)
      PROVE  Buffered'
  <2>1. Looping(LoopStep(r), r)
    BY <1>5 DEF Looping, LoopStep
  <2>2. up
    BY <2>1, UpBefore DEF Looping, RNext, LoopStep
  <2> QED
    BY <1>0, <2>1, <2>2, BufferedLoop
<1>6. CASE UNCHANGED pvars
  BY <1>2, <1>6 DEF pvars, rvars, vars
<1> QED
  BY <1>1, <1>3, <1>4, <1>5, <1>6, BufferedMade, BufferedOwn DEF PNext, Scripted, OwnStep

SpaciousFile == Roomy /\ NoWrap => Sized /\ Buffered

LEMMA SpaciousInit == PInit => SpaciousFile
<1> SUFFICES ASSUME PInit PROVE Sized /\ Buffered
  BY DEF SpaciousFile
<1>1. RInit /\ Init /\ fileSize = began /\ ~spilled
  BY DEF PInit, RInit, Own!BInit
<1>2. stack = <<>> /\ Live = {} /\ status = "UNKNOWN" /\ \A r \in Req : stage[r] = "idle"
  BY <1>1 DEF RInit, Init, Live
<1> QED
  BY <1>1, <1>2 DEF Sized, Buffered, Unmade, InCallback

LEMMA SpaciousStep ==
  /\ FileSound /\ Program /\ FileSound' /\ Program'
  /\ SpaciousFile /\ [PNext]_pvars
  => SpaciousFile'
<1> SUFFICES ASSUME FileSound, Program, FileSound', Program', SpaciousFile, [PNext]_pvars,
                    Roomy', NoWrap'
             PROVE  Sized' /\ Buffered'
  BY DEF SpaciousFile
<1>1. Roomy /\ NoWrap
  BY OnceSet DEF Roomy, NoWrap
<1>2. Sized /\ Buffered
  BY <1>1 DEF SpaciousFile
<1>3. Sized'
  BY <1>1, <1>2, SizedStep
<1> QED
  BY <1>1, <1>2, <1>3, BufferedStep

LEMMA SpaciousInvariant == PSpec => []SpaciousFile
BY ProgramInvariant, SpaciousInit, SpaciousStep, PTL DEF PSpec

\* The program runs to its end on a file with room for its text (MainRuns): it
\* never overruns its buffer, and stops for a failure of the system only.
THEOREM ProgramRuns == PSpec => []MainRuns
<1>1. Answered /\ SpaciousFile => MainRuns
  BY DEF Answered, SpaciousFile, Buffered, MainRuns
<1> QED
  BY <1>1, AnsweredInvariant, SpaciousInvariant, PTL

\* On such a file the program is a client as RandomAccessFile describes them,
\* and whatever is proved of the file holds of its file.
THEOREM ProgramUsesFile == Roomy /\ NoWrap /\ PSpec => RSpec
<1>1. PInit => RInit
  BY DEF PInit
<1>2. FileSound /\ Program /\ SpaciousFile /\ Roomy /\ NoWrap /\ [PNext]_pvars => [RNext]_rvars
  <2> SUFFICES ASSUME FileSound, Program, SpaciousFile, Roomy, NoWrap, [PNext]_pvars
               PROVE  [RNext]_rvars
    OBVIOUS
  <2>1. [RNext]_rvars \/ BufferFails
    BY FileSteps DEF Program
  <2>2. CASE OwnStep
    <3>1. up' = up
      BY <2>2, BufferedOwn DEF SpaciousFile
    <3> QED
      BY <2>1, <3>1 DEF BufferFails
  <2>3. CASE ~OwnStep
    <3>1. spilled' = spilled
      BY <2>3
         DEF PNext, Scripted, OwnStep, MainInit, CallBegins, CallMade, CallPanics, CallbackReturns,
             Looping, pvars, memory
    <3>2. ~spilled
      BY DEF SpaciousFile, Buffered
    <3> QED
      BY <2>1, <3>1, <3>2 DEF BufferFails
  <2> QED
    BY <2>2, <2>3
<1>3. Roomy /\ NoWrap /\ [PNext]_pvars => Roomy' /\ NoWrap'
  BY OnceSet DEF Roomy, NoWrap
<1> QED
  BY <1>1, <1>2, <1>3, ProgramInvariant, SpaciousInvariant, PTL DEF PSpec, RSpec

-----------------------------------------------------------------------------
(***************************************************************************)
(* What is read is what was written: no byte is out of its place, however  *)
(* long the file is and however often the buffer moves.                    *)
(***************************************************************************)
Placed(n) ==
  {c \in Entries : /\ c.call = "READ" => End(c.range) <= n
                   /\ c.call = "KEEP" => c.range \in Extents}

Placing ==
  /\ InCallback => script \in Seq(Placed(size))
  /\ \A r \in Req : stage[r] # "idle" /\ op[r] = "READ" => Extent(opts[r]) \in Extents

\* raf_read() leaves a range alone that ends inside the file.
LEMMA ClampSame ==
  ASSUME NEW range \in [offset : Nat, length : Nat \ {0}], NEW n \in Nat,
         range.offset + range.length <= n, range.offset + range.length < Wrap
  PROVE  Extent(Clamp(range, n)) = range
<1>1. (range.offset + range.length) % Wrap = range.offset + range.length
  BY SmallMod, ConstantFacts
<1>2. Clamp(range, n).offset = range.offset /\ Clamp(range, n).length = range.length
  BY <1>1 DEF Clamp
<1> QED
  BY <1>2 DEF Extent

LEMMA PlacingKept ==
  ASSUME Placing, SameRequests,
         \/ script' = <<>>
         \/ InCallback' => InCallback /\ script' = script /\ size' = size
  PROVE  Placing'
<1>1. InCallback' => script' \in Seq(Placed(size'))
  <2>1. CASE script' = <<>>
    <3>1. \A S : <<>> \in Seq(S)
      OBVIOUS
    <3> QED
      BY <2>1, <3>1
  <2>2. CASE script' # <<>>
    BY <2>2 DEF Placing
  <2> QED
    BY <2>1, <2>2
<1>2. \A r \in Req : stage'[r] # "idle" /\ op'[r] = "READ" => Extent(opts'[r]) \in Extents
  BY DEF Placing, SameRequests, Extent
<1> QED
  BY <1>1, <1>2 DEF Placing, Extent

\* A request asks for the range of its call.
LEMMA WantedRange ==
  ASSUME FileSound, Program, NoWrap, Placing, NEW t \in {"READ", "WRITE"}, Upcoming(t)
  PROVE  Extent(Wanted(Head(script))) = Head(script).range
<1> DEFINE c == Head(script)
<1>1. InCallback /\ script # <<>> /\ c \in Entries /\ c.call = t
  BY CallOf DEF Program, OpTypes
<1>2. c.range \in [offset : Nat, length : Nat \ {0}] /\ c.range \in Ranges
  BY <1>1, EntryCalls, PieceFacts
<1>3. Extent(c.range) = c.range
  BY <1>2 DEF Extent
<1>4. CASE t = "WRITE"
  BY <1>1, <1>3, <1>4 DEF Wanted, Transfer, Extent
<1>5. CASE t = "READ"
  <2>1. End(c.range) <= size
    BY <1>1, <1>5, ScriptParts DEF Placing, Placed
  <2>2. Extent(Clamp(c.range, size)) = c.range
    BY <1>2, <2>1, ClampSame DEF NoWrap, End, FileSound, RTypeOK
  <2>3. Wanted(c) = Transfer(Clamp(c.range, size))
    BY <1>1, <1>5 DEF Wanted
  <2> QED
    BY <2>2, <2>3 DEF Transfer, Extent
<1> QED
  BY <1>4, <1>5

LEMMA PlacingMade ==
  ASSUME FileSound, Program, NoWrap, Placing, NEW t \in Types, CallMade(t)
  PROVE  Placing'
<1> DEFINE free == CHOOSE r \in Req : r \notin Live
           asked == Wanted(Head(script))
<1>1. /\ Upcoming(t) /\ script' = Tail(script) /\ UNCHANGED <<size, stack>> /\ t \in OpTypes
      /\ RafAccepted(t, free, asked)
  BY RafAssumption DEF CallMade, Do, RafAccepted, CallAccepted, handle
<1>2. free \in Req
  BY <1>1, FreeSlot DEF RafAccepted, OpTypes, Program
<1>3. InCallback' => script' \in Seq(Placed(size'))
  <2>1. CASE t = "OPEN"
    BY <1>1, <2>1, CallOf DEF InCallback, InMain, Program
  <2>2. CASE t # "OPEN"
    BY <1>1, <2>2, CallOf, ScriptParts DEF Placing, Program
  <2> QED
    BY <2>1, <2>2
<1>4. t = "READ" => Extent(asked) \in Extents
  <2> SUFFICES ASSUME t = "READ" PROVE Extent(asked) \in Extents
    OBVIOUS
  <2>1. InCallback /\ Head(script) \in Entries /\ Head(script).call = "READ"
    BY <1>1, CallOf DEF Program
  <2> QED
    BY <1>1, <2>1, WantedRange, EntryCalls
<1> HIDE DEF free, asked
<1>5. /\ op' = [op EXCEPT ![free] = t] /\ opts' = [opts EXCEPT ![free] = asked]
      /\ stage' = [stage EXCEPT ![free] = "asked"]
      /\ TypeOK /\ RTypeOK
  BY <1>1 DEF RafAccepted, CallAccepted, FileSound, Ownership
<1>6. \A r \in Req : stage'[r] # "idle" /\ op'[r] = "READ" => Extent(opts'[r]) \in Extents
  BY <1>2, <1>4, <1>5 DEF Placing, TypeOK, RTypeOK
<1> QED
  BY <1>3, <1>6 DEF Placing, Extent

LEMMA PlacingLoop ==
  ASSUME FileSound, Program, FileSound', Program', NoWrap, WritesSucceed, Placing, up,
         NEW r \in Req, Looping(LoopStep(r), r)
  PROVE  Placing'
<1>0. /\ LoopStep(r) /\ SameRequests
      /\ script' = IF Entered THEN Code(r)' ELSE script
  BY LoopRequests DEF Looping
<1>1. CASE script # <<>>
  <2>1. UNCHANGED <<script, vars, size>>
    BY <1>0, <1>1, LoopQuiet, PoolServes DEF Program, handle
  <2> QED
    BY <1>0, <2>1, PlacingKept DEF vars, InCallback, Top
<1>2. CASE script = <<>> /\ ~Entered
  BY <1>0, <1>2, PlacingKept
<1>3. CASE Entered
  <2>1. /\ op' = op /\ opts' = opts /\ stage'[r] = "done" /\ stage[r] # "idle"
        /\ stack' = <<[kind |-> "callback", req |-> r]>>
    BY <1>0, <1>3, Completion
  <2>2. Extent(opts'[r]) \in [offset : Nat, length : Nat]
    BY DEF RTypeOK, FileSound, Extent
  <2>3. op'[r] = "WRITE" => Extent(opts'[r]) \in Extents /\ End(Extent(opts'[r])) <= size'
    <3> SUFFICES ASSUME op'[r] = "WRITE"
                 PROVE  Extent(opts'[r]) \in Extents /\ End(Extent(opts'[r])) <= size'
      OBVIOUS
    <3>1. Extent(opts'[r]) \in Extents
      BY <2>1 DEF Program, Requested, RequestedOf, Extent
    <3>2. moved'[r] = opts'[r].length /\ opts'[r].length \in Nat \ {0}
      BY <2>1, <3>1, PieceFacts DEF FileSound, Finishing, Finished, WritesSucceed, Extent
    <3>3. r \in Calling'
      BY <2>1 DEF Calling, IsCallback
    <3>4. opts'[r].offset + moved'[r] <= size'
      BY <2>1, <3>2, <3>3 DEF FileSound, InFile, Within, NoWrap
    <3> QED
      BY <3>1, <3>2, <3>4 DEF End, Extent
  <2>4. op'[r] = "READ" => Extent(opts'[r]) \in Extents
    BY <2>1 DEF Placing
  <2>5. script' \in Seq(Placed(size'))
    BY <1>0, <1>3, <2>2, <2>3, <2>4, CodeIn DEF Call, Entries, Placed
  <2>6. \A q \in Req : stage'[q] # "idle" /\ op'[q] = "READ" => Extent(opts'[q]) \in Extents
    BY <1>0 DEF Placing, SameRequests, Extent
  <2> QED
    BY <2>5, <2>6 DEF Placing, Extent
<1> QED
  BY <1>1, <1>2, <1>3

LEMMA PlacingStep ==
  ASSUME FileSound, Program, FileSound', Program', NoWrap, WritesSucceed, Placing, [PNext]_pvars
  PROVE  Placing'
<1>1. CASE ~ \E t \in Types : CallMade(t)
  <2>0. SameRequests
    BY <1>1, StepRequests
  <2>1. CASE MainInit
    BY <2>0, <2>1, PlacingKept DEF MainInit, RafInit, AraInit, InCallback
  <2>2. CASE UNCHANGED <<script, stack, size>>
    BY <2>0, <2>2, PlacingKept DEF InCallback, Top
  <2>3. ASSUME NEW t \in Types, CallBegins(t) \/ CallPanics(t) PROVE Placing'
    BY <2>2, <2>3 DEF CallBegins, RafSet, AraSet, CallPanics, RafRefused, CallBadState, CallNoLoop,
                      CallInitFails, AraThrow, Panic, handle
  <2>4. CASE OwnStep
    <3>1. /\ UNCHANGED <<stack, size>> /\ script # <<>> /\ script' = Tail(script)
          /\ Head(script).call \in {"BUFFER", "KEEP", "PRINT"}
      BY <2>4, OwnSteps DEF vars, handle
    <3>2. InCallback
      BY <3>1, MainCalls DEF Program, Conducted, InMain, Call
    <3>3. script' \in Seq(Placed(size'))
      BY <3>1, <3>2, ScriptParts DEF Placing
    <3> QED
      BY <2>0, <3>3 DEF Placing, SameRequests, Extent
  <2>5. CASE CallbackReturns
    BY <2>0, <2>5, PlacingKept DEF CallbackReturns
  <2>6. ASSUME NEW r \in Req,
               Looping(RafDeliver(r) \/ Worker(r) \/ Pool(r) \/ Callback(r) \/ RafUvClose(r), r)
        PROVE  Placing'
    <3>1. Looping(LoopStep(r), r)
      BY <2>6 DEF Looping, LoopStep
    <3>2. up
      BY <3>1, UpBefore DEF Looping, RNext, LoopStep
    <3> QED
      BY <3>1, <3>2, PlacingLoop
  <2>7. CASE UNCHANGED pvars
    BY <2>2, <2>7 DEF pvars, rvars, rafvars, vars, handle
  <2> QED
    BY <1>1, <2>1, <2>3, <2>4, <2>5, <2>6, <2>7 DEF PNext, Scripted, OwnStep
<1>2. ASSUME NEW t \in Types, CallMade(t) PROVE Placing'
  BY <1>2, PlacingMade
<1> QED
  BY <1>1, <1>2

-----------------------------------------------------------------------------
(***************************************************************************)
(* The bytes of the memory and of what is printed.                         *)
(***************************************************************************)
InPiece(n, i) == Pieces[i].offset <= n /\ n < End(Pieces[i])

\* The pieces are next to each other: each byte is in one of them.
LEMMA OnePiece ==
  ASSUME NEW n \in Nat, NEW i \in DOMAIN Pieces, NEW j \in DOMAIN Pieces,
         InPiece(n, i), InPiece(n, j)
  PROVE  i = j
<1>1. i \in Nat /\ j \in Nat
  BY PieceFacts
<1>2. /\ Pieces[i].offset \in Nat /\ End(Pieces[i]) \in Nat
      /\ Pieces[j].offset \in Nat /\ End(Pieces[j]) \in Nat
  BY PieceFacts DEF End
<1>3. CASE i < j
  <2>1. End(Pieces[i]) <= Pieces[j].offset
    BY <1>3, ProgramAssumption
  <2> QED
    BY <1>2, <2>1 DEF InPiece
<1>4. CASE j < i
  <2>1. End(Pieces[j]) <= Pieces[i].offset
    BY <1>4, ProgramAssumption
  <2> QED
    BY <1>2, <2>1 DEF InPiece
<1> QED
  BY <1>1, <1>3, <1>4

LEMMA TextByte ==
  ASSUME NEW n \in Nat, NEW i \in DOMAIN Pieces, InPiece(n, i)
  PROVE  n \in 0..(Total - 1) /\ Text[n] = Pieces[i].text
<1>1. n \in 0..(Total - 1)
  BY PieceFacts DEF InPiece, End
<1> DEFINE At(j) == n - Pieces[j].offset \in 0..(Pieces[j].length - 1)
<1>2. \A j \in DOMAIN Pieces : At(j) <=> InPiece(n, j)
  BY PieceFacts DEF InPiece, End
<1>3. (CHOOSE j \in DOMAIN Pieces : At(j)) = i
  <2>1. (CHOOSE j \in DOMAIN Pieces : At(j)) \in DOMAIN Pieces
          /\ At(CHOOSE j \in DOMAIN Pieces : At(j))
    BY <1>2
  <2> HIDE DEF At
  <2> QED
    BY <1>2, <2>1, OnePiece
<1> QED
  BY <1>1, <1>3 DEF Text

LEMMA StoredBytes ==
  ASSUME NEW e \in Extents, NEW n \in Nat, e.offset <= n, n < End(e)
  PROVE  n < Total /\ Stored(e) = Text[n]
<1> DEFINE Is(i) == Extent(Pieces[i]) = e
           piece == CHOOSE i \in DOMAIN Pieces : Is(i)
<1>1. \E i \in DOMAIN Pieces : Is(i)
  BY DEF Extents
<1>2. piece \in DOMAIN Pieces /\ Is(piece)
  BY <1>1
<1>3. Stored(e) = Pieces[piece].text
  BY <1>1 DEF Stored
<1> HIDE DEF piece
<1>4. InPiece(n, piece)
  BY <1>2 DEF InPiece, Extent, End
<1> QED
  BY <1>2, <1>3, <1>4, TextByte, PieceFacts

\* Each byte is of its place in the text, or none that was written.
InPlace(cells) == \A i \in DOMAIN cells \intersect Nat : cells[i] \in Belongs(i)

Orderly(b, h) ==
  /\ {"base", "length", "written"} \subseteq DOMAIN b
  /\ b.base # "NULL" => b.base \in DOMAIN h
  /\ \A id \in DOMAIN h : InPlace(h[id])

LEMMA UnwrittenBelongs ==
  ASSUME NEW n, NEW v \in {"zero", "junk"}
  PROVE  InPlace([i \in Own!Span(n) |-> v])
<1>1. \A i : v \in Belongs(i)
  BY DEF Belongs
<1> QED
  BY <1>1 DEF InPlace

LEMMA AllotOrderly ==
  ASSUME NEW h, NEW id, NEW cells, InPlace(cells), \A k \in DOMAIN h : InPlace(h[k])
  PROVE  /\ id \in DOMAIN Own!Allot(h, id, cells)
         /\ \A k \in DOMAIN Own!Allot(h, id, cells) : InPlace(Own!Allot(h, id, cells)[k])
<1>1. /\ DOMAIN Own!Allot(h, id, cells) = DOMAIN h \union {id}
      /\ \A k \in DOMAIN h \union {id} :
           Own!Allot(h, id, cells)[k] = IF k = id THEN cells ELSE h[k]
  BY DEF Own!Allot
<1> QED
  BY <1>1

LEMMA InitOrderly ==
  ASSUME NEW b, NEW h, NEW n, Orderly(b, h), NEW outcome \in Own!Inits(b, h, n)
  PROVE  Orderly(outcome.buffer, outcome.heap)
<1>1. CASE n = 0
  <2>1. outcome = Own!Outcome([Own!Moved(b, "NULL", 0, b.view) EXCEPT !.written = 0], h, spilled, FALSE)
    BY <1>1, OwnConstants DEF Own!Inits
  <2>2. /\ outcome.heap = h
        /\ outcome.buffer = [base |-> "NULL", length |-> 0, view |-> b.view, mut |-> b.mut, written |-> 0]
    BY <2>1 DEF Own!Outcome, Own!Moved
  <2> QED
    BY <2>2 DEF Orderly
<1>2. CASE n # 0
  <2>1. PICK m \in Own!Mallocs(h, n, "zero") :
          outcome = Own!Outcome([base |-> m.base, length |-> n, view |-> [base |-> m.base, len |-> n],
                                 mut |-> b.mut, written |-> 0], m.heap, spilled, TRUE)
    BY <1>2 DEF Own!Inits
  <2>2. PICK id \in Regions \ DOMAIN h :
          m = [base |-> id, heap |-> Own!Allot(h, id, [i \in Own!Span(n) |-> "zero"])]
    BY <2>1 DEF Own!Mallocs
  <2>3. /\ outcome.heap = Own!Allot(h, id, [i \in Own!Span(n) |-> "zero"])
        /\ outcome.buffer = [base |-> id, length |-> n, view |-> [base |-> id, len |-> n],
                             mut |-> b.mut, written |-> 0]
    BY <2>1, <2>2 DEF Own!Outcome
  <2>4. InPlace([i \in Own!Span(n) |-> "zero"])
    BY UnwrittenBelongs
  <2> QED
    BY <2>3, <2>4, AllotOrderly DEF Orderly
<1> QED
  BY <1>1, <1>2

LEMMA ReallocationOrderly ==
  ASSUME NEW b, NEW h, NEW n, Orderly(b, h), NEW outcome \in Own!Reallocations(b, h, n)
  PROVE  Orderly(outcome.buffer, outcome.heap)
<1>1. CASE b.base # "NULL" /\ b.length > 0
  <2>1. PICK m \in Own!Reallocs(h, b.base, n) :
          outcome = IF m.base = Own!Null
                    THEN Own!Outcome(Own!Moved(b, Own!Null, 0, b.view), m.heap, spilled, FALSE)
                    ELSE Own!Outcome(Own!Moved(b, m.base, n, Own!ViewOf(b, m.base, n)), m.heap, TRUE, TRUE)
    BY <1>1, OwnConstants DEF Own!Reallocations, Own!Grows
  <2>2. PICK new \in (Regions \ DOMAIN h) \union {b.base} :
          m = [base |-> new,
               heap |-> Own!Allot(Own!Free(h, b.base), new, Own!Resized(h, b.base, n))]
    BY <2>1 DEF Own!Reallocs
  <2>3. new # Own!Null
    BY <1>1, OwnConstants, ProgramAssumption
  <2>4. /\ outcome.heap = Own!Allot(Own!Free(h, b.base), new, Own!Resized(h, b.base, n))
        /\ outcome.buffer = [base |-> new, length |-> n, view |-> Own!ViewOf(b, new, n),
                             mut |-> b.mut, written |-> b.written]
    BY <2>1, <2>2, <2>3 DEF Own!Outcome, Own!Moved
  <2>5. \A k \in DOMAIN Own!Free(h, b.base) : InPlace(Own!Free(h, b.base)[k])
    BY DEF Own!Free, Orderly
  <2>6. InPlace(Own!Resized(h, b.base, n))
    <3>1. InPlace(h[b.base])
      BY <1>1 DEF Orderly
    <3>2. \A i : "junk" \in Belongs(i)
      BY DEF Belongs
    <3> QED
      BY <3>1, <3>2 DEF Own!Resized, InPlace
  <2> QED
    BY <2>4, <2>5, <2>6, AllotOrderly DEF Orderly
<1>2. CASE ~(b.base # "NULL" /\ b.length > 0)
  <2>1. PICK m \in Own!Mallocs(h, n, "junk") :
          outcome = Own!Outcome(Own!Moved(b, m.base, b.length, Own!ViewOf(b, m.base, b.length)), m.heap,
                                spilled, TRUE)
    BY <1>2, OwnConstants DEF Own!Reallocations, Own!Acquires
  <2>2. PICK id \in Regions \ DOMAIN h :
          m = [base |-> id, heap |-> Own!Allot(h, id, [i \in Own!Span(n) |-> "junk"])]
    BY <2>1 DEF Own!Mallocs
  <2>3. /\ outcome.heap = Own!Allot(h, id, [i \in Own!Span(n) |-> "junk"])
        /\ outcome.buffer = [base |-> id, length |-> b.length,
                             view |-> Own!ViewOf(b, id, b.length), mut |-> b.mut,
                             written |-> b.written]
    BY <2>1, <2>2 DEF Own!Outcome, Own!Moved
  <2>4. InPlace([i \in Own!Span(n) |-> "junk"])
    BY UnwrittenBelongs
  <2> QED
    BY <2>3, <2>4, AllotOrderly DEF Orderly
<1> QED
  BY <1>1, <1>2

\* The bytes of a piece are written to the place of the piece.
LEMMA CopyOrderly ==
  ASSUME NEW b, NEW h, Orderly(b, h), b.base # "NULL", NEW range \in Extents, NEW n
  PROVE  Orderly([b EXCEPT !.written = n], Own!Copied(h, b.base, range, Stored(range)))
<1> DEFINE copied == Own!Copied(h, b.base, range, Stored(range))
<1>1. b.base \in DOMAIN h /\ InPlace(h[b.base])
  BY DEF Orderly
<1>2. /\ DOMAIN copied = DOMAIN h
      /\ \A k \in DOMAIN h \ {b.base} : copied[k] = h[k]
      /\ copied[b.base] = [i \in DOMAIN h[b.base] |->
           IF Own!Covers(range, i) THEN Stored(range) ELSE h[b.base][i]]
  BY <1>1 DEF Own!Copied
<1>3. InPlace(copied[b.base])
  <2> SUFFICES ASSUME NEW i \in DOMAIN h[b.base] \intersect Nat
               PROVE  copied[b.base][i] \in Belongs(i)
    BY <1>2 DEF InPlace
  <2>1. h[b.base][i] \in Belongs(i)
    BY <1>1 DEF InPlace
  <2>2. CASE Own!Covers(range, i)
    <3>1. i < Total /\ Stored(range) = Text[i]
      BY <2>1, <2>2, StoredBytes DEF Own!Covers, End
    <3> QED
      BY <1>2, <2>1, <2>2, <3>1 DEF Belongs
  <2> QED
    BY <1>2, <2>1, <2>2
<1>4. \A k \in DOMAIN copied : InPlace(copied[k])
  BY <1>2, <1>3 DEF Orderly
<1> HIDE DEF copied
<1>5. [b EXCEPT !.written = n].base = b.base /\ DOMAIN [b EXCEPT !.written = n] = DOMAIN b
  BY DEF Orderly
<1> QED
  BY <1>1, <1>2, <1>4, <1>5 DEF Orderly, copied

LEMMA KeptOrderly ==
  ASSUME Kept, Orderly(buffer, heap), Head(script).range \in Extents
  PROVE  Orderly(buffer', heap')
<1> DEFINE range == Head(script).range
           value == Stored(range)
<1>1. CASE Own!BufferWriteDies(range)
  BY <1>1 DEF Own!BufferWriteDies, Own!Dies
<1>2. CASE Own!BufferWrite(range, value)
  <2>1. PICK p \in Own!Prepared(range) : \E s \in Own!Sized(p, range) :
          \/ buffer' = s.buffer /\ heap' = s.heap
          \/ /\ s.buffer.base # "NULL"
             /\ heap' = Own!Copied(s.heap, s.buffer.base, range, value)
             /\ buffer' = [s.buffer EXCEPT !.written = Own!Counted(s.buffer, range.length)]
    BY <1>2, OwnConstants, Zenon DEF Own!BufferWrite, Own!Leaves
  <2>2. PICK s \in Own!Sized(p, range) :
          \/ buffer' = s.buffer /\ heap' = s.heap
          \/ /\ s.buffer.base # "NULL"
             /\ heap' = Own!Copied(s.heap, s.buffer.base, range, value)
             /\ buffer' = [s.buffer EXCEPT !.written = Own!Counted(s.buffer, range.length)]
    BY <2>1
  <2>3. Orderly(p.buffer, p.heap)
    <3>1. CASE p = Own!Unchanged
      BY <3>1 DEF Own!Unchanged, Own!Outcome
    <3>2. CASE p \in Own!Inits(buffer, heap, range.length)
      BY <3>2, InitOrderly
    <3> QED
      BY <2>1, <3>1, <3>2 DEF Own!Prepared
  <2>4. Orderly(s.buffer, s.heap)
    <3>1. CASE s = p
      BY <2>3, <3>1
    <3>2. CASE s \in Own!Reallocations(p.buffer, p.heap, p.buffer.length + range.offset)
      BY <2>3, <3>2, ReallocationOrderly
    <3> QED
      BY <2>2, <3>1, <3>2 DEF Own!Sized
  <2> HIDE DEF range
  <2>5. range \in Extents
    BY DEF range
  <2> QED
    BY <2>2, <2>4, <2>5, CopyOrderly
<1> QED
  BY <1>1, <1>2 DEF Kept

\* What printf() may be given: a line of bytes in their places.
Marks == UNION {Belongs(i) : i \in Nat}

Lines ==
  {f \in UNION {[0..(n - 1) -> Marks] : n \in Nat} : \A i \in DOMAIN f : f[i] \in Belongs(i)}

LEMMA LineMade ==
  ASSUME NEW n \in Nat, NEW f, DOMAIN f = 0..(n - 1), f = [i \in DOMAIN f |-> f[i]],
         \A i \in 0..(n - 1) : f[i] \in Belongs(i)
  PROVE  f \in Lines
<1>1. f \in [0..(n - 1) -> Marks]
  BY DEF Marks
<1>2. \A i \in DOMAIN f : f[i] \in Belongs(i)
  OBVIOUS
<1> QED
  BY <1>1, <1>2 DEF Lines

LEMMA PrintedLine ==
  ASSUME Printed, Orderly(buffer, heap), size \in Nat, printed \in Seq(Lines)
  PROVE  printed' \in Seq(Lines)
<1> DEFINE whole == [offset |-> 0, length |-> size]
           out == [i \in 0..(size - 1) |-> Own!Byte(heap[buffer.base], i, whole)]
           none == [i \in 0..(0 - 1) |-> 0]
<1>1. CASE Own!BufferReadDies(whole) /\ printed' = printed
  BY <1>1
<1>2. CASE Own!BufferRead(whole) /\ printed' = Append(printed, answer'.out)
  <2>1. none \in Lines
    <3>1. DOMAIN none = 0..(0 - 1) /\ none = [i \in DOMAIN none |-> none[i]]
      OBVIOUS
    <3>2. \A i \in 0..(0 - 1) : none[i] \in Belongs(i)
      OBVIOUS
    <3> HIDE DEF none
    <3> QED
      BY <3>1, <3>2, LineMade
  <2>2. CASE Own!Refused(whole)
    <3>1. answer'.out = none
      BY <1>2, <2>2 DEF Own!BufferRead, Own!Silent, Own!Nothing
    <3> QED
      BY <1>2, <2>1, <3>1
  <2>3. CASE ~Own!Refused(whole)
    <3>1. buffer.base \in DOMAIN heap /\ InPlace(heap[buffer.base])
      BY <2>3, OwnConstants DEF Own!Refused, Orderly
    <3>2. \A i \in 0..(size - 1) : Own!Byte(heap[buffer.base], i, whole) \in Belongs(i)
      BY <3>1 DEF Own!Byte, InPlace, Belongs
    <3>3. out \in Lines
      BY <3>2, LineMade
    <3>4. answer'.out = out
      BY <1>2, <2>3, OwnConstants DEF Own!BufferRead
    <3> QED
      BY <1>2, <3>3, <3>4
  <2> QED
    BY <2>2, <2>3
<1> QED
  BY <1>1, <1>2 DEF Printed

(***************************************************************************)
(* What the code keeps is what its pieces hold, each in its place, and so  *)
(* is what it prints.                                                      *)
(***************************************************************************)
Tidy == Orderly(buffer, heap) /\ printed \in Seq(Lines)

Faithful == NoWrap /\ WritesSucceed => Placing /\ Tidy

LEMMA FaithfulInit == PInit => Faithful
<1> SUFFICES ASSUME PInit PROVE Placing /\ Tidy
  BY DEF Faithful
<1>1. Placing
  BY DEF PInit, RInit, Init, Placing, InCallback
<1>2. Orderly(buffer, heap)
  BY OwnConstants DEF PInit, Own!BInit, Own!Zeroed, Own!Nothing, Orderly
<1>3. printed = <<>>
  BY DEF PInit
<1>4. \A S : <<>> \in Seq(S)
  OBVIOUS
<1> QED
  BY <1>1, <1>2, <1>3, <1>4 DEF Tidy

LEMMA BufferMadeTidy ==
  ASSUME BufferMade, Tidy
  PROVE  Tidy'
<1>1. Own!BufferInit(size) /\ printed' = printed
  BY DEF BufferMade, Elsewhere
<1>2. \E outcome \in Own!Inits(buffer, heap, size) : buffer' = outcome.buffer /\ heap' = outcome.heap
  BY <1>1, Zenon DEF Own!BufferInit, Own!Leaves
<1> QED
  BY <1>1, <1>2, InitOrderly DEF Tidy

LEMMA OwnTidy ==
  ASSUME FileSound, Program, Placing, Tidy, OwnStep
  PROVE  Tidy'
<1>1. CASE BufferMade
  BY <1>1, BufferMadeTidy
<1>2. CASE Kept
  <2>1. script # <<>> /\ Head(script).call = "KEEP" /\ printed' = printed
    BY <1>2 DEF Kept, Do, Upcoming, Elsewhere
  <2>2. InCallback
    BY <2>1, MainCalls DEF Program, Conducted, InMain, Call
  <2>3. Head(script).range \in Extents
    BY <2>1, <2>2, ScriptParts DEF Placing, Placed
  <2> QED
    BY <1>2, <2>1, <2>3, KeptOrderly DEF Tidy
<1>3. CASE Printed
  <2>1. UNCHANGED <<buffer, heap>>
    BY <1>3 DEF Printed, Own!BufferRead, Own!BufferReadDies, Own!Dies
  <2>2. size \in Nat
    BY DEF FileSound, RTypeOK
  <2> QED
    BY <1>3, <2>1, <2>2, PrintedLine DEF Tidy, Orderly
<1>4. CASE NotPrinted
  BY <1>4 DEF NotPrinted, Elsewhere, memory, Tidy, Orderly
<1> QED
  BY <1>1, <1>2, <1>3, <1>4 DEF OwnStep

LEMMA FaithfulStep ==
  FileSound /\ Program /\ FileSound' /\ Program' /\ Faithful /\ [PNext]_pvars => Faithful'
<1> SUFFICES ASSUME FileSound, Program, FileSound', Program', Faithful, [PNext]_pvars,
                    NoWrap', WritesSucceed'
             PROVE  Placing' /\ Tidy'
  BY DEF Faithful
<1>1. NoWrap /\ WritesSucceed
  BY DEF NoWrap, WritesSucceed
<1>2. Placing /\ Tidy
  BY <1>1 DEF Faithful
<1>3. Placing'
  BY <1>1, <1>2, PlacingStep
<1>4. CASE UNCHANGED <<printed, memory>>
  BY <1>2, <1>3, <1>4 DEF memory, Tidy, Orderly
<1>5. CASE OwnStep
  BY <1>2, <1>3, <1>5, OwnTidy
<1>6. UNCHANGED <<printed, memory>> \/ OwnStep
  BY DEF PNext, Scripted, OwnStep, MainInit, CallBegins, CallMade, CallPanics, CallbackReturns,
         Looping, Elsewhere, pvars
<1> QED
  BY <1>4, <1>5, <1>6

LEMMA FaithfulInvariant == PSpec => []Faithful
BY ProgramInvariant, FaithfulInit, FaithfulStep, PTL DEF PSpec

\* Whatever the file, no byte is printed in the place of another
\* (NothingMisplaced).
THEOREM NothingIsMisplaced == PSpec => []NothingMisplaced
<1>1. Faithful => NothingMisplaced
  <2> SUFFICES ASSUME Tidy, NEW n \in DOMAIN printed
               PROVE  \A i \in DOMAIN printed[n] : printed[n][i] \in Belongs(i)
    BY DEF Faithful, NothingMisplaced
  <2>1. printed[n] \in Lines
    BY DEF Tidy
  <2> QED
    BY <2>1 DEF Lines
<1> QED
  BY <1>1, FaithfulInvariant, PTL
-----------------------------------------------------------------------------
(***************************************************************************)
(* Each piece is in one place at a time: to be written, to be read, being  *)
(* written or read, or to be kept.                                         *)
(***************************************************************************)
Carriers(s) == {k \in DOMAIN s : s[k].call \in {"WRITE", "READ", "KEEP"}}

\* No script names a piece twice; it makes the buffer first and prints last.
Sparse(s) ==
  /\ \A k, l \in Carriers(s) : s[k].range = s[l].range => k = l
  /\ \A k \in DOMAIN s : /\ s[k].call = "BUFFER" => k = 1
                         /\ s[k].call = "PRINT" => k = Len(s)

Carrying(r) == Unanswered(r) /\ op[r] \in {"READ", "WRITE"}

Single ==
  /\ Sparse(script)
  /\ \A r, q \in Req : Carrying(r) /\ Carrying(q) /\ Extent(opts[r]) = Extent(opts[q]) => r = q
  /\ \A r \in Req : \A k \in Carriers(script) : Carrying(r) => script[k].range # Extent(opts[r])

Opening(r) == Unanswered(r) /\ op[r] = "OPEN"

\* Until onopen() has made the buffer there is none, and nothing else is asked.
Early ==
  \/ stack = <<>> /\ script # <<>>
  \/ Upcoming("BUFFER")
  \/ \E r \in Req : Opening(r)

Beginning ==
  /\ Early => buffer.base = "NULL"
  /\ \A r \in Req : Opening(r) => Live \subseteq {r} /\ script = <<>>

(***************************************************************************)
(* The pieces that are on their way, and those the buffer has.             *)
(***************************************************************************)
Underway(i) ==
  \/ \E r \in Req : Carrying(r) /\ Extent(opts[r]) = Extent(Pieces[i])
  \/ \E k \in Carriers(script) : script[k].range = Extent(Pieces[i])

Filled(K) == {n \in 0..(Total - 1) : \E i \in K : InPiece(n, i)}

Holds(K) ==
  /\ \A i \in K : ~Underway(i)
  /\ buffer.written = Cardinality(Filled(K))
  /\ \A n \in Filled(K) : heap[buffer.base][n] = Text[n]
  /\ \/ printed = <<>>
     \/ /\ printed = <<Text>> /\ K = DOMAIN Pieces
        /\ \A k \in DOMAIN script : script[k].call # "PRINT"

Tally == IF Ready THEN \E K \in SUBSET DOMAIN Pieces : Holds(K) ELSE printed = <<>>

-----------------------------------------------------------------------------
(***************************************************************************)
(* The calls left in a script.                                             *)
(***************************************************************************)
Calls == Entries \union {Call("INIT", NoRange), Call("OPEN", NoRange)}

LEMMA ScriptCalls == ASSUME Conducted PROVE script \in Seq(Calls)
<1>1. CASE script = <<>>
  <2>1. \A S : <<>> \in Seq(S)
    OBVIOUS
  <2> QED
    BY <1>1, <2>1
<1>2. CASE InMain
  <2>1. Main \in Seq(Calls) /\ Tail(Main) \in Seq(Calls)
    BY DEF Main, Calls
  <2> QED
    BY <1>2, <2>1 DEF InMain
<1>3. CASE InCallback
  BY <1>3 DEF InCallback, Calls
<1> QED
  BY <1>1, <1>2, <1>3 DEF Conducted

\* What is left after a call was behind it.
LEMMA TailCalls ==
  ASSUME NEW s \in Seq(Calls), s # <<>>
  PROVE  /\ 1 \in DOMAIN s /\ s[1] = Head(s)
         /\ Len(s) \in Nat /\ Len(Tail(s)) = Len(s) - 1
         /\ \A k \in DOMAIN Tail(s) : k \in Nat /\ k + 1 \in DOMAIN s /\ Tail(s)[k] = s[k + 1] /\ k >= 1
OBVIOUS

LEMMA SparseTail ==
  ASSUME NEW s \in Seq(Calls), s # <<>>, Sparse(s)
  PROVE  /\ Sparse(Tail(s))
         /\ \A k \in Carriers(Tail(s)) : k + 1 \in Carriers(s) /\ Tail(s)[k] = s[k + 1]
         /\ Head(s).call \in {"WRITE", "READ", "KEEP"} =>
              1 \in Carriers(s) /\ \A k \in Carriers(Tail(s)) : Tail(s)[k].range # Head(s).range
         /\ \A k \in DOMAIN Tail(s) : Tail(s)[k].call # "BUFFER"
         /\ Head(s).call = "PRINT" => Tail(s) = <<>>
<1>1. \A k \in Carriers(Tail(s)) : k \in Nat /\ k >= 1 /\ k + 1 \in Carriers(s) /\ Tail(s)[k] = s[k + 1]
  BY TailCalls DEF Carriers
<1>2. Head(s).call \in {"WRITE", "READ", "KEEP"} => 1 \in Carriers(s) /\ s[1] = Head(s)
  BY TailCalls DEF Carriers
<1>3. ASSUME NEW k \in Carriers(Tail(s)), Head(s).call \in {"WRITE", "READ", "KEEP"}
      PROVE  Tail(s)[k].range # Head(s).range
  <2>1. k + 1 # 1
    BY <1>1
  <2> QED
    BY <1>1, <1>2, <1>3, <2>1 DEF Sparse
<1>4. \A k, l \in Carriers(Tail(s)) : Tail(s)[k].range = Tail(s)[l].range => k = l
  <2> SUFFICES ASSUME NEW k \in Carriers(Tail(s)), NEW l \in Carriers(Tail(s)),
                      Tail(s)[k].range = Tail(s)[l].range
               PROVE  k = l
    OBVIOUS
  <2>1. k + 1 = l + 1
    BY <1>1 DEF Sparse
  <2> QED
    BY <1>1, <2>1
<1>5. \A k \in DOMAIN Tail(s) : /\ Tail(s)[k].call # "BUFFER"
                                /\ Tail(s)[k].call = "PRINT" => k = Len(Tail(s))
  BY TailCalls DEF Sparse
<1>6. Head(s).call = "PRINT" => Tail(s) = <<>>
  <2> SUFFICES ASSUME Head(s).call = "PRINT" PROVE Tail(s) = <<>>
    OBVIOUS
  <2>1. Len(s) = 1
    BY TailCalls DEF Sparse
  <2>2. Tail(s) \in Seq(Calls) /\ Len(Tail(s)) = 0
    BY <2>1, TailCalls, ScriptParts
  <2> HIDE DEF Calls
  <2> QED
    BY <2>2, EmptySeq
<1> QED
  BY <1>1, <1>2, <1>3, <1>4, <1>5, <1>6 DEF Sparse

\* The pieces are told apart by their extents.
LEMMA PieceOf ==
  ASSUME NEW i \in DOMAIN Pieces, NEW j \in DOMAIN Pieces, Extent(Pieces[i]) = Extent(Pieces[j])
  PROVE  i = j
<1> DEFINE n == Pieces[i].offset
<1>1. Pieces[j].offset = Pieces[i].offset /\ Pieces[j].length = Pieces[i].length
  BY DEF Extent
<1>2. n \in Nat /\ InPiece(n, i) /\ InPiece(n, j)
  BY <1>1, PieceFacts DEF InPiece, End
<1> HIDE DEF n
<1> QED
  BY <1>2, OnePiece

-----------------------------------------------------------------------------
(***************************************************************************)
(* Steps that start nothing.                                               *)
(***************************************************************************)
NothingNew ==
  /\ \A i \in DOMAIN Pieces : Underway(i)' => Underway(i)
  /\ \A k \in DOMAIN script' : script'[k].call = "PRINT" =>
       (\E l \in DOMAIN script : script[l].call = "PRINT") \/ (\E i \in DOMAIN Pieces : Underway(i))

Shortened == script' = script \/ script' = <<>> \/ (script # <<>> /\ script' = Tail(script))

LEMMA ShortenedScript ==
  ASSUME Conducted, Sparse(script), Shortened
  PROVE  /\ Sparse(script')
         /\ \A k \in Carriers(script') :
              \E l \in Carriers(script) : script[l] = script'[k]
         /\ \A k \in DOMAIN script' : \E l \in DOMAIN script : script[l] = script'[k]
<1>1. script \in Seq(Calls)
  BY ScriptCalls
<1>2. CASE script' = script
  BY <1>2
<1>3. CASE script' = <<>>
  BY <1>3 DEF Sparse, Carriers
<1>4. CASE script # <<>> /\ script' = Tail(script)
  <2>1. Sparse(script')
    BY <1>1, <1>4, SparseTail
  <2>2. \A k \in Carriers(script') : k + 1 \in Carriers(script) /\ script'[k] = script[k + 1]
    BY <1>1, <1>4, SparseTail
  <2>3. \A k \in DOMAIN script' : k + 1 \in DOMAIN script /\ script'[k] = script[k + 1]
    BY <1>1, <1>4, TailCalls
  <2> QED
    BY <2>1, <2>2, <2>3
<1> QED
  BY <1>2, <1>3, <1>4 DEF Shortened

LEMMA CarriedSame ==
  ASSUME SameRequests, NEW r \in Req, Carrying(r)'
  PROVE  Carrying(r) /\ opts'[r] = opts[r]
BY DEF SameRequests, Carrying, Unanswered

LEMMA SingleKept ==
  ASSUME Conducted, Single, SameRequests, Shortened
  PROVE  Single' /\ NothingNew
<1>1. /\ Sparse(script')
      /\ \A k \in Carriers(script') : \E l \in Carriers(script) : script[l] = script'[k]
      /\ \A k \in DOMAIN script' : \E l \in DOMAIN script : script[l] = script'[k]
  BY ShortenedScript DEF Single
<1>2. \A r \in Req : Carrying(r)' => Carrying(r) /\ opts'[r] = opts[r]
  BY CarriedSame
<1>3. \A r, q \in Req :
        Carrying(r)' /\ Carrying(q)' /\ Extent(opts'[r]) = Extent(opts'[q]) => r = q
  BY <1>2 DEF Single
<1>4. ASSUME NEW r \in Req, NEW k \in Carriers(script'), Carrying(r)'
      PROVE  script'[k].range # Extent(opts'[r])
  <2>1. PICK l \in Carriers(script) : script[l] = script'[k]
    BY <1>1
  <2>2. Carrying(r) /\ opts'[r] = opts[r]
    BY <1>2, <1>4
  <2> QED
    BY <2>1, <2>2 DEF Single
<1>5. Single'
  BY <1>1, <1>3, <1>4 DEF Single, Extent, Carriers, Sparse
<1>6. ASSUME NEW i \in DOMAIN Pieces, Underway(i)' PROVE Underway(i)
  <2>1. CASE \E r \in Req : Carrying(r)' /\ Extent(opts'[r]) = Extent(Pieces[i])
    BY <1>2, <2>1 DEF Underway
  <2>2. CASE \E k \in Carriers(script') : script'[k].range = Extent(Pieces[i])
    BY <1>1, <2>2 DEF Underway
  <2> QED
    BY <1>6, <2>1, <2>2 DEF Underway, Extent, Carriers
<1>7. \A k \in DOMAIN script' : script'[k].call = "PRINT" =>
        \E l \in DOMAIN script : script[l].call = "PRINT"
  BY <1>1
<1> QED
  BY <1>5, <1>6, <1>7 DEF NothingNew

LEMMA BeginningKept ==
  ASSUME Conducted, Single, Beginning, SameRequests, Shortened, buffer' = buffer,
         stack' = <<>> /\ script' # <<>> => stack = <<>>
  PROVE  Beginning'
<1>1. \A r \in Req : Opening(r)' => Opening(r)
  BY DEF SameRequests, Opening, Unanswered
<1>2. Live' \subseteq Live
  BY DEF SameRequests, Live
<1>3. \A r \in Req : Opening(r)' => Live' \subseteq {r} /\ script' = <<>>
  BY <1>1, <1>2 DEF Beginning, Shortened
<1>4. ASSUME Upcoming("BUFFER")' PROVE Upcoming("BUFFER")
  <2>1. CASE script' = script
    BY <1>4, <2>1 DEF Upcoming
  <2>2. CASE script # <<>> /\ script' = Tail(script)
    <3>1. script \in Seq(Calls) /\ script' \in Seq(Calls)
      BY <2>2, ScriptCalls, ScriptParts
    <3>2. 1 \in DOMAIN script' /\ script'[1] = Head(script')
      BY <1>4, <3>1, TailCalls DEF Upcoming
    <3>3. \A k \in DOMAIN script' : script'[k].call # "BUFFER"
      BY <2>2, <3>1, SparseTail DEF Single
    <3> QED
      BY <1>4, <3>2, <3>3 DEF Upcoming
  <2> QED
    BY <1>4, <2>1, <2>2 DEF Shortened, Upcoming
<1>5. ASSUME stack' = <<>>, script' # <<>> PROVE stack = <<>> /\ script # <<>>
  BY <1>5 DEF Shortened
<1>6. Early' => Early
  BY <1>1, <1>4, <1>5 DEF Early
<1> QED
  BY <1>3, <1>6 DEF Beginning

-----------------------------------------------------------------------------
(***************************************************************************)
(* A call moves a piece from the script to a request.                      *)
(***************************************************************************)
LEMMA SingleMade ==
  ASSUME FileSound, Program, NoWrap, Placing, Single, Beginning, NEW t \in Types, CallMade(t)
  PROVE  Single' /\ Beginning' /\ NothingNew
<1> DEFINE free == CHOOSE r \in Req : r \notin Live
           asked == Wanted(Head(script))
<1>1. /\ Upcoming(t) /\ script # <<>> /\ Head(script).call = t /\ script' = Tail(script)
      /\ UNCHANGED <<stack, buffer>> /\ t \in OpTypes
      /\ RafAccepted(t, free, asked)
  BY RafAssumption DEF CallMade, Do, Upcoming, RafAccepted, CallAccepted, memory
<1>2. free \in Req \ Live
  BY <1>1, FreeSlot DEF RafAccepted, OpTypes, Program
<1>3. t \in {"READ", "WRITE"} => Extent(asked) = Head(script).range
  BY <1>1, WantedRange
<1> HIDE DEF free, asked
<1>4. /\ op' = [op EXCEPT ![free] = t] /\ opts' = [opts EXCEPT ![free] = asked]
      /\ stage' = [stage EXCEPT ![free] = "asked"]
      /\ TypeOK /\ RTypeOK
  BY <1>1 DEF RafAccepted, CallAccepted, FileSound, Ownership
<1>5. /\ op'[free] = t /\ opts'[free] = asked
      /\ \A q \in Req \ {free} : op'[q] = op[q] /\ opts'[q] = opts[q] /\ stage'[q] = stage[q]
  BY <1>2, <1>4 DEF TypeOK, RTypeOK
<1>6. /\ Sparse(script')
      /\ \A k \in Carriers(script') : k + 1 \in Carriers(script) /\ script'[k] = script[k + 1]
      /\ t \in {"READ", "WRITE"} =>
           /\ 1 \in Carriers(script) /\ script[1] = Head(script)
           /\ \A k \in Carriers(script') : script'[k].range # Head(script).range
      /\ \A k \in DOMAIN script' : script'[k].call # "BUFFER"
      /\ \A k \in DOMAIN script' : k + 1 \in DOMAIN script /\ script'[k] = script[k + 1]
  BY <1>1, ScriptCalls, SparseTail, TailCalls DEF Single, Program
<1>7. \A q \in Req : Carrying(q)' =>
        \/ q # free /\ Carrying(q) /\ opts'[q] = opts[q]
        \/ q = free /\ t \in {"READ", "WRITE"} /\ Extent(opts'[q]) = Head(script).range
  BY <1>3, <1>5 DEF Carrying, Unanswered
<1>8. Single'
  <2>1. ASSUME NEW r \in Req, NEW q \in Req, Carrying(r)', Carrying(q)',
               Extent(opts'[r]) = Extent(opts'[q])
        PROVE  r = q
    <3>1. CASE r # free /\ q # free
      BY <1>7, <2>1, <3>1 DEF Single
    <3>2. CASE r # free /\ q = free
      BY <1>6, <1>7, <2>1, <3>2 DEF Single
    <3>3. CASE r = free /\ q # free
      BY <1>6, <1>7, <2>1, <3>3 DEF Single
    <3> QED
      BY <3>1, <3>2, <3>3
  <2>2. ASSUME NEW r \in Req, NEW k \in Carriers(script'), Carrying(r)'
        PROVE  script'[k].range # Extent(opts'[r])
    BY <1>6, <1>7, <2>2 DEF Single
  <2> QED
    BY <1>6, <2>1, <2>2 DEF Single, Extent, Carriers, Sparse
<1>9. NothingNew
  <2>1. ASSUME NEW i \in DOMAIN Pieces, Underway(i)' PROVE Underway(i)
    <3>1. ASSUME NEW r \in Req, Carrying(r)', Extent(opts'[r]) = Extent(Pieces[i])
          PROVE  Underway(i)
      BY <1>6, <1>7, <3>1 DEF Underway
    <3>2. ASSUME NEW k \in Carriers(script'), script'[k].range = Extent(Pieces[i])
          PROVE  Underway(i)
      BY <1>6, <3>2 DEF Underway
    <3> QED
      BY <2>1, <3>1, <3>2 DEF Underway, Extent, Carriers
  <2> QED
    BY <1>6, <2>1 DEF NothingNew
<1>10. Beginning'
  <2>1. CASE t = "OPEN"
    <3>1. stack = <<>> /\ Live = {} /\ script' = <<>> /\ buffer.base = "NULL"
      BY <1>1, <2>1, CallOf, MainCalls DEF Program, InMain, Beginning, Early
    <3>2. \A r \in Req : Opening(r)' => r = free
      BY <1>5, <3>1 DEF FileSound, Progressing, Progress, Opening, Unanswered
    <3>3. Live' \subseteq {free}
      BY <1>5, <3>1 DEF Live
    <3> QED
      BY <1>1, <3>1, <3>2, <3>3 DEF Beginning
  <2>2. CASE t # "OPEN"
    <3>1. \A r \in Req : ~Opening(r)
      BY <1>1 DEF Beginning
    <3>2. \A r \in Req : ~Opening(r)'
      BY <1>5, <2>2, <3>1 DEF Opening, Unanswered
    <3>3. stack' # <<>>
      BY <1>1, <2>2, CallOf DEF Program, InCallback
    <3>4. ~Upcoming("BUFFER")'
      <4>1. script' # <<>> => 1 \in DOMAIN script' /\ script'[1] = Head(script')
        BY <1>1, ScriptCalls, ScriptParts, TailCalls DEF Program
      <4> QED
        BY <1>6, <4>1 DEF Upcoming
    <3> QED
      BY <3>2, <3>3, <3>4 DEF Beginning, Early
  <2> QED
    BY <2>1, <2>2
<1> QED
  BY <1>8, <1>9, <1>10

-----------------------------------------------------------------------------
(***************************************************************************)
(* A callback: onopen() asks for every piece once; each other one goes on  *)
(* with the piece of its request.                                          *)
(***************************************************************************)
LEMMA OpeningScript ==
  ASSUME NEW s \in {<<>>, <<Call("UNLINK", NoRange)>>,
                    <<>> \o [i \in DOMAIN Pieces |-> Call("WRITE", Extent(Pieces[i]))],
                    <<Call("BUFFER", NoRange)>> \o
                      [i \in DOMAIN Pieces |-> Call("WRITE", Extent(Pieces[i]))]}
  PROVE  Sparse(s) /\ \A k \in DOMAIN s : s[k].call # "PRINT"
<1> DEFINE writes == [i \in DOMAIN Pieces |-> Call("WRITE", Extent(Pieces[i]))]
           C == [call : {"WRITE", "BUFFER"}, range : {NoRange} \union Extents]
<1>1. writes \in Seq(C) /\ Len(writes) = Len(Pieces) /\ DOMAIN writes = DOMAIN Pieces
  <2>1. \A i \in DOMAIN Pieces : Call("WRITE", Extent(Pieces[i])) \in C
    BY DEF Call, Extents
  <2> QED
    BY <2>1, PieceFacts
<1>2. \A i \in DOMAIN Pieces : writes[i].call = "WRITE" /\ writes[i].range = Extent(Pieces[i])
  BY DEF Call
<1>3. \A i, j \in DOMAIN Pieces : writes[i].range = writes[j].range => i = j
  BY <1>2, PieceOf
<1> HIDE DEF writes
<1>4. CASE s = <<>> \o writes
  <2>1. s = writes
    BY <1>1, <1>4, ConcatEmptySeq
  <2> QED
    BY <1>1, <1>2, <1>3, <2>1 DEF Sparse, Carriers
<1>5. CASE s = <<Call("BUFFER", NoRange)>> \o writes
  <2> DEFINE first == <<Call("BUFFER", NoRange)>>
  <2>1. first \in Seq(C) /\ Len(first) = 1 /\ first[1].call = "BUFFER" /\ s = first \o writes
    BY <1>5 DEF Call
  <2> HIDE DEF C, first
  <2>2. \A k \in DOMAIN s : \/ k = 1 /\ s[k] = first[1]
                            \/ k - 1 \in DOMAIN Pieces /\ s[k] = writes[k - 1] /\ k # 1 /\ k \in Nat
    <3>1. Len(writes) \in Nat /\ DOMAIN Pieces = 1..Len(writes)
      BY <1>1, PieceFacts
    <3>2. /\ s \in Seq(C) /\ Len(s) = 1 + Len(writes)
          /\ \A k \in 1..(1 + Len(writes)) : s[k] = IF k <= 1 THEN first[k] ELSE writes[k - 1]
      <4>1. /\ first \o writes \in Seq(C)
            /\ Len(first \o writes) = Len(first) + Len(writes)
            /\ \A k \in 1 .. Len(first) + Len(writes) :
                 (first \o writes)[k] = IF k <= Len(first) THEN first[k] ELSE writes[k - Len(first)]
        BY <1>1, <2>1, ConcatProperties, Zenon
      <4> QED
        BY <2>1, <3>1, <4>1
    <3>3. DOMAIN s = 1..(1 + Len(writes))
      BY <3>2
    <3> QED
      BY <3>1, <3>2, <3>3
  <2>3. \A k \in Carriers(s) : k - 1 \in DOMAIN Pieces /\ s[k] = writes[k - 1] /\ k \in Nat
    BY <2>1, <2>2 DEF Carriers
  <2>4. \A k, l \in Carriers(s) : s[k].range = s[l].range => k = l
    <3> SUFFICES ASSUME NEW k \in Carriers(s), NEW l \in Carriers(s), s[k].range = s[l].range
                 PROVE  k = l
      OBVIOUS
    <3>1. k - 1 = l - 1
      BY <1>3, <2>3
    <3> QED
      BY <2>3, <3>1
  <2> QED
    BY <1>2, <2>1, <2>2, <2>4 DEF Sparse
<1>6. CASE s \in {<<>>, <<Call("UNLINK", NoRange)>>}
  BY <1>6 DEF Sparse, Carriers, Call
<1> QED
  BY <1>4, <1>5, <1>6 DEF writes

LEMMA OpeningHead ==
  ASSUME stack # <<>>, buffer.base = "NULL", \A r \in Req : ~Opening(r)
  PROVE  Beginning
BY DEF Beginning

\* The script of a callback that is not onopen().
LEMMA OtherCode ==
  ASSUME NEW e, NEW s \in {<<>>, <<Call("READ", e)>>, <<Call("KEEP", e), Call("PRINT", NoRange)>>}
  PROVE  /\ Sparse(s) /\ Carriers(s) \subseteq {1}
         /\ \A k \in Carriers(s) : s[k].range = e
         /\ s # <<>> => Head(s).call # "BUFFER"
<1>1. CASE s = <<>>
  BY <1>1 DEF Sparse, Carriers
<1>2. CASE s = <<Call("READ", e)>>
  <2>1. DOMAIN s = {1} /\ s[1] = Call("READ", e) /\ Head(s) = s[1]
    BY <1>2
  <2> QED
    BY <2>1 DEF Sparse, Carriers, Call
<1>3. CASE s = <<Call("KEEP", e), Call("PRINT", NoRange)>>
  <2>1. /\ DOMAIN s = {1, 2} /\ Len(s) = 2 /\ Head(s) = s[1]
        /\ s[1] = Call("KEEP", e) /\ s[2] = Call("PRINT", NoRange)
    BY <1>3
  <2> QED
    BY <2>1 DEF Sparse, Carriers, Call
<1> QED
  BY <1>1, <1>2, <1>3

LEMMA SingleEntered ==
  ASSUME FileSound, Program, Placing, Single, Beginning, up, buffer' = buffer,
         NEW r \in Req, LoopStep(r), Entered, script' = Code(r)'
  PROVE  Single' /\ Beginning' /\ (NothingNew \/ buffer.base = "NULL")
<1>1. /\ Callback(r) /\ op' = op /\ opts' = opts /\ stage'[r] = "done"
      /\ stack' = <<[kind |-> "callback", req |-> r]>>
  BY Completion
<1>2. SameRequests /\ Unanswered(r)
  BY <1>1, LoopRequests, CallbackUnanswered
<1>3. /\ \A q \in Req : Carrying(q)' => Carrying(q) /\ q # r
      /\ \A q \in Req : Opening(q)' => Opening(q) /\ q # r
      /\ ~Unanswered(r)'
  BY <1>1, <1>2 DEF SameRequests, Carrying, Opening, Unanswered
<1>4. r \in Live
  BY <1>2 DEF Unanswered, FileSound, Progressing, Progress
<1>5. \A q \in Req : ~Opening(q)'
  BY <1>3, <1>4 DEF Beginning
<1>6. stack' # <<>>
  BY <1>1
<1>7. \A p, q \in Req : Carrying(p)' /\ Carrying(q)' /\ Extent(opts'[p]) = Extent(opts'[q]) => p = q
  BY <1>1, <1>3 DEF Single
<1>8. CASE op[r] = "OPEN"
  <2>1. Opening(r)
    BY <1>2, <1>8 DEF Opening
  <2>2. buffer.base = "NULL" /\ \A q \in Req : ~Carrying(q)
    BY <1>8, <2>1 DEF Beginning, Early, Carrying, Unanswered, FileSound, Progressing, Progress
  <2>3. script' = OnOpen'
    BY <1>1, <1>8 DEF Code
  <2>4. Sparse(script')
    BY <2>3, OpeningScript DEF OnOpen
  <2>5. Single'
    BY <1>3, <2>2, <2>4 DEF Single, Sparse, Carriers
  <2>6. Beginning'
    BY <1>5, <2>2 DEF Beginning
  <2> QED
    BY <2>2, <2>5, <2>6
<1>9. CASE op[r] # "OPEN"
  <2> DEFINE e == Extent(opts[r])
  <2>1. script' \in {<<>>, <<Call("READ", e)>>, <<Call("KEEP", e), Call("PRINT", NoRange)>>}
    BY <1>1, <1>9 DEF Code, Extent
  <2>2. script' # <<>> => Carrying(r)
    BY <1>1, <1>2, <1>9 DEF Code, Carrying
  <2> HIDE DEF e
  <2>3. /\ Sparse(script')
        /\ \A k \in Carriers(script') : script'[k].range = e
        /\ script' # <<>> => Head(script').call # "BUFFER"
    BY <2>1, OtherCode
  <2>4. \A k \in DOMAIN script' : Carrying(r)
    BY <2>2
  <2>5. Single'
    <3>1. ASSUME NEW q \in Req, NEW k \in Carriers(script'), Carrying(q)'
          PROVE  script'[k].range # Extent(opts'[q])
      <4>1. Carrying(r) /\ Carrying(q) /\ q # r /\ opts'[q] = opts[q]
        BY <1>1, <1>3, <2>4, <3>1 DEF Carriers
      <4>2. Extent(opts[q]) # e
        BY <4>1 DEF Single, e
      <4> QED
        BY <2>3, <4>1, <4>2
    <3> QED
      BY <1>7, <2>3, <3>1 DEF Single, Extent, Carriers, Sparse
  <2>6. NothingNew
    <3>1. Carrying(r) => \E i \in DOMAIN Pieces : Extent(Pieces[i]) = e
      BY DEF Carrying, Unanswered, Placing, Program, Requested, RequestedOf, Extents, e
    <3>2. \A i \in DOMAIN Pieces : Carrying(r) /\ Extent(Pieces[i]) = e => Underway(i)
      BY DEF Underway, e
    <3>3. ASSUME NEW i \in DOMAIN Pieces, Underway(i)' PROVE Underway(i)
      <4>1. ASSUME NEW q \in Req, Carrying(q)', Extent(opts'[q]) = Extent(Pieces[i])
            PROVE  Underway(i)
        BY <1>1, <1>3, <4>1 DEF Underway
      <4>2. ASSUME NEW k \in Carriers(script'), script'[k].range = Extent(Pieces[i])
            PROVE  Underway(i)
        BY <2>3, <2>4, <3>2, <4>2 DEF Carriers
      <4> QED
        BY <3>3, <4>1, <4>2 DEF Underway, Extent, Carriers
    <3> QED
      BY <2>4, <3>1, <3>2, <3>3 DEF NothingNew
  <2>7. Beginning'
    BY <1>5, <1>6, <2>3 DEF Beginning, Early, Upcoming
  <2> QED
    BY <2>5, <2>6, <2>7
<1> QED
  BY <1>8, <1>9

LEMMA OwnSingle ==
  ASSUME FileSound, Program, Single, Beginning, OwnStep
  PROVE  Single' /\ Beginning' /\ NothingNew /\ InCallback
<1>1. /\ script # <<>> /\ script' = Tail(script) /\ Head(script).call \in {"BUFFER", "KEEP", "PRINT"}
      /\ UNCHANGED <<stack, transfers, op>>
  BY OwnSteps DEF vars
<1>2. InCallback
  BY <1>1, MainCalls DEF Program, Conducted, InMain, Call
<1>3. SameRequests /\ Shortened /\ Conducted
  BY <1>1 DEF SameRequests, transfers, Unanswered, Shortened, Program
<1>4. Single' /\ NothingNew
  BY <1>3, SingleKept
<1>5. \A r \in Req : ~Opening(r)'
  BY <1>1, <1>3 DEF SameRequests, Opening, Beginning, Unanswered
<1>6. ~Upcoming("BUFFER")'
  <2>1. script \in Seq(Calls)
    BY <1>3, ScriptCalls
  <2>2. \A k \in DOMAIN script' : script'[k].call # "BUFFER"
    BY <1>1, <2>1, SparseTail DEF Single
  <2>3. script' # <<>> => 1 \in DOMAIN script' /\ script'[1] = Head(script')
    BY <1>1, <2>1, ScriptParts, TailCalls
  <2> QED
    BY <2>2, <2>3 DEF Upcoming
<1>7. stack' # <<>>
  BY <1>1, <1>2 DEF InCallback
<1> QED
  BY <1>2, <1>4, <1>5, <1>6, <1>7 DEF Beginning, Early

LEMMA OtherSingle ==
  ASSUME FileSound, Program, NoWrap, Placing, Single, Beginning, [PNext]_pvars, ~OwnStep
  PROVE  /\ Single' /\ Beginning' /\ (NothingNew \/ buffer.base = "NULL")
         /\ UNCHANGED <<buffer, heap, printed, began>>
<1>0. UNCHANGED <<buffer, heap, printed, began, memory>> /\ Conducted
  BY DEF PNext, Scripted, OwnStep, MainInit, CallBegins, CallMade, CallPanics, CallbackReturns,
         Looping, Elsewhere, pvars, memory, Program
<1>1. ASSUME NEW t \in Types, CallMade(t) PROVE Single' /\ Beginning' /\ NothingNew
  BY <1>1, SingleMade
<1>2. CASE ~ \E t \in Types : CallMade(t)
  <2>0. SameRequests
    BY <1>2, StepRequests
  <2>1. ASSUME Shortened, stack' = <<>> /\ script' # <<>> => stack = <<>>
        PROVE  Single' /\ Beginning' /\ NothingNew
    BY <1>0, <2>0, <2>1, SingleKept, BeginningKept
  <2>2. CASE MainInit
    <3>1. script # <<>> /\ script' = Tail(script) /\ Head(script).call = "INIT"
      BY <2>2 DEF MainInit, Do, Upcoming
    <3>2. stack = <<>>
      <4>1. ~InCallback
        BY <3>1, ScriptParts, EntryCalls DEF InCallback
      <4> QED
        BY <1>0, <3>1, <4>1 DEF Conducted, InMain
    <3> QED
      BY <1>0, <2>1, <3>1, <3>2 DEF Shortened
  <2>3. CASE UNCHANGED <<script, stack>>
    BY <1>0, <2>1, <2>3 DEF Shortened
  <2>4. ASSUME NEW t \in Types, CallBegins(t) \/ CallPanics(t)
        PROVE  Single' /\ Beginning' /\ (NothingNew \/ buffer.base = "NULL")
    BY <2>3, <2>4 DEF CallBegins, RafSet, AraSet, CallPanics, RafRefused, CallBadState, CallNoLoop,
                      CallInitFails, AraThrow, Panic, handle
  <2>5. CASE CallbackReturns
    BY <1>0, <2>1, <2>5 DEF CallbackReturns, Shortened
  <2>6. ASSUME NEW r \in Req,
               Looping(RafDeliver(r) \/ Worker(r) \/ Pool(r) \/ Callback(r) \/ RafUvClose(r), r)
        PROVE  Single' /\ Beginning' /\ (NothingNew \/ buffer.base = "NULL")
    <3>1. /\ Looping(LoopStep(r), r) /\ LoopStep(r)
          /\ script' = IF Entered THEN Code(r)' ELSE script
      BY <2>6 DEF Looping, LoopStep
    <3>2. up
      BY <3>1, UpBefore DEF Looping, RNext, LoopStep
    <3>3. CASE Entered
      BY <1>0, <3>1, <3>2, <3>3, SingleEntered
    <3>4. CASE ~Entered /\ script # <<>>
      <4>1. UNCHANGED <<script, stack>>
        BY <1>0, <3>1, <3>4, LoopQuiet DEF vars
      <4> QED
        BY <2>3, <4>1
    <3>5. CASE ~Entered /\ script = <<>>
      BY <2>1, <3>1, <3>5 DEF Shortened
    <3> QED
      BY <3>3, <3>4, <3>5
  <2>7. CASE UNCHANGED pvars
    BY <1>0, <2>3, <2>7 DEF pvars, rvars, vars
  <2> QED
    BY <1>0, <1>2, <2>2, <2>4, <2>5, <2>6, <2>7 DEF PNext, Scripted, OwnStep
<1> QED
  BY <1>0, <1>1, <1>2

-----------------------------------------------------------------------------
(***************************************************************************)
(* How many bytes the pieces fill.                                         *)
(***************************************************************************)
LEMMA FilledFacts ==
  ASSUME NEW K \in SUBSET DOMAIN Pieces
  PROVE  /\ IsFiniteSet(Filled(K)) /\ Cardinality(Filled(K)) \in Nat
         /\ Cardinality(Filled(K)) <= Total
         /\ Cardinality(Filled(K)) = Total => Filled(K) = 0..(Total - 1) /\ K = DOMAIN Pieces
<1>1. Total \in Nat \ {0} /\ 0 \in Int /\ Total - 1 \in Int
  BY PieceFacts
<1>2. IsFiniteSet(0..(Total - 1)) /\ Cardinality(0..(Total - 1)) = Total
  BY <1>1, FS_Interval
<1>3. Filled(K) \in SUBSET (0..(Total - 1))
  BY DEF Filled
<1>4. /\ IsFiniteSet(Filled(K)) /\ Cardinality(Filled(K)) <= Total
      /\ Cardinality(Filled(K)) = Total => Filled(K) = 0..(Total - 1)
  BY <1>2, <1>3, FS_Subset
<1>5. Cardinality(Filled(K)) \in Nat
  BY <1>4, FS_CardinalityType
<1>6. ASSUME Filled(K) = 0..(Total - 1), NEW i \in DOMAIN Pieces PROVE i \in K
  <2> DEFINE n == Pieces[i].offset
  <2>1. n \in Nat /\ InPiece(n, i)
    BY PieceFacts DEF InPiece, End
  <2> HIDE DEF n
  <2>2. n \in Filled(K)
    BY <1>6, <2>1, TextByte
  <2> QED
    BY <2>1, <2>2, OnePiece DEF Filled
<1> QED
  BY <1>4, <1>5, <1>6

LEMMA FilledMore ==
  ASSUME NEW K \in SUBSET DOMAIN Pieces, NEW i \in DOMAIN Pieces, i \notin K
  PROVE  /\ Filled(K \union {i}) = Filled(K) \union {n \in 0..(Total - 1) : InPiece(n, i)}
         /\ Cardinality(Filled(K \union {i})) = Cardinality(Filled(K)) + Pieces[i].length
<1> DEFINE bytes == Pieces[i].offset..(End(Pieces[i]) - 1)
<1>1. /\ Pieces[i].offset \in Nat /\ Pieces[i].length \in Nat \ {0} /\ Total \in Nat
      /\ End(Pieces[i]) = Pieces[i].offset + Pieces[i].length /\ End(Pieces[i]) <= Total
  BY PieceFacts DEF End
<1>2. {n \in 0..(Total - 1) : InPiece(n, i)} = bytes
  BY <1>1 DEF InPiece
<1>3. Filled(K \union {i}) = Filled(K) \union bytes
  BY <1>2 DEF Filled
<1>4. Filled(K) \intersect bytes = {}
  <2> SUFFICES ASSUME NEW n \in Filled(K), InPiece(n, i) PROVE FALSE
    BY <1>2 DEF Filled
  <2>1. PICK j \in K : n \in Nat /\ InPiece(n, j)
    BY DEF Filled
  <2> QED
    BY <2>1, OnePiece
<1>5. IsFiniteSet(bytes) /\ Cardinality(bytes) = Pieces[i].length
  <2>1. Pieces[i].offset \in Int /\ End(Pieces[i]) - 1 \in Int
    BY <1>1
  <2>2. /\ IsFiniteSet(bytes)
        /\ Cardinality(bytes) = IF Pieces[i].offset > End(Pieces[i]) - 1 THEN 0
                                ELSE (End(Pieces[i]) - 1) - Pieces[i].offset + 1
    BY <2>1, FS_Interval, Zenon
  <2> HIDE DEF bytes
  <2> QED
    BY <1>1, <2>2
<1>6. IsFiniteSet(Filled(K)) /\ Cardinality(Filled(K)) \in Nat
  BY FilledFacts
<1> HIDE DEF bytes
<1>7. Cardinality(Filled(K) \union bytes) = Cardinality(Filled(K)) + Cardinality(bytes) - Cardinality({})
  BY <1>4, <1>5, <1>6, FS_Union
<1>8. Cardinality({}) = 0
  BY FS_EmptySet
<1>9. Cardinality(Filled(K \union {i})) = Cardinality(Filled(K)) + Pieces[i].length
  <2>1. Cardinality(Filled(K \union {i})) = Cardinality(Filled(K) \union bytes)
    BY <1>3, Zenon
  <2> QED
    BY <1>1, <1>5, <1>6, <1>7, <1>8, <2>1
<1> QED
  BY <1>2, <1>3, <1>9

-----------------------------------------------------------------------------
(***************************************************************************)
(* What the program counts and prints.                                     *)
(***************************************************************************)
LEMMA TallyKept ==
  ASSUME Tally, NothingNew, UNCHANGED <<buffer, heap, printed, began>>
  PROVE  Tally'
<1>1. Ready' <=> Ready
  BY DEF Ready
<1>2. CASE ~Ready
  BY <1>1, <1>2 DEF Tally
<1>3. CASE Ready
  <2>1. PICK K \in SUBSET DOMAIN Pieces : Holds(K)
    BY <1>3 DEF Tally
  <2>2. \A i \in K : ~Underway(i)'
    BY <2>1 DEF Holds, NothingNew
  <2>3. ASSUME K = DOMAIN Pieces, \A k \in DOMAIN script : script[k].call # "PRINT"
        PROVE  \A k \in DOMAIN script' : script'[k].call # "PRINT"
    BY <2>1, <2>3 DEF Holds, NothingNew
  <2>4. Holds(K)'
    <3>1. printed' = <<>> \/ (printed' = <<Text>> /\ K = DOMAIN Pieces
                                /\ \A k \in DOMAIN script' : script'[k].call # "PRINT")
      BY <2>1, <2>3 DEF Holds
    <3>2. /\ buffer'.written = Cardinality(Filled(K))
          /\ \A n \in Filled(K) : heap'[buffer'.base][n] = Text[n]
      BY <2>1 DEF Holds
    <3> QED
      BY <2>2, <3>1, <3>2 DEF Holds, Underway
  <2> QED
    BY <1>1, <1>3, <2>4 DEF Tally
<1> QED
  BY <1>2, <1>3

LEMMA BufferMadeTally ==
  ASSUME BufferMade, Beginning, Tally, size = began, began \in Nat \ {0}
  PROVE  Tally'
<1>1. Ready'
  BY BufferMadeReady
<1>2. buffer.base = "NULL"
  BY DEF BufferMade, Do, Beginning, Early
<1>3. printed' = <<>>
  BY <1>2 DEF Tally, Ready, BufferMade, Elsewhere
<1>4. buffer'.written = 0
  <2>1. PICK outcome \in Own!Inits(buffer, heap, size) : buffer' = outcome.buffer
    BY Zenon DEF BufferMade, Own!BufferInit, Own!Leaves
  <2>2. PICK id \in Regions \ DOMAIN heap :
          outcome = [buffer |-> [base |-> id, length |-> size, view |-> [base |-> id, len |-> size],
                                 mut |-> buffer.mut, written |-> 0],
                     heap |-> Own!Allot(heap, id, [i \in 0..(size - 1) |-> "zero"]),
                     spilled |-> spilled, ok |-> TRUE]
    BY <2>1, InitMakes
  <2> QED
    BY <2>1, <2>2
<1>5. Filled({}) = {} /\ Cardinality({}) = 0
  BY FS_EmptySet DEF Filled
<1>6. Holds({})'
  BY <1>3, <1>4, <1>5 DEF Holds
<1> QED
  BY <1>1, <1>6 DEF Tally

LEMMA KeptTally ==
  ASSUME FileSound, Program, Roomy, NoWrap, Placing, Single, NothingNew, Ready, Tally, Kept,
         InCallback, began \in Nat, SameRequests
  PROVE  Tally'
<1> DEFINE range == Head(script).range
<1>1. /\ script # <<>> /\ script' = Tail(script) /\ Head(script).call = "KEEP"
      /\ UNCHANGED <<printed, transfers, op>>
  BY DEF Kept, Do, Upcoming, Elsewhere, vars
<1>2. range \in Extents
  BY <1>1, ScriptParts DEF Placing, Placed
<1>3. PICK i \in DOMAIN Pieces : range = Extent(Pieces[i])
  BY <1>2 DEF Extents
<1>4. /\ range.offset = Pieces[i].offset /\ range.length = Pieces[i].length
      /\ range \in [offset : Nat, length : Nat]
      /\ End(range) = End(Pieces[i]) /\ End(range) <= Total /\ Total <= began /\ Total \in Nat
  BY <1>2, <1>3, PieceFacts DEF Extent, End, Roomy
<1>5. End(range) <= began
  BY <1>4, PieceFacts DEF End
<1>6. /\ Ready'
      /\ buffer' = [buffer EXCEPT !.written = Own!Counted(buffer, range.length)]
      /\ heap' = Own!Copied(heap, buffer.base, range, Stored(range))
  BY <1>4, <1>5, KeptReady
<1>7. PICK K \in SUBSET DOMAIN Pieces : Holds(K)
  BY DEF Tally
<1>8. 1 \in Carriers(script) /\ \A k \in Carriers(script') : script'[k].range # range
  BY <1>1, ScriptCalls, SparseTail DEF Single, Program
<1>9. Underway(i) /\ i \notin K
  <2>1. script[1] = Head(script)
    BY <1>1, ScriptCalls, TailCalls DEF Program
  <2>2. Underway(i)
    BY <1>3, <1>8, <2>1 DEF Underway
  <2> QED
    BY <1>7, <2>2 DEF Holds
<1> HIDE DEF range
<1>10. ~Underway(i)'
  <2>1. \A r \in Req : Carrying(r)' => Carrying(r) /\ opts'[r] = opts[r]
    BY CarriedSame
  <2>2. \A r \in Req : Carrying(r) => Extent(opts[r]) # Extent(Pieces[i])
    <3>1. script[1].range = Extent(Pieces[i])
      BY <1>1, <1>3, ScriptCalls, TailCalls DEF Program, range
    <3> QED
      BY <1>8, <3>1 DEF Single
  <2> QED
    BY <1>3, <1>8, <2>1, <2>2 DEF Underway, Extent, Carriers
<1>11. printed = <<>>
  BY <1>7, <1>9 DEF Holds
<1> DEFINE J == K \union {i}
<1>12. \A j \in J : ~Underway(j)'
  BY <1>7, <1>10 DEF Holds, NothingNew
<1>13. buffer'.written = Cardinality(Filled(J))
  <2>1. J \in SUBSET DOMAIN Pieces
    OBVIOUS
  <2>2. /\ Cardinality(Filled(J)) = buffer.written + range.length
        /\ Cardinality(Filled(J)) \in Nat /\ Cardinality(Filled(J)) <= Total
    BY <1>4, <1>7, <1>9, <2>1, FilledMore, FilledFacts DEF Holds
  <2>3. Total < Wrap /\ Total \in Nat
    <3>1. Extent(Pieces[Len(Pieces)]) \in Ranges /\ Total \in Nat
      <4>1. Len(Pieces) \in DOMAIN Pieces
        BY PieceFacts
      <4> QED
        BY <4>1, PieceFacts DEF Extents
    <3>2. Total = Extent(Pieces[Len(Pieces)]).offset + Extent(Pieces[Len(Pieces)]).length
      BY DEF Total, End, Extent
    <3> QED
      BY <3>1, <3>2 DEF NoWrap
  <2>4. buffer'.written = (buffer.written + range.length) % Wrap
    <3>1. buffer'.written = Own!Counted(buffer, range.length)
      BY <1>6 DEF Ready
    <3> QED
      BY <3>1 DEF Own!Counted
  <2>5. (buffer.written + range.length) % Wrap = buffer.written + range.length
    BY <2>2, <2>3, SmallMod, ConstantFacts
  <2> QED
    BY <2>2, <2>4, <2>5
<1>14. ASSUME NEW n \in Filled(J) PROVE heap'[buffer'.base][n] = Text[n]
  <2>1. n \in Nat /\ n \in 0..(Total - 1) /\ n \in DOMAIN heap[buffer.base]
    BY <1>4 DEF Filled, Ready
  <2>2. buffer'.base = buffer.base
    BY <1>6 DEF Ready
  <2>3. heap'[buffer.base][n] = IF Own!Covers(range, n) THEN Stored(range) ELSE heap[buffer.base][n]
    BY <1>6, <2>1 DEF Own!Copied, Ready
  <2>4. CASE Own!Covers(range, n)
    BY <1>2, <2>1, <2>2, <2>3, <2>4, StoredBytes DEF Own!Covers, End, range
  <2>5. CASE ~Own!Covers(range, n)
    <3>1. ~InPiece(n, i)
      BY <1>4, <2>5 DEF InPiece, Own!Covers, End
    <3>2. n \in Filled(K)
      BY <3>1 DEF Filled
    <3> QED
      BY <1>7, <2>2, <2>3, <2>5, <3>2 DEF Holds
  <2> QED
    BY <2>4, <2>5
<1>15. Holds(J)'
  BY <1>1, <1>11, <1>12, <1>13, <1>14 DEF Holds
<1>16. J \in SUBSET DOMAIN Pieces
  OBVIOUS
<1> QED
  BY <1>6, <1>15, <1>16 DEF Tally

LEMMA PrintedTally ==
  ASSUME FileSound, Program, Roomy, Single, NothingNew, Ready, Tally, Printed,
         size = began, began \in Nat \ {0}
  PROVE  Tally'
<1>1. /\ script # <<>> /\ script' = Tail(script) /\ Head(script).call = "PRINT"
      /\ size = buffer.written
  BY DEF Printed, Do, Upcoming, AllKept
<1>2. PICK K \in SUBSET DOMAIN Pieces : Holds(K)
  BY DEF Tally
<1>3. began = Total /\ Filled(K) = 0..(Total - 1) /\ K = DOMAIN Pieces
  <2>1. buffer.written = Cardinality(Filled(K))
    BY <1>2 DEF Holds
  <2> QED
    BY <1>1, <2>1, FilledFacts, PieceFacts DEF Roomy
<1>4. script' = <<>> /\ 1 \in DOMAIN script /\ script[1].call = "PRINT"
  BY <1>1, ScriptCalls, SparseTail, TailCalls DEF Single, Program
<1>5. printed = <<>>
  BY <1>2, <1>4 DEF Holds
<1>6. /\ Ready' /\ UNCHANGED <<buffer, heap>>
      /\ printed' = Append(printed, [i \in 0..(began - 1) |-> heap[buffer.base][i]])
  BY PrintedReady
<1>7. [i \in 0..(began - 1) |-> heap[buffer.base][i]] = Text
  <2>1. \A i \in 0..(Total - 1) : heap[buffer.base][i] = Text[i]
    BY <1>2, <1>3 DEF Holds
  <2>2. Text = [i \in 0..(Total - 1) |-> Text[i]]
    BY DEF Text
  <2> QED
    BY <1>3, <2>1, <2>2
<1>8. printed' = <<Text>>
  BY <1>5, <1>6, <1>7
<1>9. Holds(K)'
  <2>1. \A i \in K : ~Underway(i)'
    BY <1>2 DEF Holds, NothingNew
  <2>2. /\ buffer'.written = Cardinality(Filled(K))
        /\ \A n \in Filled(K) : heap'[buffer'.base][n] = Text[n]
    BY <1>2, <1>6 DEF Holds
  <2>3. \A k \in DOMAIN script' : script'[k].call # "PRINT"
    BY <1>4
  <2> QED
    BY <1>3, <1>8, <2>1, <2>2, <2>3 DEF Holds
<1> QED
  BY <1>6, <1>9 DEF Tally

(***************************************************************************)
(* The program on a file with room for its text.                           *)
(***************************************************************************)
Counting == Roomy /\ NoWrap /\ WritesSucceed => Single /\ Beginning /\ Tally

LEMMA CountingInit == PInit => Counting
<1> SUFFICES ASSUME PInit PROVE Single /\ Beginning /\ Tally
  BY DEF Counting
<1>1. /\ \A r \in Req : ~Unanswered(r)
      /\ script = Main /\ buffer.base = "NULL" /\ printed = <<>>
  BY OwnConstants DEF PInit, RInit, Own!BInit, Own!Zeroed, Main, Unanswered
<1>2. Sparse(script) /\ Carriers(script) = {}
  BY <1>1 DEF Sparse, Carriers, Main, Call
<1> QED
  BY <1>1, <1>2 DEF Single, Beginning, Tally, Ready, Carrying, Opening

LEMMA OwnTally ==
  ASSUME FileSound, Program, Roomy, NoWrap, Sized, Buffered, Placing, Single, Beginning, Tally,
         OwnStep
  PROVE  Tally'
<1>1. InCallback /\ NothingNew
  BY OwnSingle
<1>2. /\ UNCHANGED <<op, transfers, began>> /\ script # <<>>
      /\ Head(script).call \in {"BUFFER", "KEEP", "PRINT"}
  BY OwnSteps DEF vars
<1>3. size = began /\ began \in Nat \ {0}
  BY <1>2, RunningCode
<1>4. SameRequests
  BY <1>2 DEF SameRequests, transfers, Unanswered
<1>5. CASE BufferMade
  BY <1>3, <1>5, BufferMadeTally
<1>6. ASSUME Head(script).call # "BUFFER" PROVE Ready
  BY <1>1, <1>2, <1>6 DEF Buffered, Unmade, Call
<1>7. CASE Kept
  BY <1>1, <1>3, <1>4, <1>6, <1>7, KeptTally DEF Kept, Do, Upcoming
<1>8. CASE Printed
  BY <1>1, <1>3, <1>6, <1>8, PrintedTally DEF Printed, Do, Upcoming
<1>9. CASE NotPrinted
  BY <1>1, <1>2, <1>9, TallyKept DEF NotPrinted, Elsewhere, memory
<1> QED
  BY <1>5, <1>7, <1>8, <1>9 DEF OwnStep

LEMMA CountingStep ==
  /\ FileSound /\ Program /\ FileSound' /\ Program'
  /\ SpaciousFile /\ Faithful /\ Counting /\ [PNext]_pvars
  => Counting'
<1> SUFFICES ASSUME FileSound, Program, SpaciousFile, Faithful, Counting, [PNext]_pvars,
                    Roomy', NoWrap', WritesSucceed'
             PROVE  Single' /\ Beginning' /\ Tally'
  BY DEF Counting
<1>1. Roomy /\ NoWrap /\ WritesSucceed
  BY OnceSet DEF Roomy, NoWrap, WritesSucceed
<1>2. Single /\ Beginning /\ Tally /\ Sized /\ Buffered /\ Placing
  BY <1>1 DEF Counting, SpaciousFile, Faithful
<1>3. CASE OwnStep
  BY <1>1, <1>2, <1>3, OwnSingle, OwnTally
<1>4. CASE ~OwnStep
  <2>1. /\ Single' /\ Beginning' /\ (NothingNew \/ buffer.base = "NULL")
        /\ UNCHANGED <<buffer, heap, printed, began>>
    BY <1>1, <1>2, <1>4, OtherSingle
  <2>2. CASE NothingNew
    BY <1>2, <2>1, <2>2, TallyKept
  <2>3. CASE buffer.base = "NULL"
    BY <1>2, <2>1, <2>3 DEF Tally, Ready
  <2> QED
    BY <2>1, <2>2, <2>3
<1> QED
  BY <1>3, <1>4

LEMMA CountingInvariant == PSpec => []Counting
BY ProgramInvariant, SpaciousInvariant, FaithfulInvariant, CountingInit, CountingStep, PTL DEF PSpec

\* On a file with room for its text the program prints nothing but the text,
\* whole and once (PrintsText).
THEOREM PrintsItsText == PSpec => []PrintsText
<1>1. Counting => PrintsText
  BY DEF Counting, PrintsText, Tally, Holds
<1> QED
  BY <1>1, CountingInvariant, PTL
=============================================================================
