----------------------- MODULE RandomAccessFileProofs -----------------------
(***************************************************************************)
(* Theorems about example/raf for every number of requests, every set of   *)
(* ranges, every width of the offsets and every choice of what may fail.   *)
(***************************************************************************)
EXTENDS RandomAccessFile, AraProofs

-----------------------------------------------------------------------------
(***************************************************************************)
(* What the steps of Ara do to the workers, the frames and the callbacks.  *)
(***************************************************************************)
WorkFrame(r) == \E i \in DOMAIN stack : stack[i] = [kind |-> "work", req |-> r]

\* Entering a callback adds no frame of a worker, leaving a frame adds nothing.
LEMMA EnterCallback ==
  ASSUME TypeOK, NEW r \in Req, Enter("callback", r)
  PROVE  /\ \A q : WorkFrame(q)' => WorkFrame(q)
         /\ Calling' = Calling \union {r}
<1> DEFINE f == [kind |-> "callback", req |-> r]
<1>1. stack \in Seq(Frames) /\ f \in Frames
  BY DEF TypeOK, Frames
<1>2. stack' = Append(stack, f)
  BY DEF Enter
<1>3. /\ DOMAIN stack = 1..Len(stack)
      /\ Len(stack) \in Nat
      /\ DOMAIN stack' = 1..(Len(stack) + 1)
      /\ \A i \in DOMAIN stack : stack'[i] = stack[i]
      /\ stack'[Len(stack) + 1] = f
  BY <1>1, <1>2, EnterStack
<1>4. f.kind = "callback" /\ f.req = r
  OBVIOUS
<1>5. \A q : WorkFrame(q)' => WorkFrame(q)
  <2> SUFFICES ASSUME NEW q, NEW i \in DOMAIN stack',
                      stack'[i] = [kind |-> "work", req |-> q]
               PROVE  WorkFrame(q)
    BY DEF WorkFrame
  <2>1. [kind |-> "work", req |-> q].kind = "work"
    OBVIOUS
  <2>2. i \in DOMAIN stack
    BY <1>3, <1>4, <2>1
  <2> QED
    BY <1>3, <2>2 DEF WorkFrame
<1>6. Calling' = Calling \union {r}
  BY <1>3, <1>4 DEF Calling, IsCallback
<1> QED
  BY <1>5, <1>6

LEMMA LeaveFrame ==
  ASSUME TypeOK, stack # <<>>, Leave
  PROVE  /\ \A q : WorkFrame(q)' => WorkFrame(q)
         /\ Calling' \subseteq Calling
<1>1. stack \in Seq(Frames)
  BY DEF TypeOK
<1>2. /\ DOMAIN stack' \subseteq DOMAIN stack
      /\ \A i \in DOMAIN stack' : stack'[i] = stack[i]
  BY <1>1, LeaveStack DEF Leave
<1>3. \A q : WorkFrame(q)' => WorkFrame(q)
  BY <1>2 DEF WorkFrame
<1>4. Calling' \subseteq Calling
  BY <1>2 DEF Calling, IsCallback
<1> QED
  BY <1>3, <1>4

\* on_done() starts no worker, and calls back nobody but its own client.
LEMMA DoneFrames ==
  ASSUME TypeOK, NEW r \in Req, NEW e, OnDone(r, e)
  PROVE  /\ \A q : WorkFrame(q)' => WorkFrame(q)
         /\ Calling' \subseteq Calling \union {r}
         /\ op' = op
<1>1. CASE Notify(r, e)
  BY <1>1, EnterCallback DEF Notify
<1>2. CASE DropPending(r, e) \/ DropBadState(r, e)
  BY <1>2 DEF DropPending, DropBadState, ReqEnd, WorkFrame, Calling, IsCallback
<1> QED
  BY <1>1, <1>2 DEF OnDone

\* A delivery may start the worker of its request, which then holds it.
LEMMA DeliverFrames ==
  ASSUME Ownership, NEW r \in Req, OnAsyncBegin(r)
  PROVE  /\ \A q : WorkFrame(q)' =>
                     \/ WorkFrame(q)
                     \/ q = r /\ r \in held' /\ status \in Op[op[r]].starts
         /\ Calling' \subseteq Calling \union {r}
         /\ op' = op
         /\ held \subseteq held'
         /\ r \in sent
         /\ sent' = sent \ {r}
         /\ stack = <<>>
<1>1. TypeOK /\ stack \in Seq(Frames)
  BY DEF Ownership, TypeOK
<1>2. r \in sent /\ sent' = sent \ {r} /\ stack = <<>>
  BY DEF OnAsyncBegin, BeginNoCallback, BeginWork, BeginUnserved, BeginJoin, BeginBadState, Deliver
<1>3. CASE BeginNoCallback(r) \/ BeginUnserved(r)
  BY <1>2, <1>3 DEF BeginNoCallback, BeginUnserved, WorkFrame, Calling, IsCallback
<1>4. CASE BeginWork(r)
  <2> DEFINE f == [kind |-> "work", req |-> r]
  <2>1. f \in Frames /\ stack' = Append(stack, f)
    BY <1>4 DEF BeginWork, Enter, Frames
  <2>2. DOMAIN stack' = {1} /\ stack'[1] = f
    BY <1>2, <2>1
  <2>3. f.kind = "work" /\ f.req = r
    OBVIOUS
  <2>4. Calling' = {}
    BY <2>2, <2>3 DEF Calling, IsCallback
  <2>5. \A q : WorkFrame(q)' => q = r
    <3> SUFFICES ASSUME NEW q, [kind |-> "work", req |-> q] = f
                 PROVE  q = r
      BY <2>2 DEF WorkFrame
    <3>1. [kind |-> "work", req |-> q].req = q
      OBVIOUS
    <3> QED
      BY <3>1, <2>3
  <2> QED
    BY <1>2, <1>4, <2>4, <2>5 DEF BeginWork
<1>5. CASE BeginJoin(r)
  BY <1>1, <1>2, <1>5, DoneFrames DEF BeginJoin
<1>6. CASE BeginBadState(r)
  BY <1>1, <1>2, <1>6, DoneFrames DEF BeginBadState
<1> QED
  BY <1>3, <1>4, <1>5, <1>6 DEF OnAsyncBegin

-----------------------------------------------------------------------------
(***************************************************************************)
(* Types, and what raf_read() makes of a range.                            *)
(***************************************************************************)

\* Whatever the range and the size, and although the sum wraps, what is left
\* of the range is part of it and no longer than the file.
LEMMA ClampType ==
  ASSUME NEW range \in [offset : Nat, length : Nat], NEW n \in Nat
  PROVE  LET c == Clamp(range, n)
         IN /\ c.offset \in Nat /\ c.length \in Nat
            /\ c.offset <= range.offset /\ c.length <= range.length
            /\ c.length <= n
<1>1. Wrap \in Nat \ {0}
  BY WrapAssumption
<1> QED
  BY <1>1 DEF Clamp

\* If the sum does not wrap the range ends with the file.
LEMMA ClampWithin ==
  ASSUME NEW range \in [offset : Nat, length : Nat], NEW n \in Nat,
         range.offset + range.length < Wrap
  PROVE  Clamp(range, n).offset + Clamp(range, n).length <= n
<1>1. Wrap \in Nat \ {0}
  BY WrapAssumption
<1> QED
  BY <1>1 DEF Clamp

LEMMA AskedType ==
  ASSUME size \in Nat, NEW t \in Types, NEW o \in Asked(t)
  PROVE  /\ o \in [offset : Nat, length : Nat, flags : Flags]
         /\ t \notin {"READ", "WRITE"} => o.offset = 0 /\ o.length = 0
         /\ NoWrap => o.offset + o.length < Wrap
         /\ NoWrap /\ t = "READ" => o.offset + o.length <= size
<1>0. /\ Wrap \in Nat \ {0}
      /\ Ranges \subseteq [offset : Nat, length : Nat]
      /\ Modes \subseteq Flags
      /\ "NONE" \in Flags
  BY WrapAssumption, RafAssumption DEF Flags
<1>1. CASE t = "OPEN"
  <2>1. PICK m \in Modes : o = [NoOpts EXCEPT !.flags = m]
    BY <1>1 DEF Asked
  <2>2. o = [offset |-> 0, length |-> 0, flags |-> m]
    BY <2>1 DEF NoOpts
  <2> QED
    BY <1>0, <1>1, <2>2
<1>2. CASE t = "READ"
  <2>1. PICK range \in Ranges : o = Transfer(Clamp(range, size))
    BY <1>2 DEF Asked
  <2>2. range \in [offset : Nat, length : Nat]
    BY <1>0
  <2>3. o = [offset |-> Clamp(range, size).offset, length |-> Clamp(range, size).length,
             flags |-> "NONE"]
    BY <2>1 DEF Transfer
  <2>4. /\ Clamp(range, size).offset \in Nat
        /\ Clamp(range, size).length \in Nat
        /\ Clamp(range, size).offset <= range.offset
        /\ Clamp(range, size).length <= range.length
    BY <2>2, ClampType
  <2>5. NoWrap => Clamp(range, size).offset + Clamp(range, size).length <= size
    BY <2>2, ClampWithin DEF NoWrap
  <2>6. NoWrap => range.offset + range.length < Wrap
    BY DEF NoWrap
  <2> QED
    BY <1>0, <1>2, <2>2, <2>3, <2>4, <2>5, <2>6
<1>3. CASE t = "WRITE"
  <2>1. PICK range \in Ranges : o = Transfer(range)
    BY <1>3 DEF Asked
  <2>2. o = [offset |-> range.offset, length |-> range.length, flags |-> "NONE"]
    BY <2>1 DEF Transfer
  <2> QED
    BY <1>0, <1>3, <2>2 DEF NoWrap
<1>4. CASE t \notin {"OPEN", "READ", "WRITE"}
  <2>1. o = [offset |-> 0, length |-> 0, flags |-> "NONE"]
    BY <1>4 DEF Asked, NoOpts
  <2> QED
    BY <1>0, <1>4, <2>1
<1> QED
  BY <1>1, <1>2, <1>3, <1>4

\* What a system call of a transfer may return.
LEMMA CountType ==
  ASSUME RTypeOK, NEW r \in Req, NEW t, NEW n \in Nat, NEW k \in Count(r, t, n)
  PROVE  k \in Nat \union {Failed} /\ k <= n
<1>1. Failed = -1
  BY DEF Failed
<1> QED
  BY <1>1 DEF Count

LEMMA FlagTypes ==
  ASSUME NEW flags \in Flags, NEW was \in BOOLEAN
  PROVE  ReadableBy(flags, was) \in BOOLEAN /\ WritableBy(flags, was) \in BOOLEAN
BY DEF ReadableBy, WritableBy, Has

LEMMA ConstantFacts ==
  /\ Failed = -1
  /\ Wrap \in Nat \ {0}
  /\ Sizes \subseteq Nat
  /\ Times \subseteq BOOLEAN
  /\ NoOpts \in [offset : Nat, length : Nat, flags : Flags]
  /\ NoView \in [base : Nat, left : Nat, at : Nat]
BY RafAssumption, WrapAssumption DEF Failed, NoOpts, NoView, Flags

LEMMA RafTypeInit == RInit => RTypeOK
<1> SUFFICES ASSUME RInit PROVE RTypeOK
  OBVIOUS
<1> QED
  BY ConstantFacts DEF RInit, RTypeOK, RafStages

\* Forgetting the RandomAccessFileRequest of r.
LEMMA ForgetType ==
  ASSUME RTypeOK, NEW r, Forget(r), UNCHANGED <<up, client, handle, file>>,
         region' \subseteq Req
  PROVE  RTypeOK'
BY ConstantFacts DEF RTypeOK, client, Forget, handle, file, RafStages

\* Nothing but the stage of a request changes.
LEMMA StageType ==
  ASSUME RTypeOK, NEW r, NEW s \in RafStages, stage' = [stage EXCEPT ![r] = s],
         UNCHANGED <<up, client, handle, file, opts, view, result, region, moved>>
  PROVE  RTypeOK'
BY DEF RTypeOK, client, handle, file

LEMMA WorkerType == ASSUME RTypeOK, NEW r \in Req, Worker(r) PROVE RTypeOK'
<1>1. ASSUME NEW t \in Types, WorkPanics(r, t) PROVE RTypeOK'
  BY <1>1 DEF WorkPanics, Panic, RTypeOK, client, handle, file, transfers
<1>2. ASSUME NEW t \in Types, WorkSubmits(r, t) PROVE RTypeOK'
  <2>1. opts[r] \in [offset : Nat, length : Nat, flags : Flags]
    BY DEF RTypeOK
  <2> QED
    BY <1>2, <2>1 DEF WorkSubmits, RTypeOK, client, handle, file, RafStages
<1>3. CASE WorkEnds(r)
  BY <1>3, StageType DEF WorkEnds, RafStages
<1>4. CASE WorkEndStalls(r)
  BY <1>4, StageType DEF WorkEndStalls, RafStages
<1>5. CASE WorkEndReturns(r)
  BY <1>5 DEF WorkEndReturns, rafvars, RTypeOK, client, handle, file, transfers
<1> QED
  BY <1>1, <1>2, <1>3, <1>4, <1>5 DEF Worker

LEMMA PoolType == ASSUME RTypeOK, NEW r \in Req, Pool(r) PROVE RTypeOK'
<1> USE ConstantFacts
<1>1. view[r] \in [base : Nat, left : Nat, at : Nat] /\ moved[r] \in Nat /\ fileSize \in Nat
  BY DEF RTypeOK
<1>2. ASSUME NEW t, NEW n \in Nat \union {Failed}, Serve(r, t, n),
             descriptor' \in BOOLEAN, fileSize' \in Nat, moved' \in [Req -> Nat]
      PROVE  RTypeOK'
  BY <1>2 DEF Serve, RTypeOK, client, handle, RafStages
<1>3. ASSUME NEW n \in Nat \union {Failed}, Move(r, n)
      PROVE  moved' \in [Req -> Nat]
  BY <1>1, <1>3 DEF Move, RTypeOK
<1>4. ASSUME NEW t, NEW n \in Outcome(t)
      PROVE  n \in Nat \union {Failed}
  BY <1>4 DEF Outcome
<1>5. CASE ServeOpen(r)
  BY <1>2, <1>4, <1>5 DEF ServeOpen, RTypeOK
<1>6. CASE ServeClose(r)
  BY <1>2, <1>4, <1>6 DEF ServeClose, RTypeOK
<1>7. CASE ServeUnlink(r)
  BY <1>2, <1>4, <1>7 DEF ServeUnlink, RTypeOK, file
<1>8. CASE ServeRead(r)
  <2> DEFINE there == IF view[r].at < fileSize THEN fileSize - view[r].at ELSE 0
  <2>1. PICK n \in Count(r, "READ", Least(view[r].left, there)) :
          Serve(r, "READ", n) /\ Move(r, n) /\ UNCHANGED file
    BY <1>8 DEF ServeRead
  <2>2. Least(view[r].left, there) \in Nat
    BY <1>1 DEF Least
  <2>3. n \in Nat \union {Failed}
    BY <2>2, CountType
  <2> QED
    BY <1>2, <1>3, <2>1, <2>3 DEF RTypeOK, file
<1>9. CASE ServeWrite(r)
  <2>1. PICK n \in Count(r, "WRITE", view[r].left) :
          /\ Serve(r, "WRITE", n)
          /\ Move(r, n)
          /\ fileSize' = IF n > 0 /\ view[r].at + n > fileSize THEN view[r].at + n ELSE fileSize
          /\ UNCHANGED descriptor
    BY <1>9 DEF ServeWrite
  <2>2. n \in Nat \union {Failed}
    BY <1>1, CountType
  <2>3. fileSize' \in Nat
    BY <1>1, <2>1, <2>2
  <2> QED
    BY <1>2, <1>3, <2>1, <2>2, <2>3 DEF RTypeOK
<1>10. CASE ServeStat(r)
  BY <1>1, <1>10 DEF ServeStat, RTypeOK, client, handle, file, RafStages
<1> QED
  BY <1>5, <1>6, <1>7, <1>8, <1>9, <1>10 DEF Pool

LEMMA CallbackType == ASSUME RTypeOK, NEW r \in Req, Callback(r) PROVE RTypeOK'
<1> USE ConstantFacts
<1>1. /\ view[r] \in [base : Nat, left : Nat, at : Nat]
      /\ opts[r] \in [offset : Nat, length : Nat, flags : Flags]
      /\ result[r] \in Nat \union {Failed}
  BY DEF RTypeOK
<1>2. ASSUME FsDone(r), UNCHANGED handle
      PROVE  RTypeOK'
  BY <1>2, StageType DEF FsDone, RafStages
<1>3. CASE OnFsOpen(r)
  <2>1. ReadableBy(opts[r].flags, readable) \in BOOLEAN
        /\ WritableBy(opts[r].flags, writable) \in BOOLEAN
    BY <1>1, FlagTypes DEF RTypeOK
  <2>2. stage' \in [Req -> RafStages]
    BY <1>3 DEF OnFsOpen, RTypeOK, RafStages
  <2> QED
    BY <1>3, <2>1, <2>2 DEF OnFsOpen, RTypeOK, client, file
<1>4. ASSUME NEW t \in Types, OnFsPlain(r, t) PROVE RTypeOK'
  BY <1>2, <1>4 DEF OnFsPlain
<1>5. ASSUME NEW t, Resume(r, t) PROVE RTypeOK'
  <2>1. result[r] \in Nat /\ Left(r) = view[r].left - result[r] /\ Left(r) > 0
    BY <1>1, <1>5 DEF Resume, Left
  <2>2. /\ view[r].base + result[r] \in Nat
        /\ Left(r) \in Nat
    BY <1>1, <2>1
  <2>4. opts[r].offset + (opts[r].length - Left(r)) \in Int
    BY <1>1, <2>2
  <2>3. (opts[r].offset + (opts[r].length - Left(r))) % Wrap \in Nat
    BY <2>4
  <2> QED
    BY <1>5, <2>2, <2>3 DEF Resume, RTypeOK, client, handle, file, RafStages
<1>6. CASE OnFsRead(r)
  BY <1>2, <1>6 DEF OnFsRead
<1>7. CASE OnFsWrite(r)
  BY <1>7, StageType DEF OnFsWrite, RafStages
<1>8. CASE OnFsStat(r)
  <2>1. size' \in Nat /\ dated' \in BOOLEAN
    BY <1>1, <1>8 DEF OnFsStat
  <2> QED
    BY <1>8, <2>1 DEF OnFsStat, FsDone, RTypeOK, client, file, RafStages
<1>9. CASE OnFsFailure(r)
  BY <1>9 DEF OnFsFailure, FsFails, Panic, RTypeOK, client, handle, file, transfers
<1> QED
  BY <1>3, <1>4, <1>5, <1>6, <1>7, <1>8, <1>9 DEF Callback

LEMMA RafTypeStep == TypeOK /\ RTypeOK /\ [RNext]_rvars => RTypeOK'
<1> SUFFICES ASSUME TypeOK, RTypeOK, [RNext]_rvars PROVE RTypeOK'
  OBVIOUS
<1>1. ASSUME RafInit PROVE RTypeOK'
  BY <1>1 DEF RafInit, RTypeOK, client, file, transfers
<1>2. ASSUME NEW t \in Types, RafSet(t) PROVE RTypeOK'
  BY <1>2 DEF RafSet, RTypeOK, handle, file, transfers
<1>3. ASSUME NEW t \in Types, NEW r \in Req, NEW o \in Asked(t), RafAccepted(t, r, o)
      PROVE  RTypeOK'
  <2>1. o \in [offset : Nat, length : Nat, flags : Flags]
    BY AskedType DEF RTypeOK
  <2>2. region' \subseteq Req
    BY <1>3 DEF RafAccepted, RTypeOK
  <2> QED
    BY <1>3, <2>1, <2>2 DEF RafAccepted, RTypeOK, handle, file, RafStages
<1>4. ASSUME NEW t \in Types, RafRefused(t) PROVE RTypeOK'
  BY <1>4 DEF RafRefused, Panic, RTypeOK, client, handle, file, transfers
<1>5. CASE RafReturn
  BY <1>5, ForgetType DEF RafReturn, RTypeOK
<1>6. ASSUME NEW r \in Req, RafDeliver(r) PROVE RTypeOK'
  BY <1>6 DEF RafDeliver, rafvars, RTypeOK, client, handle, file, transfers
<1>7. ASSUME NEW r \in Req, RafUvClose(r) PROVE RTypeOK'
  BY <1>7, ForgetType DEF RafUvClose, RTypeOK
<1>8. CASE UNCHANGED rvars
  BY <1>8 DEF rvars, rafvars, RTypeOK, client, handle, file, transfers
<1> QED
  BY <1>1, <1>2, <1>3, <1>4, <1>5, <1>6, <1>7, <1>8, WorkerType, PoolType, CallbackType
     DEF RNext, Client

-----------------------------------------------------------------------------
(***************************************************************************)
(* Who owns a request that the pool works on.  A frame of its worker is    *)
(* all that a request has between the delivery and the file-system call.   *)
(***************************************************************************)
Owned ==
  \A r \in Req :
    /\ r \in sent => stage[r] = "asked"
    /\ InFlight(r) => r \in held /\ op[r] # "END"
    /\ stage[r] = "asked" /\ WorkFrame(r) => r \in held
    /\ /\ "ALLOC" \notin Faults
       /\ InFlight(r) \/ stage[r] = "asked"
       /\ opts[r].length > 0
       => r \in region

LEMMA OwnedInit == RInit => Owned
<1> SUFFICES ASSUME RInit PROVE Owned
  OBVIOUS
<1> QED
  BY DEF RInit, Init, Owned, InFlight, WorkFrame

\* A worker holds its request until it has called done() or started I/O.
LEMMA WorkerHolds ==
  ASSUME Ownership, Owned, NEW r \in Req, NEW t, Starts(r, t)
  PROVE  r \in held /\ r \notin sent
<1>1. stack \in Seq(Frames) /\ stack # <<>>
  BY DEF Ownership, TypeOK, Starts
<1>2. Len(stack) \in DOMAIN stack
  BY <1>1
<1>3. WorkFrame(r)
  BY <1>2 DEF Starts, Top, WorkFrame
<1> QED
  BY <1>3 DEF Starts, Owned, Ownership, OneOwner

\* The callback of a file-system request finds its request still held.
LEMMA CallbackHolds ==
  ASSUME Ownership, Owned, NEW r \in Req, Callback(r)
  PROVE  InFlight(r) /\ r \in held /\ r \notin sent
<1>1. InFlight(r)
  BY DEF Callback, OnFsOpen, OnFsPlain, Resume, OnFsRead, OnFsWrite, OnFsStat, OnFsFailure,
         Returned, InFlight
<1> QED
  BY <1>1 DEF Owned, Ownership, OneOwner

\* So the done() of a worker or of a callback is one its request was owed.
LEMMA DoneIsOwed ==
  ASSUME Ownership, Owned, NEW r \in Req
  PROVE  /\ WorkEnds(r) => WorkDone(r)
         /\ Callback(r) /\ FsDone(r) => WorkDone(r)
<1>1. WorkEnds(r) => WorkDone(r)
  BY WorkerHolds DEF WorkEnds, WorkDone
<1>2. Callback(r) /\ FsDone(r) => WorkDone(r)
  BY CallbackHolds DEF FsDone, WorkDone
<1> QED
  BY <1>1, <1>2

\* A step of an owner: only the stage and the stack may change.
LEMMA OwnedStage ==
  ASSUME RTypeOK, Owned, NEW r \in Req, NEW s, r \in held, r \notin sent,
         stage' = [stage EXCEPT ![r] = s], s # "asked",
         s \in {"queued", "served", "statting", "statted"} => op[r] # "END" /\ held' = held
                                                             /\ (InFlight(r) \/ stage[r] = "asked"),
         \A q \in Req : WorkFrame(q)' => WorkFrame(q),
         held \ {r} \subseteq held', sent' = sent, op' = op, opts' = opts, region' = region
  PROVE  Owned'
<1>1. \A q \in Req : stage'[q] = IF q = r THEN s ELSE stage[q]
  BY DEF RTypeOK
<1> QED
  BY <1>1 DEF Owned, InFlight

LEMMA OwnedWorker == ASSUME Ownership, RTypeOK, Owned, NEW r \in Req, Worker(r) PROVE Owned'
<1>1. TypeOK /\ OneOwner
  BY DEF Ownership
<1>2. ASSUME NEW t, Starts(r, t) PROVE r \in held /\ r \notin sent
  BY <1>2, WorkerHolds
<1>3. ASSUME ReturnWork
      PROVE  /\ \A q \in Req : WorkFrame(q)' => WorkFrame(q)
             /\ held' = held /\ sent' = sent /\ op' = op
  BY <1>1, <1>3, LeaveFrame DEF ReturnWork, requests
<1>4. ASSUME NEW t \in Types, WorkPanics(r, t) PROVE Owned'
  BY <1>4 DEF WorkPanics, Panic, vars, transfers, Owned, InFlight, WorkFrame
<1>5. ASSUME NEW t \in Types, WorkSubmits(r, t) PROVE Owned'
  <2>1. r \in held /\ r \notin sent /\ stage[r] = "asked" /\ op[r] # "END"
    BY <1>2, <1>5 DEF WorkSubmits, Starts
  <2> QED
    BY <1>3, <1>5, <2>1, OwnedStage DEF WorkSubmits
<1>6. CASE WorkEnds(r)
  <2>1. r \in held /\ r \notin sent
    BY <1>2, <1>6 DEF WorkEnds
  <2>2. held' = held \ {r} /\ sent' = sent
    BY <1>6 DEF WorkEnds, Done
  <2>3. (\A q \in Req : WorkFrame(q)' => WorkFrame(q)) /\ op' = op
    BY <1>1, <1>6, DoneFrames DEF WorkEnds, Done
  <2> QED
    BY <1>6, <2>1, <2>2, <2>3, OwnedStage DEF WorkEnds
<1>7. CASE WorkEndStalls(r)
  <2>1. r \in held /\ r \notin sent
    BY <1>2, <1>7 DEF WorkEndStalls
  <2> QED
    BY <1>3, <1>7, <2>1, OwnedStage DEF WorkEndStalls
<1>8. CASE WorkEndReturns(r)
  BY <1>3, <1>8 DEF WorkEndReturns, rafvars, transfers, Owned, InFlight
<1> QED
  BY <1>4, <1>5, <1>6, <1>7, <1>8 DEF Worker

\* What the pool serves was in flight, and stays so.
LEMMA PoolServes ==
  ASSUME NEW r \in Req, Pool(r)
  PROVE  /\ UNCHANGED <<vars, up, client, handle, opts, view, region>>
         /\ up
         /\ \/ stage[r] = "queued" /\ stage' = [stage EXCEPT ![r] = "served"]
            \/ stage[r] = "statting" /\ stage' = [stage EXCEPT ![r] = "statted"]
BY DEF Pool, ServeOpen, ServeClose, ServeUnlink, ServeRead, ServeWrite, ServeStat, Serve

LEMMA OwnedPool == ASSUME Ownership, RTypeOK, Owned, NEW r \in Req, Pool(r) PROVE Owned'
<1>1. InFlight(r) /\ r \in held /\ op[r] # "END"
  BY PoolServes DEF Owned, InFlight
<1>2. r \notin sent
  BY <1>1 DEF Ownership, OneOwner
<1>3. /\ held' = held /\ sent' = sent /\ op' = op /\ opts' = opts /\ region' = region
      /\ \A q \in Req : WorkFrame(q)' => WorkFrame(q)
  BY PoolServes DEF vars, WorkFrame
<1>4. PICK s \in {"served", "statted"} : stage' = [stage EXCEPT ![r] = s]
  BY PoolServes
<1> QED
  BY <1>1, <1>2, <1>3, <1>4, OwnedStage

LEMMA OwnedCallback == ASSUME Ownership, RTypeOK, Owned, NEW r \in Req, Callback(r) PROVE Owned'
<1>1. TypeOK /\ OneOwner
  BY DEF Ownership
<1>2. ASSUME FsDone(r) PROVE Owned'
  <2>1. r \in held /\ r \notin sent
    BY CallbackHolds
  <2>2. held' = held \ {r} /\ sent' = sent
    BY <1>2 DEF FsDone, Done
  <2>3. (\A q \in Req : WorkFrame(q)' => WorkFrame(q)) /\ op' = op
    BY <1>1, <1>2, DoneFrames DEF FsDone, Done
  <2> QED
    BY <1>2, <2>1, <2>2, <2>3, OwnedStage DEF FsDone
<1>3. ASSUME InFlight(r), UNCHANGED <<vars, opts, region>>,
             NEW s, s # "asked", stage' = [stage EXCEPT ![r] = s]
      PROVE  Owned'
  <2>1. r \in held /\ op[r] # "END" /\ r \notin sent
    BY <1>1, <1>3 DEF Owned, OneOwner
  <2>2. /\ held' = held /\ sent' = sent /\ op' = op
        /\ \A q \in Req : WorkFrame(q)' => WorkFrame(q)
    BY <1>3 DEF vars, WorkFrame
  <2> QED
    BY <1>3, <2>1, <2>2, OwnedStage
<1>4. CASE OnFsOpen(r)
  BY <1>3, <1>4 DEF OnFsOpen, Returned, InFlight
<1>5. ASSUME NEW t \in Types, OnFsPlain(r, t) PROVE Owned'
  BY <1>2, <1>5 DEF OnFsPlain
<1>6. ASSUME NEW t, Resume(r, t) PROVE Owned'
  BY <1>3, <1>6 DEF Resume, Returned, InFlight
<1>7. CASE OnFsRead(r)
  BY <1>2, <1>7 DEF OnFsRead
<1>8. CASE OnFsWrite(r)
  BY <1>3, <1>8 DEF OnFsWrite, Returned, InFlight
<1>9. CASE OnFsStat(r)
  BY <1>2, <1>9 DEF OnFsStat
<1>10. CASE OnFsFailure(r)
  BY <1>10 DEF OnFsFailure, FsFails, Panic, vars, transfers, Owned, InFlight, WorkFrame
<1> QED
  BY <1>4, <1>5, <1>6, <1>7, <1>8, <1>9, <1>10 DEF Callback

\* A step that leaves requests and frames alone.
LEMMA OwnedQuiet ==
  ASSUME Owned, UNCHANGED <<requests, stack, stage, opts, region>>
  PROVE  Owned'
BY DEF Owned, InFlight, WorkFrame, requests

LEMMA OwnedStep == Ownership /\ RTypeOK /\ Owned /\ [RNext]_rvars => Owned'
<1> SUFFICES ASSUME Ownership, RTypeOK, Owned, [RNext]_rvars PROVE Owned'
  OBVIOUS
<1>0. TypeOK /\ OneOwner /\ NoDanglingRequest
  BY DEF Ownership
<1>1. ASSUME RafInit PROVE Owned'
  BY <1>1, OwnedQuiet DEF RafInit, AraInit, transfers
<1>2. ASSUME NEW t \in Types, RafSet(t) PROVE Owned'
  BY <1>2, OwnedQuiet DEF RafSet, AraSet, transfers
<1>3. ASSUME NEW t \in Types, NEW r \in Req, NEW o, RafAccepted(t, r, o) PROVE Owned'
  <2>1. /\ \A q \in Req : stage'[q] = IF q = r THEN "asked" ELSE stage[q]
        /\ \A q \in Req : opts'[q] = IF q = r THEN o ELSE opts[q]
        /\ \A q \in Req : q # r => op'[q] = op[q]
        /\ sent' = sent \union {r} /\ held' = held /\ stack' = stack
        /\ r \notin Live
    BY <1>0, <1>3 DEF RafAccepted, CallAccepted, RTypeOK, TypeOK
  <2>2. ~WorkFrame(r)
    <3> SUFFICES ASSUME NEW i \in DOMAIN stack, stack[i] = [kind |-> "work", req |-> r]
                 PROVE  FALSE
      BY DEF WorkFrame
    <3>1. stack[i].req = r
      OBVIOUS
    <3> QED
      BY <1>0, <2>1, <3>1 DEF NoDanglingRequest
  <2>3. \A q : WorkFrame(q)' <=> WorkFrame(q)
    BY <2>1 DEF WorkFrame
  <2>4. /\ region \subseteq region'
        /\ "ALLOC" \notin Faults /\ o.length > 0 => r \in region'
    BY <1>3 DEF RafAccepted
  <2> QED
    BY <2>1, <2>2, <2>3, <2>4 DEF Owned, InFlight
<1>4. ASSUME NEW t \in Types, RafRefused(t) PROVE Owned'
  <2>1. UNCHANGED <<requests, stack>>
    BY <1>4 DEF RafRefused, CallBadState, CallNoLoop, CallInitFails, AraThrow
  <2> QED
    BY <1>4, <2>1, OwnedQuiet DEF RafRefused, Panic, transfers
<1>5. CASE RafReturn
  <2> DEFINE r == Top.req
  <2>1. stack # <<>> /\ Leave /\ stack \in Seq(Frames) /\ Top.kind = "callback"
    BY <1>0, <1>5 DEF RafReturn, ReturnCallback, TypeOK
  <2>2. Len(stack) \in DOMAIN stack
    BY <2>1
  <2>3. r \notin sent \union held /\ r \in Req
    <3>1. Top \in Frames /\ IsCallback(Len(stack)) /\ r = stack[Len(stack)].req
      BY <2>1, <2>2 DEF IsCallback, Top
    <3>2. r \in Req
      BY <3>1 DEF Frames
    <3> QED
      BY <1>0, <2>2, <3>1, <3>2 DEF OneOwner
  <2>4. \A q : WorkFrame(q)' => WorkFrame(q)
    BY <1>0, <2>1, LeaveFrame
  <2>5. held' = held /\ sent' = sent /\ op' = op /\ region' = region
    BY <1>5 DEF RafReturn, ReturnCallback, ReqEnd
  <2>6. /\ \A q \in Req : stage'[q] = IF q = r THEN "idle" ELSE stage[q]
        /\ \A q \in Req : q # r => opts'[q] = opts[q]
    BY <1>5, <2>3 DEF RafReturn, Forget, RTypeOK
  <2> QED
    BY <2>3, <2>4, <2>5, <2>6 DEF Owned, InFlight
<1>6. ASSUME NEW r \in Req, RafDeliver(r) PROVE Owned'
  <2>1. OnAsyncBegin(r) /\ UNCHANGED <<stage, opts, region>>
    BY <1>6 DEF RafDeliver, rafvars, transfers
  <2> QED
    BY <2>1, DeliverFrames DEF Owned, InFlight
<1>7. ASSUME NEW r \in Req, RafUvClose(r) PROVE Owned'
  <2>1. /\ r \in closing /\ held' = held /\ sent' = sent /\ stack' = stack
        /\ \A q \in Req : q # r => op'[q] = op[q]
    BY <1>0, <1>7 DEF RafUvClose, OnUvClose, TypeOK
  <2>2. r \notin sent \union held
    BY <1>0, <2>1 DEF OneOwner
  <2>3. /\ \A q \in Req : stage'[q] = IF q = r THEN "idle" ELSE stage[q]
        /\ \A q \in Req : q # r => opts'[q] = opts[q]
        /\ region' = region \ {r}
    BY <1>7 DEF RafUvClose, Forget, RTypeOK
  <2>4. \A q : WorkFrame(q)' <=> WorkFrame(q)
    BY <2>1 DEF WorkFrame
  <2> QED
    BY <2>1, <2>2, <2>3, <2>4 DEF Owned, InFlight
<1>8. CASE UNCHANGED rvars
  BY <1>8, OwnedQuiet DEF rvars, vars, rafvars, requests, transfers
<1> QED
  BY <1>1, <1>2, <1>3, <1>4, <1>5, <1>6, <1>7, <1>8, OwnedWorker, OwnedPool, OwnedCallback
     DEF RNext, Client

-----------------------------------------------------------------------------
(***************************************************************************)
(* A step of the file is a step of Ara.  That needs the invariant: done()  *)
(* takes any request, and it is what the file knows of the owners of its   *)
(* requests that makes each call of it the one its request is owed.        *)
(***************************************************************************)
FileOwned == Ownership /\ RTypeOK /\ Owned

LEMMA RafStepIsAraStep == FileOwned /\ [RNext]_rvars => [Next]_vars
<1> SUFFICES ASSUME FileOwned, [RNext]_rvars PROVE [Next]_vars
  OBVIOUS
<1>0. Ownership /\ Owned
  BY DEF FileOwned
<1>1. ASSUME RafInit PROVE Next
  BY <1>1 DEF RafInit, Next
<1>2. ASSUME NEW t \in Types, RafSet(t) PROVE Next
  BY <1>2 DEF RafSet, Next
<1>3. ASSUME NEW t \in Types, NEW r \in Req, NEW o, RafAccepted(t, r, o) PROVE Next
  BY <1>3, RafAssumption DEF RafAccepted, Next, ApiCall, OpTypes
<1>4. ASSUME NEW t \in Types, RafRefused(t) PROVE Next
  BY <1>4, RafAssumption DEF RafRefused, Next, ApiCall, OpTypes
<1>5. ASSUME RafReturn PROVE Next
  BY <1>5 DEF RafReturn, Next
<1>6. ASSUME NEW r \in Req, RafDeliver(r) PROVE Next
  BY <1>6 DEF RafDeliver, Next
<1>7. ASSUME NEW r \in Req, Worker(r) PROVE [Next]_vars
  <2>1. CASE WorkEnds(r)
    BY <1>0, <2>1, DoneIsOwed DEF Next
  <2>2. CASE ~WorkEnds(r)
    BY <1>7, <2>2 DEF Worker, WorkPanics, WorkSubmits, WorkEndStalls, WorkEndReturns, Next
  <2> QED
    BY <2>1, <2>2
<1>8. ASSUME NEW r \in Req, Pool(r) PROVE UNCHANGED vars
  BY <1>8 DEF Pool, ServeOpen, ServeClose, ServeUnlink, ServeRead, ServeWrite, ServeStat, Serve
<1>9. ASSUME NEW r \in Req, Callback(r) PROVE [Next]_vars
  <2>1. CASE FsDone(r)
    BY <1>0, <1>9, <2>1, DoneIsOwed DEF Next
  <2>2. CASE ~FsDone(r)
    BY <1>9, <2>2 DEF Callback, OnFsOpen, OnFsPlain, Resume, OnFsRead, OnFsWrite, OnFsStat,
                      OnFsFailure, FsFails
  <2> QED
    BY <2>1, <2>2
<1>10. ASSUME NEW r \in Req, RafUvClose(r) PROVE Next
  BY <1>10 DEF RafUvClose, Next
<1>11. CASE UNCHANGED rvars
  BY <1>11 DEF rvars
<1> QED
  BY <1>1, <1>2, <1>3, <1>4, <1>5, <1>6, <1>7, <1>8, <1>9, <1>10, <1>11 DEF RNext, Client

LEMMA FileOwnedInvariant == RSpec => []FileOwned
<1>1. RInit => FileOwned
  <2>1. RInit => Init
    BY DEF RInit
  <2> QED
    BY <2>1, OwnershipInit, RafTypeInit, OwnedInit DEF FileOwned
<1>2. FileOwned /\ [RNext]_rvars => FileOwned'
  <2> SUFFICES ASSUME FileOwned, [RNext]_rvars PROVE FileOwned'
    OBVIOUS
  <2>1. Ownership /\ TypeOK /\ RTypeOK /\ Owned
    BY DEF FileOwned, Ownership
  <2>2. [Next]_vars
    BY RafStepIsAraStep
  <2>3. Ownership'
    BY <2>1, <2>2, OwnershipStep
  <2> QED
    BY <2>1, <2>3, RafTypeStep, OwnedStep DEF FileOwned
<1> QED
  BY <1>1, <1>2, PTL DEF RSpec

\* What is proved of the owners of Ara's requests, for the file.
LEMMA FileOwnership == RSpec => []Ownership
BY FileOwnedInvariant, PTL DEF FileOwned

\* Type correctness of the file (RTypeOK): results, offsets and sizes stay
\* what their types say, whatever fails.
THEOREM FileTypes == RSpec => []RTypeOK
BY FileOwnedInvariant, PTL DEF FileOwned

LEMMA OwnedInvariant == RSpec => []Owned
BY FileOwnedInvariant, PTL DEF FileOwned

\* example/raf is a client of libara (UsesAra): its workers and callbacks call
\* done() once for each request, while its worker holds it, so what is proved
\* of Ara holds of every file.
THEOREM FileUsesAra == RSpec => UsesAra
<1>1. RInit => Init
  BY DEF RInit
<1> QED
  BY <1>1, RafStepIsAraStep, FileOwnedInvariant, PTL DEF RSpec, Spec, UsesAra

-----------------------------------------------------------------------------
(***************************************************************************)
(* The progress of a transfer.                                             *)
(***************************************************************************)
Gain(n) == IF n > 0 THEN n ELSE 0

Progress(r) ==
  /\ r \notin Live => stage[r] = "idle"
  /\ stage[r] \in {"idle", "asked"} => moved[r] = 0
  /\ NoWrap => opts[r].offset + opts[r].length < Wrap
  /\ InFlight(r) => view[r].base + view[r].left = opts[r].length
  /\ stage[r] = "queued" => moved[r] = view[r].base
  /\ stage[r] = "served" => /\ moved[r] = view[r].base + Gain(result[r])
                            /\ result[r] <= view[r].left
  /\ NoWrap /\ stage[r] \in {"queued", "served"} =>
       view[r].at = opts[r].offset + view[r].base

Progressing == \A r \in Req : Progress(r)

LEMMA SmallMod ==
  ASSUME NEW n \in Nat, NEW w \in Nat \ {0}, n < w
  PROVE  n % w = n
OBVIOUS

LEMMA ProgressInit == RInit => Progressing
<1> SUFFICES ASSUME RInit, NEW r \in Req PROVE Progress(r)
  BY DEF Progressing
<1>1. stage[r] = "idle" /\ moved[r] = 0 /\ opts[r].offset = 0 /\ opts[r].length = 0
  BY DEF RInit, NoOpts
<1>2. NoWrap => 0 < Wrap
  BY ConstantFacts
<1> QED
  BY <1>1, <1>2 DEF Progress, InFlight

\* The steps of Ara that free a slot are those of the closing phase.
LEMMA ProgressOf ==
  ASSUME NEW q \in Req, Progress(q), q \in Live => q \in Live',
         stage'[q] = stage[q], opts'[q] = opts[q], view'[q] = view[q],
         result'[q] = result[q], moved'[q] = moved[q]
  PROVE  Progress(q)'
BY DEF Progress, InFlight

\* A step of r's file-system request that leaves its transfer alone.
LEMMA ProgressStage ==
  ASSUME RTypeOK, Progressing, NEW r \in Req, NEW s, r \in Live, op' = op,
         stage' = [stage EXCEPT ![r] = s],
         \/ s \in {"done", "stalled"}
         \/ s = "statting" /\ InFlight(r),
         UNCHANGED <<opts, view, result, moved>>
  PROVE  Progressing'
<1> SUFFICES ASSUME NEW q \in Req PROVE Progress(q)'
  BY DEF Progressing
<1>1. Live' = Live
  BY DEF Live
<1>2. CASE q # r
  BY <1>1, <1>2, ProgressOf DEF RTypeOK, Progressing
<1>3. CASE q = r
  BY <1>1, <1>3 DEF RTypeOK, Progressing, Progress, InFlight
<1> QED
  BY <1>2, <1>3

LEMMA ProgressQuiet ==
  ASSUME Progressing, Live \subseteq Live', UNCHANGED <<stage, opts, view, result, moved>>
  PROVE  Progressing'
<1> SUFFICES ASSUME NEW q \in Req PROVE Progress(q)'
  BY DEF Progressing
<1> QED
  BY ProgressOf DEF Progressing

LEMMA ProgressWorker ==
  ASSUME Ownership, RTypeOK, Progressing, NEW r \in Req, Worker(r)
  PROVE  Progressing'
<1>1. TypeOK
  BY DEF Ownership
<1>2. ASSUME ReturnWork PROVE op' = op /\ Live' = Live
  BY <1>2 DEF ReturnWork, requests, Live
<1>3. ASSUME stage[r] # "idle" PROVE r \in Live
  BY <1>3 DEF Progressing, Progress
<1>4. ASSUME NEW t \in Types, WorkPanics(r, t) PROVE Progressing'
  BY <1>4, ProgressQuiet DEF WorkPanics, Panic, vars, transfers, Live
<1>5. ASSUME NEW t \in Types, WorkSubmits(r, t) PROVE Progressing'
  <2> SUFFICES ASSUME NEW q \in Req PROVE Progress(q)'
    BY DEF Progressing
  <2>1. Live' = Live
    BY <1>2, <1>5 DEF WorkSubmits
  <2>2. CASE q # r
    BY <1>5, <2>1, <2>2, ProgressOf DEF WorkSubmits, RTypeOK, Progressing
  <2>3. CASE q = r
    <3>1. /\ stage'[r] = "queued"
          /\ view'[r].base = 0 /\ view'[r].left = opts[r].length /\ view'[r].at = opts[r].offset
          /\ opts' = opts /\ moved' = moved
      BY <1>5 DEF WorkSubmits, RTypeOK
    <3>2. opts[r].offset \in Nat /\ opts[r].length \in Nat
      BY DEF RTypeOK
    <3>3. stage[r] = "asked" /\ r \in Live /\ moved[r] = 0
      BY <1>3, <1>5 DEF WorkSubmits, Starts, Progressing, Progress
    <3> QED
      BY <2>1, <2>3, <3>1, <3>2, <3>3 DEF Progressing, Progress, InFlight
  <2> QED
    BY <2>2, <2>3
<1>6. CASE WorkEnds(r)
  <2>1. op' = op
    BY <1>1, <1>6, DoneFrames DEF WorkEnds, Done
  <2>2. r \in Live
    BY <1>3, <1>6 DEF WorkEnds, Starts
  <2> QED
    BY <1>6, <2>1, <2>2, ProgressStage DEF WorkEnds
<1>7. CASE WorkEndStalls(r)
  BY <1>2, <1>3, <1>7, ProgressStage DEF WorkEndStalls, Starts
<1>8. CASE WorkEndReturns(r)
  BY <1>2, <1>8, ProgressQuiet DEF WorkEndReturns, rafvars, transfers
<1> QED
  BY <1>4, <1>5, <1>6, <1>7, <1>8 DEF Worker

\* What the thread pool does to the request it serves and to no other.
LEMMA PoolResult ==
  ASSUME RTypeOK, NEW r \in Req, Pool(r)
  PROVE  /\ \A q \in Req \ {r} : moved'[q] = moved[q] /\ result'[q] = result[q]
         /\ stage[r] = "queued" => /\ stage'[r] = "served"
                                   /\ result'[r] \in Nat \union {Failed}
                                   /\ result'[r] <= view[r].left
                                   /\ moved'[r] = moved[r] + Gain(result'[r])
         /\ stage[r] = "statting" => stage'[r] = "statted" /\ moved' = moved
<1> USE ConstantFacts DEF Gain
<1>1. view[r] \in [base : Nat, left : Nat, at : Nat] /\ moved[r] \in Nat /\ fileSize \in Nat
  BY DEF RTypeOK
<1>2. ASSUME NEW t, NEW n \in Nat \union {Failed}, Serve(r, t, n), n <= view[r].left,
             moved' = [moved EXCEPT ![r] = IF n > 0 THEN @ + n ELSE @]
      PROVE  /\ \A q \in Req \ {r} : moved'[q] = moved[q] /\ result'[q] = result[q]
             /\ stage[r] = "queued" /\ stage'[r] = "served"
             /\ result'[r] = n /\ moved'[r] = moved[r] + Gain(n)
  BY <1>1, <1>2 DEF Serve, RTypeOK
<1>3. ASSUME NEW t, NEW n \in Outcome(t), Serve(r, t, n), UNCHANGED moved
      PROVE  /\ \A q \in Req \ {r} : moved'[q] = moved[q] /\ result'[q] = result[q]
             /\ stage[r] = "queued" /\ stage'[r] = "served"
             /\ result'[r] \in {0, Failed} /\ moved'[r] = moved[r] + Gain(result'[r])
  BY <1>1, <1>3 DEF Serve, RTypeOK, Outcome
<1>4. CASE ServeOpen(r) \/ ServeClose(r) \/ ServeUnlink(r)
  BY <1>1, <1>3, <1>4 DEF ServeOpen, ServeClose, ServeUnlink
<1>5. CASE ServeRead(r)
  <2> DEFINE there == IF view[r].at < fileSize THEN fileSize - view[r].at ELSE 0
             room == Least(view[r].left, there)
  <2>1. PICK n \in Count(r, "READ", room) : Serve(r, "READ", n) /\ Move(r, n)
    BY <1>5 DEF ServeRead
  <2>2. room \in Nat /\ room <= view[r].left
    BY <1>1 DEF Least
  <2>3. n \in Nat \union {Failed} /\ n <= room
    BY <2>2, CountType
  <2>4. n <= view[r].left
    BY <1>1, <2>2, <2>3
  <2> QED
    BY <1>2, <2>1, <2>3, <2>4 DEF Move
<1>6. CASE ServeWrite(r)
  <2>1. PICK n \in Count(r, "WRITE", view[r].left) : Serve(r, "WRITE", n) /\ Move(r, n)
    BY <1>6 DEF ServeWrite
  <2>2. n \in Nat \union {Failed} /\ n <= view[r].left
    BY <1>1, CountType
  <2> QED
    BY <1>2, <2>1, <2>2 DEF Move
<1>7. CASE ServeStat(r)
  BY <1>7 DEF ServeStat, RTypeOK
<1> QED
  BY <1>4, <1>5, <1>6, <1>7 DEF Pool

LEMMA ProgressPool ==
  ASSUME RTypeOK, Progressing, NEW r \in Req, Pool(r)
  PROVE  Progressing'
<1> SUFFICES ASSUME NEW q \in Req PROVE Progress(q)'
  BY DEF Progressing
<1>1. Live' = Live /\ opts' = opts /\ view' = view
  BY PoolServes DEF vars, Live
<1>2. CASE q # r
  BY <1>1, <1>2, PoolServes, PoolResult, ProgressOf DEF RTypeOK, Progressing
<1>3. CASE q = r
  <2>1. /\ view[r] \in [base : Nat, left : Nat, at : Nat]
        /\ moved[r] \in Nat
        /\ stage[r] \in {"queued", "statting"}
    BY PoolServes DEF RTypeOK
  <2>2. Progress(r)
    BY DEF Progressing
  <2>3. CASE stage[r] = "queued"
    BY <1>1, <1>3, <2>1, <2>2, <2>3, PoolResult DEF Progress, InFlight
  <2>4. CASE stage[r] = "statting"
    BY <1>1, <1>3, <2>1, <2>2, <2>4, PoolResult DEF Progress, InFlight
  <2> QED
    BY <2>1, <2>3, <2>4
<1> QED
  BY <1>2, <1>3

LEMMA ProgressCallback ==
  ASSUME Ownership, RTypeOK, Progressing, NEW r \in Req, Callback(r)
  PROVE  Progressing'
<1>1. TypeOK
  BY DEF Ownership
<1>2. ASSUME stage[r] # "idle" PROVE r \in Live
  BY <1>2 DEF Progressing, Progress
<1>3. ASSUME FsDone(r) PROVE Progressing'
  <2>1. op' = op
    BY <1>1, <1>3, DoneFrames DEF FsDone, Done
  <2>2. stage[r] # "idle"
    BY DEF Callback, OnFsOpen, OnFsPlain, Resume, OnFsRead, OnFsWrite, OnFsStat, OnFsFailure,
           Returned
  <2> QED
    BY <1>2, <1>3, <2>1, <2>2, ProgressStage DEF FsDone
<1>4. CASE OnFsOpen(r)
  BY <1>2, <1>4, ProgressStage DEF OnFsOpen, Returned, InFlight, vars
<1>5. ASSUME NEW t \in Types, OnFsPlain(r, t) PROVE Progressing'
  BY <1>3, <1>5 DEF OnFsPlain
<1>6. ASSUME NEW t, Resume(r, t) PROVE Progressing'
  <2> SUFFICES ASSUME NEW q \in Req PROVE Progress(q)'
    BY DEF Progressing
  <2>1. Live' = Live /\ opts' = opts /\ result' = result /\ moved' = moved
    BY <1>6 DEF Resume, vars, Live
  <2>2. CASE q # r
    BY <1>6, <2>1, <2>2, ProgressOf DEF Resume, RTypeOK, Progressing
  <2>3. CASE q = r
    <3>1. /\ view[r] \in [base : Nat, left : Nat, at : Nat]
          /\ opts[r] \in [offset : Nat, length : Nat, flags : Flags]
          /\ result[r] \in Nat /\ result[r] > 0
          /\ moved[r] \in Nat
          /\ Left(r) = view[r].left - result[r]
      BY <1>6, ConstantFacts DEF RTypeOK, Resume, Left
    <3>2. /\ stage[r] = "served"
          /\ view[r].base + view[r].left = opts[r].length
          /\ moved[r] = view[r].base + result[r]
          /\ NoWrap => opts[r].offset + opts[r].length < Wrap
          /\ r \in Live
          /\ Left(r) > 0
      BY <1>2, <1>6, <3>1 DEF Resume, Returned, Progressing, Progress, InFlight, Gain
    <3>3. /\ stage'[r] = "queued"
          /\ view'[r].base = view[r].base + result[r]
          /\ view'[r].left = Left(r)
          /\ view'[r].at = (opts[r].offset + (opts[r].length - Left(r))) % Wrap
      BY <1>6 DEF Resume, RTypeOK
    <3>4. /\ opts[r].length - Left(r) = view[r].base + result[r]
          /\ opts[r].offset + (view[r].base + result[r]) \in Nat
          /\ opts[r].offset + (view[r].base + result[r]) < opts[r].offset + opts[r].length
      BY <3>1, <3>2
    <3>5. NoWrap => opts[r].offset + (view[r].base + result[r]) < Wrap
      BY <3>1, <3>2, <3>4, ConstantFacts
    <3>6. NoWrap => view'[r].at = opts[r].offset + (view[r].base + result[r])
      BY <3>3, <3>4, <3>5, SmallMod, ConstantFacts
    <3>7. view'[r].base + view'[r].left = opts[r].length
      BY <3>1, <3>2, <3>3
    <3> QED
      BY <2>1, <2>3, <3>2, <3>3, <3>6, <3>7 DEF Progress, InFlight
  <2> QED
    BY <2>2, <2>3
<1>7. CASE OnFsRead(r)
  BY <1>3, <1>7 DEF OnFsRead
<1>8. CASE OnFsWrite(r)
  BY <1>2, <1>8, ProgressStage DEF OnFsWrite, Returned, InFlight, vars
<1>9. CASE OnFsStat(r)
  BY <1>3, <1>9 DEF OnFsStat
<1>10. CASE OnFsFailure(r)
  BY <1>10, ProgressQuiet DEF OnFsFailure, FsFails, Panic, vars, transfers, Live
<1> QED
  BY <1>4, <1>5, <1>6, <1>7, <1>8, <1>9, <1>10 DEF Callback

LEMMA ProgressStep == Ownership /\ RTypeOK /\ Progressing /\ [RNext]_rvars => Progressing'
<1> SUFFICES ASSUME Ownership, RTypeOK, Progressing, [RNext]_rvars PROVE Progressing'
  OBVIOUS
<1>0. TypeOK /\ OneOwner /\ NoDanglingRequest
  BY DEF Ownership
<1>1. ASSUME RafInit PROVE Progressing'
  BY <1>1, ProgressQuiet DEF RafInit, AraInit, requests, transfers, Live
<1>2. ASSUME NEW t \in Types, RafSet(t) PROVE Progressing'
  BY <1>2, ProgressQuiet DEF RafSet, AraSet, requests, transfers, Live
<1>3. ASSUME NEW t \in Types, NEW r \in Req, NEW o \in Asked(t), RafAccepted(t, r, o)
      PROVE  Progressing'
  <2> SUFFICES ASSUME NEW q \in Req PROVE Progress(q)'
    BY DEF Progressing
  <2>1. /\ t # "UNKNOWN" /\ r \notin Live /\ Live' = Live \union {r}
        /\ view' = view /\ result' = result /\ moved' = moved
    BY <1>0, <1>3, RafAssumption DEF RafAccepted, CallAccepted, TypeOK, Live, OpTypes
  <2>2. CASE q # r
    BY <1>3, <2>1, <2>2, ProgressOf DEF RafAccepted, RTypeOK, Progressing
  <2>3. CASE q = r
    <3>1. stage'[r] = "asked" /\ opts'[r] = o
      BY <1>3 DEF RafAccepted, RTypeOK
    <3>2. NoWrap => o.offset + o.length < Wrap
      BY AskedType DEF RTypeOK
    <3>3. moved[r] = 0
      BY <2>1 DEF Progressing, Progress
    <3> QED
      BY <2>1, <2>3, <3>1, <3>2, <3>3 DEF Progress, InFlight
  <2> QED
    BY <2>2, <2>3
<1>4. ASSUME NEW t \in Types, RafRefused(t) PROVE Progressing'
  BY <1>4, ProgressQuiet DEF RafRefused, CallBadState, CallNoLoop, CallInitFails, AraThrow,
                             requests, Panic, transfers, Live
<1>5. ASSUME NEW r, Forget(r), r \notin Live' \/ Live' = Live, Live \ {r} \subseteq Live'
      PROVE  Progressing'
  <2> SUFFICES ASSUME NEW q \in Req PROVE Progress(q)'
    BY DEF Progressing
  <2>1. CASE q # r
    BY <1>5, <2>1, ProgressOf DEF Forget, RTypeOK, Progressing
  <2>2. CASE q = r
    <3>1. stage'[r] = "idle" /\ moved'[r] = 0 /\ opts'[r] = NoOpts
      BY <1>5, <2>2 DEF Forget, RTypeOK
    <3>2. NoWrap => NoOpts.offset + NoOpts.length < Wrap
      BY ConstantFacts DEF NoOpts
    <3> QED
      BY <2>2, <3>1, <3>2 DEF Progress, InFlight
  <2> QED
    BY <2>1, <2>2
<1>6. CASE RafReturn
  BY <1>5, <1>6 DEF RafReturn, ReturnCallback, ReqEnd, Live
<1>7. ASSUME NEW r \in Req, RafDeliver(r) PROVE Progressing'
  <2>1. op' = op
    BY <1>7, DeliverFrames DEF RafDeliver
  <2> QED
    BY <1>7, <2>1, ProgressQuiet DEF RafDeliver, rafvars, transfers, Live
<1>8. ASSUME NEW r \in Req, RafUvClose(r) PROVE Progressing'
  <2>1. Live' = Live \ {r}
    BY <1>0, <1>8 DEF RafUvClose, OnUvClose, Live, TypeOK
  <2> QED
    BY <1>5, <1>8, <2>1 DEF RafUvClose
<1>9. CASE UNCHANGED rvars
  BY <1>9, ProgressQuiet DEF rvars, vars, rafvars, transfers, Live
<1> QED
  BY <1>1, <1>2, <1>3, <1>4, <1>6, <1>7, <1>8, <1>9, ProgressWorker, ProgressPool,
     ProgressCallback DEF RNext, Client

LEMMA ProgressInvariant == RSpec => []Progressing
BY FileOwnership, FileTypes, ProgressInit, ProgressStep, PTL DEF RSpec

\* However a transfer is cut into parts (TransferExact), the next part starts
\* in the buffer and in the file where the last one ended.
THEOREM ExactTransfers == RSpec => []TransferExact
<1>1. RTypeOK /\ Progressing => TransferExact
  <2> SUFFICES ASSUME RTypeOK, Progressing, NEW r \in Req, stage[r] \in {"queued", "served"}
               PROVE  /\ view[r].base + view[r].left = opts[r].length
                      /\ stage[r] = "queued" => moved[r] = view[r].base
                      /\ stage[r] = "served" /\ result[r] > 0
                           => moved[r] = view[r].base + result[r]
                      /\ NoWrap => view[r].at = opts[r].offset + view[r].base
    BY DEF TransferExact
  <2> QED
    BY DEF Progressing, Progress, InFlight, Gain
<1> QED
  BY <1>1, FileTypes, ProgressInvariant, PTL

\* A request the pool works on (IoIsOwned) is held by its worker and by
\* nobody else, and its buffer is there, until its callback has run.
THEOREM OwnedIo == RSpec => []IoIsOwned
<1>1. Ownership /\ RTypeOK /\ Owned /\ Progressing => IoIsOwned
  <2> SUFFICES ASSUME Ownership, RTypeOK, Owned, Progressing, NEW r \in Req, InFlight(r)
               PROVE  /\ r \in held \ (sent \union closing \union Calling)
                      /\ op[r] \notin {"UNKNOWN", "END"}
                      /\ view[r].left > 0 /\ "ALLOC" \notin Faults => r \in region
    BY DEF IoIsOwned
  <2>1. r \in held /\ op[r] # "END"
    BY DEF Owned
  <2>2. r \notin sent \union closing \union Calling
    BY <2>1 DEF Ownership, OneOwner, Calling
  <2>3. r \in Live
    BY <2>1 DEF Ownership, NoDanglingRequest
  <2>4. view[r].base + view[r].left = opts[r].length
    BY DEF Progressing, Progress
  <2>5. view[r].left > 0 => opts[r].length > 0
    BY <2>4 DEF RTypeOK
  <2> QED
    BY <2>1, <2>2, <2>3, <2>5 DEF Owned, Live
<1> QED
  BY <1>1, FileOwnership, FileTypes, OwnedInvariant, ProgressInvariant, PTL

-----------------------------------------------------------------------------
(***************************************************************************)
(* The file is opened before anything else is done with it, and once.      *)
(***************************************************************************)
OpensFirst ==
  /\ fd => status # "INIT"
  /\ \A r \in Req :
       /\ InFlight(r) /\ op[r] # "OPEN" => fd
       /\ op[r] = "OPEN" /\ stage[r] \in {"queued", "served"} => ~fd
       /\ op[r] = "OPEN" /\ stage[r] = "asked" /\ WorkFrame(r) => ~fd

LEMMA OpensFirstInit == RInit => OpensFirst
BY DEF RInit, Init, OpensFirst, InFlight, WorkFrame

LEMMA DoneStatus ==
  ASSUME NEW r, op[r] \in OpTypes, NEW e, OnDone(r, e)
  PROVE  status' = status \/ status' \in {"OPENED", "CLOSED"}
<1>1. CASE Notify(r, e)
  BY <1>1, OpTable DEF Notify, OpTypes
<1>2. CASE DropPending(r, e) \/ DropBadState(r, e)
  BY <1>2 DEF DropPending, DropBadState
<1> QED
  BY <1>1, <1>2 DEF OnDone

\* A step that starts, opens and submits nothing.
LEMMA OpensFirstQuiet ==
  ASSUME OpensFirst, fd' = fd, status' = status \/ status' # "INIT",
         \A q \in Req : WorkFrame(q)' => WorkFrame(q),
         \A q \in Req : \/ stage'[q] \in {"idle", "done", "stalled"}
                        \/ /\ op'[q] = op[q]
                           /\ \/ stage'[q] = stage[q]
                              \/ InFlight(q) /\ stage'[q] \in {"statting", "statted"}
                              \/ stage[q] = "queued" /\ stage'[q] = "served"
                              \/ op[q] # "OPEN" /\ InFlight(q) /\ stage'[q] = "queued"
  PROVE  OpensFirst'
BY DEF OpensFirst, InFlight

LEMMA OpensFirstWorker ==
  ASSUME Ownership, RTypeOK, Owned, OpensFirst, NEW r \in Req, Worker(r)
  PROVE  OpensFirst'
<1>1. TypeOK /\ stack \in Seq(Frames)
  BY DEF Ownership, TypeOK
<1>2. ASSUME ReturnWork
      PROVE  /\ \A q \in Req : WorkFrame(q)' => WorkFrame(q)
             /\ op' = op /\ status' = status
  BY <1>1, <1>2, LeaveFrame DEF ReturnWork, requests, session
<1>3. ASSUME NEW t \in Types, WorkPanics(r, t) PROVE OpensFirst'
  BY <1>3 DEF WorkPanics, Panic, vars, transfers, handle, OpensFirst, InFlight, WorkFrame
<1>4. ASSUME NEW t \in Types, WorkSubmits(r, t) PROVE OpensFirst'
  <2>1. /\ fd' = fd
        /\ \A q \in Req : stage'[q] = IF q = r THEN "queued" ELSE stage[q]
    BY <1>4 DEF WorkSubmits, handle, RTypeOK
  <2>2. stack # <<>> /\ stage[r] = "asked" /\ op[r] = t
    BY <1>4 DEF WorkSubmits, Starts
  <2>3. WorkFrame(r)
    BY <1>1, <1>4, <2>2 DEF WorkSubmits, Starts, Top, WorkFrame
  <2>4. op[r] = "OPEN" => ~fd
    BY <2>2, <2>3 DEF OpensFirst
  <2>5. op[r] # "OPEN" => fd
    BY <1>4, <2>2 DEF WorkSubmits, Usable
  <2>6. (\A q \in Req : WorkFrame(q)' => WorkFrame(q)) /\ op' = op /\ status' = status
    BY <1>2, <1>4 DEF WorkSubmits
  <2> QED
    BY <2>1, <2>4, <2>5, <2>6 DEF OpensFirst, InFlight
<1>5. CASE WorkEnds(r)
  <2>1. r \in held /\ OnDone(r, error)
    BY <1>5, DoneIsOwed DEF WorkDone, Done
  <2>2. op[r] \in OpTypes
    BY <1>1, <2>1, LiveOp DEF Ownership, NoDanglingRequest
  <2>3. (\A q \in Req : WorkFrame(q)' => WorkFrame(q)) /\ op' = op
    BY <1>1, <2>1, DoneFrames
  <2>4. status' = status \/ status' # "INIT"
    BY <2>1, <2>2, DoneStatus
  <2>5. fd' = fd /\ \A q \in Req : stage'[q] = IF q = r THEN "done" ELSE stage[q]
    BY <1>5 DEF WorkEnds, handle, RTypeOK
  <2> QED
    BY <2>3, <2>4, <2>5, OpensFirstQuiet
<1>6. CASE WorkEndStalls(r)
  <2>1. fd' = fd /\ \A q \in Req : stage'[q] = IF q = r THEN "stalled" ELSE stage[q]
    BY <1>6 DEF WorkEndStalls, handle, RTypeOK
  <2> QED
    BY <1>2, <1>6, <2>1, OpensFirstQuiet DEF WorkEndStalls
<1>7. CASE WorkEndReturns(r)
  BY <1>2, <1>7, OpensFirstQuiet DEF WorkEndReturns, rafvars, handle, transfers
<1> QED
  BY <1>3, <1>4, <1>5, <1>6, <1>7 DEF Worker

LEMMA OpensFirstPool ==
  ASSUME RTypeOK, OpensFirst, NEW r \in Req, Pool(r)
  PROVE  OpensFirst'
<1>1. PICK s \in {"served", "statted"} :
        /\ stage' = [stage EXCEPT ![r] = s]
        /\ stage[r] = IF s = "served" THEN "queued" ELSE "statting"
  BY PoolServes
<1>2. /\ fd' = fd /\ status' = status /\ op' = op
      /\ \A q \in Req : WorkFrame(q)' => WorkFrame(q)
  BY PoolServes DEF vars, handle, WorkFrame
<1>3. \A q \in Req : stage'[q] = IF q = r THEN s ELSE stage[q]
  BY <1>1 DEF RTypeOK
<1> QED
  BY <1>1, <1>2, <1>3, OpensFirstQuiet DEF InFlight

LEMMA OpensFirstCallback ==
  ASSUME Ownership, Session, RTypeOK, Owned, OpensFirst, NEW r \in Req, Callback(r)
  PROVE  OpensFirst'
<1>1. TypeOK
  BY DEF Ownership
<1>2. ASSUME FsDone(r), fd' = fd PROVE OpensFirst'
  <2>1. r \in held /\ OnDone(r, error)
    BY <1>2, DoneIsOwed DEF WorkDone, Done
  <2>2. op[r] \in OpTypes
    BY <1>1, <2>1, LiveOp DEF Ownership, NoDanglingRequest
  <2>3. (\A q \in Req : WorkFrame(q)' => WorkFrame(q)) /\ op' = op
    BY <1>1, <2>1, DoneFrames
  <2>4. status' = status \/ status' # "INIT"
    BY <2>1, <2>2, DoneStatus
  <2>5. \A q \in Req : stage'[q] = IF q = r THEN "done" ELSE stage[q]
    BY <1>2 DEF FsDone, RTypeOK
  <2> QED
    BY <1>2, <2>3, <2>4, <2>5, OpensFirstQuiet
<1>3. CASE OnFsOpen(r)
  <2>1. /\ op[r] = "OPEN" /\ InFlight(r) /\ op' = op /\ status' = status /\ stack' = stack
        /\ held' = held
        /\ \A q \in Req : stage'[q] = IF q = r THEN "statting" ELSE stage[q]
    BY <1>3 DEF OnFsOpen, Returned, InFlight, vars, RTypeOK
  <2>2. r \in held
    BY <2>1 DEF Owned
  <2>3. status # "INIT"
    BY <2>1, <2>2, RafAssumption DEF Session, OneStarter, Since
  <2>4. \A q \in Req : op[q] = "OPEN" /\ q \in held => q = r
    BY <2>1, <2>2, RafAssumption DEF Session, OneStarter
  <2>5. \A q \in Req : WorkFrame(q)' <=> WorkFrame(q)
    BY <2>1 DEF WorkFrame
  <2>6. ASSUME NEW q \in Req, op[q] = "OPEN", q # r
        PROVE  /\ stage'[q] \notin {"queued", "served"}
               /\ ~(stage'[q] = "asked" /\ WorkFrame(q)')
    BY <2>1, <2>4, <2>5, <2>6 DEF Owned, InFlight
  <2>7. fd'
    BY <1>3 DEF OnFsOpen
  <2> QED
    BY <2>1, <2>3, <2>6, <2>7 DEF OpensFirst, InFlight
<1>4. ASSUME NEW t \in Types, OnFsPlain(r, t) PROVE OpensFirst'
  BY <1>2, <1>4 DEF OnFsPlain, handle
<1>5. ASSUME NEW t \in {"READ", "WRITE"}, Resume(r, t) PROVE OpensFirst'
  <2>1. /\ op[r] # "OPEN" /\ InFlight(r) /\ op' = op /\ status' = status /\ fd' = fd
        /\ \A q \in Req : stage'[q] = IF q = r THEN "queued" ELSE stage[q]
    BY <1>5 DEF Resume, Returned, InFlight, vars, handle, RTypeOK
  <2>2. \A q \in Req : WorkFrame(q)' => WorkFrame(q)
    BY <1>5 DEF Resume, vars, WorkFrame
  <2> QED
    BY <2>1, <2>2, OpensFirstQuiet
<1>6. CASE OnFsRead(r)
  BY <1>2, <1>6 DEF OnFsRead, handle
<1>7. CASE OnFsWrite(r)
  <2>1. /\ InFlight(r) /\ op' = op /\ status' = status /\ fd' = fd
        /\ \A q \in Req : stage'[q] = IF q = r THEN "statting" ELSE stage[q]
        /\ \A q \in Req : WorkFrame(q)' => WorkFrame(q)
    BY <1>7 DEF OnFsWrite, Returned, InFlight, vars, handle, RTypeOK, WorkFrame
  <2> QED
    BY <2>1, OpensFirstQuiet
<1>8. CASE OnFsStat(r)
  BY <1>2, <1>8 DEF OnFsStat
<1>9. CASE OnFsFailure(r)
  BY <1>9 DEF OnFsFailure, FsFails, Panic, vars, transfers, handle, OpensFirst, InFlight, WorkFrame
<1> QED
  BY <1>3, <1>4, <1>5, <1>6, <1>7, <1>8, <1>9 DEF Callback

LEMMA OpensFirstStep ==
  Ownership /\ Session /\ RTypeOK /\ Owned /\ Progressing /\ OpensFirst /\ [RNext]_rvars
    => OpensFirst'
<1> SUFFICES ASSUME Ownership, Session, RTypeOK, Owned, Progressing, OpensFirst, [RNext]_rvars
             PROVE  OpensFirst'
  OBVIOUS
<1>0. TypeOK /\ OneOwner /\ NoDanglingRequest
  BY DEF Ownership
<1>1. ASSUME RafInit PROVE OpensFirst'
  <2>1. Live = {} /\ ~fd' /\ stage' = stage
    BY <1>1, RafAssumption DEF RafInit, AraInit, transfers
  <2>2. \A q \in Req : stage[q] = "idle"
    BY <2>1 DEF Progressing, Progress
  <2> QED
    BY <2>1, <2>2 DEF OpensFirst, InFlight
<1>2. ASSUME NEW t \in Types, RafSet(t) PROVE OpensFirst'
  BY <1>2 DEF RafSet, AraSet, requests, handle, transfers, OpensFirst, InFlight, WorkFrame
<1>3. ASSUME NEW t \in Types, NEW r \in Req, NEW o, RafAccepted(t, r, o) PROVE OpensFirst'
  <2>1. /\ r \notin Live /\ fd' = fd /\ status' = status /\ stack' = stack
        /\ \A q \in Req : stage'[q] = IF q = r THEN "asked" ELSE stage[q]
        /\ \A q \in Req : q # r => op'[q] = op[q]
    BY <1>0, <1>3 DEF RafAccepted, CallAccepted, session, handle, TypeOK, RTypeOK
  <2>2. ~WorkFrame(r)
    <3> SUFFICES ASSUME NEW i \in DOMAIN stack, stack[i] = [kind |-> "work", req |-> r]
                 PROVE  FALSE
      BY DEF WorkFrame
    <3>1. stack[i].req = r
      OBVIOUS
    <3> QED
      BY <1>0, <2>1, <3>1 DEF NoDanglingRequest
  <2>3. \A q \in Req : WorkFrame(q)' <=> WorkFrame(q)
    BY <2>1 DEF WorkFrame
  <2> QED
    BY <2>1, <2>2, <2>3 DEF OpensFirst, InFlight
<1>4. ASSUME NEW t \in Types, RafRefused(t) PROVE OpensFirst'
  BY <1>4 DEF RafRefused, CallBadState, CallNoLoop, CallInitFails, AraThrow, Panic,
              requests, handle, transfers, OpensFirst, InFlight, WorkFrame
<1>5. CASE RafReturn
  <2>1. stack # <<>> /\ Leave
    BY <1>5 DEF RafReturn, ReturnCallback
  <2>2. \A q \in Req : WorkFrame(q)' => WorkFrame(q)
    BY <1>0, <2>1, LeaveFrame
  <2>3. op' = op /\ status' = status /\ fd' = fd
    BY <1>5 DEF RafReturn, ReturnCallback, ReqEnd, session, handle
  <2>4. \A q \in Req : stage'[q] = "idle" \/ stage'[q] = stage[q]
    BY <1>5 DEF RafReturn, Forget, RTypeOK
  <2> QED
    BY <2>2, <2>3, <2>4, OpensFirstQuiet
<1>6. ASSUME NEW r \in Req, RafDeliver(r) PROVE OpensFirst'
  <2>1. OnAsyncBegin(r) /\ stage' = stage /\ fd' = fd
    BY <1>6 DEF RafDeliver, rafvars, transfers, handle
  <2>2. op' = op /\ r \in sent
    BY <2>1, DeliverFrames
  <2>3. op[r] \in OpTypes
    BY <1>0, <2>2, LiveOp DEF NoDanglingRequest
  <2>4. status' = status \/ status' # "INIT"
    <3>1. CASE BeginWork(r)
      BY <2>3, <3>1, OpTable DEF BeginWork, OpTypes
    <3>2. CASE BeginUnserved(r)
      BY <2>3, <3>2, OpTable DEF BeginUnserved, OpTypes
    <3>3. CASE BeginNoCallback(r)
      BY <3>3 DEF BeginNoCallback
    <3>4. CASE BeginJoin(r) \/ BeginBadState(r)
      BY <2>3, <3>4, DoneStatus DEF BeginJoin, BeginBadState
    <3> QED
      BY <2>1, <3>1, <3>2, <3>3, <3>4 DEF OnAsyncBegin
  <2>5. ASSUME NEW q \in Req, op[q] = "OPEN", WorkFrame(q)', ~WorkFrame(q)
        PROVE  ~fd
    <3>1. q = r /\ status \in Op[op[r]].starts
      BY <2>1, <2>5, DeliverFrames
    <3>2. status = "INIT"
      BY <2>3, <2>5, <3>1, OpTable
    <3> QED
      BY <3>2 DEF OpensFirst
  <2> QED
    BY <2>1, <2>2, <2>4, <2>5 DEF OpensFirst, InFlight
<1>7. ASSUME NEW r \in Req, RafUvClose(r) PROVE OpensFirst'
  <2>1. /\ \A q \in Req : q # r => op'[q] = op[q]
        /\ status' = status /\ fd' = fd /\ stack' = stack
    BY <1>0, <1>7 DEF RafUvClose, OnUvClose, session, handle, TypeOK
  <2>2. \A q \in Req : stage'[q] = IF q = r THEN "idle" ELSE stage[q]
    BY <1>7 DEF RafUvClose, Forget, RTypeOK
  <2>3. \A q \in Req : WorkFrame(q)' => WorkFrame(q)
    BY <2>1 DEF WorkFrame
  <2> QED
    BY <2>1, <2>2, <2>3, OpensFirstQuiet
<1>8. CASE UNCHANGED rvars
  BY <1>8 DEF rvars, vars, rafvars, handle, transfers, OpensFirst, InFlight, WorkFrame
<1> QED
  BY <1>1, <1>2, <1>3, <1>4, <1>5, <1>6, <1>7, <1>8, OpensFirstWorker, OpensFirstPool,
     OpensFirstCallback DEF RNext, Client

\* What is proved of Ara's session, for the file.
LEMMA FileSession == RSpec => []Session
BY FileUsesAra, SessionInvariant, PTL DEF UsesAra

LEMMA OpensFirstInvariant == RSpec => []OpensFirst
BY FileOwnership, FileSession, FileTypes, OwnedInvariant, ProgressInvariant,
   OpensFirstInit, OpensFirstStep, PTL DEF RSpec

-----------------------------------------------------------------------------
(***************************************************************************)
(* What a finished transfer has moved.  A write that failed because the    *)
(* file is closed is found out by its fstat(), as the file stays closed.   *)
(***************************************************************************)
Finished(r) ==
  /\ op[r] = "READ" /\ stage[r] = "done" => moved[r] = opts[r].length
  /\ op[r] = "WRITE" /\ WritesSucceed =>
       /\ stage[r] = "served" /\ result[r] <= 0 =>
            view[r].left = 0 \/ (result[r] = Failed /\ ~descriptor)
       /\ stage[r] = "statting" => moved[r] = opts[r].length \/ ~descriptor
       /\ stage[r] = "statted" => moved[r] = opts[r].length \/ result[r] = Failed
       /\ stage[r] = "done" => moved[r] = opts[r].length

Finishing == \A r \in Req : Finished(r)

LEMMA FinishInit == RInit => Finishing
<1> SUFFICES ASSUME RInit, NEW r \in Req PROVE Finished(r)
  BY DEF Finishing
<1> QED
  BY DEF RInit, Finished

\* A step that leaves the transfer of q alone, and does not open the file.
LEMMA FinishOf ==
  ASSUME NEW q \in Req, Finished(q), descriptor' => descriptor,
         op'[q] = op[q], stage'[q] = stage[q], opts'[q] = opts[q], view'[q] = view[q],
         result'[q] = result[q], moved'[q] = moved[q]
  PROVE  Finished(q)'
BY DEF Finished

\* A request whose transfer has not been served.
LEMMA FinishEarly ==
  ASSUME NEW q \in Req, stage'[q] \notin {"served", "statting", "statted", "done"}
  PROVE  Finished(q)'
BY DEF Finished

LEMMA FinishPool ==
  ASSUME Ownership, RTypeOK, Owned, Progressing, OpensFirst, Finishing, NEW r \in Req, Pool(r)
  PROVE  Finishing'
<1> USE ConstantFacts
<1> SUFFICES ASSUME NEW q \in Req PROVE Finished(q)'
  BY DEF Finishing
<1>1. /\ op' = op /\ opts' = opts /\ view' = view
      /\ stage[r] \in {"queued", "statting"}
      /\ \A p \in Req \ {r} : stage'[p] = stage[p] /\ moved'[p] = moved[p]
                                /\ result'[p] = result[p]
  BY PoolServes, PoolResult DEF vars, RTypeOK
<1>2. InFlight(r) /\ Finished(q)
  BY <1>1 DEF InFlight, Finishing
<1>3. CASE op[r] = "OPEN" /\ stage[r] = "queued"
  <2>1. ~fd
    BY <1>3 DEF OpensFirst
  <2>2. op[q] # "OPEN" => ~InFlight(q)
    BY <2>1 DEF OpensFirst
  <2>3. CASE q # r
    BY <1>1, <1>2, <2>2, <2>3 DEF Finished, InFlight
  <2>4. CASE q = r
    BY <1>1, <1>3, <2>4 DEF Finished
  <2> QED
    BY <2>3, <2>4
<1>4. CASE op[r] # "OPEN" \/ stage[r] = "statting"
  <2>1. descriptor' => descriptor
    <3>1. ~ServeOpen(r)
      BY <1>4 DEF ServeOpen, Serve
    <3> QED
      BY <3>1 DEF Pool, ServeClose, ServeUnlink, ServeRead, ServeWrite, ServeStat, Serve, file
  <2>2. CASE q # r
    BY <1>1, <1>2, <2>1, <2>2, FinishOf
  <2>3. CASE q = r /\ op[r] \notin {"READ", "WRITE"}
    BY <1>1, <2>3 DEF Finished
  <2>4. CASE q = r /\ op[r] = "READ"
    <3>1. stage'[r] # "done"
      BY PoolServes DEF RTypeOK
    <3> QED
      BY <1>1, <2>4, <3>1 DEF Finished
  <2>5. CASE q = r /\ op[r] = "WRITE" /\ stage[r] = "queued"
    <3>1. PICK n \in Count(r, "WRITE", view[r].left) :
            Serve(r, "WRITE", n) /\ UNCHANGED descriptor
      BY <2>5 DEF Pool, ServeOpen, ServeClose, ServeUnlink, ServeRead, ServeWrite, ServeStat, Serve
    <3>2. stage'[r] = "served" /\ result'[r] = n
      BY <3>1 DEF Serve, RTypeOK
    <3>3. /\ view[r] \in [base : Nat, left : Nat, at : Nat]
          /\ opts[r] \in [offset : Nat, length : Nat, flags : Flags]
          /\ view[r].base + view[r].left = opts[r].length
      BY <1>2 DEF RTypeOK, Progressing, Progress
    <3>4. WritesSucceed /\ view[r].left > 0 => r \in region
      BY <1>2, <3>3 DEF Owned, WritesSucceed
    <3>5. WritesSucceed /\ n <= 0 => view[r].left = 0 \/ (n = Failed /\ ~descriptor)
      BY <3>3, <3>4 DEF Count, WritesSucceed
    <3> QED
      BY <1>1, <2>5, <3>1, <3>2, <3>5 DEF Finished
  <2>6. CASE q = r /\ op[r] = "WRITE" /\ stage[r] = "statting"
    <3>1. ServeStat(r)
      BY <2>6 DEF Pool, ServeOpen, ServeClose, ServeUnlink, ServeRead, ServeWrite, Serve
    <3>2. /\ stage'[r] = "statted" /\ moved' = moved
          /\ ~descriptor => result'[r] = Failed
      BY <3>1 DEF ServeStat, RTypeOK
    <3> QED
      BY <1>1, <1>2, <2>6, <3>2 DEF Finished
  <2> QED
    BY <1>1, <2>2, <2>3, <2>4, <2>5, <2>6
<1> QED
  BY <1>1, <1>3, <1>4

LEMMA FinishCallback ==
  ASSUME Ownership, RTypeOK, Progressing, Finishing, NEW r \in Req, Callback(r)
  PROVE  Finishing'
<1> USE ConstantFacts
<1> SUFFICES ASSUME NEW q \in Req PROVE Finished(q)'
  BY DEF Finishing
<1>1. Finished(q) /\ Progress(q) /\ TypeOK
  BY DEF Finishing, Progressing, Ownership
<1>2. /\ view[r] \in [base : Nat, left : Nat, at : Nat]
      /\ opts[r] \in [offset : Nat, length : Nat, flags : Flags]
      /\ result[r] \in Nat \union {Failed}
      /\ moved[r] \in Nat
  BY DEF RTypeOK
<1>3. ASSUME FsDone(r)
      PROVE  /\ UNCHANGED <<op, descriptor, opts, view, result, moved>>
             /\ \A p \in Req : stage'[p] = IF p = r THEN "done" ELSE stage[p]
  BY <1>1, <1>3, DoneFrames DEF FsDone, Done, file, RTypeOK
<1>4. ASSUME FsDone(r), q = r => Finished(r)'
      PROVE  Finished(q)'
  BY <1>1, <1>3, <1>4, FinishOf
<1>5. ASSUME NEW s, stage' = [stage EXCEPT ![r] = s], s \in {"queued", "statting"},
             UNCHANGED <<op, descriptor, opts, result, moved>>,
             \A p \in Req \ {r} : view'[p] = view[p],
             s = "statting" /\ op[r] = "WRITE" /\ WritesSucceed =>
               moved[r] = opts[r].length \/ ~descriptor
      PROVE  Finished(q)'
  <2>1. \A p \in Req : stage'[p] = IF p = r THEN s ELSE stage[p]
    BY <1>5 DEF RTypeOK
  <2>2. CASE q # r
    BY <1>1, <1>5, <2>1, <2>2, FinishOf
  <2>3. CASE q = r
    BY <1>5, <2>1, <2>3 DEF Finished
  <2> QED
    BY <2>2, <2>3
<1>6. CASE OnFsOpen(r)
  BY <1>5, <1>6 DEF OnFsOpen, Returned, vars, file
<1>7. ASSUME NEW t \in Types, OnFsPlain(r, t) PROVE Finished(q)'
  <2>1. FsDone(r) /\ op[r] \notin {"READ", "WRITE"}
    BY <1>7 DEF OnFsPlain, Returned
  <2>2. Finished(r)'
    BY <1>3, <2>1 DEF Finished
  <2> QED
    BY <1>4, <2>1, <2>2
<1>8. ASSUME NEW t, Resume(r, t) PROVE Finished(q)'
  BY <1>5, <1>8 DEF Resume, vars, file, RTypeOK
<1>9. CASE OnFsRead(r)
  <2>1. FsDone(r) /\ op[r] = "READ" /\ stage[r] = "served" /\ result[r] >= 0 /\ Left(r) = 0
    BY <1>9 DEF OnFsRead, Returned, Ended
  <2>2. moved[r] = opts[r].length
    BY <1>2, <2>1 DEF Progressing, Progress, InFlight, Left, Gain
  <2>3. Finished(r)'
    BY <1>3, <2>1, <2>2 DEF Finished
  <2> QED
    BY <1>4, <2>1, <2>3
<1>10. CASE OnFsWrite(r)
  <2>1. /\ op[r] = "WRITE" /\ stage[r] = "served"
        /\ ~(result[r] > 0 /\ Left(r) > 0)
    BY <1>10 DEF OnFsWrite, Returned
  <2>2. Finished(r) /\ Progress(r)
    BY DEF Finishing, Progressing
  <2>3. CASE result[r] > 0
    <3>1. moved[r] = opts[r].length
      BY <1>2, <2>1, <2>2, <2>3 DEF Progress, InFlight, Left, Gain
    <3> QED
      BY <1>5, <1>10, <3>1 DEF OnFsWrite, vars, file
  <2>4. CASE result[r] <= 0
    <3>1. WritesSucceed => moved[r] = opts[r].length \/ ~descriptor
      BY <1>2, <2>1, <2>2, <2>4 DEF Finished, Progress, InFlight, Gain
    <3> QED
      BY <1>5, <1>10, <3>1 DEF OnFsWrite, vars, file
  <2> QED
    BY <1>2, <2>3, <2>4
<1>11. CASE OnFsStat(r)
  <2>1. FsDone(r) /\ stage[r] = "statted" /\ result[r] # Failed /\ op[r] \in {"OPEN", "WRITE"}
    BY <1>2, <1>11 DEF OnFsStat, Returned
  <2>2. op[r] = "WRITE" /\ WritesSucceed => moved[r] = opts[r].length
    BY <2>1 DEF Finishing, Finished
  <2>3. Finished(r)'
    BY <1>3, <2>1, <2>2 DEF Finished
  <2> QED
    BY <1>4, <2>1, <2>3
<1>12. CASE OnFsFailure(r)
  BY <1>1, <1>12, FinishOf DEF OnFsFailure, FsFails, Panic, vars, file, transfers
<1> QED
  BY <1>6, <1>7, <1>8, <1>9, <1>10, <1>11, <1>12 DEF Callback

LEMMA FinishStep ==
  /\ Ownership /\ RTypeOK /\ Owned /\ Progressing /\ OpensFirst /\ Finishing
  /\ [RNext]_rvars
  => Finishing'
<1> SUFFICES ASSUME Ownership, RTypeOK, Owned, Progressing, OpensFirst, Finishing,
                    [RNext]_rvars
             PROVE  Finishing'
  OBVIOUS
<1>0. TypeOK /\ OneOwner /\ NoDanglingRequest
  BY DEF Ownership
<1>q. ASSUME op' = op, descriptor' = descriptor, UNCHANGED transfers
      PROVE  Finishing'
  BY <1>q, FinishOf DEF transfers, Finishing
<1>1. ASSUME RafInit PROVE Finishing'
  BY <1>1, <1>q DEF RafInit, AraInit, requests, file
<1>2. ASSUME NEW t \in Types, RafSet(t) PROVE Finishing'
  BY <1>2, <1>q DEF RafSet, AraSet, requests, file
<1>3. ASSUME NEW t \in Types, NEW r \in Req, NEW o, RafAccepted(t, r, o) PROVE Finishing'
  <2> SUFFICES ASSUME NEW q \in Req PROVE Finished(q)'
    BY DEF Finishing
  <2>1. /\ stage'[r] = "asked" /\ descriptor' = descriptor
        /\ q # r => op'[q] = op[q] /\ stage'[q] = stage[q] /\ opts'[q] = opts[q]
        /\ view' = view /\ result' = result /\ moved' = moved
    BY <1>0, <1>3 DEF RafAccepted, CallAccepted, file, TypeOK, RTypeOK
  <2> QED
    BY <2>1, FinishEarly, FinishOf DEF Finishing
<1>4. ASSUME NEW t \in Types, RafRefused(t) PROVE Finishing'
  BY <1>4, <1>q DEF RafRefused, CallBadState, CallNoLoop, CallInitFails, AraThrow, Panic,
                    requests, file
<1>5. ASSUME NEW r, Forget(r), \A q \in Req \ {r} : op'[q] = op[q], descriptor' = descriptor
      PROVE  Finishing'
  <2> SUFFICES ASSUME NEW q \in Req PROVE Finished(q)'
    BY DEF Finishing
  <2>1. /\ q = r => stage'[q] = "idle"
        /\ q # r => stage'[q] = stage[q] /\ opts'[q] = opts[q] /\ view'[q] = view[q]
                      /\ result'[q] = result[q] /\ moved'[q] = moved[q]
    BY <1>5 DEF Forget, RTypeOK
  <2> QED
    BY <1>5, <2>1, FinishEarly, FinishOf DEF Finishing
<1>6. CASE RafReturn
  BY <1>5, <1>6 DEF RafReturn, ReturnCallback, ReqEnd, file
<1>7. ASSUME NEW r \in Req, RafDeliver(r) PROVE Finishing'
  <2>1. op' = op
    BY <1>7, DeliverFrames DEF RafDeliver
  <2> QED
    BY <1>7, <2>1, <1>q DEF RafDeliver, rafvars, file
<1>8. ASSUME NEW r \in Req, RafUvClose(r) PROVE Finishing'
  BY <1>0, <1>5, <1>8 DEF RafUvClose, OnUvClose, TypeOK, file
<1>9. ASSUME NEW r \in Req, Worker(r) PROVE Finishing'
  <2>1. op' = op /\ descriptor' = descriptor
    <3>1. CASE WorkEnds(r)
      BY <1>0, <3>1, DoneFrames DEF WorkEnds, Done, file
    <3>2. CASE ~WorkEnds(r)
      BY <1>9, <3>2 DEF Worker, WorkPanics, WorkSubmits, WorkEndStalls, WorkEndReturns,
                        ReturnWork, Panic, vars, requests, rafvars, file
    <3> QED
      BY <3>1, <3>2
  <2> SUFFICES ASSUME NEW q \in Req PROVE Finished(q)'
    BY DEF Finishing
  <2>2. CASE UNCHANGED transfers
    BY <1>q, <2>1, <2>2 DEF Finishing
  <2>3. CASE /\ stage' = [stage EXCEPT ![r] = "queued"]
             /\ \A p \in Req \ {r} : view'[p] = view[p]
             /\ UNCHANGED <<opts, result, moved>>
    <3>1. \A p \in Req : stage'[p] = IF p = r THEN "queued" ELSE stage[p]
      BY <2>3 DEF RTypeOK
    <3> QED
      BY <2>1, <2>3, <3>1, FinishEarly, FinishOf DEF Finishing
  <2>4. CASE /\ \E s \in {"done", "stalled"} : stage' = [stage EXCEPT ![r] = s]
             /\ UNCHANGED <<opts, view, result, moved>>
             /\ op[r] = "END"
    <3>1. \A p \in Req : p # r => stage'[p] = stage[p]
      BY <2>4 DEF RTypeOK
    <3>2. q = r => Finished(q)'
      BY <2>1, <2>4 DEF Finished
    <3> QED
      BY <2>1, <2>4, <3>1, <3>2, FinishOf DEF Finishing
  <2> QED
    BY <1>9, <2>2, <2>3, <2>4 DEF Worker, WorkPanics, WorkSubmits, WorkEnds, WorkEndStalls,
                                  WorkEndReturns, Starts, Panic, rafvars, RTypeOK
<1>10. CASE UNCHANGED rvars
  BY <1>10, <1>q DEF rvars, vars, rafvars, file
<1> QED
  BY <1>1, <1>2, <1>3, <1>4, <1>6, <1>7, <1>8, <1>9, <1>10, FinishPool, FinishCallback
     DEF RNext, Client

LEMMA FinishInvariant == RSpec => []Finishing
BY FileOwnership, FileTypes, OwnedInvariant, ProgressInvariant, OpensFirstInvariant,
   FinishInit, FinishStep, PTL DEF RSpec

\* A client is told of a read, and of a write no system call failed for, only
\* when the whole range has been moved (AnsweredWhole).
THEOREM WholeAnswers == RSpec => []AnsweredWhole
<1>1. TypeOK /\ Finishing => AnsweredWhole
  <2> SUFFICES ASSUME TypeOK, Finishing, NEW r \in Calling
               PROVE  /\ op[r] = "READ" => Whole(r)
                      /\ op[r] = "WRITE" /\ WritesSucceed => Whole(r)
    BY DEF AnsweredWhole, WritesSucceed
  <2>1. r \in Req
    <3>1. PICK i \in DOMAIN stack : r = stack[i].req
      BY DEF Calling
    <3>2. stack[i] \in Frames
      BY DEF TypeOK
    <3> QED
      BY <3>1, <3>2 DEF Frames
  <2> QED
    BY <2>1 DEF Finishing, Finished, Whole
<1> QED
  BY <1>1, FileOwnership, FinishInvariant, PTL DEF Ownership

-----------------------------------------------------------------------------
(***************************************************************************)
(* Where a transfer is in the file, and what the session knows of it.      *)
(* Nobody's callback runs while an answer of fstat() arrives, so the size  *)
(* a write has brought stands until its callback has returned.             *)
(***************************************************************************)
Within(r) ==
  /\ op[r] = "READ" => opts[r].offset + opts[r].length <= fileSize
  /\ stage[r] = "statted" => result[r] <= fileSize
  /\ op[r] = "WRITE" /\ moved[r] > 0 =>
       /\ opts[r].offset + moved[r] <= fileSize
       /\ stage[r] = "statted" /\ result[r] # Failed => opts[r].offset + moved[r] <= result[r]
       /\ stage[r] = "done" /\ r \in Calling => opts[r].offset + moved[r] <= size

InFile ==
  /\ size <= fileSize
  /\ fileSize < Wrap
  /\ \A r \in Req : Within(r)

LEMMA InFileInit == RInit /\ NoWrap => InFile
<1> SUFFICES ASSUME RInit, NoWrap PROVE InFile
  OBVIOUS
<1>1. /\ size = 0 /\ fileSize \in Nat /\ fileSize < Wrap
      /\ \A r \in Req : op[r] = "UNKNOWN" /\ stage[r] = "idle"
  BY ConstantFacts DEF RInit, Init, NoWrap
<1> QED
  BY <1>1 DEF InFile, Within

\* A step that leaves the range of q, and what is known of it, alone.
LEMMA WithinOf ==
  ASSUME RTypeOK, RTypeOK', NEW q \in Req, Within(q), fileSize <= fileSize',
         \/ op'[q] = op[q] /\ opts'[q] = opts[q] /\ moved'[q] = moved[q]
         \/ op'[q] \notin {"READ", "WRITE"}
         \/ opts'[q] = NoOpts /\ moved'[q] = 0,
         stage'[q] = "statted" => stage[q] = "statted" /\ result'[q] = result[q],
         stage'[q] = "done" /\ q \in Calling' =>
           \/ stage[q] = "done" /\ q \in Calling /\ size' = size
           \/ op'[q] # "WRITE"
  PROVE  Within(q)'
<1>1. /\ opts[q].offset \in Nat /\ opts[q].length \in Nat /\ moved[q] \in Nat
      /\ fileSize \in Nat /\ fileSize' \in Nat /\ size \in Nat /\ size' \in Nat
      /\ result[q] \in Nat \union {Failed} /\ Failed = -1
      /\ NoOpts.offset = 0 /\ NoOpts.length = 0
  BY ConstantFacts DEF RTypeOK, NoOpts
<1> QED
  BY <1>1 DEF Within

LEMMA InFilePool ==
  ASSUME RTypeOK, RTypeOK', NoWrap, Progressing, InFile, NEW r \in Req, Pool(r)
  PROVE  InFile'
<1> USE ConstantFacts
<1>1. /\ op' = op /\ opts' = opts /\ size' = size /\ Calling' = Calling
      /\ stage[r] \in {"queued", "statting"}
      /\ \A q \in Req \ {r} : stage'[q] = stage[q] /\ moved'[q] = moved[q]
                                /\ result'[q] = result[q]
  BY PoolServes, PoolResult DEF vars, handle, RTypeOK, Calling, IsCallback
<1>2. /\ view[r] \in [base : Nat, left : Nat, at : Nat]
      /\ opts[r] \in [offset : Nat, length : Nat, flags : Flags]
      /\ moved[r] \in Nat /\ fileSize \in Nat /\ size \in Nat
  BY DEF RTypeOK
<1>3. Progress(r) /\ Within(r)
  BY DEF Progressing, InFile
<1>4. ASSUME fileSize <= fileSize', fileSize' < Wrap, Within(r)' PROVE InFile'
  <2>1. \A q \in Req \ {r} : Within(q)'
    BY <1>1, <1>4, WithinOf DEF InFile
  <2>2. size' <= fileSize'
    BY <1>1, <1>2, <1>4 DEF InFile, RTypeOK
  <2> QED
    BY <1>4, <2>1, <2>2 DEF InFile
<1>5. CASE op[r] = "WRITE" /\ stage[r] = "queued"
  <2>1. PICK n \in Count(r, "WRITE", view[r].left) :
          /\ Serve(r, "WRITE", n)
          /\ Move(r, n)
          /\ fileSize' = IF n > 0 /\ view[r].at + n > fileSize THEN view[r].at + n ELSE fileSize
    BY <1>5 DEF Pool, ServeOpen, ServeClose, ServeUnlink, ServeRead, ServeWrite, ServeStat, Serve
  <2>2. n \in Nat \union {Failed} /\ n <= view[r].left
    BY <1>2, CountType
  <2>3. /\ view[r].at = opts[r].offset + view[r].base
        /\ moved[r] = view[r].base
        /\ view[r].base + view[r].left = opts[r].length
        /\ opts[r].offset + opts[r].length < Wrap
    BY <1>3, <1>5 DEF Progress, InFlight
  <2>4. moved'[r] = moved[r] + Gain(n) /\ stage'[r] = "served"
    BY <1>2, <2>1, <2>2 DEF Move, Serve, Gain, RTypeOK
  <2>5. fileSize <= fileSize' /\ fileSize' < Wrap
    BY <1>2, <2>1, <2>2, <2>3 DEF InFile
  <2>6. CASE n > 0
    <3>1. opts[r].offset + moved'[r] <= fileSize'
      BY <1>2, <2>1, <2>2, <2>3, <2>4, <2>6 DEF Gain
    <3> QED
      BY <1>1, <1>4, <1>5, <2>4, <2>5, <3>1 DEF Within
  <2>7. CASE n <= 0
    <3>1. moved'[r] = moved[r] /\ fileSize' = fileSize
      BY <1>2, <2>1, <2>2, <2>4, <2>7 DEF Gain
    <3> QED
      BY <1>1, <1>3, <1>4, <1>5, <2>4, <2>5, <3>1 DEF Within
  <2> QED
    BY <2>2, <2>6, <2>7
<1>6. CASE stage[r] = "statting"
  <2>1. ServeStat(r)
    BY <1>6 DEF Pool, ServeOpen, ServeClose, ServeUnlink, ServeRead, ServeWrite, Serve
  <2>2. /\ stage'[r] = "statted" /\ moved' = moved /\ fileSize' = fileSize
        /\ result'[r] \in {fileSize, Failed}
    BY <2>1 DEF ServeStat, RTypeOK, file
  <2> QED
    BY <1>1, <1>2, <1>3, <1>4, <2>2 DEF Within, InFile
<1>7. CASE op[r] # "WRITE" /\ stage[r] = "queued"
  <2>1. fileSize' = fileSize
    BY <1>7 DEF Pool, ServeOpen, ServeClose, ServeUnlink, ServeRead, ServeWrite, ServeStat,
                Serve, file
  <2>2. stage'[r] = "served"
    BY <1>7, PoolResult
  <2> QED
    BY <1>1, <1>2, <1>3, <1>4, <1>7, <2>1, <2>2 DEF Within, InFile
<1> QED
  BY <1>1, <1>5, <1>6, <1>7

\* A step that is none of the file: whose callback runs may change.
LEMMA InFileQuiet ==
  ASSUME RTypeOK, RTypeOK', InFile, op' = op, UNCHANGED <<size, fileSize, transfers>>,
         \A q \in Req : q \in Calling' /\ stage[q] = "done" => q \in Calling
  PROVE  InFile'
<1> SUFFICES ASSUME NEW q \in Req PROVE Within(q)'
  BY DEF InFile
<1>1. fileSize \in Nat
  BY DEF RTypeOK
<1> QED
  BY <1>1, WithinOf DEF InFile, transfers

\* A request that is no transfer is answered, or a transfer has no answer yet.
LEMMA InFileStage ==
  ASSUME RTypeOK, RTypeOK', InFile, NEW r \in Req, op' = op, NEW s,
         stage' = [stage EXCEPT ![r] = s], s # "statted", s = "done" => op[r] # "WRITE",
         Calling' \subseteq Calling \union {r},
         UNCHANGED <<size, fileSize, opts, result, moved>>
  PROVE  InFile'
<1> SUFFICES ASSUME NEW q \in Req PROVE Within(q)'
  BY DEF InFile
<1>1. \A p \in Req : stage'[p] = IF p = r THEN s ELSE stage[p]
  BY DEF RTypeOK
<1>2. fileSize \in Nat
  BY DEF RTypeOK
<1> QED
  BY <1>1, <1>2, WithinOf DEF InFile

LEMMA InFileCallback ==
  ASSUME TypeOK, RTypeOK, RTypeOK', NoWrap, InFile, NEW r \in Req, Callback(r)
  PROVE  InFile'
<1> USE ConstantFacts
<1>1. ASSUME FsDone(r)
      PROVE  /\ op' = op /\ fileSize' = fileSize
             /\ Calling' \subseteq Calling \union {r}
  BY <1>1, DoneFrames DEF FsDone, Done, file
<1>2. ASSUME UNCHANGED vars PROVE op' = op /\ Calling' = Calling
  BY <1>2 DEF vars, Calling, IsCallback
<1>3. CASE OnFsOpen(r)
  BY <1>2, <1>3, InFileStage DEF OnFsOpen, Returned, file
<1>4. ASSUME NEW t \in Types, OnFsPlain(r, t) PROVE InFile'
  BY <1>1, <1>4, InFileStage DEF OnFsPlain, Returned, FsDone, handle
<1>5. ASSUME NEW t, Resume(r, t) PROVE InFile'
  BY <1>2, <1>5, InFileStage DEF Resume, handle, file
<1>6. CASE OnFsRead(r)
  BY <1>1, <1>6, InFileStage DEF OnFsRead, Returned, FsDone, handle
<1>7. CASE OnFsWrite(r)
  BY <1>2, <1>7, InFileStage DEF OnFsWrite, handle, file
<1>8. CASE OnFsStat(r)
  <2>1. /\ FsDone(r) /\ stage[r] = "statted" /\ result[r] > Failed
        /\ size' = result[r] % Wrap
        /\ Calling = {}
    BY <1>8 DEF OnFsStat, Returned, Calling
  <2>2. /\ op' = op /\ fileSize' = fileSize /\ Calling' \subseteq {r}
        /\ opts' = opts /\ result' = result /\ moved' = moved
        /\ \A p \in Req : stage'[p] = IF p = r THEN "done" ELSE stage[p]
    BY <1>1, <2>1 DEF FsDone, RTypeOK
  <2>3. Within(r) /\ result[r] \in Nat \union {Failed} /\ fileSize \in Nat
    BY DEF InFile, RTypeOK
  <2>4. result[r] \in Nat /\ result[r] <= fileSize /\ result[r] < Wrap
    BY <2>1, <2>3 DEF Within, InFile
  <2>5. size' = result[r]
    BY <2>1, <2>4, SmallMod
  <2>6. ASSUME NEW q \in Req \ {r} PROVE Within(q)'
    BY <2>2, <2>3, <2>6, WithinOf DEF InFile
  <2>7. Within(r)'
    BY <2>1, <2>2, <2>3, <2>4, <2>5 DEF Within
  <2> QED
    BY <2>2, <2>4, <2>5, <2>6, <2>7 DEF InFile
<1>9. CASE OnFsFailure(r)
  BY <1>2, <1>9, InFileQuiet DEF OnFsFailure, FsFails, Panic, handle, file
<1> QED
  BY <1>3, <1>4, <1>5, <1>6, <1>7, <1>8, <1>9 DEF Callback

LEMMA InFileWorker ==
  ASSUME TypeOK, RTypeOK, RTypeOK', InFile, NEW r \in Req, Worker(r)
  PROVE  InFile'
<1>1. ASSUME ReturnWork PROVE op' = op /\ Calling' \subseteq Calling
  BY <1>1, LeaveFrame DEF ReturnWork, requests
<1>2. ASSUME NEW t \in Types, WorkPanics(r, t) PROVE InFile'
  BY <1>2, InFileQuiet DEF WorkPanics, Panic, vars, handle, file, Calling, IsCallback
<1>3. ASSUME NEW t \in Types, WorkSubmits(r, t) PROVE InFile'
  BY <1>1, <1>3, InFileStage DEF WorkSubmits, handle, file
<1>4. CASE WorkEnds(r)
  BY <1>4, DoneFrames, InFileStage DEF WorkEnds, Starts, Done, handle, file
<1>5. CASE WorkEndStalls(r)
  BY <1>1, <1>5, InFileStage DEF WorkEndStalls, handle, file
<1>6. CASE WorkEndReturns(r)
  BY <1>1, <1>6, InFileQuiet DEF WorkEndReturns, rafvars, handle, file
<1> QED
  BY <1>2, <1>3, <1>4, <1>5, <1>6 DEF Worker

LEMMA InFileStep ==
  ASSUME Ownership, RTypeOK, RTypeOK', NoWrap, Owned, Progressing, InFile, [RNext]_rvars
  PROVE  InFile'
<1>0. TypeOK /\ NoDanglingRequest /\ fileSize \in Nat /\ size \in Nat
  BY DEF Ownership, RTypeOK
<1>1. ASSUME RafInit PROVE InFile'
  <2>1. /\ op' = op /\ Calling' = Calling /\ Calling = {} /\ size' = 0
        /\ fileSize' = fileSize /\ UNCHANGED transfers
    BY <1>1 DEF RafInit, AraInit, requests, file, Calling, IsCallback
  <2>2. ASSUME NEW q \in Req PROVE Within(q)'
    BY <1>0, <2>1, WithinOf DEF InFile, transfers
  <2> QED
    BY <1>0, <2>1, <2>2 DEF InFile
<1>2. ASSUME NEW t \in Types, RafSet(t) PROVE InFile'
  BY <1>2, InFileQuiet DEF RafSet, AraSet, requests, handle, file, Calling, IsCallback
<1>3. ASSUME NEW t \in Types, NEW r \in Req, NEW o \in Asked(t), RafAccepted(t, r, o)
      PROVE  InFile'
  <2>1. /\ \A q \in Req : op'[q] = IF q = r THEN t ELSE op[q]
        /\ \A q \in Req : stage'[q] = IF q = r THEN "asked" ELSE stage[q]
        /\ \A q \in Req : opts'[q] = IF q = r THEN o ELSE opts[q]
        /\ result' = result /\ moved' = moved /\ size' = size /\ fileSize' = fileSize
        /\ Calling' = Calling /\ r \notin Live
    BY <1>0, <1>3 DEF RafAccepted, CallAccepted, TypeOK, RTypeOK, handle, file, Calling, IsCallback
  <2>2. moved[r] = 0
    BY <2>1 DEF Progressing, Progress
  <2>3. /\ o.offset \in Nat /\ o.length \in Nat
        /\ t = "READ" => o.offset + o.length <= size
    BY AskedType DEF RTypeOK
  <2>4. Within(r)'
    BY <1>0, <2>1, <2>2, <2>3 DEF Within, InFile
  <2>5. ASSUME NEW q \in Req \ {r} PROVE Within(q)'
    BY <1>0, <2>1, WithinOf DEF InFile
  <2> QED
    BY <2>1, <2>4, <2>5 DEF InFile
<1>4. ASSUME NEW t \in Types, RafRefused(t) PROVE InFile'
  <2>1. op' = op /\ stack' = stack
    BY <1>4 DEF RafRefused, CallBadState, CallNoLoop, CallInitFails, AraThrow, requests
  <2> QED
    BY <1>4, <2>1, InFileQuiet DEF RafRefused, Panic, handle, file, Calling, IsCallback
<1>5. ASSUME NEW r, Forget(r), UNCHANGED <<handle, file>>, Calling' \subseteq Calling,
             \A q \in Req \ {r} : op'[q] = op[q]
      PROVE  InFile'
  <2> SUFFICES ASSUME NEW q \in Req PROVE Within(q)'
    BY <1>5 DEF InFile, handle, file
  <2>1. /\ q = r => stage'[q] = "idle" /\ opts'[q] = NoOpts /\ moved'[q] = 0
        /\ q # r => stage'[q] = stage[q] /\ opts'[q] = opts[q] /\ result'[q] = result[q]
                      /\ moved'[q] = moved[q]
        /\ size' = size /\ fileSize' = fileSize
    BY <1>5 DEF Forget, RTypeOK, handle, file
  <2> QED
    BY <1>0, <1>5, <2>1, WithinOf DEF InFile
<1>6. CASE RafReturn
  BY <1>0, <1>5, <1>6, LeaveFrame DEF RafReturn, ReturnCallback, ReqEnd
<1>7. ASSUME NEW r \in Req, RafDeliver(r) PROVE InFile'
  <2>1. /\ op' = op /\ Calling' \subseteq Calling \union {r} /\ r \in sent
        /\ UNCHANGED <<size, fileSize, transfers>>
    BY <1>7, DeliverFrames DEF RafDeliver, rafvars, handle, file
  <2>2. stage[r] = "asked"
    BY <2>1 DEF Owned
  <2> QED
    BY <2>1, <2>2, InFileQuiet
<1>8. ASSUME NEW r \in Req, RafUvClose(r) PROVE InFile'
  <2>1. stack' = stack /\ \A q \in Req \ {r} : op'[q] = op[q]
    BY <1>0, <1>8 DEF RafUvClose, OnUvClose, TypeOK
  <2> QED
    BY <1>5, <1>8, <2>1 DEF RafUvClose, Calling, IsCallback
<1>9. CASE UNCHANGED rvars
  BY <1>9, InFileQuiet DEF rvars, vars, rafvars, handle, file, Calling, IsCallback
<1> QED
  BY <1>0, <1>1, <1>2, <1>3, <1>4, <1>6, <1>7, <1>8, <1>9, InFilePool, InFileCallback,
     InFileWorker DEF RNext, Client

LEMMA InFileInvariant == RSpec => [](NoWrap => InFile)
<1>1. /\ Ownership /\ RTypeOK /\ RTypeOK' /\ Owned /\ Progressing
      /\ (NoWrap => InFile) /\ [RNext]_rvars
      => (NoWrap => InFile)'
  <2>1. NoWrap' <=> NoWrap
    BY DEF NoWrap
  <2> QED
    BY <2>1, InFileStep
<1> QED
  BY <1>1, InFileInit, FileOwnership, FileTypes, OwnedInvariant, ProgressInvariant, PTL
     DEF RSpec

\* However the answers of fstat() are ordered, raf->size is never ahead of the
\* file, and no read asks for what the file does not have (ReadsInFile).
THEOREM ReadsStayInFile == RSpec => []ReadsInFile
<1>1. RTypeOK /\ (NoWrap => InFile) => ReadsInFile
  BY DEF ReadsInFile, InFile, Within, Live
<1> QED
  BY <1>1, FileTypes, InFileInvariant, PTL

\* A client finds what it has written inside raf->size (OwnWriteVisible),
\* whatever other transfers are under way.
THEOREM WritesAreVisible == RSpec => []OwnWriteVisible
<1>1. TypeOK /\ RTypeOK /\ Finishing /\ (NoWrap => InFile) => OwnWriteVisible
  <2> SUFFICES ASSUME TypeOK, RTypeOK, Finishing, NoWrap, InFile, WritesSucceed,
                      NEW r \in Calling,
                      op[r] = "WRITE", stage[r] = "done", opts[r].length > 0
               PROVE  opts[r].offset + opts[r].length <= size
    BY DEF OwnWriteVisible, WritesSucceed
  <2>1. r \in Req
    <3>1. PICK i \in DOMAIN stack : r = stack[i].req
      BY DEF Calling
    <3>2. stack[i] \in Frames
      BY DEF TypeOK
    <3> QED
      BY <3>1, <3>2 DEF Frames
  <2>2. moved[r] = opts[r].length
    BY <2>1 DEF Finishing, Finished
  <2> QED
    BY <2>1, <2>2 DEF InFile, Within
<1> QED
  BY <1>1, FileOwnership, FileTypes, FinishInvariant, InFileInvariant, PTL DEF Ownership
=============================================================================
