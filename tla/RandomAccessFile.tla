-------------------------- MODULE RandomAccessFile --------------------------
(***************************************************************************)
(* example/raf: a file behind libara.                                      *)
(*                                                                         *)
(* raf_<op>() registers a worker with ara_set() and makes a request with   *)
(* ara_<op>(); anything that fails ends the process (panic).  The worker   *)
(* starts a file-system request and returns; libuv's thread pool serves    *)
(* it; its callback runs on the loop and resumes a short transfer, asks    *)
(* for the size of the file, or calls done().                              *)
(*                                                                         *)
(* Each step is conjoined with the step of Ara it takes, so the session,   *)
(* the requests and the frames are those of Ara.                           *)
(***************************************************************************)
EXTENDS Ara, RafTypes, Integers

CONSTANTS
  Ranges,     \* the ranges [offset, length] clients ask for
  Modes,      \* the flags clients open with
  Sizes,      \* the sizes the file may have before the program runs
  Times,      \* may fstat() report a modification time: subset of BOOLEAN
  Faults      \* what may fail: system calls, ALLOC, ASYNC

FaultKinds == OpTypes \union {"STAT", "ALLOC", "ASYNC"}

ASSUME RafAssumption ==
  /\ ~ReInit
  /\ Types \subseteq OpTypes
  /\ Ranges \subseteq [offset : Nat, length : Nat]
  /\ Modes \subseteq Flags
  /\ Sizes \subseteq Nat
  /\ Times \subseteq BOOLEAN
  /\ Faults \subseteq FaultKinds

VARIABLES
  up,         \* the process has not called exit()
  calling,    \* the raf_<op>() that is between its ara_set() and its ara_<op>()
  orderly,    \* every call so far was made in order (history)
  fd,         \* raf->fd > -1
  readable,   \* raf->readable
  writable,   \* raf->writable
  size,       \* raf->size
  dated,      \* raf->atime or raf->mtime is set
  descriptor, \* the kernel has the descriptor open
  fileSize,   \* the size of the file
  stage,      \* stage[r]: what the RandomAccessFileRequest of r waits for
  opts,       \* opts[r]: the range and the flags of r
  view,       \* view[r]: buffer_mut's base and length, and the file offset in use
  result,     \* result[r]: fs->result, or the size fstat() saw
  region,     \* the requests whose buffer has memory
  moved       \* moved[r]: bytes the kernel has moved for r (history)

client == <<calling, orderly>>
handle == <<fd, readable, writable, size, dated>>
file == <<descriptor, fileSize>>
transfers == <<stage, opts, view, result, region, moved>>
rafvars == <<up, client, handle, file, transfers>>
rvars == <<vars, rafvars>>

(***************************************************************************)
(* idle: no RandomAccessFileRequest; asked: its worker has not run;        *)
(* queued and served: a file-system request before and after the thread    *)
(* pool ran it; statting and statted: the same for fstat(); done: done()   *)
(* was called; stalled: the worker returned and nothing else will happen.  *)
(***************************************************************************)
RafStages ==
  {"idle", "asked", "queued", "served", "statting", "statted", "done", "stalled"}

InFlight(r) == stage[r] \in {"queued", "served", "statting", "statted"}

NoOpts == [offset |-> 0, length |-> 0, flags |-> "NONE"]
NoView == [base |-> 0, left |-> 0, at |-> 0]

Failed == -1

RInit ==
  /\ Init
  /\ up = TRUE
  /\ calling = "none"
  /\ orderly = TRUE
  /\ fd = TRUE                \* 0, as in any zeroed struct
  /\ readable = FALSE
  /\ writable = FALSE
  /\ size = 0
  /\ dated = FALSE
  /\ descriptor = FALSE
  /\ fileSize \in Sizes
  /\ stage = [r \in Req |-> "idle"]
  /\ opts = [r \in Req |-> NoOpts]
  /\ view = [r \in Req |-> NoView]
  /\ result = [r \in Req |-> 0]
  /\ region = {}
  /\ moved = [r \in Req |-> 0]

-----------------------------------------------------------------------------
(***************************************************************************)
(* The calls of a client, from outside the loop or from a callback.        *)
(***************************************************************************)
Idle == up /\ calling = "none"

\* exit(1): nothing else of the process will happen.
Panic == up' = FALSE /\ UNCHANGED <<client, handle, file, transfers>>

RafInit ==
  /\ Idle
  /\ stack = <<>>
  /\ AraInit
  /\ fd' = FALSE
  /\ readable' = FALSE
  /\ writable' = FALSE
  /\ size' = 0
  /\ dated' = FALSE
  /\ UNCHANGED <<up, client, file, transfers>>

(***************************************************************************)
(* An orderly client opens once, makes its requests while the session is   *)
(* open, as the file was opened for, and closes when all of them have been *)
(* answered.                                                               *)
(***************************************************************************)
InOrder(t) ==
  IF t = "OPEN" THEN status = "INIT" /\ Live = {}
  ELSE /\ status = "OPENED"
       /\ \A r \in sent : op[r] # "CLOSE"
       /\ t = "READ" => readable
       /\ t = "WRITE" => writable
       /\ t = "CLOSE" => sent = {} /\ held = {}

\* The first half of raf_<op>(): it registers its worker before each request.
RafSet(t) ==
  /\ Idle
  /\ stack # <<>> => Top.kind = "callback"
  /\ Live # Req
  /\ AraSet(t)
  /\ calling' = t
  /\ orderly' = (orderly /\ InOrder(t))
  /\ UNCHANGED <<up, handle, file, transfers>>

\* What raf_<op>() puts into its request: raf_read() cuts its range first.
Transfer(range) == [offset |-> range.offset, length |-> range.length, flags |-> "NONE"]

Asked(t) ==
  IF t = "OPEN" THEN {[NoOpts EXCEPT !.flags = m] : m \in Modes}
  ELSE IF t = "READ" THEN {Transfer(Clamp(range, size)) : range \in Ranges}
  ELSE IF t = "WRITE" THEN {Transfer(range) : range \in Ranges}
  ELSE {NoOpts}

\* ara_async_req_send() makes the buffer, and does not look whether it could.
RafAccepted(t, r, o) ==
  /\ up
  /\ calling = t
  /\ CallAccepted(t, r)
  /\ calling' = "none"
  /\ stage' = [stage EXCEPT ![r] = "asked"]
  /\ opts' = [opts EXCEPT ![r] = o]
  /\ region' \in {IF o.length > 0 THEN region \union {r} ELSE region}
                   \union (IF "ALLOC" \in Faults THEN {region} ELSE {})
  /\ UNCHANGED <<up, orderly, handle, file, view, result, moved>>

\* ara_<op>() returned ARA_FALSE, for any reason but a missing worker.
RafRefused(t) ==
  /\ up
  /\ calling = t
  /\ \/ CallBadState(t)
     \/ CallNoLoop(t)
     \/ "ASYNC" \in Faults /\ CallInitFails(t)
  /\ Panic

-----------------------------------------------------------------------------
(***************************************************************************)
(* The loop delivers a request; the worker Ara starts runs to its end      *)
(* before anything else on this thread.                                    *)
(***************************************************************************)
RafDeliver(r) ==
  /\ Idle
  /\ OnAsyncBegin(r)
  /\ UNCHANGED rafvars

Starts(r, t) ==
  /\ up
  /\ stack # <<>>
  /\ Top = [kind |-> "work", req |-> r]
  /\ op[r] = t
  /\ stage[r] = "asked"

Usable(t) ==
  /\ t # "OPEN" => fd
  /\ t = "READ" => readable
  /\ t = "WRITE" => writable

WorkPanics(r, t) ==
  /\ Starts(r, t)
  /\ ~Usable(t)
  /\ Panic
  /\ UNCHANGED vars

\* uv_fs_<op>(): the whole buffer, at the offset of the request.
WorkSubmits(r, t) ==
  /\ Starts(r, t)
  /\ Usable(t)
  /\ t # "END"
  /\ ReturnWork
  /\ stage' = [stage EXCEPT ![r] = "queued"]
  /\ view' = [view EXCEPT ![r] = [base |-> 0, left |-> opts[r].length, at |-> opts[r].offset]]
  /\ UNCHANGED <<up, client, handle, file, opts, result, region, moved>>

\* The only worker that calls done() itself, inside its own frame.
WorkEnds(r) ==
  /\ Starts(r, "END")
  /\ Usable("END")
  /\ ~dated
  /\ Done(r)
  /\ stage' = [stage EXCEPT ![r] = "done"]
  /\ UNCHANGED <<up, client, handle, file, opts, view, result, region, moved>>

WorkEndReturns(r) ==
  /\ Idle
  /\ stack # <<>>
  /\ Top = [kind |-> "work", req |-> r]
  /\ stage[r] \in {"done", "idle"}
  /\ ReturnWork
  /\ UNCHANGED rafvars

\* Two empty branches: nobody calls done() for this request.
WorkEndStalls(r) ==
  /\ Starts(r, "END")
  /\ Usable("END")
  /\ dated
  /\ ReturnWork
  /\ stage' = [stage EXCEPT ![r] = "stalled"]
  /\ UNCHANGED <<up, client, handle, file, opts, view, result, region, moved>>

-----------------------------------------------------------------------------
(***************************************************************************)
(* The thread pool serves a file-system request, at any time.              *)
(***************************************************************************)
Least(a, b) == IF a <= b THEN a ELSE b

\* What read() or write() may return for n > 0 bytes there is room or data for.
Count(r, t, n) ==
  (IF ~descriptor \/ (view[r].left > 0 /\ r \notin region) THEN {Failed}
   ELSE IF n = 0 THEN {0} ELSE 1..n)
    \union (IF t \in Faults THEN {0, Failed} ELSE {})

Serve(r, t, n) ==
  /\ up
  /\ op[r] = t
  /\ stage[r] = "queued"
  /\ stage' = [stage EXCEPT ![r] = "served"]
  /\ result' = [result EXCEPT ![r] = n]
  /\ UNCHANGED <<vars, up, client, handle, opts, view, region>>

Outcome(t) == {0} \union (IF t \in Faults THEN {Failed} ELSE {})

ServeOpen(r) ==
  \E n \in Outcome("OPEN") :
    /\ Serve(r, "OPEN", n)
    /\ descriptor' = (n # Failed)
    /\ UNCHANGED <<fileSize, moved>>

ServeClose(r) ==
  \E n \in Outcome("CLOSE") :
    /\ Serve(r, "CLOSE", n)
    /\ descriptor' = FALSE
    /\ UNCHANGED <<fileSize, moved>>

ServeUnlink(r) ==
  \E n \in Outcome("UNLINK") :
    /\ Serve(r, "UNLINK", n)
    /\ UNCHANGED <<file, moved>>

Move(r, n) == moved' = [moved EXCEPT ![r] = IF n > 0 THEN @ + n ELSE @]

\* A read ends at the end of the file.
ServeRead(r) ==
  LET there == IF view[r].at < fileSize THEN fileSize - view[r].at ELSE 0
  IN \E n \in Count(r, "READ", Least(view[r].left, there)) :
       /\ Serve(r, "READ", n)
       /\ Move(r, n)
       /\ UNCHANGED file

\* A write may make the file longer.
ServeWrite(r) ==
  \E n \in Count(r, "WRITE", view[r].left) :
    /\ Serve(r, "WRITE", n)
    /\ Move(r, n)
    /\ fileSize' = IF n > 0 /\ view[r].at + n > fileSize THEN view[r].at + n ELSE fileSize
    /\ UNCHANGED descriptor

ServeStat(r) ==
  /\ up
  /\ stage[r] = "statting"
  /\ stage' = [stage EXCEPT ![r] = "statted"]
  /\ \E n \in (IF descriptor THEN {fileSize} ELSE {Failed})
                \union (IF "STAT" \in Faults THEN {Failed} ELSE {}) :
       result' = [result EXCEPT ![r] = n]
  /\ UNCHANGED <<vars, up, client, handle, file, opts, view, region, moved>>

-----------------------------------------------------------------------------
(***************************************************************************)
(* The callbacks of file-system requests, on the loop.                     *)
(***************************************************************************)
Returned(r, t, s) ==
  /\ Idle
  /\ stack = <<>>
  /\ op[r] = t
  /\ stage[r] = s

\* on_uv_fs_done() of every file but end.c: a failure ends the process.
FsFails(r) ==
  /\ Panic
  /\ UNCHANGED vars

FsDone(r) ==
  /\ Done(r)
  /\ stage' = [stage EXCEPT ![r] = "done"]
  /\ UNCHANGED <<up, client, file, opts, view, result, region, moved>>

\* Plausible bug: done() is called before fstat().
OnFsOpen_DoneFirst(r) ==
  /\ Returned(r, "OPEN", "served")
  /\ result[r] > Failed
  /\ Done(r)
  /\ fd' = TRUE
  /\ readable' = ReadableBy(opts[r].flags, readable)
  /\ writable' = WritableBy(opts[r].flags, writable)
  /\ stage' = [stage EXCEPT ![r] = "statting"]
  /\ UNCHANGED <<up, client, size, dated, file, opts, view, result, region, moved>>

\* The descriptor is kept, then the size of the file is asked for.
OnFsOpen(r) ==
  /\ Returned(r, "OPEN", "served")
  /\ result[r] > Failed
  /\ fd' = TRUE
  /\ readable' = ReadableBy(opts[r].flags, readable)
  /\ writable' = WritableBy(opts[r].flags, writable)
  /\ stage' = [stage EXCEPT ![r] = "statting"]
  /\ UNCHANGED <<vars, up, client, size, dated, file, opts, view, result, region, moved>>

\* on_uv_fs_close() and on_uv_fs_unlink().
OnFsPlain(r, t) ==
  /\ Returned(r, t, "served")
  /\ t \in {"CLOSE", "UNLINK"}
  /\ result[r] > Failed
  /\ FsDone(r)
  /\ UNCHANGED handle

\* UV_FS_PROCESS_REQ: what is left of a transfer after fs->result bytes of it.
Left(r) == IF result[r] > 0 THEN view[r].left - result[r] ELSE view[r].left

\* Plausible bug: the next part is asked for at the offset of this one.
Resume_LastPart(r, t) ==
  /\ Returned(r, t, "served")
  /\ result[r] > 0
  /\ Left(r) > 0
  /\ view' = [view EXCEPT ![r] =
       [base |-> @.base + result[r],
        left |-> Left(r),
        at   |-> (opts[r].offset + result[r]) % Wrap]]
  /\ stage' = [stage EXCEPT ![r] = "queued"]
  /\ UNCHANGED <<vars, up, client, handle, file, opts, result, region, moved>>

\* A short transfer goes on where it stopped.  offset + delta is an ARAuint.
Resume(r, t) ==
  /\ Returned(r, t, "served")
  /\ result[r] > 0
  /\ Left(r) > 0
  /\ view' = [view EXCEPT ![r] =
       [base |-> @.base + result[r],
        left |-> Left(r),
        at   |-> (opts[r].offset + (opts[r].length - Left(r))) % Wrap]]
  /\ stage' = [stage EXCEPT ![r] = "queued"]
  /\ UNCHANGED <<vars, up, client, handle, file, opts, result, region, moved>>

\* A transfer of nothing is done; one that stops before its end is an error.
Ended(r) == result[r] >= 0 /\ Left(r) = 0

\* Plausible bug: any successful part finishes the request.
OnFsRead_FirstPart(r) ==
  /\ Returned(r, "READ", "served")
  /\ result[r] >= 0
  /\ FsDone(r)
  /\ UNCHANGED handle

\* Plausible bug: like on_uv_fs_write(), it does not look at an error.
OnFsRead_Unchecked(r) ==
  /\ Returned(r, "READ", "served")
  /\ ~(result[r] > 0 /\ Left(r) > 0)
  /\ FsDone(r)
  /\ UNCHANGED handle

OnFsRead(r) ==
  /\ Returned(r, "READ", "served")
  /\ Ended(r)
  /\ FsDone(r)
  /\ UNCHANGED handle

\* Plausible bug: the size of the file is not asked for again.
OnFsWrite_NoStat(r) ==
  /\ Returned(r, "WRITE", "served")
  /\ ~(result[r] > 0 /\ Left(r) > 0)
  /\ FsDone(r)
  /\ UNCHANGED handle

\* on_uv_fs_write() does not look at an error: fstat() overwrites fs->result.
OnFsWrite(r) ==
  /\ Returned(r, "WRITE", "served")
  /\ ~(result[r] > 0 /\ Left(r) > 0)
  /\ stage' = [stage EXCEPT ![r] = "statting"]
  /\ UNCHANGED <<vars, up, client, handle, file, opts, view, result, region, moved>>

\* Plausible bug: statbuf is used whatever the result.
OnFsStat_Unchecked(r) ==
  /\ \E t \in {"OPEN", "WRITE"} : Returned(r, t, "statted")
  /\ size' = result[r]
  /\ dated' \in Times
  /\ FsDone(r)
  /\ UNCHANGED <<fd, readable, writable>>

\* Plausible bug: done() is left to somebody else.
OnFsStat_NotDone(r) ==
  /\ \E t \in {"OPEN", "WRITE"} : Returned(r, t, "statted")
  /\ result[r] > Failed
  /\ size' = result[r] % Wrap
  /\ dated' \in Times
  /\ stage' = [stage EXCEPT ![r] = "done"]
  /\ UNCHANGED <<vars, up, client, fd, readable, writable, file, opts, view, result, region, moved>>

\* on_uv_fs_stat() and on_uv_fs_done(): the size is an ARAuint.
OnFsStat(r) ==
  /\ \E t \in {"OPEN", "WRITE"} : Returned(r, t, "statted")
  /\ result[r] > Failed
  /\ size' = result[r] % Wrap
  /\ dated' \in Times
  /\ FsDone(r)
  /\ UNCHANGED <<fd, readable, writable>>

\* The callbacks that panic: what failed, and a read that ends too early.
OnFsFailure(r) ==
  /\ \/ \E t \in {"OPEN", "CLOSE", "UNLINK"} :
          Returned(r, t, "served") /\ result[r] = Failed
     \/ /\ Returned(r, "READ", "served")
        /\ ~Ended(r)
        /\ result[r] <= 0
     \/ \E t \in {"OPEN", "WRITE"} :
          Returned(r, t, "statted") /\ result[r] = Failed
  /\ FsFails(r)

-----------------------------------------------------------------------------
Forget(r) ==
  /\ stage' = [stage EXCEPT ![r] = "idle"]
  /\ opts' = [opts EXCEPT ![r] = NoOpts]
  /\ view' = [view EXCEPT ![r] = NoView]
  /\ result' = [result EXCEPT ![r] = 0]
  /\ moved' = [moved EXCEPT ![r] = 0]

\* ON_ARA_WORK_DONE: the client's callback has returned, its request is deleted.
RafReturn ==
  /\ Idle
  /\ ReturnCallback
  /\ Forget(Top.req)
  /\ UNCHANGED <<up, client, handle, file, region>>

\* The request's buffer goes with it.
RafUvClose(r) ==
  /\ Idle
  /\ OnUvClose(r)
  /\ Forget(r)
  /\ region' = region \ {r}
  /\ UNCHANGED <<up, client, handle, file>>

Client ==
  \/ RafInit
  \/ \E t \in Types : \/ RafSet(t)
                      \/ \E r \in Req : \E o \in Asked(t) : RafAccepted(t, r, o)
                      \/ RafRefused(t)

Worker(r) ==
  \/ \E t \in Types : WorkPanics(r, t) \/ WorkSubmits(r, t)
  \/ WorkEnds(r)
  \/ WorkEndStalls(r)
  \/ WorkEndReturns(r)

Pool(r) ==
  \/ ServeOpen(r)
  \/ ServeClose(r)
  \/ ServeUnlink(r)
  \/ ServeRead(r)
  \/ ServeWrite(r)
  \/ ServeStat(r)

Callback(r) ==
  \/ OnFsOpen(r)
  \/ \E t \in Types : OnFsPlain(r, t)
  \/ \E t \in {"READ", "WRITE"} : Resume(r, t)
  \/ OnFsRead(r)
  \/ OnFsWrite(r)
  \/ OnFsStat(r)
  \/ OnFsFailure(r)

RNext ==
  \/ Client
  \/ RafReturn
  \/ \E r \in Req : \/ RafDeliver(r)
                    \/ Worker(r)
                    \/ Pool(r)
                    \/ Callback(r)
                    \/ RafUvClose(r)

RSpec == RInit /\ [][RNext]_rvars

(***************************************************************************)
(* A call finishes, client code returns, the pool serves what it is given, *)
(* and an iteration of the loop visits what is pending, what is served and *)
(* what is closing, as in Ara.                                             *)
(***************************************************************************)
RFairness ==
  /\ WF_rvars(\E t \in Types : \/ \E r \in Req : \E o \in Asked(t) : RafAccepted(t, r, o)
                               \/ RafRefused(t))
  /\ WF_rvars(RafReturn)
  /\ \A r \in Req : /\ WF_rvars(Worker(r))
                    /\ WF_rvars(Pool(r))
                    /\ SF_rvars(RafDeliver(r))
                    /\ SF_rvars(Callback(r))
                    /\ SF_rvars(RafUvClose(r))

RFairSpec == RSpec /\ RFairness

-----------------------------------------------------------------------------
(***************************************************************************)
(* Every variable of the file and of its requests has its type.            *)
(***************************************************************************)
RTypeOK ==
  /\ up \in BOOLEAN
  /\ calling \in Types \union {"none"}
  /\ orderly \in BOOLEAN
  /\ fd \in BOOLEAN
  /\ readable \in BOOLEAN
  /\ writable \in BOOLEAN
  /\ size \in Nat
  /\ dated \in BOOLEAN
  /\ descriptor \in BOOLEAN
  /\ fileSize \in Nat
  /\ stage \in [Req -> RafStages]
  /\ opts \in [Req -> [offset : Nat, length : Nat, flags : Flags]]
  /\ view \in [Req -> [base : Nat, left : Nat, at : Nat]]
  /\ result \in [Req -> Nat \union {Failed}]
  /\ region \subseteq Req
  /\ moved \in [Req -> Nat]

(***************************************************************************)
(* example/raf is a client of libara, whatever the pool answers and in     *)
(* whatever order.  A client of Ara calls done() once for each request it  *)
(* holds, but neither on_done() nor FsDone looks whether it does: that     *)
(* every path through the callbacks of a worker reaches done() at most     *)
(* once, and never after its request has ended, is for example/raf to see  *)
(* to.  A second done() would close a handle twice, and is no step of Ara. *)
(***************************************************************************)
UsesAra == Spec

(***************************************************************************)
(* While the pool works on a request nobody frees it: the callback of a    *)
(* file-system request goes through fs->data to the ara request, its       *)
(* buffer and the RandomAccessFileRequest.  Nor is it in anybody's         *)
(* callback, or being closed, whatever closes the session meanwhile.       *)
(***************************************************************************)
IoIsOwned ==
  \A r \in Req : InFlight(r) =>
    /\ r \in held \ (sent \union closing \union Calling)
    /\ op[r] \notin {"UNKNOWN", "END"}
    /\ view[r].left > 0 /\ "ALLOC" \notin Faults => r \in region

(***************************************************************************)
(* A transfer moves each byte of its range once and in its place: what has *)
(* been moved, what the buffer's base was advanced by and the offset in    *)
(* the file agree however a transfer is cut up.  A range that reaches the  *)
(* end of the 32-bit offsets goes on at the beginning of the file.         *)
(***************************************************************************)
NoWrap ==
  /\ \A range \in Ranges : range.offset + range.length < Wrap
  /\ \A n \in Sizes : n < Wrap

\* on_uv_fs_write() does not look whether a write has failed.
WritesSucceed == Faults \intersect {"WRITE", "ALLOC"} = {}

TransferExact ==
  \A r \in Req : stage[r] \in {"queued", "served"} =>
    /\ view[r].base + view[r].left = opts[r].length
    /\ stage[r] = "queued" => moved[r] = view[r].base
    /\ stage[r] = "served" /\ result[r] > 0 => moved[r] = view[r].base + result[r]
    /\ NoWrap => view[r].at = opts[r].offset + view[r].base

(***************************************************************************)
(* The client is told of a read or a write only when all of its range has  *)
(* been moved.  Writes that fail are the exception, see WriteFailuresPanic.*)
(***************************************************************************)
Whole(r) == stage[r] = "done" => moved[r] = opts[r].length

AnsweredWhole ==
  \A r \in Calling :
    /\ op[r] = "READ" => Whole(r)
    /\ op[r] = "WRITE" /\ WritesSucceed => Whole(r)

(***************************************************************************)
(* raf->size is never ahead of the file, in whatever order the answers of  *)
(* fstat() arrive, so no read of a range raf_read() has cut goes past the  *)
(* end of the file, where it would be short for ever.                      *)
(***************************************************************************)
ReadsInFile ==
  NoWrap =>
    /\ size <= fileSize
    /\ \A r \in Live : op[r] = "READ" => opts[r].offset + opts[r].length <= fileSize

(***************************************************************************)
(* In the callback of its write a client can read back what it has         *)
(* written, as main.c does: raf->size reaches past the range, although     *)
(* other requests have brought their own answers of fstat() meanwhile.     *)
(***************************************************************************)
OwnWriteVisible ==
  NoWrap /\ WritesSucceed =>
    \A r \in Calling : op[r] = "WRITE" /\ stage[r] = "done" /\ opts[r].length > 0 =>
      opts[r].offset + opts[r].length <= size

(***************************************************************************)
(* A client that opens, waits, transfers, waits and closes sees no panic   *)
(* but for a system call that failed, a read that was cut off, a buffer    *)
(* without memory or uv_async_init(), and no error as long as the process  *)
(* runs: no assertion of example/raf refuses a legal sequence of calls.    *)
(***************************************************************************)
BlamedOn(r) ==
  \/ stage[r] = "served" /\ result[r] = Failed /\ op[r] \in Faults \ {"WRITE"}
  \/ /\ stage[r] = "served" /\ op[r] = "READ" /\ result[r] <= 0 /\ Left(r) > 0
     /\ "READ" \in Faults \/ r \notin region
  \/ stage[r] = "statted" /\ result[r] = Failed /\ "STAT" \in Faults

Blamed ==
  \/ \E r \in Req : BlamedOn(r)
  \/ "ASYNC" \in Faults /\ error = "UVASYNCSEND"

OrderlyRunsClean ==
  orderly /\ NoWrap =>
    IF up THEN status # "UNKNOWN" => ~Pending(error) ELSE Blamed

(***************************************************************************)
(* Every request a client makes of the file is freed, unless the process   *)
(* exits, or the request is the END of a file with a time of its own.      *)
(***************************************************************************)
RafRequestsEnd ==
  \A r \in Req : (r \in sent) ~> (r \notin Live \/ stage[r] = "stalled" \/ ~up)
=============================================================================
