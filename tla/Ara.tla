-------------------------------- MODULE Ara --------------------------------
(***************************************************************************)
(* One ara_t and the requests made of it.                                  *)
(*                                                                         *)
(* Everything runs on the thread of one libuv loop.  A client calls        *)
(* ara_open(), ara_read(), ... from outside the loop or from any callback. *)
(* A call that is accepted allocates a request and marks its async handle  *)
(* pending; the loop later delivers the request to on_async_begin(), which *)
(* hands it to the worker the client registered with ara_set(); the worker *)
(* calls done(req) at once or later; on_done() calls the client back and   *)
(* closes the handle; the loop's closing phase frees the request.          *)
(***************************************************************************)
EXTENDS AraTypes, Naturals, Sequences, FiniteSets

CONSTANTS
  Req,        \* the request slots of the heap
  Types,      \* the work types this client registers workers for and calls
  Throws,     \* the error codes this client passes to ara_throw()
  ReInit      \* may this client call ara_init() on a struct already in use?

ASSUME ConstantsAssumption ==
  /\ Types \subseteq WorkTypes
  /\ Throws \subseteq ErrorCodes
  /\ ReInit \in BOOLEAN

VARIABLES
  status,     \* self->status
  error,      \* self->error.code
  loop,       \* self->loop is not NULL
  work,       \* the types t with self->work[t] not NULL
  bitfield,   \* the bits set in self->bitfield.work
  op,         \* op[r]: what request r was made for, UNKNOWN for a free slot
  sent,       \* requests whose async handle is pending
  held,       \* requests in the hands of a worker that owes them a done()
  closing,    \* requests whose handle uv_close() was called on
  stack       \* the client code that is running, innermost frame last

session == <<status, error, loop, work, bitfield>>
requests == <<op, sent, held, closing>>
vars == <<status, error, loop, work, bitfield, op, sent, held, closing, stack>>

(***************************************************************************)
(* A frame of stack is the worker or the user's callback of a request.     *)
(***************************************************************************)
Frames == [kind : {"work", "callback"}, req : Req]

Live == {r \in Req : op[r] # "UNKNOWN"}

Top == stack[Len(stack)]

IsCallback(i) == stack[i].kind = "callback"

\* The requests whose on_done() is inside the user's callback.
Calling == {stack[i].req : i \in {j \in DOMAIN stack : IsCallback(j)}}

\* Requests nothing will ever touch again: no handle, worker, callback or close.
Stranded == Live \ (sent \union held \union closing \union Calling)

-----------------------------------------------------------------------------
(***************************************************************************)
(* The struct as the client's static or memset() memory holds it.          *)
(***************************************************************************)
Init ==
  /\ status = "UNKNOWN"
  /\ error = "UNKNOWN"
  /\ loop = FALSE
  /\ work = {}
  /\ bitfield = {}
  /\ op = [r \in Req |-> "UNKNOWN"]
  /\ sent = {}
  /\ held = {}
  /\ closing = {}
  /\ stack = <<>>

-----------------------------------------------------------------------------
(***************************************************************************)
(* Configuration of the session.                                           *)
(***************************************************************************)

\* A client without ReInit initialises its struct before it makes requests of it.
AraInit ==
  /\ ReInit \/ (status = "UNKNOWN" /\ Live = {})
  /\ status' = "INIT"
  /\ error' = "NONE"
  /\ loop' = TRUE
  /\ work' = {}
  /\ bitfield' = {}
  /\ UNCHANGED <<requests, stack>>

AraSetLoop ==
  /\ loop' = TRUE
  /\ UNCHANGED <<status, error, work, bitfield, requests, stack>>

\* Plausible bug: the new type's bits replace the old ones.
AraSet_Replaces(t) ==
  /\ work' = work \union {t}
  /\ error' = "NONE"
  /\ bitfield' = WorkBits[t]
  /\ UNCHANGED <<status, loop, requests, stack>>

\* Besides its purpose, ara_set() is what clears the error of a session.
AraSet(t) ==
  /\ work' = work \union {t}
  /\ error' = "NONE"
  /\ bitfield' = bitfield \union WorkBits[t]
  /\ UNCHANGED <<status, loop, requests, stack>>

AraThrow(code) ==
  /\ error' = SetError(error, code)
  /\ UNCHANGED <<status, loop, work, bitfield, requests, stack>>

-----------------------------------------------------------------------------
(***************************************************************************)
(* ara_<op>(): check the status, then the macro OP.                        *)
(***************************************************************************)
Callable(t) == status \in Op[t].callable

\* OP: every bit of the type is set, whichever calls of ara_set() set them.
HasBits(t) == WorkBits[t] \subseteq bitfield

CallBadState(t) ==
  /\ ~Callable(t)
  /\ AraThrow("BADSTATE")

CallNoLoop(t) ==
  /\ Callable(t)
  /\ ~loop
  /\ AraThrow("NOUVLOOP")

CallNoCallback(t) ==
  /\ Callable(t)
  /\ loop
  /\ ~HasBits(t)
  /\ AraThrow("NOCALLBACK")

\* uv_async_init() fails: ara_async_req_send() throws UVASYNCINIT, OP throws
\* UVASYNCSEND over it and destroys the request it had just allocated.
CallInitFails(t) ==
  /\ Callable(t)
  /\ loop
  /\ HasBits(t)
  /\ Live # Req
  /\ AraThrow("UVASYNCSEND")

\* A call that finds no free slot is a failed malloc(): it changes nothing.
CallAccepted(t, r) ==
  /\ Callable(t)
  /\ loop
  /\ HasBits(t)
  /\ r \notin Live
  /\ op' = [op EXCEPT ![r] = t]
  /\ sent' = sent \union {r}
  /\ UNCHANGED <<session, held, closing, stack>>

ApiCall(t) ==
  \/ CallBadState(t)
  \/ CallNoLoop(t)
  \/ CallNoCallback(t)
  \/ CallInitFails(t)
  \/ \E r \in Req : CallAccepted(t, r)

-----------------------------------------------------------------------------
(***************************************************************************)
(* The end of a request.                                                   *)
(***************************************************************************)

\* Plausible bug: the request is freed before its handle has closed.
ReqEnd_FreesNow(r) ==
  /\ op' = [op EXCEPT ![r] = "UNKNOWN"]
  /\ closing' = closing

\* uv_close(); the request lives on until on_uv_close().
ReqEnd(r) ==
  /\ closing' = closing \union {r}
  /\ op' = op

Enter(kind, r) == stack' = Append(stack, [kind |-> kind, req |-> r])

DropPending(r, e) ==
  /\ Pending(e)
  /\ error' = e
  /\ ReqEnd(r)
  /\ UNCHANGED <<status, stack>>

\* Plausible bug: the throw is forgotten.
DropBadState_Silent(r, e) ==
  /\ ~Pending(e)
  /\ status # Op[op[r]].expects
  /\ error' = e
  /\ ReqEnd(r)
  /\ UNCHANGED <<status, stack>>

\* Plausible bug: return instead of goto end.
DropBadState_Returns(r, e) ==
  /\ ~Pending(e)
  /\ status # Op[op[r]].expects
  /\ error' = SetError(e, "BADSTATE")
  /\ UNCHANGED <<op, closing, status, stack>>

DropBadState(r, e) ==
  /\ ~Pending(e)
  /\ status # Op[op[r]].expects
  /\ error' = SetError(e, "BADSTATE")
  /\ ReqEnd(r)
  /\ UNCHANGED <<status, stack>>

\* Plausible bug: on_done() checks the error only.
Notify_Unchecked(r, e) ==
  /\ ~Pending(e)
  /\ status' = IF op[r] \in {"OPEN", "CLOSE"} THEN Op[op[r]].becomes ELSE status
  /\ error' = e
  /\ Enter("callback", r)
  /\ UNCHANGED <<op, closing>>

\* Plausible bug: the handle is closed before the callback, not after it.
Notify_EndsFirst(r, e) ==
  /\ ~Pending(e)
  /\ status = Op[op[r]].expects
  /\ status' = Op[op[r]].becomes
  /\ error' = e
  /\ Enter("callback", r)
  /\ ReqEnd(r)

Notify(r, e) ==
  /\ ~Pending(e)
  /\ status = Op[op[r]].expects
  /\ status' = Op[op[r]].becomes
  /\ error' = e
  /\ Enter("callback", r)
  /\ UNCHANGED <<op, closing>>

(***************************************************************************)
(* on_done(r), e being self->error as on_done() finds it.  The callback    *)
(* runs inside on_done(): the request ends when its frame returns.         *)
(***************************************************************************)
OnDone(r, e) ==
  \/ DropPending(r, e)
  \/ DropBadState(r, e)
  \/ Notify(r, e)

-----------------------------------------------------------------------------
(***************************************************************************)
(* on_async_begin(): the loop delivers a pending handle.  The loop is not  *)
(* re-entered, so no client code is running.  Handles are delivered in any *)
(* order: libuv promises none, and the requests of one ara_t may be        *)
(* spread over several loops by ara_set_loop().                            *)
(***************************************************************************)
Deliver(r) ==
  /\ stack = <<>>
  /\ r \in sent
  /\ sent' = sent \ {r}
  /\ UNCHANGED <<loop, work, bitfield>>

HasSomeBit(t) == WorkBits[t] \intersect bitfield # {}

BeginNoCallback(r) ==
  /\ Deliver(r)
  /\ ~HasSomeBit(op[r])
  /\ error' = SetError(error, "NOCALLBACK")
  /\ UNCHANGED <<status, op, held, closing, stack>>

BeginWork(r) ==
  /\ Deliver(r)
  /\ HasSomeBit(op[r])
  /\ status \in Op[op[r]].starts
  /\ status' = Op[op[r]].during
  /\ op[r] \in work
  /\ held' = held \union {r}
  /\ Enter("work", r)
  /\ UNCHANGED <<error, op, closing>>

\* ara_call() finds no worker and returns ARA_FALSE, which nobody reads.
BeginUnserved(r) ==
  /\ Deliver(r)
  /\ HasSomeBit(op[r])
  /\ status \in Op[op[r]].starts
  /\ status' = Op[op[r]].during
  /\ op[r] \notin work
  /\ UNCHANGED <<error, op, held, closing, stack>>

BeginJoin(r) ==
  /\ Deliver(r)
  /\ HasSomeBit(op[r])
  /\ status \in Op[op[r]].joins
  /\ OnDone(r, error)
  /\ UNCHANGED held

BeginBadState(r) ==
  /\ Deliver(r)
  /\ HasSomeBit(op[r])
  /\ status \notin Op[op[r]].starts \union Op[op[r]].joins
  /\ OnDone(r, SetError(error, "BADSTATE"))
  /\ UNCHANGED held

OnAsyncBegin(r) ==
  \/ BeginNoCallback(r)
  \/ BeginWork(r)
  \/ BeginUnserved(r)
  \/ BeginJoin(r)
  \/ BeginBadState(r)

-----------------------------------------------------------------------------
(***************************************************************************)
(* done(r): on_done() looks neither who calls it nor whether it has been   *)
(* called before.  A worker owes it once: it calls it inside its own       *)
(* frame, inside that of any other client code, or from an I/O callback of *)
(* the loop.                                                               *)
(***************************************************************************)
Done(r) ==
  /\ held' = held \ {r}
  /\ OnDone(r, error)
  /\ UNCHANGED <<loop, work, bitfield, sent>>

WorkDone(r) == r \in held /\ Done(r)

Leave == stack' = SubSeq(stack, 1, Len(stack) - 1)

\* A worker returns, with or without having called done().
ReturnWork ==
  /\ stack # <<>>
  /\ Top.kind = "work"
  /\ Leave
  /\ UNCHANGED <<session, requests>>

\* Plausible bug: on_done() returns after the callback.
ReturnCallback_Forgets ==
  /\ stack # <<>>
  /\ Top.kind = "callback"
  /\ Leave
  /\ UNCHANGED <<session, requests>>

\* The user's callback returns into on_done().
ReturnCallback ==
  /\ stack # <<>>
  /\ Top.kind = "callback"
  /\ Leave
  /\ ReqEnd(Top.req)
  /\ UNCHANGED <<session, sent, held>>

\* The closing phase of the loop: ara_async_req_destroy().
OnUvClose(r) ==
  /\ stack = <<>>
  /\ r \in closing
  /\ closing' = closing \ {r}
  /\ op' = [op EXCEPT ![r] = "UNKNOWN"]
  /\ UNCHANGED <<session, sent, held, stack>>

-----------------------------------------------------------------------------
Next ==
  \/ AraInit
  \/ AraSetLoop
  \/ \E t \in Types : AraSet(t)
  \/ \E code \in Throws : AraThrow(code)
  \/ \E t \in Types \ {"UNKNOWN"} : ApiCall(t)
  \/ \E r \in Req : OnAsyncBegin(r)
  \/ \E r \in Req : WorkDone(r)
  \/ ReturnWork
  \/ ReturnCallback
  \/ \E r \in Req : OnUvClose(r)

Spec == Init /\ [][Next]_vars

(***************************************************************************)
(* Client code returns, a worker calls done() once for each request, and   *)
(* an iteration of the loop visits every pending handle and every closing  *)
(* one.  The loop's steps need an empty stack, which client code that is   *)
(* entered again and again keeps taking away, hence strong fairness.       *)
(***************************************************************************)
Fairness ==
  /\ WF_vars(ReturnWork \/ ReturnCallback)
  /\ \A r \in Req : /\ SF_vars(OnAsyncBegin(r))
                    /\ WF_vars(WorkDone(r))
                    /\ SF_vars(OnUvClose(r))

FairSpec == Spec /\ Fairness

-----------------------------------------------------------------------------
(***************************************************************************)
(* Every variable has its type; in particular self->error never holds a    *)
(* code ara_set_error() refuses, whatever a client throws.                 *)
(***************************************************************************)
TypeOK ==
  /\ status \in Statuses
  /\ error \in Settable \union {"NONE"}
  /\ loop \in BOOLEAN
  /\ work \subseteq WorkTypes
  /\ bitfield \subseteq 0..2
  /\ op \in [Req -> WorkTypes]
  /\ sent \subseteq Req
  /\ held \subseteq Req
  /\ closing \subseteq Req
  /\ stack \in Seq(Frames)

(***************************************************************************)
(* A request has one owner: its pending handle, its worker, its callback   *)
(* or its closing handle.  With two owners ara_async_req_end() would run   *)
(* twice, and uv_close() aborts on a handle that is closing.  What keeps   *)
(* the owners apart is that on_done() ends a request only after its        *)
(* callback has returned, whichever other requests that callback finishes. *)
(***************************************************************************)
OneOwner ==
  /\ sent \intersect held = {}
  /\ sent \intersect closing = {}
  /\ held \intersect closing = {}
  /\ \A i \in DOMAIN stack :
       IsCallback(i) => stack[i].req \notin sent \union held \union closing
  /\ \A i, j \in DOMAIN stack :
       IsCallback(i) /\ IsCallback(j) /\ stack[i].req = stack[j].req => i = j

(***************************************************************************)
(* Nobody has a pointer to a freed request.  The hard case is the worker's *)
(* own frame: example/simple reads req->ara after done(req) has run the    *)
(* callback and closed the handle.  It may, because on_uv_close() waits    *)
(* for the loop.                                                           *)
(***************************************************************************)
NoDanglingRequest ==
  /\ sent \union held \union closing \subseteq Live
  /\ \A i \in DOMAIN stack : stack[i].req \in Live

(***************************************************************************)
(* The status client code sees for as long as one of its frames runs,      *)
(* whatever that code and the code it calls does: a callback of ara_open() *)
(* runs in OPENED, one of ara_close() in CLOSED, any other one in OPENED;  *)
(* a worker of OPEN runs in OPENING and a worker of CLOSE in CLOSING until *)
(* they call done(), any other worker in OPENED.  The tests assert it on   *)
(* entry.  A client that calls ara_init() again gives it up.               *)
(***************************************************************************)
FrameStatus ==
  ~ReInit => \A i \in DOMAIN stack :
    LET r == stack[i].req
        o == Op[op[r]]
    IN IF IsCallback(i)
       THEN status = o.becomes
       ELSE r \in held \/ o.during = o.becomes => status = o.during

(***************************************************************************)
(* However many calls of ara_open() and ara_close() were accepted, at most *)
(* one worker of each owes a done(); a session somebody is still closing   *)
(* is in no status before CLOSING, one somebody is still opening in no     *)
(* status before OPENING, and no other worker ever ran before OPENED.      *)
(***************************************************************************)
Since(t) ==
  {"CLOSING", "CLOSED"}
    \union (IF t = "CLOSE" THEN {} ELSE {"OPENED"})
    \union (IF t = "OPEN" THEN {"OPENING"} ELSE {})

OneStarter ==
  ~ReInit =>
    /\ \A r, s \in held :
         op[r] = op[s] /\ op[r] \in {"OPEN", "CLOSE"} => r = s
    /\ \A r \in held : status \in Since(op[r])

(***************************************************************************)
(* A session goes forward: INIT, OPENING, OPENED, CLOSING, CLOSED, with    *)
(* OPENED left out when the client closes while it opens.  No late         *)
(* completion takes it back.                                               *)
(***************************************************************************)
Forward ==
  { <<"UNKNOWN", "INIT">>, <<"INIT", "OPENING">>, <<"OPENING", "OPENED">>,
    <<"OPENING", "CLOSING">>, <<"OPENED", "CLOSING">>, <<"CLOSING", "CLOSED">> }

SessionOrder == [][ ~ReInit => <<status, status'>> \in Forward ]_status

(***************************************************************************)
(* A request that ends without its callback leaves an error behind: a      *)
(* client that looks at self->error knows that something was dropped.      *)
(***************************************************************************)
DropsAreReported ==
  [][ \A r \in closing' \ closing : r \in Calling \/ Pending(error') ]_vars

(***************************************************************************)
(* The loop gives a request up, with neither worker nor callback nor       *)
(* close, only if the type it was made for has no worker at that time.     *)
(***************************************************************************)
OnlyUnregisteredStrand ==
  [][ \A r \in Stranded' \ Stranded : op[r] \notin work ]_vars

(***************************************************************************)
(* The bits of some types of a client do not add up to another one.        *)
(***************************************************************************)
Unaliased ==
  \A t \in Types \ {"UNKNOWN"} : \A S \in SUBSET Types :
    WorkBits[t] \subseteq UNION {WorkBits[s] : s \in S} => t \in S

(***************************************************************************)
(* No request is ever given up when a client's types are unaliased and it  *)
(* does not call ara_init() on a struct in use: OP's test of the bits then *)
(* is as good as one of self->work[type], between the call and the         *)
(* delivery as well as at the call.                                        *)
(***************************************************************************)
NoStranded == ~ReInit /\ Unaliased => Stranded = {}

(***************************************************************************)
(* A request that is delivered with its worker registered is freed in the  *)
(* end, whatever happened to the session: done() late, twice over other    *)
(* requests, in the wrong status, with an error pending.                   *)
(***************************************************************************)
RequestsEnd ==
  \A r \in Req : (r \in sent /\ op[r] \in work) ~> (r \notin Live)

(***************************************************************************)
(* A session that a worker is opening or closing leaves that status, or    *)
(* its error says why it cannot.                                           *)
(***************************************************************************)
SessionSettles ==
  \A t \in {"OPEN", "CLOSE"} :
    (status = Op[t].during /\ \E r \in held : op[r] = t)
      ~> (status # Op[t].during \/ Pending(error))

-----------------------------------------------------------------------------
(***************************************************************************)
(* Ara implements AraContract: libara keeps what it promises.              *)
(***************************************************************************)
Contract ==
  INSTANCE AraContract WITH
    phase    <- status,
    fault    <- Pending(error),
    kind     <- op,
    progress <- [r \in Req |-> IF r \notin Live THEN "none"
                              ELSE IF r \in Calling THEN "answering"
                              ELSE IF r \in closing THEN "ended"
                              ELSE "accepted"]

KeepsContract == Contract!CSpec
=============================================================================
