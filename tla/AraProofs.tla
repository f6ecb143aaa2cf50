----------------------------- MODULE AraProofs -----------------------------
(***************************************************************************)
(* Theorems about Ara for every heap, every choice of work types, every    *)
(* client.                                                                 *)
(***************************************************************************)
EXTENDS Ara, TLAPS

-----------------------------------------------------------------------------
(***************************************************************************)
(* The tables.                                                             *)
(***************************************************************************)

\* Every status an operation sets, expects or starts from is a status.
LEMMA OpFields ==
  ASSUME NEW t \in OpTypes
  PROVE  /\ Op[t].during \in Statuses
         /\ Op[t].becomes \in Statuses
         /\ Op[t].expects \in Statuses
BY DEF Op, OpTypes, Statuses, OpenOp, CloseOp, EndOp, ReadOp, WriteOp, UnlinkOp

\* ara_set_error() stores codes it accepts only.
LEMMA SetErrorType ==
  ASSUME NEW e \in Settable \union {"NONE"}, NEW code
  PROVE  SetError(e, code) \in Settable \union {"NONE"}
BY DEF SetError

\* The bits of a work type are among the three that enum ara_work uses.
LEMMA WorkBitsType ==
  ASSUME NEW t \in WorkTypes
  PROVE  WorkBits[t] \subseteq 0..2
BY DEF WorkBits, WorkTypes, OpTypes

-----------------------------------------------------------------------------
(***************************************************************************)
(* The stack.                                                              *)
(***************************************************************************)

\* A frame that is entered comes last and disturbs no other one.
LEMMA EnterStack ==
  ASSUME NEW s \in Seq(Frames), NEW f \in Frames
  PROVE  /\ Append(s, f) \in Seq(Frames)
         /\ DOMAIN Append(s, f) = 1..(Len(s) + 1)
         /\ \A i \in DOMAIN s : Append(s, f)[i] = s[i]
         /\ Append(s, f)[Len(s) + 1] = f
OBVIOUS

\* When the innermost frame is left the other ones stay.
LEMMA LeaveStack ==
  ASSUME NEW s \in Seq(Frames), s # <<>>
  PROVE  /\ SubSeq(s, 1, Len(s) - 1) \in Seq(Frames)
         /\ DOMAIN SubSeq(s, 1, Len(s) - 1) = 1..(Len(s) - 1)
         /\ \A i \in 1..(Len(s) - 1) : SubSeq(s, 1, Len(s) - 1)[i] = s[i]
         /\ DOMAIN s = 1..Len(s)
         /\ Len(s) \in Nat \ {0}
OBVIOUS

-----------------------------------------------------------------------------
(***************************************************************************)
(* Ownership of requests.                                                  *)
(*                                                                         *)
(* The three invariants need each other: a slot that is free has no owner  *)
(* (NoDanglingRequest), so a request that is sent has just one; an owned   *)
(* request has an operation, so the statuses it sets are statuses; and     *)
(* only the one owner a request has can hand it on (OneOwner).             *)
(***************************************************************************)
Ownership ==
  /\ TypeOK
  /\ OneOwner
  /\ NoDanglingRequest

\* A request that somebody owns was made for one of the six operations.
LEMMA LiveOp ==
  ASSUME TypeOK, NEW r \in Live
  PROVE  op[r] \in OpTypes
BY DEF TypeOK, Live, WorkTypes

\* on_done() takes a request from the loop or from its worker, whichever of
\* the two the step that calls it removed it from.
LEMMA OnDoneOwnership ==
  ASSUME Ownership,
         NEW r \in Req,
         NEW e \in Settable \union {"NONE"},
         \/ r \in sent /\ sent' = sent \ {r} /\ held' = held
         \/ r \in held /\ held' = held \ {r} /\ sent' = sent,
         OnDone(r, e),
         UNCHANGED <<loop, work, bitfield>>
  PROVE  Ownership'
<1> USE DEF Ownership
<1>1. r \in Live /\ r \notin closing /\ r \notin sent' \union held'
  BY DEF OneOwner, NoDanglingRequest
<1>2. CASE /\ error' \in Settable \union {"NONE"}
           /\ ReqEnd(r)
           /\ UNCHANGED <<status, stack>>
  <2>1. TypeOK'
    BY <1>2 DEF TypeOK, ReqEnd
  <2>2. OneOwner'
    BY <1>1, <1>2 DEF OneOwner, ReqEnd, IsCallback
  <2>3. NoDanglingRequest'
    BY <1>1, <1>2 DEF NoDanglingRequest, ReqEnd, Live
  <2> QED
    BY <2>1, <2>2, <2>3
<1>3. CASE Notify(r, e)
  <2> DEFINE f == [kind |-> "callback", req |-> r]
  <2>1. stack \in Seq(Frames) /\ f \in Frames /\ stack' = Append(stack, f)
    BY <1>3 DEF TypeOK, Frames, Notify, Enter
  <2>2. /\ stack' \in Seq(Frames)
        /\ DOMAIN stack' = 1..(Len(stack) + 1)
        /\ \A i \in DOMAIN stack : stack'[i] = stack[i]
        /\ stack'[Len(stack) + 1] = f
        /\ DOMAIN stack = 1..Len(stack)
        /\ Len(stack) \in Nat
    BY <2>1, EnterStack
  <2>3. TypeOK'
    <3>1. Op[op[r]].becomes \in Statuses
      BY <1>1, LiveOp, OpFields
    <3> QED
      BY <1>3, <2>2, <3>1 DEF TypeOK, Notify
  <2>4. \A i \in DOMAIN stack : IsCallback(i) => stack[i].req # r
    BY DEF OneOwner
  <2>5. OneOwner'
    BY <1>1, <1>3, <2>2, <2>4 DEF OneOwner, Notify, IsCallback
  <2>6. NoDanglingRequest'
    BY <1>1, <1>3, <2>2 DEF NoDanglingRequest, Notify, Live
  <2> QED
    BY <2>3, <2>5, <2>6
<1>4. CASE DropPending(r, e) \/ DropBadState(r, e)
  BY <1>2, <1>4, SetErrorType DEF DropPending, DropBadState
<1> QED
  BY <1>3, <1>4 DEF OnDone

LEMMA OwnershipInit == Init => Ownership
<1> SUFFICES ASSUME Init PROVE Ownership
  OBVIOUS
<1>1. TypeOK
  <2>1. "UNKNOWN" \in Statuses /\ "UNKNOWN" \in Settable /\ "UNKNOWN" \in WorkTypes
    BY DEF Statuses, Settable, ErrorCodes, WorkTypes
  <2>2. op \in [Req -> WorkTypes]
    BY <2>1 DEF Init
  <2>3. stack \in Seq(Frames)
    BY DEF Init
  <2> QED
    BY <2>1, <2>2, <2>3 DEF Init, TypeOK
<1>2. OneOwner /\ NoDanglingRequest
  BY DEF Init, OneOwner, NoDanglingRequest
<1> QED
  BY <1>1, <1>2 DEF Ownership

\* A step that leaves the requests and the stack alone.
LEMMA SessionStepOwnership ==
  ASSUME Ownership, TypeOK', UNCHANGED <<requests, stack>>
  PROVE  Ownership'
BY DEF Ownership, requests, OneOwner, NoDanglingRequest, IsCallback, Live

LEMMA OwnershipStep == Ownership /\ [Next]_vars => Ownership'
<1> SUFFICES ASSUME Ownership, [Next]_vars
             PROVE  Ownership'
  OBVIOUS
<1> USE DEF Ownership
<1>1. CASE AraInit
  <2>1. TypeOK'
    BY <1>1 DEF AraInit, TypeOK, requests, Statuses
  <2> QED
    BY <1>1, <2>1, SessionStepOwnership DEF AraInit
<1>2. CASE AraSetLoop
  <2>1. TypeOK'
    BY <1>2 DEF AraSetLoop, TypeOK, requests
  <2> QED
    BY <1>2, <2>1, SessionStepOwnership DEF AraSetLoop
<1>3. ASSUME NEW t \in Types, AraSet(t)
      PROVE  Ownership'
  <2>1. t \in WorkTypes
    BY ConstantsAssumption
  <2>2. WorkBits[t] \subseteq 0..2
    BY <2>1, WorkBitsType
  <2>3. TypeOK'
    BY <1>3, <2>1, <2>2 DEF AraSet, TypeOK, requests
  <2> QED
    BY <1>3, <2>3, SessionStepOwnership DEF AraSet
<1>4. ASSUME NEW code, AraThrow(code)
      PROVE  Ownership'
  <2>1. TypeOK'
    BY <1>4, SetErrorType DEF AraThrow, TypeOK, requests
  <2> QED
    BY <1>4, <2>1, SessionStepOwnership DEF AraThrow
<1>5. ASSUME NEW t \in Types \ {"UNKNOWN"}, ApiCall(t)
      PROVE  Ownership'
  <2>1. CASE CallBadState(t)
    BY <1>4, <2>1 DEF CallBadState
  <2>2. CASE CallNoLoop(t)
    BY <1>4, <2>2 DEF CallNoLoop
  <2>3. CASE CallNoCallback(t)
    BY <1>4, <2>3 DEF CallNoCallback
  <2>4. CASE CallInitFails(t)
    BY <1>4, <2>4 DEF CallInitFails
  <2>5. ASSUME NEW r \in Req, CallAccepted(t, r)
        PROVE  Ownership'
    <3>1. t \in WorkTypes /\ t # "UNKNOWN"
      BY ConstantsAssumption
    <3>2. r \notin Live /\ r \notin sent \union held \union closing
      BY <2>5 DEF CallAccepted, NoDanglingRequest
    <3>3. TypeOK'
      BY <2>5, <3>1 DEF CallAccepted, TypeOK, session
    <3>4. \A i \in DOMAIN stack : stack[i].req # r
      BY <3>2 DEF NoDanglingRequest
    <3>5. OneOwner'
      BY <2>5, <3>2, <3>4 DEF CallAccepted, OneOwner, IsCallback
    <3>6. Live \subseteq Live' /\ r \in Live'
      BY <2>5, <3>1 DEF CallAccepted, Live, TypeOK
    <3>7. NoDanglingRequest'
      BY <2>5, <3>6 DEF CallAccepted, NoDanglingRequest
    <3> QED
      BY <3>3, <3>5, <3>7
  <2> QED
    BY <1>5, <2>1, <2>2, <2>3, <2>4, <2>5 DEF ApiCall
<1>6. ASSUME NEW r \in Req, OnAsyncBegin(r)
      PROVE  Ownership'
  <2>1. CASE BeginNoCallback(r)
    <3>1. TypeOK'
      BY <2>1, SetErrorType DEF BeginNoCallback, Deliver, TypeOK
    <3>2. OneOwner' /\ NoDanglingRequest'
      BY <2>1 DEF BeginNoCallback, Deliver, OneOwner, NoDanglingRequest, IsCallback, Live
    <3> QED
      BY <3>1, <3>2
  <2>2. CASE BeginWork(r)
    <3> DEFINE f == [kind |-> "work", req |-> r]
    <3>1. f \in Frames /\ stack = <<>> /\ stack' = <<f>>
      BY <2>2 DEF BeginWork, Deliver, Enter, Frames
    <3>2. r \in Live /\ r \in sent /\ r \notin held /\ r \notin closing
      BY <2>2 DEF BeginWork, Deliver, OneOwner, NoDanglingRequest
    <3>3. Op[op[r]].during \in Statuses
      BY <3>2, LiveOp, OpFields
    <3>4. TypeOK'
      BY <2>2, <3>1, <3>3 DEF BeginWork, Deliver, TypeOK
    <3>5. OneOwner'
      BY <2>2, <3>1, <3>2 DEF BeginWork, Deliver, OneOwner, IsCallback
    <3>6. NoDanglingRequest'
      BY <2>2, <3>1, <3>2 DEF BeginWork, Deliver, NoDanglingRequest, Live
    <3> QED
      BY <3>4, <3>5, <3>6
  <2>3. CASE BeginUnserved(r)
    <3>1. r \in Live
      BY <2>3 DEF BeginUnserved, Deliver, NoDanglingRequest
    <3>2. Op[op[r]].during \in Statuses
      BY <3>1, LiveOp, OpFields
    <3>3. TypeOK'
      BY <2>3, <3>2 DEF BeginUnserved, Deliver, TypeOK
    <3>4. OneOwner' /\ NoDanglingRequest'
      BY <2>3 DEF BeginUnserved, Deliver, OneOwner, NoDanglingRequest, IsCallback, Live
    <3> QED
      BY <3>3, <3>4
  <2>4. CASE BeginJoin(r)
    BY <2>4, OnDoneOwnership DEF BeginJoin, Deliver, TypeOK
  <2>5. CASE BeginBadState(r)
    <3>1. SetError(error, "BADSTATE") \in Settable \union {"NONE"}
      BY SetErrorType DEF TypeOK
    <3> QED
      BY <2>5, <3>1, OnDoneOwnership DEF BeginBadState, Deliver
  <2> QED
    BY <1>6, <2>1, <2>2, <2>3, <2>4, <2>5 DEF OnAsyncBegin
<1>7. ASSUME NEW r \in Req, WorkDone(r)
      PROVE  Ownership'
  BY <1>7, OnDoneOwnership DEF WorkDone, Done, TypeOK
<1>8. CASE ReturnWork
  <2>1. stack \in Seq(Frames) /\ stack # <<>>
    BY <1>8 DEF ReturnWork, TypeOK
  <2>2. /\ stack' \in Seq(Frames)
        /\ DOMAIN stack' \subseteq DOMAIN stack
        /\ \A i \in DOMAIN stack' : stack'[i] = stack[i]
    BY <1>8, <2>1, LeaveStack DEF ReturnWork, Leave
  <2>3. TypeOK'
    BY <1>8, <2>2 DEF ReturnWork, TypeOK, session, requests
  <2>4. OneOwner' /\ NoDanglingRequest'
    BY <1>8, <2>2 DEF ReturnWork, OneOwner, NoDanglingRequest, IsCallback, Live, requests
  <2> QED
    BY <2>3, <2>4
<1>9. CASE ReturnCallback
  <2> DEFINE n == Len(stack)
             r == stack[n].req
  <2>1. stack \in Seq(Frames) /\ stack # <<>>
    BY <1>9 DEF ReturnCallback, TypeOK
  <2>2. /\ stack' \in Seq(Frames)
        /\ n \in Nat \ {0}
        /\ DOMAIN stack = 1..n
        /\ DOMAIN stack' = 1..(n - 1)
        /\ \A i \in 1..(n - 1) : stack'[i] = stack[i]
    BY <1>9, <2>1, LeaveStack DEF ReturnCallback, Leave
  <2>3. /\ n \in DOMAIN stack
        /\ IsCallback(n)
        /\ r \in Req
        /\ closing' = closing \union {r}
    <3>1. n \in DOMAIN stack /\ stack[n] \in Frames
      BY <2>1, <2>2
    <3>2. r \in Req
      BY <3>1 DEF Frames
    <3> QED
      BY <1>9, <3>1, <3>2 DEF ReturnCallback, ReqEnd, Top, IsCallback
  <2>4. r \notin sent \union held /\ r \in Live
    BY <2>3 DEF OneOwner, NoDanglingRequest
  <2>5. \A i \in 1..(n - 1) : IsCallback(i) => stack[i].req # r
    BY <2>2, <2>3 DEF OneOwner
  <2>6. TypeOK'
    BY <1>9, <2>2, <2>3 DEF ReturnCallback, ReqEnd, TypeOK, session
  <2>7. OneOwner'
    BY <1>9, <2>2, <2>3, <2>4, <2>5 DEF ReturnCallback, OneOwner, IsCallback
  <2>8. NoDanglingRequest'
    BY <1>9, <2>2, <2>3, <2>4 DEF ReturnCallback, ReqEnd, NoDanglingRequest, Live
  <2> QED
    BY <2>6, <2>7, <2>8
<1>10. ASSUME NEW r \in Req, OnUvClose(r)
       PROVE  Ownership'
  <2>1. TypeOK'
    BY <1>10 DEF OnUvClose, TypeOK, session, WorkTypes
  <2>2. OneOwner'
    BY <1>10 DEF OnUvClose, OneOwner, IsCallback
  <2>3. r \notin sent \union held
    BY <1>10 DEF OnUvClose, OneOwner
  <2>4. Live' = Live \ {r}
    BY <1>10 DEF OnUvClose, Live, TypeOK
  <2>5. NoDanglingRequest'
    BY <1>10, <2>3, <2>4 DEF OnUvClose, NoDanglingRequest
  <2> QED
    BY <2>1, <2>2, <2>5
<1>11. CASE UNCHANGED vars
  BY <1>11 DEF vars, TypeOK, OneOwner, NoDanglingRequest, IsCallback, Live
<1> QED
  BY <1>1, <1>2, <1>3, <1>4, <1>5, <1>6, <1>7, <1>8, <1>9, <1>10, <1>11 DEF Next

THEOREM OwnershipInvariant == Spec => []Ownership
BY OwnershipInit, OwnershipStep, PTL DEF Spec

\* Type correctness (TypeOK): every variable keeps its type, whatever error
\* codes the client throws.
THEOREM TypeCorrect == Spec => []TypeOK
BY OwnershipInvariant, PTL DEF Ownership

\* A request never has two owners (OneOwner): on_done() runs to its end once
\* for each request, so uv_close() is called once on each handle.
THEOREM UniqueOwner == Spec => []OneOwner
BY OwnershipInvariant, PTL DEF Ownership

\* No pending handle, worker, callback or frame refers to a freed request
\* (NoDanglingRequest), at any depth of nested done() calls.
THEOREM NoUseAfterFree == Spec => []NoDanglingRequest
BY OwnershipInvariant, PTL DEF Ownership

-----------------------------------------------------------------------------
(***************************************************************************)
(* Dropped requests.                                                       *)
(***************************************************************************)

LEMMA OnDoneReports ==
  ASSUME NEW r, NEW e, OnDone(r, e),
         NEW q \in closing' \ closing
  PROVE  Pending(error')
<1>1. CASE DropPending(r, e)
  BY <1>1 DEF DropPending
<1>2. CASE DropBadState(r, e)
  BY <1>2 DEF DropBadState, SetError, Settable, ErrorCodes, Pending
<1>3. CASE Notify(r, e)
  BY <1>3 DEF Notify
<1> QED
  BY <1>1, <1>2, <1>3 DEF OnDone

LEMMA StepReports ==
  ASSUME TypeOK, [Next]_vars,
         NEW q \in closing' \ closing
  PROVE  q \in Calling \/ Pending(error')
<1>1. CASE AraInit
  BY <1>1 DEF AraInit, requests
<1>2. CASE AraSetLoop
  BY <1>2 DEF AraSetLoop, requests
<1>3. ASSUME NEW t \in Types, AraSet(t)
      PROVE  FALSE
  BY <1>3 DEF AraSet, requests
<1>4. ASSUME NEW code, AraThrow(code)
      PROVE  FALSE
  BY <1>4 DEF AraThrow, requests
<1>5. ASSUME NEW t \in Types \ {"UNKNOWN"}, ApiCall(t)
      PROVE  FALSE
  BY <1>4, <1>5 DEF ApiCall, CallBadState, CallNoLoop, CallNoCallback, CallInitFails,
                    CallAccepted
<1>6. ASSUME NEW r \in Req, OnAsyncBegin(r)
      PROVE  Pending(error')
  BY <1>6, OnDoneReports DEF OnAsyncBegin, BeginNoCallback, BeginWork, BeginUnserved,
                             BeginJoin, BeginBadState
<1>7. ASSUME NEW r \in Req, WorkDone(r)
      PROVE  Pending(error')
  BY <1>7, OnDoneReports DEF WorkDone, Done
<1>8. CASE ReturnWork
  BY <1>8 DEF ReturnWork, requests
<1>9. CASE ReturnCallback
  <2>1. stack \in Seq(Frames) /\ stack # <<>>
    BY <1>9 DEF ReturnCallback, TypeOK
  <2>2. Len(stack) \in DOMAIN stack
    BY <2>1
  <2> QED
    BY <1>9, <2>2 DEF ReturnCallback, ReqEnd, Top, Calling, IsCallback
<1>10. ASSUME NEW r \in Req, OnUvClose(r)
       PROVE  FALSE
  BY <1>10 DEF OnUvClose
<1>11. CASE UNCHANGED vars
  BY <1>11 DEF vars
<1> QED
  BY <1>1, <1>2, <1>3, <1>4, <1>5, <1>6, <1>7, <1>8, <1>9, <1>10, <1>11 DEF Next

\* A request that ends without its callback leaves a pending error behind
\* (DropsAreReported).
THEOREM NoSilentDrop == Spec => DropsAreReported
<1>1. TypeOK /\ [Next]_vars
        => [\A r \in closing' \ closing : r \in Calling \/ Pending(error')]_vars
  BY StepReports
<1> QED
  BY <1>1, TypeCorrect, PTL DEF Spec, DropsAreReported

-----------------------------------------------------------------------------
(***************************************************************************)
(* The status of a session, for a client that does not call ara_init() on  *)
(* a struct in use.                                                        *)
(*                                                                         *)
(* FrameStatus alone is not inductive: done(r) may be called from a frame  *)
(* of another request, and would pull the status from under it if two      *)
(* workers could be opening, or one closing while the frame believes the   *)
(* session open.  OneStarter says which requests workers hold in which     *)
(* status.                                                                 *)
(***************************************************************************)
Session ==
  /\ FrameStatus
  /\ OneStarter

\* The table of the operations, as far as the status depends on it.
LEMMA OpTable ==
  ASSUME NEW t \in OpTypes
  PROVE  /\ t = "OPEN" => /\ Op[t].starts = {"INIT"}
                          /\ Op[t].during = "OPENING"
                          /\ Op[t].expects = "OPENING"
                          /\ Op[t].becomes = "OPENED"
         /\ t = "CLOSE" => /\ Op[t].starts = {"OPENING", "OPENED"}
                           /\ Op[t].during = "CLOSING"
                           /\ Op[t].expects = "CLOSING"
                           /\ Op[t].becomes = "CLOSED"
         /\ t \notin {"OPEN", "CLOSE"} => /\ Op[t].starts = {"OPENED"}
                                         /\ Op[t].during = "OPENED"
                                         /\ Op[t].expects = "OPENED"
                                         /\ Op[t].becomes = "OPENED"
BY DEF Op, OpTypes, OpenOp, CloseOp, EndOp, ReadOp, WriteOp, UnlinkOp

\* An error or the acceptance of a call disturbs no frame and no worker.
LEMMA QuietStepSession ==
  ASSUME Ownership, Session,
         UNCHANGED <<status, held, stack>>,
         \A r \in Live : op'[r] = op[r]
  PROVE  Session'
<1>1. held \subseteq Live /\ \A i \in DOMAIN stack : stack[i].req \in Live
  BY DEF Ownership, NoDanglingRequest
<1>2. FrameStatus'
  BY <1>1 DEF Session, FrameStatus, IsCallback
<1>3. OneStarter'
  BY <1>1 DEF Session, OneStarter, Since
<1> QED
  BY <1>2, <1>3 DEF Session

\* on_done() of a request that its worker held, or that joined while no
\* client code ran.
LEMMA OnDoneSession ==
  ASSUME Ownership, Session,
         NEW r \in Live, NEW e,
         \/ r \in held /\ held' = held \ {r}
         \/ stack = <<>> /\ held' = held,
         OnDone(r, e)
  PROVE  Session'
<1>1. op \in [Req -> WorkTypes] /\ op' = op
  BY DEF Ownership, TypeOK, OnDone, DropPending, DropBadState, Notify, ReqEnd
<1>2. op[r] \in OpTypes /\ \A s \in Live : op[s] \in OpTypes
  BY LiveOp DEF Ownership
<1>3. \A i \in DOMAIN stack : stack[i].req \in Live
  BY DEF Ownership, NoDanglingRequest
<1>4. CASE UNCHANGED <<status, stack>>
  <2>1. FrameStatus'
    BY <1>1, <1>4 DEF Session, FrameStatus, IsCallback
  <2>2. OneStarter'
    BY <1>1, <1>4 DEF Session, OneStarter, Since
  <2> QED
    BY <2>1, <2>2 DEF Session
<1>5. CASE Notify(r, e)
  <2>0. CASE ReInit
    BY <2>0 DEF Session, FrameStatus, OneStarter
  <2> SUFFICES ASSUME ~ReInit PROVE Session'
    BY <2>0
  <2> DEFINE f == [kind |-> "callback", req |-> r]
  <2>1. /\ status = Op[op[r]].expects
        /\ status' = Op[op[r]].becomes
        /\ stack' = Append(stack, f)
    BY <1>5 DEF Notify, Enter
  <2>2. /\ DOMAIN stack' = 1..(Len(stack) + 1)
        /\ \A i \in DOMAIN stack : stack'[i] = stack[i]
        /\ stack'[Len(stack) + 1] = f
        /\ DOMAIN stack = 1..Len(stack)
        /\ Len(stack) \in Nat
    <3>1. f \in Frames /\ stack \in Seq(Frames)
      BY DEF Ownership, TypeOK, Frames, Live
    <3> QED
      BY <2>1, <3>1, EnterStack
  <2>3. ASSUME NEW i \in DOMAIN stack, status' # status
        PROVE  /\ ~IsCallback(i)
               /\ stack[i].req \notin held'
               /\ Op[op[stack[i].req]].during # Op[op[stack[i].req]].becomes
    <3> DEFINE s == stack[i].req
    <3>1. s \in Live /\ op[s] \in OpTypes
      BY <1>2, <1>3
    <3>2. op[r] \in {"OPEN", "CLOSE"} /\ status = Op[op[r]].during
      BY <1>2, <2>1, <2>3, OpTable
    <3>3. status \in {"OPENING", "CLOSING"}
      BY <1>2, <3>2, OpTable
    <3>4. ~IsCallback(i)
      BY <3>1, <3>3, OpTable DEF Session, FrameStatus
    <3>5. \/ s \notin held /\ Op[op[s]].during # Op[op[s]].becomes
          \/ status = Op[op[s]].during
      BY <3>4 DEF Session, FrameStatus
    <3>6. CASE status = Op[op[s]].during
      <4>1. op[s] = op[r]
        <5>1. CASE op[r] = "OPEN"
          <6>1. Op[op[s]].during = "OPENING"
            BY <1>2, <3>2, <3>6, <5>1, OpTable
          <6> QED
            BY <3>1, <5>1, <6>1, OpTable
        <5>2. CASE op[r] = "CLOSE"
          <6>1. Op[op[s]].during = "CLOSING"
            BY <1>2, <3>2, <3>6, <5>2, OpTable
          <6> QED
            BY <3>1, <5>2, <6>1, OpTable
        <5> QED
          BY <3>2, <5>1, <5>2
      <4>2. s \notin held'
        BY <2>3, <2>2, <4>1, <3>2 DEF Session, OneStarter
      <4> QED
        BY <3>2, <3>4, <4>1, <4>2, <1>2, OpTable
    <3> QED
      BY <3>4, <3>5, <3>6
  <2>4. FrameStatus'
    <3> SUFFICES ASSUME NEW i \in DOMAIN stack'
                 PROVE  LET q == stack'[i].req
                            o == Op[op[q]]
                        IN IF stack'[i].kind = "callback"
                           THEN status' = o.becomes
                           ELSE q \in held' \/ o.during = o.becomes => status' = o.during
      BY <1>1 DEF FrameStatus, IsCallback
    <3>1. CASE i = Len(stack) + 1
      BY <2>1, <2>2, <3>1
    <3>2. CASE i \in DOMAIN stack /\ status' # status
      BY <2>2, <2>3, <3>2 DEF IsCallback
    <3>3. CASE i \in DOMAIN stack /\ status' = status
      BY <2>2, <3>3 DEF Session, FrameStatus, IsCallback
    <3> QED
      BY <2>2, <3>1, <3>2, <3>3
  <2>5. OneStarter'
    <3>1. \A q, s \in held' : op[q] = op[s] /\ op[q] \in {"OPEN", "CLOSE"} => q = s
      BY DEF Session, OneStarter
    <3>2. ASSUME NEW q \in held' PROVE status' \in Since(op[q])
      <4>1. status \in Since(op[q])
        BY DEF Session, OneStarter
      <4> QED
        BY <1>2, <2>1, <4>1, OpTable DEF Since
    <3> QED
      BY <1>1, <3>1, <3>2 DEF OneStarter
  <2> QED
    BY <2>4, <2>5 DEF Session
<1> QED
  BY <1>4, <1>5 DEF OnDone, DropPending, DropBadState

LEMMA SessionInit == Init => Session
BY DEF Init, Session, FrameStatus, OneStarter

LEMMA SessionStep == Ownership /\ Session /\ [Next]_vars => Session'
<1> SUFFICES ASSUME Ownership, Session, [Next]_vars
             PROVE  Session'
  OBVIOUS
<1>0. CASE ReInit
  BY <1>0 DEF Session, FrameStatus, OneStarter
<1> SUFFICES ASSUME ~ReInit PROVE Session'
  BY <1>0
<1>a. /\ sent \union held \union closing \subseteq Live
      /\ \A i \in DOMAIN stack : stack[i].req \in Live
  BY DEF Ownership, NoDanglingRequest
<1>1. CASE AraInit
  <2>1. held = {} /\ DOMAIN stack = {} /\ UNCHANGED <<op, held, stack>>
    BY <1>1, <1>a DEF AraInit, requests
  <2> QED
    BY <2>1 DEF Session, FrameStatus, OneStarter
<1>2. CASE AraSetLoop
  BY <1>2, QuietStepSession DEF AraSetLoop, requests
<1>3. ASSUME NEW t \in Types, AraSet(t)
      PROVE  Session'
  BY <1>3, QuietStepSession DEF AraSet, requests
<1>4. ASSUME NEW code, AraThrow(code)
      PROVE  Session'
  BY <1>4, QuietStepSession DEF AraThrow, requests
<1>5. ASSUME NEW t \in Types \ {"UNKNOWN"}, ApiCall(t)
      PROVE  Session'
  <2>1. ASSUME NEW r \in Req, CallAccepted(t, r)
        PROVE  Session'
    <3>1. \A q \in Live : op'[q] = op[q]
      BY <2>1 DEF CallAccepted
    <3> QED
      BY <2>1, <3>1, QuietStepSession DEF CallAccepted, session
  <2> QED
    BY <1>4, <1>5, <2>1 DEF ApiCall, CallBadState, CallNoLoop, CallNoCallback, CallInitFails
<1>6. ASSUME NEW r \in Req, OnAsyncBegin(r)
      PROVE  Session'
  <2>0. Deliver(r)
    BY <1>6 DEF OnAsyncBegin, BeginNoCallback, BeginWork, BeginUnserved, BeginJoin, BeginBadState
  <2>1. r \in Live /\ r \in sent /\ r \notin held /\ stack = <<>>
    BY <1>a, <2>0 DEF Deliver, Ownership, OneOwner
  <2>2. op[r] \in OpTypes /\ \A s \in Live : op[s] \in OpTypes
    BY <2>1, LiveOp DEF Ownership
  <2>3. CASE BeginNoCallback(r)
    BY <2>3, QuietStepSession DEF BeginNoCallback
  <2>4. ASSUME status \in Op[op[r]].starts,
               status' = Op[op[r]].during,
               op' = op,
               held' \in {held, held \union {r}}
        PROVE  OneStarter'
    <3>1. ASSUME NEW s \in held
          PROVE  /\ op[s] = op[r] => op[r] \notin {"OPEN", "CLOSE"}
                 /\ status' \in Since(op[s])
      <4>1. status \in Since(op[s])
        BY DEF Session, OneStarter
      <4>2. op[s] \in OpTypes
        BY <1>a, <2>2
      <4> QED
        BY <2>2, <2>4, <4>1, <4>2, OpTable DEF Since
    <3>2. status' \in Since(op[r])
      BY <2>2, <2>4, OpTable DEF Since
    <3>3. \A q, s \in held' : op[q] = op[s] /\ op[q] \in {"OPEN", "CLOSE"} => q = s
      BY <2>4, <3>1 DEF Session, OneStarter
    <3>4. \A q \in held' : status' \in Since(op[q])
      BY <2>4, <3>1, <3>2
    <3> QED
      BY <2>4, <3>3, <3>4 DEF OneStarter
  <2>5. CASE BeginWork(r)
    <3>1. stack' = <<[kind |-> "work", req |-> r]>>
      BY <2>1, <2>5 DEF BeginWork, Enter
    <3>2. FrameStatus'
      BY <2>5, <3>1 DEF BeginWork, FrameStatus, IsCallback
    <3> QED
      BY <2>4, <2>5, <3>2 DEF BeginWork, Session
  <2>6. CASE BeginUnserved(r)
    <3>1. FrameStatus'
      BY <2>1, <2>6 DEF BeginUnserved, FrameStatus
    <3> QED
      BY <2>4, <2>6, <3>1 DEF BeginUnserved, Session
  <2>7. CASE BeginJoin(r) \/ BeginBadState(r)
    BY <2>1, <2>7, OnDoneSession DEF BeginJoin, BeginBadState
  <2> QED
    BY <1>6, <2>3, <2>5, <2>6, <2>7 DEF OnAsyncBegin
<1>7. ASSUME NEW r \in Req, WorkDone(r)
      PROVE  Session'
  BY <1>7, <1>a, OnDoneSession DEF WorkDone, Done
<1>8. CASE ReturnWork \/ ReturnCallback
  <2>1. stack \in Seq(Frames) /\ stack # <<>>
    BY <1>8 DEF ReturnWork, ReturnCallback, Ownership, TypeOK
  <2>2. /\ DOMAIN stack' \subseteq DOMAIN stack
        /\ \A i \in DOMAIN stack' : stack'[i] = stack[i]
    BY <1>8, <2>1, LeaveStack DEF ReturnWork, ReturnCallback, Leave
  <2>3. UNCHANGED <<status, op, held>>
    BY <1>8 DEF ReturnWork, ReturnCallback, ReqEnd, session, requests
  <2>4. FrameStatus'
    BY <2>2, <2>3 DEF Session, FrameStatus, IsCallback
  <2>5. OneStarter'
    BY <2>3 DEF Session, OneStarter, Since
  <2> QED
    BY <2>4, <2>5 DEF Session
<1>9. ASSUME NEW r \in Req, OnUvClose(r)
      PROVE  Session'
  <2>1. r \notin held /\ stack' = <<>>
    BY <1>9 DEF OnUvClose, Ownership, OneOwner
  <2>2. \A q \in held : op'[q] = op[q]
    BY <1>9, <2>1 DEF OnUvClose
  <2>3. OneStarter'
    BY <1>9, <2>2 DEF OnUvClose, session, Session, OneStarter, Since
  <2>4. FrameStatus'
    BY <2>1 DEF FrameStatus
  <2> QED
    BY <2>3, <2>4 DEF Session
<1>10. CASE UNCHANGED vars
  BY <1>10, QuietStepSession DEF vars
<1> QED
  BY <1>1, <1>2, <1>3, <1>4, <1>5, <1>6, <1>7, <1>8, <1>9, <1>10 DEF Next

THEOREM SessionInvariant == Spec => []Session
BY OwnershipInvariant, SessionInit, SessionStep, PTL DEF Spec

\* Client code sees one status for as long as its frame runs (FrameStatus).
THEOREM StableFrames == Spec => []FrameStatus
BY SessionInvariant, PTL DEF Session

\* One opener, one closer, and no session goes back while they work
\* (OneStarter).
THEOREM SingleStarter == Spec => []OneStarter
BY SessionInvariant, PTL DEF Session

\* A step that changes the status takes the session forward.
LEMMA StatusForward ==
  ASSUME Ownership, [Next]_vars, ~ReInit, status' # status
  PROVE  <<status, status'>> \in Forward
<1>1. CASE AraInit
  BY <1>1 DEF AraInit, Forward
<1>2. ASSUME NEW r \in Live, NEW e, OnDone(r, e)
      PROVE  <<status, status'>> \in Forward
  <2>1. status = Op[op[r]].expects /\ status' = Op[op[r]].becomes
    BY <1>2 DEF OnDone, DropPending, DropBadState, Notify
  <2>2. op[r] \in OpTypes
    BY LiveOp DEF Ownership
  <2> QED
    BY <2>1, <2>2, OpTable DEF Forward
<1>3. ASSUME NEW r \in Live, status \in Op[op[r]].starts, status' = Op[op[r]].during
      PROVE  <<status, status'>> \in Forward
  <2>1. op[r] \in OpTypes
    BY LiveOp DEF Ownership
  <2> QED
    BY <1>3, <2>1, OpTable DEF Forward
<1>4. ASSUME NEW r \in Req, OnAsyncBegin(r)
      PROVE  <<status, status'>> \in Forward
  <2>1. r \in Live
    BY <1>4 DEF OnAsyncBegin, BeginNoCallback, BeginWork, BeginUnserved, BeginJoin,
                BeginBadState, Deliver, Ownership, NoDanglingRequest
  <2> QED
    BY <1>2, <1>3, <1>4, <2>1 DEF OnAsyncBegin, BeginNoCallback, BeginWork, BeginUnserved,
                                  BeginJoin, BeginBadState
<1>5. ASSUME NEW r \in Req, WorkDone(r)
      PROVE  <<status, status'>> \in Forward
  BY <1>2, <1>5 DEF WorkDone, Done, Ownership, NoDanglingRequest
<1> QED
  BY <1>1, <1>4, <1>5
     DEF Next, AraSetLoop, AraSet, AraThrow, ApiCall, CallBadState, CallNoLoop,
         CallNoCallback, CallInitFails, CallAccepted, ReturnWork, ReturnCallback,
         OnUvClose, session, vars

\* A session goes through its statuses in order (SessionOrder).
THEOREM StatusesInOrder == Spec => SessionOrder
<1>1. Ownership /\ [Next]_vars
        => [~ReInit => <<status, status'>> \in Forward]_status
  BY StatusForward
<1> QED
  BY <1>1, OwnershipInvariant, PTL DEF Spec, SessionOrder

-----------------------------------------------------------------------------
(***************************************************************************)
(* Requests the loop gives up.                                             *)
(***************************************************************************)

\* The bits that are set are those of the workers that are registered, and a
\* client calls and registers types of its own only.
BitsOfWork ==
  /\ work \subseteq Types
  /\ bitfield = UNION {WorkBits[t] : t \in work}
  /\ \A r \in sent : op[r] \in Types \ {"UNKNOWN"}

\* OP's test of the bits keeps its meaning until the request is delivered.
SentAreServed ==
  ~ReInit /\ Unaliased => \A r \in sent : op[r] \in work

Service ==
  /\ BitsOfWork
  /\ SentAreServed
  /\ NoStranded

LEMMA OpBits ==
  ASSUME NEW t \in OpTypes
  PROVE  WorkBits[t] # {}
BY DEF WorkBits, OpTypes

\* on_done() hands a request to its callback or to uv_close().
LEMMA OnDoneOwns ==
  ASSUME Ownership,
         NEW r \in Req, NEW e, OnDone(r, e),
         held' = held \ {r}, sent' = sent \ {r}
  PROVE  Stranded' \subseteq Stranded
<1>1. op' = op /\ Live' = Live
  BY DEF OnDone, DropPending, DropBadState, Notify, ReqEnd, Live
<1>2. CASE closing' = closing \union {r} /\ stack' = stack
  <2>1. Calling' = Calling
    BY <1>2 DEF Calling, IsCallback
  <2> QED
    BY <1>1, <1>2, <2>1 DEF Stranded
<1>3. CASE Notify(r, e)
  <2> DEFINE f == [kind |-> "callback", req |-> r]
  <2>1. stack \in Seq(Frames) /\ f \in Frames /\ stack' = Append(stack, f)
    BY <1>3 DEF Ownership, TypeOK, Frames, Notify, Enter
  <2>2. /\ DOMAIN stack' = 1..(Len(stack) + 1)
        /\ \A i \in DOMAIN stack : stack'[i] = stack[i]
        /\ stack'[Len(stack) + 1] = f
        /\ DOMAIN stack = 1..Len(stack)
        /\ Len(stack) \in Nat
    BY <2>1, EnterStack
  <2>3. r \in Calling'
    BY <2>2 DEF Calling, IsCallback
  <2>4. Calling \subseteq Calling'
    BY <2>2 DEF Calling, IsCallback
  <2> QED
    BY <1>1, <1>3, <2>3, <2>4 DEF Stranded, Notify
<1> QED
  BY <1>2, <1>3 DEF OnDone, DropPending, DropBadState, ReqEnd

LEMMA StepStrands ==
  ASSUME Ownership, BitsOfWork, [Next]_vars,
         NEW q \in Stranded' \ Stranded
  PROVE  q \in sent /\ op[q] \notin work
<1>0. /\ Stranded = Live \ (sent \union held \union closing \union Calling)
      /\ Stranded' = Live' \ (sent' \union held' \union closing' \union Calling')
  BY DEF Stranded
<1>1. ASSUME UNCHANGED <<requests, stack>>
      PROVE  FALSE
  <2>1. Stranded' = Stranded
    BY <1>1 DEF requests, Stranded, Live, Calling, IsCallback
  <2> QED
    BY <2>1
<1>2. CASE AraInit \/ AraSetLoop \/ UNCHANGED vars
  BY <1>1, <1>2 DEF AraInit, AraSetLoop, vars, requests
<1>3. ASSUME NEW t \in Types, AraSet(t)
      PROVE  FALSE
  BY <1>1, <1>3 DEF AraSet
<1>4. ASSUME NEW code, AraThrow(code)
      PROVE  FALSE
  BY <1>1, <1>4 DEF AraThrow
<1>5. ASSUME NEW t \in Types \ {"UNKNOWN"}, ApiCall(t)
      PROVE  FALSE
  <2>1. ASSUME NEW r \in Req, CallAccepted(t, r)
        PROVE  FALSE
    <3>1. Live' \subseteq Live \union {r} /\ Calling' = Calling
      BY <2>1 DEF CallAccepted, Live, Calling, IsCallback
    <3> QED
      BY <1>0, <2>1, <3>1 DEF CallAccepted
  <2> QED
    BY <1>4, <1>5, <2>1 DEF ApiCall, CallBadState, CallNoLoop, CallNoCallback, CallInitFails
<1>6. ASSUME NEW r \in Req, OnAsyncBegin(r)
      PROVE  q \in sent /\ op[q] \notin work
  <2>0. Deliver(r)
    BY <1>6 DEF OnAsyncBegin, BeginNoCallback, BeginWork, BeginUnserved, BeginJoin, BeginBadState
  <2>1. r \in sent /\ r \in Live /\ r \notin held /\ sent' = sent \ {r} /\ stack = <<>>
    BY <2>0 DEF Deliver, Ownership, OneOwner, NoDanglingRequest
  <2>2. op[r] \in OpTypes
    BY <2>1, LiveOp DEF Ownership
  <2>3. ASSUME UNCHANGED <<op, held, closing, stack>>
        PROVE  q = r
    <3>1. Live' = Live /\ Calling' = Calling
      BY <2>3 DEF Live, Calling, IsCallback
    <3> QED
      BY <1>0, <2>1, <2>3, <3>1
  <2>4. CASE BeginNoCallback(r)
    <3>1. op[r] \notin work
      <4>1. op[r] \in work => WorkBits[op[r]] \subseteq bitfield
        BY DEF BitsOfWork
      <4>2. WorkBits[op[r]] # {}
        BY <2>2, OpBits
      <4> QED
        BY <2>4, <4>1, <4>2 DEF BeginNoCallback, HasSomeBit
    <3> QED
      BY <2>1, <2>3, <2>4, <3>1 DEF BeginNoCallback
  <2>5. CASE BeginUnserved(r)
    BY <2>1, <2>3, <2>5 DEF BeginUnserved
  <2>6. CASE BeginWork(r)
    <3>1. Live' = Live /\ Calling = {}
      BY <2>1, <2>6 DEF BeginWork, Live, Calling
    <3> QED
      BY <1>0, <2>1, <2>6, <3>1 DEF BeginWork
  <2>7. CASE BeginJoin(r) \/ BeginBadState(r)
    <3>1. PICK e : OnDone(r, e)
      BY <2>7 DEF BeginJoin, BeginBadState
    <3>2. held' = held \ {r}
      BY <2>1, <2>7 DEF BeginJoin, BeginBadState
    <3> QED
      BY <2>1, <3>1, <3>2, OnDoneOwns
  <2> QED
    BY <1>6, <2>4, <2>5, <2>6, <2>7 DEF OnAsyncBegin
<1>7. ASSUME NEW r \in Req, WorkDone(r)
      PROVE  FALSE
  <2>1. sent' = sent \ {r}
    BY <1>7 DEF WorkDone, Done, Ownership, OneOwner
  <2> QED
    BY <1>7, <2>1, OnDoneOwns DEF WorkDone, Done
<1>8. CASE ReturnWork \/ ReturnCallback
  <2>1. stack \in Seq(Frames) /\ stack # <<>>
    BY <1>8 DEF ReturnWork, ReturnCallback, Ownership, TypeOK
  <2>2. /\ DOMAIN stack = 1..Len(stack)
        /\ DOMAIN stack' = 1..(Len(stack) - 1)
        /\ \A i \in 1..(Len(stack) - 1) : stack'[i] = stack[i]
        /\ Len(stack) \in Nat \ {0}
    BY <1>8, <2>1, LeaveStack DEF ReturnWork, ReturnCallback, Leave
  <2>3. ASSUME NEW r \in Calling
        PROVE  r \in Calling' \/ (Top.kind = "callback" /\ r = Top.req)
    <3>1. PICK i \in DOMAIN stack : IsCallback(i) /\ r = stack[i].req
      BY DEF Calling
    <3>2. CASE i = Len(stack)
      BY <3>1, <3>2 DEF Top, IsCallback
    <3>3. CASE i \in 1..(Len(stack) - 1)
      BY <2>2, <3>1, <3>3 DEF Calling, IsCallback
    <3> QED
      BY <2>2, <3>2, <3>3
  <2>4. /\ Live' = Live /\ sent' = sent /\ held' = held /\ closing \subseteq closing'
        /\ Top.kind = "callback" => Top.req \in closing'
    BY <1>8 DEF ReturnWork, ReturnCallback, ReqEnd, requests, Live
  <2> QED
    BY <1>0, <2>3, <2>4
<1>9. ASSUME NEW r \in Req, OnUvClose(r)
      PROVE  FALSE
  <2>1. Live' = Live \ {r} /\ Calling' = Calling
    BY <1>9 DEF OnUvClose, Live, Calling, IsCallback, Ownership, TypeOK
  <2> QED
    BY <1>0, <1>9, <2>1 DEF OnUvClose
<1> QED
  BY <1>2, <1>3, <1>4, <1>5, <1>6, <1>7, <1>8, <1>9 DEF Next

LEMMA ServiceInit == Init => Service
<1> SUFFICES ASSUME Init PROVE Service
  OBVIOUS
<1>1. BitsOfWork
  BY DEF Init, BitsOfWork
<1>2. SentAreServed
  BY DEF Init, SentAreServed
<1>3. NoStranded
  BY DEF Init, NoStranded, Stranded, Live
<1> QED
  BY <1>1, <1>2, <1>3 DEF Service

\* A step that sends no request and unregisters no worker.
LEMMA SendlessStep ==
  ASSUME Ownership, BitsOfWork, SentAreServed,
         sent' \subseteq sent,
         \A r \in sent : op'[r] = op[r],
         UNCHANGED <<work, bitfield>>
  PROVE  BitsOfWork' /\ SentAreServed'
BY DEF BitsOfWork, SentAreServed

LEMMA ServiceStep == Ownership /\ Service /\ [Next]_vars => Service'
<1> SUFFICES ASSUME Ownership, Service, [Next]_vars
             PROVE  Service'
  OBVIOUS
<1>a. BitsOfWork /\ SentAreServed /\ NoStranded
  BY DEF Service
<1>1. BitsOfWork' /\ SentAreServed'
  <2>1. CASE AraInit
    <3>1. BitsOfWork'
      BY <1>a, <2>1 DEF AraInit, BitsOfWork, requests
    <3>2. ~ReInit => sent' = {}
      BY <2>1 DEF AraInit, requests, Ownership, NoDanglingRequest
    <3> QED
      BY <3>1, <3>2 DEF SentAreServed
  <2>2. ASSUME NEW t \in Types, AraSet(t)
        PROVE  BitsOfWork' /\ SentAreServed'
    <3>1. bitfield' = UNION {WorkBits[s] : s \in work'}
      BY <1>a, <2>2 DEF AraSet, BitsOfWork
    <3> QED
      BY <1>a, <2>2, <3>1 DEF AraSet, BitsOfWork, SentAreServed, requests
  <2>3. ASSUME NEW code, AraThrow(code)
        PROVE  BitsOfWork' /\ SentAreServed'
    BY <1>a, <2>3, SendlessStep DEF AraThrow, requests
  <2>4. ASSUME NEW t \in Types \ {"UNKNOWN"}, ApiCall(t)
        PROVE  BitsOfWork' /\ SentAreServed'
    <3>1. ASSUME NEW r \in Req, CallAccepted(t, r)
          PROVE  BitsOfWork' /\ SentAreServed'
      <4>1. r \notin sent /\ op'[r] = t /\ \A s \in sent : op'[s] = op[s]
        BY <3>1 DEF CallAccepted, Ownership, TypeOK, NoDanglingRequest
      <4>2. BitsOfWork'
        BY <1>a, <3>1, <4>1 DEF CallAccepted, session, BitsOfWork
      <4>3. Unaliased => t \in work
        BY <1>a, <3>1 DEF CallAccepted, HasBits, Unaliased, BitsOfWork
      <4>4. SentAreServed'
        BY <1>a, <3>1, <4>1, <4>3 DEF CallAccepted, session, SentAreServed
      <4> QED
        BY <4>2, <4>4
    <3> QED
      BY <2>3, <2>4, <3>1 DEF ApiCall, CallBadState, CallNoLoop, CallNoCallback, CallInitFails
  <2>5. ASSUME NEW r \in Req, NEW e, OnDone(r, e)
        PROVE  op' = op
    BY <2>5 DEF OnDone, DropPending, DropBadState, Notify, ReqEnd
  <2>6. ASSUME NEW r \in Req, OnAsyncBegin(r)
        PROVE  BitsOfWork' /\ SentAreServed'
    <3>1. Deliver(r) /\ op' = op
      BY <2>5, <2>6 DEF OnAsyncBegin, BeginNoCallback, BeginWork, BeginUnserved, BeginJoin,
                        BeginBadState
    <3> QED
      BY <1>a, <3>1, SendlessStep DEF Deliver
  <2>7. ASSUME NEW r \in Req, WorkDone(r)
        PROVE  BitsOfWork' /\ SentAreServed'
    BY <1>a, <2>5, <2>7, SendlessStep DEF WorkDone, Done
  <2>8. CASE ReturnWork \/ ReturnCallback
    BY <1>a, <2>8, SendlessStep DEF ReturnWork, ReturnCallback, ReqEnd, session, requests
  <2>9. ASSUME NEW r \in Req, OnUvClose(r)
        PROVE  BitsOfWork' /\ SentAreServed'
    <3>1. \A s \in sent : op'[s] = op[s]
      BY <2>9 DEF OnUvClose, Ownership, OneOwner
    <3> QED
      BY <1>a, <2>9, <3>1, SendlessStep DEF OnUvClose, session
  <2>10. CASE AraSetLoop \/ UNCHANGED vars
    BY <1>a, <2>10, SendlessStep DEF AraSetLoop, vars, requests
  <2> QED
    BY <2>1, <2>2, <2>3, <2>4, <2>6, <2>7, <2>8, <2>9, <2>10 DEF Next
<1>2. NoStranded'
  <2> SUFFICES ASSUME ~ReInit, Unaliased, NEW q \in Stranded'
               PROVE  FALSE
    BY DEF NoStranded
  <2>1. Stranded = {}
    BY <1>a DEF NoStranded
  <2>2. q \in sent /\ op[q] \notin work
    BY <1>a, <2>1, StepStrands
  <2> QED
    BY <1>a, <2>2 DEF SentAreServed
<1> QED
  BY <1>1, <1>2 DEF Service

THEOREM ServiceInvariant == Spec => []Service
BY OwnershipInvariant, ServiceInit, ServiceStep, PTL DEF Spec

\* When the types of a client are unaliased and it does not initialise a
\* struct in use, every request always has somebody to finish it (NoStranded).
THEOREM EveryRequestOwned == Spec => []NoStranded
BY ServiceInvariant, PTL DEF Service

\* Any client: a request the loop gives up has no worker at that time
\* (OnlyUnregisteredStrand).
THEOREM StrandedUnregistered == Spec => OnlyUnregisteredStrand
<1>1. Ownership /\ Service /\ [Next]_vars
        => [\A r \in Stranded' \ Stranded : op[r] \notin work]_vars
  BY StepStrands DEF Service
<1> QED
  BY <1>1, OwnershipInvariant, ServiceInvariant, PTL DEF Spec, OnlyUnregisteredStrand
=============================================================================
