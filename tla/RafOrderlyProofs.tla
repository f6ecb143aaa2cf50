--------------------------- MODULE RafOrderlyProofs ---------------------------
(***************************************************************************)
(* An orderly client of example/raf sees no panic and no error of its own, *)
(* for every number of requests, every set of ranges, every width of the   *)
(* offsets and every choice of what may fail.                              *)
(***************************************************************************)
EXTENDS RandomAccessFileProofs

(***************************************************************************)
(* The session of an orderly client.  A call that has begun is still in    *)
(* order when its request is made: nothing but the pool runs in between.   *)
(***************************************************************************)
Quiet ==
  /\ status = "UNKNOWN" => Live = {} /\ calling = "none"
  /\ status # "UNKNOWN" => loop /\ (up => error = "NONE")

InCall ==
  calling # "none" =>
    /\ calling \in Types
    /\ InOrder(calling)
    /\ calling \in work /\ HasBits(calling)
    /\ stack # <<>> => Top.kind = "callback"

(***************************************************************************)
(* An OPEN is sent when there is no other request and a CLOSE when no      *)
(* other one is sent or held, so a delivery finds the status that starts   *)
(* its worker, and done() the status the worker was started in.            *)
(***************************************************************************)
InSent ==
  \A r \in sent :
    /\ op[r] \in work /\ HasBits(op[r])
    /\ IF op[r] = "OPEN" THEN status = "INIT" /\ Live = {r}
       ELSE status = "OPENED" /\ (op[r] = "CLOSE" => sent = {r} /\ held = {})

InHeld == \A r \in held : status = Op[op[r]].during

OrderlySession == orderly => Quiet /\ InCall /\ InSent /\ InHeld

(***************************************************************************)
(* The descriptor is there from the answer of the OPEN to the CLOSE, and a *)
(* request is there only if the file may do what it asks for.              *)
(***************************************************************************)
Opened == {"OPENED", "CLOSING", "CLOSED"}

HandleOf(r) ==
  /\ r \in Live /\ op[r] # "OPEN" => status \in Opened
  /\ op[r] = "READ" => readable
  /\ op[r] = "WRITE" => writable
  /\ op[r] = "OPEN" /\ stage[r] = "served" /\ result[r] # Failed => descriptor
  /\ op[r] = "OPEN" /\ stage[r] \in {"statting", "statted"} => descriptor /\ fd
  /\ stage[r] \in {"statting", "statted"} => op[r] \in {"OPEN", "WRITE"}

OrderlyHandle ==
  orderly =>
    /\ status \in Opened => fd
    /\ status = "OPENED" => descriptor
    /\ \A r \in Req : HandleOf(r)

(***************************************************************************)
(* What a system call did not do it was made to fail for.                  *)
(***************************************************************************)
Explained(r) ==
  /\ stage[r] = "served" /\ op[r] \in {"OPEN", "CLOSE", "UNLINK"} /\ result[r] = Failed =>
       op[r] \in Faults
  /\ stage[r] = "served" /\ op[r] = "READ" /\ result[r] = Failed =>
       "READ" \in Faults \/ (Left(r) > 0 /\ r \notin region)
  /\ stage[r] = "served" /\ op[r] = "READ" /\ result[r] = 0 /\ Left(r) > 0 =>
       "READ" \in Faults
  /\ stage[r] = "statted" /\ result[r] = Failed => "STAT" \in Faults

OrderlyAnswers ==
  orderly /\ NoWrap => (\A r \in Req : Explained(r)) /\ (~up => Blamed)

-----------------------------------------------------------------------------
(***************************************************************************)
(* What the steps of Ara do in the session of an orderly client.           *)
(***************************************************************************)

\* A delivery finds the worker and the status that starts it.
LEMMA OrderlyDelivery ==
  ASSUME Ownership, OrderlySession, orderly, up, NEW r \in Req, OnAsyncBegin(r)
  PROVE  /\ BeginWork(r)
         /\ r \in sent /\ op[r] \in OpTypes
<1>1. /\ r \in sent /\ TypeOK /\ r \in Live
  BY DeliverFrames DEF Ownership, NoDanglingRequest
<1>2. /\ op[r] \in work /\ HasBits(op[r])
      /\ IF op[r] = "OPEN" THEN status = "INIT" ELSE status = "OPENED"
  BY <1>1 DEF OrderlySession, InSent
<1>3. op[r] \in OpTypes
  BY <1>1, LiveOp
<1>4. HasSomeBit(op[r])
  BY <1>2, <1>3, OpBits DEF HasBits, HasSomeBit
<1>5. status \in Op[op[r]].starts
  BY <1>2, <1>3, OpTable
<1>6. status \notin Op[op[r]].joins
  BY <1>2, <1>3 DEF Op, OpTypes, OpenOp, CloseOp, EndOp, ReadOp, WriteOp, UnlinkOp
<1> QED
  BY <1>1, <1>2, <1>3, <1>4, <1>5, <1>6
     DEF OnAsyncBegin, BeginNoCallback, BeginUnserved, BeginJoin, BeginBadState

\* done() finds the status the worker was started in, and no error.
LEMMA OrderlyCompletion ==
  ASSUME Ownership, OrderlySession, orderly, up, NEW r \in Req, WorkDone(r)
  PROVE  /\ Notify(r, error)
         /\ r \in held /\ held' = held \ {r} /\ sent' = sent
         /\ op[r] \in OpTypes /\ op' = op
         /\ status = Op[op[r]].expects /\ status' = Op[op[r]].becomes
         /\ error = "NONE" /\ error' = error
         /\ UNCHANGED <<loop, work, bitfield>>
<1>1. /\ r \in held /\ held' = held \ {r} /\ sent' = sent /\ OnDone(r, error)
      /\ UNCHANGED <<loop, work, bitfield>>
  BY DEF WorkDone, Done
<1>2. r \in Live /\ op[r] \in OpTypes
  BY <1>1, LiveOp DEF Ownership, NoDanglingRequest
<1>3. status = Op[op[r]].during /\ status = Op[op[r]].expects
  BY <1>1, <1>2, OpTable DEF OrderlySession, InHeld
<1>4. error = "NONE"
  BY <1>2 DEF OrderlySession, Quiet
<1>5. Notify(r, error)
  BY <1>1, <1>3, <1>4 DEF OnDone, DropPending, DropBadState, Pending
<1> QED
  BY <1>1, <1>2, <1>3, <1>4, <1>5 DEF Notify

-----------------------------------------------------------------------------
(***************************************************************************)
(* The session of an orderly client, step by step.                         *)
(***************************************************************************)
LEMMA OrderlyInit == RInit => OrderlySession
BY DEF RInit, Init, OrderlySession, Quiet, InCall, InSent, InHeld, Live

\* A step of the pool or of a callback that calls nothing of Ara.
LEMMA OrderlyOutside ==
  ASSUME OrderlySession, UNCHANGED <<vars, client>>, up' => up,
         calling = "none" \/ UNCHANGED <<readable, writable>>
  PROVE  OrderlySession'
BY DEF vars, client, OrderlySession, Quiet, InCall, InSent, InHeld, InOrder, Live, HasBits, Top

LEMMA OrderlyRafInit ==
  ASSUME Ownership, OrderlySession, RafInit
  PROVE  OrderlySession'
<1>1. /\ Live = {} /\ op' = op /\ sent' = sent /\ held' = held
      /\ status' = "INIT" /\ loop' /\ error' = "NONE"
      /\ calling' = "none"
  BY RafAssumption DEF RafInit, AraInit, requests, Idle, client
<1>2. sent' = {} /\ held' = {} /\ Live' = {}
  BY <1>1 DEF Ownership, NoDanglingRequest, Live
<1> QED
  BY <1>1, <1>2 DEF OrderlySession, Quiet, InCall, InSent, InHeld

\* ara_set() of a call in order adds a worker and its bits.
LEMMA OrderlySet ==
  ASSUME Ownership, OrderlySession, NEW t \in Types, RafSet(t)
  PROVE  OrderlySession'
<1> SUFFICES ASSUME orderly' PROVE (Quiet /\ InCall /\ InSent /\ InHeld)'
  BY DEF OrderlySession
<1>1. /\ orderly /\ InOrder(t)
      /\ UNCHANGED <<status, loop, requests, stack>>
      /\ work' = work \union {t} /\ error' = "NONE"
      /\ bitfield' = bitfield \union WorkBits[t]
      /\ calling' = t /\ UNCHANGED <<readable, writable, up>>
      /\ stack # <<>> => Top.kind = "callback"
  BY DEF RafSet, AraSet, handle
<1>2. Quiet /\ InSent /\ InHeld
  BY <1>1 DEF OrderlySession
<1>3. InOrder(t)'
  BY <1>1 DEF InOrder, requests, Live
<1>4. status # "UNKNOWN"
  BY <1>1 DEF InOrder
<1>5. Quiet'
  BY <1>1, <1>2, <1>4 DEF Quiet
<1>6. InCall'
  BY <1>1, <1>3 DEF InCall, HasBits, Top
<1>7. InSent' /\ InHeld'
  BY <1>1, <1>2 DEF InSent, InHeld, HasBits, requests, Live
<1> QED
  BY <1>5, <1>6, <1>7

LEMMA OrderlyAccepted ==
  ASSUME Ownership, OrderlySession, NEW t \in Types, NEW r \in Req, NEW o,
         RafAccepted(t, r, o)
  PROVE  OrderlySession'
<1> SUFFICES ASSUME orderly PROVE (Quiet /\ InCall /\ InSent /\ InHeld)'
  BY DEF OrderlySession, RafAccepted
<1>1. /\ op' = [op EXCEPT ![r] = t] /\ sent' = sent \union {r} /\ r \notin Live
      /\ UNCHANGED <<session, held, stack, up>>
      /\ calling = t /\ calling' = "none"
  BY DEF RafAccepted, CallAccepted
<1>2. Quiet /\ InCall /\ InSent /\ InHeld /\ TypeOK
  BY DEF OrderlySession, Ownership
<1>3. t \in OpTypes /\ t # "none" /\ t # "UNKNOWN"
  BY RafAssumption DEF OpTypes
<1>4. InOrder(t) /\ t \in work /\ HasBits(t)
  BY <1>1, <1>2, <1>3 DEF InCall
<1>5. /\ op'[r] = t /\ \A q \in Req \ {r} : op'[q] = op[q]
      /\ sent \subseteq Live /\ held \subseteq Live /\ Live \subseteq Req
      /\ Live' = Live \union {r}
  BY <1>1, <1>2, <1>3 DEF TypeOK, Ownership, NoDanglingRequest, Live
<1>6. status # "UNKNOWN"
  BY <1>4 DEF InOrder
<1>7. Quiet'
  BY <1>1, <1>2, <1>6 DEF Quiet, session
<1>8. InCall'
  BY <1>1 DEF InCall
<1>9. InHeld'
  BY <1>1, <1>2, <1>5 DEF InHeld, session
<1>10. InSent'
  <2> SUFFICES ASSUME NEW q \in sent'
               PROVE  /\ op'[q] \in work /\ HasBits(op'[q])
                      /\ IF op'[q] = "OPEN" THEN status = "INIT" /\ Live' = {q}
                         ELSE status = "OPENED" /\ (op'[q] = "CLOSE" => sent' = {q} /\ held = {})
    BY <1>1 DEF InSent, session, HasBits
  <2>1. CASE q = r
    BY <1>1, <1>4, <1>5, <2>1 DEF InOrder
  <2>2. CASE q # r
    <3>1. /\ q \in sent /\ op'[q] = op[q] /\ q \in Live
          /\ op[q] \in work /\ HasBits(op[q])
          /\ op[q] = "OPEN" => status = "INIT" /\ Live = {q}
          /\ op[q] # "OPEN" => status = "OPENED"
      BY <1>1, <1>2, <1>5, <2>2 DEF InSent
    <3>2. status = "OPENED" /\ op[q] # "CLOSE" /\ op[q] # "OPEN"
      BY <1>4, <3>1 DEF InOrder
    <3> QED
      BY <3>1, <3>2
  <2> QED
    BY <2>1, <2>2
<1> QED
  BY <1>7, <1>8, <1>9, <1>10

LEMMA OrderlyDeliver ==
  ASSUME Ownership, OrderlySession, NEW r \in Req, RafDeliver(r)
  PROVE  OrderlySession'
<1> SUFFICES ASSUME orderly PROVE (Quiet /\ InCall /\ InSent /\ InHeld)'
  BY DEF OrderlySession, RafDeliver, rafvars, client
<1>1. /\ BeginWork(r) /\ r \in sent /\ op[r] \in OpTypes /\ calling' = "none"
      /\ up' = up
  BY OrderlyDelivery DEF RafDeliver, rafvars, client, Idle
<1>2. /\ sent' = sent \ {r} /\ held' = held \union {r} /\ op' = op
      /\ status' = Op[op[r]].during
      /\ UNCHANGED <<error, loop, work, bitfield>>
  BY <1>1 DEF BeginWork, Deliver
<1>3. /\ Quiet /\ InSent /\ InHeld
      /\ sent \subseteq Live /\ held \subseteq Live /\ sent \intersect held = {}
      /\ Live' = Live
  BY <1>2 DEF OrderlySession, Ownership, NoDanglingRequest, OneOwner, Live
<1>4. /\ op[r] = "OPEN" => Live = {r} /\ status' = "OPENING"
      /\ op[r] = "CLOSE" => sent = {r} /\ held = {} /\ status' = "CLOSING"
      /\ op[r] \notin {"OPEN", "CLOSE"} => status = "OPENED" /\ status' = "OPENED"
      /\ status # "UNKNOWN"
  BY <1>1, <1>2, <1>3, OpTable DEF InSent
<1>5. Quiet'
  BY <1>1, <1>2, <1>3, <1>4 DEF Quiet, OpTypes
<1>6. InCall'
  BY <1>1 DEF InCall
<1>7. InSent'
  <2> SUFFICES ASSUME NEW q \in sent, q # r
               PROVE  /\ op[q] \in work /\ HasBits(op[q])
                      /\ IF op[q] = "OPEN" THEN status' = "INIT" /\ Live = {q}
                         ELSE /\ status' = "OPENED"
                              /\ op[q] = "CLOSE" => sent \ {r} = {q} /\ held' = {}
    BY <1>2, <1>3 DEF InSent, HasBits
  <2>1. /\ op[q] \in work /\ HasBits(op[q])
        /\ op[q] = "OPEN" => Live = {q}
        /\ op[q] = "CLOSE" => sent = {q}
    BY <1>3 DEF InSent
  <2>2. op[q] # "OPEN" /\ op[q] # "CLOSE" /\ op[r] \notin {"OPEN", "CLOSE"}
    BY <1>1, <1>3, <1>4, <2>1
  <2> QED
    BY <1>4, <2>1, <2>2
<1>8. InHeld'
  <2> SUFFICES ASSUME NEW q \in held, q # r PROVE status' = Op[op[q]].during
    BY <1>2 DEF InHeld
  <2>1. op[r] \notin {"OPEN", "CLOSE"}
    BY <1>3, <1>4
  <2> QED
    BY <1>3, <1>4, <2>1 DEF InHeld
<1> QED
  BY <1>5, <1>6, <1>7, <1>8

\* Whoever calls done(), an open makes the session OPENED, a close CLOSED.
LEMMA OrderlyDone ==
  ASSUME Ownership, Session, OrderlySession, NEW r \in Req, WorkDone(r),
         up, UNCHANGED <<up, client>>, calling = "none"
  PROVE  OrderlySession'
<1> SUFFICES ASSUME orderly PROVE (Quiet /\ InCall /\ InSent /\ InHeld)'
  BY DEF OrderlySession, client
<1>1. /\ r \in held /\ held' = held \ {r} /\ sent' = sent
      /\ op[r] \in OpTypes /\ op' = op
      /\ status = Op[op[r]].expects /\ status' = Op[op[r]].becomes
      /\ error' = "NONE" /\ error = "NONE"
      /\ UNCHANGED <<loop, work, bitfield>>
  BY OrderlyCompletion
<1>2. /\ Quiet /\ InSent /\ InHeld
      /\ sent \subseteq Live /\ held \subseteq Live
      /\ Live' = Live
  BY <1>1 DEF OrderlySession, Ownership, NoDanglingRequest, Live
<1>3. /\ op[r] = "OPEN" => status = "OPENING" /\ status' = "OPENED"
      /\ op[r] = "CLOSE" => status = "CLOSING" /\ status' = "CLOSED"
      /\ op[r] \notin {"OPEN", "CLOSE"} => status = "OPENED" /\ status' = "OPENED"
  BY <1>1, OpTable
<1>4. Quiet'
  BY <1>1, <1>2, <1>3 DEF Quiet
<1>5. InCall'
  BY DEF InCall, client
<1>6. InSent'
  <2>1. ASSUME NEW q \in sent PROVE status \in {"INIT", "OPENED"}
    BY <1>2 DEF InSent
  <2>2. sent # {} => status' = "OPENED" /\ status = "OPENED"
    BY <1>3, <2>1
  <2> QED
    BY <1>1, <1>2, <2>2 DEF InSent, HasBits
<1>7. InHeld'
  <2> SUFFICES ASSUME NEW q \in held, q # r PROVE status' = Op[op[q]].during
    BY <1>1 DEF InHeld
  <2>1. status = Op[op[q]].during /\ op[q] \in OpTypes
    BY <1>2, LiveOp DEF InHeld, Ownership
  <2>2. op[q] = op[r] => op[r] \notin {"OPEN", "CLOSE"}
    BY <1>1, RafAssumption DEF Session, OneStarter
  <2>3. op[r] \notin {"OPEN", "CLOSE"}
    BY <1>3, <2>1, <2>2, OpTable
  <2> QED
    BY <1>3, <2>1, <2>3
<1> QED
  BY <1>4, <1>5, <1>6, <1>7

LEMMA OrderlyUvClose ==
  ASSUME Ownership, OrderlySession, NEW r \in Req, RafUvClose(r)
  PROVE  OrderlySession'
<1> SUFFICES ASSUME orderly PROVE (Quiet /\ InCall /\ InSent /\ InHeld)'
  BY DEF OrderlySession, RafUvClose, client
<1>1. /\ r \in closing /\ op' = [op EXCEPT ![r] = "UNKNOWN"]
      /\ calling' = "none" /\ UNCHANGED <<session, sent, held, up>>
  BY DEF RafUvClose, OnUvClose, Idle, client
<1>2. /\ Quiet /\ InSent /\ InHeld
      /\ sent \subseteq Live /\ held \subseteq Live /\ r \in Live
      /\ r \notin sent /\ r \notin held /\ TypeOK
  BY <1>1 DEF OrderlySession, Ownership, NoDanglingRequest, OneOwner
<1>3. \A q \in Req \ {r} : op'[q] = op[q]
  BY <1>1, <1>2 DEF TypeOK
<1>4. \A q \in sent \union held : q \in Req /\ q # r /\ op'[q] = op[q]
  BY <1>2, <1>3 DEF TypeOK
<1>5. Quiet'
  BY <1>1, <1>2 DEF Quiet, session
<1>6. InCall'
  BY <1>1 DEF InCall
<1>7. InSent'
  BY <1>1, <1>2, <1>4 DEF InSent, session, HasBits
<1>8. InHeld'
  BY <1>1, <1>2, <1>4 DEF InHeld, session
<1> QED
  BY <1>5, <1>6, <1>7, <1>8

LEMMA OrderlyReturns ==
  ASSUME Ownership, OrderlySession, calling = "none", UNCHANGED <<up, client>>,
         UNCHANGED <<session, op, sent, held>>
  PROVE  OrderlySession'
BY DEF OrderlySession, Quiet, InCall, InSent, InHeld, session, client, Live, HasBits

\* No worker runs between the halves of a call.
LEMMA OrderlyWorker ==
  ASSUME Ownership, Session, Owned, OrderlySession, NEW r \in Req, Worker(r)
  PROVE  OrderlySession'
<1>1. orderly /\ stack # <<>> /\ Top = [kind |-> "work", req |-> r] => calling = "none"
  BY DEF OrderlySession, InCall
<1>2. CASE ~orderly
  <2>1. UNCHANGED client
    BY DEF Worker, WorkPanics, WorkSubmits, WorkEnds, WorkEndStalls, WorkEndReturns, Panic,
           rafvars
  <2> QED
    BY <1>2, <2>1 DEF OrderlySession, client
<1>3. ASSUME orderly, NEW t \in Types, WorkPanics(r, t) PROVE OrderlySession'
  BY <1>3, OrderlyOutside DEF WorkPanics, Panic, handle
<1>4. ASSUME orderly, NEW t \in Types, WorkSubmits(r, t) PROVE OrderlySession'
  BY <1>1, <1>4, OrderlyReturns DEF WorkSubmits, Starts, ReturnWork, requests
<1>5. CASE orderly /\ WorkEnds(r)
  BY <1>1, <1>5, DoneIsOwed, OrderlyDone DEF WorkEnds, Starts
<1>6. CASE orderly /\ WorkEndStalls(r)
  BY <1>1, <1>6, OrderlyReturns DEF WorkEndStalls, Starts, ReturnWork, requests
<1>7. CASE WorkEndReturns(r)
  BY <1>7, OrderlyReturns DEF WorkEndReturns, Idle, ReturnWork, requests, rafvars
<1> QED
  BY <1>2, <1>3, <1>4, <1>5, <1>6, <1>7 DEF Worker

LEMMA OrderlyCallback ==
  ASSUME Ownership, Session, Owned, OrderlySession, NEW r \in Req, Callback(r)
  PROVE  OrderlySession'
<1>1. up /\ calling = "none"
  BY DEF Callback, OnFsOpen, OnFsPlain, Resume, OnFsRead, OnFsWrite, OnFsStat, OnFsFailure,
         Returned, Idle
<1>2. CASE FsDone(r)
  BY <1>1, <1>2, DoneIsOwed, OrderlyDone DEF FsDone
<1>3. CASE UNCHANGED <<vars, client>>
  BY <1>1, <1>3, OrderlyOutside
<1> QED
  BY <1>2, <1>3 DEF Callback, OnFsOpen, OnFsPlain, Resume, OnFsRead, OnFsWrite, OnFsStat,
                    OnFsFailure, FsFails, Panic

LEMMA OrderlySessionStep ==
  Ownership /\ Session /\ Owned /\ OrderlySession /\ [RNext]_rvars => OrderlySession'
<1> SUFFICES ASSUME Ownership, Session, Owned, OrderlySession, [RNext]_rvars
             PROVE  OrderlySession'
  OBVIOUS
<1>1. ASSUME NEW t \in Types, RafRefused(t) PROVE OrderlySession'
  <2>1. /\ UNCHANGED <<status, loop, work, bitfield, requests, stack, client, handle>>
        /\ up' = FALSE
    BY <1>1 DEF RafRefused, CallBadState, CallNoLoop, CallInitFails, AraThrow, Panic
  <2> QED
    BY <2>1 DEF requests, client, handle, OrderlySession, Quiet, InCall, InSent, InHeld, InOrder,
                Live, HasBits, Top
<1>2. CASE RafReturn
  BY <1>2, OrderlyReturns DEF RafReturn, Idle, ReturnCallback, ReqEnd
<1>3. ASSUME NEW r \in Req, Pool(r) PROVE OrderlySession'
  BY <1>3, PoolServes, OrderlyOutside DEF handle
<1>4. CASE UNCHANGED rvars
  BY <1>4, OrderlyOutside DEF rvars, rafvars, handle
<1> QED
  BY <1>1, <1>2, <1>3, <1>4, OrderlyRafInit, OrderlySet, OrderlyAccepted, OrderlyDeliver,
     OrderlyUvClose, OrderlyWorker, OrderlyCallback DEF RNext, Client

LEMMA OrderlySessionInvariant == RSpec => []OrderlySession
BY FileOwnership, FileSession, OwnedInvariant, OrderlyInit, OrderlySessionStep, PTL DEF RSpec

-----------------------------------------------------------------------------
(***************************************************************************)
(* The descriptor and the modes of the file.                               *)
(***************************************************************************)
LEMMA HandleInit == RInit => OrderlyHandle
BY DEF RInit, Init, OrderlyHandle, HandleOf, Opened, Live

\* A step that leaves the file and what the pool did for q alone.
LEMMA HandleOfKept ==
  ASSUME NEW q \in Req, HandleOf(q),
         \/ op'[q] = op[q] /\ stage'[q] = stage[q] /\ result'[q] = result[q]
         \/ op'[q] = op[q] /\ stage'[q] \notin {"served", "statting", "statted"}
         \/ op'[q] = "UNKNOWN" /\ stage'[q] = "idle",
         status \in Opened => status' \in Opened,
         UNCHANGED <<descriptor, fd, readable, writable>>
  PROVE  HandleOf(q)'
BY DEF HandleOf, Live

LEMMA HandleKept ==
  ASSUME OrderlyHandle, orderly' => orderly,
         UNCHANGED <<status, descriptor, fd, readable, writable>>,
         \A q \in Req :
           \/ op'[q] = op[q] /\ stage'[q] = stage[q] /\ result'[q] = result[q]
           \/ op'[q] = op[q] /\ stage'[q] \notin {"served", "statting", "statted"}
           \/ op'[q] = "UNKNOWN" /\ stage'[q] = "idle"
  PROVE  OrderlyHandle'
<1> SUFFICES ASSUME orderly
             PROVE  /\ status \in Opened => fd
                    /\ status = "OPENED" => descriptor
                    /\ \A q \in Req : HandleOf(q)'
  BY DEF OrderlyHandle
<1>1. \A q \in Req : HandleOf(q)'
  BY HandleOfKept DEF OrderlyHandle
<1> QED
  BY <1>1 DEF OrderlyHandle

LEMMA HandleAccepted ==
  ASSUME Ownership, RTypeOK, OrderlySession, OrderlyHandle, NEW t \in Types, NEW r \in Req, NEW o,
         RafAccepted(t, r, o)
  PROVE  OrderlyHandle'
<1> SUFFICES ASSUME orderly PROVE OrderlyHandle'
  BY DEF OrderlyHandle, RafAccepted
<1>1. /\ op' = [op EXCEPT ![r] = t] /\ stage' = [stage EXCEPT ![r] = "asked"]
      /\ result' = result /\ calling = t
      /\ UNCHANGED <<status, descriptor, fd, readable, writable, orderly>>
  BY DEF RafAccepted, CallAccepted, session, handle, file
<1>2. TypeOK /\ InOrder(t)
  BY <1>1, RafAssumption DEF Ownership, OrderlySession, InCall, OpTypes
<1>3. ASSUME NEW q \in Req PROVE HandleOf(q)'
  <2>1. CASE q # r
    BY <1>1, <1>2, <2>1, HandleOfKept DEF TypeOK, RTypeOK, OrderlyHandle
  <2>2. CASE q = r
    BY <1>1, <1>2, <2>2 DEF TypeOK, RTypeOK, HandleOf, InOrder, Opened
  <2> QED
    BY <2>1, <2>2
<1> QED
  BY <1>1, <1>3 DEF OrderlyHandle

LEMMA HandleDeliver ==
  ASSUME Ownership, OrderlySession, OrderlyHandle, NEW r \in Req, RafDeliver(r)
  PROVE  OrderlyHandle'
<1> SUFFICES ASSUME orderly PROVE OrderlyHandle'
  BY DEF OrderlyHandle, RafDeliver, rafvars, client
<1>1. /\ BeginWork(r) /\ r \in sent /\ op[r] \in OpTypes /\ op' = op
      /\ status' = Op[op[r]].during
      /\ UNCHANGED <<stage, result, descriptor, fd, readable, writable, orderly>>
  BY OrderlyDelivery DEF RafDeliver, rafvars, client, Idle, BeginWork, transfers, handle, file
<1>2. CASE op[r] = "OPEN"
  <2>1. Live = {r} /\ status' = "OPENING"
    BY <1>1, <1>2, OpTable DEF OrderlySession, InSent
  <2> QED
    BY <1>1, <1>2, <2>1 DEF OrderlyHandle, HandleOf, Opened, Live
<1>3. CASE op[r] # "OPEN"
  <2>1. status = "OPENED" /\ status' \in {"OPENED", "CLOSING"}
    BY <1>1, <1>3, OpTable DEF OrderlySession, InSent
  <2>2. \A q \in Req : HandleOf(q)'
    BY <1>1, <2>1, HandleOfKept DEF OrderlyHandle, Opened
  <2> QED
    BY <1>1, <2>1, <2>2 DEF OrderlyHandle, Opened
<1> QED
  BY <1>2, <1>3

\* The only done() of an OPEN comes with the answer of its fstat().
LEMMA HandleDone ==
  ASSUME Ownership, RTypeOK, OrderlySession, OrderlyHandle, NEW r \in Req, up, WorkDone(r),
         stage' = [stage EXCEPT ![r] = "done"],
         op[r] = "OPEN" => descriptor /\ fd,
         UNCHANGED <<client, descriptor, fd, readable, writable, result>>
  PROVE  OrderlyHandle'
<1> SUFFICES ASSUME orderly PROVE OrderlyHandle'
  BY DEF OrderlyHandle, client
<1>1. /\ op[r] \in OpTypes /\ op' = op
      /\ status = Op[op[r]].expects /\ status' = Op[op[r]].becomes
  BY OrderlyCompletion
<1>2. /\ op[r] = "OPEN" => status = "OPENING" /\ status' = "OPENED"
      /\ op[r] = "CLOSE" => status = "CLOSING" /\ status' = "CLOSED"
      /\ op[r] \notin {"OPEN", "CLOSE"} => status = "OPENED" /\ status' = "OPENED"
  BY <1>1, OpTable
<1>3. ASSUME NEW q \in Req PROVE HandleOf(q)'
  <2>1. stage'[q] = IF q = r THEN "done" ELSE stage[q]
    BY DEF RTypeOK
  <2>2. status \in Opened => status' \in Opened
    BY <1>2 DEF Opened
  <2> QED
    BY <1>1, <2>1, <2>2, HandleOfKept DEF OrderlyHandle
<1> QED
  BY <1>2, <1>3 DEF OrderlyHandle, Opened

LEMMA HandleWorker ==
  ASSUME Ownership, RTypeOK, Owned, OrderlySession, OrderlyHandle, NEW r \in Req, Worker(r)
  PROVE  OrderlyHandle'
<1>1. ASSUME NEW t \in Types, WorkPanics(r, t) PROVE OrderlyHandle'
  BY <1>1, HandleKept DEF WorkPanics, Panic, vars, client, handle, file, transfers
<1>2. ASSUME ReturnWork, NEW s \in {"queued", "stalled"}, stage' = [stage EXCEPT ![r] = s],
             UNCHANGED <<client, handle, file, result>>
      PROVE  OrderlyHandle'
  BY <1>2, HandleKept DEF ReturnWork, session, requests, client, handle, file, RTypeOK
<1>3. CASE WorkEnds(r)
  BY <1>3, DoneIsOwed, HandleDone DEF WorkEnds, Starts, handle, file
<1>4. CASE WorkEndReturns(r)
  BY <1>4, HandleKept DEF WorkEndReturns, ReturnWork, session, requests, rafvars, client, handle,
                          file, transfers
<1> QED
  BY <1>1, <1>2, <1>3, <1>4 DEF Worker, WorkSubmits, WorkEndStalls

\* What is open is opened once, and closed when nobody transfers.
LEMMA HandlePool ==
  ASSUME Ownership, Session, RTypeOK, Owned, OrderlySession, OrderlyHandle, NEW r \in Req, Pool(r)
  PROVE  OrderlyHandle'
<1> SUFFICES ASSUME orderly PROVE OrderlyHandle'
  BY PoolServes DEF OrderlyHandle, client
<1>1. /\ UNCHANGED <<status, op, fd, readable, writable, orderly>>
      /\ \/ stage[r] = "queued" /\ stage'[r] = "served"
         \/ stage[r] = "statting" /\ stage'[r] = "statted"
      /\ \A q \in Req \ {r} : stage'[q] = stage[q] /\ result'[q] = result[q]
  BY PoolServes, PoolResult DEF vars, client, handle, RTypeOK
<1>2. \A q \in Req : InFlight(q) => q \in held /\ q \in Live /\ status = Op[op[q]].during
  BY DEF Owned, OrderlySession, InHeld, Ownership, NoDanglingRequest
<1>3. \A q \in Req : InFlight(q) => op[q] \in OpTypes
  BY <1>2, LiveOp DEF Ownership
<1>4. InFlight(r)
  BY <1>1 DEF InFlight
<1>5. \A q \in Req \ {r} : op[r] \in {"OPEN", "CLOSE"} => ~(InFlight(q) /\ op[q] = "OPEN")
  <2> SUFFICES ASSUME NEW q \in Req \ {r}, op[r] \in {"OPEN", "CLOSE"}, InFlight(q), op[q] = "OPEN"
               PROVE  FALSE
    OBVIOUS
  <2>1. status = "OPENING"
    BY <1>2, OpTable DEF OpTypes
  <2>2. op[r] = "OPEN"
    BY <1>2, <1>4, <2>1, OpTable DEF OpTypes
  <2> QED
    BY <1>2, <1>4, <2>2, RafAssumption DEF Session, OneStarter
<1>6. /\ op[r] = "OPEN" => status = "OPENING"
      /\ op[r] = "CLOSE" => status = "CLOSING"
  BY <1>2, <1>4, OpTable DEF OpTypes
<1>7. CASE descriptor' = descriptor /\ ~(op[r] = "OPEN" /\ stage[r] = "queued")
  <2>1. ASSUME NEW q \in Req PROVE HandleOf(q)'
    BY <1>1, <1>7 DEF OrderlyHandle, HandleOf, Live
  <2> QED
    BY <1>1, <1>7, <2>1 DEF OrderlyHandle
<1>8. CASE ServeOpen(r)
  <2>1. op[r] = "OPEN" /\ stage[r] = "queued" /\ (result'[r] # Failed => descriptor')
    BY <1>8 DEF ServeOpen, Serve, RTypeOK
  <2>2. ASSUME NEW q \in Req PROVE HandleOf(q)'
    BY <1>1, <1>5, <2>1 DEF OrderlyHandle, HandleOf, Live, InFlight
  <2> QED
    BY <1>1, <1>6, <2>1, <2>2 DEF OrderlyHandle, Opened
<1>9. CASE ServeClose(r)
  <2>1. op[r] = "CLOSE" /\ stage[r] = "queued"
    BY <1>9 DEF ServeClose, Serve
  <2>2. ASSUME NEW q \in Req PROVE HandleOf(q)'
    BY <1>1, <1>5, <2>1 DEF OrderlyHandle, HandleOf, Live, InFlight
  <2> QED
    BY <1>1, <1>6, <2>1, <2>2 DEF OrderlyHandle
<1> QED
  BY <1>7, <1>8, <1>9 DEF Pool, ServeUnlink, ServeRead, ServeWrite, ServeStat, Serve, file

LEMMA HandleCallback ==
  ASSUME Ownership, RTypeOK, Owned, OrderlySession, OrderlyHandle, NEW r \in Req, Callback(r)
  PROVE  OrderlyHandle'
<1> USE ConstantFacts
<1>1. up /\ result[r] \in Nat \union {Failed}
  BY DEF Callback, OnFsOpen, OnFsPlain, Resume, OnFsRead, OnFsWrite, OnFsStat, OnFsFailure,
         Returned, Idle, RTypeOK
<1>2. ASSUME FsDone(r), UNCHANGED <<fd, readable, writable>>,
             op[r] = "OPEN" => stage[r] = "statted"
      PROVE  OrderlyHandle'
  <2>1. orderly => (op[r] = "OPEN" => descriptor /\ fd)
    BY <1>2 DEF OrderlyHandle, HandleOf
  <2>2. CASE ~orderly
    BY <1>2, <2>2 DEF FsDone, client, OrderlyHandle
  <2>3. CASE orderly
    BY <1>1, <1>2, <2>1, <2>3, DoneIsOwed, HandleDone DEF FsDone, file
  <2> QED
    BY <2>2, <2>3
<1>3. ASSUME NEW s \in {"queued", "statting"}, stage' = [stage EXCEPT ![r] = s],
             op[r] \in {"READ", "WRITE"}, s = "statting" => op[r] = "WRITE",
             UNCHANGED <<vars, client, handle, file, result>>
      PROVE  OrderlyHandle'
  <2>1. ASSUME orderly, NEW q \in Req PROVE HandleOf(q)'
    <3>1. stage'[q] = IF q = r THEN s ELSE stage[q]
      BY <1>3 DEF RTypeOK
    <3> QED
      BY <1>3, <2>1, <3>1 DEF vars, client, handle, file, OrderlyHandle, HandleOf, Live
  <2> QED
    BY <1>3, <2>1 DEF vars, client, handle, file, OrderlyHandle
<1>4. CASE OnFsOpen(r)
  <2> SUFFICES ASSUME orderly PROVE OrderlyHandle'
    BY <1>4 DEF OnFsOpen, client, OrderlyHandle
  <2>1. /\ op[r] = "OPEN" /\ stage[r] = "served" /\ result[r] # Failed
        /\ fd' /\ stage' = [stage EXCEPT ![r] = "statting"]
        /\ UNCHANGED <<vars, orderly, descriptor, result>>
    BY <1>1, <1>4 DEF OnFsOpen, Returned, client, file
  <2>2. status = "OPENING" /\ descriptor
    BY <2>1, OpTable DEF Owned, InFlight, OrderlySession, InHeld, OrderlyHandle, HandleOf, OpTypes
  <2>3. ASSUME NEW q \in Req PROVE HandleOf(q)'
    <3>1. stage'[q] = IF q = r THEN "statting" ELSE stage[q]
      BY <2>1 DEF RTypeOK
    <3>2. q \in Live => op[q] = "OPEN"
      BY <2>2 DEF OrderlyHandle, HandleOf, Opened
    <3> QED
      BY <2>1, <2>2, <3>1, <3>2 DEF OrderlyHandle, HandleOf, vars, Live
  <2> QED
    BY <2>1, <2>2, <2>3 DEF OrderlyHandle, Opened, vars
<1>5. ASSUME NEW t, OnFsPlain(r, t) PROVE OrderlyHandle'
  BY <1>2, <1>5 DEF OnFsPlain, Returned, handle
<1>6. CASE OnFsRead(r)
  BY <1>2, <1>6 DEF OnFsRead, Returned, handle
<1>7. CASE OnFsStat(r)
  BY <1>2, <1>7 DEF OnFsStat, Returned
<1>8. ASSUME NEW t \in {"READ", "WRITE"}, Resume(r, t) PROVE OrderlyHandle'
  BY <1>3, <1>8 DEF Resume, Returned
<1>9. CASE OnFsWrite(r)
  BY <1>3, <1>9 DEF OnFsWrite, Returned
<1>10. CASE OnFsFailure(r)
  BY <1>10, HandleKept DEF OnFsFailure, FsFails, Panic, vars, client, handle, file, transfers
<1> QED
  BY <1>4, <1>5, <1>6, <1>7, <1>8, <1>9, <1>10 DEF Callback

LEMMA HandleStep ==
  /\ Ownership /\ Session /\ RTypeOK /\ Owned /\ OrderlySession /\ OrderlyHandle
  /\ [RNext]_rvars
  => OrderlyHandle'
<1> SUFFICES ASSUME Ownership, Session, RTypeOK, Owned, OrderlySession, OrderlyHandle,
                    [RNext]_rvars
             PROVE  OrderlyHandle'
  OBVIOUS
<1>1. CASE RafInit
  <2>1. Live = {} /\ op' = op /\ stage' = stage /\ status' = "INIT"
    BY <1>1, RafAssumption DEF RafInit, AraInit, requests, transfers
  <2>2. \A q \in Req : op[q] = "UNKNOWN"
    BY <2>1 DEF Live
  <2>3. /\ orderly' => orderly
        /\ descriptor' = descriptor /\ result' = result
    BY <1>1 DEF RafInit, client, file, transfers
  <2> QED
    BY <2>1, <2>2, <2>3 DEF OrderlyHandle, HandleOf, Opened, Live
<1>2. ASSUME NEW t \in Types, RafSet(t) PROVE OrderlyHandle'
  BY <1>2, HandleKept DEF RafSet, AraSet, requests, handle, file, transfers
<1>3. ASSUME NEW t \in Types, RafRefused(t) PROVE OrderlyHandle'
  BY <1>3, HandleKept DEF RafRefused, CallBadState, CallNoLoop, CallInitFails, AraThrow, Panic,
                          requests, client, handle, file, transfers
<1>4. CASE RafReturn
  BY <1>4, HandleKept DEF RafReturn, ReturnCallback, ReqEnd, session, client, handle, file,
                          Forget, RTypeOK
<1>5. ASSUME NEW r \in Req, RafUvClose(r) PROVE OrderlyHandle'
  <2>1. /\ \A q \in Req : op'[q] = IF q = r THEN "UNKNOWN" ELSE op[q]
        /\ \A q \in Req : stage'[q] = IF q = r THEN "idle" ELSE stage[q]
        /\ \A q \in Req \ {r} : result'[q] = result[q]
    BY <1>5 DEF RafUvClose, OnUvClose, Forget, RTypeOK, Ownership, TypeOK
  <2> QED
    BY <1>5, <2>1, HandleKept DEF RafUvClose, OnUvClose, session, client, handle, file
<1>6. CASE UNCHANGED rvars
  BY <1>6, HandleKept DEF rvars, vars, rafvars, client, handle, file, transfers
<1> QED
  BY <1>1, <1>2, <1>3, <1>4, <1>5, <1>6, HandleAccepted, HandleDeliver, HandleWorker, HandlePool,
     HandleCallback DEF RNext, Client

LEMMA HandleInvariant == RSpec => []OrderlyHandle
BY FileOwnership, FileSession, FileTypes, OwnedInvariant, OrderlySessionInvariant,
   HandleInit, HandleStep, PTL DEF RSpec

-----------------------------------------------------------------------------
(***************************************************************************)
(* The answers of the pool.                                                *)
(***************************************************************************)
LEMMA AnswersInit == RInit => OrderlyAnswers
BY DEF RInit, OrderlyAnswers, Explained

\* A step that leaves the answer of q alone.
LEMMA ExplainedKept ==
  ASSUME NEW q \in Req, Explained(q),
         \/ /\ op'[q] = op[q] /\ stage'[q] = stage[q] /\ result'[q] = result[q]
            /\ view'[q] = view[q] /\ (q \in region' => q \in region)
         \/ stage'[q] \notin {"served", "statted"}
  PROVE  Explained(q)'
BY DEF Explained, Left

\* A read of an open file fails or ends too early only if it was made to.
LEMMA ReadExplained ==
  ASSUME RTypeOK, NoWrap, Progressing, InFile, descriptor, NEW r \in Req, ServeRead(r)
  PROVE  Explained(r)'
<1> USE ConstantFacts
<1> DEFINE there == IF view[r].at < fileSize THEN fileSize - view[r].at ELSE 0
<1>1. /\ view[r] \in [base : Nat, left : Nat, at : Nat]
      /\ opts[r] \in [offset : Nat, length : Nat, flags : Flags]
      /\ fileSize \in Nat /\ Least(view[r].left, there) \in Nat
  BY DEF RTypeOK, Least
<1>2. PICK n \in Count(r, "READ", Least(view[r].left, there)) : Serve(r, "READ", n)
  BY DEF ServeRead
<1>3. /\ op[r] = "READ" /\ stage[r] = "queued"
      /\ op' = op /\ view' = view /\ region' = region
      /\ stage'[r] = "served" /\ result'[r] = n
  BY <1>2 DEF Serve, vars, RTypeOK
<1>4. view[r].at + view[r].left <= fileSize
  <2>1. /\ view[r].base + view[r].left = opts[r].length
        /\ view[r].at = opts[r].offset + view[r].base
    BY <1>3 DEF Progressing, Progress, InFlight
  <2>2. opts[r].offset + opts[r].length <= fileSize
    BY <1>3 DEF InFile, Within
  <2> QED
    BY <1>1, <2>1, <2>2
<1>5. n = Failed => "READ" \in Faults \/ (view[r].left > 0 /\ r \notin region)
  BY <1>1, <1>2 DEF Count
<1>6. n = 0 => "READ" \in Faults \/ view[r].left = 0
  <2>1. Least(view[r].left, there) = 0 => view[r].left = 0
    BY <1>1, <1>4 DEF Least
  <2> QED
    BY <1>1, <1>2, <2>1 DEF Count
<1>7. n \in {0, Failed} => Left(r)' = view[r].left
  BY <1>3 DEF Left
<1> QED
  BY <1>1, <1>3, <1>5, <1>6, <1>7 DEF Explained

LEMMA AnswersPool ==
  ASSUME Ownership, RTypeOK, Owned, NoWrap, Progressing, InFile, OrderlySession, OrderlyHandle,
         orderly, \A q \in Req : Explained(q), NEW r \in Req, Pool(r)
  PROVE  \A q \in Req : Explained(q)'
<1> SUFFICES ASSUME NEW q \in Req PROVE Explained(q)'
  OBVIOUS
<1>1. /\ UNCHANGED <<op, view, region>>
      /\ \/ stage[r] = "queued" /\ stage'[r] = "served"
         \/ stage[r] = "statting" /\ stage'[r] = "statted"
      /\ \A p \in Req \ {r} : stage'[p] = stage[p] /\ result'[p] = result[p]
  BY PoolServes, PoolResult DEF vars, RTypeOK
<1>2. CASE q # r
  BY <1>1, <1>2, ExplainedKept
<1>3. status = Op[op[r]].during
  BY <1>1 DEF InFlight, Owned, OrderlySession, InHeld
<1>4. ASSUME NEW t, NEW n \in Outcome(t), Serve(r, t, n), t \in {"OPEN", "CLOSE", "UNLINK"}
      PROVE  Explained(r)'
  BY <1>4, ConstantFacts DEF Serve, Outcome, Explained, vars, RTypeOK
<1>5. CASE ServeRead(r)
  <2>1. op[r] = "READ"
    BY <1>5 DEF ServeRead, Serve
  <2>2. status = "OPENED"
    BY <1>3, <2>1, OpTable DEF OpTypes
  <2> QED
    BY <1>2, <1>5, <2>2, ReadExplained DEF OrderlyHandle
<1>6. CASE ServeWrite(r)
  BY <1>1, <1>2, <1>6 DEF ServeWrite, Serve, Explained
<1>7. CASE ServeStat(r)
  <2>1. stage[r] = "statting" /\ op[r] \in {"OPEN", "WRITE"}
    BY <1>7 DEF ServeStat, OrderlyHandle, HandleOf
  <2>2. op[r] = "WRITE" => status = "OPENED"
    BY <1>3, OpTable DEF OpTypes
  <2>3. descriptor
    BY <2>1, <2>2 DEF OrderlyHandle, HandleOf
  <2>4. /\ result'[r] = Failed => "STAT" \in Faults
        /\ stage'[r] = "statted"
    BY <1>7, <2>3, ConstantFacts DEF ServeStat, RTypeOK
  <2> QED
    BY <1>2, <2>4 DEF Explained
<1> QED
  BY <1>2, <1>4, <1>5, <1>6, <1>7 DEF Pool, ServeOpen, ServeClose, ServeUnlink

LEMMA AnswersStep ==
  ASSUME Ownership, RTypeOK, Owned, NoWrap, Progressing, InFile, OrderlySession, OrderlyHandle,
         orderly, \A q \in Req : Explained(q), RNext
  PROVE  \A q \in Req : Explained(q)'
<1> SUFFICES ASSUME NEW q \in Req PROVE Explained(q)'
  OBVIOUS
<1>1. CASE op' = op /\ UNCHANGED transfers
  BY <1>1, ExplainedKept DEF transfers
<1>2. CASE RafInit
  <2>1. op' = op /\ UNCHANGED transfers
    BY <1>2 DEF RafInit, AraInit, requests
  <2> QED
    BY <1>1, <2>1
<1>3. ASSUME NEW t \in Types, RafSet(t) PROVE Explained(q)'
  BY <1>1, <1>3 DEF RafSet, AraSet, requests
<1>4. ASSUME NEW t \in Types, NEW r \in Req, NEW o, RafAccepted(t, r, o) PROVE Explained(q)'
  <2>1. /\ op' = [op EXCEPT ![r] = t] /\ stage' = [stage EXCEPT ![r] = "asked"]
        /\ view' = view /\ result' = result /\ region' \subseteq region \union {r}
    BY <1>4 DEF RafAccepted, CallAccepted
  <2> QED
    BY <2>1, ExplainedKept DEF RTypeOK, Ownership, TypeOK
<1>5. ASSUME NEW t \in Types, RafRefused(t) PROVE Explained(q)'
  BY <1>1, <1>5 DEF RafRefused, CallBadState, CallNoLoop, CallInitFails, AraThrow, Panic, requests
<1>6. CASE RafReturn
  <2>1. /\ op' = op /\ region' = region
        /\ \/ stage'[q] = "idle"
           \/ stage'[q] = stage[q] /\ result'[q] = result[q] /\ view'[q] = view[q]
    BY <1>6 DEF RafReturn, ReturnCallback, ReqEnd, Forget, RTypeOK
  <2> QED
    BY <2>1, ExplainedKept
<1>7. ASSUME NEW r \in Req, RafDeliver(r) PROVE Explained(q)'
  BY <1>1, <1>7, DeliverFrames DEF RafDeliver, rafvars
<1>8. ASSUME NEW r \in Req, RafUvClose(r) PROVE Explained(q)'
  <2>1. /\ region' \subseteq region
        /\ \/ stage'[q] = "idle"
           \/ /\ op'[q] = op[q] /\ stage'[q] = stage[q]
              /\ result'[q] = result[q] /\ view'[q] = view[q]
    BY <1>8 DEF RafUvClose, OnUvClose, Forget, RTypeOK, Ownership, TypeOK
  <2> QED
    BY <2>1, ExplainedKept
<1>9. ASSUME NEW r \in Req, NEW s \in {"queued", "statting", "done", "stalled"}, op' = op,
             stage' = [stage EXCEPT ![r] = s],
             \A p \in Req \ {r} : view'[p] = view[p],
             UNCHANGED <<result, region>>
      PROVE  Explained(q)'
  BY <1>9, ExplainedKept DEF RTypeOK
<1>10. ASSUME NEW r \in Req, Done(r) PROVE op' = op
  BY <1>10, DoneFrames DEF Done, Ownership
<1>11. ASSUME NEW r \in Req, Worker(r) PROVE Explained(q)'
  <2>1. ASSUME NEW t \in Types, WorkSubmits(r, t) PROVE Explained(q)'
    BY <1>9, <2>1 DEF WorkSubmits, ReturnWork, requests, RTypeOK
  <2>2. CASE WorkEnds(r)
    BY <1>9, <1>10, <2>2 DEF WorkEnds
  <2>3. CASE WorkEndStalls(r)
    BY <1>9, <2>3 DEF WorkEndStalls, ReturnWork, requests
  <2> QED
    BY <1>1, <1>11, <2>1, <2>2, <2>3
       DEF Worker, WorkPanics, WorkEndReturns, ReturnWork, Panic, requests, rafvars, vars
<1>12. ASSUME NEW r \in Req, Callback(r) PROVE Explained(q)'
  <2>1. ASSUME FsDone(r) PROVE Explained(q)'
    BY <1>9, <1>10, <2>1 DEF FsDone
  <2>2. ASSUME NEW t, Resume(r, t) PROVE Explained(q)'
    BY <1>9, <2>2 DEF Resume, vars, RTypeOK
  <2>3. CASE OnFsOpen(r) \/ OnFsWrite(r)
    BY <1>9, <2>3 DEF OnFsOpen, OnFsWrite, vars
  <2>4. CASE OnFsFailure(r)
    BY <1>1, <2>4 DEF OnFsFailure, FsFails, Panic, vars
  <2> QED
    BY <1>12, <2>1, <2>2, <2>3, <2>4 DEF Callback, OnFsPlain, OnFsRead, OnFsStat
<1> QED
  BY <1>2, <1>3, <1>4, <1>5, <1>6, <1>7, <1>8, <1>11, <1>12, AnswersPool DEF RNext, Client

-----------------------------------------------------------------------------
(***************************************************************************)
(* Panics.                                                                 *)
(***************************************************************************)
\* A worker of an orderly client finds its file open, and open for its work.
LEMMA WorkersUse ==
  ASSUME Ownership, OrderlyHandle, orderly, NEW r \in Req, NEW t \in Types, Starts(r, t)
  PROVE  Usable(t)
<1>1. op[r] = t /\ t # "UNKNOWN"
  BY RafAssumption DEF Starts, OpTypes
<1> QED
  BY <1>1 DEF OrderlyHandle, HandleOf, Usable, Live

\* The library refuses a call of an orderly client for uv_async_init() only.
LEMMA OnlyAsyncRefuses ==
  ASSUME OrderlySession, orderly, NEW t \in Types, RafRefused(t)
  PROVE  "ASYNC" \in Faults /\ error' = "UVASYNCSEND"
<1>1. t \in OpTypes /\ calling = t /\ t # "none"
  BY RafAssumption DEF RafRefused, OpTypes
<1>2. InOrder(t) /\ Quiet
  BY <1>1 DEF OrderlySession, InCall
<1>3. status # "UNKNOWN" /\ (t = "OPEN" \/ status = "OPENED")
  BY <1>2 DEF InOrder
<1>4. Callable(t)
  <2>1. status \in Statuses
    BY <1>2, <1>3 DEF InOrder, Statuses
  <2> QED
    BY <1>1, <1>3, <2>1
       DEF Callable, Op, OpTypes, OpenOp, CloseOp, EndOp, ReadOp, WriteOp, UnlinkOp
<1>5. loop
  BY <1>2, <1>3 DEF Quiet
<1>6. "ASYNC" \in Faults /\ CallInitFails(t)
  BY <1>4, <1>5 DEF RafRefused, CallBadState, CallNoLoop
<1> QED
  BY <1>6 DEF CallInitFails, AraThrow, SetError, Settable, ErrorCodes

\* What a callback panics for is a failure of the system.
LEMMA FailuresAreBlamed ==
  ASSUME RTypeOK, NEW r \in Req, Explained(r), OnFsFailure(r)
  PROVE  BlamedOn(r)
<1> USE ConstantFacts
<1>1. /\ view[r] \in [base : Nat, left : Nat, at : Nat]
      /\ result[r] \in Nat \union {Failed}
  BY DEF RTypeOK
<1>2. CASE \E t \in {"OPEN", "CLOSE", "UNLINK"} : Returned(r, t, "served") /\ result[r] = Failed
  BY <1>2 DEF Returned, Explained, BlamedOn
<1>3. CASE Returned(r, "READ", "served") /\ ~Ended(r) /\ result[r] <= 0
  BY <1>1, <1>3 DEF Returned, Ended, Left, Explained, BlamedOn
<1>4. CASE \E t \in {"OPEN", "WRITE"} : Returned(r, t, "statted") /\ result[r] = Failed
  BY <1>4 DEF Returned, Explained, BlamedOn
<1> QED
  BY <1>2, <1>3, <1>4 DEF OnFsFailure

\* After a panic nothing happens.
LEMMA UpBefore == ASSUME RNext PROVE up
BY DEF RNext, Client, RafInit, RafSet, RafAccepted, RafRefused, RafReturn, RafDeliver, RafUvClose,
       Worker, WorkPanics, WorkSubmits, WorkEnds, WorkEndStalls, WorkEndReturns, Starts,
       Pool, ServeOpen, ServeClose, ServeUnlink, ServeRead, ServeWrite, ServeStat, Serve,
       Callback, OnFsOpen, OnFsPlain, Resume, OnFsRead, OnFsWrite, OnFsStat, OnFsFailure,
       Returned, Idle

LEMMA PanicsAreBlamed ==
  ASSUME Ownership, RTypeOK, OrderlySession, OrderlyHandle, orderly,
         \A q \in Req : Explained(q), RNext, ~up'
  PROVE  Blamed'
<1>0. up
  BY UpBefore
<1>1. ASSUME NEW t \in Types, RafRefused(t) PROVE Blamed'
  BY <1>1, OnlyAsyncRefuses DEF Blamed
<1>2. ASSUME NEW r \in Req, NEW t \in Types, WorkPanics(r, t) PROVE FALSE
  BY <1>2, WorkersUse DEF WorkPanics
<1>3. ASSUME NEW r \in Req, OnFsFailure(r) PROVE Blamed'
  <2>1. BlamedOn(r)
    BY <1>3, FailuresAreBlamed
  <2>2. BlamedOn(r)'
    BY <1>3, <2>1 DEF OnFsFailure, FsFails, Panic, vars, transfers, BlamedOn, Left
  <2> QED
    BY <2>2 DEF Blamed
<1>4. ASSUME NEW r \in Req, Pool(r) PROVE FALSE
  BY <1>0, <1>4, PoolServes
<1> QED
  BY <1>0, <1>1, <1>2, <1>3, <1>4
     DEF RNext, Client, RafInit, RafSet, RafAccepted, RafReturn, RafDeliver, RafUvClose,
         Worker, WorkSubmits, WorkEnds, WorkEndStalls, WorkEndReturns, rafvars,
         Callback, OnFsOpen, OnFsPlain, Resume, OnFsRead, OnFsWrite, OnFsStat, FsDone

LEMMA AnswersInvariantStep ==
  /\ Ownership /\ RTypeOK /\ Owned /\ Progressing /\ (NoWrap => InFile)
  /\ OrderlySession /\ OrderlyHandle /\ OrderlyAnswers
  /\ [RNext]_rvars
  => OrderlyAnswers'
<1> SUFFICES ASSUME Ownership, RTypeOK, Owned, Progressing, NoWrap => InFile,
                    OrderlySession, OrderlyHandle, OrderlyAnswers, [RNext]_rvars,
                    orderly', NoWrap
             PROVE  (\A q \in Req : Explained(q)') /\ (~up' => Blamed')
  BY DEF OrderlyAnswers, NoWrap
<1>1. CASE RNext
  <2>1. orderly
    BY <1>1, PoolServes
       DEF RNext, Client, RafInit, RafSet, RafAccepted, RafRefused, Panic, RafReturn, RafDeliver,
           RafUvClose, Worker, WorkPanics, WorkSubmits, WorkEnds, WorkEndStalls, WorkEndReturns,
           Callback, OnFsOpen, OnFsPlain, Resume, OnFsRead, OnFsWrite, OnFsStat, OnFsFailure,
           FsFails, FsDone, rafvars, client
  <2> QED
    BY <1>1, <2>1, AnswersStep, PanicsAreBlamed DEF OrderlyAnswers
<1>2. CASE UNCHANGED rvars
  BY <1>2 DEF OrderlyAnswers, Explained, Blamed, BlamedOn, Left, rvars, vars, rafvars, client,
              transfers
<1> QED
  BY <1>1, <1>2

LEMMA AnswersInvariant == RSpec => []OrderlyAnswers
BY FileOwnership, FileTypes, OwnedInvariant, ProgressInvariant, InFileInvariant,
   OrderlySessionInvariant, HandleInvariant, AnswersInit, AnswersInvariantStep, PTL DEF RSpec

\* An orderly client of a file (OrderlyRunsClean) sees no panic that is not
\* owed to a failure of the system, and no error while its process runs.
THEOREM OrderlyClientsRun == RSpec => []OrderlyRunsClean
<1>1. OrderlySession /\ OrderlyAnswers => OrderlyRunsClean
  BY DEF OrderlySession, Quiet, OrderlyAnswers, OrderlyRunsClean, Pending
<1> QED
  BY <1>1, OrderlySessionInvariant, AnswersInvariant, PTL
=============================================================================
