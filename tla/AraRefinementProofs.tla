------------------------ MODULE AraRefinementProofs ------------------------
(***************************************************************************)
(* Ara implements AraContract: every step of the program is a step of the  *)
(* contract or leaves it alone, for every client.                          *)
(***************************************************************************)
EXTENDS AraProofs

\* The refinement mapping, by name.
Stage ==
  [r \in Req |-> IF r \notin Live THEN "none"
                 ELSE IF r \in Calling THEN "answering"
                 ELSE IF r \in closing THEN "ended"
                 ELSE "accepted"]

-----------------------------------------------------------------------------
(***************************************************************************)
(* The tables of the contract say what those of the program say.           *)
(***************************************************************************)
LEMMA ContractTable ==
  ASSUME NEW t \in OpTypes
  PROVE  /\ Op[t].expects = Contract!AnswerFrom(t)
         /\ Op[t].becomes = Contract!AnswerTo(t)
         /\ Op[t].during = Contract!AnswerFrom(t)
         /\ t \in {"OPEN", "CLOSE"} => Op[t].starts = Contract!BeginFrom(t)
BY OpTable DEF Contract!AnswerFrom, Contract!AnswerTo, Contract!BeginFrom

LEMMA RefineInit == Init => Contract!CInit
<1> SUFFICES ASSUME Init PROVE Contract!CInit
  OBVIOUS
<1>1. Live = {}
  BY DEF Init, Live
<1> QED
  BY <1>1 DEF Init, Contract!CInit, Pending

\* A step that keeps the requests where the contract sees them.
LEMMA SameStage ==
  ASSUME UNCHANGED <<op, closing, Calling>>
  PROVE  Stage' = Stage
BY DEF Stage, Live

LEMMA SameStack ==
  ASSUME UNCHANGED stack
  PROVE  UNCHANGED Calling
BY DEF Calling, IsCallback

\* A step that changes at most the error.
LEMMA RefineReport ==
  ASSUME UNCHANGED <<status, op, closing, stack>>
  PROVE  Contract!Report
<1>1. Stage' = Stage
  BY SameStage, SameStack
<1> QED
  BY <1>1 DEF Stage, Contract!Report, Pending

\* on_done() answers a request or drops it.
LEMMA RefineOnDone ==
  ASSUME Ownership,
         NEW r \in sent \union held, NEW e, Pending(error) => Pending(e), OnDone(r, e)
  PROVE  Contract!Answer(r) \/ Contract!Drop(r)
<1>1. r \in Req /\ r \in Live /\ r \notin closing /\ r \notin Calling
  BY DEF Ownership, TypeOK, OneOwner, NoDanglingRequest, Calling, IsCallback
<1>2. Stage[r] = "accepted" /\ op[r] \in OpTypes
  BY <1>1, LiveOp DEF Stage, Ownership
<1>3. CASE /\ Pending(error')
           /\ ReqEnd(r)
           /\ UNCHANGED <<status, stack>>
  <2>1. Live' = Live /\ Calling' = Calling /\ op' = op
    BY <1>3, SameStack DEF ReqEnd, Live
  <2>2. Stage' = [Stage EXCEPT ![r] = "ended"]
    BY <1>1, <1>3, <2>1 DEF Stage, ReqEnd
  <2> QED
    BY <1>2, <1>3, <2>1, <2>2 DEF Stage, Contract!Drop, Pending
<1>4. CASE Notify(r, e)
  <2> DEFINE f == [kind |-> "callback", req |-> r]
  <2>1. stack \in Seq(Frames) /\ f \in Frames /\ stack' = Append(stack, f)
    BY <1>1, <1>4 DEF Ownership, TypeOK, Frames, Notify, Enter
  <2>2. /\ DOMAIN stack' = 1..(Len(stack) + 1)
        /\ \A i \in DOMAIN stack : stack'[i] = stack[i]
        /\ stack'[Len(stack) + 1] = f
        /\ DOMAIN stack = 1..Len(stack)
        /\ Len(stack) \in Nat
    BY <2>1, EnterStack
  <2>3. Calling \union {r} \subseteq Calling'
    BY <2>2 DEF Calling, IsCallback
  <2>4. ASSUME NEW q \in Calling' PROVE q \in Calling \union {r}
    <3>1. PICK i \in DOMAIN stack' : stack'[i].kind = "callback" /\ q = stack'[i].req
      BY DEF Calling, IsCallback
    <3> QED
      BY <2>2, <3>1 DEF Calling, IsCallback
  <2>5. Live' = Live /\ op' = op /\ closing' = closing
    BY <1>4 DEF Notify, Live
  <2>6. Stage' = [Stage EXCEPT ![r] = "answering"]
    BY <1>1, <2>3, <2>4, <2>5 DEF Stage
  <2>7. Op[op[r]].expects = Contract!AnswerFrom(op[r]) /\ Op[op[r]].becomes = Contract!AnswerTo(op[r])
    BY <1>2, ContractTable
  <2>8. Pending(error) = FALSE /\ Pending(error)' = FALSE
    BY <1>4 DEF Notify, Pending
  <2> QED
    BY <1>2, <1>4, <2>5, <2>6, <2>7, <2>8 DEF Stage, Notify, Contract!Answer
<1>5. CASE DropPending(r, e) \/ DropBadState(r, e)
  <2>1. Pending(error')
    BY <1>5 DEF DropPending, DropBadState, Pending, SetError, Settable, ErrorCodes
  <2> QED
    BY <1>3, <1>5, <2>1 DEF DropPending, DropBadState
<1> QED
  BY <1>4, <1>5 DEF OnDone

LEMMA RefineStep == Ownership /\ [Next]_vars => [Contract!CNext]_(Contract!cvars)
<1> SUFFICES ASSUME Ownership, [Next]_vars
             PROVE  Contract!CNext \/ UNCHANGED Contract!cvars
  OBVIOUS
<1>a. TypeOK /\ OneOwner /\ NoDanglingRequest
  BY DEF Ownership
<1>1. CASE AraInit
  <2>1. UNCHANGED <<op, closing, Calling>> /\ Stage' = Stage
    BY <1>1, SameStage, SameStack DEF AraInit, requests
  <2>2. Live = {} => \A r \in Req : Stage[r] = "none"
    BY DEF Stage
  <2>3. Contract!Initialise
    BY <1>1, <2>1, <2>2 DEF AraInit, Stage, Contract!Initialise, Pending
  <2> QED
    BY <2>3 DEF Contract!CNext
<1>2. ASSUME UNCHANGED <<status, op, closing, stack>>
      PROVE  Contract!CNext
  BY <1>2, RefineReport DEF Contract!CNext
<1>3. CASE AraSetLoop \/ UNCHANGED vars
  BY <1>2, <1>3 DEF AraSetLoop, vars, requests
<1>4. ASSUME NEW t \in Types, AraSet(t)
      PROVE  Contract!CNext
  BY <1>2, <1>4 DEF AraSet, requests
<1>5. ASSUME NEW code, AraThrow(code)
      PROVE  Contract!CNext
  BY <1>2, <1>5 DEF AraThrow, requests
<1>6. ASSUME NEW t \in Types \ {"UNKNOWN"}, ApiCall(t)
      PROVE  Contract!CNext
  <2>1. ASSUME NEW r \in Req, CallAccepted(t, r)
        PROVE  Contract!CNext
    <3>1. t \in OpTypes
      BY ConstantsAssumption DEF WorkTypes
    <3>2. r \notin Live /\ r \notin Calling /\ r \notin closing /\ Calling' = Calling
      BY <1>a, <2>1, SameStack DEF CallAccepted, NoDanglingRequest, Calling
    <3>3. Live' = Live \union {r} /\ closing' = closing
      BY <1>a, <2>1, <3>1 DEF CallAccepted, Live, TypeOK, OpTypes
    <3>4. Stage[r] = "none" /\ Stage' = [Stage EXCEPT ![r] = "accepted"]
      BY <3>2, <3>3 DEF Stage
    <3>5. Contract!Accept(r, t)
      BY <2>1, <3>4 DEF CallAccepted, session, Stage, Contract!Accept, Pending
    <3> QED
      BY <3>1, <3>5 DEF Contract!CNext, Contract!OpTypes, OpTypes
  <2> QED
    BY <1>5, <1>6, <2>1 DEF ApiCall, CallBadState, CallNoLoop, CallNoCallback, CallInitFails
<1>7. stack = <<>> => Contract!Quiet
  <2>1. stack = <<>> => Calling = {}
    BY DEF Calling
  <2> QED
    BY <2>1 DEF Contract!Quiet
<1>8. ASSUME NEW r \in Req, OnAsyncBegin(r)
      PROVE  Contract!CNext
  <2>1. Deliver(r) /\ stack = <<>> /\ r \in sent /\ r \in Live /\ r \notin closing
    BY <1>8, <1>a DEF OnAsyncBegin, BeginNoCallback, BeginWork, BeginUnserved, BeginJoin,
                      BeginBadState, Deliver, OneOwner, NoDanglingRequest
  <2>2. op[r] \in OpTypes /\ Calling = {}
    BY <1>a, <2>1, LiveOp DEF Calling
  <2>3. ASSUME status \in Op[op[r]].starts,
               status' = Op[op[r]].during,
               Calling' = {},
               UNCHANGED <<error, op, closing>>
        PROVE  Contract!CNext
    <3>1. Stage' = Stage /\ Stage[r] = "accepted"
      BY <2>1, <2>2, <2>3, SameStage DEF Stage
    <3>2. CASE op[r] \in {"OPEN", "CLOSE"}
      <4>1. Contract!Begin(r)
        BY <1>7, <2>1, <2>2, <2>3, <3>1, <3>2, ContractTable DEF Stage, Contract!Begin, Pending
      <4> QED
        BY <4>1 DEF Contract!CNext
    <3>3. CASE op[r] \notin {"OPEN", "CLOSE"}
      <4>1. status' = status
        BY <2>2, <2>3, <3>3, OpTable
      <4>2. Contract!Report
        BY <2>3, <3>1, <4>1 DEF Stage, Contract!Report, Pending
      <4> QED
        BY <4>2 DEF Contract!CNext
    <3> QED
      BY <3>2, <3>3
  <2>4. CASE BeginNoCallback(r)
    BY <1>2, <2>4 DEF BeginNoCallback
  <2>5. CASE BeginWork(r)
    <3>1. stack' = <<[kind |-> "work", req |-> r]>>
      BY <2>1, <2>5 DEF BeginWork, Enter
    <3>2. Calling' = {}
      BY <3>1 DEF Calling, IsCallback
    <3> QED
      BY <2>3, <2>5, <3>2 DEF BeginWork
  <2>6. CASE BeginUnserved(r)
    BY <2>2, <2>3, <2>6, SameStack DEF BeginUnserved
  <2>7. CASE BeginJoin(r) \/ BeginBadState(r)
    <3>1. PICK e : OnDone(r, e) /\ (Pending(error) => Pending(e))
      BY <2>7 DEF BeginJoin, BeginBadState, SetError, Pending, Settable
    <3>2. Contract!Answer(r) \/ Contract!Drop(r)
      BY <2>1, <3>1, RefineOnDone
    <3> QED
      BY <3>2 DEF Contract!CNext
  <2> QED
    BY <1>8, <2>4, <2>5, <2>6, <2>7 DEF OnAsyncBegin
<1>9. ASSUME NEW r \in Req, WorkDone(r)
      PROVE  Contract!CNext
  <2>1. Contract!Answer(r) \/ Contract!Drop(r)
    BY <1>9, RefineOnDone DEF WorkDone, Done
  <2> QED
    BY <2>1 DEF Contract!CNext
<1>10. CASE ReturnWork
  <2>1. stack \in Seq(Frames) /\ stack # <<>>
    BY <1>a, <1>10 DEF ReturnWork, TypeOK
  <2>2. /\ DOMAIN stack = 1..Len(stack)
        /\ DOMAIN stack' = 1..(Len(stack) - 1)
        /\ \A i \in 1..(Len(stack) - 1) : stack'[i] = stack[i]
        /\ Len(stack) \in Nat \ {0}
    BY <1>10, <2>1, LeaveStack DEF ReturnWork, Leave
  <2>3. stack[Len(stack)].kind = "work"
    BY <1>10 DEF ReturnWork, Top
  <2>4. Calling' = Calling
    <3>1. {j \in DOMAIN stack' : stack'[j].kind = "callback"}
            = {j \in DOMAIN stack : stack[j].kind = "callback"}
      BY <2>2, <2>3
    <3> QED
      BY <2>2, <3>1 DEF Calling, IsCallback
  <2>5. Stage' = Stage
    BY <1>10, <2>4, SameStage DEF ReturnWork, requests
  <2>6. Contract!Report
    BY <1>10, <2>5 DEF ReturnWork, session, requests, Stage, Contract!Report, Pending
  <2> QED
    BY <2>6 DEF Contract!CNext
<1>11. CASE ReturnCallback
  <2> DEFINE n == Len(stack)
  <2>1. stack \in Seq(Frames) /\ stack # <<>>
    BY <1>a, <1>11 DEF ReturnCallback, TypeOK
  <2>2. /\ DOMAIN stack = 1..n
        /\ DOMAIN stack' = 1..(n - 1)
        /\ \A i \in 1..(n - 1) : stack'[i] = stack[i]
        /\ n \in Nat \ {0}
    BY <1>11, <2>1, LeaveStack DEF ReturnCallback, Leave
  <2>a. n \in DOMAIN stack /\ stack[n].req \in Req
    BY <1>a, <2>2 DEF NoDanglingRequest, Live
  <2>r. PICK r \in Req : r = stack[n].req
    BY <2>a
  <2>3. /\ n \in DOMAIN stack /\ IsCallback(n) /\ r = stack[n].req
        /\ closing' = closing \union {r} /\ op' = op
    BY <1>11, <2>a, <2>r DEF ReturnCallback, ReqEnd, Top, IsCallback
  <2>4. r \in Live /\ r \in Req /\ r \in Calling /\ r \notin closing
    BY <1>a, <2>3 DEF NoDanglingRequest, OneOwner, Live, Calling
  <2>5. Calling' = Calling \ {r}
    <3>1. ASSUME NEW q \in Calling' PROVE q \in Calling /\ q # r
      <4>1. PICK i \in DOMAIN stack' : stack'[i].kind = "callback" /\ q = stack'[i].req
        BY DEF Calling, IsCallback
      <4>2. i \in DOMAIN stack /\ i # n /\ IsCallback(i) /\ q = stack[i].req
        BY <2>2, <4>1 DEF IsCallback
      <4> QED
        BY <1>a, <2>3, <4>2 DEF OneOwner, Calling
    <3>2. ASSUME NEW q \in Calling, q # r PROVE q \in Calling'
      <4>1. PICK i \in DOMAIN stack : IsCallback(i) /\ q = stack[i].req
        BY DEF Calling
      <4>2. i \in DOMAIN stack' /\ stack'[i] = stack[i]
        BY <2>2, <2>r, <3>2, <4>1
      <4> QED
        BY <4>1, <4>2 DEF Calling, IsCallback
    <3> QED
      BY <3>1, <3>2
  <2>6. Stage[r] = "answering" /\ Stage' = [Stage EXCEPT ![r] = "ended"]
    BY <2>3, <2>4, <2>5 DEF Stage, Live
  <2>7. Contract!Answered(r)
    BY <1>11, <2>3, <2>6 DEF ReturnCallback, session, Stage, Contract!Answered, Pending
  <2> QED
    BY <2>7 DEF Contract!CNext
<1>12. ASSUME NEW r \in Req, OnUvClose(r)
       PROVE  Contract!CNext
  <2>1. stack = <<>> /\ Calling = {} /\ Calling' = {} /\ r \in Live /\ r \in closing
    BY <1>a, <1>12, SameStack DEF OnUvClose, NoDanglingRequest, Calling
  <2>2. Live' = Live \ {r}
    BY <1>a, <1>12 DEF OnUvClose, Live, TypeOK
  <2>3. Stage[r] = "ended" /\ Stage' = [Stage EXCEPT ![r] = "none"]
    BY <1>12, <2>1, <2>2 DEF OnUvClose, Stage
  <2>4. Contract!Release(r)
    BY <1>7, <1>12, <2>1, <2>3 DEF OnUvClose, session, Stage, Contract!Release, Pending
  <2> QED
    BY <2>4 DEF Contract!CNext
<1> QED
  BY <1>1, <1>3, <1>4, <1>5, <1>6, <1>8, <1>9, <1>10, <1>11, <1>12 DEF Next

\* libara keeps its contract (KeepsContract), whatever its client does: a
\* request is answered at most once, in the status its operation leads to,
\* or dropped with an error; the loop stands still while it is answered.
THEOREM Implements == Spec => KeepsContract
BY RefineInit, RefineStep, OwnershipInvariant, PTL DEF Spec, KeepsContract, Contract!CSpec
=============================================================================
