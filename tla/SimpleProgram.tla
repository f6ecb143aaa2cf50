---------------------------- MODULE SimpleProgram ----------------------------
(***************************************************************************)
(* example/simple/main.c, which is also the example of the README: a       *)
(* random-access memory behind libara.  The worker of each operation calls *)
(* done() and then makes the next request, open, write, read and close;    *)
(* the memory is an ara_buffer_t made by main().  What is written and      *)
(* where is known to onopen() alone: the others find it in the request     *)
(* they serve, which ara_async_req_send() has filled from a static struct  *)
(* of the worker before.                                                   *)
(*                                                                         *)
(* All steps of the session are those of Ara, and all steps of the memory  *)
(* those of Buffer.  The code that runs is a script of calls.              *)
(***************************************************************************)
EXTENDS Ara

CONSTANTS
  Bufsiz,     \* BUFSIZ, the length of the memory
  Ranges,     \* the range onopen() names: [32, 16] of 8192 in the program
  Regions     \* what malloc() may return

ASSUME SimpleAssumption ==
  /\ Bufsiz \in Nat \ {0}
  /\ Ranges \subseteq [offset : Nat, length : Nat]
  /\ \A r \in Ranges : r.offset + r.length <= Bufsiz
  /\ "NULL" \notin Regions
  /\ {"OPEN", "CLOSE", "READ", "WRITE"} \subseteq Types

VARIABLES
  up,         \* the process has not failed an assert()
  script,     \* the calls the running code has yet to make
  range,      \* the offset and the length onopen() is written with
  static,     \* static[t]: the struct data of onopen() and of onwrite()
  posted,     \* posted[r]: req->data of request r
  shown,      \* what printf() was given, in order (history)
  spilled, present, alloc, made, careful, buffer, heap, answer    \* of Buffer

memory == <<spilled, present, alloc, made, careful, buffer, heap, answer>>
program == <<static, posted>>
svars == <<vars, up, script, range, program, shown, memory>>

Ram == INSTANCE Buffer WITH
         Bytes <- {"text", "null"}, Lengths <- {Bufsiz}, Wrap <- 2 * Bufsiz,
         AllocFails <- FALSE

Step(f, t) == [call |-> f, type |-> t]

\* A zeroed ara_async_data_t, which is also what open and close are given.
NoData == [offset |-> 0, length |-> 0, data |-> "null"]

\* main(), up to uv_run().
Main ==
  <<Step("BUFFER", "OPEN"), Step("INIT", "OPEN"), Step("LOOP", "OPEN"),
    Step("SET", "OPEN"), Step("SET", "CLOSE"), Step("SET", "READ"), Step("SET", "WRITE"),
    Step("MAKE", "OPEN")>>

\* Plausible bug: onread() asks for the close and forgets done().
Code_NotDone(t) ==
  CASE t = "OPEN"  -> <<Step("FILL", t), Step("DONE", t), Step("MAKE", "WRITE")>>
    [] t = "WRITE" -> <<Step("FILL", t), Step("STORE", t), Step("DONE", t), Step("MAKE", "READ")>>
    [] t = "READ"  -> <<Step("LOAD", t), Step("MAKE", "CLOSE")>>
    [] t = "CLOSE" -> <<Step("DONE", t), Step("DESTROY", t)>>

\* onopen(), onwrite(), onread() and onclose().
Code(t) ==
  CASE t = "OPEN"  -> <<Step("FILL", t), Step("DONE", t), Step("MAKE", "WRITE")>>
    [] t = "WRITE" -> <<Step("FILL", t), Step("STORE", t), Step("DONE", t), Step("MAKE", "READ")>>
    [] t = "READ"  -> <<Step("LOAD", t), Step("DONE", t), Step("MAKE", "CLOSE")>>
    [] t = "CLOSE" -> <<Step("DONE", t), Step("DESTROY", t)>>

SInit ==
  /\ Init
  /\ up = TRUE
  /\ script = Main
  /\ range \in Ranges
  /\ static = [t \in {"OPEN", "WRITE"} |-> NoData]
  /\ posted = [r \in Req |-> NoData]
  /\ shown = <<>>
  /\ Ram!BInit
  /\ present = TRUE

-----------------------------------------------------------------------------
\* Code runs in main() and in a worker, never while a callback does.
Running == up /\ script # <<>> /\ (stack # <<>> => Top.kind = "work")

Do(f, t) ==
  /\ Running
  /\ Head(script) = Step(f, t)
  /\ script' = Tail(script)
  /\ UNCHANGED range

OfAra == UNCHANGED <<up, static, shown, memory>>
OfRam == UNCHANGED <<vars, up, program>>

RamMade == Do("BUFFER", "OPEN") /\ Ram!BufferInit(Bufsiz) /\ OfRam /\ UNCHANGED shown

Initialised == Do("INIT", "OPEN") /\ AraInit /\ OfAra /\ UNCHANGED posted

LoopSet == Do("LOOP", "OPEN") /\ AraSetLoop /\ OfAra /\ UNCHANGED posted

WorkerSet(t) == Do("SET", t) /\ AraSet(t) /\ OfAra /\ UNCHANGED posted

\* Plausible bug: onwrite() copies the offset and forgets the length.
Filling_NoLength(t) ==
  IF t = "OPEN" THEN [offset |-> range.offset, length |-> range.length, data |-> "text"]
  ELSE [static[t] EXCEPT !.offset = posted[Top.req].offset]

\* onopen() names the text and its range, onwrite() copies the range it was
\* given; its data.data is NULL.
Filling(t) ==
  IF t = "OPEN" THEN [offset |-> range.offset, length |-> range.length, data |-> "text"]
  ELSE [static[t] EXCEPT !.offset = posted[Top.req].offset,
                         !.length = posted[Top.req].length]

DataFilled(t) ==
  /\ Do("FILL", t)
  /\ static' = [static EXCEPT ![t] = Filling(t)]
  /\ UNCHANGED <<vars, up, posted, shown, memory>>

\* The struct that ara_<op>() is given: onopen()'s, onwrite()'s, or none.
Given(t) ==
  IF t = "WRITE" THEN static["OPEN"] ELSE IF t = "READ" THEN static["WRITE"] ELSE NoData

\* ara_async_req_send() copies the struct into the request.  main() asserts
\* that its request is accepted; a worker does not look.
RequestMade(t) ==
  /\ Do("MAKE", t)
  /\ ApiCall(t)
  /\ posted' = [r \in Req |-> IF r \in sent' \ sent THEN Given(t) ELSE posted[r]]
  /\ up' = (stack = <<>> => sent' # sent)
  /\ UNCHANGED <<static, shown, memory>>

DoneCalled(t) == Do("DONE", t) /\ Done(Top.req) /\ OfAra /\ UNCHANGED posted

\* What is stored, and where, is what the request says.
Stored(t) ==
  /\ Do("STORE", t)
  /\ Ram!BufferWrite(posted[Top.req], posted[Top.req].data)
  /\ OfRam
  /\ UNCHANGED shown

Loaded(t) ==
  /\ Do("LOAD", t)
  /\ Ram!BufferRead(posted[Top.req])
  /\ OfRam
  /\ shown' = Append(shown, answer'.out)

RamDestroyed(t) == Do("DESTROY", t) /\ Ram!BufferDestroy /\ OfRam /\ UNCHANGED shown

-----------------------------------------------------------------------------
(***************************************************************************)
(* uv_run(), and the callbacks of the requests, which are all 0.           *)
(***************************************************************************)
Delivered(r) ==
  /\ up
  /\ script = <<>>
  /\ OnAsyncBegin(r)
  /\ script' = IF stack' # <<>> /\ stack'[1].kind = "work" THEN Code(op[r]) ELSE <<>>
  /\ OfAra
  /\ UNCHANGED <<range, posted>>

WorkerReturns ==
  up /\ script = <<>> /\ ReturnWork /\ UNCHANGED <<script, range, posted>> /\ OfAra

NoCallback == up /\ ReturnCallback /\ UNCHANGED <<script, range, posted>> /\ OfAra

HandleClosed(r) ==
  /\ up
  /\ script = <<>>
  /\ OnUvClose(r)
  /\ posted' = [posted EXCEPT ![r] = NoData]
  /\ UNCHANGED <<script, range>>
  /\ OfAra

SNext ==
  \/ RamMade
  \/ Initialised
  \/ LoopSet
  \/ \E t \in Types : \/ WorkerSet(t)
                      \/ DataFilled(t)
                      \/ RequestMade(t)
                      \/ DoneCalled(t)
                      \/ Stored(t)
                      \/ Loaded(t)
                      \/ RamDestroyed(t)
  \/ \E r \in Req : Delivered(r) \/ HandleClosed(r)
  \/ WorkerReturns
  \/ NoCallback

\* The process is given time as long as it can do anything.
SFairSpec == SInit /\ [][SNext]_svars /\ WF_svars(SNext)

-----------------------------------------------------------------------------
(***************************************************************************)
(* What is printed is the text of onopen() and all of it, although by then *)
(* onopen() and onwrite() have returned and their requests have ended: its *)
(* range went through two static structs and two requests, and the text    *)
(* through the memory, which is never overrun.                             *)
(***************************************************************************)
Text == [i \in 0..(range.length - 1) |-> "text"]

EchoesText == ~spilled /\ shown \in {<<>>, <<Text>>}

(***************************************************************************)
(* The program ends with no request left; and unless uv_async_init() has   *)
(* failed, the session is closed, the memory freed and the text printed.   *)
(***************************************************************************)
SimpleEnds ==
  <>[](~up \/ /\ Live = {} /\ stack = <<>>
              /\ error = "NONE" =>
                   status = "CLOSED" /\ DOMAIN heap = {} /\ shown = <<Text>>)
=============================================================================
