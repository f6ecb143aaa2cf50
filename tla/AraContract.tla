---------------------------- MODULE AraContract ----------------------------
(***************************************************************************)
(* What libara promises to a client, without handles, workers, bits or     *)
(* stacks: a request that is accepted is answered or dropped, never both   *)
(* and never twice; it is answered in the one status its operation leads   *)
(* to; a drop leaves an error; while an answer is being given the loop     *)
(* stands still.                                                           *)
(***************************************************************************)
EXTENDS AraTypes

CONSTANTS
  Req,        \* the request slots of the heap
  ReInit      \* may this client call ara_init() on a struct already in use?

ASSUME ReInitAssumption == ReInit \in BOOLEAN

VARIABLES
  phase,      \* the status of the session
  fault,      \* an error is pending
  kind,       \* kind[r]: the operation of request r, UNKNOWN for a free slot
  progress    \* progress[r]: how far request r has come

cvars == <<phase, fault, kind, progress>>

Stages == {"none", "accepted", "answering", "ended"}

\* The status an answer to an operation needs, and the one it is given in.
AnswerFrom(k) ==
  IF k = "OPEN" THEN "OPENING" ELSE IF k = "CLOSE" THEN "CLOSING" ELSE "OPENED"
AnswerTo(k) ==
  IF k = "OPEN" THEN "OPENED" ELSE IF k = "CLOSE" THEN "CLOSED" ELSE "OPENED"

\* The statuses a session moves on from when an operation begins, and where to.
BeginFrom(k) ==
  IF k = "OPEN" THEN {"INIT"} ELSE IF k = "CLOSE" THEN {"OPENING", "OPENED"} ELSE {}

Quiet == \A r \in Req : progress[r] # "answering"

-----------------------------------------------------------------------------
CInit ==
  /\ phase = "UNKNOWN"
  /\ fault = TRUE
  /\ kind = [r \in Req |-> "UNKNOWN"]
  /\ progress = [r \in Req |-> "none"]

Initialise ==
  /\ ReInit \/ (phase = "UNKNOWN" /\ \A r \in Req : progress[r] = "none")
  /\ phase' = "INIT"
  /\ fault' = FALSE
  /\ UNCHANGED <<kind, progress>>

\* A call is refused, a client throws or clears an error.
Report ==
  /\ fault' \in BOOLEAN
  /\ UNCHANGED <<phase, kind, progress>>

Accept(r, k) ==
  /\ progress[r] = "none"
  /\ kind' = [kind EXCEPT ![r] = k]
  /\ progress' = [progress EXCEPT ![r] = "accepted"]
  /\ UNCHANGED <<phase, fault>>

\* Plausible bug: an operation begins inside the answer to another one.
Begin_Reentrant(r) ==
  /\ progress[r] = "accepted"
  /\ phase \in BeginFrom(kind[r])
  /\ phase' = AnswerFrom(kind[r])
  /\ UNCHANGED <<fault, kind, progress>>

\* The session goes to OPENING or CLOSING on behalf of request r.
Begin(r) ==
  /\ Quiet
  /\ progress[r] = "accepted"
  /\ phase \in BeginFrom(kind[r])
  /\ phase' = AnswerFrom(kind[r])
  /\ UNCHANGED <<fault, kind, progress>>

Answer(r) ==
  /\ progress[r] = "accepted"
  /\ ~fault
  /\ phase = AnswerFrom(kind[r])
  /\ phase' = AnswerTo(kind[r])
  /\ progress' = [progress EXCEPT ![r] = "answering"]
  /\ UNCHANGED <<fault, kind>>

Answered(r) ==
  /\ progress[r] = "answering"
  /\ progress' = [progress EXCEPT ![r] = "ended"]
  /\ UNCHANGED <<phase, fault, kind>>

Drop(r) ==
  /\ progress[r] = "accepted"
  /\ fault' = TRUE
  /\ progress' = [progress EXCEPT ![r] = "ended"]
  /\ UNCHANGED <<phase, kind>>

Release(r) ==
  /\ Quiet
  /\ progress[r] = "ended"
  /\ kind' = [kind EXCEPT ![r] = "UNKNOWN"]
  /\ progress' = [progress EXCEPT ![r] = "none"]
  /\ UNCHANGED <<phase, fault>>

CNext ==
  \/ Initialise
  \/ Report
  \/ \E r \in Req : \/ \E k \in OpTypes : Accept(r, k)
                    \/ Begin(r)
                    \/ Answer(r)
                    \/ Answered(r)
                    \/ Drop(r)
                    \/ Release(r)

CSpec == CInit /\ [][CNext]_cvars

-----------------------------------------------------------------------------
(***************************************************************************)
(* An answer that is being given agrees with the session, whatever other   *)
(* answers are given inside it: nobody who is told that the session is     *)
(* open is told so while it closes.                                        *)
(***************************************************************************)
AnswersAgree ==
  ~ReInit => \A r \in Req : progress[r] = "answering" => phase = AnswerTo(kind[r])
=============================================================================
