------------------------- MODULE AraContractProofs -------------------------
(***************************************************************************)
(* Theorems about AraContract.                                             *)
(***************************************************************************)
EXTENDS AraContract, TLAPS

CTypeOK ==
  /\ phase \in Statuses
  /\ fault \in BOOLEAN
  /\ kind \in [Req -> WorkTypes]
  /\ progress \in [Req -> Stages]

CInv == CTypeOK /\ AnswersAgree

LEMMA CInvInit == CInit => CInv
BY DEF CInit, CInv, CTypeOK, AnswersAgree, Statuses, WorkTypes, Stages

LEMMA CInvStep == CInv /\ [CNext]_cvars => CInv'
<1> SUFFICES ASSUME CInv, [CNext]_cvars
             PROVE  CInv'
  OBVIOUS
<1> USE DEF CInv, CTypeOK, AnswersAgree
<1>1. CASE Initialise
  BY <1>1 DEF Initialise, Statuses
<1>2. CASE Report
  BY <1>2 DEF Report
<1>3. ASSUME NEW r \in Req, NEW k \in OpTypes, Accept(r, k)
      PROVE  CInv'
  BY <1>3 DEF Accept, WorkTypes, Stages
<1>4. ASSUME NEW r \in Req, Begin(r)
      PROVE  CInv'
  BY <1>4 DEF Begin, Quiet, AnswerFrom, Statuses
<1>5. ASSUME NEW r \in Req, Answer(r)
      PROVE  CInv'
  <2>1. \A s \in Req : progress[s] = "answering" /\ ~ReInit => phase' = AnswerTo(kind[s])
    BY <1>5 DEF Answer, AnswerFrom, AnswerTo
  <2> QED
    BY <1>5, <2>1 DEF Answer, AnswerTo, Statuses, Stages
<1>6. ASSUME NEW r \in Req, Answered(r)
      PROVE  CInv'
  BY <1>6 DEF Answered, Stages
<1>7. ASSUME NEW r \in Req, Drop(r)
      PROVE  CInv'
  BY <1>7 DEF Drop, Stages
<1>8. ASSUME NEW r \in Req, Release(r)
      PROVE  CInv'
  BY <1>8 DEF Release, Quiet, WorkTypes, Stages
<1>9. CASE UNCHANGED cvars
  BY <1>9 DEF cvars
<1> QED
  BY <1>1, <1>2, <1>3, <1>4, <1>5, <1>6, <1>7, <1>8, <1>9 DEF CNext

\* Whoever is given an answer is told the truth about the session for as long
\* as it takes (AnswersAgree).
THEOREM AnswersTruthful == CSpec => []AnswersAgree
BY CInvInit, CInvStep, PTL DEF CSpec, CInv
=============================================================================
